--------------------------- MODULE RequestContext ---------------------------
(***************************************************************************)
(* The request context: what defineContext makes of a declaration of       *)
(* fields, how ContextModule populates the context of a unit of work from  *)
(* what its transport carries, and how Context reads, writes and           *)
(* propagates it.  Units of work call each other, so a field declared once *)
(* travels over several services.                                          *)
(*                                                                         *)
(* A field is on the wire under its carrier; the field stands for its      *)
(* name.  Carrier names, like the keys fields are logged under, are taken  *)
(* to be distinct.  AsyncLocalStorage keeps the contexts of concurrent     *)
(* units apart, and the synchronous parts of setup and set are one step.   *)
(***************************************************************************)
EXTENDS Naturals, FiniteSets

CONSTANTS
  Units,         \* units of work, of any number of services
  TrustOf,       \* how much the listener of each is trusted
  MintsId,       \* whether its transport decides req.id (Fastify) or not
  Fields,
  Declarations,  \* the declarations considered
  Wires,         \* what is on the wire
  Values,        \* what satisfies the contract of a field
  Uuids,         \* what randomUUID draws
  Encode,        \* serialize
  Decode,        \* safeParse, giving a value or Malformed
  Malformed,
  Absent,        \* undefined
  Outside        \* a caller that is no unit of work: the public internet

Trusts == {"edge", "internal"}

Declaration ==
  [carrier : BOOLEAN, trust : Trusts \cup {"never"}, generates : BOOLEAN,
   propagate : BOOLEAN, echo : BOOLEAN, log : BOOLEAN,
   writable : {"setup", "once", "always"}, id : BOOLEAN]

ASSUME TrustIsDeclared == TrustOf \in [Units -> Trusts] /\ MintsId \in [Units -> BOOLEAN]
ASSUME DeclarationsAreDeclarations ==
  \A d \in Declarations :
    /\ d \in [Fields -> Declaration]
    /\ \A f, g \in Fields : d[f].id /\ d[g].id => f = g   \* else defineContext throws
ASSUME CodecIsACodec ==
  /\ Encode \in [Values \cup Wires -> Wires]
  /\ Decode \in [Wires -> Values \cup {Malformed}]
  /\ \A v \in Values : Decode[Encode[v]] = v
ASSUME NothingsAreApart ==
  /\ Malformed \notin Values \cup {Absent} /\ Absent \notin Values \cup Wires
  /\ Outside \notin Units /\ Uuids \subseteq Wires

VARIABLES
  decl,      \* the declaration every service of this system shares
  phase,
  caller,    \* Outside, or the unit whose outbound call this unit is
  inbound,   \* what the transport carried
  reqId,     \* the id the transport decided
  ctxId,     \* cls.getId()
  store, bindings,
  echoed,    \* response headers
  rejected,  \* fields onRejected was called for
  drawn,     \* history: what generate() and randomUUID() have drawn, as on the wire
  tainted    \* history: fields for which somebody outside chose what is here

vars == <<decl, phase, caller, inbound, reqId, ctxId, store, bindings, echoed, rejected,
          drawn, tainted>>

Nothing == [f \in Fields |-> Absent]

Init ==
  /\ decl \in Declarations
  /\ phase = [u \in Units |-> "new"]
  /\ caller = [u \in Units |-> Outside]
  /\ inbound = [u \in Units |-> Nothing]
  /\ reqId = [u \in Units |-> Absent]
  /\ ctxId = [u \in Units |-> Absent]
  /\ store = [u \in Units |-> Nothing]
  /\ bindings = [u \in Units |-> Nothing]
  /\ echoed = [u \in Units |-> Nothing]
  /\ rejected = [u \in Units |-> {}]
  /\ drawn = {}
  /\ tainted = [u \in Units |-> {}]

-----------------------------------------------------------------------------
(* defineContext *)

IdFields == {f \in Fields : decl[f].id}

(* Bug: the trust of the transport is not asked for. *)
AcceptsAnyone(f, trust) == decl[f].carrier /\ decl[f].trust # "never"

Accepts(f, trust) ==
  /\ decl[f].carrier
  /\ decl[f].trust # "never"
  /\ decl[f].trust = "edge" \/ trust = "internal"

Parsed(f, raw, trust) ==
  IF Accepts(f, trust) /\ raw # Absent THEN Decode[raw] ELSE Absent

Adopted(f, raw, trust) == Parsed(f, raw, trust) \in Values

(* Random draws give what nobody has yet. *)
FreshWires == {w \in Wires : /\ w \notin drawn
                             /\ \A u \in Units, f \in Fields : w # inbound[u][f]}

Fresh == {v \in Values : Encode[v] \in FreshWires}

FreshUuids == Uuids \cap FreshWires

(* Bug: the contract is not applied. *)
ExtractedUnchecked(f, raw, trust) ==
  IF Accepts(f, trust) /\ raw # Absent THEN {raw}
  ELSE IF decl[f].generates THEN Fresh ELSE {Absent}

(* What extraction may give a field, which generates where nothing is adopted. *)
Extracted(f, raw, trust) ==
  IF Adopted(f, raw, trust) THEN {Parsed(f, raw, trust)}
  ELSE IF decl[f].generates THEN Fresh ELSE {Absent}

(* extractId(...) ?? randomUUID(), of Fastify's genReqId and of idGenerator. *)
ExtractedIds(raw, trust) ==
  LET Of(f) == UNION {IF v = Absent THEN FreshUuids ELSE {Encode[v]} :
                        v \in Extracted(f, raw[f], trust)}
  IN IF IdFields = {} THEN FreshUuids ELSE UNION {Of(f) : f \in IdFields}

Rejected(f, raw, trust) == Parsed(f, raw, trust) = Malformed

Stores == [Fields -> Values \cup Wires \cup {Absent}]

Bindings(s) == [f \in Fields |-> IF decl[f].log THEN s[f] ELSE Absent]

(* Bug: only what the caller sent is passed on, never what was generated here. *)
HeadersOfNonIds(s) ==
  [f \in Fields |->
     IF decl[f].propagate /\ decl[f].carrier /\ ~decl[f].id /\ s[f] # Absent
     THEN Encode[s[f]] ELSE Absent]

Headers(s) ==
  [f \in Fields |->
     IF decl[f].propagate /\ decl[f].carrier /\ s[f] # Absent THEN Encode[s[f]] ELSE Absent]

Echoes(s) == [f \in Fields |-> IF decl[f].echo THEN Headers(s)[f] ELSE Absent]

-----------------------------------------------------------------------------
(* The transport: a request is here, and Fastify has named it. *)

Receive(u, from, carried, suspect) ==
  /\ phase[u] = "new"
  /\ phase' = [phase EXCEPT ![u] = "arrived"]
  /\ caller' = [caller EXCEPT ![u] = from]
  /\ inbound' = [inbound EXCEPT ![u] = carried]
  /\ tainted' = [tainted EXCEPT ![u] = suspect]
  /\ IF MintsId[u]
     THEN \E id \in ExtractedIds(carried, TrustOf[u]) :
            /\ reqId' = [reqId EXCEPT ![u] = id]
            /\ drawn' = drawn \cup {id}
     ELSE UNCHANGED <<reqId, drawn>>
  /\ UNCHANGED <<decl, ctxId, store, bindings, echoed, rejected>>

(* From the internet, which reaches the edge and nothing else. *)
Arrive(u) ==
  /\ TrustOf[u] = "edge"
  /\ \E carried \in [Fields -> Wires \cup {Absent}] :
       /\ \A f \in Fields : ~decl[f].carrier => carried[f] = Absent
       /\ Receive(u, Outside, carried, {f \in Fields : carried[f] # Absent})

(* An outbound call that carries context.headers(), or inject(). *)
Call(p, u) ==
  /\ phase[p] = "running"
  /\ Receive(u, p, Headers(store[p]), tainted[p])

-----------------------------------------------------------------------------
(* ContextModule's middleware *)

(* Bug: the id of the transport is not asked for. *)
OwnId(u) == ExtractedIds(inbound[u], TrustOf[u])

ContextIds(u) == IF MintsId[u] THEN {reqId[u]} ELSE ExtractedIds(inbound[u], TrustOf[u])

Populated(u, id) ==
  {s \in Stores : \A f \in Fields :
     IF decl[f].id THEN s[f] = id ELSE s[f] \in Extracted(f, inbound[u][f], TrustOf[u])}

(* The id of the transport overrides the id field, which is then not parsed. *)
Reported(u) ==
  {f \in Fields : /\ Rejected(f, inbound[u][f], TrustOf[u])
                  /\ decl[f].id => ~MintsId[u]}

Drawn(u, s) ==
  {Encode[s[f]] : f \in {g \in Fields : s[g] # Absent /\ ~decl[g].id}}

Populate(u) ==
  /\ phase[u] = "arrived"
  /\ phase' = [phase EXCEPT ![u] = "running"]
  /\ \E id \in ContextIds(u) : \E s \in Populated(u, id) :
       /\ ctxId' = [ctxId EXCEPT ![u] = id]
       /\ store' = [store EXCEPT ![u] = s]
       /\ bindings' = [bindings EXCEPT ![u] = Bindings(s)]
       /\ echoed' = [echoed EXCEPT ![u] = Echoes(s)]
       /\ drawn' = drawn \cup {id} \cup Drawn(u, s)
  /\ rejected' = [rejected EXCEPT ![u] = Reported(u)]
  /\ tainted' = [tainted EXCEPT ![u] =
                    {f \in @ : Adopted(f, inbound[u][f], TrustOf[u])}]
  /\ UNCHANGED <<decl, caller, inbound, reqId>>

(* runWithContext: a scheduled job or a test, with the values it is given. *)
RunWithContext(u) ==
  /\ phase[u] = "new"
  /\ phase' = [phase EXCEPT ![u] = "running"]
  /\ \E values \in [Fields -> Values \cup {Absent}] : \E s \in Stores :
       /\ \A f \in Fields :
            IF values[f] # Absent THEN s[f] = values[f]
            ELSE s[f] \in Extracted(f, Absent, "edge")
       /\ ctxId' = [ctxId EXCEPT ![u] =
                       IF IdFields = {} THEN @ ELSE s[CHOOSE f \in IdFields : TRUE]]
       /\ store' = [store EXCEPT ![u] = s]
       /\ bindings' = [bindings EXCEPT ![u] = Bindings(s)]
       /\ drawn' = drawn \cup {Encode[s[f]] : f \in {g \in Fields : s[g] # Absent}}
  /\ UNCHANGED <<decl, caller, inbound, reqId, echoed, rejected, tainted>>

-----------------------------------------------------------------------------
(* Context.set *)

(* Bug: a field is rewritten although it has its value. *)
MaySetAnyField(u, f) == decl[f].writable # "setup"

MaySet(u, f) ==
  /\ decl[f].writable # "setup"
  /\ decl[f].writable = "once" => store[u][f] = Absent

(* Bug: the snapshot the logger reads is the one of the setup. *)
StaleBindings(u, f, s) == bindings[u]

RefreshedBindings(u, f, s) == IF decl[f].log THEN Bindings(s) ELSE bindings[u]

SetField(u, f, v) ==
  /\ phase[u] = "running"
  /\ MaySet(u, f)
  /\ LET s == [store[u] EXCEPT ![f] = v] IN
       /\ store' = [store EXCEPT ![u] = s]
       /\ bindings' = [bindings EXCEPT ![u] = RefreshedBindings(u, f, s)]
  /\ tainted' = [tainted EXCEPT ![u] = @ \ {f}]
  /\ UNCHANGED <<decl, phase, caller, inbound, reqId, ctxId, echoed, rejected, drawn>>

-----------------------------------------------------------------------------
Next ==
  \E u \in Units :
    \/ Arrive(u)
    \/ \E p \in Units : Call(p, u)
    \/ Populate(u)
    \/ RunWithContext(u)
    \/ \E f \in Fields, v \in Values : SetField(u, f, v)

Spec == Init /\ [][Next]_vars

-----------------------------------------------------------------------------
(* What the context promises *)

Carried == [Fields -> Wires \cup {Absent}]

(* Everything is of its type; in particular what a unit of work reads of    *)
(* its context satisfies the contract of the field (field.builders.ts:30).  *)
TypeOK ==
  /\ decl \in Declarations
  /\ phase \in [Units -> {"new", "arrived", "running"}]
  /\ caller \in [Units -> Units \cup {Outside}]
  /\ inbound \in [Units -> Carried]
  /\ reqId \in [Units -> Wires \cup {Absent}]
  /\ ctxId \in [Units -> Values \cup Wires \cup {Absent}]
  /\ store \in [Units -> Stores]
  /\ bindings \in [Units -> Stores]
  /\ echoed \in [Units -> Carried]
  /\ rejected \in [Units -> SUBSET Fields]
  /\ drawn \subseteq Wires
  /\ tainted \in [Units -> SUBSET Fields]

(* What is on every log line and every outbound call of a unit of work has  *)
(* passed the contract of its field (field.builders.ts:30-33).              *)
StoreKeepsContracts ==
  \A u \in Units, f \in Fields : store[u][f] \in Values \cup {Absent}

(* Whatever chain of services a request takes, no field has a value that    *)
(* somebody outside chose unless its declaration trusts the edge            *)
(* (field.types.ts:6-9, config/context.ts:14-17).                           *)
NothingForged ==
  \A u \in Units : phase[u] = "running" =>
    \A f \in tainted[u] : decl[f].trust = "edge"

(* One id across Fastify's own lines, ours and the store, as long as the    *)
(* unit of work runs (fastify.context.ts:9, context.module.ts:74-77).       *)
OneIdPerUnit ==
  \A u \in Units : phase[u] = "running" /\ ctxId[u] # Absent =>
    /\ MintsId[u] /\ reqId[u] # Absent => ctxId[u] = reqId[u]
    /\ \A f \in IdFields :
         /\ store[u][f] = ctxId[u]
         /\ decl[f].log => bindings[u][f] = ctxId[u]

(* The services a request goes through all name it alike, if the id travels *)
(* and the one that is called honours it from where it is mounted           *)
(* (context.registry.ts:23-24).                                             *)
CorrelationSurvivesAHop ==
  \A u \in Units : phase[u] = "running" /\ caller[u] \in Units /\ ctxId[caller[u]] # Absent =>
    \A f \in IdFields :
      decl[f].propagate /\ Accepts(f, TrustOf[u]) => ctxId[u] = ctxId[caller[u]]

(* The lines a unit of work logs carry its fields as they are now, not as   *)
(* the setup left them (context.service.ts:72).                             *)
BindingsAreFresh ==
  \A u \in Units, f \in Fields : decl[f].log => bindings[u][f] = store[u][f]

(* What a unit told a peer or its caller stays what it says itself, unless  *)
(* the field is declared to change: a rewritten tenant id is a bug, an id   *)
(* that changes makes the logs a lie (context.service.ts:49).               *)
NothingToldIsRewritten ==
  \A f \in Fields : decl[f].writable # "always" =>
    \A u \in Units :
      /\ echoed[u][f] # Absent => Encode[store[u][f]] = echoed[u][f]
      /\ caller[u] \in Units /\ inbound[u][f] # Absent =>
           Encode[store[caller[u]][f]] = inbound[u][f]

-----------------------------------------------------------------------------
(* What the comments say and the code does not do *)

(* "An inbound value was present but failed its contract, and was           *)
(* discarded" is reported (context.module.ts:24).                           *)
RejectionsAreReported ==
  \A u \in Units : phase[u] = "running" =>
    \A f \in Fields : Rejected(f, inbound[u][f], TrustOf[u]) => f \in rejected[u]
=============================================================================
