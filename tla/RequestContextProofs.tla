------------------------ MODULE RequestContextProofs ------------------------
(***************************************************************************)
(* The theorems about RequestContext, for any services, any declarations   *)
(* and any codec.                                                          *)
(*                                                                         *)
(* ContextInv is inductive.  NothingForged needs to know of a request that *)
(* has arrived what has not been filtered yet: fields an outsider chose    *)
(* that edges are not trusted with are there only at the edge.  That what  *)
(* was told stays true needs to know that only a unit with a context ever  *)
(* called, and that what it told was not absent.  Contracts and hops come  *)
(* last: they follow the name Fastify gave into the store, and a caller's  *)
(* store into what its peer received.                                      *)
(***************************************************************************)
EXTENDS RequestContext, TLAPS

(* A request that Fastify received has been named by it. *)
ArrivedIsNamed ==
  \A u \in Units : phase[u] = "arrived" /\ MintsId[u] => reqId[u] \in Wires

(* Until a request is populated, the edge may hold anything. *)
TaintIsContained ==
  \A u \in Units :
    /\ phase[u] = "new" => tainted[u] = {}
    /\ \A f \in tainted[u] :
         \/ decl[f].trust = "edge"
         \/ phase[u] = "arrived" /\ TrustOf[u] = "edge"

(* A unit that called is at work, and told what it had. *)
CallsAreTrue ==
  \A u \in Units : caller[u] \in Units =>
    /\ phase[caller[u]] = "running"
    /\ \A f \in Fields : inbound[u][f] # Absent =>
         /\ store[caller[u]][f] # Absent
         /\ decl[f].writable # "always" => Encode[store[caller[u]][f]] = inbound[u][f]

(* A unit that answered said what it had. *)
EchoesAreTrue ==
  \A u \in Units, f \in Fields : echoed[u][f] # Absent =>
    /\ phase[u] = "running"
    /\ store[u][f] # Absent
    /\ decl[f].writable # "always" => Encode[store[u][f]] = echoed[u][f]

ContextInv ==
  /\ TypeOK
  /\ ArrivedIsNamed
  /\ TaintIsContained
  /\ CallsAreTrue
  /\ EchoesAreTrue
  /\ BindingsAreFresh

-----------------------------------------------------------------------------
(* What the operators of the declaration give *)

(* extractId(...) ?? randomUUID() is a string (context.registry.ts:103). *)
LEMMA IdsAreWires ==
  ASSUME decl \in Declarations, NEW raw \in Carried, NEW trust
  PROVE  ExtractedIds(raw, trust) \subseteq Wires
<1>1. FreshUuids \subseteq Wires
  BY DEF FreshUuids, FreshWires
<1>2. ASSUME NEW f \in Fields, NEW v \in Extracted(f, raw[f], trust)
      PROVE  v \in Values \cup {Absent}
  BY <1>2 DEF Extracted, Adopted, Fresh
<1>3. ASSUME NEW v \in Values PROVE Encode[v] \in Wires
  BY <1>3, CodecIsACodec
<1> QED
  BY <1>1, <1>2, <1>3 DEF ExtractedIds, IdFields

(* headers() and inject() carry strings, and only of fields that are set. *)
LEMMA HeadersAreCarried ==
  ASSUME NEW s \in Stores
  PROVE  /\ Headers(s) \in Carried
         /\ \A f \in Fields : Headers(s)[f] # Absent =>
              s[f] # Absent /\ Headers(s)[f] = Encode[s[f]]
<1>1. ASSUME NEW f \in Fields, s[f] # Absent PROVE Encode[s[f]] \in Wires
  BY <1>1, CodecIsACodec DEF Stores
<1> QED
  BY <1>1 DEF Headers, Carried

(* The echo is made of them (context.module.ts:98). *)
LEMMA EchoesAreCarried ==
  ASSUME NEW s \in Stores
  PROVE  /\ Echoes(s) \in Carried
         /\ \A f \in Fields : Echoes(s)[f] # Absent =>
              s[f] # Absent /\ Echoes(s)[f] = Encode[s[f]]
BY HeadersAreCarried DEF Echoes, Carried

LEMMA BindingsAreOfStores ==
  ASSUME NEW s \in Stores
  PROVE  /\ Bindings(s) \in Stores
         /\ \A f \in Fields : decl[f].log => Bindings(s)[f] = s[f]
BY DEF Bindings, Stores

-----------------------------------------------------------------------------
(* The initial state *)

LEMMA InitIsConsistent == Init => ContextInv
<1> SUFFICES ASSUME Init PROVE ContextInv
  OBVIOUS
<1> USE DEF Init, Nothing
<1>1. TypeOK
  BY DEF TypeOK, Carried, Stores
<1>2. ArrivedIsNamed /\ TaintIsContained
  BY DEF ArrivedIsNamed, TaintIsContained
<1>3. CallsAreTrue /\ EchoesAreTrue /\ BindingsAreFresh
  BY NothingsAreApart DEF CallsAreTrue, EchoesAreTrue, BindingsAreFresh
<1> QED
  BY <1>1, <1>2, <1>3 DEF ContextInv

-----------------------------------------------------------------------------
(* Each step *)

(* What a request brings is contained if the caller's fields are, and true  *)
(* if they are the caller's.                                                *)
LEMMA ReceiveKeepsInv ==
  ASSUME ContextInv, NEW u \in Units, NEW from \in Units \cup {Outside},
         NEW carried \in Carried, NEW suspect \in SUBSET Fields,
         Receive(u, from, carried, suspect),
         TrustOf[u] = "edge" \/ \A f \in suspect : decl[f].trust = "edge",
         from \in Units =>
           /\ phase[from] = "running"
           /\ \A f \in Fields : carried[f] # Absent =>
                store[from][f] # Absent /\ carried[f] = Encode[store[from][f]]
  PROVE  ContextInv'
<1> USE DEF ContextInv, Receive
<1>0. ExtractedIds(carried, TrustOf[u]) \subseteq Wires
  BY IdsAreWires DEF TypeOK
<1>1. TypeOK'
  BY <1>0 DEF TypeOK
<1>2. ArrivedIsNamed'
  BY <1>0 DEF ArrivedIsNamed, TypeOK
<1>3. TaintIsContained'
  BY DEF TaintIsContained, TypeOK
<1>4. CallsAreTrue'
  <2> SUFFICES ASSUME NEW w \in Units, caller'[w] \in Units
               PROVE  /\ phase'[caller'[w]] = "running"
                      /\ \A f \in Fields : inbound'[w][f] # Absent =>
                           /\ store'[caller'[w]][f] # Absent
                           /\ decl'[f].writable # "always" =>
                                Encode[store'[caller'[w]][f]] = inbound'[w][f]
    BY DEF CallsAreTrue
  <2>1. CASE w = u
    BY <2>1 DEF TypeOK
  <2>2. CASE w # u
    BY <2>2 DEF TypeOK, CallsAreTrue
  <2> QED
    BY <2>1, <2>2
<1>5. EchoesAreTrue'
  BY DEF EchoesAreTrue, TypeOK
<1>6. BindingsAreFresh'
  BY DEF BindingsAreFresh
<1> QED
  BY <1>1, <1>2, <1>3, <1>4, <1>5, <1>6

LEMMA ArriveKeepsInv ==
  ASSUME ContextInv, NEW u \in Units, Arrive(u)
  PROVE  ContextInv'
<1>1. PICK carried \in Carried :
        Receive(u, Outside, carried, {f \in Fields : carried[f] # Absent})
  BY DEF Arrive, Carried
<1>2. TrustOf[u] = "edge"
  BY DEF Arrive
<1> DEFINE suspect == {f \in Fields : carried[f] # Absent}
<1>3. suspect \in SUBSET Fields
  OBVIOUS
<1> HIDE DEF suspect
<1> QED
  BY <1>1, <1>2, <1>3, ReceiveKeepsInv, NothingsAreApart DEF suspect

LEMMA CallKeepsInv ==
  ASSUME ContextInv, NEW p \in Units, NEW u \in Units, Call(p, u)
  PROVE  ContextInv'
<1>1. phase[p] = "running" /\ Receive(u, p, Headers(store[p]), tainted[p])
  BY DEF Call
<1>2. store[p] \in Stores /\ tainted[p] \in SUBSET Fields
  BY DEF ContextInv, TypeOK
<1>3. \A f \in tainted[p] : decl[f].trust = "edge"
  BY <1>1 DEF ContextInv, TaintIsContained
<1>4. /\ Headers(store[p]) \in Carried
      /\ \A f \in Fields : Headers(store[p])[f] # Absent =>
           store[p][f] # Absent /\ Headers(store[p])[f] = Encode[store[p][f]]
  BY <1>2, HeadersAreCarried
<1> QED
  BY <1>1, <1>2, <1>3, <1>4, ReceiveKeepsInv

(* The middleware filters what has arrived, and answers with what it stores. *)
LEMMA PopulateKeepsInv ==
  ASSUME ContextInv, NEW u \in Units, Populate(u)
  PROVE  ContextInv'
<1> USE DEF ContextInv
<1>0. PICK id \in ContextIds(u) : \E s \in Populated(u, id) :
        /\ ctxId' = [ctxId EXCEPT ![u] = id]
        /\ store' = [store EXCEPT ![u] = s]
        /\ bindings' = [bindings EXCEPT ![u] = Bindings(s)]
        /\ echoed' = [echoed EXCEPT ![u] = Echoes(s)]
        /\ drawn' = drawn \cup {id} \cup Drawn(u, s)
  BY DEF Populate
<1>1. PICK s \in Populated(u, id) :
        /\ ctxId' = [ctxId EXCEPT ![u] = id]
        /\ store' = [store EXCEPT ![u] = s]
        /\ bindings' = [bindings EXCEPT ![u] = Bindings(s)]
        /\ echoed' = [echoed EXCEPT ![u] = Echoes(s)]
        /\ drawn' = drawn \cup {id} \cup Drawn(u, s)
  BY <1>0
<1>2. id \in Wires
  BY IdsAreWires DEF ContextIds, Populate, ArrivedIsNamed, TypeOK
<1>3. s \in Stores
  BY DEF Populated
<1>4. Drawn(u, s) \subseteq Wires
  BY <1>3, CodecIsACodec DEF Drawn, Stores
<1>5. /\ Bindings(s) \in Stores
      /\ \A f \in Fields : decl[f].log => Bindings(s)[f] = s[f]
  BY <1>3, BindingsAreOfStores
<1>6. /\ Echoes(s) \in Carried
      /\ \A f \in Fields : Echoes(s)[f] # Absent => s[f] # Absent /\ Echoes(s)[f] = Encode[s[f]]
  BY <1>3, EchoesAreCarried
<1>7. Reported(u) \in SUBSET Fields
  BY DEF Reported
<1>8. /\ phase[u] = "arrived"
      /\ phase' = [phase EXCEPT ![u] = "running"]
      /\ rejected' = [rejected EXCEPT ![u] = Reported(u)]
      /\ tainted' = [tainted EXCEPT ![u] =
                       {f \in tainted[u] : Adopted(f, inbound[u][f], TrustOf[u])}]
      /\ UNCHANGED <<decl, caller, inbound, reqId>>
  BY DEF Populate, TypeOK
<1>9. TypeOK'
  BY <1>1, <1>2, <1>3, <1>4, <1>5, <1>6, <1>7, <1>8 DEF TypeOK
<1>10. ArrivedIsNamed'
  BY <1>8 DEF ArrivedIsNamed, TypeOK
<1>11. TaintIsContained'
  <2>1. ASSUME NEW f \in tainted[u], Adopted(f, inbound[u][f], TrustOf[u])
        PROVE  decl[f].trust = "edge"
    <3>1. Accepts(f, TrustOf[u])
      BY <2>1, NothingsAreApart DEF Adopted, Parsed
    <3> QED
      BY <3>1, <1>8 DEF Accepts, TaintIsContained
  <2> QED
    BY <1>8, <2>1 DEF TaintIsContained, TypeOK
<1>12. CallsAreTrue'
  <2> SUFFICES ASSUME NEW w \in Units, caller[w] \in Units
               PROVE  /\ phase'[caller[w]] = "running"
                      /\ store'[caller[w]] = store[caller[w]]
    BY <1>8 DEF CallsAreTrue
  <2>1. phase[caller[w]] = "running"
    BY DEF CallsAreTrue
  <2> QED
    BY <1>1, <1>8, <2>1 DEF TypeOK
<1>13. EchoesAreTrue'
  BY <1>1, <1>6, <1>8 DEF EchoesAreTrue, TypeOK
<1>14. BindingsAreFresh'
  BY <1>1, <1>5, <1>8 DEF BindingsAreFresh, TypeOK
<1> QED
  BY <1>9, <1>10, <1>11, <1>12, <1>13, <1>14

(* A job has no carrier: nobody called it and it answers nobody. *)
LEMMA RunWithContextKeepsInv ==
  ASSUME ContextInv, NEW u \in Units, RunWithContext(u)
  PROVE  ContextInv'
<1> USE DEF ContextInv
<1> DEFINE IdOf(s) == IF IdFields = {} THEN ctxId[u] ELSE s[CHOOSE f \in IdFields : TRUE]
<1>1. PICK s \in Stores :
        /\ ctxId' = [ctxId EXCEPT ![u] = IdOf(s)]
        /\ store' = [store EXCEPT ![u] = s]
        /\ bindings' = [bindings EXCEPT ![u] = Bindings(s)]
        /\ drawn' = drawn \cup {Encode[s[f]] : f \in {g \in Fields : s[g] # Absent}}
  BY DEF RunWithContext, TypeOK
<1>2. IdOf(s) \in Values \cup Wires \cup {Absent}
  <2>1. CASE IdFields = {}
    BY <2>1 DEF TypeOK
  <2>2. CASE IdFields # {}
    <3>1. (CHOOSE f \in IdFields : TRUE) \in Fields
      BY <2>2 DEF IdFields
    <3> QED
      BY <2>2, <3>1 DEF Stores
  <2> QED
    BY <2>1, <2>2
<1>3. {Encode[s[f]] : f \in {g \in Fields : s[g] # Absent}} \subseteq Wires
  BY CodecIsACodec DEF Stores
<1>4. /\ Bindings(s) \in Stores
      /\ \A f \in Fields : decl[f].log => Bindings(s)[f] = s[f]
  BY BindingsAreOfStores
<1>5. /\ phase[u] = "new"
      /\ phase' = [phase EXCEPT ![u] = "running"]
      /\ UNCHANGED <<decl, caller, inbound, reqId, echoed, rejected, tainted>>
  BY DEF RunWithContext
<1> HIDE DEF IdOf
<1>6. TypeOK'
  BY <1>1, <1>2, <1>3, <1>4, <1>5 DEF TypeOK
<1>7. ArrivedIsNamed' /\ TaintIsContained'
  BY <1>5 DEF ArrivedIsNamed, TaintIsContained, TypeOK
<1>8. CallsAreTrue'
  <2> SUFFICES ASSUME NEW w \in Units, caller[w] \in Units
               PROVE  /\ phase'[caller[w]] = "running"
                      /\ store'[caller[w]] = store[caller[w]]
    BY <1>5 DEF CallsAreTrue
  <2>1. phase[caller[w]] = "running"
    BY DEF CallsAreTrue
  <2> QED
    BY <1>1, <1>5, <2>1 DEF TypeOK
<1>9. EchoesAreTrue'
  BY <1>1, <1>5 DEF EchoesAreTrue, TypeOK
<1>10. BindingsAreFresh'
  BY <1>1, <1>4, <1>5 DEF BindingsAreFresh, TypeOK
<1> QED
  BY <1>6, <1>7, <1>8, <1>9, <1>10

(* A field that was told is set already, so only one that may always be    *)
(* written changes.                                                        *)
LEMMA SetFieldKeepsInv ==
  ASSUME ContextInv, NEW u \in Units, NEW f \in Fields, NEW v \in Values, SetField(u, f, v)
  PROVE  ContextInv'
<1> USE DEF ContextInv
<1> DEFINE s == [store[u] EXCEPT ![f] = v]
<1>1. /\ store' = [store EXCEPT ![u] = s]
      /\ bindings' = [bindings EXCEPT ![u] = RefreshedBindings(u, f, s)]
      /\ tainted' = [tainted EXCEPT ![u] = tainted[u] \ {f}]
      /\ UNCHANGED <<decl, phase, caller, inbound, reqId, ctxId, echoed, rejected, drawn>>
  BY DEF SetField, TypeOK
<1>2. /\ phase[u] = "running"
      /\ decl[f].writable # "always" => decl[f].writable = "setup" \/ store[u][f] = Absent
      /\ decl[f].writable # "setup"
  <2>1. decl[f] \in Declaration
    BY DeclarationsAreDeclarations DEF TypeOK
  <2>2. decl[f].writable \in {"setup", "once", "always"}
    BY <2>1 DEF Declaration
  <2> QED
    BY <2>2 DEF SetField, MaySet
<1>3. /\ s \in Stores
      /\ s[f] = v /\ v # Absent
      /\ \A g \in Fields : g # f => s[g] = store[u][g]
  BY NothingsAreApart DEF TypeOK, Stores
<1>4. /\ RefreshedBindings(u, f, s) \in Stores
      /\ \A g \in Fields : decl[g].log => RefreshedBindings(u, f, s)[g] = s[g]
  <2>1. CASE decl[f].log
    BY <1>3, <2>1, BindingsAreOfStores DEF RefreshedBindings
  <2>2. CASE ~decl[f].log
    BY <1>3, <2>2 DEF RefreshedBindings, BindingsAreFresh, TypeOK
  <2> QED
    BY <2>1, <2>2
<1> HIDE DEF s
<1>5. TypeOK'
  BY <1>1, <1>3, <1>4 DEF TypeOK
<1>6. ArrivedIsNamed' /\ TaintIsContained'
  BY <1>1 DEF ArrivedIsNamed, TaintIsContained, TypeOK
<1>7. ASSUME NEW w \in Units, NEW g \in Fields, store[w][g] # Absent
      PROVE  /\ store'[w][g] # Absent
             /\ decl[g].writable # "always" => store'[w][g] = store[w][g]
  <2>1. CASE w = u /\ g = f
    BY <1>1, <1>2, <1>3, <1>7, <2>1 DEF TypeOK
  <2>2. CASE ~(w = u /\ g = f)
    BY <1>1, <1>3, <1>7, <2>2 DEF TypeOK
  <2> QED
    BY <2>1, <2>2
<1>8. CallsAreTrue'
  BY <1>1, <1>7 DEF CallsAreTrue
<1>9. EchoesAreTrue'
  BY <1>1, <1>7 DEF EchoesAreTrue
<1>10. BindingsAreFresh'
  BY <1>1, <1>4 DEF BindingsAreFresh, TypeOK
<1> QED
  BY <1>5, <1>6, <1>8, <1>9, <1>10

LEMMA StutterKeepsInv == ContextInv /\ UNCHANGED vars => ContextInv'
BY DEF ContextInv, vars, TypeOK, ArrivedIsNamed, TaintIsContained, CallsAreTrue,
       EchoesAreTrue, BindingsAreFresh

(* The inductive invariant of the request context. *)
THEOREM ContextIsConsistent == Spec => []ContextInv
<1>1. ContextInv /\ [Next]_vars => ContextInv'
  <2> SUFFICES ASSUME ContextInv, [Next]_vars PROVE ContextInv'
    OBVIOUS
  <2>1. ASSUME NEW u \in Units, Arrive(u) PROVE ContextInv'
    BY <2>1, ArriveKeepsInv
  <2>2. ASSUME NEW u \in Units, NEW p \in Units, Call(p, u) PROVE ContextInv'
    BY <2>2, CallKeepsInv
  <2>3. ASSUME NEW u \in Units, Populate(u) PROVE ContextInv'
    BY <2>3, PopulateKeepsInv
  <2>4. ASSUME NEW u \in Units, RunWithContext(u) PROVE ContextInv'
    BY <2>4, RunWithContextKeepsInv
  <2>5. ASSUME NEW u \in Units, NEW f \in Fields, NEW v \in Values, SetField(u, f, v)
        PROVE  ContextInv'
    BY <2>5, SetFieldKeepsInv
  <2>6. CASE UNCHANGED vars
    BY <2>6, StutterKeepsInv
  <2> QED
    BY <2>1, <2>2, <2>3, <2>4, <2>5, <2>6 DEF Next
<1> QED
  BY <1>1, InitIsConsistent, PTL DEF Spec

(* Contexts are well-typed under every declaration and every codec. *)
THEOREM TypeCorrectness == Spec => []TypeOK
<1>1. ContextInv => TypeOK
  BY DEF ContextInv
<1> QED
  BY <1>1, ContextIsConsistent, PTL

(* However many services a request goes through, nothing that an outsider   *)
(* chose is in a field the edge is not trusted with.                        *)
THEOREM TrustIsKept == Spec => []NothingForged
<1>1. ContextInv => NothingForged
  BY DEF ContextInv, TaintIsContained, NothingForged
<1> QED
  BY <1>1, ContextIsConsistent, PTL

(* What a caller or a peer was told of a field stays what the field says,   *)
(* unless it is declared to change.                                         *)
THEOREM WhatWasToldStaysTrue == Spec => []NothingToldIsRewritten
<1>1. ContextInv => NothingToldIsRewritten
  BY DEF ContextInv, CallsAreTrue, EchoesAreTrue, NothingToldIsRewritten
<1> QED
  BY <1>1, ContextIsConsistent, PTL

(* Log bindings are those of the store at every moment. *)
THEOREM LogsAreCurrent == Spec => []BindingsAreFresh
<1>1. ContextInv => BindingsAreFresh
  BY DEF ContextInv
<1> QED
  BY <1>1, ContextIsConsistent, PTL

-----------------------------------------------------------------------------
(* One id per unit of work *)

(* A unit nobody received has no id of a transport, and the id field of one *)
(* at work is what names it.                                                *)
IdsAgree ==
  \A u \in Units :
    /\ phase[u] = "new" => reqId[u] = Absent
    /\ phase[u] = "running" /\ ctxId[u] # Absent =>
         /\ MintsId[u] /\ reqId[u] # Absent => ctxId[u] = reqId[u]
         /\ \A f \in IdFields : store[u][f] = ctxId[u]

LEMMA IdsKeepAgreeing ==
  ASSUME \A d \in Declarations, f \in Fields : d[f].id => d[f].writable # "always",
         ContextInv, IdsAgree, [Next]_vars
  PROVE  IdsAgree'
<1> USE DEF ContextInv, TypeOK
<1>1. ASSUME NEW u \in Units, NEW from, NEW carried, NEW suspect,
             Receive(u, from, carried, suspect)
      PROVE  IdsAgree'
  BY <1>1 DEF Receive, IdsAgree, IdFields
<1>2. ASSUME NEW u \in Units, Populate(u) PROVE IdsAgree'
  <2>1. PICK id \in ContextIds(u) : \E s \in Populated(u, id) :
          /\ ctxId' = [ctxId EXCEPT ![u] = id]
          /\ store' = [store EXCEPT ![u] = s]
    BY <1>2 DEF Populate
  <2>2. PICK s \in Populated(u, id) : store' = [store EXCEPT ![u] = s]
    BY <2>1
  <2>3. \A f \in IdFields : s[f] = id
    BY DEF Populated, IdFields
  <2>4. MintsId[u] => id = reqId[u]
    BY DEF ContextIds
  <2>5. /\ phase' = [phase EXCEPT ![u] = "running"]
        /\ UNCHANGED <<decl, reqId>>
    BY <1>2 DEF Populate
  <2> QED
    BY <2>1, <2>2, <2>3, <2>4, <2>5 DEF IdsAgree, IdFields
<1>3. ASSUME NEW u \in Units, RunWithContext(u) PROVE IdsAgree'
  <2> DEFINE idKey == CHOOSE f \in IdFields : TRUE
  <2>1. PICK s \in Stores :
          /\ ctxId' = [ctxId EXCEPT ![u] = IF IdFields = {} THEN ctxId[u] ELSE s[idKey]]
          /\ store' = [store EXCEPT ![u] = s]
    BY <1>3 DEF RunWithContext
  <2>2. /\ phase[u] = "new"
        /\ phase' = [phase EXCEPT ![u] = "running"]
        /\ UNCHANGED <<decl, reqId>>
    BY <1>3 DEF RunWithContext
  <2>3. ASSUME NEW f \in IdFields PROVE s[f] = ctxId'[u]
    <3>1. \A g \in IdFields : g = f
      BY DeclarationsAreDeclarations DEF IdFields
    <3>2. idKey = f
      BY <3>1
    <3> HIDE DEF idKey
    <3>3. ctxId'[u] = IF IdFields = {} THEN ctxId[u] ELSE s[idKey]
      BY <2>1
    <3> QED
      BY <3>2, <3>3
  <2> QED
    BY <2>1, <2>2, <2>3 DEF IdsAgree, IdFields
<1>4. ASSUME NEW u \in Units, NEW f \in Fields, NEW v \in Values, SetField(u, f, v)
      PROVE  IdsAgree'
  <2>1. decl[f].id => decl[f].writable = "setup" \/ decl[f].writable = "once"
    <3>1. decl[f] \in Declaration
      BY DeclarationsAreDeclarations
    <3> QED
      BY <3>1 DEF Declaration
  <2>2. decl[f].id => store[u][f] = Absent
    BY <1>4, <2>1 DEF SetField, MaySet
  <2>3. phase[u] = "running" /\ ctxId[u] # Absent => f \notin IdFields
    BY <2>2 DEF IdsAgree, IdFields
  <2>4. /\ store' = [store EXCEPT ![u] = [store[u] EXCEPT ![f] = v]]
        /\ UNCHANGED <<decl, phase, reqId, ctxId>>
    BY <1>4 DEF SetField
  <2>5. ASSUME NEW w \in Units, phase[w] = "running", ctxId[w] # Absent, NEW g \in IdFields
        PROVE  store'[w][g] = store[w][g]
    BY <2>3, <2>4, <2>5 DEF Stores, IdFields
  <2> QED
    BY <2>4, <2>5 DEF IdsAgree, IdFields
<1>5. CASE UNCHANGED vars
  BY <1>5 DEF vars, IdsAgree, IdFields
<1> QED
  BY <1>1, <1>2, <1>3, <1>4, <1>5 DEF Next, Arrive, Call

(* The transport, the store and the log lines of a unit of work name it     *)
(* alike for as long as it runs, if the id field is not declared to change. *)
THEOREM OneIdNamesAUnit ==
  ASSUME \A d \in Declarations, f \in Fields : d[f].id => d[f].writable # "always"
  PROVE  Spec => []OneIdPerUnit
<1>1. Init => IdsAgree
  BY DEF Init, IdsAgree
<1>2. ContextInv /\ IdsAgree /\ [Next]_vars => IdsAgree'
  BY IdsKeepAgreeing
<1>3. ContextInv /\ IdsAgree => OneIdPerUnit
  BY DEF ContextInv, IdsAgree, BindingsAreFresh, OneIdPerUnit, IdFields
<1> QED
  BY <1>1, <1>2, <1>3, ContextIsConsistent, PTL DEF Spec

-----------------------------------------------------------------------------
(* Contracts, where what satisfies one is on the wire as it is: the strings *)
(* of this service (config/context.ts:20-31)                                *)

StringsAreTheirOwn == Uuids \subseteq Values /\ \A v \in Values : Encode[v] = v

(* What Fastify named a request satisfies the contract of the id. *)
NamesKeepContracts ==
  \A u \in Units : phase[u] = "arrived" /\ MintsId[u] => reqId[u] \in Values

LEMMA ExtractedKeepsContracts ==
  ASSUME NEW f, NEW raw, NEW trust
  PROVE  Extracted(f, raw, trust) \subseteq Values \cup {Absent}
BY DEF Extracted, Adopted, Fresh

LEMMA IdsKeepContracts ==
  ASSUME StringsAreTheirOwn, NEW raw, NEW trust
  PROVE  ExtractedIds(raw, trust) \subseteq Values
<1>1. FreshUuids \subseteq Values
  BY DEF FreshUuids, StringsAreTheirOwn
<1>2. ASSUME NEW f \in Fields, NEW v \in Extracted(f, raw[f], trust), v # Absent
      PROVE  Encode[v] \in Values
  BY <1>2, ExtractedKeepsContracts DEF StringsAreTheirOwn
<1> QED
  BY <1>1, <1>2 DEF ExtractedIds, IdFields

LEMMA ContractsStayKept ==
  ASSUME StringsAreTheirOwn, ContextInv, StoreKeepsContracts, NamesKeepContracts, [Next]_vars
  PROVE  StoreKeepsContracts' /\ NamesKeepContracts'
<1> USE DEF ContextInv, TypeOK, StoreKeepsContracts, NamesKeepContracts
<1>1. ASSUME NEW u \in Units, NEW from, NEW carried, NEW suspect,
             Receive(u, from, carried, suspect)
      PROVE  StoreKeepsContracts' /\ NamesKeepContracts'
  BY <1>1, IdsKeepContracts DEF Receive
<1>2. ASSUME NEW u \in Units, Populate(u)
      PROVE  StoreKeepsContracts' /\ NamesKeepContracts'
  <2>1. PICK id \in ContextIds(u) : \E s \in Populated(u, id) :
          store' = [store EXCEPT ![u] = s]
    BY <1>2 DEF Populate
  <2>2. PICK s \in Populated(u, id) : store' = [store EXCEPT ![u] = s]
    BY <2>1
  <2>3. id \in Values
    BY <1>2, IdsKeepContracts DEF ContextIds, Populate
  <2>4. \A f \in Fields : s[f] \in Values \cup {Absent}
    BY <2>3, ExtractedKeepsContracts DEF Populated
  <2>5. phase' = [phase EXCEPT ![u] = "running"] /\ UNCHANGED reqId
    BY <1>2 DEF Populate
  <2> QED
    BY <2>2, <2>4, <2>5
<1>3. ASSUME NEW u \in Units, RunWithContext(u)
      PROVE  StoreKeepsContracts' /\ NamesKeepContracts'
  <2>1. PICK values \in [Fields -> Values \cup {Absent}] : \E s \in Stores :
          /\ \A f \in Fields : IF values[f] # Absent THEN s[f] = values[f]
                               ELSE s[f] \in Extracted(f, Absent, "edge")
          /\ store' = [store EXCEPT ![u] = s]
    BY <1>3 DEF RunWithContext
  <2>2. PICK s \in Stores :
          /\ \A f \in Fields : IF values[f] # Absent THEN s[f] = values[f]
                               ELSE s[f] \in Extracted(f, Absent, "edge")
          /\ store' = [store EXCEPT ![u] = s]
    BY <2>1
  <2>3. \A f \in Fields : s[f] \in Values \cup {Absent}
    BY <2>2, ExtractedKeepsContracts
  <2>4. phase' = [phase EXCEPT ![u] = "running"] /\ UNCHANGED reqId
    BY <1>3 DEF RunWithContext
  <2> QED
    BY <2>2, <2>3, <2>4
<1>4. ASSUME NEW u \in Units, NEW f \in Fields, NEW v \in Values, SetField(u, f, v)
      PROVE  StoreKeepsContracts' /\ NamesKeepContracts'
  <2>1. /\ store' = [store EXCEPT ![u] = [store[u] EXCEPT ![f] = v]]
        /\ UNCHANGED <<phase, reqId>>
    BY <1>4 DEF SetField
  <2> QED
    BY <2>1 DEF Stores
<1>5. CASE UNCHANGED vars
  BY <1>5 DEF vars
<1> QED
  BY <1>1, <1>2, <1>3, <1>4, <1>5 DEF Next, Arrive, Call

(* Whatever is on the wire, what a unit of work reads of its context has    *)
(* passed the contract of its field.                                        *)
THEOREM ContractsAreKept ==
  ASSUME StringsAreTheirOwn
  PROVE  Spec => []StoreKeepsContracts
<1>1. Init => StoreKeepsContracts /\ NamesKeepContracts
  BY DEF Init, Nothing, StoreKeepsContracts, NamesKeepContracts
<1>2. ContextInv /\ StoreKeepsContracts /\ NamesKeepContracts /\ [Next]_vars
        => StoreKeepsContracts' /\ NamesKeepContracts'
  BY ContractsStayKept
<1> QED
  BY <1>1, <1>2, ContextIsConsistent, PTL DEF Spec

-----------------------------------------------------------------------------
(* The id over a hop *)

(* A callee has been sent the id of its caller, and is named by it if it    *)
(* honours it there.                                                        *)
HopsAgree ==
  \A u \in Units : caller[u] \in Units /\ ctxId[caller[u]] # Absent =>
    \A f \in IdFields : decl[f].propagate /\ Accepts(f, TrustOf[u]) =>
      /\ phase[u] # "new"
      /\ inbound[u][f] = ctxId[caller[u]]
      /\ phase[u] = "arrived" /\ MintsId[u] => reqId[u] = ctxId[caller[u]]
      /\ phase[u] = "running" => ctxId[u] = ctxId[caller[u]]

(* A value that is honoured is the id: the only field there is says so. *)
LEMMA HonouredIdsAreKept ==
  ASSUME StringsAreTheirOwn, decl \in Declarations, NEW f \in IdFields, NEW raw,
         raw[f] \in Values, NEW trust, Accepts(f, trust)
  PROVE  ExtractedIds(raw, trust) = {raw[f]}
<1>1. \A g \in IdFields : g = f
  BY DeclarationsAreDeclarations DEF IdFields
<1>2. Encode[raw[f]] = raw[f] /\ Decode[raw[f]] = raw[f] /\ raw[f] # Absent
  BY CodecIsACodec, NothingsAreApart DEF StringsAreTheirOwn
<1>3. Extracted(f, raw[f], trust) = {raw[f]}
  BY <1>2 DEF Extracted, Adopted, Parsed
<1>4. IdFields = {f}
  BY <1>1
<1> QED
  BY <1>2, <1>3, <1>4 DEF ExtractedIds

LEMMA HopsKeepAgreeing ==
  ASSUME StringsAreTheirOwn, ContextInv, StoreKeepsContracts, IdsAgree, HopsAgree, [Next]_vars
  PROVE  HopsAgree'
<1> USE DEF ContextInv, TypeOK
<1>1. \A u \in Units : caller[u] \in Units => phase[caller[u]] = "running"
  BY DEF CallsAreTrue
<1>2. decl \in Declarations
  OBVIOUS
<1>3. \A p \in Units, f \in IdFields : phase[p] = "running" /\ ctxId[p] # Absent =>
        store[p][f] = ctxId[p] /\ ctxId[p] \in Values
  BY DEF IdsAgree, StoreKeepsContracts, IdFields
<1>4. ASSUME NEW u \in Units, Arrive(u) PROVE HopsAgree'
  BY <1>1, <1>4, NothingsAreApart DEF Arrive, Receive, HopsAgree, IdFields, Accepts
<1>5. ASSUME NEW u \in Units, NEW p \in Units, Call(p, u) PROVE HopsAgree'
  <2>1. /\ phase[p] = "running" /\ phase[u] = "new" /\ p # u
        /\ phase' = [phase EXCEPT ![u] = "arrived"]
        /\ caller' = [caller EXCEPT ![u] = p]
        /\ inbound' = [inbound EXCEPT ![u] = Headers(store[p])]
        /\ \A w \in Units \ {u} : reqId'[w] = reqId[w]
        /\ UNCHANGED <<decl, ctxId>>
    BY <1>5 DEF Call, Receive
  <2>2. ASSUME NEW f \in IdFields, decl[f].propagate, Accepts(f, TrustOf[u]), ctxId[p] # Absent
        PROVE  /\ inbound'[u][f] = ctxId[p]
               /\ MintsId[u] => reqId'[u] = ctxId[p]
    <3>1. store[p][f] = ctxId[p] /\ ctxId[p] \in Values
      BY <1>3, <2>1, <2>2
    <3>2. Headers(store[p])[f] = ctxId[p]
      BY <2>2, <3>1, NothingsAreApart DEF Headers, Accepts, IdFields, StringsAreTheirOwn
    <3>3. MintsId[u] => reqId'[u] \in ExtractedIds(Headers(store[p]), TrustOf[u])
      BY <1>5 DEF Call, Receive
    <3> QED
      BY <1>2, <2>1, <2>2, <3>1, <3>2, <3>3, HonouredIdsAreKept
  <2> QED
    BY <1>1, <2>1, <2>2 DEF HopsAgree, IdFields, Accepts
<1>6. ASSUME NEW u \in Units, Populate(u) PROVE HopsAgree'
  <2>1. PICK id \in ContextIds(u) : ctxId' = [ctxId EXCEPT ![u] = id]
    BY <1>6 DEF Populate
  <2>2. /\ phase[u] = "arrived"
        /\ phase' = [phase EXCEPT ![u] = "running"]
        /\ UNCHANGED <<decl, caller, inbound, reqId>>
    BY <1>6 DEF Populate
  <2>3. ASSUME NEW f \in IdFields, decl[f].propagate, Accepts(f, TrustOf[u]),
               caller[u] \in Units, ctxId[caller[u]] # Absent
        PROVE  id = ctxId[caller[u]]
    <3>1. inbound[u][f] = ctxId[caller[u]] /\ ctxId[caller[u]] \in Values
      BY <1>1, <1>3, <2>3 DEF HopsAgree
    <3>2. CASE MintsId[u]
      BY <2>2, <2>3, <3>2 DEF HopsAgree, ContextIds
    <3>3. CASE ~MintsId[u]
      BY <1>2, <2>3, <3>1, <3>3, HonouredIdsAreKept DEF ContextIds
    <3> QED
      BY <3>2, <3>3
  <2>4. \A w \in Units : caller[w] \in Units => caller[w] # u
    BY <1>1, <2>2
  <2> QED
    BY <2>1, <2>2, <2>3, <2>4 DEF HopsAgree, IdFields, Accepts
<1>7. ASSUME NEW u \in Units, RunWithContext(u) PROVE HopsAgree'
  <2>1. /\ phase[u] = "new"
        /\ phase' = [phase EXCEPT ![u] = "running"]
        /\ \A w \in Units \ {u} : ctxId'[w] = ctxId[w]
        /\ UNCHANGED <<decl, caller, inbound, reqId>>
    BY <1>7 DEF RunWithContext
  <2>2. \A w \in Units : caller[w] \in Units => caller[w] # u
    BY <1>1, <2>1
  <2> QED
    BY <2>1, <2>2 DEF HopsAgree, IdFields, Accepts
<1>8. ASSUME NEW u \in Units, NEW f \in Fields, NEW v \in Values, SetField(u, f, v)
      PROVE  HopsAgree'
  BY <1>8 DEF SetField, HopsAgree, IdFields, Accepts
<1>9. CASE UNCHANGED vars
  BY <1>9 DEF vars, HopsAgree, IdFields, Accepts
<1> QED
  BY <1>4, <1>5, <1>6, <1>7, <1>8, <1>9 DEF Next

(* The services a request goes through all name it alike, however many they *)
(* are, if the id travels, is honoured where they are and does not change.  *)
THEOREM CorrelationIsKept ==
  ASSUME StringsAreTheirOwn,
         \A d \in Declarations, f \in Fields : d[f].id => d[f].writable # "always"
  PROVE  Spec => []CorrelationSurvivesAHop
<1> DEFINE Inv == IdsAgree /\ StoreKeepsContracts /\ NamesKeepContracts /\ HopsAgree
<1>1. Init => Inv
  BY NothingsAreApart
     DEF Init, Nothing, StoreKeepsContracts, NamesKeepContracts, IdsAgree, HopsAgree
<1>2. ContextInv /\ Inv /\ [Next]_vars => Inv'
  BY IdsKeepAgreeing, ContractsStayKept, HopsKeepAgreeing
<1>3. Inv => CorrelationSurvivesAHop
  BY DEF HopsAgree, CorrelationSurvivesAHop
<1> QED
  BY <1>1, <1>2, <1>3, ContextIsConsistent, PTL DEF Spec

-----------------------------------------------------------------------------
(* What is reported of what was discarded *)

(* Nothing is reported before the middleware runs; the middleware reports    *)
(* what it finds in what the transport carried.                              *)
ReportsInv ==
  \A u \in Units :
    /\ phase[u] = "new" => inbound[u] = Nothing
    /\ phase[u] # "running" => rejected[u] = {}
    /\ phase[u] = "running" => rejected[u] = Reported(u)

LEMMA NothingIsNotRejected ==
  ASSUME NEW f \in Fields, NEW trust PROVE ~Rejected(f, Nothing[f], trust)
BY NothingsAreApart DEF Rejected, Parsed, Nothing

LEMMA ReportsStayTrue == ContextInv /\ ReportsInv /\ [Next]_vars => ReportsInv'
<1> SUFFICES ASSUME ContextInv, ReportsInv, [Next]_vars PROVE ReportsInv'
  OBVIOUS
<1> USE DEF ContextInv, TypeOK
<1>1. ASSUME UNCHANGED decl, NEW u \in Units, UNCHANGED <<inbound[u], phase[u], rejected[u]>>
      PROVE  /\ phase'[u] = "new" => inbound'[u] = Nothing
             /\ phase'[u] # "running" => rejected'[u] = {}
             /\ phase'[u] = "running" => rejected'[u] = Reported(u)'
  BY <1>1 DEF ReportsInv, Reported, Rejected, Parsed, Accepts
<1>2. ASSUME NEW u \in Units, NEW from, NEW carried, NEW suspect,
             Receive(u, from, carried, suspect)
      PROVE  ReportsInv'
  <2>1. /\ phase'[u] = "arrived" /\ rejected'[u] = {} /\ UNCHANGED decl
        /\ \A v \in Units \ {u} : UNCHANGED <<inbound[v], phase[v], rejected[v]>>
    BY <1>2 DEF Receive, ReportsInv
  <2> QED
    BY <1>1, <2>1 DEF ReportsInv
<1>3. ASSUME NEW u \in Units, Populate(u) PROVE ReportsInv'
  <2>1. /\ phase'[u] = "running" /\ rejected'[u] = Reported(u) /\ UNCHANGED <<decl, inbound>>
        /\ \A v \in Units \ {u} : UNCHANGED <<inbound[v], phase[v], rejected[v]>>
    BY <1>3 DEF Populate
  <2>2. Reported(u)' = Reported(u)
    BY <2>1 DEF Reported, Rejected, Parsed, Accepts
  <2> QED
    BY <1>1, <2>1, <2>2 DEF ReportsInv
<1>4. ASSUME NEW u \in Units, RunWithContext(u) PROVE ReportsInv'
  <2>1. /\ phase[u] = "new" /\ phase'[u] = "running" /\ UNCHANGED <<decl, inbound, rejected>>
        /\ \A v \in Units \ {u} : UNCHANGED <<inbound[v], phase[v], rejected[v]>>
    BY <1>4 DEF RunWithContext
  <2>2. inbound[u] = Nothing /\ rejected'[u] = {}
    BY <2>1 DEF ReportsInv
  <2>3. Reported(u)' = {}
    BY <2>1, <2>2, NothingIsNotRejected DEF Reported, Rejected, Parsed, Accepts
  <2> QED
    BY <1>1, <2>1, <2>2, <2>3 DEF ReportsInv
<1>5. ASSUME NEW u \in Units, NEW f \in Fields, NEW v \in Values, SetField(u, f, v)
      PROVE  ReportsInv'
  BY <1>1, <1>5 DEF SetField, ReportsInv
<1>6. CASE UNCHANGED vars
  BY <1>1, <1>6 DEF vars, ReportsInv
<1> QED
  BY <1>2, <1>3, <1>4, <1>5, <1>6 DEF Next, Arrive, Call

(* Of what fails its contract, nothing but the id is discarded in silence,  *)
(* and that only where Fastify decides it (fastify.context.ts:32).          *)
THEOREM OnlyIdsGoUnreported ==
  Spec => [](\A u \in Units, f \in Fields :
               phase[u] = "running" /\ Rejected(f, inbound[u][f], TrustOf[u]) =>
                 (f \notin rejected[u] <=> decl[f].id /\ MintsId[u]))
<1>1. Init => ReportsInv
  BY DEF Init, ReportsInv
<1>2. ReportsInv =>
        \A u \in Units, f \in Fields :
          phase[u] = "running" /\ Rejected(f, inbound[u][f], TrustOf[u]) =>
            (f \notin rejected[u] <=> decl[f].id /\ MintsId[u])
  BY DEF ReportsInv, Reported
<1> QED
  BY <1>1, <1>2, ReportsStayTrue, ContextIsConsistent, PTL DEF Spec
=============================================================================
