------------------------- MODULE HttpContractsProofs -------------------------
(***************************************************************************)
(* The theorems about HttpContracts, for any endpoints and declarations.   *)
(*                                                                         *)
(* HttpInv follows the contract of a business error from the declaration   *)
(* over the scan into the reply: what is mapped is documented, what was    *)
(* scanned is mapped, nothing is served before the scan is over, and a     *)
(* reply is what the filters make of the map.  FaultsAreLogged, the last,  *)
(* says which lines a filter has written before the access log may skip.   *)
(***************************************************************************)
EXTENDS HttpContracts, TLAPS

(* A documented response makes a contract. *)
ContractOf(d) == [status |-> d.status, keys |-> d.keys]

Maps(d, c) == d.code = c /\ d.schema

(* What the registry says of a code, some endpoint documents. *)
MappedIsDocumented ==
  \A c \in Codes : contracts[c] # NoContract =>
    \E d \in Documented : Maps(d, c) /\ contracts[c] = ContractOf(d)

(* What the scan has read is in the registry. *)
ScannedIsMapped ==
  \A e \in Endpoints : \A d \in catalog[e].errors : \A c \in Codes :
    Maps(d, c) /\ <<e, d>> \notin toScan => contracts[c] # NoContract

(* Before the scan is over nothing is served; after it the boot has warned. *)
ScanPrecedesService ==
  /\ listening => toScan = {} /\ warned = {c \in Codes : contracts[c] = NoContract}
  /\ \A r \in Requests : req[r].stage # "new" => listening

(* A reply to a business error is what the registry makes of it. *)
AnswersByContract(r) ==
  LET contract == contracts[req[r].thrown.code] IN
    \/ /\ contract = NoContract
       /\ req[r].reply.status = 500
       /\ <<"error", "unmapped">> \in req[r].lines
    \/ /\ contract # NoContract
       /\ req[r].reply.status = contract.status
       /\ \/ <<"error", "drifted">> \in req[r].lines
          \/ req[r].reply.keys \subseteq contract.keys

(* How far a request is decides what it was thrown and what it was told. *)
RequestsAreAnswered ==
  \A r \in Requests :
    /\ req[r].stage # "new" => req[r].endpoint \in Endpoints
    /\ req[r].stage \in {"new", "received"} => req[r].thrown = None
    /\ req[r].stage = "thrown" => req[r].thrown \in Exceptions
    /\ Replied(r) /\ req[r].thrown # None =>
         IF req[r].thrown.kind = "domain" THEN AnswersByContract(r)
         ELSE req[r].reply.keys = {}

HttpInv ==
  /\ TypeOK
  /\ MappedIsDocumented
  /\ ScannedIsMapped
  /\ ScanPrecedesService
  /\ RequestsAreAnswered

-----------------------------------------------------------------------------
(* The kinds of an exception *)

LEMMA ExceptionsHaveKinds ==
  ASSUME NEW x \in Exceptions
  PROVE  /\ x.kind \in {"domain", "http", "other"}
         /\ x.kind = "domain" => x.code \in Codes /\ x.details \in SUBSET Keys
         /\ x.kind = "http" => x.status \in Nat
         /\ x # None
BY StatusesAreNumbers DEF Exceptions, None

(* Nest asks the specific filter first (http.module.ts:11-12). *)
LEMMA DomainErrorsHaveTheirFilter ==
  ASSUME NEW x
  PROVE  Chosen(x) = IF x.kind = "domain" THEN "domain" ELSE "unhandled"
BY DEF Chosen, Catches, Filters

LEMMA CatalogsDeclare ==
  ASSUME TypeOK, NEW e \in Endpoints
  PROVE  /\ catalog[e].success \in Contracts \cup {NoContract}
         /\ catalog[e].errors \subseteq Responses
         /\ catalog[e].errors \subseteq Documented
BY CatalogsAreCatalogs DEF TypeOK, EndpointDeclaration, Documented

-----------------------------------------------------------------------------
LEMMA InitIsConsistent == Init => HttpInv
<1> SUFFICES ASSUME Init PROVE HttpInv
  OBVIOUS
<1> USE DEF Init
<1>1. NoReply \in Contracts
  BY DEF NoReply, Contracts
<1>2. New \in Request /\ New.stage = "new" /\ New.thrown = None
  BY <1>1 DEF New, Request
<1>3. TypeOK
  BY <1>2 DEF TypeOK
<1>4. MappedIsDocumented
  BY DEF MappedIsDocumented
<1>5. ScannedIsMapped
  BY DEF ScannedIsMapped, Declared
<1>6. ScanPrecedesService
  BY <1>2 DEF ScanPrecedesService
<1>7. RequestsAreAnswered
  BY <1>2 DEF RequestsAreAnswered, Replied
<1> QED
  BY <1>3, <1>4, <1>5, <1>6, <1>7 DEF HttpInv

-----------------------------------------------------------------------------
(* The boot *)

LEMMA ScanKeepsInv ==
  ASSUME HttpInv, NEW e \in Endpoints, NEW d \in catalog[e].errors, ScanResponse(e, d)
  PROVE  HttpInv'
<1> USE DEF HttpInv
<1>1. d \in Responses /\ d \in Documented
  BY CatalogsDeclare
<1>2. ContractOf(d) \in Contracts /\ ContractOf(d) # NoContract
  BY <1>1, NothingsAreApart DEF ContractOf, Contracts, Responses
<1>3. /\ toScan' = toScan \ {<<e, d>>}
      /\ UNCHANGED <<catalog, warned, listening, req>>
      /\ ~listening
  BY DEF ScanResponse, ScanPrecedesService
<1>4. \A r \in Requests : req[r].stage = "new"
  BY <1>3 DEF ScanPrecedesService
<1>5. CASE d.code # NoCode /\ d.schema
  <2>1. d.code \in Codes
    BY <1>1, <1>5 DEF Responses
  <2>2. contracts' = [contracts EXCEPT ![d.code] = ContractOf(d)]
    BY <1>5 DEF ScanResponse, ContractOf
  <2>3. TypeOK'
    BY <1>2, <1>3, <2>2 DEF TypeOK
  <2>4. MappedIsDocumented'
    BY <1>1, <1>3, <1>5, <2>1, <2>2 DEF MappedIsDocumented, Documented, Maps, TypeOK, ContractOf
  <2>5. ScannedIsMapped'
    BY <1>2, <1>3, <2>1, <2>2 DEF ScannedIsMapped, Maps, TypeOK
  <2>6. ScanPrecedesService' /\ RequestsAreAnswered'
    BY <1>3, <1>4 DEF ScanPrecedesService, RequestsAreAnswered, Replied
  <2> QED
    BY <2>3, <2>4, <2>5, <2>6
<1>6. CASE ~(d.code # NoCode /\ d.schema)
  <2>1. contracts' = contracts
    BY <1>6 DEF ScanResponse
  <2>2. \A c \in Codes : ~Maps(d, c)
    BY <1>6, NothingsAreApart DEF Maps
  <2>3. TypeOK' /\ MappedIsDocumented'
    BY <1>3, <2>1 DEF TypeOK, MappedIsDocumented, Documented
  <2>4. ScannedIsMapped'
    BY <1>3, <2>1, <2>2 DEF ScannedIsMapped
  <2>5. ScanPrecedesService' /\ RequestsAreAnswered'
    BY <1>3, <1>4 DEF ScanPrecedesService, RequestsAreAnswered, Replied
  <2> QED
    BY <2>3, <2>4, <2>5
<1> QED
  BY <1>5, <1>6

LEMMA FinishScanKeepsInv ==
  ASSUME HttpInv, FinishScan
  PROVE  HttpInv'
<1> USE DEF HttpInv, FinishScan
<1>1. TypeOK'
  BY DEF TypeOK, UnmappedCodes
<1>2. MappedIsDocumented' /\ ScannedIsMapped'
  BY DEF MappedIsDocumented, ScannedIsMapped, Documented
<1>3. ScanPrecedesService'
  BY DEF ScanPrecedesService, UnmappedCodes
<1>4. RequestsAreAnswered'
  BY DEF RequestsAreAnswered, Replied, AnswersByContract
<1> QED
  BY <1>1, <1>2, <1>3, <1>4

-----------------------------------------------------------------------------
(* A step of a request changes that request, and leaves it answered. *)

AnsweredNow(r, q) ==
  /\ q \in Request
  /\ q.stage # "new"
  /\ q.endpoint \in Endpoints
  /\ q.stage = "received" => q.thrown = None
  /\ q.stage = "thrown" => q.thrown \in Exceptions
  /\ q.stage \in {"replied", "done"} /\ q.thrown # None =>
       IF q.thrown.kind = "domain"
       THEN LET contract == contracts[q.thrown.code] IN
              \/ /\ contract = NoContract /\ q.reply.status = 500
                 /\ <<"error", "unmapped">> \in q.lines
              \/ /\ contract # NoContract /\ q.reply.status = contract.status
                 /\ \/ <<"error", "drifted">> \in q.lines
                    \/ q.reply.keys \subseteq contract.keys
       ELSE q.reply.keys = {}

LEMMA AnsweringKeepsInv ==
  ASSUME HttpInv, listening, NEW r \in Requests, NEW q, AnsweredNow(r, q),
         req' = [req EXCEPT ![r] = q],
         UNCHANGED <<catalog, toScan, contracts, warned, listening>>
  PROVE  HttpInv'
<1> USE DEF HttpInv
<1>1. TypeOK'
  BY DEF TypeOK, AnsweredNow
<1>2. MappedIsDocumented' /\ ScannedIsMapped'
  BY DEF MappedIsDocumented, ScannedIsMapped, Documented
<1>3. ScanPrecedesService'
  BY DEF ScanPrecedesService
<1>4. RequestsAreAnswered'
  <2>1. req'[r] = q /\ \A s \in Requests : s # r => req'[s] = req[s]
    BY DEF TypeOK
  <2>2. ASSUME NEW s \in Requests, s # r
        PROVE  /\ req'[s] = req[s]
               /\ AnswersByContract(s) => AnswersByContract(s)'
    BY <2>1, <2>2 DEF AnswersByContract
  <2>3. ASSUME NEW s \in Requests
        PROVE  /\ req'[s].stage # "new" => req'[s].endpoint \in Endpoints
               /\ req'[s].stage \in {"new", "received"} => req'[s].thrown = None
               /\ req'[s].stage = "thrown" => req'[s].thrown \in Exceptions
               /\ Replied(s)' /\ req'[s].thrown # None =>
                    IF req'[s].thrown.kind = "domain" THEN AnswersByContract(s)'
                    ELSE req'[s].reply.keys = {}
    <3>1. CASE s = r
      BY <2>1, <3>1 DEF AnsweredNow, AnswersByContract, Replied
    <3>2. CASE s # r
      BY <2>2, <3>2 DEF RequestsAreAnswered, Replied
    <3> QED
      BY <3>1, <3>2
  <2> QED
    BY <2>3 DEF RequestsAreAnswered
<1> QED
  BY <1>1, <1>2, <1>3, <1>4

LEMMA ReceiveKeepsInv ==
  ASSUME HttpInv, NEW r \in Requests, NEW e \in Endpoints, NEW marked \in BOOLEAN,
         Receive(r, e, marked)
  PROVE  HttpInv'
<1> DEFINE q == [New EXCEPT !.stage = "received", !.endpoint = e, !.marked = marked]
<1>1. AnsweredNow(r, q)
  BY DEF AnsweredNow, New, Request, NoReply, Contracts
<1> QED
  BY <1>1, AnsweringKeepsInv DEF Receive

(* What a handler returns is no error, whatever it holds. *)
LEMMA HandlerReturnsKeepsInv ==
  ASSUME HttpInv, NEW r \in Requests, NEW keys \in SUBSET Keys, HandlerReturns(r, keys)
  PROVE  HttpInv'
<1> DEFINE success == catalog[req[r].endpoint].success
           status == IF success = NoContract THEN 200 ELSE success.status
           q == [req[r] EXCEPT !.stage = "replied", !.lines = req[r].lines \cup {},
                               !.reply = [status |-> status, keys |-> keys]]
<1>1. /\ req[r] \in Request /\ req[r].stage = "received" /\ req[r].thrown = None
      /\ req[r].endpoint \in Endpoints /\ listening
      /\ UNCHANGED <<catalog, toScan, contracts, warned, listening>>
  BY DEF HandlerReturns, HttpInv, TypeOK, RequestsAreAnswered, ScanPrecedesService
<1>2. status \in Nat
  BY <1>1, CatalogsDeclare DEF HttpInv, Contracts
<1>3. req' = [req EXCEPT ![r] = q]
  BY DEF HandlerReturns, Replies
<1> HIDE DEF status
<1>4. AnsweredNow(r, q)
  BY <1>1, <1>2 DEF AnsweredNow, Request, Contracts
<1> QED
  BY <1>1, <1>3, <1>4, AnsweringKeepsInv

LEMMA HandlerThrowsKeepsInv ==
  ASSUME HttpInv, NEW r \in Requests, NEW x \in Exceptions, HandlerThrows(r, x)
  PROVE  HttpInv'
<1>1. /\ req[r] \in Request /\ req[r].stage = "received"
      /\ req[r].endpoint \in Endpoints /\ listening
      /\ UNCHANGED <<catalog, toScan, contracts, warned, listening>>
  BY DEF HandlerThrows, HttpInv, TypeOK, RequestsAreAnswered, ScanPrecedesService
<1> DEFINE q == [req[r] EXCEPT !.stage = "thrown", !.thrown = x]
<1>2. AnsweredNow(r, q)
  BY <1>1 DEF AnsweredNow, Request
<1>3. req' = [req EXCEPT ![r] = q]
  BY DEF HandlerThrows, Throws, HttpInv, TypeOK
<1> QED
  BY <1>1, <1>2, <1>3, AnsweringKeepsInv

(* The filter answers by the registry, and says so when it cannot. *)
LEMMA CatchDomainKeepsInv ==
  ASSUME HttpInv, NEW r \in Requests, CatchDomain(r)
  PROVE  HttpInv'
<1> DEFINE x == req[r].thrown
           contract == contracts[x.code]
<1>1. /\ req[r] \in Request /\ req[r].stage = "thrown" /\ x \in Exceptions
      /\ req[r].endpoint \in Endpoints /\ listening
      /\ UNCHANGED <<catalog, toScan, contracts, warned, listening>>
  BY DEF CatchDomain, HttpInv, TypeOK, RequestsAreAnswered, ScanPrecedesService
<1>2. /\ x.kind = "domain" /\ x.code \in Codes /\ x.details \in SUBSET Keys /\ x # None
  <2>1. Chosen(x) = "domain"
    BY DEF CatchDomain
  <2>2. x.kind = "domain"
    BY <2>1, DomainErrorsHaveTheirFilter
  <2> QED
    BY <1>1, <2>2, ExceptionsHaveKinds
<1>3. contract \in Contracts \cup {NoContract}
  BY <1>2 DEF HttpInv, TypeOK
<1> DEFINE q(status, keys, lines) ==
             [req[r] EXCEPT !.stage = "replied", !.lines = req[r].lines \cup lines,
                            !.reply = [status |-> status, keys |-> keys]]
<1>4. ASSUME NEW status, NEW keys, NEW lines, Replies(r, status, keys, lines),
             AnsweredNow(r, q(status, keys, lines))
      PROVE  HttpInv'
  <2>1. req' = [req EXCEPT ![r] = q(status, keys, lines)]
    BY <1>4 DEF Replies, HttpInv, TypeOK
  <2> QED
    BY <1>1, <1>4, <2>1, AnsweringKeepsInv
<1>5. CASE /\ contract = NoContract
           /\ Replies(r, 500, x.details, {<<"error", "unmapped">>})
  <2>1. {<<"error", "unmapped">>} \subseteq Lines
    BY DEF Lines
  <2> DEFINE p == q(500, x.details, {<<"error", "unmapped">>})
  <2>2. /\ p.stage = "replied" /\ p.endpoint = req[r].endpoint /\ p.thrown = x
        /\ p.reply = [status |-> 500, keys |-> x.details]
        /\ p.lines = req[r].lines \cup {<<"error", "unmapped">>}
    BY <1>1 DEF Request
  <2>3. p.reply \in Contracts
    BY <1>2, <2>2 DEF Contracts
  <2>4. p \in Request
    BY <1>1, <2>1, <2>3 DEF Request
  <2> HIDE DEF p
  <2>5. AnsweredNow(r, p)
    BY <1>1, <1>2, <1>5, <2>2, <2>4 DEF AnsweredNow
  <2> QED
    BY <1>4, <1>5, <2>5 DEF p
<1>6. CASE /\ contract # NoContract
           /\ Replies(r, contract.status, Stripped(contract, x.details), {})
  <2>1. AnsweredNow(r, q(contract.status, Stripped(contract, x.details), {}))
    BY <1>1, <1>2, <1>3, <1>6 DEF AnsweredNow, Request, Contracts, Stripped
  <2> QED
    BY <1>4, <1>6, <2>1
<1>7. CASE /\ contract # NoContract
           /\ Replies(r, contract.status, x.details, {<<"error", "drifted">>})
  <2>1. {<<"error", "drifted">>} \subseteq Lines
    BY DEF Lines
  <2>2. AnsweredNow(r, q(contract.status, x.details, {<<"error", "drifted">>}))
    BY <1>1, <1>2, <1>3, <1>7, <2>1 DEF AnsweredNow, Request, Contracts
  <2> QED
    BY <1>4, <1>7, <2>2
<1> QED
  BY <1>5, <1>6, <1>7 DEF CatchDomain

LEMMA CatchUnhandledKeepsInv ==
  ASSUME HttpInv, NEW r \in Requests, CatchUnhandled(r)
  PROVE  HttpInv'
<1> DEFINE x == req[r].thrown
<1>1. /\ req[r] \in Request /\ req[r].stage = "thrown" /\ x \in Exceptions
      /\ req[r].endpoint \in Endpoints /\ listening
      /\ UNCHANGED <<catalog, toScan, contracts, warned, listening>>
  BY DEF CatchUnhandled, HttpInv, TypeOK, RequestsAreAnswered, ScanPrecedesService
<1>2. x.kind # "domain" /\ x # None /\ (x.kind = "http" => x.status \in Nat)
  <2>1. Chosen(x) = "unhandled"
    BY DEF CatchUnhandled
  <2>2. x.kind # "domain"
    BY <2>1, DomainErrorsHaveTheirFilter
  <2> QED
    BY <1>1, <2>2, ExceptionsHaveKinds
<1> DEFINE q(status, lines) ==
             [req[r] EXCEPT !.stage = "replied", !.lines = req[r].lines \cup lines,
                            !.reply = [status |-> status, keys |-> {}]]
<1>3. ASSUME NEW status \in Nat, NEW lines \in SUBSET Lines, Replies(r, status, {}, lines)
      PROVE  HttpInv'
  <2>1. AnsweredNow(r, q(status, lines))
    BY <1>1, <1>2 DEF AnsweredNow, Request, Contracts
  <2>2. req' = [req EXCEPT ![r] = q(status, lines)]
    BY <1>3 DEF Replies, HttpInv, TypeOK
  <2> QED
    BY <1>1, <2>1, <2>2, AnsweringKeepsInv
<1>4. CASE x.kind = "http"
  BY <1>2, <1>3, <1>4 DEF CatchUnhandled
<1>5. CASE x.kind # "http"
  <2>1. {<<"error", "cause">>} \in SUBSET Lines
    BY DEF Lines
  <2> QED
    BY <1>3, <1>5, <2>1 DEF CatchUnhandled
<1> QED
  BY <1>4, <1>5

LEMMA OnResponseKeepsInv ==
  ASSUME HttpInv, NEW r \in Requests, OnResponse(r)
  PROVE  HttpInv'
<1>1. /\ req[r] \in Request /\ req[r].stage = "replied"
      /\ req[r].endpoint \in Endpoints /\ listening
      /\ UNCHANGED <<catalog, toScan, contracts, warned, listening>>
  BY DEF OnResponse, HttpInv, TypeOK, RequestsAreAnswered, ScanPrecedesService
<1>2. AccessLines(r) \subseteq Lines
  BY DEF AccessLines, Lines
<1> DEFINE q == [req[r] EXCEPT !.stage = "done", !.lines = req[r].lines \cup AccessLines(r)]
<1>3. req' = [req EXCEPT ![r] = q]
  BY DEF OnResponse
<1>4. /\ q.stage = "done" /\ q.endpoint = req[r].endpoint /\ q.thrown = req[r].thrown
      /\ q.reply = req[r].reply /\ req[r].lines \subseteq q.lines /\ q \in Request
  BY <1>1, <1>2 DEF Request
<1> HIDE DEF q
<1>5. req[r].thrown # None =>
        IF req[r].thrown.kind = "domain" THEN AnswersByContract(r) ELSE req[r].reply.keys = {}
  BY <1>1 DEF HttpInv, RequestsAreAnswered, Replied
<1>6. AnsweredNow(r, q)
  BY <1>1, <1>4, <1>5 DEF AnsweredNow, AnswersByContract
<1> QED
  BY <1>1, <1>3, <1>6, AnsweringKeepsInv

LEMMA StutterKeepsInv == HttpInv /\ UNCHANGED vars => HttpInv'
BY DEF vars, HttpInv, TypeOK, MappedIsDocumented, ScannedIsMapped, ScanPrecedesService,
       RequestsAreAnswered, AnswersByContract, Replied, Documented

(* The inductive invariant: contracts from declaration to reply. *)
THEOREM HttpIsConsistent == Spec => []HttpInv
<1>1. HttpInv /\ [Next]_vars => HttpInv'
  BY ScanKeepsInv, FinishScanKeepsInv, ReceiveKeepsInv, HandlerReturnsKeepsInv,
     HandlerThrowsKeepsInv, CatchDomainKeepsInv, CatchUnhandledKeepsInv, OnResponseKeepsInv,
     StutterKeepsInv
  DEF Next
<1> QED
  BY <1>1, InitIsConsistent, PTL DEF Spec

(* Contracts, replies and log lines are well-typed. *)
THEOREM TypeCorrectness == Spec => []TypeOK
<1>1. HttpInv => TypeOK
  BY DEF HttpInv
<1> QED
  BY <1>1, HttpIsConsistent, PTL

(* If a business error has one status wherever it is documented, whoever    *)
(* documents it answers with that status, in whatever order the scan ran.   *)
THEOREM DocumentedStatuses ==
  ASSUME \A cat \in Catalogs, e, f \in Endpoints :
           \A d \in cat[e].errors, g \in cat[f].errors :
             d.code = g.code /\ d.code \in Codes => d.status = g.status
  PROVE  Spec => []DocumentedStatusIsReturned
<1>1. HttpInv => DocumentedStatusIsReturned
  <2> SUFFICES ASSUME HttpInv, NEW r \in Requests, Raised(r),
                      NEW d \in catalog[req[r].endpoint].errors,
                      d.code = req[r].thrown.code, d.schema
               PROVE  req[r].reply.status = d.status
    BY DEF DocumentedStatusIsReturned
  <2> USE DEF HttpInv
  <2>1. /\ req[r].endpoint \in Endpoints /\ listening
        /\ req[r].thrown # None /\ req[r].thrown.kind = "domain"
    BY DEF Raised, Replied, RequestsAreAnswered, ScanPrecedesService, None
  <2>2. AnswersByContract(r)
    BY <2>1 DEF Raised, RequestsAreAnswered
  <2>3. req[r].thrown.code \in Codes
    BY <2>1, ExceptionsHaveKinds DEF TypeOK, Request
  <2>4. contracts[d.code] # NoContract
    BY <2>1, <2>3 DEF ScannedIsMapped, ScanPrecedesService, Maps
  <2>5. PICK e \in Endpoints : \E g \in catalog[e].errors :
          g.code = d.code /\ contracts[d.code] = ContractOf(g)
    BY <2>3, <2>4 DEF MappedIsDocumented, Documented, Maps
  <2>6. PICK g \in catalog[e].errors : g.code = d.code /\ contracts[d.code] = ContractOf(g)
    BY <2>5
  <2>7. g.status = d.status
    BY <2>1, <2>3, <2>6 DEF TypeOK
  <2> QED
    BY <2>2, <2>4, <2>6, <2>7 DEF AnswersByContract, ContractOf
<1> QED
  BY <1>1, HttpIsConsistent, PTL

(* Whoever is answered 500 for a business error, the boot had named it,     *)
(* unless a 500 is what an endpoint documents.                              *)
THEOREM BootWarnsInTime == Spec => []ServerErrorsWereWarnedOf
<1>1. HttpInv => ServerErrorsWereWarnedOf
  <2> SUFFICES ASSUME HttpInv, NEW r \in Requests, Raised(r), req[r].reply.status = 500
               PROVE  req[r].thrown.code \in warned \/ \E d \in Documented : d.status = 500
    BY DEF ServerErrorsWereWarnedOf
  <2> USE DEF HttpInv
  <2>1. req[r].thrown # None /\ req[r].thrown.kind = "domain" /\ listening
    BY DEF Raised, Replied, None, ScanPrecedesService
  <2>2. AnswersByContract(r)
    BY <2>1 DEF Raised, RequestsAreAnswered
  <2>3. req[r].thrown.code \in Codes
    BY <2>1, ExceptionsHaveKinds DEF TypeOK, Request
  <2>4. CASE contracts[req[r].thrown.code] = NoContract
    BY <2>1, <2>3, <2>4 DEF ScanPrecedesService
  <2>5. CASE contracts[req[r].thrown.code] # NoContract
    <3>1. PICK d \in Documented : contracts[req[r].thrown.code] = ContractOf(d)
      BY <2>3, <2>5 DEF MappedIsDocumented
    <3>2. contracts[req[r].thrown.code].status = d.status
      BY <3>1 DEF ContractOf
    <3> QED
      BY <2>2, <2>5, <3>2 DEF AnswersByContract
  <2> QED
    BY <2>4, <2>5
<1> QED
  BY <1>1, HttpIsConsistent, PTL

(* No reply to an error holds what nobody documents for it, unless an error *)
(* line says so.                                                            *)
THEOREM ErrorContractsAreKept == Spec => []ErrorsHoldWhatIsDocumented
<1>1. HttpInv => ErrorsHoldWhatIsDocumented
  <2> SUFFICES ASSUME HttpInv, NEW r \in Requests, Replied(r), req[r].thrown # None
               PROVE  LET thrown == req[r].thrown
                          keys   == req[r].reply.keys
                      IN IF thrown.kind = "domain"
                         THEN \/ \E d \in Documented :
                                   d.code = thrown.code /\ keys \subseteq d.keys
                              \/ \E about \in {"unmapped", "drifted"} :
                                   <<"error", about>> \in req[r].lines
                         ELSE keys = {}
    BY DEF ErrorsHoldWhatIsDocumented
  <2> USE DEF HttpInv
  <2>1. CASE req[r].thrown.kind = "domain"
    <3>1. AnswersByContract(r)
      BY <2>1 DEF RequestsAreAnswered
    <3>2. req[r].thrown.code \in Codes
      BY <2>1, ExceptionsHaveKinds DEF TypeOK, Request
    <3> DEFINE contract == contracts[req[r].thrown.code]
    <3>3. CASE contract = NoContract
      BY <2>1, <3>1, <3>3 DEF AnswersByContract
    <3>4. CASE contract # NoContract
      <4>1. PICK d \in Documented : d.code = req[r].thrown.code /\ contract = ContractOf(d)
        BY <3>2, <3>4 DEF MappedIsDocumented, Maps
      <4>2. contract.keys = d.keys
        BY <4>1 DEF ContractOf
      <4> QED
        BY <2>1, <3>1, <3>4, <4>1, <4>2 DEF AnswersByContract
    <3> QED
      BY <3>3, <3>4
  <2>2. CASE req[r].thrown.kind # "domain"
    BY <2>2 DEF RequestsAreAnswered
  <2> QED
    BY <2>1, <2>2
<1> QED
  BY <1>1, HttpIsConsistent, PTL

-----------------------------------------------------------------------------
(* The error log *)

(* What endpoints document, and their pipes answer, is the client's fault.  *)
DocumentedFaultsAreTheClients ==
  \A e \in Endpoints :
    /\ \A status \in HttpStatuses[e] : status < 500
    /\ \A cat \in Catalogs :
         /\ \A d \in cat[e].errors : d.status < 500
         /\ cat[e].success # NoContract => cat[e].success.status < 500

(* Where a reply is made, not only where it is complete. *)
FaultsAreLogged ==
  \A r \in Requests : Replied(r) /\ req[r].reply.status >= 500 =>
    \E l \in req[r].lines : l[1] = "error"

LEMMA FaultsStayLogged ==
  ASSUME DocumentedFaultsAreTheClients, HttpInv, FaultsAreLogged, [Next]_vars
  PROVE  FaultsAreLogged'
<1> USE DEF HttpInv, TypeOK, Replied
<1>1. ASSUME NEW r \in Requests, NEW status \in Nat, NEW keys, NEW lines,
             Replies(r, status, keys, lines),
             status < 500 \/ \E l \in lines : l[1] = "error"
      PROVE  FaultsAreLogged'
  <2>1. /\ req'[r].reply.status = status /\ req'[r].lines = req[r].lines \cup lines
        /\ \A q \in Requests \ {r} : req'[q] = req[q]
    BY <1>1 DEF Replies, Request
  <2>2. req'[r].reply.status >= 500 => \E l \in req'[r].lines : l[1] = "error"
    BY <1>1, <2>1
  <2> QED
    BY <2>1, <2>2 DEF FaultsAreLogged
<1>2. ASSUME NEW r \in Requests, NEW exception, Throws(r, exception)
      PROVE  FaultsAreLogged'
  BY <1>2 DEF Throws, FaultsAreLogged, Request
<1>3. ASSUME NEW e \in Endpoints, NEW d \in catalog[e].errors, ScanResponse(e, d)
      PROVE  FaultsAreLogged'
  BY <1>3 DEF ScanResponse, FaultsAreLogged
<1>4. ASSUME FinishScan PROVE FaultsAreLogged'
  BY <1>4 DEF FinishScan, FaultsAreLogged
<1>5. ASSUME NEW r \in Requests, NEW e \in Endpoints, NEW marked \in BOOLEAN,
             Receive(r, e, marked)
      PROVE  FaultsAreLogged'
  BY <1>5 DEF Receive, New, FaultsAreLogged
<1>6. ASSUME NEW r \in Requests, NEW keys \in SUBSET Keys, HandlerReturns(r, keys)
      PROVE  FaultsAreLogged'
  <2> DEFINE success == catalog[req[r].endpoint].success
             status == IF success = NoContract THEN 200 ELSE success.status
  <2>1. req[r].endpoint \in Endpoints
    BY <1>6 DEF HandlerReturns, RequestsAreAnswered
  <2>2. status \in Nat /\ status < 500
    BY <2>1, CatalogsDeclare DEF DocumentedFaultsAreTheClients, Contracts
  <2>3. Replies(r, status, keys, {})
    BY <1>6 DEF HandlerReturns
  <2> HIDE DEF status
  <2> QED
    BY <1>1, <2>2, <2>3
<1>7. ASSUME NEW r \in Requests, NEW x \in Exceptions, HandlerThrows(r, x)
      PROVE  FaultsAreLogged'
  BY <1>2, <1>7 DEF HandlerThrows
<1>8. ASSUME NEW r \in Requests, CatchDomain(r) PROVE FaultsAreLogged'
  <2> DEFINE x == req[r].thrown
             contract == contracts[x.code]
  <2>1. x \in Exceptions /\ x.kind = "domain"
    BY <1>8, DomainErrorsHaveTheirFilter DEF CatchDomain, RequestsAreAnswered
  <2>2. x.code \in Codes
    BY <2>1, ExceptionsHaveKinds
  <2>3. contract # NoContract => contract.status \in Nat /\ contract.status < 500
    <3>1. SUFFICES ASSUME contract # NoContract
                   PROVE  contract.status \in Nat /\ contract.status < 500
      OBVIOUS
    <3>2. PICK e \in Endpoints : \E d \in catalog[e].errors : contract = ContractOf(d)
      BY <2>2, <3>1 DEF MappedIsDocumented, Documented
    <3>3. PICK d \in catalog[e].errors : contract = ContractOf(d)
      BY <3>2
    <3>4. contract \in Contracts
      BY <2>2, <3>1
    <3>5. d.status < 500
      BY DEF DocumentedFaultsAreTheClients
    <3> QED
      BY <3>3, <3>4, <3>5 DEF ContractOf, Contracts
  <2> HIDE DEF contract
  <2>4. \/ Replies(r, 500, x.details, {<<"error", "unmapped">>})
        \/ /\ contract # NoContract
           /\ \/ Replies(r, contract.status, Stripped(contract, x.details), {})
              \/ Replies(r, contract.status, x.details, {<<"error", "drifted">>})
    BY <1>8 DEF CatchDomain, contract
  <2>5. \E l \in {<<"error", "unmapped">>} : l[1] = "error"
    OBVIOUS
  <2> QED
    BY <1>1, <2>3, <2>4, <2>5
<1>9. ASSUME NEW r \in Requests, CatchUnhandled(r) PROVE FaultsAreLogged'
  <2> DEFINE x == req[r].thrown
  <2>1. x \in Exceptions
    BY <1>9 DEF CatchUnhandled, RequestsAreAnswered
  <2>2. x.kind = "http" => x.status \in Nat /\ x.status < 500
    BY <2>1, ExceptionsHaveKinds DEF Exceptions, DocumentedFaultsAreTheClients
  <2>3. \/ x.kind = "http" /\ Replies(r, x.status, {}, {})
        \/ Replies(r, 500, {}, {<<"error", "cause">>})
    BY <1>9 DEF CatchUnhandled
  <2>4. \E l \in {<<"error", "cause">>} : l[1] = "error"
    OBVIOUS
  <2> QED
    BY <1>1, <2>2, <2>3, <2>4
<1>10. ASSUME NEW r \in Requests, OnResponse(r) PROVE FaultsAreLogged'
  <2>1. /\ req'[r].reply = req[r].reply /\ req[r].lines \subseteq req'[r].lines
        /\ req[r].stage = "replied"
        /\ \A q \in Requests \ {r} : req'[q] = req[q]
    BY <1>10 DEF OnResponse, Request
  <2> QED
    BY <2>1 DEF FaultsAreLogged
<1>11. CASE UNCHANGED vars
  BY <1>11 DEF vars, FaultsAreLogged
<1> QED
  BY <1>3, <1>4, <1>5, <1>6, <1>7, <1>8, <1>9, <1>10, <1>11 DEF Next

(* If nobody documents a failure of the service as an answer, every 5xx has *)
(* its error line, even where the access log is silent.                     *)
THEOREM ErrorLogIsComplete ==
  ASSUME DocumentedFaultsAreTheClients
  PROVE  Spec => []ServerErrorsAreLogged
<1>1. Init => FaultsAreLogged
  BY DEF Init, New, Replied, FaultsAreLogged
<1>2. HttpInv /\ FaultsAreLogged /\ [Next]_vars => FaultsAreLogged'
  BY FaultsStayLogged
<1>3. FaultsAreLogged => ServerErrorsAreLogged
  BY DEF FaultsAreLogged, ServerErrorsAreLogged, Replied
<1> QED
  BY <1>1, <1>2, <1>3, HttpIsConsistent, PTL DEF Spec

-----------------------------------------------------------------------------
(* The access log *)

AccessOf(r) == {l \in req[r].lines : l[2] = "access"}

(* A request has no access line before it is complete, and one at most then. *)
OneAccessLine ==
  \A r \in Requests : AccessOf(r) = IF req[r].stage = "done" THEN AccessLines(r) ELSE {}

LEMMA NextAccessLine == HttpInv /\ OneAccessLine /\ [Next]_vars => OneAccessLine'
<1> SUFFICES ASSUME HttpInv, OneAccessLine, [Next]_vars PROVE OneAccessLine'
  OBVIOUS
<1> USE DEF HttpInv, TypeOK
<1>1. ASSUME NEW r \in Requests, NEW lines, req' = [req EXCEPT ![r] = req'[r]],
             req[r].stage # "done", req'[r].stage # "done",
             req'[r].lines = req[r].lines \cup lines, \A l \in lines : l[2] # "access",
             UNCHANGED catalog
      PROVE  OneAccessLine'
  <2>1. \A q \in Requests \ {r} : req'[q] = req[q]
    BY <1>1
  <2>2. AccessOf(r)' = {}
    BY <1>1 DEF OneAccessLine, AccessOf
  <2> QED
    BY <1>1, <2>1, <2>2 DEF OneAccessLine, AccessOf, AccessLines
<1>2. ASSUME NEW r \in Requests, NEW status, NEW keys, NEW lines,
             req[r].stage # "done", Replies(r, status, keys, lines),
             \A l \in lines : l[2] # "access", UNCHANGED catalog
      PROVE  OneAccessLine'
  BY <1>1, <1>2 DEF Replies, Request
<1>3. ASSUME NEW r \in Requests, NEW x, req[r].stage # "done", Throws(r, x), UNCHANGED catalog
      PROVE  OneAccessLine'
  <2>1. /\ req'[r].lines = req[r].lines /\ req'[r].stage = "thrown"
        /\ \A q \in Requests \ {r} : req'[q] = req[q]
    BY <1>3 DEF Throws, Request
  <2> QED
    BY <1>3, <2>1 DEF OneAccessLine, AccessOf, AccessLines
<1>4. ASSUME UNCHANGED <<req, catalog>> PROVE OneAccessLine'
  BY <1>4 DEF OneAccessLine, AccessOf, AccessLines
<1>5. CASE \/ \E e \in Endpoints : \E d \in catalog[e].errors : ScanResponse(e, d)
           \/ FinishScan \/ UNCHANGED vars
  BY <1>4, <1>5 DEF ScanResponse, FinishScan, vars
<1>6. ASSUME NEW r \in Requests, NEW e \in Endpoints, NEW marked \in BOOLEAN,
             Receive(r, e, marked)
      PROVE  OneAccessLine'
  <2>1. AccessOf(r)' = {} /\ req'[r].stage = "received"
    BY <1>6 DEF Receive, New, AccessOf
  <2>2. \A q \in Requests \ {r} : req'[q] = req[q]
    BY <1>6 DEF Receive
  <2> QED
    BY <1>6, <2>1, <2>2 DEF Receive, OneAccessLine, AccessOf, AccessLines
<1>7. ASSUME NEW r \in Requests, NEW keys \in SUBSET Keys, HandlerReturns(r, keys)
      PROVE  OneAccessLine'
  BY <1>2, <1>7 DEF HandlerReturns
<1>8. ASSUME NEW r \in Requests, NEW x \in Exceptions, HandlerThrows(r, x)
      PROVE  OneAccessLine'
  BY <1>3, <1>8 DEF HandlerThrows
<1>9. ASSUME NEW r \in Requests, CatchDomain(r) \/ CatchUnhandled(r) PROVE OneAccessLine'
  <2>1. \A l \in {} \cup {<<"error", "unmapped">>, <<"error", "drifted">>, <<"error", "cause">>} :
          l[2] # "access"
    OBVIOUS
  <2>2. PICK status, keys, lines :
          /\ Replies(r, status, keys, lines)
          /\ lines \subseteq {<<"error", "unmapped">>, <<"error", "drifted">>, <<"error", "cause">>}
    BY <1>9 DEF CatchDomain, CatchUnhandled
  <2> QED
    BY <1>2, <1>9, <2>1, <2>2 DEF CatchDomain, CatchUnhandled
<1>10. ASSUME NEW r \in Requests, OnResponse(r) PROVE OneAccessLine'
  <2>1. /\ req[r].stage = "replied" /\ req'[r].stage = "done"
        /\ req'[r].lines = req[r].lines \cup AccessLines(r)
        /\ req'[r].endpoint = req[r].endpoint /\ req'[r].marked = req[r].marked
        /\ req'[r].reply = req[r].reply
        /\ \A q \in Requests \ {r} : req'[q] = req[q]
        /\ UNCHANGED catalog
    BY <1>10 DEF OnResponse, Request
  <2>2. \A l \in AccessLines(r) : l[2] = "access"
    BY DEF AccessLines
  <2>3. AccessLines(r)' = AccessLines(r) /\ AccessOf(r) = {}
    BY <2>1 DEF AccessLines, OneAccessLine
  <2>4. AccessOf(r)' = AccessLines(r)'
    BY <2>1, <2>2, <2>3 DEF AccessOf
  <2> QED
    BY <2>1, <2>4 DEF OneAccessLine, AccessOf, AccessLines
<1> QED
  BY <1>5, <1>6, <1>7, <1>8, <1>9, <1>10 DEF Next

(* A request leaves one access line, at the level of its status, when it is *)
(* complete, and is missing from the log exactly if its endpoint is a probe *)
(* or its URL has the mark of one in its query (request-logging.ts:181).    *)
THEOREM AccessLogIsExact ==
  Spec => [](/\ OneAccessLine
             /\ \A r \in Requests : req[r].stage = "done" =>
                  (AccessOf(r) = {} <=> catalog[req[r].endpoint].probe \/ req[r].marked))
<1>1. Init => OneAccessLine
  BY DEF Init, New, OneAccessLine, AccessOf
<1>2. OneAccessLine =>
        \A r \in Requests : req[r].stage = "done" =>
          (AccessOf(r) = {} <=> catalog[req[r].endpoint].probe \/ req[r].marked)
  BY DEF OneAccessLine, AccessLines
<1> QED
  BY <1>1, <1>2, NextAccessLine, HttpIsConsistent, PTL DEF Spec
=============================================================================
