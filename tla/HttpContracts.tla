--------------------------- MODULE HttpContracts ---------------------------
(***************************************************************************)
(* What leaves the service over HTTP.  Endpoints declare how they succeed  *)
(* and fail; at boot EndpointScanner derives from what is mounted which    *)
(* status and contract a business error has; at run time the exception     *)
(* filters make replies of what handlers throw, what handlers return       *)
(* leaves as it is, and the request log records both.                      *)
(*                                                                         *)
(* The fields of a response (of a success, or of the details of an error)  *)
(* are a set of keys; a contract is the keys it names, all required.       *)
(***************************************************************************)
EXTENDS Naturals, FiniteSets

CONSTANTS
  Requests,
  Endpoints,  \* the mounted controller methods
  Codes,      \* declaredBusinessErrors()
  Keys,
  Catalogs,   \* the endpoint declarations considered
  HttpStatuses,  \* those the HttpExceptions of an endpoint have: its pipes'
  NoContract, NoCode

Contracts == [status : Nat, keys : SUBSET Keys]

(* ResponseSpec; a transport-level failure has no code. *)
Responses == [status : Nat, keys : SUBSET Keys, code : Codes \cup {NoCode}, schema : BOOLEAN]

(* A probe is a path the request log ignores, a method without @UseEndpoint *)
(* has no contract.                                                         *)
EndpointDeclaration ==
  [success : Contracts \cup {NoContract}, errors : SUBSET Responses, probe : BOOLEAN]

ASSUME CatalogsAreCatalogs == Catalogs \subseteq [Endpoints -> EndpointDeclaration]
ASSUME StatusesAreNumbers == HttpStatuses \in [Endpoints -> SUBSET Nat]
ASSUME NothingsAreApart == NoContract \notin Contracts /\ NoCode \notin Codes

VARIABLES
  catalog,
  toScan,     \* what onApplicationBootstrap has not read yet
  contracts,  \* error.registry.ts
  warned,     \* the codes the boot warning names
  listening,
  req

vars == <<catalog, toScan, contracts, warned, listening, req>>

Exceptions ==
  [kind : {"domain"}, code : Codes, details : SUBSET Keys]
    \cup [kind : {"http"}, status : UNION {HttpStatuses[e] : e \in Endpoints}]
    \cup [kind : {"other"}]

None == [kind |-> "none"]
NoReply == [status |-> 0, keys |-> {}]

New == [stage |-> "new", endpoint |-> None, marked |-> FALSE, thrown |-> None,
        reply |-> NoReply, lines |-> {}]

(* A line is at a level and about something. *)
Lines == {"error"} \X {"unmapped", "drifted", "cause", "access"} \cup {<<"info", "access">>}

Declared(cat) == UNION {{e} \X cat[e].errors : e \in Endpoints}

-----------------------------------------------------------------------------
(* Boot: EndpointScanner.onApplicationBootstrap *)

Init ==
  /\ catalog \in Catalogs
  /\ toScan = Declared(catalog)
  /\ contracts = [c \in Codes |-> NoContract]
  /\ warned = {}
  /\ listening = FALSE
  /\ req = [r \in Requests |-> New]

(* mapErrorContract; controllers are in the order Nest discovered them. *)
ScanResponse(e, d) ==
  /\ <<e, d>> \in toScan
  /\ toScan' = toScan \ {<<e, d>>}
  /\ IF d.code # NoCode /\ d.schema
     THEN contracts' = [contracts EXCEPT ![d.code] = [status |-> d.status, keys |-> d.keys]]
     ELSE UNCHANGED contracts
  /\ UNCHANGED <<catalog, warned, listening, req>>

(* Bug: asks what is documented, not what was mapped. *)
UnmentionedCodes == {c \in Codes : \A e \in Endpoints : \A d \in catalog[e].errors : d.code # c}

UnmappedCodes == {c \in Codes : contracts[c] = NoContract}

(* The scan is over before the server listens. *)
FinishScan ==
  /\ toScan = {} /\ ~listening
  /\ warned' = UnmappedCodes
  /\ listening' = TRUE
  /\ UNCHANGED <<catalog, toScan, contracts, req>>

-----------------------------------------------------------------------------
(* A request: pipe, handler *)

Receive(r, e, marked) ==
  /\ listening /\ req[r].stage = "new"
  /\ req' = [req EXCEPT ![r] = [New EXCEPT !.stage = "received", !.endpoint = e,
                                           !.marked = marked]]
  /\ UNCHANGED <<catalog, toScan, contracts, warned, listening>>

Throws(r, exception) ==
  req' = [req EXCEPT ![r] = [@ EXCEPT !.stage = "thrown", !.thrown = exception]]

Replies(r, status, keys, lines) ==
  req' = [req EXCEPT ![r] = [@ EXCEPT !.stage = "replied", !.lines = req[r].lines \cup lines,
                                      !.reply = [status |-> status, keys |-> keys]]]

(* Bug: the filter checks the details and sends them as they were raised. *)
SentAsRaised(contract, keys) == keys

(* zod strips what a contract does not name. *)
Stripped(contract, keys) == keys \cap contract.keys

Satisfies(contract, keys) == contract.keys \subseteq keys

(* SerializeOptions is metadata, and nobody binds the interceptor that reads *)
(* it: what toResponse makes leaves with the status of the success.          *)
HandlerReturns(r, keys) ==
  /\ req[r].stage = "received"
  /\ LET success == catalog[req[r].endpoint].success IN
       Replies(r, IF success = NoContract THEN 200 ELSE success.status, keys, {})
  /\ UNCHANGED <<catalog, toScan, contracts, warned, listening>>

(* A pipe refuses the request, a handler raises a business error or fails. *)
HandlerThrows(r, exception) ==
  /\ req[r].stage = "received"
  /\ exception.kind = "http" => exception.status \in HttpStatuses[req[r].endpoint]
  /\ Throws(r, exception)
  /\ UNCHANGED <<catalog, toScan, contracts, warned, listening>>

-----------------------------------------------------------------------------
(* The filters: Nest asks the last registered first. *)

(* Bug: the catch-all is declared last. *)
FiltersSwapped == <<"domain", "unhandled">>

Filters == <<"unhandled", "domain">>

Catches(filter, exception) == filter = "unhandled" \/ exception.kind = "domain"

Chosen(exception) ==
  IF Catches(Filters[2], exception) THEN Filters[2] ELSE Filters[1]

(* DomainExceptionFilter *)
CatchDomain(r) ==
  /\ req[r].stage = "thrown" /\ Chosen(req[r].thrown) = "domain"
  /\ LET exception == req[r].thrown
         contract  == contracts[exception.code]
     IN \/ /\ contract = NoContract
           /\ Replies(r, 500, exception.details, {<<"error", "unmapped">>})
        \/ /\ contract # NoContract /\ Satisfies(contract, exception.details)
           /\ Replies(r, contract.status, Stripped(contract, exception.details), {})
        \/ /\ contract # NoContract /\ ~Satisfies(contract, exception.details)
           /\ Replies(r, contract.status, exception.details, {<<"error", "drifted">>})
  /\ UNCHANGED <<catalog, toScan, contracts, warned, listening>>

(* Bug: the cause is left to the access log. *)
CatchUnhandledQuietly(r) ==
  /\ req[r].stage = "thrown" /\ Chosen(req[r].thrown) = "unhandled"
  /\ Replies(r, IF req[r].thrown.kind = "http" THEN req[r].thrown.status ELSE 500, {}, {})
  /\ UNCHANGED <<catalog, toScan, contracts, warned, listening>>

(* UnhandledExceptionFilter *)
CatchUnhandled(r) ==
  /\ req[r].stage = "thrown" /\ Chosen(req[r].thrown) = "unhandled"
  /\ IF req[r].thrown.kind = "http"
     THEN Replies(r, req[r].thrown.status, {}, {})
     ELSE Replies(r, 500, {}, {<<"error", "cause">>})
  /\ UNCHANGED <<catalog, toScan, contracts, warned, listening>>

-----------------------------------------------------------------------------
(* registerRequestLogging: one line on completion, unless the URL, of which  *)
(* the query is a part, has /health or /docs in it.                          *)
AccessLines(r) ==
  IF catalog[req[r].endpoint].probe \/ req[r].marked THEN {}
  ELSE {IF req[r].reply.status >= 500 THEN <<"error", "access">> ELSE <<"info", "access">>}

OnResponse(r) ==
  /\ req[r].stage = "replied"
  /\ req' = [req EXCEPT ![r] =
       [@ EXCEPT !.stage = "done",
                 !.lines = req[r].lines \cup AccessLines(r)]]
  /\ UNCHANGED <<catalog, toScan, contracts, warned, listening>>

Next ==
  \/ \E e \in Endpoints : \E d \in catalog[e].errors : ScanResponse(e, d)
  \/ FinishScan
  \/ \E r \in Requests :
       \/ \E e \in Endpoints, marked \in BOOLEAN : Receive(r, e, marked)
       \/ \E keys \in SUBSET Keys : HandlerReturns(r, keys)
       \/ \E exception \in Exceptions : HandlerThrows(r, exception)
       \/ CatchDomain(r)
       \/ CatchUnhandled(r)
       \/ OnResponse(r)

Spec == Init /\ [][Next]_vars

-----------------------------------------------------------------------------
(* What the contracts promise *)

Request ==
  [stage : {"new", "received", "thrown", "replied", "done"}, endpoint : Endpoints \cup {None},
   marked : BOOLEAN, thrown : Exceptions \cup {None}, reply : Contracts, lines : SUBSET Lines]

(* Everything is of its type: what is mapped is a status and a contract. *)
TypeOK ==
  /\ catalog \in Catalogs
  /\ toScan \subseteq Declared(catalog)
  /\ contracts \in [Codes -> Contracts \cup {NoContract}]
  /\ warned \subseteq Codes
  /\ listening \in BOOLEAN
  /\ req \in [Requests -> Request]

Replied(r) == req[r].stage \in {"replied", "done"}

Raised(r) == Replied(r) /\ req[r].thrown.kind = "domain"

Documented == UNION {catalog[e].errors : e \in Endpoints}

(* "The documented status and the one the filter returns cannot disagree"   *)
(* (README.md:137-139): an endpoint that documents a business error answers *)
(* it with the status it documents.                                         *)
DocumentedStatusIsReturned ==
  \A r \in Requests : Raised(r) =>
    \A d \in catalog[req[r].endpoint].errors :
      d.code = req[r].thrown.code /\ d.schema => req[r].reply.status = d.status

(* A business error answered with an undocumented 500 was named when the    *)
(* service booted, before anybody could meet it (endpoint.scanner.ts:22-25). *)
ServerErrorsWereWarnedOf ==
  \A r \in Requests :
    Raised(r) /\ req[r].reply.status = 500 =>
      req[r].thrown.code \in warned \/ \E d \in Documented : d.status = 500

(* What the reply to an error holds, some endpoint documents for its code,   *)
(* or an error line says that it does not (domain-exception.filter.ts:58-66) *)
(* and what is no business error says nothing of its cause.                  *)
ErrorsHoldWhatIsDocumented ==
  \A r \in Requests : Replied(r) /\ req[r].thrown # None =>
    LET thrown == req[r].thrown
        keys   == req[r].reply.keys
    IN IF thrown.kind = "domain"
       THEN \/ \E d \in Documented : d.code = thrown.code /\ keys \subseteq d.keys
            \/ \E about \in {"unmapped", "drifted"} : <<"error", about>> \in req[r].lines
       ELSE keys = {}

(* "5xx is our fault and belongs in the error log" (request-logging.ts:190): *)
(* there is an error line for each, even of a request the access log skips.  *)
ServerErrorsAreLogged ==
  \A r \in Requests : req[r].stage = "done" /\ req[r].reply.status >= 500 =>
    \E l \in req[r].lines : l[1] = "error"

-----------------------------------------------------------------------------
(* What texts of the repository say and the code does not do *)

(* "One line per request, on completion" (request-logging.ts:143), but for  *)
(* health probes and docs (:33).                                            *)
RequestsAreLogged ==
  \A r \in Requests : req[r].stage = "done" /\ ~catalog[req[r].endpoint].probe =>
    \E l \in req[r].lines : l[2] = "access"

(* "Zod strips keys the contract does not name, so the omission is enforced *)
(* rather than remembered" (README.md:133-134): a success holds nothing     *)
(* that its contract does not name, whatever the handler returned.          *)
SuccessesAreStripped ==
  \A r \in Requests : Replied(r) /\ req[r].thrown = None =>
    LET success == catalog[req[r].endpoint].success IN
      success # NoContract => req[r].reply.keys \subseteq success.keys
=============================================================================
