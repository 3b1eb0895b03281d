-------------------------- MODULE RequestLogProofs --------------------------
(* Proofs about RequestLog, for any environments, redaction list, traffic    *)
(* and number of requests.                                                   *)
EXTENDS RequestLog, TLAPS

(***************************************************************************)
(* The inductive invariant.  None of the promises is inductive: what a     *)
(* line shows depends on what a hook kept on its request and on the        *)
(* configuration, and both were set steps before.                          *)
(***************************************************************************)

(* A request whose payload was kept is in it, and its answer one of Answers. *)
SentInv ==
  \A r \in Requests : req[r].stage = "sent" =>
    /\ req[r].question \in Questions /\ req[r].answer \in Answers
    /\ config.responseBody => req[r].stash = Kept(r, req[r].answer)

ReceivedInv ==
  \A r \in Requests : req[r].stage = "received" => req[r].question \in Questions

(* The switches are those of the environment once there is a configuration; *)
(* before the process serves nothing is written, and what was said waits.   *)
BootInv ==
  /\ process \in {"creating", "serving"} => config = Config
  /\ process \in {"validating", "creating", "serving"} =>
       logger \in [pretty : BOOLEAN, level : Levels]
  /\ process # "serving" => log = {} /\ said = buffer /\ \A r \in Requests : req[r].stage = "new"

LogInv == OnlyPathlessSecretsLeak /\ ProductionKeepsPayloadsOut /\ LinesAreOfOneRequest

RequestLogInv == TypeOK /\ BootInv /\ ReceivedInv /\ SentInv /\ LogInv /\ SaidIsWritten

-----------------------------------------------------------------------------
(* Lemmas on lines *)

(* A leaf that has a path and that redaction leaves legible is no secret. *)
LEMMA LegibleIsPublic ==
  ASSUME NEW l \in Leaves, l.form # "text", l.place \notin UrlPlaces, ~Redacted(l)
  PROVE  l.field \notin Secrets[l.place]
<1>1. l.place \in Places \ UrlPlaces
  BY DEF Leaves
<1>2. SUFFICES ASSUME l.field \in Secrets[l.place] PROVE FALSE
  OBVIOUS
<1>3. PICK pattern \in Redact : Covers(pattern, l.place \o l.field)
  BY <1>1, <1>2, SecretsAreListed
<1>4. At(l) = l.place \o l.field
  BY DEF At
<1> QED
  BY <1>3, <1>4 DEF Redacted

(* What a handler may say and what Nest may. *)
Call(c) ==
  \/ c \in NestCalls
  \/ \E r \in Requests : c \in HandlerCalls[r]
  \/ /\ c \in Calls /\ c.from \in Requests /\ c.via = "bound"
     /\ c.message = "fields" /\ c.params = <<"message">>

(* A line shows no more than the call gave it, and nothing redacted.        *)
LEMMA LineIsOfItsCall ==
  ASSUME NEW c
  PROVE  /\ Line(c).from = c.from /\ Line(c).level = c.level
         /\ Line(c).leaves = {l \in c.leaves : ~Redacted(l)}
BY DEF Line

(* The writer keeps the message and the context, by either convention.      *)
LEMMA LineKeepsItsMeaning ==
  ASSUME NEW c, Call(c)
  PROVE  /\ Line(c).message = Meant(c).message /\ Line(c).context = Meant(c).context
         /\ c \in Calls /\ Line(c) \in Lines
<1>1. ASSUME c \in NestCalls
      PROVE  /\ c \in Calls
             /\ Context(c) = Meant(c).context /\ Message(c) = Meant(c).message
             /\ Meant(c).context = "context"
  <2>1. /\ c \in Calls /\ c.via = "nest"
        /\ c.params \in {<<"context">>, <<"stack", "context">>, <<"message", "context">>}
        /\ c.message = "fields" <=> c.params = <<"message", "context">>
    BY <1>1, NestCallsAreNests
  <2>2. /\ c.params # <<>> /\ c.params[Len(c.params)] = "context"
        /\ c.message = "fields" => Len(c.params) = 2 /\ c.params[1] = "message"
    <3>1. CASE c.params = <<"context">>
      BY <2>1, <3>1
    <3>2. CASE c.params = <<"stack", "context">>
      BY <2>1, <3>2
    <3>3. CASE c.params = <<"message", "context">>
      BY <2>1, <3>3
    <3> QED
      BY <2>1, <3>1, <3>2, <3>3
  <2>3. Promotes(c)
    BY <2>1, <2>2 DEF Promotes
  <2> QED
    BY <2>1, <2>2, <2>3 DEF Meant, Context, Message, Remaining
<1>2. ASSUME c \notin NestCalls
      PROVE  /\ c \in Calls
             /\ Context(c) = Meant(c).context /\ Message(c) = Meant(c).message
             /\ Meant(c).context = "bound"
  <2>1. /\ c \in Calls /\ c.via = "bound"
        /\ c.message = "fields" => c.params = <<"message">>
    BY <1>2, HandlerCallsAreBound DEF Call
  <2>2. ~Promotes(c)
    BY <2>1 DEF Promotes
  <2>3. c.message = "fields" => Len(c.params) = 1 /\ c.params[1] = "message"
    BY <2>1
  <2> QED
    BY <2>1, <2>2, <2>3 DEF Meant, Context, Message, Remaining
<1>3. /\ c \in Calls /\ Context(c) = Meant(c).context /\ Message(c) = Meant(c).message
      /\ Meant(c).context \in {"bound", "context"}
  BY <1>1, <1>2
<1>4. Meant(c).message \in {"text", "error", "message"}
  BY <1>3 DEF Meant, Calls
<1>5. Line(c) \in Lines
  BY <1>3, <1>4 DEF Line, Lines, Calls
<1> QED
  BY <1>3, <1>5 DEF Line

(* The leaves of an access line are of its request, are legible only if     *)
(* they are no secret, and are payload only where the switches say so.      *)
LEMMA AccessLeavesAreRight ==
  ASSUME TypeOK, BootInv, SentInv, process = "serving",
         NEW r \in Requests, req[r].stage = "sent"
  PROVE  /\ AccessLeaves(r) \subseteq Leaves
         /\ \A l \in AccessLeaves(r) :
              /\ l.of = r
              /\ l.form = "text" => Pathless(l) \/ l.field \notin Secrets[l.place]
              /\ l.place = <<"req", "body">> => config.requestBody
              /\ l.place = <<"res", "body">> => config.responseBody
<1> DEFINE question == req[r].question
           answer   == req[r].answer
           A0 == UrlLeaves(question, r)
           A1 == LeavesOf(<<"req", "headers">>, "json", question.headers, r)
           A2 == IF config.requestBody
                 THEN LeavesOf(<<"req", "body">>, question.body.form, Capped(question.body), r)
                 ELSE {}
           A3 == LeavesOf(<<"res", "headers">>, "json", answer.headers \cap Allowlist, r)
           A4 == IF config.responseBody THEN Reply(req[r].stash) ELSE {}
           Right(l) == /\ l \in Leaves
                       /\ l.of = r
                       /\ l.form = "text" => Pathless(l) \/ l.field \notin Secrets[l.place]
                       /\ l.place = <<"req", "body">> => config.requestBody
                       /\ l.place = <<"res", "body">> => config.responseBody
<1>1. /\ question \in Question /\ answer \in Answer /\ answer \in Answers
      /\ question.query \subseteq Fields /\ question.params \subseteq Fields
      /\ question.headers \subseteq Fields /\ answer.headers \subseteq Fields
      /\ question.body \in Payloads /\ answer.payload \in Payloads
  BY TrafficIsTyped DEF SentInv, Question, Answer
<1>2. /\ <<"req", "headers">> # <<"req", "body">> /\ <<"req", "headers">> # <<"res", "body">>
      /\ <<"res", "headers">> # <<"req", "body">> /\ <<"res", "headers">> # <<"res", "body">>
      /\ <<"req", "body">> # <<"res", "body">>
      /\ <<"req", "body">> \notin UrlPlaces /\ <<"res", "body">> \notin UrlPlaces
  BY DEF UrlPlaces
<1>3. <<"req", "headers">> \in Places /\ <<"req", "body">> \in Places
      /\ <<"res", "headers">> \in Places /\ <<"res", "body">> \in Places
      /\ UrlPlaces \subseteq Places
  BY DEF Places
<1>4. /\ Capped(question.body) \in SUBSET Fields /\ question.body.form \in Forms
      /\ answer.headers \cap Allowlist \in SUBSET Fields
  BY <1>1 DEF Capped, Payloads
<1>0. ASSUME NEW l \in A0 PROVE Right(l)
  <2>1. l \in Leaves /\ l.of = r /\ l.place \in UrlPlaces
    BY <1>0, <1>1, <1>3 DEF UrlLeaves, UrlPlaces, LeavesOf, Leaves, Forms
  <2> QED
    BY <2>1, <1>2 DEF Pathless
<1>5. ASSUME NEW l \in A1 PROVE Right(l)
  <2>1. l \in Leaves /\ l.of = r /\ l.form = "json" /\ l.place = <<"req", "headers">>
    BY <1>1, <1>3, <1>5 DEF LeavesOf, Leaves, Forms
  <2> QED
    BY <2>1, <1>2
<1>6. ASSUME NEW l \in A2 PROVE Right(l)
  <2>1. /\ config.requestBody
        /\ l \in LeavesOf(<<"req", "body">>, question.body.form, Capped(question.body), r)
    BY <1>6
  <2>2. l \in Leaves /\ l.of = r /\ l.place = <<"req", "body">>
    BY <2>1, <1>3, <1>4 DEF LeavesOf, Leaves
  <2> QED
    BY <2>1, <2>2, <1>2 DEF Pathless
<1>7. ASSUME NEW l \in A3 PROVE Right(l)
  <2>1. l \in Leaves /\ l.of = r /\ l.form = "json" /\ l.place = <<"res", "headers">>
    BY <1>3, <1>4, <1>7 DEF LeavesOf, Leaves, Forms
  <2> QED
    BY <2>1, <1>2
<1>8. ASSUME NEW l \in A4 PROVE Right(l)
  <2>1. config.responseBody /\ l \in Reply(req[r].stash)
    BY <1>8
  <2>2. req[r].stash = Kept(r, answer)
    BY <2>1 DEF SentInv
  <2> DEFINE shown == IF answer.payload.form = "stream" THEN {} ELSE Capped(answer.payload)
  <2>3. shown \in SUBSET answer.payload.fields /\ shown \in SUBSET Fields
    BY <1>1 DEF Capped, Payloads
  <2>4. l \in LeavesOf(<<"res", "body">>, answer.payload.form, shown, r)
    BY <2>1, <2>2 DEF Reply, Kept
  <2>5. /\ l \in Leaves /\ l.of = r /\ l.form = answer.payload.form
        /\ l.place = <<"res", "body">> /\ l.field \in shown
    BY <2>3, <2>4, <1>1, <1>3 DEF Payloads, LeavesOf, Leaves, Forms
  <2>6. l.form = "text" => Pathless(l) \/ l.field \notin Secrets[l.place]
    BY <2>3, <2>5, <1>1, SecretsAreListed
  <2> QED
    BY <2>1, <2>5, <2>6, <1>2
<1>9. AccessLeaves(r) = A0 \cup A1 \cup A2 \cup A3 \cup A4
  BY DEF AccessLeaves
<1> QED
  BY <1>0, <1>5, <1>6, <1>7, <1>8, <1>9

-----------------------------------------------------------------------------
(* The invariant *)

(* Writing lines of calls that are right keeps the log right.               *)
LEMMA WritingKeepsTheLog ==
  ASSUME TypeOK, BootInv, LogInv, NEW calls, Write(calls), UNCHANGED <<env, config>>,
         process \in {"creating", "serving"},
         \A c \in calls :
           /\ Call(c)
           /\ \A l \in c.leaves :
                /\ l.of = c.from
                /\ l.form = "text" => Pathless(l) \/ l.field \notin Secrets[l.place]
                /\ l.place = <<"req", "body">> => config.requestBody
                /\ l.place = <<"res", "body">> => config.responseBody
  PROVE  /\ log' \subseteq Lines /\ said' \subseteq Calls /\ LogInv'
<1>1. SUFFICES ASSUME NEW line \in log' \ log
      PROVE /\ line \in Lines
            /\ \A l \in line.leaves :
                 /\ l.of = line.from
                 /\ l.field \in Secrets[l.place] => Pathless(l)
                 /\ l.place = <<"req", "body">> => config.requestBody
                 /\ l.place = <<"res", "body">> => config.responseBody
  <2>1. said' \subseteq Calls
    BY LineKeepsItsMeaning DEF Write, TypeOK
  <2>2. log' \subseteq Lines
    BY <1>1 DEF TypeOK
  <2>3. env.production =>
          /\ config.requestBody => env.requestBody \in {"true", "yes"}
          /\ config.responseBody => env.responseBody \in {"true", "yes"}
    <3>1. config = Config
      BY DEF BootInv
    <3>2. /\ config.requestBody = Switched(env.requestBody, ~env.production)
          /\ config.responseBody = Switched(env.responseBody, ~env.production)
      BY <3>1 DEF Config
    <3> QED
      BY <3>2, Zenon DEF Switched
  <2> QED
    BY <1>1, <2>1, <2>2, <2>3
       DEF LogInv, OnlyPathlessSecretsLeak, ProductionKeepsPayloadsOut, LinesAreOfOneRequest
<1>2. PICK c \in calls : line = Line(c)
  BY DEF Write
<1>3. /\ line \in Lines /\ line.from = c.from
      /\ line.leaves = {l \in c.leaves : ~Redacted(l)}
      /\ c.leaves \subseteq Leaves
  BY <1>2, LineKeepsItsMeaning, LineIsOfItsCall DEF Calls
<1> QED
  BY <1>3, LegibleIsPublic DEF Pathless

(* ... and what was said is there, if the level lets it.                    *)
LEMMA WritingWrites ==
  ASSUME NEW calls, Write(calls), UNCHANGED logger, \A c \in calls : Call(c),
         \/ SaidIsWritten /\ process = "serving"
         \/ log = {} /\ said \subseteq calls
  PROVE  SaidIsWritten'
<1>1. SUFFICES ASSUME NEW call \in said', Enabled(call.level)'
      PROVE \E line \in log' :
              /\ line.from = call.from /\ line.level = call.level
              /\ line.context = Meant(call).context /\ line.message = Meant(call).message
  BY DEF SaidIsWritten, Meant
<1>2. Enabled(call.level)
  BY <1>1 DEF Enabled
<1>3. CASE call \in calls
  <2>1. Line(call) \in log'
    BY <1>2, <1>3 DEF Write
  <2> QED
    BY <1>3, <2>1, LineKeepsItsMeaning, LineIsOfItsCall
<1>4. CASE call \notin calls
  BY <1>1, <1>2, <1>4 DEF Write, SaidIsWritten
<1> QED
  BY <1>3, <1>4

LEMMA InitInv == Init => RequestLogInv
<1> SUFFICES ASSUME Init PROVE RequestLogInv
  OBVIOUS
<1>1. NoPayload \in Payloads
  BY DEF NoPayload, Payloads, Forms
<1>2. New \in Request
  BY <1>1 DEF New, Request
<1>3. TypeOK
  BY <1>2 DEF Init, TypeOK
<1>4. BootInv /\ ReceivedInv /\ SentInv
  BY DEF Init, BootInv, ReceivedInv, SentInv, New
<1>5. LogInv /\ SaidIsWritten
  BY DEF Init, LogInv, SaidIsWritten, OnlyPathlessSecretsLeak, ProductionKeepsPayloadsOut,
         LinesAreOfOneRequest
<1> QED
  BY <1>3, <1>4, <1>5 DEF RequestLogInv


LEMMA SwitchesAreSwitches ==
  ASSUME NEW switch
  PROVE  /\ Switched(switch, TRUE) \in BOOLEAN
         /\ \A b \in BOOLEAN : Switched(switch, ~b) \in BOOLEAN
<1>1. CASE switch = "unset"
  BY <1>1 DEF Switched
<1>2. CASE switch # "unset"
  BY <1>2 DEF Switched
<1> QED
  BY <1>1, <1>2

(* Actions of the boot change nothing of any request.                       *)
LEMMA BootStepInv ==
  ASSUME RequestLogInv, ImportLogger \/ Validate
  PROVE  RequestLogInv'
<1> USE DEF RequestLogInv
<1>1. env \in Environment
  BY EnvironmentsAreEnvironments DEF TypeOK
<1>2. UNCHANGED <<env, buffer, said, log, req>> /\ process # "serving" /\ process' # "serving"
  BY DEF ImportLogger, Validate
<1>3. \/ logger' \in [pretty : BOOLEAN, level : Levels]
      \/ UNCHANGED logger /\ (process' = "dead" \/ Validate)
  <2>1. CASE ImportLogger
    <3>1. \/ UNCHANGED logger /\ process' = "dead"
          \/ logger' = [pretty |-> Pretty(env.json), level |-> Start(env.level)]
      BY <2>1 DEF ImportLogger
    <3>2. env.level # "malformed" => Start(env.level) \in Levels
      BY <1>1 DEF Start, Environment, Levels, Ranks
    <3>3. Pretty(env.json) \in BOOLEAN
      BY DEF Pretty
    <3> QED
      BY <2>1, <3>1, <3>2, <3>3 DEF ImportLogger
  <2>2. CASE Validate
    BY <2>2 DEF Validate
  <2> QED
    BY <2>1, <2>2
<1>4. config' \in [json : BOOLEAN, requestBody : BOOLEAN, responseBody : BOOLEAN]
      \/ UNCHANGED config
  <2>1. UNCHANGED config \/ config' = Config
    BY DEF ImportLogger, Validate
  <2>2. /\ Switched(env.json, TRUE) \in BOOLEAN
        /\ Switched(env.requestBody, ~env.production) \in BOOLEAN
        /\ Switched(env.responseBody, ~env.production) \in BOOLEAN
    BY <1>1, SwitchesAreSwitches DEF Environment
  <2>3. Config \in [json : BOOLEAN, requestBody : BOOLEAN, responseBody : BOOLEAN]
    BY <2>2, Zenon DEF Config
  <2> QED
    BY <2>1, <2>3
<1>5. TypeOK'
  BY <1>2, <1>3, <1>4 DEF TypeOK, ImportLogger, Validate
<1>6. BootInv'
  <2>1. Config' = Config
    BY <1>2 DEF Config
  <2> QED
    <3>1. CASE ImportLogger
      BY <1>2, <1>3, <2>1, <3>1 DEF BootInv, ImportLogger, Validate
    <3>2. CASE Validate
      BY <1>2, <2>1, <3>2 DEF BootInv, Validate
    <3> QED
      BY <3>1, <3>2
<1>7. ReceivedInv' /\ SentInv'
  BY <1>2 DEF BootInv, ReceivedInv, SentInv
<1>8. LogInv' /\ SaidIsWritten'
  BY <1>2 DEF BootInv, LogInv, SaidIsWritten, OnlyPathlessSecretsLeak, ProductionKeepsPayloadsOut,
              LinesAreOfOneRequest
<1> QED
  BY <1>5, <1>6, <1>7, <1>8

(* The framework speaks and the server starts.                              *)
LEMMA NestStepInv ==
  ASSUME RequestLogInv, Serve \/ \E call \in NestCalls : Buffer(call) \/ NestLogs(call)
  PROVE  RequestLogInv'
<1> USE DEF RequestLogInv
<1>1. UNCHANGED <<env, logger, config, req>> /\ Config' = Config
  BY DEF Serve, Buffer, NestLogs, Config
<1>2. ReceivedInv' /\ SentInv'
  BY <1>1 DEF ReceivedInv, SentInv, Kept
<1>3. \A c \in NestCalls : Call(c) /\ c.leaves = {} /\ c \in Calls
  BY NestCallsAreNests DEF Call
<1>4. CASE Serve
  <2>1. Write(buffer) /\ buffer \subseteq NestCalls
    BY <1>4 DEF Serve, TypeOK
  <2>2. log' \subseteq Lines /\ said' \subseteq Calls /\ LogInv'
    BY <1>1, <1>3, <1>4, <2>1, WritingKeepsTheLog DEF Serve
  <2>3. SaidIsWritten'
    BY <1>1, <1>3, <1>4, <2>1, WritingWrites DEF Serve, BootInv
  <2> QED
    BY <1>1, <1>2, <1>4, <2>2, <2>3 DEF Serve, TypeOK, BootInv
<1>5. ASSUME NEW call \in NestCalls, Buffer(call) PROVE RequestLogInv'
  <2>1. LogInv'
    BY <1>5, <1>1 DEF Buffer, LogInv, OnlyPathlessSecretsLeak, ProductionKeepsPayloadsOut,
                      LinesAreOfOneRequest
  <2> QED
    BY <1>1, <1>2, <1>3, <1>5, <2>1 DEF Buffer, TypeOK, BootInv, SaidIsWritten
<1>6. ASSUME NEW call \in NestCalls, NestLogs(call) PROVE RequestLogInv'
  <2>1. Write({call}) /\ process = "serving"
    BY <1>6 DEF NestLogs
  <2>2. log' \subseteq Lines /\ said' \subseteq Calls /\ LogInv'
    BY <1>1, <1>3, <2>1, WritingKeepsTheLog
  <2>3. SaidIsWritten'
    BY <1>1, <1>3, <2>1, WritingWrites
  <2> QED
    BY <1>1, <1>2, <1>6, <2>2, <2>3 DEF NestLogs, TypeOK, BootInv
<1> QED
  BY <1>4, <1>5, <1>6

(* Hooks and handlers.                                                      *)
LEMMA RequestStepInv ==
  ASSUME RequestLogInv, NEW r \in Requests,
         \/ \E question \in Questions : Receive(r, question)
         \/ \E call \in HandlerCalls[r] : HandlerLogs(r, call)
         \/ \E answer \in Answers : Send(r, answer)
         \/ OnResponse(r)
  PROVE  RequestLogInv'
<1> USE DEF RequestLogInv
<1>1. UNCHANGED <<env, process, logger, config, buffer>> /\ Config' = Config
  BY DEF Receive, HandlerLogs, Send, OnResponse, Config
<1>2. req[r] \in Request /\ DOMAIN req = Requests
  BY DEF TypeOK
<1>3. ASSUME UNCHANGED <<said, log>> PROVE LogInv' /\ SaidIsWritten'
  BY <1>1, <1>3 DEF LogInv, SaidIsWritten, OnlyPathlessSecretsLeak, ProductionKeepsPayloadsOut,
                    LinesAreOfOneRequest, Enabled
<1>4. ASSUME NEW question \in Questions, Receive(r, question) PROVE RequestLogInv'
  <2>1. /\ process = "serving" /\ UNCHANGED <<said, log>>
        /\ req' = [req EXCEPT ![r] = [@ EXCEPT !.stage = "received", !.question = question]]
    BY <1>4 DEF Receive
  <2>2. question \in Question
    BY TrafficIsTyped
  <2>3. req' \in [Requests -> Request]
    BY <1>2, <2>1, <2>2 DEF TypeOK, Request
  <2>4. ReceivedInv' /\ SentInv'
    BY <1>1, <1>2, <2>1 DEF ReceivedInv, SentInv, TypeOK, Request, Kept
  <2>5. TypeOK' /\ BootInv'
    BY <1>1, <2>1, <2>3 DEF TypeOK, BootInv
  <2> QED
    BY <1>3, <2>1, <2>4, <2>5
<1>5. ASSUME NEW call \in HandlerCalls[r], HandlerLogs(r, call) PROVE RequestLogInv'
  <2>1. Write({call}) /\ UNCHANGED req /\ process = "serving"
    BY <1>5 DEF HandlerLogs, BootInv
  <2>2. Call(call) /\ \A l \in call.leaves : l.of = call.from /\ l.place = <<>> /\ l.form = "json"
    BY HandlerCallsAreBound DEF Call
  <2>3. <<>> # <<"req", "body">> /\ <<>> # <<"res", "body">>
    OBVIOUS
  <2>4. log' \subseteq Lines /\ said' \subseteq Calls /\ LogInv'
    BY <1>1, <2>1, <2>2, <2>3, WritingKeepsTheLog
  <2>5. SaidIsWritten'
    BY <1>1, <2>1, <2>2, WritingWrites
  <2>6. TypeOK' /\ BootInv'
    BY <1>1, <2>1, <2>4 DEF TypeOK, BootInv
  <2>7. ReceivedInv' /\ SentInv'
    BY <1>1, <2>1 DEF ReceivedInv, SentInv, Kept
  <2> QED
    BY <2>4, <2>5, <2>6, <2>7
<1>6. ASSUME NEW answer \in Answers, Send(r, answer) PROVE RequestLogInv'
  <2> DEFINE stash == IF config.responseBody THEN Kept(r, answer) ELSE req[r].stash
  <2>1. /\ req[r].stage = "received" /\ UNCHANGED <<said, log>>
        /\ req' = [req EXCEPT ![r] = [@ EXCEPT !.stage = "sent", !.answer = answer,
                                              !.stash = stash]]
    BY <1>6 DEF Send
  <2>2. process = "serving"
    BY <2>1 DEF BootInv
  <2>3. answer \in Answer /\ stash \in [of : Requests \cup {"nest"}, payload : Payloads]
    BY <1>2, TrafficIsTyped DEF Kept, Answer, Request
  <2>4. req' \in [Requests -> Request]
    <3> HIDE DEF stash
    <3> QED
      BY <1>2, <2>1, <2>3 DEF TypeOK, Request
  <2>5. ReceivedInv' /\ SentInv'
    <3>1. \A q \in Requests : q # r => req'[q] = req[q]
      BY <1>2, <2>1
    <3>2. /\ req'[r].stage = "sent" /\ req'[r].question = req[r].question
          /\ req'[r].answer = answer /\ req'[r].stash = stash
      BY <1>2, <2>1 DEF Request
    <3> QED
      BY <1>1, <2>1, <3>1, <3>2 DEF ReceivedInv, SentInv, Kept
  <2>6. TypeOK' /\ BootInv'
    BY <1>1, <2>1, <2>2, <2>4 DEF TypeOK, BootInv
  <2> QED
    BY <1>3, <2>1, <2>5, <2>6
<1>7. ASSUME OnResponse(r) PROVE RequestLogInv'
  <2> DEFINE calls == IF req[r].question.noise THEN {} ELSE {Access(r)}
  <2>1. /\ req[r].stage = "sent" /\ req' = [req EXCEPT ![r].stage = "done"] /\ Write(calls)
    BY <1>7 DEF OnResponse
  <2>2. process = "serving"
    BY <2>1 DEF BootInv
  <2>3. /\ AccessLeaves(r) \subseteq Leaves
        /\ \A l \in AccessLeaves(r) :
             /\ l.of = r
             /\ l.form = "text" => Pathless(l) \/ l.field \notin Secrets[l.place]
             /\ l.place = <<"req", "body">> => config.requestBody
             /\ l.place = <<"res", "body">> => config.responseBody
    BY <2>1, <2>2, AccessLeavesAreRight
  <2>4. <<"message">> \in Seq({"message", "stack", "context"})
    OBVIOUS
  <2>5. \A c \in calls : Call(c) /\ c.from = r /\ c.leaves = AccessLeaves(r)
    <3>1. Access(r) \in Calls
      BY <2>3, <2>4 DEF Access, Calls, Levels, Ranks
    <3> QED
      BY <3>1 DEF Call, Access
  <2> HIDE DEF calls
  <2>6. log' \subseteq Lines /\ said' \subseteq Calls /\ LogInv'
    BY <1>1, <2>1, <2>2, <2>3, <2>5, WritingKeepsTheLog
  <2>7. SaidIsWritten'
    BY <1>1, <2>1, <2>2, <2>5, WritingWrites
  <2>8. req' \in [Requests -> Request]
    BY <1>2, <2>1 DEF TypeOK, Request
  <2>9. TypeOK' /\ BootInv'
    BY <1>1, <2>2, <2>6, <2>8 DEF TypeOK, BootInv
  <2>10. ReceivedInv' /\ SentInv'
    <3>1. /\ req'[r].stage = "done" /\ \A q \in Requests : q # r => req'[q] = req[q]
      BY <1>2, <2>1 DEF Request
    <3> QED
      BY <1>1, <3>1 DEF ReceivedInv, SentInv, Kept
  <2> QED
    BY <2>6, <2>7, <2>9, <2>10
<1> QED
  BY <1>4, <1>5, <1>6, <1>7

(* Nothing happens to a log when nothing happens.                           *)
LEMMA StutterInv ==
  ASSUME RequestLogInv, UNCHANGED vars
  PROVE  RequestLogInv'
BY DEF vars, RequestLogInv, TypeOK, BootInv, ReceivedInv, SentInv, LogInv, SaidIsWritten,
       OnlyPathlessSecretsLeak, ProductionKeepsPayloadsOut, LinesAreOfOneRequest, Enabled, Kept, Config

(* The invariant is inductive.                                              *)
THEOREM RequestLogInvariant == Spec => []RequestLogInv
<1>1. RequestLogInv /\ [Next]_vars => RequestLogInv'
  BY BootStepInv, NestStepInv, RequestStepInv, StutterInv DEF Next
<1> QED
  BY <1>1, InitInv, PTL DEF Spec

-----------------------------------------------------------------------------
(* The theorems *)

(* Types are kept.                                                          *)
THEOREM RequestLogTypes == Spec => []TypeOK
BY RequestLogInvariant, PTL DEF RequestLogInv

(* Whatever the traffic, the log level and the switches, a secret is legible *)
(* in a line only in a URL or in a text body, where redaction has no path.   *)
THEOREM LeaksArePathless == Spec => []OnlyPathlessSecretsLeak
BY RequestLogInvariant, PTL DEF RequestLogInv, LogInv

(* In production payloads are logged only if somebody switched them on.     *)
THEOREM PayloadsNeedASwitch == Spec => []ProductionKeepsPayloadsOut
BY RequestLogInvariant, PTL DEF RequestLogInv, LogInv

(* A line holds nothing of another request.                                 *)
THEOREM LinesDoNotMix == Spec => []LinesAreOfOneRequest
BY RequestLogInvariant, PTL DEF RequestLogInv, LogInv

(* Whatever is said, before or after the logger is in use, is written with  *)
(* its message and context if the level lets it.                            *)
THEOREM NothingSaidIsLost == Spec => []SaidIsWritten
BY RequestLogInvariant, PTL DEF RequestLogInv

-----------------------------------------------------------------------------
(* The format of the log *)

(* The logger has the format of the raw variable; what is malformed does not *)
(* get as far as the application.                                            *)
FormatInv ==
  /\ process \in {"validating", "creating", "serving"} => logger.pretty = Pretty(env.json)
  /\ process \in {"creating", "serving"} => env.json # "malformed"

LEMMA FormatStaysFixed == RequestLogInv /\ FormatInv /\ [Next]_vars => FormatInv'
<1> SUFFICES ASSUME RequestLogInv, FormatInv, [Next]_vars PROVE FormatInv'
  OBVIOUS
<1>1. CASE ImportLogger
  BY <1>1 DEF ImportLogger, FormatInv
<1>2. CASE Validate
  BY <1>2 DEF Validate, Malformed, FormatInv
<1>3. ASSUME UNCHANGED <<env, logger>>,
             UNCHANGED process \/ process = "creating"
      PROVE  FormatInv'
  BY <1>3 DEF FormatInv
<1>4. CASE Serve \/ (\E call \in NestCalls : Buffer(call) \/ NestLogs(call)) \/ UNCHANGED vars
  BY <1>3, <1>4 DEF Serve, Buffer, NestLogs, vars
<1>5. ASSUME NEW r \in Requests,
             \/ \E question \in Questions : Receive(r, question)
             \/ \E call \in HandlerCalls[r] : HandlerLogs(r, call)
             \/ \E answer \in Answers : Send(r, answer)
             \/ OnResponse(r)
      PROVE  FormatInv'
  BY <1>3, <1>5 DEF Receive, HandlerLogs, Send, OnResponse
<1> QED
  BY <1>1, <1>2, <1>4, <1>5 DEF Next

(* The log has the format that the validated configuration asks for exactly *)
(* if LOG_JSON is 'true' or false: not where it is unset, and its default   *)
(* decides, and not for any other true value (config/logger.ts:29).         *)
THEOREM FormatDiverges ==
  Spec => [](process = "serving" =>
               (logger.pretty = ~config.json <=> env.json \in {"true", "false"}))
<1>1. Init => FormatInv
  BY DEF Init, FormatInv
<1>2. RequestLogInv /\ FormatInv /\ process = "serving" =>
        (logger.pretty = ~config.json <=> env.json \in {"true", "false"})
  <2> SUFFICES ASSUME RequestLogInv, FormatInv, process = "serving"
               PROVE  logger.pretty = ~config.json <=> env.json \in {"true", "false"}
    OBVIOUS
  <2>0. config = Config /\ logger.pretty = Pretty(env.json)
    BY DEF RequestLogInv, BootInv, FormatInv
  <2>1. config.json = Switched(env.json, TRUE) /\ logger.pretty = (env.json # "true")
    BY <2>0, Zenon DEF Config, Pretty
  <2>2. env.json \in {"unset", "true", "yes", "false"}
    BY EnvironmentsAreEnvironments
       DEF RequestLogInv, TypeOK, FormatInv, Environment, Switches
  <2>3. CASE env.json = "unset"
    BY <2>1, <2>3 DEF Switched
  <2>4. CASE env.json # "unset"
    BY <2>1, <2>2, <2>4 DEF Switched
  <2> QED
    BY <2>3, <2>4
<1> QED
  BY <1>1, <1>2, FormatStaysFixed, RequestLogInvariant, PTL DEF Spec
=============================================================================
