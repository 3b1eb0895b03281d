----------------------------- MODULE RequestLog -----------------------------
(***************************************************************************)
(* The log of one process, from its boot to its access lines.  The logger  *)
(* is built from the environment as it is, while app.module.ts is still    *)
(* being imported; the environment is validated after that; and main.ts    *)
(* configures the request log by what was validated.  What Nest says       *)
(* before the logger is in use waits in a buffer.                          *)
(*                                                                         *)
(* A payload is the set of paths at which it has a value; a line is what   *)
(* it says and the leaves of the object it was given which redaction, which *)
(* matches paths, left legible.                                            *)
(***************************************************************************)
EXTENDS Integers, Sequences

CONSTANTS
  Requests,
  Environments,  \* those the process may be started in
  Fields,        \* paths within a payload
  Redact,        \* DEFAULT_REDACT: paths in a line, "*" for any one key
  Secrets,       \* what no line may show, by the place it is logged at
  NestCalls, HandlerCalls,  \* log calls of the framework and of handlers
  Questions, Answers,       \* what requests bring and how they are replied to
  Allowlist,     \* HEADER_ALLOWLIST and the names of the context's carriers
  None

(* Of LOG_JSON and the switches "yes" is any true value but 'true'. *)
Switches == {"unset", "true", "yes", "false", "malformed"}

Ranks == [trace |-> 10, debug |-> 20, info |-> 30, warn |-> 40, error |-> 50, fatal |-> 60]

Levels == DOMAIN Ranks

(* tooling: devDependencies, and pino-pretty with them, are installed. *)
Environment ==
  [production : BOOLEAN, tooling : BOOLEAN, databaseUrl : BOOLEAN,
   json : Switches, level : Levels \cup {"unset", "malformed"},
   requestBody : Switches, responseBody : Switches]

(* Where a line has the URL: as it came, parsed, and in the message. *)
UrlPlaces == {<<"req", "url">>, <<"req", "query">>, <<"req", "params">>, <<"msg">>}

(* Where in a line a value goes; what a handler logs is merged at the top. *)
Places ==
  UrlPlaces \cup
  {<<"req", "headers">>, <<"req", "body">>, <<"res", "headers">>, <<"res", "body">>, <<>>}

(* A text is a string that is not JSON, a stream a reply that is no string. *)
Forms == {"none", "json", "text", "stream"}

Payloads == [form : Forms, big : BOOLEAN, fields : SUBSET Fields]

(* A text is one string for the redaction, whatever it has in it. *)
Leaves == [place : Places, field : Fields, form : Forms, of : Requests \cup {"nest"}]

(* As made: params is what follows the message, and is all strings. *)
Calls ==
  [from : Requests \cup {"nest"}, via : {"bound", "nest"}, level : Levels,
   message : {"text", "error", "fields"}, params : Seq({"message", "stack", "context"}),
   leaves : SUBSET Leaves]

Lines ==
  [from : Requests \cup {"nest"}, level : Levels,
   message : {"text", "error", "message", "stack", "context", "none"},
   context : {"bound", "message", "stack", "context", "none"}, leaves : SUBSET Leaves]

(* noise: the URL has /health or /docs in it. *)
Question ==
  [noise : BOOLEAN, query : SUBSET Fields, params : SUBSET Fields, headers : SUBSET Fields,
   body : Payloads]
Answer == [status : {200, 400, 500}, headers : SUBSET Fields, payload : Payloads]

Covers(pattern, path) ==
  /\ Len(pattern) <= Len(path)
  /\ \A i \in DOMAIN pattern : pattern[i] \in {path[i], "*"}

At(leaf) == IF leaf.form = "text" THEN leaf.place ELSE leaf.place \o leaf.field

Redacted(leaf) == \E pattern \in Redact : Covers(pattern, At(leaf))

ASSUME EnvironmentsAreEnvironments == Environments \subseteq Environment
ASSUME NestIsNoRequest == "nest" \notin Requests
ASSUME TrafficIsTyped == Questions \subseteq Question /\ Answers \subseteq Answer

(* Nest says a message, for an error its stack, and the context; fields may   *)
(* be given with a message or without.                                        *)
ASSUME NestCallsAreNests ==
  /\ NestCalls \subseteq Calls
  /\ \A c \in NestCalls :
       /\ c.from = "nest" /\ c.via = "nest" /\ c.leaves = {}
       /\ c.params \in {<<"context">>, <<"stack", "context">>, <<"message", "context">>}
       /\ c.message = "fields" <=> c.params = <<"message", "context">>

(* A class logs through the Logger that @InjectLogger() gives it.             *)
ASSUME HandlerCallsAreBound ==
  /\ HandlerCalls \in [Requests -> SUBSET Calls]
  /\ \A r \in Requests : \A c \in HandlerCalls[r] :
       /\ c.from = r /\ c.via = "bound"
       /\ c.params = IF c.message = "fields" THEN <<"message">> ELSE <<>>
       /\ \A l \in c.leaves : l.of = r /\ l.place = <<>> /\ l.form = "json"

(* "Adding a secret-bearing field to a contract means adding it here."        *)
(* (logger.constants.ts:12) No path is of a URL.  A reply that is no JSON is  *)
(* not of a contract.                                                        *)
ASSUME SecretsAreListed ==
  /\ \A place \in Places \ UrlPlaces : \A field \in Secrets[place] :
       \E pattern \in Redact : Covers(pattern, place \o field)
  /\ \A a \in Answers :
       a.payload.form = "text" => a.payload.fields \cap Secrets[<<"res", "body">>] = {}

VARIABLES
  env,
  process,   \* importing, validating, creating, serving; or dead
  logger,    \* the pino instance of config/logger.ts
  config,    \* the part of ConfigService.logging that is used
  buffer,    \* what Nest said before app.useLogger
  said,      \* history: every log call that was made
  log,       \* the lines written
  req        \* requests, and what hooks keep on them

vars == <<env, process, logger, config, buffer, said, log, req>>

NoPayload == [form |-> "none", big |-> FALSE, fields |-> {}]

New == [stage |-> "new", question |-> None, answer |-> None,
        stash |-> [of |-> "nest", payload |-> NoPayload]]

Init ==
  /\ env \in Environments
  /\ process = "importing"
  /\ logger = None
  /\ config = None
  /\ buffer = {} /\ said = {} /\ log = {}
  /\ req = [r \in Requests |-> New]

-----------------------------------------------------------------------------
(* logger.service.ts and logger.writer.ts *)

(* Bug: the heuristic for Nest applied to every call. *)
PromotesAlways(call) == call.params # <<>>

(* writeFromNest: a trailing string is the context. *)
Promotes(call) == call.via = "nest" /\ call.params # <<>>

Context(call) ==
  IF Promotes(call) THEN call.params[Len(call.params)]
  ELSE IF call.via = "bound" THEN "bound" ELSE "none"

Remaining(call) == Len(call.params) - (IF Promotes(call) THEN 1 ELSE 0)

(* Strings and errors are their message; fields may come with one. *)
Message(call) ==
  IF call.message # "fields" THEN call.message
  ELSE IF Remaining(call) > 0 THEN call.params[1] ELSE "none"

Line(call) ==
  [from |-> call.from, level |-> call.level, context |-> Context(call),
   message |-> Message(call), leaves |-> {l \in call.leaves : ~Redacted(l)}]

Enabled(level) == Ranks[level] >= Ranks[logger.level]

Write(calls) ==
  /\ log' = log \cup {Line(c) : c \in {d \in calls : Enabled(d.level)}}
  /\ said' = said \cup calls

-----------------------------------------------------------------------------
(* Boot: main.ts and what it imports *)

Pretty(json) == json # "true"

Start(level) == IF level = "unset" THEN "info" ELSE level

(* config/logger.ts, which app.module.ts imports; pino refuses a level it     *)
(* does not know and a transport it cannot find.                              *)
ImportLogger ==
  /\ process = "importing"
  /\ IF env.level = "malformed" \/ (Pretty(env.json) /\ ~env.tooling)
     THEN process' = "dead" /\ UNCHANGED logger
     ELSE /\ process' = "validating"
          /\ logger' = [pretty |-> Pretty(env.json), level |-> Start(env.level)]
  /\ UNCHANGED <<env, config, buffer, said, log, req>>

Malformed ==
  \/ ~env.databaseUrl
  \/ env.level = "malformed"
  \/ "malformed" \in {env.json, env.requestBody, env.responseBody}

(* z.stringbool().default(...) *)
Switched(switch, default) == IF switch = "unset" THEN default ELSE switch \in {"true", "yes"}

(* Bug: main.ts leaves the bodies to the DEFAULTS of the request log. *)
ConfigFromDefaults ==
  [json |-> Switched(env.json, TRUE), requestBody |-> TRUE, responseBody |-> FALSE]

Config ==
  [json         |-> Switched(env.json, TRUE),
   requestBody  |-> Switched(env.requestBody, ~env.production),
   responseBody |-> Switched(env.responseBody, ~env.production)]

(* ConfigModule.forRoot, once the imports of app.module.ts are done *)
Validate ==
  /\ process = "validating"
  /\ IF Malformed THEN process' = "dead" /\ UNCHANGED config
                  ELSE process' = "creating" /\ config' = Config
  /\ UNCHANGED <<env, logger, buffer, said, log, req>>

(* Nest speaks: while it creates the application, under bufferLogs, ... *)
Buffer(call) ==
  /\ process = "creating" /\ call \notin said
  /\ buffer' = buffer \cup {call}
  /\ said' = said \cup {call}
  /\ UNCHANGED <<env, process, logger, config, log, req>>

(* ... useLogger flushes it, the request log is registered, the server listens. *)
Serve ==
  /\ process = "creating"
  /\ process' = "serving" /\ buffer' = {}
  /\ Write(buffer)
  /\ UNCHANGED <<env, logger, config, req>>

(* ... and afterwards straight into the log. *)
NestLogs(call) ==
  /\ process = "serving" /\ call \notin said
  /\ Write({call})
  /\ UNCHANGED <<env, process, logger, config, buffer, req>>

-----------------------------------------------------------------------------
(* Requests *)

Receive(r, question) ==
  /\ process = "serving" /\ req[r].stage = "new"
  /\ req' = [req EXCEPT ![r] = [@ EXCEPT !.stage = "received", !.question = question]]
  /\ UNCHANGED <<env, process, logger, config, buffer, said, log>>

HandlerLogs(r, call) ==
  /\ req[r].stage = "received" /\ call \notin said
  /\ Write({call})
  /\ UNCHANGED <<env, process, logger, config, buffer, req>>

Kept(r, answer) == [of |-> r, payload |-> answer.payload]

(* Bug: the payload in one variable of the hooks' closure. *)
SendShared(r, answer) ==
  /\ req[r].stage = "received"
  /\ req' = [q \in Requests |->
       [req[q] EXCEPT !.stash = IF config.responseBody THEN Kept(r, answer) ELSE @,
                      !.stage = IF q = r THEN "sent" ELSE @,
                      !.answer = IF q = r THEN answer ELSE @]]
  /\ UNCHANGED <<env, process, logger, config, buffer, said, log>>

(* onSend keeps the payload on the request, if it is going to be logged. *)
Send(r, answer) ==
  /\ req[r].stage = "received"
  /\ req' = [req EXCEPT ![r] =
       [@ EXCEPT !.stage = "sent", !.answer = answer,
                 !.stash = IF config.responseBody THEN Kept(r, answer) ELSE req[r].stash]]
  /\ UNCHANGED <<env, process, logger, config, buffer, said, log>>

LeavesOf(place, form, fields, r) ==
  {[place |-> place, field |-> f, form |-> form, of |-> r] : f \in fields}

(* cap: what is too large is a marker, which shows nothing. *)
Capped(payload) == IF payload.big THEN {} ELSE payload.fields

(* Bug: the payload is logged as the string it is. *)
ReplyUnparsed(kept) ==
  LeavesOf(<<"res", "body">>, "text",
           IF kept.payload.form = "stream" THEN {} ELSE Capped(kept.payload), kept.of)

(* parsePayload: a stream is a marker, and what is no JSON stays a string. *)
Reply(kept) ==
  LeavesOf(<<"res", "body">>, kept.payload.form,
           IF kept.payload.form = "stream" THEN {} ELSE Capped(kept.payload), kept.of)

(* The URL is logged whole, twice, and what was parsed out of it. *)
UrlLeaves(question, r) ==
  LET whole == question.query \cup question.params IN
  LeavesOf(<<"req", "url">>, "text", whole, r) \cup LeavesOf(<<"msg">>, "text", whole, r)
    \cup LeavesOf(<<"req", "query">>, "json", question.query, r)
    \cup LeavesOf(<<"req", "params">>, "json", question.params, r)

(* Fastify makes of a text/plain body one string. *)
AccessLeaves(r) ==
  LET question == req[r].question IN
  UrlLeaves(question, r)
    \cup LeavesOf(<<"req", "headers">>, "json", question.headers, r)
    \cup (IF config.requestBody
          THEN LeavesOf(<<"req", "body">>, question.body.form, Capped(question.body), r) ELSE {})
    \cup LeavesOf(<<"res", "headers">>, "json", req[r].answer.headers \cap Allowlist, r)
    \cup (IF config.responseBody THEN Reply(req[r].stash) ELSE {})

Access(r) ==
  [from |-> r, via |-> "bound", level |-> IF req[r].answer.status >= 500 THEN "error" ELSE "info",
   message |-> "fields", params |-> <<"message">>, leaves |-> AccessLeaves(r)]

(* One line, of a URL worth one. *)
OnResponse(r) ==
  /\ req[r].stage = "sent"
  /\ req' = [req EXCEPT ![r].stage = "done"]
  /\ Write(IF req[r].question.noise THEN {} ELSE {Access(r)})
  /\ UNCHANGED <<env, process, logger, config, buffer>>

Next ==
  \/ ImportLogger
  \/ Validate
  \/ Serve
  \/ \E call \in NestCalls : Buffer(call) \/ NestLogs(call)
  \/ \E r \in Requests :
       \/ \E question \in Questions : Receive(r, question)
       \/ \E call \in HandlerCalls[r] : HandlerLogs(r, call)
       \/ \E answer \in Answers : Send(r, answer)
       \/ OnResponse(r)

Spec == Init /\ [][Next]_vars

-----------------------------------------------------------------------------
(* What the log promises *)

Request ==
  [stage : {"new", "received", "sent", "done"}, question : Question \cup {None},
   answer : Answer \cup {None}, stash : [of : Requests \cup {"nest"}, payload : Payloads]]

(* Everything is of its type; only a validated configuration serves. *)
TypeOK ==
  /\ env \in Environments
  /\ process \in {"importing", "validating", "creating", "serving", "dead"}
  /\ logger \in [pretty : BOOLEAN, level : Levels] \cup {None}
  /\ config \in [json : BOOLEAN, requestBody : BOOLEAN, responseBody : BOOLEAN] \cup {None}
  /\ buffer \subseteq NestCalls
  /\ said \subseteq Calls
  /\ log \subseteq Lines
  /\ req \in [Requests -> Request]

(* Redaction matches paths, and there are two kinds of leaves that it has no *)
(* path for: what is in a URL, parsed or not, and a request body that is one *)
(* string (request-logging.ts:197-202, 212).                                 *)
Pathless(l) == l.place \in UrlPlaces \/ (l.place = <<"req", "body">> /\ l.form = "text")

(* "There is no way to un-log a value once it is written"                    *)
(* (logger.constants.ts:12): what is secret of a header, a JSON request or a *)
(* reply, parsed or not, gets into no line.  A secret in a URL or in a text  *)
(* body does, and that is all that does.                                     *)
OnlyPathlessSecretsLeak ==
  \A line \in log : \A l \in line.leaves : l.field \in Secrets[l.place] => Pathless(l)

(* "Off in production, where they are redacted but still carry personal data *)
(* into log storage" (env.schema.ts:16): unless they are switched on.        *)
ProductionKeepsPayloadsOut ==
  env.production => \A line \in log : \A l \in line.leaves :
    /\ l.place = <<"req", "body">> => env.requestBody \in {"true", "yes"}
    /\ l.place = <<"res", "body">> => env.responseBody \in {"true", "yes"}

(* A line is of one request, whichever others are between their hooks        *)
(* (request-logging.ts:174-180).                                             *)
LinesAreOfOneRequest ==
  \A line \in log : \A l \in line.leaves : l.of = line.from

(* The message that a caller means, and the context, by the convention of    *)
(* the interface it calls.                                                   *)
Meant(call) ==
  [message |-> IF call.message = "fields" THEN "message" ELSE call.message,
   context |-> IF call.via = "bound" THEN "bound" ELSE "context"]

(* What was said is in the log with its message and its context once the     *)
(* service serves, be it said before the logger was in use, and whichever    *)
(* interface it was said through (logger.writer.ts:9-10).                    *)
SaidIsWritten ==
  process = "serving" => \A call \in said : Enabled(call.level) =>
    \E line \in log :
      /\ line.from = call.from /\ line.level = call.level
      /\ line.context = Meant(call).context
      /\ line.message = Meant(call).message
=============================================================================
