---------------------------- MODULE MCRequestLog ----------------------------
(* RequestLog with the redaction list of this repository, the payloads of    *)
(* POST /users and others, and environments from a laptop to the image.      *)
EXTENDS RequestLog

CONSTANTS r1, r2

Email == <<"email">>
Password == <<"password">>
Token == <<"token">>
ItemToken == <<"items", "token">>
Authorization == <<"authorization">>
SetCookie == <<"set-cookie">>
Correlation == <<"x-correlation-id">>
Csp == <<"content-security-policy">>
UserId == <<"userId">>
Text == <<"text">>

MCFields ==
  {Email, Password, Token, ItemToken, Authorization, SetCookie, Correlation, Csp, UserId, Text}

(* logger.constants.ts *)
Inbound == {<<"req", "body">> \o p : p \in
  {<<"password">>, <<"passwordHash">>, <<"token">>, <<"secret">>, <<"accessToken">>,
   <<"refreshToken">>, <<"*", "password">>, <<"*", "token">>}}

Outbound == {<<"res", "body">> \o p : p \in
  {<<"password">>, <<"passwordHash">>, <<"token">>, <<"secret">>, <<"accessToken">>,
   <<"refreshToken">>, <<"*", "password">>, <<"*", "token">>}}

Anywhere == {<<"password">>, <<"*", "password">>, <<"passwordHash">>, <<"*", "passwordHash">>,
             <<"token">>, <<"*", "token">>, <<"secret">>, <<"*", "secret">>}

Headers == {<<"req", "headers">> \o h : h \in
  {<<"authorization">>, <<"cookie">>, <<"set-cookie">>, <<"x-api-key">>,
   <<"proxy-authorization">>}} \cup {<<"res", "headers", "set-cookie">>}

MCRedact == Inbound \cup Outbound \cup Anywhere \cup Headers

(* A token is in the link that verifies an address, say. *)
MCSecrets ==
  [place \in Places |->
     CASE place \in UrlPlaces -> {Token}
       [] place = <<"req", "headers">> -> {Authorization}
       [] place = <<"res", "headers">> -> {SetCookie}
       [] place = <<>> -> {Password}
       [] OTHER -> {Password, ItemToken}]

MCAllowlist == {SetCookie, Correlation}

(* src/config/logger.ts and env.schema.ts *)
Laptop == [production |-> FALSE, tooling |-> TRUE, databaseUrl |-> TRUE, json |-> "false",
           level |-> "debug", requestBody |-> "unset", responseBody |-> "unset"]
Image == [Laptop EXCEPT !.production = TRUE, !.tooling = FALSE, !.json = "true",
                        !.level = "unset"]

MCEnvironments ==
  {Laptop, Image, [Laptop EXCEPT !.json = "yes", !.level = "warn"],
   [Image EXCEPT !.requestBody = "yes"], [Image EXCEPT !.responseBody = "true"],
   [Image EXCEPT !.json = "unset"], [Image EXCEPT !.level = "malformed"],
   [Image EXCEPT !.requestBody = "malformed"], [Image EXCEPT !.databaseUrl = FALSE]}

Json(fields) == [form |-> "json", big |-> FALSE, fields |-> fields]
Nothing == [form |-> "none", big |-> FALSE, fields |-> {}]

Posted(headers, body) ==
  [noise |-> FALSE, query |-> {}, params |-> {}, headers |-> headers, body |-> body]

MCQuestions ==
  {Posted({Authorization}, Json({Email, Password, ItemToken})),
   Posted({}, [Json({Email, Password}) EXCEPT !.big = TRUE]),
   Posted({}, [Json({Email, Password}) EXCEPT !.form = "text"]),
   [Posted({}, Nothing) EXCEPT !.query = {Token}, !.params = {UserId}],
   [Posted({Authorization}, Nothing) EXCEPT !.noise = TRUE]}

MCAnswers ==
  {[status |-> 200, headers |-> {SetCookie, Correlation, Csp}, payload |-> Json({Email, Password})],
   [status |-> 400, headers |-> {}, payload |-> [Nothing EXCEPT !.form = "text", !.fields = {Text}]],
   [status |-> 500, headers |-> {}, payload |-> [Json({Email}) EXCEPT !.big = TRUE]],
   [status |-> 200, headers |-> {}, payload |-> [Nothing EXCEPT !.form = "stream"]]}

NestCall(level, message, params) ==
  [from |-> "nest", via |-> "nest", level |-> level, message |-> message, params |-> params,
   leaves |-> {}]

MCNestCalls ==
  {NestCall("info", "text", <<"context">>), NestCall("error", "text", <<"stack", "context">>),
   NestCall("warn", "fields", <<"message", "context">>)}

(* "Registered user" (register-user.handler.ts:62), a query, an exception. *)
HandlerCall(r, level, message, leaves) ==
  [from |-> r, via |-> "bound", level |-> level, message |-> message,
   params |-> IF message = "fields" THEN <<"message">> ELSE <<>>,
   leaves |-> {[place |-> <<>>, field |-> f, form |-> "json", of |-> r] : f \in leaves}]

MCHandlerCalls ==
  [r \in {r1, r2} |->
     IF r = r1 THEN {HandlerCall(r, "info", "fields", {UserId, Password})}
               ELSE {HandlerCall(r, "error", "error", {})}]
=============================================================================
