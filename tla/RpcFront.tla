------------------------------- MODULE RpcFront -------------------------------
(* The layers around every JSON-RPC method: authorization, the translation   *)
(* of old dialects of JSON-RPC into 2.0 and of the answer back, and the      *)
(* replacement of the framework's error codes.  The framework (jsonrpsee)    *)
(* between them is external: it takes well-formed 2.0 requests.              *)
EXTENDS Naturals, FiniteSets

CONSTANTS Entries,   \* configured users: [user, password, pwhash]
          MaxUsers   \* how many are configured

\* Credentials are users with passwords; "" is the empty password and CookieUser the reserved name.
CookieUser == "__cookie__"
Passwords == {"", "right", "wrong"}

\* JSON-RPC requests as sent: the version tag, and whether params and an id are given.
Nothing == "absent"
Body(kind) == [kind |-> kind, jsonrpc |-> Nothing, params |-> Nothing, id |-> Nothing, method |-> "known"]
Bodies == [kind : {"object"}, jsonrpc : {Nothing, "1.0", "2.0", "3.0"}, method : {"known", "unknown"},
           params : {Nothing, "null", "list"}, id : {Nothing, "null", "scalar", "list"}]
          \cup {Body(k) : k \in {"oversized", "unreadable", "batch", "garbage"}}

ContentTypes == {Nothing, "text/plain", "application/json", "form"}

\* What a method may answer: a value, null, or an error by code and data.
Outcomes == {"value", "null", "params:missing", "params:bad", "legacy", "internal"}

VARIABLES users,     \* the users the server accepts: name -> password, or {} if it did not start
          request,   \* the request: credentials, content type, body
          at,        \* how far it is
          dialect,   \* the dialect request_to_json_rpc_2 saw
          reached,   \* whether the framework was reached
          answer     \* the HTTP answer

frontVars == <<users, request, at, dialect, reached, answer>>

Headers == [user : {e.user : e \in Entries} \cup {CookieUser}, password : Passwords]
           \cup {[user |-> Nothing, password |-> Nothing]}   \* no header, or one that does not parse

\* An answer: its kind is "object", or what it is instead.
AnswerWith(kind) == [kind |-> kind, jsonrpc |-> "2.0", result |-> Nothing, error |-> Nothing]
NoAnswer == [status |-> 0, body |-> AnswerWith("none")]

-----------------------------------------------------------------------------

EntryHashUnchecked(e) ==
  e.user # CookieUser /\ (\/ e.password \notin {Nothing, ""} /\ e.pwhash = Nothing
                          \/ e.password = Nothing /\ e.pwhash \notin {Nothing, "undecodable"})

\* AuthorizationLayer::new on one entry: not the reserved user, a password or a hash and not both,
\* and neither of the empty password.
EntryValid(e) ==
  e.user # CookieUser /\ (\/ e.password \notin {Nothing, ""} /\ e.pwhash = Nothing
                          \/ e.password = Nothing /\ e.pwhash \notin {Nothing, "undecodable", ""})

Secret(e) == IF e.password = Nothing THEN e.pwhash ELSE e.password

\* The last entry of a name counts, and the cookie is added after all of them.  One invalid entry
\* refuses the whole configuration.
Accepted(entries) ==
  LET names == {entries[i].user : i \in DOMAIN entries}
      last(n) == CHOOSE i \in DOMAIN entries : /\ entries[i].user = n
                                              /\ \A j \in DOMAIN entries : entries[j].user = n => j <= i
  IN IF \E i \in DOMAIN entries : ~EntryValid(entries[i]) THEN {}
     ELSE {[user |-> n, password |-> Secret(entries[last(n)])] : n \in names}
          \cup {[user |-> CookieUser, password |-> "right"]}

FrontInit ==
  /\ users \in {Accepted(entries) : entries \in UNION {[1..n -> Entries] : n \in 0..MaxUsers}}
  /\ request \in [header : Headers, type : ContentTypes, body : Bodies]
  /\ at = (IF users = {} THEN "refused" ELSE "received")
  /\ dialect = "Unknown" /\ reached = FALSE /\ answer = NoAnswer

Respond(status, body) == at' = "answered" /\ answer' = [status |-> status, body |-> body]
Plain(status) == Respond(status, AnswerWith("empty"))

\* Authorization::call: no header is answered at once, a wrong one after a delay.
Authorize ==
  /\ at = "received"
  /\ IF request.header \in users
     THEN at' = "authorized" /\ UNCHANGED answer
     ELSE Plain(401)
  /\ UNCHANGED <<users, request, dialect, reached>>

\* JsonRpcRequest::version.  A null id or null params parse as absent.
Given(x) == x \notin {Nothing, "null"}
Version(b) ==
  IF b.jsonrpc = "2.0" /\ b.id # "list" THEN "TwoPointZero"
  ELSE IF Given(b.params) /\ Given(b.id) /\ b.jsonrpc = "1.0" THEN "Lightwalletd"
  ELSE IF Given(b.params) /\ Given(b.id) /\ b.jsonrpc = Nothing THEN "Bitcoind"
  ELSE "Unknown"

\* A missing content type, and plain text, become JSON; the body is buffered up to a limit; a known
\* dialect is rewritten as 2.0, where what parsed as absent is left out.
Translate ==
  /\ at = "authorized"
  /\ LET b == request.body
     IN IF b.kind = "oversized" THEN Plain(413) /\ UNCHANGED <<request, dialect>>
        ELSE IF b.kind = "unreadable" THEN Plain(400) /\ UNCHANGED <<request, dialect>>
        ELSE /\ dialect' = IF b.kind \in {"batch", "garbage"} THEN "Unknown" ELSE Version(b)
             /\ request' = [request EXCEPT
                  !.type = IF @ \in {Nothing, "text/plain"} THEN "application/json" ELSE @,
                  !.body = IF dialect' = "Unknown" THEN @
                           ELSE [@ EXCEPT !.jsonrpc = "2.0",
                                          !.params = IF Given(@) THEN @ ELSE Nothing,
                                          !.id = IF Given(@) THEN @ ELSE Nothing]]
             /\ at' = "translated" /\ UNCHANGED answer
  /\ UNCHANGED <<users, reached>>

\* FixRpcResponseMiddleware: invalid parameters are given zcashd's code, save for a missing one.
FixedCode(outcome) == IF outcome = "params:bad" THEN "legacy" ELSE outcome

\* The framework's answer to the translated request: version tag, and result and error, where a
\* result of null parses as absent.  It takes well-formed 2.0, and answers no notification.
Framework(outcome) ==
  LET b == request.body
      failed(code) == [AnswerWith("object") EXCEPT !.error = code]
  IN IF request.type # "application/json" THEN AnswerWith("unsupported")
     ELSE IF b.kind = "batch" THEN AnswerWith("batch")
     ELSE IF b.kind = "garbage" THEN failed("parse")
     ELSE IF b.jsonrpc # "2.0" \/ b.id = "list" THEN failed("request")
     ELSE IF b.id = Nothing THEN AnswerWith("empty")
     ELSE IF b.method = "unknown" THEN failed("method")
     ELSE IF outcome = "value" THEN [AnswerWith("object") EXCEPT !.result = "value"]
     ELSE IF outcome = "null" THEN AnswerWith("object")
     ELSE failed(FixedCode(outcome))

Filled(x) == IF x = Nothing THEN "null" ELSE x

IntoVersionUnfilled(r) ==
  CASE dialect = "Bitcoind" -> [r EXCEPT !.jsonrpc = Nothing, !.error = Filled(@)]
    [] dialect = "Lightwalletd" -> [r EXCEPT !.jsonrpc = "1.0", !.error = Filled(@)]
    [] OTHER -> r

\* JsonRpcResponse::into_version.
IntoVersion(r) ==
  CASE dialect = "Bitcoind" -> [r EXCEPT !.jsonrpc = Nothing, !.result = Filled(@), !.error = Filled(@)]
    [] dialect = "Lightwalletd" -> [r EXCEPT !.jsonrpc = "1.0", !.result = Filled(@), !.error = Filled(@)]
    [] dialect = "TwoPointZero" /\ r.error = Nothing -> [r EXCEPT !.result = Filled(@)]
    [] OTHER -> r

\* response_from_json_rpc_2: the old dialects expect HTTP codes for errors.
StatusOf(r) ==
  CASE dialect \notin {"Bitcoind", "Lightwalletd"} \/ r.error = Nothing -> 200
    [] r.error = "request" -> 400
    [] r.error = "method" -> 404
    [] OTHER -> 500

CallAndAnswer ==
  /\ at = "translated"
  /\ reached' = TRUE
  /\ \E outcome \in Outcomes :
       LET r == Framework(outcome)
       IN IF r.kind = "object" THEN Respond(StatusOf(r), IntoVersion(r))
          ELSE Respond(IF r.kind = "unsupported" THEN 415 ELSE 200, r)
  /\ UNCHANGED <<users, request, dialect>>

\* The timeout is the innermost layer: only the framework's part is under it.
Expire ==
  /\ at = "translated"
  /\ at' = "expired"
  /\ UNCHANGED <<users, request, dialect, reached, answer>>

FrontNext == Authorize \/ Translate \/ CallAndAnswer \/ Expire

FrontSpec == FrontInit /\ [][FrontNext]_frontVars

-----------------------------------------------------------------------------

\* The framework is reached only with a configured user's password or this server's cookie, and
\* never with an empty password, whatever the configuration says (AuthorizationLayer::new checks a
\* hash by hashing the empty password).
EmptyNeverAuthorized ==
  reached => request.header \in users /\ request.header.password # ""

\* A client is answered in its own dialect: an old one has both result and error, one of them null,
\* a 2.0 one exactly one of the two; and no answer loses its outcome, a null result included.
AnsweredInDialect ==
  (at = "answered" /\ answer.body.kind = "object") =>
    LET r == answer.body
    IN CASE dialect \in {"Bitcoind", "Lightwalletd"} ->
              /\ r.jsonrpc = (IF dialect = "Bitcoind" THEN Nothing ELSE "1.0")
              /\ Nothing \notin {r.result, r.error} /\ "null" \in {r.result, r.error}
              /\ (r.error = "null") <=> (answer.status = 200)
         [] OTHER ->
              r.jsonrpc = "2.0" /\ ((r.result = Nothing) # (r.error = Nothing))

\* Every layer holds: no one gets in without a password, no answer is garbled on the way out.
FrontHolds == EmptyNeverAuthorized /\ AnsweredInDialect
=============================================================================
