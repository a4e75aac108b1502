------------------------------ MODULE Exchange ------------------------------
(***************************************************************************)
(* What the bytes of a connection become: the callbacks that connection's  *)
(* constructor gives to llhttp, fed with reads of any size; the request    *)
(* they build; the session cookie that the handlers of api/auth.hpp look   *)
(* for; the status and the session cookie of the response.  One client     *)
(* uses one connection after the other and keeps the cookie it was given.  *)
(*                                                                         *)
(* A string is a sequence of bytes; the words of the protocol and of the   *)
(* service are cut short ("rp=" for "rp-session=", IdSize for 36).  The    *)
(* content of a response and the headers that describe it are left out.  A *)
(* client sends one message to a connection and waits for its response.    *)
(* llhttp, the service behind the handlers and the client are external.    *)
(***************************************************************************)
EXTENDS Integers, Sequences, SequencesExt

CONSTANTS
  Byte,                 \* the bytes that strings are made of
  Ids,                  \* the session ids the service may issue
  IdSize,               \* uuid::SIZE
  Lower(_),             \* std::tolower on the bytes of header names
  Bodies,               \* what logins send
  Others,               \* lists of cookies that are not the session's
  OutOfMemory           \* may an allocation fail?

SEMICOLON == "semicolon"      \* ";"
SESSION_COOKIE_NAME == <<"r", "p", "=">>
LOGIN == <<"/", "login">>
LOGOUT == <<"/", "logout">>
USER == <<"/", "user">>
LOST == <<"/", "lost">>       \* no route leads there

\* The bytes that this module spells out.
Spelt == {"r", "p", "=", SEMICOLON, " ", "/", "login", "logout", "user", "lost",
          "C", "type", "ookie", "json", "none"}

ASSUME ByteAssumption == Spelt \subseteq Byte

\* The bytes of a uuid are hex digits and dashes.
ASSUME IdAssumption ==
  /\ IdSize \in Nat \ {0}
  /\ \A id \in Ids : /\ id \in Seq(Byte) /\ Len(id) = IdSize
                     /\ Range(id) \cap {"r", SEMICOLON} = {}

\* What tolower does to the two names of headers that the code looks for.
ASSUME LowerAssumption ==
  Lower("C") = "c" /\ Lower("type") = "type" /\ Lower("ookie") = "ookie"

ASSUME BodiesAssumption == Bodies \subseteq Seq(Byte)

VARIABLES
  jar,                  \* the session id that the client holds, or <<>>
  message,              \* what it sends: [blank, uri, cookies, headers, body]
  pos,                  \* how much of it was read
  stage,                \* "none" (no connection), "reading", "writing", "dead"
  req,                  \* connection::req and data.tmp
  asked,                \* the session id that the handler read, or <<>>
  res,                  \* connection::res
  handled               \* history: the request given to handle_request, as a singleton

vars == <<jar, message, pos, stage, req, asked, res, handled>>

\* A message of the client, struct header and struct response.
Message(blank, uri, cookies, headers, body) ==
  [blank |-> blank, uri |-> uri, cookies |-> cookies, headers |-> headers, body |-> body]
Header(name, value) == [name |-> name, value |-> value]
Response(status, headers) == [status |-> status, headers |-> headers]

NewRequest == [tmp |-> <<>>, uri |-> <<>>, headers |-> <<>>, body |-> <<>>]
NewResponse == Response("ok", <<>>)
NoMessage == Message(FALSE, <<>>, <<>>, <<>>, <<>>)

Init ==
  /\ jar = <<>>
  /\ message = NoMessage
  /\ pos = 0
  /\ stage = "none"
  /\ req = NewRequest
  /\ asked = <<>>
  /\ res = NewResponse
  /\ handled = {}

------------------------------------------------------------------------------
(* The client and llhttp.                                                  *)

SessionPair(id) == SESSION_COOKIE_NAME \o id

\* A Cookie header holds the client's cookies, separated by "; ".
CookieValue(cookies) ==
  FlattenSeq([i \in DOMAIN cookies |->
                IF i = 1 THEN cookies[i] ELSE <<SEMICOLON, " ">> \o cookies[i]])

ASSUME OthersAssumption == Others \subseteq Seq(Seq(Byte))

HeadersOf(m) ==
  m.headers \o (IF m.cookies = <<>> THEN <<>>
                ELSE <<Header(<<"C", "ookie">>, CookieValue(m.cookies))>>)

JsonHeader == Header(<<"C", "type">>, <<"json">>)

\* What llhttp reports of a message, in order: bytes of spans, ends of spans,
\* and the end of the message.  A blank line before it is skipped.
Item(on, b) == [on |-> on, byte |-> b]
Bare(on) == <<Item(on, "none")>>
Span(on, bytes) == [i \in DOMAIN bytes |-> Item(on, bytes[i])]
HeaderItems(h) ==
  Span("header_field", h.name) \o Bare("header_field_complete") \o
  Span("header_value", h.value) \o Bare("header_value_complete")

Stream(m) ==
  (IF m.blank THEN Bare("blank") ELSE <<>>) \o
  Span("url", m.uri) \o Bare("url_complete") \o
  FlattenSeq([i \in DOMAIN HeadersOf(m) |-> HeaderItems(HeadersOf(m)[i])]) \o
  Span("body", m.body) \o Bare("message_complete")

\* llhttp's finish after n items: 0 before the first byte of a message and
\* after its last.
Finish(m, n) ==
  IF n = Len(Stream(m)) \/ \A i \in 1..n : Stream(m)[i].on = "blank" THEN 0 ELSE 2

\* The session cookie, if the client has one, comes first or last.
CookieLists(id, others) ==
  IF id = <<>> THEN {others} ELSE {<<SessionPair(id)>> \o others, others \o <<SessionPair(id)>>}

Logins == {Message(b, LOGIN, <<>>, <<JsonHeader>>, d) : b \in BOOLEAN, d \in Bodies}

Cookies == UNION {CookieLists(jar, others) : others \in Others}

OtherRequests ==
  {Message(b, u, c, h, <<>>) :
     b \in BOOLEAN, u \in {LOGOUT, USER, LOST}, c \in Cookies, h \in {<<>>, <<JsonHeader>>}}

Messages == Logins \cup OtherRequests

Connect ==
  /\ stage = "none"
  /\ message' \in Messages
  /\ stage' = "reading"
  /\ pos' = 0
  /\ req' = NewRequest
  /\ res' = NewResponse
  /\ asked' = <<>>
  /\ handled' = {}
  /\ UNCHANGED jar

\* The connection breaks, or the server stops it.
Break ==
  /\ stage \in {"reading", "writing"}
  /\ stage' = "none"
  /\ UNCHANGED <<jar, message, pos, req, asked, res, handled>>

\* A server that died is started again.
Restart ==
  /\ stage = "dead"
  /\ stage' = "none"
  /\ UNCHANGED <<jar, message, pos, req, asked, res, handled>>

------------------------------------------------------------------------------
(* connection: the callbacks, request::finish.                             *)

LoweredName(name) == [i \in DOMAIN name |-> Lower(name[i])]

\* Mutant: the name of a header is copied out of tmp, not moved.
CallbackCopiesName(r, item) ==
  CASE item.on \in {"url", "header_field", "header_value"} ->
         [r EXCEPT !.tmp = Append(@, item.byte)]
    [] item.on = "url_complete" -> [r EXCEPT !.uri = r.tmp, !.tmp = <<>>]
    [] item.on = "header_field_complete" ->
         [r EXCEPT !.headers = Append(@, Header(LoweredName(r.tmp), <<>>))]
    [] item.on = "header_value_complete" ->
         [r EXCEPT !.headers[Len(r.headers)].value = r.tmp, !.tmp = <<>>]
    [] item.on = "body" -> [r EXCEPT !.body = Append(@, item.byte)]
    [] OTHER -> r

\* The spans of a url, a name or a value collect in tmp, in as many pieces as
\* there are reads; the callback of the end moves tmp to its place.
Callback(r, item) ==
  CASE item.on \in {"url", "header_field", "header_value"} ->
         [r EXCEPT !.tmp = Append(@, item.byte)]
    [] item.on = "url_complete" -> [r EXCEPT !.uri = r.tmp, !.tmp = <<>>]
    [] item.on = "header_field_complete" ->
         [r EXCEPT !.headers = Append(@, Header(LoweredName(r.tmp), <<>>)), !.tmp = <<>>]
    [] item.on = "header_value_complete" ->
         [r EXCEPT !.headers[Len(r.headers)].value = r.tmp, !.tmp = <<>>]
    [] item.on = "body" -> [r EXCEPT !.body = Append(@, item.byte)]
    [] OTHER -> r

\* What request r has become after each of the items.
After(r, items) ==
  LET f[i \in 0..Len(items)] == IF i = 0 THEN r ELSE Callback(f[i - 1], items[i])
  IN f

\* The callbacks that allocate; a failure is HPE_USER to llhttp.
Allocates(item) ==
  item.on \in {"url", "header_field", "header_value", "header_field_complete", "body"}

\* request::finish parses a body that is declared as JSON.
BodyParams(r) ==
  IF Header(<<"c", "type">>, <<"json">>) \in Range(r.headers)
    THEN r.body ELSE <<>>

------------------------------------------------------------------------------
(* api/auth.hpp: looking for the session id.                               *)

\* uuid::operator=(const c8* ): no more than IdSize bytes.
Uuid(bytes) == SubSeq(bytes, 1, IF Len(bytes) < IdSize THEN Len(bytes) ELSE IdSize)

\* Mutant: the scan does not start again after a mismatch.
ScanKeepsPrefix(s, b) ==
  CASE s.found -> s
    [] ~s.found /\ b # SESSION_COOKIE_NAME[s.k + 1] -> s
    [] ~s.found /\ b = SESSION_COOKIE_NAME[s.k + 1] ->
         [k |-> s.k + 1, found |-> s.k + 1 = Len(SESSION_COOKIE_NAME)]

\* The scan before the first byte.
NoScan == [k |-> 0, found |-> FALSE]

\* One byte of the scan for the cookie's name: k bytes of it were matched.
Scan(s, b) ==
  CASE s.found -> s
    [] ~s.found /\ b # SESSION_COOKIE_NAME[s.k + 1] -> NoScan
    [] ~s.found /\ b = SESSION_COOKIE_NAME[s.k + 1] ->
         [k |-> s.k + 1, found |-> s.k + 1 = Len(SESSION_COOKIE_NAME)]

\* The scan after each byte of a value.
Scanned(value) ==
  LET s[i \in 0..Len(value)] ==
        IF i = 0 THEN NoScan ELSE Scan(s[i - 1], value[i])
  IN s

\* The id is taken k bytes into the value, wherever the name was found.
SessionIdIn(value) ==
  LET s == Scanned(value)[Len(value)] IN
  IF s.found THEN Uuid(SubSeq(value, s.k + 1, Len(value))) ELSE <<>>

\* Only the first Cookie header is looked at.
SessionId(headers) ==
  LET found == {i \in DOMAIN headers : headers[i].name = <<"c", "ookie">>} IN
  IF found = {} THEN <<>> ELSE SessionIdIn(headers[Min(found)].value)

------------------------------------------------------------------------------
(* The responses.                                                          *)

\* What a copy or an append leaves, if it may fail and nobody asks.
Unchecked(bytes) == {bytes} \cup IF OutOfMemory THEN {<<>>} ELSE {}

Joined(a, b) == {x \o y : x \in a, y \in b}

\* The process wrote or read out of bounds before it could answer.
Died == Response("died", <<>>)

\* stock_response goes on when its two headers find no memory: headers[0] is
\* then out of bounds.  The text it copies may be missing.
StockResponse(status) ==
  {Response(status, <<>>)} \cup IF OutOfMemory THEN {Died} ELSE {}

\* Mutant: the session id is appended without its first byte.
SetCookieCut(id) ==
  {<<Header(<<"Set-Cookie">>, SESSION_COOKIE_NAME \o Tail(id) \o <<SEMICOLON>>)>>}

\* post_login's cookie: each part of the value, the name and the push may fail.
CookieBytes(id) ==
  Joined(Joined(Unchecked(SESSION_COOKIE_NAME), Unchecked(id)), Unchecked(<<SEMICOLON>>))

SetCookie(id) ==
  {<<Header(n, v)>> : n \in Unchecked(<<"Set-Cookie">>), v \in CookieBytes(id)}
  \cup IF OutOfMemory THEN {<<>>} ELSE {}

\* The service refuses the credentials or issues a session id.
PostLogin ==
  {Response("unauthorized", <<>>)} \cup
  {Response("ok", h) : h \in UNION {SetCookie(id) : id \in Ids}}

\* Without a session id there is no call to the service.
PostLogout(id) ==
  IF id = <<>> THEN {Response("unauthorized", <<>>)}
  ELSE {Response("ok", <<>>), Response("bad_request", <<>>)}

GetUser(id) ==
  {Response("unauthorized", <<>>)} \cup IF id = <<>> THEN {} ELSE {Response("ok", <<>>)}

\* handle_request leaves one of these.  Of an empty uri it reads the byte in
\* front of the first; a segment of any other may find no memory.
Responses(r, id) ==
  IF r.uri = <<>> THEN StockResponse("not_found") \cup {Died}
  ELSE (CASE r.uri = LOGIN -> PostLogin
          [] r.uri = LOGOUT -> PostLogout(id)
          [] r.uri = USER -> GetUser(id)
          [] OTHER -> StockResponse("not_found"))
       \cup IF OutOfMemory THEN StockResponse("internal_server_error") ELSE {}

------------------------------------------------------------------------------
(* do_read and do_write.                                                   *)

\* A response is written, if the process is still there.
AfterResponse(r) == IF r = Died THEN "dead" ELSE "writing"

\* The handler of a read of n items.
Read(n) ==
  LET stream == Stream(message)
      items == SubSeq(stream, pos + 1, pos + n)
      r == After(req, items)[Len(items)]
      id == IF r.uri \in {LOGOUT, USER} THEN SessionId(r.headers) ELSE <<>>
  IN
  /\ stage = "reading"
  /\ pos + n <= Len(stream)
  /\ pos' = pos + n
  /\ \/ /\ OutOfMemory /\ \E i \in DOMAIN items : Allocates(items[i])
        /\ res' \in StockResponse("bad_request")
        /\ stage' = AfterResponse(res')
        /\ UNCHANGED <<req, asked, handled>>
     \/ /\ Finish(message, pos + n) = 0
        /\ req' = r
        /\ handled' = {[uri |-> r.uri, headers |-> r.headers, body |-> r.body,
                        body_params |-> BodyParams(r)]}
        /\ asked' = id
        /\ res' \in Responses(r, id)
        /\ stage' = AfterResponse(res')
     \/ /\ Finish(message, pos + n) # 0
        /\ req' = r
        /\ UNCHANGED <<stage, asked, res, handled>>
  /\ UNCHANGED <<jar, message>>

\* A client keeps the session cookie of a response: the bytes up to the ";".
UpTo(bytes, b) ==
  SubSeq(bytes, 1, Min({i \in DOMAIN bytes : bytes[i] = b} \cup {Len(bytes) + 1}) - 1)

Kept(r) ==
  {UpTo(SubSeq(h.value, Len(SESSION_COOKIE_NAME) + 1, Len(h.value)), SEMICOLON) :
     h \in {h \in Range(r.headers) :
              h.name = <<"Set-Cookie">> /\ IsPrefix(SESSION_COOKIE_NAME, h.value)}}

\* The handler of do_write, with the client that reads the response.
Write ==
  /\ stage = "writing"
  /\ jar' \in IF Kept(res) = {} THEN {jar} ELSE Kept(res)
  /\ stage' = "none"
  /\ UNCHANGED <<message, pos, req, asked, res, handled>>

Next == Connect \/ (\E n \in 1..Len(Stream(message)) : Read(n)) \/ Write \/ Break \/ Restart

Spec == Init /\ [][Next]_vars

------------------------------------------------------------------------------
(* Properties.                                                             *)

Lowered(h) == Header(LoweredName(h.name), h.value)

\* What is handled is what was sent, all of it and nothing else, however TCP
\* cut it: names in lower case, a JSON body parsed.  Only a blank line that
\* is read by itself is taken for a request, an empty one (parser.finish is 0
\* before a message as well).
HandledIsSent ==
  \A h \in handled :
    \/ h = [uri |-> message.uri, headers |-> [i \in DOMAIN HeadersOf(message) |->
                                                Lowered(HeadersOf(message)[i])],
            body |-> message.body,
            body_params |-> IF JsonHeader \in Range(message.headers) THEN message.body ELSE <<>>]
    \/ /\ message.blank /\ pos = 1
       /\ h = [uri |-> <<>>, headers |-> <<>>, body |-> <<>>, body_params |-> <<>>]

\* The name of a cookie stands somewhere in a value.
Occurs(name, value) == \E i \in DOMAIN value : IsPrefix(name, SubSeq(value, i, Len(value)))

\* The session cookie that a client sends is found wherever it stands among the
\* others, though the scan consumes the byte it stops at and starts again.  But
\* what is read stands at a fixed place: the bytes behind as many as the name
\* has.  They are the id when the session's cookie comes first; behind another
\* cookie they are the other's, which is then taken for a session id.  The same
\* bytes are read when the name ends another cookie's name or stands in a value;
\* none are read when it occurs nowhere.
SessionReadBack ==
  handled # {} /\ message.uri \in {LOGOUT, USER} /\ req.uri # <<>> =>
    LET value == CookieValue(message.cookies)
        behind == SubSeq(value, Len(SESSION_COOKIE_NAME) + 1, Len(value))
    IN
    /\ jar # <<>> => asked = Uuid(behind)
    /\ jar # <<>> /\ message.cookies[1] = SessionPair(jar) => asked = jar
    /\ asked # <<>> => Occurs(SESSION_COOKIE_NAME, value) /\ asked = Uuid(behind)

\* The id a client keeps is one that was issued, whatever part of post_login's
\* cookie found no memory: never a piece of one, or one with the ";" behind it.
KeptIsIssued == jar \in Ids \cup {<<>>}
==============================================================================
