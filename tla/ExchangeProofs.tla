---------------------------- MODULE ExchangeProofs ----------------------------
(***************************************************************************)
(* Proofs about Exchange: what a client sends is what is handled, however  *)
(* its bytes are cut; which bytes of its cookies are read as the session   *)
(* id; the client keeps an id that was issued.  They rest on the inductive *)
(* invariant ExchangeInv, and it on lemmas about the callbacks (After,     *)
(* Final), the stream of a message and the scan for the cookie.            *)
(* What a function that is defined by recursion returns is shown by        *)
(* induction over the numbers below its length (NaturalsFacts).            *)
(***************************************************************************)
EXTENDS Exchange, NaturalsFacts, SequenceTheorems, TLAPS

------------------------------------------------------------------------------
(* Responses and the cookie that a client keeps.                           *)

IdOrNone == Ids \cup {<<>>}

\* What post_login's cookie may look like when copies fail.
Names == {SESSION_COOKIE_NAME, <<>>}
Ends == {<<SEMICOLON>>, <<>>}
CookieValues == Joined(Joined(Names, IdOrNone), Ends)

\* The headers of the responses: none, or a cookie.
Plain(r) == r.headers = <<>>
Cookie(r) ==
  \E n \in {<<"Set-Cookie">>, <<>>} : \E v \in CookieValues : r.headers = <<Header(n, v)>>

\* A response that is sent has one of these shapes; a cookie is sent only in
\* answer to a login.
ResponseInv ==
  stage = "writing" => Plain(res) \/ (Cookie(res) /\ message.uri = LOGIN)

\* The fields of headers and responses.
LEMMA RecordFacts ==
  /\ \A n, v : Header(n, v).name = n /\ Header(n, v).value = v
  /\ \A s, h : Response(s, h).status = s /\ Response(s, h).headers = h
  BY DEF Header, Response

\* An operation that nobody asks about leaves its result or nothing.
LEMMA UncheckedFacts == \A bytes : \A x \in Unchecked(bytes) : x = bytes \/ x = <<>>
  BY DEF Unchecked

\* A member of Joined has two parts.
LEMMA JoinedParts ==
  ASSUME NEW a, NEW b, NEW z \in Joined(a, b)
  PROVE  \E x \in a : \E y \in b : z = x \o y
  BY DEF Joined

\* Every two parts are joined.
LEMMA JoinedAll ==
  ASSUME NEW a, NEW b, NEW x \in a, NEW y \in b
  PROVE  x \o y \in Joined(a, b)
  BY DEF Joined

\* The shape of every response that handle_request leaves.
LEMMA ResponseShapes ==
  /\ \A status : \A x \in StockResponse(status) : Plain(x)
  /\ \A r, id : \A x \in Responses(r, id) : Plain(x) \/ (Cookie(x) /\ r.uri = LOGIN)
  <1>1. \A status : Plain(Response(status, <<>>))
    BY RecordFacts DEF Plain
  <1>2. ASSUME NEW status, NEW x \in StockResponse(status) PROVE Plain(x)
    BY <1>1, Zenon DEF StockResponse, Died
  <1>3. ASSUME NEW id \in Ids, NEW v \in CookieBytes(id) PROVE v \in CookieValues
    <2>1. PICK S, T : S = Joined(Unchecked(SESSION_COOKIE_NAME), Unchecked(id))
                      /\ T = Unchecked(<<SEMICOLON>>)
      OBVIOUS
    <2>2. v \in Joined(S, T)
      BY <2>1, Zenon DEF CookieBytes
    <2>3. PICK w \in S : \E z \in T : v = w \o z
      BY <2>2, JoinedParts
    <2>4. PICK z \in T : v = w \o z
      BY <2>3
    <2>5. w \in Joined(Unchecked(SESSION_COOKIE_NAME), Unchecked(id))
      BY <2>1
    <2>6. PICK x \in Unchecked(SESSION_COOKIE_NAME) : \E y \in Unchecked(id) : w = x \o y
      BY <2>5, JoinedParts
    <2>7. PICK y \in Unchecked(id) : w = x \o y
      BY <2>6
    <2>8. x \in Names /\ y \in IdOrNone /\ z \in Ends
      BY <2>1, UncheckedFacts, Zenon DEF IdOrNone, Names, Ends
    <2>9. w \in Joined(Names, IdOrNone)
      BY <2>7, <2>8, JoinedAll
    <2>10. QED
      BY <2>4, <2>8, <2>9, JoinedAll, Zenon DEF CookieValues
  <1>4. ASSUME NEW id \in Ids, NEW h \in SetCookie(id), h # <<>>
        PROVE  \E n \in {<<"Set-Cookie">>, <<>>} : \E v \in CookieValues : h = <<Header(n, v)>>
    <2>1. \E n \in Unchecked(<<"Set-Cookie">>) : \E v \in CookieBytes(id) : h = <<Header(n, v)>>
      BY <1>4 DEF SetCookie
    <2>2. QED
      BY <1>3, <2>1, UncheckedFacts, Zenon
  <1>5. ASSUME NEW x \in PostLogin PROVE Plain(x) \/ Cookie(x)
    <2>1. CASE x = Response("unauthorized", <<>>)
      BY <1>1, <2>1
    <2>2. CASE x # Response("unauthorized", <<>>)
      <3>1. \E id \in Ids : \E h \in SetCookie(id) : x = Response("ok", h)
        BY <2>2 DEF PostLogin
      <3>2. PICK id \in Ids : \E h \in SetCookie(id) : x = Response("ok", h)
        BY <3>1
      <3>3. PICK h \in SetCookie(id) : x = Response("ok", h)
        BY <3>2
      <3>4. x.headers = h
        BY <3>3, RecordFacts
      <3>5. QED
        BY <1>4, <3>3, <3>4, Zenon DEF Plain, Cookie
    <2>3. QED
      BY <2>1, <2>2
  <1>6. ASSUME NEW id, NEW x \in PostLogout(id) PROVE Plain(x)
    BY <1>1, Zenon DEF PostLogout
  <1>7. ASSUME NEW id, NEW x \in GetUser(id) PROVE Plain(x)
    BY <1>1, Zenon DEF GetUser
  <1>8. ASSUME NEW r, NEW id, NEW x \in Responses(r, id)
        PROVE  Plain(x) \/ (Cookie(x) /\ r.uri = LOGIN)
    <2>1. LOGIN # LOGOUT /\ LOGIN # USER /\ LOGOUT # USER
      BY DEF LOGIN, LOGOUT, USER
    <2>2. \/ \E status : x \in StockResponse(status)
          \/ x = Died
          \/ r.uri = LOGIN /\ x \in PostLogin
          \/ x \in PostLogout(id)
          \/ x \in GetUser(id)
      BY <2>1 DEF Responses
    <2>3. Plain(Died)
      BY <1>1 DEF Died
    <2>4. QED
      BY <1>2, <1>5, <1>6, <1>7, <2>2, <2>3
  <1>9. QED
    BY <1>2, <1>8

\* The bytes up to one that is not among them.
LEMMA UpToFacts ==
  ASSUME NEW id \in Seq(Byte), NEW b \in Byte, \A i \in 1..Len(id) : id[i] # b
  PROVE  UpTo(id, b) = id /\ UpTo(id \o <<b>>, b) = id
  <1>1. ASSUME NEW s \in Seq(Byte), Len(s) >= Len(id), \A i \in 1..Len(id) : s[i] = id[i],
               s = id \/ (Len(s) = Len(id) + 1 /\ s[Len(id) + 1] = b)
        PROVE  UpTo(s, b) = id
    <2>1. PICK I : I = {i \in DOMAIN s : s[i] = b} \cup {Len(s) + 1}
      OBVIOUS
    <2>2. Len(id) + 1 \in I /\ \A i \in I : i \in Nat /\ i >= Len(id) + 1
      BY <1>1, <2>1
    <2>3. Min(I) = Len(id) + 1
      <3>1. PICK m : m = Min(I)
        OBVIOUS
      <3>2. \E x \in I : \A y \in I : x <= y
        BY <2>2
      <3>3. m \in I /\ \A y \in I : m <= y
        BY <3>1, <3>2 DEF Min
      <3>4. m = Len(id) + 1
        BY <2>2, <3>3
      <3>5. QED
        BY <3>1, <3>4
    <2>4. UpTo(s, b) = SubSeq(s, 1, Len(id))
      <3>1. UpTo(s, b) = SubSeq(s, 1, Min(I) - 1)
        BY <2>1, Zenon DEF UpTo
      <3>2. (Len(id) + 1) - 1 = Len(id)
        OBVIOUS
      <3>3. QED
        BY <2>3, <3>1, <3>2, Zenon
    <2>5. SubSeq(s, 1, Len(id)) = id
      <3>1. PICK t : t = SubSeq(s, 1, Len(id))
        OBVIOUS
      <3>2. t \in Seq(Byte) /\ Len(t) = Len(id) /\ \A i \in 1..Len(id) : t[i] = id[i]
        BY <1>1, <3>1
      <3>3. t = id
        BY <3>2, SeqEqual
      <3>4. QED
        BY <3>1, <3>3
    <2>6. QED
      BY <2>4, <2>5
  <1>2. UpTo(id, b) = id
    BY <1>1
  <1>3. PICK s : s = id \o <<b>>
    OBVIOUS
  <1>4. /\ s \in Seq(Byte) /\ Len(s) = Len(id) + 1
        /\ \A i \in 1..Len(id) : s[i] = id[i]
        /\ s[Len(id) + 1] = b
    BY <1>3
  <1>5. UpTo(s, b) = id
    BY <1>1, <1>4
  <1>6. QED
    BY <1>2, <1>3, <1>5

\* The bytes of the cookie's name.
LEMMA SpeltFacts ==
  /\ SESSION_COOKIE_NAME \in Seq(Byte) /\ Len(SESSION_COOKIE_NAME) = 3
  /\ SESSION_COOKIE_NAME[1] = "r" /\ SESSION_COOKIE_NAME[2] = "p"
  /\ SESSION_COOKIE_NAME[3] = "="
  /\ <<SEMICOLON>> \in Seq(Byte) /\ SEMICOLON \in Byte
  <1>1. "r" \in Byte /\ "p" \in Byte /\ "=" \in Byte /\ SEMICOLON \in Byte
    BY ByteAssumption DEF Spelt
  <1>2. \A a, b, c \in Byte : <<a>> \in Seq(Byte) /\ <<a, b, c>> \in Seq(Byte)
    OBVIOUS
  <1>3. SESSION_COOKIE_NAME \in Seq(Byte) /\ <<SEMICOLON>> \in Seq(Byte)
    BY <1>1, <1>2 DEF SESSION_COOKIE_NAME
  <1>4. Len(SESSION_COOKIE_NAME) = 3
    BY DEF SESSION_COOKIE_NAME
  <1>5. /\ SESSION_COOKIE_NAME[1] = "r" /\ SESSION_COOKIE_NAME[2] = "p"
        /\ SESSION_COOKIE_NAME[3] = "="
    BY DEF SESSION_COOKIE_NAME
  <1>6. QED
    BY <1>1, <1>3, <1>4, <1>5

\* The bytes of ids: none begins the cookie's name, none ends its value.
LEMMA IdFacts ==
  /\ <<>> \in IdOrNone /\ <<>> \notin Ids
  /\ \A id \in IdOrNone : /\ id \in Seq(Byte)
                          /\ \A i \in 1..Len(id) : id[i] # "r" /\ id[i] # SEMICOLON
  <1>1. ASSUME NEW id \in Ids
        PROVE  id \in Seq(Byte) /\ Len(id) > 0
    BY IdAssumption
  <1>2. ASSUME NEW id \in Ids, NEW i \in 1..Len(id)
        PROVE  id[i] # "r" /\ id[i] # SEMICOLON
    <2>1. Range(id) \cap {"r", SEMICOLON} = {}
      BY IdAssumption
    <2>2. id[i] \in Range(id)
      BY <1>1 DEF Range
    <2>3. id[i] \notin {"r", SEMICOLON}
      BY <2>1, <2>2
    <2>4. QED
      BY <2>3, Zenon
  <1>3. \A i \in 1..Len(<<>>) : <<>>[i] # "r" /\ <<>>[i] # SEMICOLON
    OBVIOUS
  <1>4. <<>> \in Seq(Byte) /\ Len(<<>>) = 0
    OBVIOUS
  <1>5. <<>> \notin Ids
    BY <1>1, <1>4
  <1>6. QED
    BY <1>1, <1>2, <1>3, <1>4, <1>5, Zenon DEF IdOrNone

\* The bytes of three strings put together.
LEMMA ConcatFacts ==
  ASSUME NEW S, NEW x \in Seq(S), NEW y \in Seq(S)
  PROVE  /\ x \o y \in Seq(S) /\ Len(x \o y) = Len(x) + Len(y)
         /\ \A i \in 1..Len(x) : (x \o y)[i] = x[i]
         /\ \A i \in 1..Len(y) : (x \o y)[Len(x) + i] = y[i]
  OBVIOUS

\* The same of a string that is known to be put together from two.
LEMMA ConcatParts ==
  ASSUME NEW S, NEW x \in Seq(S), NEW y \in Seq(S), NEW z, z = x \o y
  PROVE  /\ z \in Seq(S) /\ Len(z) = Len(x) + Len(y)
         /\ \A i \in 1..Len(x) : z[i] = x[i]
         /\ \A i \in 1..Len(y) : z[Len(x) + i] = y[i]
  BY ConcatFacts

\* The bytes of a prefix.
LEMMA PrefixParts ==
  ASSUME NEW S, NEW s \in Seq(S), NEW n \in Nat, n <= Len(s), NEW x, x = SubSeq(s, 1, n)
  PROVE  x \in Seq(S) /\ Len(x) = n /\ \A i \in 1..n : x[i] = s[i]
  OBVIOUS

\* Three strings put together in either order.
LEMMA Regroup ==
  ASSUME NEW S, NEW a \in Seq(S), NEW b \in Seq(S), NEW c \in Seq(S),
         NEW x, x = a \o b, NEW y, y = b \o c, NEW z, z = x \o c
  PROVE  z = a \o y
  BY ConcatAssociative, SMTT(60)

\* What is behind a prefix.
LEMMA BehindPrefix ==
  ASSUME NEW S, NEW x \in Seq(S), NEW y \in Seq(S)
  PROVE  SubSeq(x \o y, Len(x) + 1, Len(x \o y)) = y
  <1>1. PICK s, t : s = x \o y /\ t = SubSeq(s, Len(x) + 1, Len(s))
    OBVIOUS
  <1>2. /\ s \in Seq(S) /\ Len(s) = Len(x) + Len(y)
        /\ \A i \in 1..Len(y) : s[Len(x) + i] = y[i]
    BY <1>1
  <1>3. t \in Seq(S) /\ Len(t) = Len(y) /\ \A i \in 1..Len(y) : t[i] = s[Len(x) + i]
    BY <1>1, <1>2
  <1>4. t = y
    BY <1>2, <1>3, SeqEqual
  <1>5. QED
    BY <1>1, <1>4

\* A client keeps an id from the value of a cookie, or nothing.
LEMMA KeptOfValue ==
  ASSUME NEW v \in CookieValues, IsPrefix(SESSION_COOKIE_NAME, v)
  PROVE  UpTo(SubSeq(v, Len(SESSION_COOKIE_NAME) + 1, Len(v)), SEMICOLON) \in IdOrNone
  <1>1. PICK w \in Joined(Names, IdOrNone) : \E z \in Ends : v = w \o z
    BY JoinedParts DEF CookieValues
  <1>2. PICK z \in Ends : v = w \o z
    BY <1>1
  <1>3. PICK x \in Names : \E y \in IdOrNone : w = x \o y
    BY JoinedParts
  <1>4. PICK y \in IdOrNone : w = x \o y
    BY <1>3
  <1>5. x \in Seq(Byte) /\ y \in Seq(Byte) /\ z \in Seq(Byte) /\ Len(z) <= 1
    <2>1. /\ <<SEMICOLON>> \in Seq(Byte) /\ Len(<<SEMICOLON>>) <= 1
          /\ <<>> \in Seq(Byte) /\ Len(<<>>) <= 1
      BY SpeltFacts
    <2>2. z \in Seq(Byte) /\ Len(z) <= 1
      BY <2>1 DEF Ends
    <2>3. x \in Seq(Byte)
      BY <2>1, SpeltFacts DEF Names
    <2>4. y \in Seq(Byte)
      BY IdFacts
    <2>5. QED
      BY <2>2, <2>3, <2>4
  <1>6. /\ w \in Seq(Byte) /\ v \in Seq(Byte)
        /\ Len(w) = Len(x) + Len(y) /\ Len(v) = Len(w) + Len(z)
        /\ \A i \in 1..Len(x) : w[i] = x[i]
        /\ \A i \in 1..Len(y) : w[Len(x) + i] = y[i]
        /\ \A i \in 1..Len(w) : v[i] = w[i]
    BY <1>2, <1>4, <1>5, ConcatFacts
  <1>7. Len(v) >= 3 /\ v[1] = "r"
    <2>1. Len(v) >= 3 /\ SubSeq(SESSION_COOKIE_NAME, 1, 3) = SubSeq(v, 1, 3)
      BY <1>6, SpeltFacts DEF IsPrefix
    <2>2. SubSeq(SESSION_COOKIE_NAME, 1, 3)[1] = "r" /\ SubSeq(v, 1, 3)[1] = v[1]
      BY <1>6, <2>1, SpeltFacts
    <2>3. QED
      BY <2>1, <2>2
  <1>8. x = SESSION_COOKIE_NAME
    <2>1. SUFFICES ASSUME x = <<>> PROVE FALSE
      BY DEF Names
    <2>2. 1 \in 1..Len(y) /\ v[1] = y[1]
      BY <1>5, <1>6, <1>7, <2>1
    <2>3. y[1] # "r"
      BY <2>2, IdFacts
    <2>4. QED
      BY <1>7, <2>2, <2>3, Zenon
  <1>9. v = x \o (y \o z)
    BY <1>2, <1>4, <1>5, ConcatAssociative
  <1>10. y \o z \in Seq(Byte)
    BY <1>5, ConcatFacts
  <1>11. SubSeq(v, Len(SESSION_COOKIE_NAME) + 1, Len(v)) = y \o z
    BY <1>5, <1>8, <1>9, <1>10, BehindPrefix
  <1>12. UpTo(y \o z, SEMICOLON) = y
    <2>1. y \in Seq(Byte) /\ SEMICOLON \in Byte /\ \A i \in 1..Len(y) : y[i] # SEMICOLON
      BY IdFacts, SpeltFacts
    <2>2. UpTo(y, SEMICOLON) = y /\ UpTo(y \o <<SEMICOLON>>, SEMICOLON) = y
      BY <2>1, UpToFacts
    <2>3. y \o <<>> = y
      BY <2>1, ConcatEmptySeq
    <2>4. QED
      BY <2>2, <2>3, Zenon DEF Ends
  <1>13. QED
    BY <1>11, <1>12

\* A client keeps the cookie of no response but one with a cookie.
LEMMA KeptFacts ==
  ASSUME NEW r, Plain(r) \/ Cookie(r)
  PROVE  Kept(r) \subseteq IdOrNone /\ (Plain(r) => Kept(r) = {})
  <1>1. ASSUME NEW id \in Kept(r)
        PROVE  \E h \in Range(r.headers) :
                 /\ IsPrefix(SESSION_COOKIE_NAME, h.value)
                 /\ id = UpTo(SubSeq(h.value, Len(SESSION_COOKIE_NAME) + 1, Len(h.value)), SEMICOLON)
    BY DEF Kept
  <1>2. ASSUME Plain(r) PROVE Kept(r) = {}
    <2>1. r.headers = <<>>
      BY <1>2 DEF Plain
    <2>2. Range(r.headers) = {}
      BY <2>1 DEF Range
    <2>3. QED
      BY <1>1, <2>2
  <1>3. CASE Cookie(r)
    <2>1. PICK n \in {<<"Set-Cookie">>, <<>>} : \E v \in CookieValues : r.headers = <<Header(n, v)>>
      BY <1>3 DEF Cookie
    <2>2. PICK v \in CookieValues : r.headers = <<Header(n, v)>>
      BY <2>1
    <2>3. PICK a, hs : a = Header(n, v) /\ hs = r.headers
      OBVIOUS
    <2>4. hs = <<a>> /\ a.value = v
      BY <2>2, <2>3, RecordFacts
    <2>5. \A h \in Range(hs) : h = a
      BY <2>4 DEF Range
    <2>6. ASSUME NEW id \in Kept(r) PROVE id \in IdOrNone
      <3>1. /\ IsPrefix(SESSION_COOKIE_NAME, v)
            /\ id = UpTo(SubSeq(v, Len(SESSION_COOKIE_NAME) + 1, Len(v)), SEMICOLON)
        BY <1>1, <2>3, <2>4, <2>5, Zenon
      <3>2. QED
        BY <3>1, KeptOfValue
    <2>7. QED
      BY <1>2, <2>6
  <1>4. QED
    BY <1>2, <1>3

------------------------------------------------------------------------------
(* What the callbacks make of a request.                                   *)

\* The fields of connection::req, and data.tmp.
Request(tmp, uri, headers, body) ==
  [tmp |-> tmp, uri |-> uri, headers |-> headers, body |-> body]

Spans == {"url", "header_field", "header_value"}

\* The fields of a request.
LEMMA RequestFacts ==
  ASSUME NEW t, NEW u, NEW h, NEW b
  PROVE  /\ Request(t, u, h, b).tmp = t /\ Request(t, u, h, b).uri = u
         /\ Request(t, u, h, b).headers = h /\ Request(t, u, h, b).body = b
         /\ NewRequest = Request(<<>>, <<>>, <<>>, <<>>)
  BY DEF Request, NewRequest

\* What each of the callbacks makes of a request.
LEMMA SpanCallback ==
  ASSUME NEW t, NEW u, NEW h, NEW b, NEW x, NEW on \in Spans
  PROVE  Callback(Request(t, u, h, b), Item(on, x)) = Request(Append(t, x), u, h, b)
  BY DEF Callback, Item, Request, Spans

\* on_body appends a byte.
LEMMA BodyCallback ==
  ASSUME NEW t, NEW u, NEW h, NEW b, NEW x
  PROVE  Callback(Request(t, u, h, b), Item("body", x)) = Request(t, u, h, Append(b, x))
  BY DEF Callback, Item, Request

\* on_url_complete moves tmp to the uri.
LEMMA UrlCallback ==
  ASSUME NEW t, NEW u, NEW h, NEW b, NEW x
  PROVE  Callback(Request(t, u, h, b), Item("url_complete", x)) = Request(<<>>, t, h, b)
  BY DEF Callback, Item, Request

\* on_header_field_complete pushes a header with the name in lower case.
LEMMA FieldCallback ==
  ASSUME NEW t, NEW u, NEW h, NEW b, NEW x
  PROVE  Callback(Request(t, u, h, b), Item("header_field_complete", x)) =
           Request(<<>>, u, Append(h, Header(LoweredName(t), <<>>)), b)
  BY DEF Callback, Item, Request

\* The items without a callback change nothing.
LEMMA OtherCallback ==
  ASSUME NEW t, NEW u, NEW h, NEW b, NEW x, NEW on \in {"blank", "message_complete"}
  PROVE  Callback(Request(t, u, h, b), Item(on, x)) = Request(t, u, h, b)
  BY DEF Callback, Item, Request

\* on_header_value_complete moves tmp to the value of the last header.
LEMMA ValueCallback ==
  ASSUME NEW t, NEW u, NEW S, NEW h \in Seq(S), NEW n, NEW v, NEW b, NEW x
  PROVE  Callback(Request(t, u, Append(h, Header(n, v)), b), Item("header_value_complete", x)) =
           Request(<<>>, u, Append(h, Header(n, t)), b)
  <1>1. PICK g : g = Append(h, Header(n, v))
    OBVIOUS
  <1>2. PICK f : f = [g EXCEPT ![Len(g)].value = t]
    OBVIOUS
  <1>3. Callback(Request(t, u, g, b), Item("header_value_complete", x)) = Request(<<>>, u, f, b)
    BY <1>2 DEF Callback, Item, Request
  <1>4. f = Append(h, Header(n, t))
    <2>1. PICK T, p, q : /\ p = Header(n, v) /\ q = Header(n, t) /\ T = S \cup {p, q}
      OBVIOUS
    <2>2. h \in Seq(T) /\ p \in T /\ q \in T
      BY <2>1
    <2>3. g \in Seq(T) /\ Len(g) = Len(h) + 1 /\ g[Len(g)] = p /\ \A i \in 1..Len(h) : g[i] = h[i]
      BY <1>1, <2>1, <2>2
    <2>4. [p EXCEPT !.value = t] = q
      BY <2>1 DEF Header
    <2>5. f = [g EXCEPT ![Len(g)] = q]
      BY <1>2, <2>3, <2>4
    <2>6. f \in Seq(T) /\ Len(f) = Len(g) /\ f[Len(g)] = q /\ \A i \in 1..Len(h) : f[i] = h[i]
      BY <2>2, <2>3, <2>5
    <2>7. PICK e : e = Append(h, q)
      OBVIOUS
    <2>8. e \in Seq(T) /\ Len(e) = Len(h) + 1 /\ e[Len(h) + 1] = q /\ \A i \in 1..Len(h) : e[i] = h[i]
      BY <2>2, <2>7
    <2>9. f = e
      BY <2>3, <2>6, <2>8, SeqEqual
    <2>10. QED
      BY <2>1, <2>7, <2>9
  <1>5. QED
    BY <1>1, <1>3, <1>4

\* The requests are defined: from one item to the next by Callback.
LEMMA AfterFacts ==
  ASSUME NEW r, NEW items, Len(items) \in Nat
  PROVE  /\ After(r, items)[0] = r
         /\ \A i \in 1..Len(items) : After(r, items)[i] = Callback(After(r, items)[i - 1], items[i])
  <1> DEFINE Body(w, n) == [i \in 0..n |-> IF i = 0 THEN r ELSE Callback(w[i - 1], items[i])]
             S == {n \in Nat : \E w : w = Body(w, n)}
  <1>1. 0 \in S
    <2>1. PICK w : w = [i \in 0..0 |-> r]
      OBVIOUS
    <2>2. w = Body(w, 0)
      BY <2>1
    <2>3. QED
      BY <2>2
  <1>2. ASSUME NEW n \in S PROVE n + 1 \in S
    <2>1. PICK w : w = Body(w, n)
      OBVIOUS
    <2>2. PICK v : v = [i \in 0..(n + 1) |-> IF i = n + 1 THEN Callback(w[n], items[n + 1]) ELSE w[i]]
      OBVIOUS
    <2>3. ASSUME NEW i \in 0..(n + 1)
          PROVE  v[i] = IF i = 0 THEN r ELSE Callback(v[i - 1], items[i])
      <3>1. CASE i = n + 1
        <4>1. v[i] = Callback(w[n], items[i]) /\ v[i - 1] = w[n] /\ i # 0
          BY <2>2, <3>1
        <4>2. QED
          BY <4>1
      <3>2. CASE i # n + 1
        <4>1. v[i] = w[i] /\ i \in 0..n
          BY <2>2, <3>2
        <4>2. w[i] = IF i = 0 THEN r ELSE Callback(w[i - 1], items[i])
          BY <2>1, <4>1
        <4>3. i # 0 => v[i - 1] = w[i - 1]
          BY <2>2, <4>1
        <4>4. QED
          BY <4>1, <4>2, <4>3
      <3>3. QED
        BY <3>1, <3>2
    <2>4. v = [i \in 0..(n + 1) |-> v[i]]
      BY <2>2
    <2>5. v = Body(v, n + 1)
      <3>1. PICK b : b = Body(v, n + 1)
        OBVIOUS
      <3>2. b = [i \in 0..(n + 1) |-> b[i]] /\ \A i \in 0..(n + 1) : b[i] = v[i]
        BY <2>3, <3>1
      <3> HIDE DEF Body
      <3>3. b = v
        BY <2>4, <3>2
      <3>4. QED
        BY <3>1, <3>3
    <2> HIDE DEF Body
    <2>6. n + 1 \in Nat
      OBVIOUS
    <2>7. QED
      BY <2>5, <2>6
  <1>3. S = Nat
    <2> HIDE DEF S
    <2>1. S \in SUBSET Nat
      BY DEF S
    <2>2. QED
      BY <1>1, <1>2, <2>1, Induction
  <1>4. \E w : w = Body(w, Len(items))
    BY <1>3
  <1>5. After(r, items) = Body(After(r, items), Len(items))
    BY <1>4 DEF After
  <1> HIDE DEF S
  <1>6. QED
    <2>1. After(r, items)[0] = r
      BY <1>5
    <2>2. ASSUME NEW i \in 1..Len(items)
          PROVE  After(r, items)[i] = Callback(After(r, items)[i - 1], items[i])
      BY <1>5
    <2>3. QED
      BY <2>1, <2>2

\* The same items have the same effect, wherever they stand.
LEMMA AfterAgrees ==
  ASSUME NEW r, NEW p, NEW s, NEW t, Len(s) \in Nat, Len(t) \in Nat,
         NEW k \in Nat, NEW m \in Nat, k + m <= Len(s), m <= Len(t),
         After(r, s)[k] = p, \A i \in 1..m : s[k + i] = t[i]
  PROVE  After(r, s)[k + m] = After(p, t)[m]
  <1> DEFINE S == {n \in Nat : n <= m => After(r, s)[k + n] = After(p, t)[n]}
  <1>1. 0 \in S
    BY AfterFacts
  <1>2. ASSUME NEW n \in S PROVE n + 1 \in S
    <2>1. SUFFICES ASSUME n + 1 <= m
                   PROVE  After(r, s)[k + (n + 1)] = After(p, t)[n + 1]
      OBVIOUS
    <2>2. PICK i, j : i = k + (n + 1) /\ j = n + 1
      OBVIOUS
    <2>3. i \in 1..Len(s) /\ j \in 1..Len(t) /\ j \in 1..m /\ i - 1 = k + n /\ j - 1 = n
      BY <2>1, <2>2
    <2>4. After(r, s)[i] = Callback(After(r, s)[i - 1], s[i])
      BY <2>3, AfterFacts
    <2>5. After(p, t)[j] = Callback(After(p, t)[j - 1], t[j])
      BY <2>3, AfterFacts
    <2>6. s[i] = t[j]
      BY <2>2, <2>3
    <2>7. After(r, s)[k + n] = After(p, t)[n]
      BY <2>1
    <2>8. QED
      BY <2>2, <2>3, <2>4, <2>5, <2>6, <2>7
  <1>3. S = Nat
    <2> HIDE DEF S
    <2>1. S \in SUBSET Nat
      BY DEF S
    <2>2. QED
      BY <1>1, <1>2, <2>1, Induction
  <1>4. QED
    BY <1>3

\* What a request has become after all of the items.
Final(r, items) == After(r, items)[Len(items)]

\* The items of two strings one after the other.
LEMMA FinalConcat ==
  ASSUME NEW S, NEW s \in Seq(S), NEW t \in Seq(S), NEW r
  PROVE  Final(r, s \o t) = Final(Final(r, s), t)
  <1>1. PICK w, p : w = s \o t /\ p = Final(r, s)
    OBVIOUS
  <1>2. /\ w \in Seq(S) /\ Len(w) = Len(s) + Len(t)
        /\ \A i \in 1..Len(s) : w[i] = s[i]
        /\ \A i \in 1..Len(t) : w[Len(s) + i] = t[i]
    BY <1>1, ConcatFacts
  <1>3. After(r, w)[0] = r
    BY <1>2, AfterFacts
  <1>4. After(r, w)[Len(s)] = p
    <2>1. PICK k, m : k = 0 /\ m = Len(s)
      OBVIOUS
    <2>2. k \in Nat /\ m \in Nat /\ k + m <= Len(w) /\ m <= Len(s) /\ Len(w) \in Nat /\ Len(s) \in Nat
      BY <1>2, <2>1
    <2>3. After(r, w)[k] = r /\ \A i \in 1..m : w[k + i] = s[i]
      BY <1>2, <1>3, <2>1
    <2>4. After(r, w)[k + m] = After(r, s)[m]
      BY <2>2, <2>3, AfterAgrees
    <2>5. QED
      BY <1>1, <2>1, <2>2, <2>4 DEF Final
  <1>5. After(r, w)[Len(s) + Len(t)] = After(p, t)[Len(t)]
    <2>1. PICK k, m : k = Len(s) /\ m = Len(t)
      OBVIOUS
    <2>2. k \in Nat /\ m \in Nat /\ k + m <= Len(w) /\ m <= Len(t) /\ Len(w) \in Nat /\ Len(t) \in Nat
      BY <1>2, <2>1
    <2>3. After(r, w)[k] = p /\ \A i \in 1..m : w[k + i] = t[i]
      BY <1>2, <1>4, <2>1
    <2>4. After(r, w)[k + m] = After(p, t)[m]
      BY <2>2, <2>3, AfterAgrees
    <2>5. QED
      BY <2>1, <2>4
  <1>6. QED
    BY <1>1, <1>2, <1>5 DEF Final

\* The effect of an item that has no bytes.
LEMMA FinalBare ==
  ASSUME NEW r, NEW on
  PROVE  Final(r, Bare(on)) = Callback(r, Item(on, "none"))
  <1>1. PICK items, item : items = Bare(on) /\ item = Item(on, "none")
    OBVIOUS
  <1>2. items = <<item>>
    BY <1>1 DEF Bare
  <1>3. Len(items) = 1 /\ items[1] = item
    BY <1>2
  <1>4. After(r, items)[0] = r /\ After(r, items)[1] = Callback(After(r, items)[0], items[1])
    BY <1>3, AfterFacts
  <1>5. QED
    BY <1>1, <1>3, <1>4 DEF Final

\* Bytes that are appended one by one.
LEMMA Grown ==
  ASSUME NEW S, NEW t \in Seq(S), NEW bytes \in Seq(S), NEW n \in 0..(Len(bytes) - 1)
  PROVE  Append(t \o SubSeq(bytes, 1, n), bytes[n + 1]) = t \o SubSeq(bytes, 1, n + 1)
  <1>1. PICK a, b, x, y : /\ x = SubSeq(bytes, 1, n) /\ y = SubSeq(bytes, 1, n + 1)
                          /\ a = Append(t \o x, bytes[n + 1]) /\ b = t \o y
    OBVIOUS
  <1>2. /\ x \in Seq(S) /\ Len(x) = n /\ \A i \in 1..n : x[i] = bytes[i]
        /\ y \in Seq(S) /\ Len(y) = n + 1 /\ \A i \in 1..(n + 1) : y[i] = bytes[i]
        /\ bytes[n + 1] \in S
    BY <1>1
  <1>3. PICK w : w = t \o x
    OBVIOUS
  <1>4. /\ w \in Seq(S) /\ Len(w) = Len(t) + n
        /\ \A i \in 1..Len(t) : w[i] = t[i]
        /\ \A i \in 1..n : w[Len(t) + i] = bytes[i]
    <2>1. x \in Seq(S)
      BY <1>2
    <2>2. /\ w \in Seq(S) /\ Len(w) = Len(t) + Len(x)
          /\ \A i \in 1..Len(t) : w[i] = t[i]
          /\ \A i \in 1..Len(x) : w[Len(t) + i] = x[i]
      BY <1>3, <2>1, ConcatParts
    <2>3. QED
      BY <1>2, <2>2
  <1>5. /\ a \in Seq(S) /\ Len(a) = Len(w) + 1 /\ a[Len(a)] = bytes[n + 1]
        /\ \A i \in 1..Len(w) : a[i] = w[i]
    BY <1>1, <1>2, <1>3, <1>4
  <1>6. /\ b \in Seq(S) /\ Len(b) = Len(t) + (n + 1)
        /\ \A i \in 1..Len(t) : b[i] = t[i]
        /\ \A i \in 1..(n + 1) : b[Len(t) + i] = bytes[i]
    <2>1. y \in Seq(S) /\ b = t \o y
      BY <1>1, <1>2
    <2>2. /\ b \in Seq(S) /\ Len(b) = Len(t) + Len(y)
          /\ \A i \in 1..Len(t) : b[i] = t[i]
          /\ \A i \in 1..Len(y) : b[Len(t) + i] = y[i]
      BY <2>1, ConcatParts
    <2>3. QED
      BY <1>2, <2>2
  <1>7. ASSUME NEW i \in 1..Len(a) PROVE a[i] = b[i]
    <2>1. CASE i <= Len(t)
      BY <1>4, <1>5, <1>6, <2>1
    <2>2. CASE i > Len(t)
      <3>1. PICK j : j = i - Len(t)
        OBVIOUS
      <3>2. j \in 1..(n + 1) /\ i = Len(t) + j
        BY <1>4, <1>5, <2>2, <3>1
      <3>3. b[i] = bytes[j]
        BY <1>6, <3>2
      <3>4. a[i] = bytes[j]
        BY <1>4, <1>5, <3>2
      <3>5. QED
        BY <3>3, <3>4
    <2>3. QED
      BY <2>1, <2>2
  <1>8. a = b
    BY <1>4, <1>5, <1>6, <1>7, SeqEqual, SMTT(60)
  <1>9. QED
    BY <1>1, <1>8

\* The items of a span.
LEMMA SpanItems ==
  ASSUME NEW on, NEW S, NEW bytes \in Seq(S)
  PROVE  /\ Len(Span(on, bytes)) = Len(bytes)
         /\ \A i \in 1..Len(bytes) : Span(on, bytes)[i] = Item(on, bytes[i])
  <1>1. PICK s : s = Span(on, bytes)
    OBVIOUS
  <1>2. s = [i \in 1..Len(bytes) |-> Item(on, bytes[i])] /\ Len(bytes) \in Nat
    BY <1>1 DEF Span
  <1>3. Len(s) = Len(bytes) /\ \A i \in 1..Len(bytes) : s[i] = Item(on, bytes[i])
    BY <1>2
  <1>4. QED
    BY <1>1, <1>3

\* A span collects in tmp.
LEMMA FinalSpan ==
  ASSUME NEW S, NEW t \in Seq(S), NEW bytes \in Seq(S), NEW on \in Spans, NEW u, NEW h, NEW b,
         NEW all, all = t \o bytes
  PROVE  Final(Request(t, u, h, b), Span(on, bytes)) = Request(all, u, h, b)
  <1>1. PICK r, s : r = Request(t, u, h, b) /\ s = Span(on, bytes)
    OBVIOUS
  <1>2. Len(s) = Len(bytes) /\ Len(bytes) \in Nat /\ \A i \in 1..Len(bytes) : s[i] = Item(on, bytes[i])
    BY <1>1, SpanItems
  <1> DEFINE N == {n \in Nat : n <= Len(bytes) =>
                     After(r, s)[n] = Request(t \o SubSeq(bytes, 1, n), u, h, b)}
  <1>3. 0 \in N
    <2>1. SubSeq(bytes, 1, 0) = <<>> /\ t \o <<>> = t
      BY ConcatEmptySeq
    <2>2. After(r, s)[0] = r
      BY <1>2, AfterFacts
    <2>3. QED
      BY <1>1, <2>1, <2>2
  <1>4. ASSUME NEW n \in N PROVE n + 1 \in N
    <2>1. SUFFICES ASSUME n + 1 <= Len(bytes)
                   PROVE  After(r, s)[n + 1] = Request(t \o SubSeq(bytes, 1, n + 1), u, h, b)
      OBVIOUS
    <2>2. n \in 0..(Len(bytes) - 1) /\ n + 1 \in 1..Len(s) /\ (n + 1) - 1 = n
      BY <1>2, <2>1
    <2>3. After(r, s)[n + 1] = Callback(After(r, s)[n], s[n + 1])
      BY <1>2, <2>2, AfterFacts
    <2>4. PICK v, w, x : /\ v = t \o SubSeq(bytes, 1, n) /\ x = bytes[n + 1]
                         /\ w = t \o SubSeq(bytes, 1, n + 1)
      OBVIOUS
    <2>5. After(r, s)[n] = Request(v, u, h, b)
      BY <2>1, <2>2, <2>4
    <2>6. s[n + 1] = Item(on, x)
      BY <1>2, <2>2, <2>4
    <2>7. Append(v, x) = w
      BY <2>2, <2>4, Grown
    <2> HIDE DEF N
    <2>8. After(r, s)[n + 1] = Request(w, u, h, b)
      <3>1. Callback(Request(v, u, h, b), Item(on, x)) = Request(Append(v, x), u, h, b)
        BY SpanCallback
      <3>2. QED
        BY <2>3, <2>5, <2>6, <2>7, <3>1, Zenon
    <2>9. QED
      BY <2>4, <2>8
  <1>5. N = Nat
    <2> HIDE DEF N
    <2>1. N \in SUBSET Nat
      BY DEF N
    <2>2. QED
      BY <1>3, <1>4, <2>1, Induction
  <1>6. After(r, s)[Len(bytes)] = Request(t \o SubSeq(bytes, 1, Len(bytes)), u, h, b)
    BY <1>2, <1>5
  <1> HIDE DEF N
  <1>7. SubSeq(bytes, 1, Len(bytes)) = bytes
    BY SubSeqFull
  <1>8. QED
    BY <1>1, <1>2, <1>6, <1>7 DEF Final

\* A span after the end of another.
LEMMA FreshSpan ==
  ASSUME NEW S, NEW bytes \in Seq(S), NEW on \in Spans, NEW u, NEW h, NEW b
  PROVE  Final(Request(<<>>, u, h, b), Span(on, bytes)) = Request(bytes, u, h, b)
  <1>1. PICK t : t = <<>>
    OBVIOUS
  <1>2. t \in Seq(S) /\ t \o bytes = bytes
    BY <1>1, ConcatEmptySeq
  <1>3. Final(Request(t, u, h, b), Span(on, bytes)) = Request(bytes, u, h, b)
    BY <1>2, FinalSpan
  <1>4. QED
    BY <1>1, <1>3

\* A body is appended as it comes.
LEMMA FinalBody ==
  ASSUME NEW S, NEW b \in Seq(S), NEW bytes \in Seq(S), NEW t, NEW u, NEW h,
         NEW all, all = b \o bytes
  PROVE  Final(Request(t, u, h, b), Span("body", bytes)) = Request(t, u, h, all)
  <1>1. PICK r, s : r = Request(t, u, h, b) /\ s = Span("body", bytes)
    OBVIOUS
  <1>2. /\ Len(s) = Len(bytes) /\ Len(bytes) \in Nat
        /\ \A i \in 1..Len(bytes) : s[i] = Item("body", bytes[i])
    BY <1>1, SpanItems
  <1> DEFINE N == {n \in Nat : n <= Len(bytes) =>
                     After(r, s)[n] = Request(t, u, h, b \o SubSeq(bytes, 1, n))}
  <1>3. 0 \in N
    <2>1. SubSeq(bytes, 1, 0) = <<>> /\ b \o <<>> = b
      BY ConcatEmptySeq
    <2>2. After(r, s)[0] = r
      BY <1>2, AfterFacts
    <2>3. QED
      BY <1>1, <2>1, <2>2
  <1>4. ASSUME NEW n \in N PROVE n + 1 \in N
    <2>1. SUFFICES ASSUME n + 1 <= Len(bytes)
                   PROVE  After(r, s)[n + 1] = Request(t, u, h, b \o SubSeq(bytes, 1, n + 1))
      OBVIOUS
    <2>2. n \in 0..(Len(bytes) - 1) /\ n + 1 \in 1..Len(s) /\ (n + 1) - 1 = n
      BY <1>2, <2>1
    <2>3. After(r, s)[n + 1] = Callback(After(r, s)[n], s[n + 1])
      BY <1>2, <2>2, AfterFacts
    <2>4. PICK v, w, x : /\ v = b \o SubSeq(bytes, 1, n) /\ x = bytes[n + 1]
                         /\ w = b \o SubSeq(bytes, 1, n + 1)
      OBVIOUS
    <2>5. After(r, s)[n] = Request(t, u, h, v)
      BY <2>1, <2>2, <2>4
    <2>6. s[n + 1] = Item("body", x)
      BY <1>2, <2>2, <2>4
    <2>7. Append(v, x) = w
      BY <2>2, <2>4, Grown
    <2> HIDE DEF N
    <2>8. After(r, s)[n + 1] = Request(t, u, h, w)
      <3>1. Callback(Request(t, u, h, v), Item("body", x)) = Request(t, u, h, Append(v, x))
        BY BodyCallback
      <3>2. QED
        BY <2>3, <2>5, <2>6, <2>7, <3>1, Zenon
    <2>9. QED
      BY <2>4, <2>8
  <1>5. N = Nat
    <2> HIDE DEF N
    <2>1. N \in SUBSET Nat
      BY DEF N
    <2>2. QED
      BY <1>3, <1>4, <2>1, Induction
  <1>6. After(r, s)[Len(bytes)] = Request(t, u, h, b \o SubSeq(bytes, 1, Len(bytes)))
    BY <1>2, <1>5
  <1> HIDE DEF N
  <1>7. SubSeq(bytes, 1, Len(bytes)) = bytes
    BY SubSeqFull
  <1>8. QED
    BY <1>1, <1>2, <1>6, <1>7 DEF Final

\* The items of the stream.
Items(S) == [on : Spans \cup {"url_complete", "header_field_complete", "header_value_complete",
                              "body", "message_complete", "blank"},
             byte : S]

\* The types of spans and of items without bytes.
LEMMA ItemTypes ==
  ASSUME NEW S, "none" \in S
  PROVE  /\ \A on \in {"url_complete", "header_field_complete", "header_value_complete",
                       "message_complete", "blank"} :
              Bare(on) \in Seq(Items(S)) /\ Len(Bare(on)) = 1
         /\ \A on \in Spans \cup {"body"} : \A bytes \in Seq(S) :
              Span(on, bytes) \in Seq(Items(S)) /\ Len(Span(on, bytes)) = Len(bytes)
  <1>1. ASSUME NEW on \in {"url_complete", "header_field_complete", "header_value_complete",
                       "message_complete", "blank"}
        PROVE  Bare(on) \in Seq(Items(S)) /\ Len(Bare(on)) = 1
    <2>1. Item(on, "none") \in Items(S)
      BY DEF Item, Items
    <2>2. QED
      BY <2>1 DEF Bare
  <1>2. ASSUME NEW on \in Spans \cup {"body"}, NEW bytes \in Seq(S)
        PROVE  Span(on, bytes) \in Seq(Items(S)) /\ Len(Span(on, bytes)) = Len(bytes)
    <2>1. \A x \in S : Item(on, x) \in Items(S)
      BY DEF Item, Items
    <2>2. PICK s : s = Span(on, bytes)
      OBVIOUS
    <2>3. s = [i \in 1..Len(bytes) |-> Item(on, bytes[i])] /\ Len(bytes) \in Nat
      BY <2>2 DEF Span
    <2>4. s \in Seq(Items(S)) /\ Len(s) = Len(bytes)
      <3>1. \A i \in 1..Len(bytes) : Item(on, bytes[i]) \in Items(S)
        BY <2>1
      <3>2. QED
        BY <2>3, <3>1
    <2>5. QED
      BY <2>2, <2>4
  <1>3. QED
    BY <1>1, <1>2

\* A header is appended, its name in lower case.
LEMMA FinalHeader ==
  ASSUME NEW S, "none" \in S, NEW name \in Seq(S), NEW value \in Seq(S),
         NEW T, NEW h \in Seq(T), NEW u, NEW b
  PROVE  Final(Request(<<>>, u, h, b), HeaderItems(Header(name, value))) =
           Request(<<>>, u, Append(h, Lowered(Header(name, value))), b)
  <1>1. PICK s1, s2, s3, s4 : /\ s1 = Span("header_field", name)
                              /\ s2 = Bare("header_field_complete")
                              /\ s3 = Span("header_value", value)
                              /\ s4 = Bare("header_value_complete")
    OBVIOUS
  <1>2. PICK I : I = Items(S)
    OBVIOUS
  <1>3. s1 \in Seq(I) /\ s2 \in Seq(I) /\ s3 \in Seq(I) /\ s4 \in Seq(I)
    <2>1. s1 \in Seq(I) /\ s3 \in Seq(I)
      BY <1>1, <1>2, ItemTypes, Zenon DEF Spans
    <2>2. s2 \in Seq(I) /\ s4 \in Seq(I)
      BY <1>1, <1>2, ItemTypes, Zenon
    <2>3. QED
      BY <2>1, <2>2
  <1>4. HeaderItems(Header(name, value)) = s1 \o s2 \o s3 \o s4
    BY <1>1, RecordFacts, Zenon DEF HeaderItems
  <1>5. PICK low : low = LoweredName(name)
    OBVIOUS
  <1>6. Final(Request(<<>>, u, h, b), s1) = Request(name, u, h, b)
    <2>1. "header_field" \in Spans
      BY DEF Spans
    <2>2. QED
      BY <1>1, <2>1, FreshSpan
  <1>7. Final(Request(name, u, h, b), s2) = Request(<<>>, u, Append(h, Header(low, <<>>)), b)
    BY <1>1, <1>5, FinalBare, FieldCallback
  <1>8. PICK g : g = Append(h, Header(low, <<>>))
    OBVIOUS
  <1>9. Final(Request(<<>>, u, g, b), s3) = Request(value, u, g, b)
    <2>1. "header_value" \in Spans
      BY DEF Spans
    <2>2. QED
      BY <1>1, <2>1, FreshSpan
  <1>10. Final(Request(value, u, g, b), s4) = Request(<<>>, u, Append(h, Header(low, value)), b)
    <2>1. Final(Request(value, u, g, b), s4) =
            Callback(Request(value, u, g, b), Item("header_value_complete", "none"))
      BY <1>1, FinalBare
    <2>2. QED
      BY <1>8, <2>1, ValueCallback
  <1>11. Lowered(Header(name, value)) = Header(low, value)
    BY <1>5, RecordFacts, Zenon DEF Lowered
  <1>12. PICK r : r = Request(<<>>, u, h, b)
    OBVIOUS
  <1>13. Final(r, s1 \o s2 \o s3 \o s4) = Final(Final(Final(Final(r, s1), s2), s3), s4)
    <2>1. s1 \o s2 \in Seq(I) /\ s1 \o s2 \o s3 \in Seq(I)
      BY <1>3
    <2>2. Final(r, s1 \o s2) = Final(Final(r, s1), s2)
      BY <1>3, FinalConcat
    <2>3. Final(r, s1 \o s2 \o s3) = Final(Final(r, s1 \o s2), s3)
      BY <1>3, <2>1, FinalConcat
    <2>4. Final(r, s1 \o s2 \o s3 \o s4) = Final(Final(r, s1 \o s2 \o s3), s4)
      BY <1>3, <2>1, FinalConcat
    <2>5. QED
      BY <2>2, <2>3, <2>4
  <1>14. QED
    BY <1>4, <1>6, <1>7, <1>8, <1>9, <1>10, <1>11, <1>12, <1>13, Zenon

------------------------------------------------------------------------------
(* Lists that are put together from parts.                                 *)

\* Strings put together one after the other.
Joins(g, ss) ==
  /\ g[1] = ss[1]
  /\ \A i \in 2..Len(ss) : g[i] = g[i - 1] \o ss[i]

\* FlattenSeq puts its parts together from left to right.
LEMMA FlattenFacts ==
  ASSUME NEW S, NEW ss \in Seq(Seq(S)), Len(ss) > 0
  PROVE  \E g : /\ FlattenSeq(ss) = g[Len(ss)] /\ Joins(g, ss)
                /\ \A i \in 1..Len(ss) : g[i] \in Seq(S)
  <1> DEFINE Body(w, n) == [i \in 1..n |-> IF i = 1 THEN ss[i] ELSE w[i - 1] \o ss[i]]
             N == {n \in Nat : \E w : w = Body(w, n)}
  <1>1. 0 \in N
    <2>1. PICK w : w = [i \in 1..0 |-> ss]
      OBVIOUS
    <2>2. w = Body(w, 0)
      BY <2>1
    <2>3. QED
      BY <2>2
  <1>2. ASSUME NEW n \in N PROVE n + 1 \in N
    <2>1. PICK w : w = Body(w, n)
      OBVIOUS
    <2>2. PICK last : last = IF n = 0 THEN ss[1] ELSE w[n] \o ss[n + 1]
      OBVIOUS
    <2>3. PICK v : v = [i \in 1..(n + 1) |-> IF i = n + 1 THEN last ELSE w[i]]
      OBVIOUS
    <2>4. ASSUME NEW i \in 1..(n + 1)
          PROVE  v[i] = IF i = 1 THEN ss[i] ELSE v[i - 1] \o ss[i]
      <3>1. CASE i = n + 1
        <4>1. v[i] = last
          BY <2>3, <3>1
        <4>2. CASE n = 0
          BY <2>2, <3>1, <4>1, <4>2
        <4>3. CASE n # 0
          <5>1. v[i - 1] = w[n] /\ i # 1
            BY <2>3, <3>1, <4>3
          <5>2. QED
            BY <2>2, <3>1, <4>1, <4>3, <5>1
        <4>4. QED
          BY <4>2, <4>3
      <3>2. CASE i # n + 1
        <4>1. v[i] = w[i] /\ i \in 1..n
          BY <2>3, <3>2
        <4>2. w[i] = IF i = 1 THEN ss[i] ELSE w[i - 1] \o ss[i]
          BY <2>1, <4>1
        <4>3. i # 1 => v[i - 1] = w[i - 1]
          BY <2>3, <4>1
        <4>4. QED
          BY <4>1, <4>2, <4>3
      <3>3. QED
        BY <3>1, <3>2
    <2>5. v = [i \in 1..(n + 1) |-> v[i]]
      BY <2>3
    <2>6. v = Body(v, n + 1)
      <3>1. PICK b : b = Body(v, n + 1)
        OBVIOUS
      <3>2. b = [i \in 1..(n + 1) |-> b[i]] /\ \A i \in 1..(n + 1) : b[i] = v[i]
        BY <2>4, <3>1
      <3> HIDE DEF Body
      <3>3. b = v
        BY <2>5, <3>2
      <3>4. QED
        BY <3>1, <3>3
    <2> HIDE DEF Body
    <2>7. n + 1 \in Nat
      OBVIOUS
    <2>8. QED
      BY <2>6, <2>7
  <1>3. N = Nat
    <2> HIDE DEF N
    <2>1. N \in SUBSET Nat
      BY DEF N
    <2>2. QED
      BY <1>1, <1>2, <2>1, Induction
  <1>4. \E w : w = Body(w, Len(ss))
    <2> HIDE DEF Body
    <2>1. Len(ss) \in Nat
      OBVIOUS
    <2>2. QED
      BY <1>3, <2>1
  <1> HIDE DEF N
  <1>5. PICK g : g = CHOOSE w : w = Body(w, Len(ss))
    OBVIOUS
  <1>6. g = Body(g, Len(ss))
    BY <1>4, <1>5
  <1>7. FlattenSeq(ss) = g[Len(ss)]
    BY <1>5 DEF FlattenSeq
  <1>8. Joins(g, ss)
    <2>1. g[1] = ss[1]
      BY <1>6
    <2>2. ASSUME NEW i \in 2..Len(ss) PROVE g[i] = g[i - 1] \o ss[i]
      <3>1. i \in 1..Len(ss) /\ i # 1
        OBVIOUS
      <3>2. g[i] = IF i = 1 THEN ss[i] ELSE g[i - 1] \o ss[i]
        BY <1>6, <3>1, Zenon
      <3>3. QED
        BY <3>1, <3>2, Zenon
    <2>3. QED
      BY <2>1, <2>2 DEF Joins
  <1> HIDE DEF Body
  <1>9. \A i \in 1..Len(ss) : g[i] \in Seq(S)
    <2> DEFINE M == {n \in Nat : n + 1 <= Len(ss) => g[n + 1] \in Seq(S)}
    <2>1. 0 \in M
      BY <1>8 DEF Joins
    <2>2. ASSUME NEW n \in M PROVE n + 1 \in M
      <3>1. SUFFICES ASSUME (n + 1) + 1 <= Len(ss) PROVE g[(n + 1) + 1] \in Seq(S)
        OBVIOUS
      <3>2. PICK i : i = (n + 1) + 1
        OBVIOUS
      <3>3. i \in 2..Len(ss) /\ i - 1 = n + 1 /\ g[i - 1] \in Seq(S) /\ ss[i] \in Seq(S)
        BY <3>1, <3>2
      <3>4. g[i] = g[i - 1] \o ss[i]
        BY <1>8, <3>3 DEF Joins
      <3>5. QED
        BY <3>2, <3>3, <3>4
    <2>3. M = Nat
      <3> HIDE DEF M
      <3>1. M \in SUBSET Nat
        BY DEF M
      <3>2. QED
        BY <2>1, <2>2, <3>1, Induction
    <2>4. ASSUME NEW i \in 1..Len(ss) PROVE g[i] \in Seq(S)
      <3>1. i - 1 \in Nat /\ (i - 1) + 1 = i /\ i <= Len(ss)
        OBVIOUS
      <3>2. i - 1 \in M
        BY <2>3, <3>1
      <3>3. QED
        BY <3>1, <3>2
    <2>5. QED
      BY <2>4
  <1>10. QED
    BY <1>7, <1>8, <1>9

\* No parts, nothing put together.
LEMMA FlattenNothing ==
  FlattenSeq(<<>>) = <<>>
  BY DEF FlattenSeq

------------------------------------------------------------------------------
(* Headers and the values of cookies.                                      *)

HeaderType == [name : Seq(Byte), value : Seq(Byte)]

\* The fields of a header and its type.
LEMMA HeaderTypes ==
  /\ \A h \in HeaderType : h = Header(h.name, h.value) /\ h.name \in Seq(Byte) /\ h.value \in Seq(Byte)
  /\ \A n, v \in Seq(Byte) : Header(n, v) \in HeaderType
  BY DEF HeaderType, Header

\* The byte of the items that have none.
LEMMA NoneIsByte == "none" \in Byte
  BY ByteAssumption DEF Spelt

\* The type of a header's items.
LEMMA HeaderItemsType ==
  ASSUME NEW h \in HeaderType
  PROVE  HeaderItems(h) \in Seq(Items(Byte))
  <1>1. PICK I : I = Items(Byte)
    OBVIOUS
  <1>2. PICK s1, s2, s3, s4 : /\ s1 = Span("header_field", h.name)
                              /\ s2 = Bare("header_field_complete")
                              /\ s3 = Span("header_value", h.value)
                              /\ s4 = Bare("header_value_complete")
    OBVIOUS
  <1>3. s1 \in Seq(I) /\ s3 \in Seq(I)
    BY <1>1, <1>2, HeaderTypes, NoneIsByte, ItemTypes, Zenon DEF Spans
  <1>4. s2 \in Seq(I) /\ s4 \in Seq(I)
    BY <1>1, <1>2, NoneIsByte, ItemTypes, Zenon
  <1>5. s1 \o s2 \o s3 \o s4 \in Seq(I)
    BY <1>3, <1>4
  <1>6. QED
    BY <1>1, <1>2, <1>5, Zenon DEF HeaderItems

\* A prefix and the next element are the next prefix.
LEMMA GrownPrefix ==
  ASSUME NEW S, NEW s \in Seq(S), NEW n \in 0..(Len(s) - 1)
  PROVE  Append(SubSeq(s, 1, n), s[n + 1]) = SubSeq(s, 1, n + 1)
  <1>1. PICK x, y, a : x = SubSeq(s, 1, n) /\ y = SubSeq(s, 1, n + 1) /\ a = Append(x, s[n + 1])
    OBVIOUS
  <1>2. /\ x \in Seq(S) /\ Len(x) = n /\ \A i \in 1..n : x[i] = s[i]
        /\ y \in Seq(S) /\ Len(y) = n + 1 /\ \A i \in 1..(n + 1) : y[i] = s[i]
        /\ s[n + 1] \in S
    BY <1>1
  <1>3. /\ a \in Seq(S) /\ Len(a) = n + 1 /\ a[n + 1] = s[n + 1]
        /\ \A i \in 1..n : a[i] = s[i]
    BY <1>1, <1>2
  <1>4. a = y
    BY <1>2, <1>3, SeqEqual
  <1>5. QED
    BY <1>1, <1>4

\* No items change nothing.
LEMMA FinalNothing == \A r : Final(r, <<>>) = r
  BY AfterFacts DEF Final

\* All the headers of a message.
LEMMA FinalHeaders ==
  ASSUME NEW hs \in Seq(HeaderType), NEW u, NEW low, NEW items,
         low = [i \in DOMAIN hs |-> Lowered(hs[i])],
         items = FlattenSeq([i \in DOMAIN hs |-> HeaderItems(hs[i])])
  PROVE  /\ items \in Seq(Items(Byte))
         /\ Final(Request(<<>>, u, <<>>, <<>>), items) = Request(<<>>, u, low, <<>>)
  <1>1. PICK ss : ss = [i \in DOMAIN hs |-> HeaderItems(hs[i])]
    OBVIOUS
  <1>2. PICK I, R, T : /\ I = Items(Byte) /\ R = Request(<<>>, u, <<>>, <<>>)
                       /\ T = {Lowered(hs[i]) : i \in 1..Len(hs)}
    OBVIOUS
  <1>3. Len(hs) \in Nat /\ DOMAIN hs = 1..Len(hs) /\ \A i \in 1..Len(hs) : hs[i] \in HeaderType
    OBVIOUS
  <1>4. ss \in Seq(Seq(I)) /\ Len(ss) = Len(hs) /\ \A i \in 1..Len(hs) : ss[i] = HeaderItems(hs[i])
    <2>1. \A i \in 1..Len(hs) : HeaderItems(hs[i]) \in Seq(I)
      BY <1>2, <1>3, HeaderItemsType
    <2>2. QED
      BY <1>1, <1>3, <2>1
  <1>5. low \in Seq(T) /\ Len(low) = Len(hs) /\ \A i \in 1..Len(hs) : low[i] = Lowered(hs[i])
    <2>1. \A i \in 1..Len(hs) : Lowered(hs[i]) \in T
      BY <1>2
    <2>2. QED
      BY <1>3, <2>1
  <1>6. items = FlattenSeq(ss)
    BY <1>1
  <1>7. CASE Len(hs) = 0
    <2>1. ss = <<>> /\ low = <<>>
      BY <1>4, <1>5, <1>7
    <2>2. items = <<>>
      BY <1>6, <2>1, FlattenNothing
    <2>3. items \in Seq(Items(Byte))
      BY <2>2
    <2>4. Final(R, items) = R
      BY <2>2, FinalNothing, Zenon
    <2>5. QED
      BY <1>2, <2>1, <2>3, <2>4, Zenon
  <1>8. CASE Len(hs) > 0
    <2>1. Len(ss) > 0
      BY <1>4, <1>8
    <2>2. PICK g : /\ FlattenSeq(ss) = g[Len(ss)] /\ Joins(g, ss)
                   /\ \A i \in 1..Len(ss) : g[i] \in Seq(I)
      BY <1>4, <2>1, FlattenFacts
    <2>3. ASSUME NEW h \in HeaderType, NEW f \in Seq(T)
          PROVE  Final(Request(<<>>, u, f, <<>>), HeaderItems(h)) =
                   Request(<<>>, u, Append(f, Lowered(h)), <<>>)
      <3>1. PICK n, v : n \in Seq(Byte) /\ v \in Seq(Byte) /\ h = Header(n, v)
        BY HeaderTypes
      <3>2. QED
        BY <3>1, NoneIsByte, FinalHeader
    <2> DEFINE N == {n \in Nat : n + 1 <= Len(hs) =>
                       Final(R, g[n + 1]) = Request(<<>>, u, SubSeq(low, 1, n + 1), <<>>)}
    <2>4. 0 \in N
      <3>1. g[1] = HeaderItems(hs[1]) /\ hs[1] \in HeaderType
        BY <1>3, <1>4, <1>8, <2>2 DEF Joins
      <3>2. PICK f : f = <<>>
        OBVIOUS
      <3>3. f \in Seq(T)
        BY <3>2
      <3>4. Final(Request(<<>>, u, f, <<>>), HeaderItems(hs[1])) =
              Request(<<>>, u, Append(f, Lowered(hs[1])), <<>>)
        BY <2>3, <3>1, <3>3
      <3>5. Append(f, Lowered(hs[1])) = SubSeq(low, 1, 1)
        <4>1. SubSeq(low, 1, 0) = f
          BY <3>2
        <4>2. 0 \in 0..(Len(low) - 1) /\ low[0 + 1] = Lowered(hs[1])
          BY <1>5, <1>8
        <4>3. Append(SubSeq(low, 1, 0), low[0 + 1]) = SubSeq(low, 1, 0 + 1)
          BY <1>5, <4>2, GrownPrefix
        <4>4. QED
          BY <4>1, <4>2, <4>3
      <3>6. Final(R, g[1]) = Request(<<>>, u, SubSeq(low, 1, 1), <<>>)
        BY <1>2, <3>1, <3>2, <3>4, <3>5, Zenon
      <3>7. QED
        BY <3>6
    <2>5. ASSUME NEW n \in N PROVE n + 1 \in N
      <3>1. SUFFICES ASSUME (n + 1) + 1 <= Len(hs)
                     PROVE  Final(R, g[(n + 1) + 1]) =
                              Request(<<>>, u, SubSeq(low, 1, (n + 1) + 1), <<>>)
        OBVIOUS
      <3>2. PICK j, i, f, e, h : /\ j = n + 1 /\ i = j + 1 /\ h = hs[i]
                                 /\ f = SubSeq(low, 1, j) /\ e = SubSeq(low, 1, i)
        OBVIOUS
      <3>3. i \in 2..Len(ss) /\ i - 1 = j /\ j \in 1..Len(ss) /\ i \in 1..Len(hs)
        BY <1>4, <3>1, <3>2
      <3>4. g[i] = g[j] \o HeaderItems(h)
        BY <1>4, <2>2, <3>2, <3>3 DEF Joins
      <3>5. g[j] \in Seq(I) /\ HeaderItems(h) \in Seq(I) /\ h \in HeaderType
        BY <1>2, <1>3, <2>2, <3>2, <3>3, HeaderItemsType
      <3>6. Final(R, g[j]) = Request(<<>>, u, f, <<>>)
        <4>1. n + 1 <= Len(hs)
          BY <1>3, <3>1
        <4>2. QED
          BY <3>2, <4>1
      <3> HIDE DEF N
      <3>7. f \in Seq(T)
        <4>1. low \in Seq(T) /\ j \in 0..Len(low)
          BY <1>5, <3>2, <3>3
        <4>2. SubSeq(low, 1, j) \in Seq(T)
          BY <4>1
        <4>3. QED
          BY <3>2, <4>2
      <3>8. Append(f, Lowered(h)) = e
        <4>1. j \in 0..(Len(low) - 1) /\ low[j + 1] = Lowered(h)
          BY <1>5, <3>2, <3>3
        <4>2. Append(SubSeq(low, 1, j), low[j + 1]) = SubSeq(low, 1, j + 1)
          BY <1>5, <4>1, GrownPrefix
        <4>3. QED
          BY <3>2, <4>1, <4>2
      <3>9. Final(R, g[j] \o HeaderItems(h)) = Final(Final(R, g[j]), HeaderItems(h))
        BY <3>5, FinalConcat
      <3>10. Final(Request(<<>>, u, f, <<>>), HeaderItems(h)) = Request(<<>>, u, e, <<>>)
        BY <2>3, <3>5, <3>7, <3>8
      <3>11. Final(R, g[i]) = Request(<<>>, u, e, <<>>)
        BY <3>4, <3>6, <3>9, <3>10, Zenon
      <3>12. QED
        BY <3>2, <3>11
    <2>6. N = Nat
      <3> HIDE DEF N
      <3>1. N \in SUBSET Nat
        BY DEF N
      <3>2. QED
        BY <2>4, <2>5, <3>1, Induction
    <2>7. Final(R, g[Len(hs)]) = Request(<<>>, u, SubSeq(low, 1, Len(hs)), <<>>)
      <3>1. PICK n : n = Len(hs) - 1
        OBVIOUS
      <3>2. n \in Nat /\ n + 1 = Len(hs) /\ n + 1 <= Len(hs)
        BY <1>3, <1>8, <3>1
      <3>3. n \in N
        BY <2>6, <3>2
      <3>4. QED
        BY <3>2, <3>3
    <2> HIDE DEF N
    <2>8. SubSeq(low, 1, Len(hs)) = low
      BY <1>5, SubSeqFull
    <2>9. items \in Seq(I)
      BY <1>4, <1>6, <2>1, <2>2
    <2>10. QED
      BY <1>2, <1>4, <1>6, <2>2, <2>7, <2>8, <2>9
  <1>9. QED
    BY <1>3, <1>7, <1>8

\* What stands between two cookies.
Blank == " "
Separator == <<SEMICOLON, Blank>>

\* The separator's bytes.
LEMMA SeparatorFacts ==
  Separator \in Seq(Byte) /\ Len(Separator) = 2 /\ Separator[2] = Blank
  <1>1. SEMICOLON \in Byte /\ Blank \in Byte
    BY ByteAssumption DEF Spelt, Blank
  <1>2. \A a, b \in Byte : <<a, b>> \in Seq(Byte)
    OBVIOUS
  <1>3. Separator \in Seq(Byte)
    BY <1>1, <1>2, Zenon DEF Separator
  <1>4. \A a, b : Len(<<a, b>>) = 2 /\ <<a, b>>[2] = b
    OBVIOUS
  <1>5. Len(Separator) = 2 /\ Separator[2] = Blank
    BY <1>4, Zenon DEF Separator
  <1>6. QED
    BY <1>3, <1>5

\* A list of cookies is put together from the first and, behind a separator,
\* each of the others.
LEMMA CookieParts ==
  ASSUME NEW cookies \in Seq(Seq(Byte)), cookies # <<>>
  PROVE  \E ss, g : /\ ss \in Seq(Seq(Byte)) /\ Len(ss) = Len(cookies) /\ ss[1] = cookies[1]
                    /\ \A i \in 2..Len(ss) : ss[i] = Separator \o cookies[i]
                    /\ CookieValue(cookies) = g[Len(ss)] /\ Joins(g, ss)
                    /\ \A i \in 1..Len(ss) : g[i] \in Seq(Byte)
  <1>1. PICK ss, sep : /\ sep = <<SEMICOLON, " ">>
                       /\ ss = [i \in DOMAIN cookies |-> IF i = 1 THEN cookies[i] ELSE sep \o cookies[i]]
    OBVIOUS
  <1>2. sep \in Seq(Byte)
    BY <1>1, SeparatorFacts, Zenon DEF Separator, Blank
  <1>3. /\ Len(cookies) \in Nat /\ Len(cookies) > 0 /\ DOMAIN cookies = 1..Len(cookies)
        /\ \A i \in 1..Len(cookies) : cookies[i] \in Seq(Byte)
    OBVIOUS
  <1>4. /\ ss \in Seq(Seq(Byte)) /\ Len(ss) = Len(cookies) /\ ss[1] = cookies[1]
        /\ \A i \in 2..Len(ss) : ss[i] = sep \o cookies[i]
    <2>1. \A i \in 1..Len(cookies) : sep \o cookies[i] \in Seq(Byte)
      BY <1>2, <1>3
    <2>2. PICK n : n = Len(cookies)
      OBVIOUS
    <2>3. ss = [i \in 1..n |-> IF i = 1 THEN cookies[i] ELSE sep \o cookies[i]] /\ n \in Nat
      BY <1>1, <1>3, <2>2
    <2>4. \A i \in 1..n : (IF i = 1 THEN cookies[i] ELSE sep \o cookies[i]) \in Seq(Byte)
      BY <1>3, <2>1, <2>2
    <2>5. ss \in Seq(Seq(Byte)) /\ Len(ss) = n
      <3>1. PICK T : T = Seq(Byte)
        OBVIOUS
      <3>2. \A i \in 1..n : ss[i] \in T
        BY <2>3, <2>4, <3>1
      <3>3. ss = [i \in 1..n |-> ss[i]]
        BY <2>3
      <3>4. ss \in Seq(T) /\ Len(ss) = n
        BY <2>3, <3>2, <3>3
      <3>5. QED
        BY <3>1, <3>4
    <2>6. ss[1] = cookies[1]
      BY <1>3, <2>2, <2>3
    <2>7. \A i \in 2..n : ss[i] = sep \o cookies[i]
      BY <2>3
    <2>8. QED
      BY <2>2, <2>5, <2>6, <2>7
  <1>5. CookieValue(cookies) = FlattenSeq(ss)
    BY <1>1, Zenon DEF CookieValue
  <1>6. PICK g : /\ FlattenSeq(ss) = g[Len(ss)] /\ Joins(g, ss)
                 /\ \A i \in 1..Len(ss) : g[i] \in Seq(Byte)
    BY <1>3, <1>4, FlattenFacts
  <1>7. \A i \in 2..Len(ss) : ss[i] = Separator \o cookies[i]
    BY <1>1, <1>4, Zenon DEF Separator, Blank
  <1>8. CookieValue(cookies) = g[Len(ss)]
    BY <1>5, <1>6
  <1>9. QED
    BY <1>4, <1>6, <1>7, <1>8, Zenon

\* It ends with the last of them, in front of which stands nothing or a blank.
LEMMA CookieValueLast ==
  ASSUME NEW cookies \in Seq(Seq(Byte)), cookies # <<>>
  PROVE  \E w \in Seq(Byte) : /\ CookieValue(cookies) = w \o cookies[Len(cookies)]
                              /\ w = <<>> \/ (Len(w) > 0 /\ w[Len(w)] = Blank)
  <1>1. PICK ss, g : /\ ss \in Seq(Seq(Byte)) /\ Len(ss) = Len(cookies) /\ ss[1] = cookies[1]
                     /\ \A i \in 2..Len(ss) : ss[i] = Separator \o cookies[i]
                     /\ CookieValue(cookies) = g[Len(ss)] /\ Joins(g, ss)
                     /\ \A i \in 1..Len(ss) : g[i] \in Seq(Byte)
    BY CookieParts
  <1>2. PICK n, last, v : n = Len(cookies) /\ last = cookies[n] /\ v = CookieValue(cookies)
    OBVIOUS
  <1>3. n \in Nat /\ n > 0 /\ last \in Seq(Byte) /\ v = g[n]
    <2>1. n \in Nat /\ n > 0
      BY <1>2
    <2>2. last \in Seq(Byte)
      BY <1>2, <2>1
    <2>3. QED
      BY <1>1, <1>2, <2>1, <2>2
  <1>4. SUFFICES \E w \in Seq(Byte) : v = w \o last /\ (w = <<>> \/ (Len(w) > 0 /\ w[Len(w)] = Blank))
    BY <1>2
  <1>5. CASE n = 1
    <2>1. v = last
      BY <1>1, <1>2, <1>3, <1>5 DEF Joins
    <2>2. <<>> \o last = last /\ <<>> \in Seq(Byte)
      BY <1>3, ConcatEmptySeq
    <2>3. QED
      BY <2>1, <2>2, Zenon
  <1>6. CASE n # 1
    <2>1. n \in 2..Len(ss) /\ n - 1 \in 1..Len(ss)
      BY <1>1, <1>2, <1>3, <1>6
    <2>2. PICK h, t : h = g[n - 1] /\ t = ss[n]
      OBVIOUS
    <2>3. h \in Seq(Byte) /\ v = h \o t /\ t = Separator \o last
      BY <1>1, <1>2, <1>3, <2>1, <2>2 DEF Joins
    <2>4. PICK w : w = h \o Separator
      OBVIOUS
    <2>5. PICK sep : sep = Separator
      OBVIOUS
    <2>6. sep \in Seq(Byte) /\ Len(sep) = 2 /\ w = h \o sep
      BY <2>4, <2>5, SeparatorFacts
    <2>7. /\ w \in Seq(Byte) /\ Len(w) = Len(h) + Len(sep)
          /\ \A i \in 1..Len(sep) : w[Len(h) + i] = sep[i]
      <3>1. h \in Seq(Byte) /\ sep \in Seq(Byte) /\ w = h \o sep
        BY <2>3, <2>6
      <3>2. QED
        BY <3>1, ConcatParts
    <2>8. Len(w) = Len(h) + 2 /\ w[Len(h) + 2] = sep[2] /\ Len(w) > 0
      BY <2>3, <2>6, <2>7
    <2>9. w[Len(w)] = Blank
      BY <2>5, <2>8, SeparatorFacts, Zenon
    <2>10. v = w \o last
      <3>1. PICK z : z = w \o last
        OBVIOUS
      <3>2. /\ h \in Seq(Byte) /\ sep \in Seq(Byte) /\ last \in Seq(Byte)
            /\ w = h \o sep /\ t = sep \o last
        BY <1>3, <2>3, <2>5, <2>6
      <3>3. z = h \o t
        BY <3>1, <3>2, Regroup, SMTT(60)
      <3>4. QED
        BY <2>3, <3>1, <3>3
    <2>11. QED
      BY <2>7, <2>8, <2>9, <2>10
  <1>7. QED
    BY <1>5, <1>6

\* A list of cookies is a string that begins with the first of them.
LEMMA CookieValueFacts ==
  ASSUME NEW cookies \in Seq(Seq(Byte)), cookies # <<>>
  PROVE  /\ CookieValue(cookies) \in Seq(Byte)
         /\ \E rest \in Seq(Byte) : CookieValue(cookies) = cookies[1] \o rest
  <1>1. PICK ss, g : /\ ss \in Seq(Seq(Byte)) /\ Len(ss) = Len(cookies) /\ ss[1] = cookies[1]
                     /\ \A i \in 2..Len(ss) : ss[i] = Separator \o cookies[i]
                     /\ CookieValue(cookies) = g[Len(ss)] /\ Joins(g, ss)
                     /\ \A i \in 1..Len(ss) : g[i] \in Seq(Byte)
    BY CookieParts
  <1>2. CookieValue(cookies) = g[Len(ss)]
    BY <1>1
  <1>3. /\ Len(cookies) \in Nat /\ Len(cookies) > 0 /\ DOMAIN cookies = 1..Len(cookies)
        /\ \A i \in 1..Len(cookies) : cookies[i] \in Seq(Byte)
    OBVIOUS
  <1>4. ss \in Seq(Seq(Byte)) /\ Len(ss) = Len(cookies) /\ ss[1] = cookies[1]
    BY <1>1
  <1>5. Joins(g, ss) /\ \A i \in 1..Len(ss) : g[i] \in Seq(Byte)
    BY <1>1
  <1> DEFINE Begins(v) == \E rest \in Seq(Byte) : v = cookies[1] \o rest
             N == {n \in Nat : n + 1 <= Len(ss) => Begins(g[n + 1])}
  <1>6. 0 \in N
    <2>1. g[1] = cookies[1] /\ cookies[1] \in Seq(Byte)
      BY <1>3, <1>4, <1>5 DEF Joins
    <2>2. cookies[1] \o <<>> = cookies[1] /\ <<>> \in Seq(Byte)
      BY <2>1, ConcatEmptySeq
    <2>3. g[0 + 1] = cookies[1] \o <<>>
      BY <2>1, <2>2
    <2>4. QED
      BY <2>2, <2>3
  <1> HIDE DEF Begins
  <1>7. ASSUME NEW n \in N PROVE n + 1 \in N
    <2>1. SUFFICES ASSUME (n + 1) + 1 <= Len(ss) PROVE Begins(g[(n + 1) + 1])
      OBVIOUS
    <2>2. PICK i : i = (n + 1) + 1
      OBVIOUS
    <2>3. n + 1 <= Len(ss) /\ i \in 2..Len(ss) /\ i - 1 = n + 1
      BY <1>3, <1>4, <2>1, <2>2
    <2>4. Begins(g[n + 1])
      BY <2>3
    <2> HIDE DEF N
    <2>5. PICK rest \in Seq(Byte) : g[n + 1] = cookies[1] \o rest
      BY <2>4 DEF Begins
    <2>6. g[i] = g[i - 1] \o ss[i]
      BY <1>5, <2>3 DEF Joins
    <2>7. ss[i] \in Seq(Byte)
      BY <1>4, <2>3
    <2>8. g[i] = g[i - 1] \o ss[i] /\ ss[i] \in Seq(Byte)
      BY <2>6, <2>7
    <2>9. PICK c, s : c = cookies[1] /\ s = ss[i]
      OBVIOUS
    <2>10. c \in Seq(Byte) /\ s \in Seq(Byte) /\ rest \o s \in Seq(Byte)
      <3>1. c \in Seq(Byte) /\ s \in Seq(Byte)
        BY <1>3, <2>8, <2>9
      <3>2. QED
        BY <2>5, <3>1, ConcatProperties
    <2>11. PICK v, w : v = g[i] /\ w = g[n + 1]
      OBVIOUS
    <2>12. w = c \o rest /\ v = w \o s
      BY <2>5, <2>3, <2>8, <2>9, <2>11
    <2>13. rest \in Seq(Byte)
      BY <2>5
    <2>14. v = c \o (rest \o s)
      BY <2>10, <2>12, <2>13, ConcatAssociative, SMTT(60)
    <2>15. g[i] = c \o (rest \o s)
      BY <2>11, <2>14
    <2>16. Begins(g[i])
      BY <2>5, <2>9, <2>10, <2>15, Zenon DEF Begins
    <2>17. QED
      BY <2>2, <2>16
  <1>8. N = Nat
    <2> HIDE DEF N
    <2>1. N \in SUBSET Nat
      BY DEF N
    <2>2. QED
      BY <1>6, <1>7, <2>1, Induction
  <1>9. \E rest \in Seq(Byte) : g[Len(ss)] = cookies[1] \o rest
    <2>1. PICK n : n = Len(ss) - 1
      OBVIOUS
    <2>2. n \in Nat /\ n + 1 = Len(ss) /\ n + 1 <= Len(ss)
      BY <1>3, <1>4, <2>1
    <2>3. n \in N
      BY <1>8, <2>2
    <2>4. Begins(g[Len(ss)])
      BY <2>2, <2>3
    <2>5. QED
      BY <2>4 DEF Begins
  <1> HIDE DEF N
  <1>10. g[Len(ss)] \in Seq(Byte)
    BY <1>3, <1>4, <1>5
  <1>11. QED
    BY <1>2, <1>9, <1>10, Zenon

\* The messages that a client may send.
MessageType(m) ==
  /\ m.blank \in BOOLEAN
  /\ m.uri \in Seq(Byte) /\ Len(m.uri) > 0
  /\ m.cookies \in Seq(Seq(Byte))
  /\ m.headers \in {<<>>, <<JsonHeader>>}
  /\ m.body \in Seq(Byte)

CookieHeader(m) == Header(<<"C", "ookie">>, CookieValue(m.cookies))

\* The types of the two headers that the code looks for.
LEMMA JsonTypes ==
  /\ JsonHeader \in HeaderType
  /\ <<"C", "ookie">> \in Seq(Byte)
  <1>1. "C" \in Byte /\ "type" \in Byte /\ "ookie" \in Byte /\ "json" \in Byte
    BY ByteAssumption DEF Spelt
  <1>2. \A a, b \in Byte : <<a>> \in Seq(Byte) /\ <<a, b>> \in Seq(Byte)
    OBVIOUS
  <1>3. <<"C", "type">> \in Seq(Byte) /\ <<"json">> \in Seq(Byte) /\ <<"C", "ookie">> \in Seq(Byte)
    BY <1>1, <1>2
  <1>4. QED
    BY <1>3, HeaderTypes DEF JsonHeader

\* The headers of a message: one of these four lists.
LEMMA HeadersCases ==
  ASSUME NEW m, MessageType(m)
  PROVE  /\ m.cookies = <<>> => HeadersOf(m) = m.headers
         /\ m.cookies # <<>> /\ m.headers = <<>> => HeadersOf(m) = <<CookieHeader(m)>>
         /\ m.cookies # <<>> /\ m.headers = <<JsonHeader>> =>
              HeadersOf(m) = <<JsonHeader, CookieHeader(m)>>
         /\ m.cookies # <<>> => CookieHeader(m) \in HeaderType
         /\ HeadersOf(m) \in Seq(HeaderType)
  <1>1. m.headers \in Seq(HeaderType)
    <2>1. <<JsonHeader>> \in Seq(HeaderType) /\ <<>> \in Seq(HeaderType)
      BY JsonTypes
    <2>2. QED
      BY <2>1, Zenon DEF MessageType
  <1>2. PICK c : c = CookieHeader(m)
    OBVIOUS
  <1>3. CASE m.cookies = <<>>
    <2>1. HeadersOf(m) = m.headers \o <<>>
      BY <1>3, Zenon DEF HeadersOf
    <2>2. m.headers \o <<>> = m.headers
      BY <1>1, ConcatEmptySeq
    <2>3. QED
      BY <1>1, <1>3, <2>1, <2>2, Zenon
  <1>4. CASE m.cookies # <<>>
    <2>1. HeadersOf(m) = m.headers \o <<c>>
      BY <1>2, <1>4, Zenon DEF HeadersOf, CookieHeader
    <2>2. c \in HeaderType
      <3>1. CookieValue(m.cookies) \in Seq(Byte)
        BY <1>4, CookieValueFacts DEF MessageType
      <3>2. QED
        BY <1>2, <3>1, JsonTypes, HeaderTypes DEF CookieHeader
    <2>3. PICK j : j = JsonHeader
      OBVIOUS
    <2>4. j \in HeaderType
      BY <2>3, JsonTypes
    <2>5. <<c>> \in Seq(HeaderType) /\ <<>> \o <<c>> = <<c>>
      BY <2>2
    <2>6. <<j>> \o <<c>> = <<j, c>>
      <3>1. PICK s, t : s = <<j>> \o <<c>> /\ t = <<j, c>>
        OBVIOUS
      <3>2. s \in Seq(HeaderType) /\ Len(s) = 2 /\ s[1] = j /\ s[2] = c
        <4>1. /\ <<j>> \in Seq(HeaderType) /\ <<c>> \in Seq(HeaderType)
              /\ Len(<<j>>) = 1 /\ Len(<<c>>) = 1 /\ <<j>>[1] = j /\ <<c>>[1] = c
          BY <2>2, <2>4
        <4>2. QED
          BY <3>1, <4>1, ConcatProperties
      <3>3. t \in Seq(HeaderType) /\ Len(t) = 2 /\ t[1] = j /\ t[2] = c
        BY <2>2, <2>4, <3>1
      <3>4. s = t
        BY <3>2, <3>3, SeqEqual
      <3>5. QED
        BY <3>1, <3>4
    <2>7. m.headers \o <<c>> \in Seq(HeaderType)
      BY <1>1, <2>5
    <2>8. <<>> # <<JsonHeader>>
      OBVIOUS
    <2>9. QED
      BY <1>2, <1>4, <2>1, <2>2, <2>3, <2>5, <2>6, <2>7, Zenon
  <1>5. QED
    BY <1>3, <1>4, Zenon

------------------------------------------------------------------------------
(* The stream of a message.                                                *)

LowerAll(hs) == [i \in DOMAIN hs |-> Lowered(hs[i])]
Lead(m) == IF m.blank THEN Bare("blank") ELSE <<>>

\* Two strings of items one after the other.
Cat(s, t) == s \o t

\* FinalConcat, with the two strings put together by name.
LEMMA FinalCat ==
  ASSUME NEW S, NEW s \in Seq(S), NEW t \in Seq(S), NEW r
  PROVE  Cat(s, t) \in Seq(S) /\ Final(r, Cat(s, t)) = Final(Final(r, s), t)
  BY FinalConcat DEF Cat

\* The parts of a stream and their effects.
LEMMA FinalStream ==
  ASSUME NEW m, MessageType(m)
  PROVE  /\ Stream(m) \in Seq(Items(Byte))
         /\ Final(NewRequest, Stream(m)) = Request(<<>>, m.uri, LowerAll(HeadersOf(m)), m.body)
         /\ Lead(m) \in Seq(Items(Byte)) /\ Len(Lead(m)) = (IF m.blank THEN 1 ELSE 0)
         /\ Final(NewRequest, Lead(m)) = NewRequest
         /\ \E rest \in Seq(Items(Byte)) : Stream(m) = (Lead(m) \o Span("url", m.uri)) \o rest
  <1>1. PICK I, r, low, hs : /\ I = Items(Byte) /\ r = NewRequest
                             /\ hs = HeadersOf(m) /\ low = LowerAll(hs)
    OBVIOUS
  <1>2. PICK s1, s2, s3, s4, s5, s6 :
          /\ s1 = Lead(m) /\ s2 = Span("url", m.uri) /\ s3 = Bare("url_complete")
          /\ s4 = FlattenSeq([i \in DOMAIN hs |-> HeaderItems(hs[i])])
          /\ s5 = Span("body", m.body) /\ s6 = Bare("message_complete")
    OBVIOUS
  <1>3. Stream(m) = s1 \o s2 \o s3 \o s4 \o s5 \o s6
    BY <1>1, <1>2, Zenon DEF Stream, Lead
  <1>4. m.uri \in Seq(Byte) /\ m.body \in Seq(Byte) /\ m.blank \in BOOLEAN
    BY DEF MessageType
  <1>5. NewRequest = Request(<<>>, <<>>, <<>>, <<>>)
    BY RequestFacts
  <1>6. /\ s1 \in Seq(I) /\ Len(s1) = (IF m.blank THEN 1 ELSE 0)
        /\ Final(r, s1) = r
    <2>1. CASE m.blank
      <3>1. s1 = Bare("blank")
        BY <1>2, <2>1 DEF Lead
      <3>2. s1 \in Seq(I) /\ Len(s1) = 1
        BY <1>1, <3>1, NoneIsByte, ItemTypes
      <3>3. Final(r, s1) = Callback(r, Item("blank", "none"))
        BY <3>1, FinalBare
      <3>4. Callback(r, Item("blank", "none")) = r
        BY <1>1, <1>5, OtherCallback
      <3>5. QED
        BY <2>1, <3>2, <3>3, <3>4
    <2>2. CASE ~m.blank
      <3>1. s1 = <<>>
        BY <1>2, <2>2 DEF Lead
      <3>2. Final(r, s1) = r
        BY <3>1, FinalNothing, Zenon
      <3>3. QED
        BY <2>2, <3>1, <3>2
    <2>3. QED
      BY <2>1, <2>2
  <1>7. s2 \in Seq(I) /\ Final(r, s2) = Request(m.uri, <<>>, <<>>, <<>>)
    <2>1. s2 \in Seq(I)
      BY <1>1, <1>2, <1>4, NoneIsByte, ItemTypes, Zenon DEF Spans
    <2>2. "url" \in Spans
      BY DEF Spans
    <2>3. Final(Request(<<>>, <<>>, <<>>, <<>>), Span("url", m.uri)) = Request(m.uri, <<>>, <<>>, <<>>)
      BY <1>4, <2>2, FreshSpan
    <2>4. QED
      BY <1>1, <1>2, <1>5, <2>1, <2>3, Zenon
  <1>8. s3 \in Seq(I) /\ Final(Request(m.uri, <<>>, <<>>, <<>>), s3) = Request(<<>>, m.uri, <<>>, <<>>)
    <2>1. s3 \in Seq(I)
      BY <1>1, <1>2, NoneIsByte, ItemTypes, Zenon
    <2>2. Callback(Request(m.uri, <<>>, <<>>, <<>>), Item("url_complete", "none")) =
            Request(<<>>, m.uri, <<>>, <<>>)
      BY UrlCallback
    <2>3. QED
      BY <1>2, <2>1, <2>2, FinalBare, Zenon
  <1>9. /\ s4 \in Seq(I)
        /\ Final(Request(<<>>, m.uri, <<>>, <<>>), s4) = Request(<<>>, m.uri, low, <<>>)
    <2>1. hs \in Seq(HeaderType)
      BY <1>1, HeadersCases
    <2>2. low = [i \in DOMAIN hs |-> Lowered(hs[i])]
      BY <1>1 DEF LowerAll
    <2>3. QED
      BY <1>1, <1>2, <2>1, <2>2, FinalHeaders
  <1>10. /\ s5 \in Seq(I)
         /\ Final(Request(<<>>, m.uri, low, <<>>), s5) = Request(<<>>, m.uri, low, m.body)
    <2>1. s5 \in Seq(I)
      BY <1>1, <1>2, <1>4, NoneIsByte, ItemTypes, Zenon
    <2>2. PICK e : e = <<>>
      OBVIOUS
    <2>3. e \in Seq(Byte) /\ m.body = e \o m.body
      BY <1>4, <2>2, ConcatEmptySeq
    <2>4. Final(Request(<<>>, m.uri, low, e), s5) = Request(<<>>, m.uri, low, m.body)
      BY <1>2, <1>4, <2>3, FinalBody, SMTT(60)
    <2>5. QED
      BY <2>1, <2>2, <2>4
  <1>11. /\ s6 \in Seq(I)
         /\ Final(Request(<<>>, m.uri, low, m.body), s6) = Request(<<>>, m.uri, low, m.body)
    <2>1. s6 \in Seq(I)
      BY <1>1, <1>2, NoneIsByte, ItemTypes, Zenon
    <2>2. Callback(Request(<<>>, m.uri, low, m.body), Item("message_complete", "none")) =
            Request(<<>>, m.uri, low, m.body)
      BY OtherCallback
    <2>3. QED
      BY <1>2, <2>1, <2>2, FinalBare, Zenon
  <1>12. PICK w2, w3, w4, w5, w6 :
           /\ w2 = s1 \o s2 /\ w3 = w2 \o s3 /\ w4 = w3 \o s4 /\ w5 = w4 \o s5 /\ w6 = w5 \o s6
    OBVIOUS
  <1>13. PICK p2, p3, p4, p5 :
           /\ p2 = Request(m.uri, <<>>, <<>>, <<>>) /\ p3 = Request(<<>>, m.uri, <<>>, <<>>)
           /\ p4 = Request(<<>>, m.uri, low, <<>>) /\ p5 = Request(<<>>, m.uri, low, m.body)
    OBVIOUS
  <1>14. /\ Final(r, s2) = p2 /\ Final(p2, s3) = p3 /\ Final(p3, s4) = p4 /\ Final(p4, s5) = p5
         /\ Final(p5, s6) = p5
    BY <1>7, <1>8, <1>9, <1>10, <1>11, <1>13, Zenon
  <1>15. w2 \in Seq(I) /\ Final(r, w2) = p2
    <2>1. w2 = Cat(s1, s2)
      BY <1>12, Zenon DEF Cat
    <2>2. QED
      BY <1>6, <1>7, <1>14, <2>1, FinalCat
  <1>16. w3 \in Seq(I) /\ Final(r, w3) = p3
    <2>1. w3 = Cat(w2, s3)
      BY <1>12, Zenon DEF Cat
    <2>2. QED
      BY <1>8, <1>14, <1>15, <2>1, FinalCat
  <1>17. w4 \in Seq(I) /\ Final(r, w4) = p4
    <2>1. w4 = Cat(w3, s4)
      BY <1>12, Zenon DEF Cat
    <2>2. QED
      BY <1>9, <1>14, <1>16, <2>1, FinalCat
  <1>18. w5 \in Seq(I) /\ Final(r, w5) = p5
    <2>1. w5 = Cat(w4, s5)
      BY <1>12, Zenon DEF Cat
    <2>2. QED
      BY <1>10, <1>14, <1>17, <2>1, FinalCat
  <1>19. w6 \in Seq(I) /\ Final(r, w6) = p5
    <2>1. w6 = Cat(w5, s6)
      BY <1>12, Zenon DEF Cat
    <2>2. QED
      BY <1>11, <1>14, <1>18, <2>1, FinalCat
  <1>20. Stream(m) = w6
    BY <1>3, <1>12, Zenon
  <1>21. \E rest \in Seq(I) : w6 = w2 \o rest
    <2>1. PICK a : a = s3 \o s4
      OBVIOUS
    <2>2. a \in Seq(I) /\ w3 = w2 \o s3 /\ w4 = w3 \o s4
      BY <1>8, <1>9, <1>12, <2>1
    <2>3. w4 = w2 \o a
      BY <1>8, <1>9, <1>15, <2>1, <2>2, Regroup, SMTT(60)
    <2>4. PICK b : b = a \o s5
      OBVIOUS
    <2>5. b \in Seq(I) /\ w5 = w4 \o s5
      BY <1>10, <1>12, <2>2, <2>4
    <2>6. w5 = w2 \o b
      BY <1>10, <1>15, <2>2, <2>3, <2>4, <2>5, Regroup, SMTT(60)
    <2>7. PICK c : c = b \o s6
      OBVIOUS
    <2>8. c \in Seq(I) /\ w6 = w5 \o s6
      BY <1>11, <1>12, <2>5, <2>7
    <2>9. w6 = w2 \o c
      BY <1>11, <1>15, <2>5, <2>6, <2>7, <2>8, Regroup
    <2>10. QED
      BY <2>8, <2>9
  <1>22. \E rest \in Seq(I) : Stream(m) = (Lead(m) \o Span("url", m.uri)) \o rest
    BY <1>2, <1>12, <1>20, <1>21, Zenon
  <1>23. QED
    <2>1. Final(NewRequest, Stream(m)) = Request(<<>>, m.uri, LowerAll(HeadersOf(m)), m.body)
      BY <1>1, <1>20, <1>19, <1>13, Zenon
    <2>2. QED
      BY <1>1, <1>2, <1>6, <1>20, <1>19, <1>22, <2>1

\* llhttp finishes after the last item, or after a blank line that is read by
\* itself; then nothing was reported yet.
LEMMA FinishFacts ==
  ASSUME NEW m, MessageType(m), NEW n \in 1..Len(Stream(m)), Finish(m, n) = 0
  PROVE  \/ n = Len(Stream(m))
         \/ m.blank /\ n = 1 /\ After(NewRequest, Stream(m))[1] = NewRequest
  <1>1. PICK I, lead, url, w, all : /\ I = Items(Byte) /\ lead = Lead(m) /\ url = Span("url", m.uri)
                                    /\ w = lead \o url /\ all = Stream(m)
    OBVIOUS
  <1>2. lead \in Seq(I) /\ Len(lead) = (IF m.blank THEN 1 ELSE 0) /\ Final(NewRequest, lead) = NewRequest
    BY <1>1, FinalStream
  <1>3. m.uri \in Seq(Byte) /\ Len(m.uri) > 0 /\ m.blank \in BOOLEAN
    BY DEF MessageType
  <1>4. url \in Seq(I) /\ Len(url) = Len(m.uri)
    BY <1>1, <1>3, NoneIsByte, ItemTypes, ZenonT(60) DEF Spans
  <1>5. PICK rest \in Seq(I) : all = w \o rest
    BY <1>1, FinalStream, Zenon
  <1>6. /\ w \in Seq(I) /\ Len(w) = Len(lead) + Len(url)
        /\ \A i \in 1..Len(lead) : w[i] = lead[i]
        /\ \A i \in 1..Len(url) : w[Len(lead) + i] = url[i]
    <2>1. w = lead \o url /\ lead \in Seq(I) /\ url \in Seq(I)
      BY <1>1, <1>2, <1>4
    <2>2. QED
      BY <2>1, ConcatParts
  <1>7. /\ all \in Seq(I) /\ Len(all) = Len(w) + Len(rest)
        /\ \A i \in 1..Len(w) : all[i] = w[i]
    <2>1. w \in Seq(I) /\ rest \in Seq(I) /\ all = w \o rest
      BY <1>5, <1>6
    <2>2. QED
      BY <2>1, ConcatParts
  <1>8. all[Len(lead) + 1].on # "blank"
    <2>1. url[1] = Item("url", m.uri[1])
      <3>1. Span("url", m.uri)[1] = Item("url", m.uri[1])
        BY <1>3, SpanItems
      <3>2. QED
        BY <1>1, <3>1
    <2>2. 1 \in 1..Len(url) /\ Len(lead) + 1 \in 1..Len(w)
      <3>1. Len(lead) \in Nat /\ Len(url) \in Nat /\ Len(url) > 0
        <4>1. Len(lead) \in Nat
          BY <1>2
        <4>2. Len(url) \in Nat
          BY <1>4
        <4>3. Len(url) > 0
          BY <1>3, <1>4
        <4>4. QED
          BY <4>1, <4>2, <4>3
      <3>2. QED
        BY <1>6, <3>1
    <2>3. all[Len(lead) + 1] = Item("url", m.uri[1])
      BY <1>6, <1>7, <2>1, <2>2
    <2>4. QED
      BY <2>3 DEF Item
  <1>9. CASE n # Len(all)
    <2>1. \A i \in 1..n : all[i].on = "blank"
      BY <1>1, <1>9 DEF Finish
    <2>2. Len(lead) + 1 \notin 1..n
      BY <1>8, <2>1
    <2>3. m.blank /\ n = 1
      BY <1>2, <1>3, <2>2
    <2>4. After(NewRequest, all)[1] = NewRequest
      <3>1. PICK k, j : k = 0 /\ j = 1
        OBVIOUS
      <3>2. /\ k \in Nat /\ j \in Nat /\ Len(all) \in Nat /\ Len(lead) \in Nat
            /\ k + j <= Len(all) /\ j <= Len(lead)
        BY <1>2, <1>6, <1>7, <2>3, <3>1
      <3>3. \A i \in 1..j : all[k + i] = lead[i]
        BY <1>6, <1>7, <3>1, <3>2
      <3>4. After(NewRequest, all)[k] = NewRequest
        BY <3>1, <3>2, AfterFacts
      <3>5. After(NewRequest, all)[k + j] = After(NewRequest, lead)[j]
        BY <3>2, <3>3, <3>4, AfterAgrees
      <3>6. After(NewRequest, lead)[j] = NewRequest
        BY <1>2, <2>3, <3>1 DEF Final
      <3>7. QED
        BY <3>1, <3>5, <3>6
    <2>5. QED
      BY <1>1, <2>3, <2>4
  <1>10. QED
    BY <1>1, <1>9

------------------------------------------------------------------------------
(* What clients send.                                                      *)

\* The fields of a message.
LEMMA MessageFacts ==
  ASSUME NEW k, NEW u, NEW c, NEW h, NEW b
  PROVE  /\ Message(k, u, c, h, b).blank = k /\ Message(k, u, c, h, b).uri = u
         /\ Message(k, u, c, h, b).cookies = c /\ Message(k, u, c, h, b).headers = h
         /\ Message(k, u, c, h, b).body = b
  BY DEF Message

\* The uris are not empty, and the one of logins is not one of the others.
LEMMA UriFacts ==
  /\ \A u \in {LOGIN, LOGOUT, USER, LOST} : u \in Seq(Byte) /\ Len(u) > 0 /\ u # <<>>
  /\ LOGIN \notin {LOGOUT, USER, LOST}
  <1>1. "/" \in Byte /\ "login" \in Byte /\ "logout" \in Byte /\ "user" \in Byte /\ "lost" \in Byte
    BY ByteAssumption DEF Spelt
  <1>2. \A a, b \in Byte : <<a, b>> \in Seq(Byte) /\ Len(<<a, b>>) = 2
    OBVIOUS
  <1>3. /\ LOGIN \in Seq(Byte) /\ Len(LOGIN) = 2 /\ LOGOUT \in Seq(Byte) /\ Len(LOGOUT) = 2
        /\ USER \in Seq(Byte) /\ Len(USER) = 2 /\ LOST \in Seq(Byte) /\ Len(LOST) = 2
    BY <1>1, <1>2, Zenon DEF LOGIN, LOGOUT, USER, LOST
  <1>4. LOGIN # LOGOUT /\ LOGIN # USER /\ LOGIN # LOST
    BY DEF LOGIN, LOGOUT, USER, LOST
  <1>5. \A u : Len(u) = 2 => u # <<>> /\ Len(u) > 0
    OBVIOUS
  <1>6. QED
    BY <1>3, <1>4, <1>5

\* A message of a client that holds this session id, or none.
Sent(id, m) ==
  /\ MessageType(m)
  /\ \/ m.uri = LOGIN
     \/ /\ m.uri \in {LOGOUT, USER, LOST}
        /\ id # <<>> =>
             /\ m.cookies # <<>>
             /\ \/ m.cookies[1] = SessionPair(id)
                \/ m.cookies[Len(m.cookies)] = SessionPair(id)

\* What Connect may choose is what a holder of jar sends.
LEMMA MessagesSent ==
  ASSUME jar \in IdOrNone, NEW m \in Messages
  PROVE  Sent(jar, m)
  <1>1. m \in Logins \/ m \in OtherRequests
    BY DEF Messages
  <1>2. CASE m \in Logins
    <2>1. \E b \in BOOLEAN : \E d \in Bodies : m = Message(b, LOGIN, <<>>, <<JsonHeader>>, d)
      BY <1>2 DEF Logins
    <2>2. PICK b \in BOOLEAN : \E d \in Bodies : m = Message(b, LOGIN, <<>>, <<JsonHeader>>, d)
      BY <2>1, Zenon
    <2>3. PICK d \in Bodies : m = Message(b, LOGIN, <<>>, <<JsonHeader>>, d)
      BY <2>2, Zenon
    <2>4. /\ m.blank = b /\ m.uri = LOGIN /\ m.cookies = <<>> /\ m.headers = <<JsonHeader>>
          /\ m.body = d
      BY <2>3, MessageFacts
    <2>5. d \in Seq(Byte) /\ <<>> \in Seq(Seq(Byte))
      BY BodiesAssumption, <2>3
    <2>6. MessageType(m)
      BY <2>2, <2>4, <2>5, UriFacts, Zenon DEF MessageType
    <2>7. QED
      BY <2>4, <2>6 DEF Sent
  <1>3. CASE m \in OtherRequests
    <2> DEFINE Uris == {LOGOUT, USER, LOST}
               Lists == {<<>>, <<JsonHeader>>}
    <2>1. \E b \in BOOLEAN : \E u \in Uris : \E c \in Cookies : \E h \in Lists :
            m = Message(b, u, c, h, <<>>)
      BY <1>3 DEF OtherRequests
    <2> HIDE DEF Uris, Lists
    <2>2. PICK b \in BOOLEAN : \E u \in Uris : \E c \in Cookies : \E h \in Lists :
            m = Message(b, u, c, h, <<>>)
      BY <2>1, Zenon
    <2>3. PICK u \in Uris : \E c \in Cookies : \E h \in Lists : m = Message(b, u, c, h, <<>>)
      BY <2>2, Zenon
    <2>4. PICK c \in Cookies : \E h \in Lists : m = Message(b, u, c, h, <<>>)
      BY <2>3, Zenon
    <2>5. PICK h \in Lists : m = Message(b, u, c, h, <<>>)
      BY <2>4, Zenon
    <2>6. /\ m.blank = b /\ m.uri = u /\ m.cookies = c /\ m.headers = h
          /\ m.body = <<>>
      BY <2>5, MessageFacts
    <2>7. PICK others \in Others : c \in CookieLists(jar, others)
      BY <2>4 DEF Cookies
    <2>8. others \in Seq(Seq(Byte))
      BY OthersAssumption, <2>7
    <2>9. /\ c \in Seq(Seq(Byte))
          /\ jar # <<>> =>
               c # <<>> /\ (c[1] = SessionPair(jar) \/ c[Len(c)] = SessionPair(jar))
      <3>1. CASE jar = <<>>
        <4>1. c = others
          BY <2>7, <3>1 DEF CookieLists
        <4>2. QED
          BY <2>8, <3>1, <4>1
      <3>2. CASE jar # <<>>
        <4>1. PICK T, pair : T = Seq(Byte) /\ pair = SessionPair(jar)
          OBVIOUS
        <4>2. pair \in T
          BY <4>1, SpeltFacts, IdFacts, ConcatProperties DEF SessionPair
        <4>3. c = <<pair>> \o others \/ c = others \o <<pair>>
          BY <2>7, <3>2, <4>1 DEF CookieLists
        <4>4. PICK one : one = <<pair>>
          OBVIOUS
        <4>5. one \in Seq(T) /\ Len(one) = 1 /\ one[1] = pair /\ others \in Seq(T)
          <5>1. one \in Seq(T) /\ Len(one) = 1 /\ one[1] = pair
            BY <4>2, <4>4
          <5>2. others \in Seq(T)
            BY <2>8, <4>1
          <5>3. QED
            BY <5>1, <5>2
        <4>6. c = one \o others \/ c = others \o one
          BY <4>3, <4>4
        <4>7. c \in Seq(T) /\ Len(c) > 0 /\ (c[1] = pair \/ c[Len(c)] = pair)
          <5>1. CASE c = one \o others
            <6>1. /\ c \in Seq(T) /\ Len(c) = Len(one) + Len(others)
                  /\ \A i \in 1..Len(one) : c[i] = one[i]
              <7>1. one \in Seq(T) /\ others \in Seq(T) /\ c = one \o others
                BY <4>5, <5>1
              <7>2. QED
                BY <7>1, ConcatParts
            <6>2. QED
              BY <4>5, <6>1
          <5>2. CASE c = others \o one
            <6>1. /\ c \in Seq(T) /\ Len(c) = Len(others) + Len(one)
                  /\ \A i \in 1..Len(one) : c[Len(others) + i] = one[i]
              <7>1. one \in Seq(T) /\ others \in Seq(T) /\ c = others \o one
                BY <4>5, <5>2
              <7>2. QED
                BY <7>1, ConcatParts
            <6>2. 1 \in 1..Len(one) /\ Len(c) = Len(others) + 1
              BY <4>5, <6>1
            <6>3. c[Len(others) + 1] = pair
              BY <4>5, <6>1, <6>2
            <6>4. QED
              BY <4>5, <6>1, <6>2, <6>3
          <5>3. QED
            BY <4>6, <5>1, <5>2
        <4>8. c # <<>>
          BY <4>7
        <4>9. QED
          BY <3>2, <4>1, <4>7, <4>8
      <3>3. QED
        BY <3>1, <3>2
    <2>10. u \in {LOGOUT, USER, LOST} /\ h \in {<<>>, <<JsonHeader>>}
      BY <2>3, <2>5 DEF Uris, Lists
    <2>11. u \in Seq(Byte) /\ Len(u) > 0
      BY <2>10, UriFacts
    <2>12. <<>> \in Seq(Byte)
      OBVIOUS
    <2>13. MessageType(m)
      BY <2>2, <2>6, <2>9, <2>10, <2>11, <2>12, Zenon DEF MessageType
    <2>14. QED
      BY <2>6, <2>9, <2>10, <2>13, Zenon DEF Sent
  <1>4. QED
    BY <1>1, <1>2, <1>3

------------------------------------------------------------------------------
(* The scan for the session's cookie.                                      *)

\* The scan with k bytes matched, and when it has ended.
Matched(k) == [k |-> k, found |-> FALSE]
FoundName == [k |-> 3, found |-> TRUE]

\* The scans of a value are defined: from one byte to the next by Scan.
LEMMA ScannedFacts ==
  ASSUME NEW value, Len(value) \in Nat
  PROVE  /\ Scanned(value)[0] = NoScan
         /\ \A i \in 1..Len(value) : Scanned(value)[i] = Scan(Scanned(value)[i - 1], value[i])
  <1> DEFINE Body(w, n) == [i \in 0..n |-> IF i = 0 THEN NoScan ELSE Scan(w[i - 1], value[i])]
             S == {n \in Nat : \E w : w = Body(w, n)}
  <1>1. 0 \in S
    <2>1. PICK w : w = [i \in 0..0 |-> NoScan]
      OBVIOUS
    <2>2. w = Body(w, 0)
      BY <2>1
    <2>3. QED
      BY <2>2
  <1>2. ASSUME NEW n \in S PROVE n + 1 \in S
    <2>1. PICK w : w = Body(w, n)
      OBVIOUS
    <2>2. PICK v : v = [i \in 0..(n + 1) |-> IF i = n + 1 THEN Scan(w[n], value[n + 1]) ELSE w[i]]
      OBVIOUS
    <2>3. ASSUME NEW i \in 0..(n + 1)
          PROVE  v[i] = IF i = 0 THEN NoScan ELSE Scan(v[i - 1], value[i])
      <3>1. CASE i = n + 1
        <4>1. v[i] = Scan(w[n], value[i]) /\ v[i - 1] = w[n] /\ i # 0
          BY <2>2, <3>1
        <4>2. QED
          BY <4>1
      <3>2. CASE i # n + 1
        <4>1. v[i] = w[i] /\ i \in 0..n
          BY <2>2, <3>2
        <4>2. w[i] = IF i = 0 THEN NoScan ELSE Scan(w[i - 1], value[i])
          BY <2>1, <4>1
        <4>3. i # 0 => v[i - 1] = w[i - 1]
          BY <2>2, <4>1
        <4>4. QED
          BY <4>1, <4>2, <4>3
      <3>3. QED
        BY <3>1, <3>2
    <2>4. v = [i \in 0..(n + 1) |-> v[i]]
      BY <2>2
    <2>5. v = Body(v, n + 1)
      <3>1. PICK b : b = Body(v, n + 1)
        OBVIOUS
      <3>2. b = [i \in 0..(n + 1) |-> b[i]] /\ \A i \in 0..(n + 1) : b[i] = v[i]
        BY <2>3, <3>1
      <3> HIDE DEF Body
      <3>3. b = v
        BY <2>4, <3>2
      <3>4. QED
        BY <3>1, <3>3
    <2> HIDE DEF Body
    <2>6. n + 1 \in Nat
      OBVIOUS
    <2>7. QED
      BY <2>5, <2>6
  <1>3. S = Nat
    <2> HIDE DEF S
    <2>1. S \in SUBSET Nat
      BY DEF S
    <2>2. QED
      BY <1>1, <1>2, <2>1, Induction
  <1>4. \E w : w = Body(w, Len(value))
    BY <1>3
  <1>5. Scanned(value) = Body(Scanned(value), Len(value))
    BY <1>4 DEF Scanned
  <1> HIDE DEF S
  <1>6. QED
    <2>1. Scanned(value)[0] = NoScan
      BY <1>5
    <2>2. ASSUME NEW i \in 1..Len(value)
          PROVE  Scanned(value)[i] = Scan(Scanned(value)[i - 1], value[i])
      BY <1>5
    <2>3. QED
      BY <2>1, <2>2


\* Every step of the scan.
LEMMA ScanSteps ==
  /\ NoScan = Matched(0)
  /\ \A b : Scan(FoundName, b) = FoundName
  /\ \A b : b # "r" => Scan(Matched(0), b) = Matched(0)
  /\ \A b : b # "p" => Scan(Matched(1), b) = Matched(0)
  /\ \A b : b # "=" => Scan(Matched(2), b) = Matched(0)
  /\ Scan(Matched(0), "r") = Matched(1)
  /\ Scan(Matched(1), "p") = Matched(2)
  /\ Scan(Matched(2), "=") = FoundName
  /\ FoundName.found /\ FoundName.k = 3 /\ \A k : ~Matched(k).found
  <1>1. NoScan = Matched(0) /\ FoundName.found /\ FoundName.k = 3 /\ \A k : ~Matched(k).found
    BY DEF NoScan, Matched, FoundName
  <1>2. \A b : Scan(FoundName, b) = FoundName
    BY DEF Scan, FoundName
  <1>3. ASSUME NEW k \in {0, 1, 2}, NEW b
        PROVE  /\ b # SESSION_COOKIE_NAME[k + 1] => Scan(Matched(k), b) = Matched(0)
               /\ b = SESSION_COOKIE_NAME[k + 1] =>
                    Scan(Matched(k), b) = [k |-> k + 1, found |-> k + 1 = 3]
    <2>1. PICK s : s = Matched(k)
      OBVIOUS
    <2>2. s.k = k /\ s.found = FALSE
      <3>1. s.k = k
        BY <2>1 DEF Matched
      <3>2. s.found = FALSE
        BY <2>1 DEF Matched
      <3>3. QED
        BY <3>1, <3>2
    <2>3. Len(SESSION_COOKIE_NAME) = 3
      BY SpeltFacts
    <2>4. b # SESSION_COOKIE_NAME[k + 1] => Scan(s, b) = NoScan
      BY <2>2, Zenon DEF Scan
    <2>5. b = SESSION_COOKIE_NAME[k + 1] =>
            Scan(s, b) = [k |-> s.k + 1, found |-> s.k + 1 = Len(SESSION_COOKIE_NAME)]
      BY <2>2 DEF Scan
    <2>6. QED
      BY <1>1, <2>1, <2>2, <2>3, <2>4, <2>5
  <1>4. 0 + 1 = 1 /\ 1 + 1 = 2 /\ 2 + 1 = 3
    OBVIOUS
  <1>5. /\ SESSION_COOKIE_NAME[1] = "r" /\ SESSION_COOKIE_NAME[2] = "p"
        /\ SESSION_COOKIE_NAME[3] = "="
    BY SpeltFacts
  <1>6. \A b : b # "r" => Scan(Matched(0), b) = Matched(0)
    BY <1>3, <1>4, <1>5
  <1>7. \A b : b # "p" => Scan(Matched(1), b) = Matched(0)
    BY <1>3, <1>4, <1>5
  <1>8. \A b : b # "=" => Scan(Matched(2), b) = Matched(0)
    BY <1>3, <1>4, <1>5
  <1>9. Scan(Matched(0), "r") = Matched(1)
    BY <1>3, <1>4, <1>5 DEF Matched
  <1>10. Scan(Matched(1), "p") = Matched(2)
    BY <1>3, <1>4, <1>5 DEF Matched
  <1>11. Scan(Matched(2), "=") = FoundName
    BY <1>3, <1>4, <1>5 DEF FoundName
  <1>12. QED
    BY <1>1, <1>2, <1>6, <1>7, <1>8, <1>9, <1>10, <1>11

\* Where the name of the session's cookie stands in a value.
NameAt(value, i) == value[i] = "r" /\ value[i + 1] = "p" /\ value[i + 2] = "="

\* A scan that has found the name has found it somewhere.
ScanInv(value, n) ==
  \/ Scanned(value)[n] = Matched(0)
  \/ Scanned(value)[n] = Matched(1) /\ n >= 1 /\ value[n] = "r"
  \/ Scanned(value)[n] = Matched(2) /\ n >= 2 /\ value[n - 1] = "r" /\ value[n] = "p"
  \/ /\ Scanned(value)[n] = FoundName
     /\ \E i \in 1..Len(value) : i + 2 <= Len(value) /\ NameAt(value, i)

\* The scan of a value is what ScanInv says, after every byte.
LEMMA ScanFinds ==
  ASSUME NEW value, Len(value) \in Nat
  PROVE  \A n \in 0..Len(value) : ScanInv(value, n)
  <1> DEFINE N == {n \in Nat : n <= Len(value) => ScanInv(value, n)}
  <1>1. 0 \in N
    BY ScannedFacts, ScanSteps DEF ScanInv
  <1>2. ASSUME NEW n \in N PROVE n + 1 \in N
    <2>1. SUFFICES ASSUME n + 1 <= Len(value) PROVE ScanInv(value, n + 1)
      OBVIOUS
    <2>2. PICK m, s, t, b : /\ m = n + 1 /\ s = Scanned(value)[n] /\ t = Scanned(value)[m]
                            /\ b = value[m]
      OBVIOUS
    <2>3. m \in 1..Len(value) /\ m - 1 = n
      BY <2>1, <2>2
    <2>4. t = Scan(s, b)
      BY <2>2, <2>3, ScannedFacts
    <2>5. ScanInv(value, n)
      BY <2>1
    <2>6. CASE s = Matched(0)
      <3>1. b # "r" => t = Matched(0)
        BY <2>4, <2>6, ScanSteps
      <3>2. b = "r" => t = Matched(1)
        BY <2>4, <2>6, ScanSteps
      <3>3. QED
        BY <2>2, <2>3, <3>1, <3>2 DEF ScanInv
    <2>7. CASE s = Matched(1) /\ n >= 1 /\ value[n] = "r"
      <3>1. b # "p" => t = Matched(0)
        BY <2>4, <2>7, ScanSteps
      <3>2. b = "p" => t = Matched(2)
        BY <2>4, <2>7, ScanSteps
      <3>3. QED
        BY <2>2, <2>3, <2>7, <3>1, <3>2 DEF ScanInv
    <2>8. CASE s = Matched(2) /\ n >= 2 /\ value[n - 1] = "r" /\ value[n] = "p"
      <3>1. b # "=" => t = Matched(0)
        BY <2>4, <2>8, ScanSteps
      <3>2. b = "=" => t = FoundName
        BY <2>4, <2>8, ScanSteps
      <3>3. CASE b = "="
        <4>1. PICK i : i = n - 1
          OBVIOUS
        <4>2. i \in 1..Len(value) /\ i + 2 <= Len(value) /\ i + 1 = n /\ i + 2 = m
          BY <2>2, <2>3, <2>8, <4>1
        <4>3. NameAt(value, i)
          BY <2>2, <2>8, <3>3, <4>1, <4>2 DEF NameAt
        <4>4. QED
          BY <2>2, <3>2, <3>3, <4>2, <4>3 DEF ScanInv
      <3>4. QED
        BY <2>2, <3>1, <3>3 DEF ScanInv
    <2>9. CASE s = FoundName /\ \E i \in 1..Len(value) : i + 2 <= Len(value) /\ NameAt(value, i)
      <3>1. t = FoundName
        BY <2>4, <2>9, ScanSteps
      <3>2. QED
        BY <2>2, <2>9, <3>1 DEF ScanInv
    <2>10. QED
      BY <2>2, <2>5, <2>6, <2>7, <2>8, <2>9 DEF ScanInv
  <1>3. N = Nat
    <2> HIDE DEF N
    <2>1. N \in SUBSET Nat
      BY DEF N
    <2>2. QED
      BY <1>1, <1>2, <2>1, Induction
  <1>4. QED
    BY <1>3

\* A scan that starts again in front of the name finds it, if it did not before.
LEMMA ScanFrom ==
  ASSUME NEW value, Len(value) \in Nat, NEW i \in Nat, i + 3 <= Len(value), NameAt(value, i + 1),
         Scanned(value)[i] = Matched(0) \/ Scanned(value)[i] = FoundName
  PROVE  Scanned(value)[Len(value)] = FoundName
  <1>1. /\ i + 1 \in 1..Len(value) /\ (i + 1) - 1 = i
        /\ i + 2 \in 1..Len(value) /\ (i + 2) - 1 = i + 1
        /\ i + 3 \in 1..Len(value) /\ (i + 3) - 1 = i + 2
        /\ (i + 1) + 1 = i + 2 /\ (i + 1) + 2 = i + 3
    OBVIOUS
  <1>2. PICK a, b, c, d : /\ a = Scanned(value)[i] /\ b = Scanned(value)[i + 1]
                          /\ c = Scanned(value)[i + 2] /\ d = Scanned(value)[i + 3]
    OBVIOUS
  <1>3. b = Scan(a, value[i + 1]) /\ c = Scan(b, value[i + 2]) /\ d = Scan(c, value[i + 3])
    BY <1>1, <1>2, ScannedFacts
  <1>4. value[i + 1] = "r" /\ value[i + 2] = "p" /\ value[i + 3] = "="
    BY <1>1 DEF NameAt
  <1>5. b = Scan(a, "r") /\ c = Scan(b, "p") /\ d = Scan(c, "=")
    BY <1>3, <1>4
  <1>6. d = FoundName
    <2>1. CASE a = Matched(0)
      BY <1>5, <2>1, ScanSteps
    <2>2. CASE a = FoundName
      BY <1>5, <2>2, ScanSteps
    <2>3. QED
      BY <1>2, <2>1, <2>2
  <1> DEFINE At(n) == i + 3 + n
             N == {n \in Nat : At(n) <= Len(value) => Scanned(value)[At(n)] = FoundName}
  <1>7. 0 \in N
    <2>1. At(0) = i + 3
      OBVIOUS
    <2>2. QED
      BY <1>2, <1>6, <2>1
  <1>8. ASSUME NEW n \in N PROVE n + 1 \in N
    <2>1. SUFFICES ASSUME At(n + 1) <= Len(value) PROVE Scanned(value)[At(n + 1)] = FoundName
      OBVIOUS
    <2>2. PICK m : m = At(n + 1)
      OBVIOUS
    <2>3. m \in 1..Len(value) /\ m - 1 = At(n) /\ At(n) <= Len(value)
      BY <2>1, <2>2
    <2>4. Scanned(value)[m - 1] = FoundName
      BY <2>3
    <2>5. QED
      BY <2>2, <2>3, <2>4, ScannedFacts, ScanSteps
  <1>9. N = Nat
    <2> HIDE DEF N
    <2>1. N \in SUBSET Nat
      BY DEF N
    <2>2. QED
      BY <1>7, <1>8, <2>1, Induction
  <1>10. PICK n : n = Len(value) - (i + 3)
    OBVIOUS
  <1>11. n \in Nat /\ At(n) = Len(value)
    BY <1>10
  <1>12. n \in N
    BY <1>9, <1>11
  <1>13. QED
    BY <1>11, <1>12

\* A scan is not in the middle of the name behind a blank.
LEMMA ScanBehindBlank ==
  ASSUME NEW value, Len(value) \in Nat, NEW i \in 1..Len(value), value[i] = Blank
  PROVE  Scanned(value)[i] = Matched(0) \/ Scanned(value)[i] = FoundName
  <1>1. ScanInv(value, i)
    <2>1. i \in 0..Len(value)
      OBVIOUS
    <2>2. \A n \in 0..Len(value) : ScanInv(value, n)
      BY ScanFinds
    <2>3. QED
      BY <2>1, <2>2
  <1>2. Blank # "r" /\ Blank # "p"
    BY Zenon DEF Blank
  <1>3. QED
    BY <1>1, <1>2, Zenon DEF ScanInv

\* Where the three bytes of the name stand, it is a prefix of what follows.
LEMMA NameIsPrefix ==
  ASSUME NEW v \in Seq(Byte), NEW i \in 1..Len(v), i + 2 <= Len(v), NameAt(v, i)
  PROVE  IsPrefix(SESSION_COOKIE_NAME, SubSeq(v, i, Len(v)))
  <1>1. PICK t, name : t = SubSeq(v, i, Len(v)) /\ name = SESSION_COOKIE_NAME
    OBVIOUS
  <1>2. /\ t \in Seq(Byte) /\ Len(t) >= 3
        /\ t[1] = v[i] /\ t[2] = v[i + 1] /\ t[3] = v[i + 2]
    BY <1>1
  <1>3. name \in Seq(Byte) /\ Len(name) = 3
    BY <1>1, SpeltFacts
  <1>4. name[1] = "r" /\ name[2] = "p" /\ name[3] = "="
    BY <1>1, SpeltFacts
  <1>5. t[1] = name[1] /\ t[2] = name[2] /\ t[3] = name[3]
    BY <1>2, <1>4, Zenon DEF NameAt
  <1>6. PICK x, y : x = SubSeq(name, 1, 3) /\ y = SubSeq(t, 1, 3)
    OBVIOUS
  <1>7. /\ x \in Seq(Byte) /\ Len(x) = 3 /\ \A j \in 1..3 : x[j] = name[j]
        /\ y \in Seq(Byte) /\ Len(y) = 3 /\ \A j \in 1..3 : y[j] = t[j]
    <2>1. PICK n : n = 3
      OBVIOUS
    <2>2. Len(name) = n /\ n \in Nat /\ x = SubSeq(name, 1, n)
      BY <1>3, <1>6, <2>1
    <2>3. x \in Seq(Byte) /\ Len(x) = n /\ \A j \in 1..n : x[j] = name[j]
      BY <1>3, <2>2, PrefixParts, SMTT(60)
    <2>4. x \in Seq(Byte) /\ Len(x) = 3 /\ \A j \in 1..3 : x[j] = name[j]
      BY <2>1, <2>3
    <2>5. y \in Seq(Byte) /\ Len(y) = 3 /\ \A j \in 1..3 : y[j] = t[j]
      BY <1>2, <1>6
    <2>6. QED
      BY <2>4, <2>5
  <1>8. \A j \in 1..3 : x[j] = y[j]
    BY <1>5, <1>7
  <1>9. x = y
    BY <1>7, <1>8, SeqEqual
  <1>10. Len(name) <= Len(t) /\ SubSeq(name, 1, Len(name)) = SubSeq(t, 1, Len(name))
    BY <1>2, <1>3, <1>6, <1>9
  <1>11. IsPrefix(name, t)
    BY <1>10 DEF IsPrefix
  <1>12. QED
    BY <1>1, <1>11

\* What is read as the session id when the name was found.
Behind(v) == SubSeq(v, Len(SESSION_COOKIE_NAME) + 1, Len(v))

\* If the scan finds the name, the bytes at the fixed place are read.
LEMMA SessionIdFound ==
  ASSUME NEW v, Scanned(v)[Len(v)] = FoundName
  PROVE  SessionIdIn(v) = Uuid(Behind(v))
  <1>1. FoundName.k = Len(SESSION_COOKIE_NAME) /\ FoundName.found
    BY ScanSteps, SpeltFacts
  <1>2. QED
    BY <1>1 DEF SessionIdIn, Behind

\* A session id is read only from a value with the name of the session's
\* cookie, and then it is what stands at the fixed place.
LEMMA SessionIdRead ==
  ASSUME NEW v \in Seq(Byte), SessionIdIn(v) # <<>>
  PROVE  Occurs(SESSION_COOKIE_NAME, v) /\ SessionIdIn(v) = Uuid(Behind(v))
  <1>1. ScanInv(v, Len(v))
    <2>1. Len(v) \in Nat /\ Len(v) \in 0..Len(v)
      OBVIOUS
    <2>2. QED
      BY <2>1, ScanFinds
  <1>2. PICK s : s = Scanned(v)[Len(v)]
    OBVIOUS
  <1>3. s.found
    BY <1>2 DEF SessionIdIn
  <1>4. s = FoundName /\ \E i \in 1..Len(v) : i + 2 <= Len(v) /\ NameAt(v, i)
    <2>1. s # Matched(0) /\ s # Matched(1) /\ s # Matched(2)
      BY <1>3, ScanSteps
    <2>2. QED
      BY <1>1, <1>2, <2>1 DEF ScanInv
  <1>5. SessionIdIn(v) = Uuid(Behind(v))
    BY <1>2, <1>4, SessionIdFound
  <1>6. PICK i \in 1..Len(v) : i + 2 <= Len(v) /\ NameAt(v, i)
    BY <1>4
  <1>7. i \in DOMAIN v /\ IsPrefix(SESSION_COOKIE_NAME, SubSeq(v, i, Len(v)))
    BY <1>6, NameIsPrefix
  <1>8. QED
    BY <1>5, <1>7 DEF Occurs

\* The scan finds the session's cookie if nothing or a blank stands in front.
LEMMA SessionIsFound ==
  ASSUME NEW w \in Seq(Byte), w = <<>> \/ (Len(w) > 0 /\ w[Len(w)] = Blank),
         NEW id \in Seq(Byte), NEW rest \in Seq(Byte), NEW v, v = w \o (SessionPair(id) \o rest)
  PROVE  SessionIdIn(v) = Uuid(Behind(v))
  <1>1. PICK name, pair, t, n : /\ name = SESSION_COOKIE_NAME /\ pair = name \o id
                                /\ t = pair \o rest /\ n = Len(w)
    OBVIOUS
  <1>2. name \in Seq(Byte) /\ Len(name) = 3
    BY <1>1, SpeltFacts
  <1>3. name[1] = "r" /\ name[2] = "p" /\ name[3] = "="
    BY <1>1, SpeltFacts
  <1>4. /\ pair \in Seq(Byte) /\ Len(pair) = Len(name) + Len(id)
        /\ \A i \in 1..Len(name) : pair[i] = name[i]
    <2>1. name \in Seq(Byte) /\ id \in Seq(Byte) /\ pair = name \o id
      BY <1>1, <1>2
    <2>2. QED
      BY <2>1, ConcatParts
  <1>5. /\ t \in Seq(Byte) /\ Len(t) = Len(pair) + Len(rest)
        /\ \A i \in 1..Len(pair) : t[i] = pair[i]
    <2>1. pair \in Seq(Byte) /\ rest \in Seq(Byte) /\ t = pair \o rest
      BY <1>1, <1>4
    <2>2. QED
      BY <2>1, ConcatParts
  <1>6. v = w \o t
    BY <1>1 DEF SessionPair
  <1>7. /\ v \in Seq(Byte) /\ Len(v) = n + Len(t)
        /\ \A i \in 1..n : v[i] = w[i]
        /\ \A i \in 1..Len(t) : v[n + i] = t[i]
    <2>1. w \in Seq(Byte) /\ t \in Seq(Byte) /\ v = w \o t
      BY <1>5, <1>6
    <2>2. /\ v \in Seq(Byte) /\ Len(v) = Len(w) + Len(t)
          /\ \A i \in 1..Len(w) : v[i] = w[i]
          /\ \A i \in 1..Len(t) : v[Len(w) + i] = t[i]
      BY <2>1, ConcatParts
    <2>3. QED
      BY <1>1, <2>2
  <1>8. /\ n \in Nat /\ n + 3 <= Len(v) /\ Len(v) \in Nat
        /\ Len(pair) >= 3 /\ Len(t) >= 3 /\ Len(t) \in Nat /\ Len(pair) \in Nat
    <2>1. n \in Nat /\ Len(id) \in Nat /\ Len(rest) \in Nat
      BY <1>1
    <2>2. Len(pair) = 3 + Len(id) /\ Len(t) = Len(pair) + Len(rest) /\ Len(v) = n + Len(t)
      BY <1>2, <1>4, <1>5, <1>7
    <2>3. QED
      BY <2>1, <2>2
  <1>9. NameAt(v, n + 1)
    <2>1. ASSUME NEW k \in 1..3 PROVE v[n + k] = name[k]
      <3>1. k \in 1..Len(name) /\ k \in 1..Len(pair) /\ k \in 1..Len(t)
        BY <1>2, <1>8
      <3>2. pair[k] = name[k] /\ t[k] = pair[k] /\ v[n + k] = t[k]
        BY <1>4, <1>5, <1>7, <3>1
      <3>3. QED
        BY <3>2
    <2>2. v[n + 1] = name[1] /\ v[n + 2] = name[2] /\ v[n + 3] = name[3]
      <3>1. 1 \in 1..3 /\ 2 \in 1..3 /\ 3 \in 1..3
        OBVIOUS
      <3>2. QED
        BY <2>1, <3>1, Zenon
    <2>3. (n + 1) + 1 = n + 2 /\ (n + 1) + 2 = n + 3
      BY <1>8
    <2>4. QED
      BY <1>3, <2>2, <2>3, Zenon DEF NameAt
  <1>10. Scanned(v)[n] = Matched(0) \/ Scanned(v)[n] = FoundName
    <2>1. CASE w = <<>>
      <3>1. n = 0
        BY <1>1, <2>1
      <3>2. QED
        BY <1>8, <3>1, ScannedFacts, ScanSteps
    <2>2. CASE Len(w) > 0 /\ w[Len(w)] = Blank
      <3>1. n \in 1..Len(v) /\ n \in 1..n
        <4>1. n > 0
          BY <1>1, <2>2
        <4>2. QED
          BY <1>8, <4>1
      <3>2. v[n] = Blank
        BY <1>1, <1>7, <2>2, <3>1
      <3>3. QED
        BY <1>8, <3>1, <3>2, ScanBehindBlank
    <2>3. QED
      BY <2>1, <2>2
  <1>11. Scanned(v)[Len(v)] = FoundName
    BY <1>8, <1>9, <1>10, ScanFrom
  <1>12. QED
    BY <1>11, SessionIdFound

\* The id of a session's cookie that comes first stands at the fixed place.
LEMMA SessionIsFirst ==
  ASSUME NEW id \in Seq(Byte), Len(id) = IdSize, NEW rest \in Seq(Byte),
         NEW v, v = SessionPair(id) \o rest
  PROVE  Uuid(Behind(v)) = id
  <1>1. PICK name, behind, pair : /\ name = SESSION_COOKIE_NAME /\ behind = id \o rest
                                  /\ pair = name \o id
    OBVIOUS
  <1>2. name \in Seq(Byte)
    BY <1>1, SpeltFacts
  <1>3. /\ behind \in Seq(Byte) /\ Len(behind) = Len(id) + Len(rest)
        /\ \A i \in 1..Len(id) : behind[i] = id[i]
    BY <1>1, ConcatFacts
  <1>4. v = name \o behind
    <2>1. v = pair \o rest
      BY <1>1 DEF SessionPair
    <2>2. QED
      BY <1>1, <1>2, <2>1, Regroup, SMTT(60)
  <1>5. Behind(v) = behind
    BY <1>1, <1>2, <1>3, <1>4, BehindPrefix DEF Behind
  <1>6. IdSize \in Nat \ {0}
    BY IdAssumption
  <1>7. Uuid(behind) = SubSeq(behind, 1, IdSize)
    BY <1>3, <1>6 DEF Uuid
  <1>8. SubSeq(behind, 1, IdSize) = id
    <2>1. PICK x : x = SubSeq(behind, 1, IdSize)
      OBVIOUS
    <2>2. x \in Seq(Byte) /\ Len(x) = IdSize /\ \A i \in 1..IdSize : x[i] = behind[i]
      BY <1>3, <1>6, <2>1
    <2>3. x = id
      BY <1>3, <2>2, SeqEqual
    <2>4. QED
      BY <2>1, <2>3
  <1>9. QED
    BY <1>5, <1>7, <1>8

LowJson == Header(<<"c", "type">>, <<"json">>)
LowCookie(m) == Header(<<"c", "ookie">>, CookieValue(m.cookies))

\* A name of two bytes in lower case.
LEMMA LoweredPair ==
  ASSUME NEW a, NEW b
  PROVE  LoweredName(<<a, b>>) = <<Lower(a), Lower(b)>>
  <1>1. PICK S, s, t, n : /\ S = {Lower(a), Lower(b)} /\ n = <<a, b>>
                          /\ s = LoweredName(n) /\ t = <<Lower(a), Lower(b)>>
    OBVIOUS
  <1>2. n[1] = a /\ n[2] = b /\ DOMAIN n = 1..2
    BY <1>1
  <1>3. s = [i \in 1..2 |-> Lower(n[i])]
    BY <1>1, <1>2 DEF LoweredName
  <1>4. \A i \in 1..2 : i = 1 \/ i = 2
    OBVIOUS
  <1>5. \A i \in 1..2 : Lower(n[i]) \in S
    <2>1. ASSUME NEW i \in 1..2 PROVE Lower(n[i]) \in S
      <3>1. CASE i = 1
        BY <1>1, <1>2, <3>1
      <3>2. CASE i = 2
        BY <1>1, <1>2, <3>2
      <3>3. QED
        BY <1>4, <3>1, <3>2
    <2>2. QED
      BY <2>1
  <1>6. s \in Seq(S) /\ Len(s) = 2 /\ s[1] = Lower(a) /\ s[2] = Lower(b)
    BY <1>2, <1>3, <1>5
  <1>7. t \in Seq(S) /\ Len(t) = 2 /\ t[1] = Lower(a) /\ t[2] = Lower(b)
    BY <1>1
  <1>8. \A i \in 1..2 : s[i] = t[i]
    BY <1>4, <1>6, <1>7
  <1>9. s = t
    BY <1>6, <1>7, <1>8, SeqEqual
  <1>10. QED
    BY <1>1, <1>9

\* What is left of the two headers that the code looks for.
LEMMA LowHeaders ==
  /\ Lowered(JsonHeader) = LowJson
  /\ \A m : Lowered(CookieHeader(m)) = LowCookie(m)
  /\ LowJson.name # <<"c", "ookie">>
  /\ \A m : /\ LowCookie(m).name = <<"c", "ookie">>
            /\ LowCookie(m).value = CookieValue(m.cookies)
            /\ LowCookie(m) # LowJson
  <1>1. /\ LoweredName(<<"C", "type">>) = <<"c", "type">>
        /\ LoweredName(<<"C", "ookie">>) = <<"c", "ookie">>
    BY LoweredPair, LowerAssumption
  <1>2. Lowered(JsonHeader) = LowJson
    BY <1>1, RecordFacts, Zenon DEF Lowered, JsonHeader, LowJson
  <1>3. \A m : Lowered(CookieHeader(m)) = LowCookie(m)
    BY <1>1, RecordFacts, Zenon DEF Lowered, CookieHeader, LowCookie
  <1>4. <<"c", "type">> # <<"c", "ookie">>
    OBVIOUS
  <1>5. LowJson.name = <<"c", "type">>
    BY RecordFacts, Zenon DEF LowJson
  <1>6. ASSUME NEW m
        PROVE  LowCookie(m).name = <<"c", "ookie">> /\ LowCookie(m).value = CookieValue(m.cookies)
    BY RecordFacts, Zenon DEF LowCookie
  <1>7. QED
    BY <1>2, <1>3, <1>4, <1>5, <1>6, Zenon

\* One header or two in lower case.
LEMMA LowTuples ==
  ASSUME NEW hs, NEW a, NEW b
  PROVE  /\ hs = <<>> => LowerAll(hs) = <<>>
         /\ hs = <<a>> => LowerAll(hs) = <<Lowered(a)>>
         /\ hs = <<a, b>> => LowerAll(hs) = <<Lowered(a), Lowered(b)>>
  <1>1. hs = <<>> => LowerAll(hs) = <<>>
    BY DEF LowerAll
  <1>2. CASE hs = <<a>>
    <2>1. PICK x, s, t : x = Lowered(a) /\ s = LowerAll(hs) /\ t = <<x>>
      OBVIOUS
    <2>2. hs[1] = a /\ DOMAIN hs = 1..1
      BY <1>2
    <2>3. s = [i \in 1..1 |-> Lowered(hs[i])]
      BY <2>1, <2>2 DEF LowerAll
    <2>4. s \in Seq({x}) /\ Len(s) = 1 /\ s[1] = x
      BY <2>1, <2>2, <2>3
    <2>5. t \in Seq({x}) /\ Len(t) = 1 /\ t[1] = x
      BY <2>1
    <2>6. s = t
      BY <2>4, <2>5, SeqEqual
    <2>7. <<a>> # <<>> /\ <<a>> # <<a, b>>
      OBVIOUS
    <2>8. QED
      BY <1>2, <2>1, <2>6, <2>7, Zenon
  <1>3. CASE hs = <<a, b>>
    <2>1. PICK S, x, y, s, t : /\ x = Lowered(a) /\ y = Lowered(b) /\ S = {x, y}
                               /\ s = LowerAll(hs) /\ t = <<x, y>>
      OBVIOUS
    <2>2. hs[1] = a /\ hs[2] = b /\ DOMAIN hs = 1..2
      BY <1>3
    <2>3. s = [i \in 1..2 |-> Lowered(hs[i])]
      BY <2>1, <2>2 DEF LowerAll
    <2>4. \A i \in 1..2 : i = 1 \/ i = 2
      OBVIOUS
    <2>5. \A i \in 1..2 : Lowered(hs[i]) \in S
      <3>1. Lowered(hs[1]) \in S /\ Lowered(hs[2]) \in S
        BY <2>1, <2>2
      <3>2. QED
        BY <2>4, <3>1
    <2>6. s \in Seq(S) /\ Len(s) = 2 /\ s[1] = x /\ s[2] = y
      BY <2>1, <2>2, <2>3, <2>5
    <2>7. t \in Seq(S) /\ Len(t) = 2 /\ t[1] = x /\ t[2] = y
      BY <2>1
    <2>8. s = t
      <3>1. \A i \in 1..2 : s[i] = t[i]
        BY <2>4, <2>6, <2>7
      <3>2. QED
        BY <2>6, <2>7, <3>1, SeqEqual
    <2>9. <<a, b>> # <<>> /\ <<a, b>> # <<a>>
      OBVIOUS
    <2>10. QED
      BY <1>3, <2>1, <2>8, <2>9, Zenon
  <1>4. QED
    BY <1>1, <1>2, <1>3, Zenon

\* The headers of a message in lower case.
LEMMA LowCases ==
  ASSUME NEW m, MessageType(m), NEW low, low = LowerAll(HeadersOf(m))
  PROVE  \/ m.cookies = <<>> /\ m.headers = <<>> /\ low = <<>>
         \/ m.cookies = <<>> /\ m.headers = <<JsonHeader>> /\ low = <<LowJson>>
         \/ m.cookies # <<>> /\ m.headers = <<>> /\ low = <<LowCookie(m)>>
         \/ m.cookies # <<>> /\ m.headers = <<JsonHeader>> /\ low = <<LowJson, LowCookie(m)>>
  <1>1. m.headers = <<>> \/ m.headers = <<JsonHeader>>
    BY DEF MessageType
  <1>2. PICK hs : hs = HeadersOf(m)
    OBVIOUS
  <1>3. PICK j, c : j = JsonHeader /\ c = CookieHeader(m)
    OBVIOUS
  <1>4. Lowered(j) = LowJson /\ Lowered(c) = LowCookie(m)
    BY <1>3, LowHeaders, Zenon
  <1>5. /\ hs = <<>> => low = <<>>
        /\ hs = <<j>> => low = <<LowJson>>
        /\ hs = <<c>> => low = <<LowCookie(m)>>
        /\ hs = <<j, c>> => low = <<LowJson, LowCookie(m)>>
    <2>1. low = LowerAll(hs)
      BY <1>2
    <2>2. /\ hs = <<>> => LowerAll(hs) = <<>>
          /\ hs = <<j>> => LowerAll(hs) = <<Lowered(j)>>
          /\ hs = <<c>> => LowerAll(hs) = <<Lowered(c)>>
          /\ hs = <<j, c>> => LowerAll(hs) = <<Lowered(j), Lowered(c)>>
      BY LowTuples
    <2>3. QED
      BY <1>4, <2>1, <2>2
  <1>6. /\ m.cookies = <<>> => hs = m.headers
        /\ m.cookies # <<>> /\ m.headers = <<>> => hs = <<c>>
        /\ m.cookies # <<>> /\ m.headers = <<JsonHeader>> => hs = <<j, c>>
    BY <1>2, <1>3, HeadersCases, Zenon
  <1>7. QED
    BY <1>1, <1>3, <1>5, <1>6, Zenon

\* The least of one number.
LEMMA LeastOfOne ==
  ASSUME NEW n \in Nat
  PROVE  Min({n}) = n
  <1>1. PICK m : m = Min({n})
    OBVIOUS
  <1>2. m \in {n}
    BY <1>1 DEF Min
  <1>3. QED
    BY <1>1, <1>2

\* The session id of a message is looked for in its cookies.
LEMMA SessionIdFacts ==
  ASSUME NEW m, MessageType(m), NEW low, low = LowerAll(HeadersOf(m))
  PROVE  /\ m.cookies = <<>> => SessionId(low) = <<>>
         /\ m.cookies # <<>> => SessionId(low) = SessionIdIn(CookieValue(m.cookies))
  <1>1. PICK j, c, v, name : /\ j = LowJson /\ c = LowCookie(m) /\ v = CookieValue(m.cookies)
                             /\ name = <<"c", "ookie">>
    OBVIOUS
  <1>2. j.name # name /\ c.name = name /\ c.value = v
    BY <1>1, LowHeaders
  <1>3. PICK found : found = {i \in DOMAIN low : low[i].name = name}
    OBVIOUS
  <1>4. /\ found = {} => SessionId(low) = <<>>
        /\ found # {} => SessionId(low) = SessionIdIn(low[Min(found)].value)
    BY <1>1, <1>3, Zenon DEF SessionId
  <1>5. CASE m.cookies = <<>>
    <2>1. low = <<>> \/ low = <<j>>
      BY <1>1, <1>5, LowCases
    <2>2. found = {}
      <3>1. low = <<>> => found = {}
        BY <1>3
      <3>2. low = <<j>> => found = {}
        BY <1>2, <1>3
      <3>3. QED
        BY <2>1, <3>1, <3>2
    <2>3. QED
      BY <1>4, <1>5, <2>2
  <1>6. CASE m.cookies # <<>>
    <2>1. low = <<c>> \/ low = <<j, c>>
      BY <1>1, <1>6, LowCases
    <2>2. CASE low = <<c>>
      <3>1. DOMAIN low = 1..1 /\ low[1] = c
        BY <2>2
      <3>2. found = {1}
        BY <1>2, <1>3, <3>1
      <3>3. Min(found) = 1
        BY <3>2, LeastOfOne
      <3>4. QED
        BY <1>1, <1>2, <1>4, <1>6, <3>1, <3>2, <3>3
    <2>3. CASE low = <<j, c>>
      <3>1. DOMAIN low = 1..2 /\ low[1] = j /\ low[2] = c
        BY <2>3
      <3>2. found = {2}
        BY <1>2, <1>3, <3>1
      <3>3. Min(found) = 2
        BY <3>2, LeastOfOne
      <3>4. QED
        BY <1>1, <1>2, <1>4, <1>6, <3>1, <3>2, <3>3
    <2>4. QED
      BY <2>1, <2>2, <2>3
  <1>7. QED
    BY <1>5, <1>6

\* A body is parsed if the message declares it as JSON.
LEMMA BodyParamsFacts ==
  ASSUME NEW m, MessageType(m), NEW r, r.headers = LowerAll(HeadersOf(m)), r.body = m.body
  PROVE  BodyParams(r) = IF JsonHeader \in Range(m.headers) THEN m.body ELSE <<>>
  <1>1. PICK j, c, low, hs : /\ j = LowJson /\ c = LowCookie(m) /\ low = r.headers
                             /\ hs = m.headers
    OBVIOUS
  <1>2. c # j
    BY <1>1, LowHeaders
  <1>3. j \in Range(low) <=> JsonHeader \in Range(hs)
    <2>1. \/ hs = <<>> /\ (low = <<>> \/ low = <<c>>)
          \/ hs = <<JsonHeader>> /\ (low = <<j>> \/ low = <<j, c>>)
      BY <1>1, LowCases
    <2>2. CASE hs = <<>> /\ (low = <<>> \/ low = <<c>>)
      <3>1. Range(hs) = {}
        BY <2>2 DEF Range
      <3>2. \A i \in DOMAIN low : low[i] = c
        BY <2>2
      <3>3. j \notin Range(low)
        BY <1>2, <3>2 DEF Range
      <3>4. QED
        BY <3>1, <3>3
    <2>3. CASE hs = <<JsonHeader>> /\ (low = <<j>> \/ low = <<j, c>>)
      <3>1. 1 \in DOMAIN hs /\ hs[1] = JsonHeader
        BY <2>3
      <3>2. 1 \in DOMAIN low /\ low[1] = j
        BY <2>3
      <3>3. QED
        BY <3>1, <3>2 DEF Range
    <2>4. QED
      BY <2>1, <2>2, <2>3
  <1>4. BodyParams(r) = IF j \in Range(low) THEN r.body ELSE <<>>
    BY <1>1, Zenon DEF BodyParams, LowJson
  <1>5. QED
    BY <1>1, <1>3, <1>4

------------------------------------------------------------------------------
(* The inductive invariant.                                                *)

\* The request that a message is, and the history's record of a request.
Whole(m) == Request(<<>>, m.uri, LowerAll(HeadersOf(m)), m.body)
Record(r) ==
  [uri |-> r.uri, headers |-> r.headers, body |-> r.body, body_params |-> BodyParams(r)]

\* The client sends what a holder of its session id sends.
ClientInv ==
  /\ jar \in IdOrNone
  /\ stage \in {"none", "reading", "writing", "dead"}
  /\ (stage = "none" /\ handled = {}) \/ Sent(jar, message)

\* A request that is read is what the callbacks made of the bytes so far.
ReadInv ==
  stage = "reading" =>
    /\ handled = {}
    /\ pos \in 0..Len(Stream(message))
    /\ req = After(NewRequest, Stream(message))[pos]

\* A request is handled when all of it was read, or as an empty one.
HandledInv ==
  \A h \in handled :
    /\ h = Record(req)
    /\ req = Whole(message) \/ (message.blank /\ pos = 1 /\ req = NewRequest)
    /\ asked = IF req.uri \in {LOGOUT, USER} THEN SessionId(req.headers) ELSE <<>>

ExchangeInv == ClientInv /\ ReadInv /\ HandledInv /\ ResponseInv

\* The inductive invariant holds at the start.
LEMMA ExchangeInit == Init => ExchangeInv
  <1>1. SUFFICES ASSUME Init PROVE ExchangeInv
    OBVIOUS
  <1>2. jar = <<>> /\ stage = "none" /\ handled = {}
    BY <1>1, Zenon DEF Init
  <1>3. ClientInv
    BY <1>2, IdFacts DEF ClientInv
  <1>4. ReadInv /\ ResponseInv
    BY <1>2 DEF ReadInv, ResponseInv
  <1>5. HandledInv
    BY <1>2 DEF HandledInv
  <1>6. QED
    BY <1>3, <1>4, <1>5 DEF ExchangeInv

\* A new connection preserves the invariant.
LEMMA ConnectStep == ExchangeInv /\ Connect => ExchangeInv'
  <1>1. SUFFICES ASSUME ExchangeInv, Connect PROVE ExchangeInv'
    OBVIOUS
  <1>2. ClientInv'
    <2>1. jar \in IdOrNone /\ message' \in Messages /\ jar' = jar /\ stage' = "reading"
      BY <1>1 DEF ExchangeInv, ClientInv, Connect
    <2>2. Sent(jar, message')
      BY <2>1, MessagesSent
    <2>3. QED
      BY <2>1, <2>2 DEF ClientInv
  <1>3. ReadInv'
    <2>1. Sent(jar, message')
      BY <1>1, MessagesSent DEF ExchangeInv, ClientInv, Connect
    <2>2. Stream(message') \in Seq(Items(Byte))
      BY <2>1, FinalStream DEF Sent
    <2>3. Len(Stream(message')) \in Nat
      BY <2>2
    <2>4. After(NewRequest, Stream(message'))[0] = NewRequest
      BY <2>3, AfterFacts
    <2>5. handled' = {} /\ pos' = 0 /\ req' = NewRequest
      BY <1>1 DEF Connect
    <2>6. QED
      BY <2>3, <2>4, <2>5 DEF ReadInv
  <1>4. HandledInv' /\ ResponseInv'
    BY <1>1 DEF Connect, HandledInv, ResponseInv
  <1>5. QED
    BY <1>2, <1>3, <1>4 DEF ExchangeInv

\* A connection that ends, with the server or without it, preserves the
\* invariant.
LEMMA BreakStep == ExchangeInv /\ (Break \/ Restart) => ExchangeInv'
  <1>1. SUFFICES ASSUME ExchangeInv, Break \/ Restart PROVE ExchangeInv'
    OBVIOUS
  <1>2. /\ stage # "none" /\ stage' = "none" /\ jar' = jar /\ message' = message
        /\ pos' = pos /\ req' = req /\ asked' = asked /\ handled' = handled
    BY <1>1 DEF Break, Restart
  <1>3. ClientInv'
    BY <1>1, <1>2 DEF ExchangeInv, ClientInv
  <1>4. ReadInv' /\ ResponseInv'
    BY <1>2 DEF ReadInv, ResponseInv
  <1>5. HandledInv'
    BY <1>1, <1>2 DEF ExchangeInv, HandledInv
  <1>6. QED
    BY <1>3, <1>4, <1>5 DEF ExchangeInv

\* A response that is written preserves the invariant: a client keeps an id
\* only from an answer to a login, and nothing but an id that was issued.
LEMMA WriteStep == ExchangeInv /\ Write => ExchangeInv'
  <1>1. SUFFICES ASSUME ExchangeInv, Write PROVE ExchangeInv'
    OBVIOUS
  <1>2. /\ stage = "writing" /\ stage' = "none" /\ message' = message
        /\ pos' = pos /\ req' = req /\ asked' = asked /\ handled' = handled
    BY <1>1 DEF Write
  <1>3. jar \in IdOrNone /\ Sent(jar, message)
    BY <1>1, <1>2 DEF ExchangeInv, ClientInv
  <1>4. jar' \in IF Kept(res) = {} THEN {jar} ELSE Kept(res)
    BY <1>1, Zenon DEF Write
  <1>5. Plain(res) \/ (Cookie(res) /\ message.uri = LOGIN)
    BY <1>1, <1>2 DEF ExchangeInv, ResponseInv
  <1>6. Kept(res) \subseteq IdOrNone /\ (Plain(res) => Kept(res) = {})
    BY <1>5, KeptFacts
  <1>7. ClientInv'
    <2>1. jar' \in IdOrNone
      BY <1>3, <1>4, <1>6
    <2>2. CASE jar' = jar
      BY <1>2, <1>3, <2>1, <2>2 DEF ClientInv
    <2>3. CASE jar' # jar
      <3>1. ~Plain(res)
        BY <1>4, <1>6, <2>3
      <3>2. message.uri = LOGIN
        BY <1>5, <3>1
      <3>3. Sent(jar', message')
        BY <1>2, <1>3, <3>2 DEF Sent
      <3>4. QED
        BY <1>2, <2>1, <3>3 DEF ClientInv
    <2>4. QED
      BY <2>2, <2>3
  <1>8. ReadInv' /\ ResponseInv'
    BY <1>2 DEF ReadInv, ResponseInv
  <1>9. HandledInv'
    BY <1>1, <1>2 DEF ExchangeInv, HandledInv
  <1>10. QED
    BY <1>7, <1>8, <1>9 DEF ExchangeInv

\* A read preserves the invariant: the callbacks go on where the last read ended,
\* and a request is handled after the last byte or after a blank line.
LEMMA ReadStep == ASSUME NEW n \in 1..Len(Stream(message)) PROVE ExchangeInv /\ Read(n) => ExchangeInv'
  <1>1. SUFFICES ASSUME ExchangeInv, Read(n) PROVE ExchangeInv'
    OBVIOUS
  <1> DEFINE items == SubSeq(Stream(message), pos + 1, pos + n)
             r == After(req, items)[Len(items)]
             id == IF r.uri \in {LOGOUT, USER} THEN SessionId(r.headers) ELSE <<>>
  <1>2. PICK s, p : s = Stream(message) /\ p = pos + n
    OBVIOUS
  <1>3. /\ stage = "reading" /\ p <= Len(s) /\ pos' = p /\ jar' = jar /\ message' = message
    BY <1>1, <1>2 DEF Read
  <1>4. jar \in IdOrNone /\ Sent(jar, message) /\ MessageType(message)
    BY <1>1, <1>3 DEF ExchangeInv, ClientInv, Sent
  <1>5. /\ handled = {} /\ pos \in 0..Len(s) /\ req = After(NewRequest, s)[pos]
    BY <1>1, <1>2, <1>3 DEF ExchangeInv, ReadInv
  <1>6. s \in Seq(Items(Byte)) /\ Final(NewRequest, s) = Whole(message)
    BY <1>2, <1>4, FinalStream DEF Whole
  <1>7. p \in 1..Len(s) /\ pos' \in 0..Len(s)
    <2>1. n \in Nat /\ n > 0 /\ pos \in Nat /\ Len(s) \in Nat
      BY <1>5, <1>6
    <2>2. QED
      BY <1>2, <1>3, <2>1
  <1>8. r = After(NewRequest, s)[p]
    <2>1. PICK t : t = items
      OBVIOUS
    <2>2. /\ t \in Seq(Items(Byte)) /\ Len(t) = n
          /\ \A i \in 1..n : s[pos + i] = t[i]
      BY <1>2, <1>3, <1>5, <1>6, <2>1
    <2>3. n \in Nat /\ pos \in Nat /\ pos + n <= Len(s) /\ n <= Len(t) /\ Len(s) \in Nat /\ Len(t) \in Nat
      BY <1>2, <1>3, <1>5, <1>6, <2>2
    <2>4. After(NewRequest, s)[pos] = req
      BY <1>5
    <2>5. After(NewRequest, s)[pos + n] = After(req, t)[n]
      <3>1. PICK k, m : k = pos /\ m = n
        OBVIOUS
      <3>2. k \in Nat /\ m \in Nat /\ k + m <= Len(s) /\ m <= Len(t) /\ Len(s) \in Nat /\ Len(t) \in Nat
        BY <2>3, <3>1
      <3>3. After(NewRequest, s)[k] = req /\ \A i \in 1..m : s[k + i] = t[i]
        BY <2>2, <2>4, <3>1
      <3>4. After(NewRequest, s)[k + m] = After(req, t)[m]
        BY <3>2, <3>3, AfterAgrees
      <3>5. QED
        BY <3>1, <3>4
    <2>6. QED
      BY <1>2, <2>1, <2>2, <2>5
  <1>9. \/ /\ res' \in StockResponse("bad_request") /\ stage' \in {"writing", "dead"}
           /\ req' = req /\ asked' = asked /\ handled' = handled
        \/ /\ Finish(message, pos + n) = 0 /\ req' = r /\ handled' = {Record(r)} /\ asked' = id
           /\ res' \in Responses(r, id) /\ stage' \in {"writing", "dead"}
        \/ /\ req' = r /\ stage' = stage /\ asked' = asked /\ res' = res /\ handled' = handled
    BY <1>1 DEF Read, Record, AfterResponse
  <1> HIDE DEF items, r, id
  <1>10. ClientInv'
    <2>1. stage' \in {"reading", "writing", "dead"}
      BY <1>3, <1>9
    <2>2. QED
      BY <1>3, <1>4, <2>1 DEF ClientInv
  <1>11. CASE /\ res' \in StockResponse("bad_request") /\ stage' \in {"writing", "dead"}
              /\ req' = req /\ asked' = asked /\ handled' = handled
    <2>1. HandledInv' /\ ReadInv'
      BY <1>5, <1>11 DEF HandledInv, ReadInv
    <2>2. ResponseInv'
      <3>1. Plain(res')
        BY <1>11, ResponseShapes
      <3>2. QED
        BY <3>1 DEF ResponseInv, Plain
    <2>3. QED
      BY <1>10, <2>1, <2>2 DEF ExchangeInv
  <1>12. CASE /\ Finish(message, pos + n) = 0 /\ req' = r /\ handled' = {Record(r)} /\ asked' = id
              /\ res' \in Responses(r, id) /\ stage' \in {"writing", "dead"}
    <2>1. r = Whole(message) \/ (message.blank /\ p = 1 /\ r = NewRequest)
      <3>1. Finish(message, p) = 0
        BY <1>2, <1>12
      <3>2. p = Len(s) \/ (message.blank /\ p = 1 /\ After(NewRequest, s)[1] = NewRequest)
        BY <1>2, <1>4, <1>7, <3>1, FinishFacts
      <3>3. p = Len(s) => r = Whole(message)
        BY <1>6, <1>8 DEF Final
      <3>4. QED
        BY <1>8, <3>2, <3>3
    <2>2. HandledInv'
      BY <1>3, <1>12, <2>1 DEF HandledInv, id
    <2>3. ReadInv'
      BY <1>12 DEF ReadInv
    <2>4. ResponseInv'
      <3>1. Plain(res') \/ (Cookie(res') /\ r.uri = LOGIN)
        BY <1>12, ResponseShapes
      <3>2. r.uri = LOGIN => message.uri = LOGIN
        <4>1. r = Whole(message) => r.uri = message.uri
          BY RequestFacts DEF Whole
        <4>2. r = NewRequest => r.uri = <<>>
          BY RequestFacts
        <4>3. LOGIN # <<>>
          BY UriFacts
        <4>4. QED
          BY <2>1, <4>1, <4>2, <4>3
      <3>3. QED
        BY <1>3, <3>1, <3>2, Zenon DEF ResponseInv, Plain, Cookie
    <2>5. QED
      BY <1>10, <2>2, <2>3, <2>4 DEF ExchangeInv
  <1>13. CASE req' = r /\ stage' = stage /\ asked' = asked /\ res' = res /\ handled' = handled
    <2>1. HandledInv'
      BY <1>5, <1>13 DEF HandledInv
    <2>2. ReadInv'
      BY <1>2, <1>3, <1>5, <1>7, <1>8, <1>13 DEF ReadInv
    <2>3. ResponseInv'
      BY <1>3, <1>13 DEF ResponseInv
    <2>4. QED
      BY <1>10, <2>1, <2>2, <2>3 DEF ExchangeInv
  <1>14. QED
    BY <1>9, <1>11, <1>12, <1>13

\* ExchangeInv is an invariant of the exchange.
THEOREM ExchangeInvariant == Spec => []ExchangeInv
  <1>1. Init => ExchangeInv
    BY ExchangeInit
  <1>2. ExchangeInv /\ [Next]_vars => ExchangeInv'
    <2>1. CASE Connect
      BY <2>1, ConnectStep
    <2>2. ASSUME NEW n \in 1..Len(Stream(message)), Read(n)
          PROVE  ExchangeInv => ExchangeInv'
      BY <2>2, ReadStep
    <2>3. CASE Write
      BY <2>3, WriteStep
    <2>4. CASE Break \/ Restart
      BY <2>4, BreakStep
    <2>5. CASE UNCHANGED vars
      <3>1. /\ jar' = jar /\ message' = message /\ pos' = pos /\ stage' = stage
            /\ req' = req /\ asked' = asked /\ res' = res /\ handled' = handled
        BY <2>5 DEF vars
      <3>2. ClientInv => ClientInv'
        BY <3>1 DEF ClientInv
      <3>3. ReadInv => ReadInv'
        BY <3>1 DEF ReadInv
      <3>4. HandledInv => HandledInv'
        BY <3>1 DEF HandledInv
      <3>5. ResponseInv => ResponseInv'
        BY <3>1 DEF ResponseInv, Plain, Cookie
      <3>6. QED
        BY <3>2, <3>3, <3>4, <3>5 DEF ExchangeInv
    <2>6. QED
      BY <2>1, <2>2, <2>3, <2>4, <2>5 DEF Next
  <1>3. QED
    BY <1>1, <1>2, PTL DEF Spec

\* The invariant says that the id a client keeps was issued.
LEMMA KeptFromInv == ExchangeInv => KeptIsIssued
  BY DEF ExchangeInv, ClientInv, KeptIsIssued, IdOrNone

\* A whole request has the fields of the message that HandledIsSent names.
LEMMA HandledFromInv == ExchangeInv => HandledIsSent
  <1>1. SUFFICES ASSUME ExchangeInv, NEW h \in handled
                 PROVE  \/ h = [uri |-> message.uri, headers |-> LowerAll(HeadersOf(message)),
                                body |-> message.body,
                                body_params |-> IF JsonHeader \in Range(message.headers)
                                                  THEN message.body ELSE <<>>]
                        \/ /\ message.blank /\ pos = 1
                           /\ h = [uri |-> <<>>, headers |-> <<>>, body |-> <<>>, body_params |-> <<>>]
    BY DEF HandledIsSent, LowerAll
  <1>2. h = Record(req) /\ (req = Whole(message) \/ (message.blank /\ pos = 1 /\ req = NewRequest))
    BY <1>1 DEF ExchangeInv, HandledInv
  <1>3. MessageType(message)
    BY <1>1 DEF ExchangeInv, ClientInv, Sent
  <1>4. CASE req = Whole(message)
    <2>1. /\ req.uri = message.uri /\ req.headers = LowerAll(HeadersOf(message))
          /\ req.body = message.body
      BY <1>4, RequestFacts DEF Whole
    <2>2. BodyParams(req) = IF JsonHeader \in Range(message.headers) THEN message.body ELSE <<>>
      BY <1>3, <2>1, BodyParamsFacts
    <2>3. QED
      BY <1>2, <2>1, <2>2 DEF Record
  <1>5. CASE message.blank /\ pos = 1 /\ req = NewRequest
    <2>1. req.uri = <<>> /\ req.headers = <<>> /\ req.body = <<>>
      BY <1>5, RequestFacts
    <2>2. BodyParams(req) = <<>>
      BY <2>1 DEF BodyParams
    <2>3. QED
      BY <1>2, <1>5, <2>1, <2>2 DEF Record
  <1>6. QED
    BY <1>2, <1>4, <1>5

\* The scan of the cookies of a whole request reads what SessionReadBack says.
LEMMA SessionFromInv == ExchangeInv => SessionReadBack
  <1>1. SUFFICES ASSUME ExchangeInv, handled # {}, message.uri \in {LOGOUT, USER}, req.uri # <<>>,
                        NEW v, v = CookieValue(message.cookies)
                 PROVE  /\ jar # <<>> => asked = Uuid(Behind(v))
                        /\ jar # <<>> /\ message.cookies[1] = SessionPair(jar) => asked = jar
                        /\ asked # <<>> => /\ Occurs(SESSION_COOKIE_NAME, v)
                                           /\ asked = Uuid(Behind(v))
    BY DEF SessionReadBack, Behind
  <1>2. PICK h \in handled : TRUE
    BY <1>1
  <1>3. /\ req = Whole(message) \/ req = NewRequest
        /\ asked = IF req.uri \in {LOGOUT, USER} THEN SessionId(req.headers) ELSE <<>>
    BY <1>1, <1>2 DEF ExchangeInv, HandledInv
  <1>4. NewRequest.uri = <<>>
    BY RequestFacts
  <1>5. req.uri = message.uri /\ req.headers = LowerAll(HeadersOf(message))
    BY <1>1, <1>3, <1>4, RequestFacts DEF Whole
  <1>6. asked = SessionId(LowerAll(HeadersOf(message)))
    BY <1>1, <1>3, <1>5
  <1>7. jar \in IdOrNone /\ Sent(jar, message)
    BY <1>1, <1>2 DEF ExchangeInv, ClientInv
  <1>8. message.uri # LOGIN
    BY <1>1, UriFacts
  <1>9. /\ MessageType(message)
        /\ jar # <<>> =>
             /\ message.cookies # <<>>
             /\ \/ message.cookies[1] = SessionPair(jar)
                \/ message.cookies[Len(message.cookies)] = SessionPair(jar)
    BY <1>7, <1>8 DEF Sent
  <1>10. /\ message.cookies = <<>> => asked = <<>>
         /\ message.cookies # <<>> => asked = SessionIdIn(v)
    BY <1>1, <1>6, <1>9, SessionIdFacts
  <1>11. message.cookies \in Seq(Seq(Byte))
    BY <1>9 DEF MessageType
  <1>12. ASSUME asked # <<>>
         PROVE  Occurs(SESSION_COOKIE_NAME, v) /\ asked = Uuid(Behind(v))
    <2>1. asked = SessionIdIn(v) /\ v \in Seq(Byte)
      BY <1>1, <1>10, <1>11, <1>12, CookieValueFacts
    <2>2. QED
      BY <1>12, <2>1, SessionIdRead
  <1>13. ASSUME jar # <<>>, message.cookies[1] = SessionPair(jar)
         PROVE  asked = Uuid(Behind(v)) /\ asked = jar
    <2>1. \E rest \in Seq(Byte) : v = message.cookies[1] \o rest
      BY <1>1, <1>9, <1>11, <1>13, CookieValueFacts
    <2>2. PICK rest \in Seq(Byte) : v = SessionPair(jar) \o rest
      BY <1>13, <2>1
    <2>3. jar \in Seq(Byte) /\ Len(jar) = IdSize
      BY <1>7, <1>13, IdAssumption DEF IdOrNone
    <2>4. SessionPair(jar) \in Seq(Byte)
      BY <2>3, SpeltFacts, ConcatProperties DEF SessionPair
    <2>5. PICK t, e : t = SessionPair(jar) \o rest /\ e = <<>>
      OBVIOUS
    <2>6. t \in Seq(Byte) /\ e \in Seq(Byte)
      BY <2>2, <2>4, <2>5, ConcatProperties
    <2>7. v = e \o (SessionPair(jar) \o rest)
      BY <2>2, <2>5, <2>6, ConcatEmptySeq
    <2>8. SessionIdIn(v) = Uuid(Behind(v))
      <3>1. e = <<>> \/ (Len(e) > 0 /\ e[Len(e)] = Blank)
        BY <2>5
      <3>2. e \in Seq(Byte) /\ jar \in Seq(Byte) /\ rest \in Seq(Byte)
        BY <2>2, <2>3, <2>6
      <3>3. QED
        BY <2>7, <3>1, <3>2, SessionIsFound
    <2>9. Uuid(Behind(v)) = jar
      BY <2>2, <2>3, SessionIsFirst
    <2>10. QED
      BY <1>9, <1>10, <1>13, <2>8, <2>9
  <1>14. ASSUME jar # <<>>, message.cookies[Len(message.cookies)] = SessionPair(jar)
         PROVE  asked = Uuid(Behind(v))
    <2>1. \E w \in Seq(Byte) : /\ v = w \o message.cookies[Len(message.cookies)]
                               /\ w = <<>> \/ (Len(w) > 0 /\ w[Len(w)] = Blank)
      BY <1>1, <1>9, <1>11, <1>14, CookieValueLast
    <2>2. PICK w \in Seq(Byte) : /\ v = w \o SessionPair(jar)
                                 /\ w = <<>> \/ (Len(w) > 0 /\ w[Len(w)] = Blank)
      BY <1>14, <2>1
    <2>3. jar \in Seq(Byte)
      BY <1>7, IdFacts
    <2>4. SessionPair(jar) \in Seq(Byte)
      BY <2>3, SpeltFacts, ConcatProperties DEF SessionPair
    <2>5. PICK e : e = <<>>
      OBVIOUS
    <2>6. SessionPair(jar) \o e = SessionPair(jar) /\ e \in Seq(Byte)
      BY <2>4, <2>5, ConcatEmptySeq
    <2>7. v = w \o (SessionPair(jar) \o e)
      BY <2>2, <2>6
    <2>8. SessionIdIn(v) = Uuid(Behind(v))
      <3>1. w = <<>> \/ (Len(w) > 0 /\ w[Len(w)] = Blank)
        BY <2>2
      <3>2. w \in Seq(Byte) /\ jar \in Seq(Byte) /\ e \in Seq(Byte)
        BY <2>2, <2>3, <2>6
      <3>3. QED
        BY <2>7, <3>1, <3>2, SessionIsFound
    <2>9. QED
      BY <1>9, <1>10, <1>14, <2>8
  <1>15. QED
    BY <1>9, <1>12, <1>13, <1>14

\* Whatever the cuts of TCP, handle_request gets the whole message and nothing
\* else, or an empty request for a blank line that is read by itself.
THEOREM RequestsAreWhole == Spec => []HandledIsSent
  BY ExchangeInvariant, HandledFromInv, PTL

\* The scan finds the session's cookie wherever a client sends it, among whatever
\* others, and reads the bytes at the fixed place: the id that the client keeps
\* if that cookie comes first, and nothing if its name occurs nowhere.
THEOREM SessionComesBack == Spec => []SessionReadBack
  BY ExchangeInvariant, SessionFromInv, PTL

\* A client keeps an id that the service issued, whatever part of post_login's
\* cookie found no memory.
THEOREM KeepsIssuedId == Spec => []KeptIsIssued
  BY ExchangeInvariant, KeptFromInv, PTL
===============================================================================
