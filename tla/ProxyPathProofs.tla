-------------------------- MODULE ProxyPathProofs --------------------------
(***************************************************************************)
(* Theorems about ProxyPath, for paths of any length, headers of any       *)
(* length and any budgets, with peers that answer anything.                *)
(***************************************************************************)
EXTENDS ProxyPath, TLAPS, SequenceTheorems

-----------------------------------------------------------------------------
(* The inductive invariant.                                                *)

(* What messages are made of.                                              *)
Token ==
  {"socks", "auth", "other", "none", "userpass", "unacceptable", "ok", "refused",
   "succeeded", "unreachable", "failure", "ipv4", "domain", "unknown", "length",
   "address", "port", "2xx", "5xx", "malformed", "header", "blank", "early", "greeting"}

Steps == Writing \union Reading \union {"dial", "listen", "hello", "done"}
Speaking == Writing \union Reading

Scalars ==
  /\ path \in Seq(Hop) /\ Len(path) <= MaxHops
  /\ options \in [banner : BOOLEAN, tls : BOOLEAN]
  /\ step \in Steps
  /\ at \in Nat /\ peer \in Nat /\ spent \in Nat
  /\ wire \in Seq(Token) /\ got \in Seq(Token) /\ heard \in Seq(Token)

(* Where the probe is on its path, and that the party at the other end is  *)
(* the hop it believes it is speaking to whenever it says something.       *)
Standing ==
  /\ at \in 1 .. Destination /\ peer \in 0 .. Destination
  /\ step \in Speaking => at <= Len(path)
  /\ step \in {"request", "answer"} => at = Len(path)
  /\ step \in {"extend", "extended"} => at < Len(path)
  /\ step \in {"greet", "selection", "credentials", "status"} => path[at].kind = "socks5"
  /\ step \in Writing \union {"selection", "status"} => peer = at
  /\ step \in {"listen", "hello"} => peer = Destination
  /\ step = "dial" => at = 1 /\ peer = 0 /\ wire = << >>

(* What has been read and what has not are together what was sent, behind  *)
(* at most one byte that came early.  A hop that is greeted in SOCKS5      *)
(* takes that byte for its answer, so no later answer has it; one that     *)
(* speaks HTTP takes it for a status line that is none.                    *)
Early == <<"early">>

FromReply(replies, nexts) ==
  \E reply \in replies : \E next \in nexts :
    /\ got \o wire = reply \o next
    /\ IF OpensTunnel(reply) THEN peer = at + 1 ELSE next = << >>
    /\ step = "answer" => answer = reply[1]

Nexts == IF step = "answer" THEN Greetings ELSE {<< >>, Early}

Stream ==
  /\ step \in Writing =>
       \/ wire = << >>
       \/ wire = Early /\ (step = "greet" \/ path[at].kind = "http")
  /\ step = "selection" =>
       \E selection \in Selections :
          got \o wire = selection \/ got \o wire = Early \o selection
  /\ step = "status" => got \o wire \in Statuses
  /\ Socks => FromReply(SocksReplies, Nexts)
  /\ Http => (got \o wire)[1] = "early" \/ FromReply(HttpReplies, Nexts)
  /\ step = "listen" => wire \in Greetings

(* No reader takes more than the message it awaits.                        *)
Progress ==
  /\ step \in {"selection", "status"} => Len(got) <= 2
  /\ Socks => /\ Len(got) <= SocksPartEnd(got)
              /\ Len(got) > 2 => got[2] # "unknown"
  /\ Http => /\ Len(got) <= MaxHeader
             /\ \A k \in 1 .. (Len(got) - 1) : got[k] # "blank"
             /\ Len(got) > 1 => got[1] \in {"2xx", "5xx", "malformed"}

(* The clocks.                                                             *)
Clocks ==
  /\ step \in {"selection", "credentials"} => spent < 2 * HandshakeBudget
  /\ step = "status" => spent < 3 * HandshakeBudget
  /\ step \in {"extended", "answer"} => spent < 2 * ConnectBudget
  /\ step \in {"listen", "hello"} =>
       outcome.reason \notin Handshaking /\ (outcome.reason \in Connecting => spent < 2 * ConnectBudget)

(* The verdict is given once, at the end or for an open port.              *)
Undecided ==
  /\ step \in Speaking \union {"dial"} => outcome = NoVerdict
  /\ step \in {"listen", "hello"} =>
       outcome.state = "open" /\ outcome.source # "timeout" /\ outcome.pressure = "none"
  /\ step = "done" => outcome # NoVerdict
  /\ outcome.state \in {"none", "open", "closed", "filtered", "error"}
  /\ outcome.source \in {"none", "local_stack", "proxy_reply", "timeout", "internal"}

PInv ==
  /\ Scalars
  /\ Standing
  /\ Stream
  /\ Progress
  /\ Clocks
  /\ Undecided
  /\ VerdictIsAboutTheDestination
  /\ OnlySilenceIsRetried
  /\ ExchangeIsBounded
  /\ GreetingIsTheDestinations
  /\ EveryoneHearsTheirOwn

-----------------------------------------------------------------------------
(* Messages and prefixes.                                                  *)

Begins(s, t) == Len(s) <= Len(t) /\ \A k \in 1 .. Len(s) : s[k] = t[k]

LEMMA ConcatBegins ==
  ASSUME NEW E, NEW s \in Seq(E), NEW t \in Seq(E)
  PROVE  Begins(s, s \o t)
  BY DEF Begins

LEMMA BeginsConcat ==
  ASSUME NEW E, NEW s \in Seq(E), NEW t \in Seq(E), NEW u \in Seq(E),
         Begins(s, t \o u), Len(s) <= Len(t)
  PROVE  Begins(s, t)
  <1>1. ASSUME NEW k \in 1 .. Len(s) PROVE s[k] = t[k]
    <2>1. k \in 1 .. Len(t) /\ s[k] = (t \o u)[k]
      BY DEF Begins
    <2> QED BY <2>1
  <1> QED BY <1>1 DEF Begins

LEMMA ConcatTail ==
  ASSUME NEW E, NEW s \in Seq(E), NEW t \in Seq(E), NEW k \in 1 .. Len(t)
  PROVE  (s \o t)[Len(s) + k] = t[k]
  OBVIOUS

LEMMA OneThenTwo ==
  ASSUME NEW E, NEW s \in Seq(E), NEW t \in Seq(E), Len(s) = 1, Len(t) = 2
  PROVE  /\ Len(s \o t) = 3
         /\ (s \o t)[1] = s[1] /\ (s \o t)[2] = t[1] /\ (s \o t)[3] = t[2]
  <1> DEFINE c == s \o t
  <1>1. Len(c) = Len(s) + Len(t)
    BY ConcatProperties, Zenon
  <1>2. \A k \in 1 .. Len(s) + Len(t) : c[k] = IF k <= Len(s) THEN s[k] ELSE t[k - Len(s)]
    BY ConcatProperties, Zenon
  <1> HIDE DEF c
  <1>3. \A k \in 1 .. 3 : c[k] = IF k <= 1 THEN s[k] ELSE t[k - 1]
    BY <1>2
  <1>4. Len(c) = 3
    BY <1>1
  <1>5. c[1] = s[1] /\ c[2] = t[1]
    BY <1>3
  <1>6. c[3] = t[2]
    BY <1>3
  <1> QED BY <1>4, <1>5, <1>6 DEF c

LEMMA RestIsRest ==
  ASSUME NEW E, NEW s \in Seq(E), NEW t \in Seq(E), NEW u \in Seq(E), NEW v \in Seq(E),
         s \o t = u \o v, Len(s) = Len(u)
  PROVE  t = v
  <1>1. Len(s \o t) = Len(s) + Len(t) /\ Len(u \o v) = Len(u) + Len(v)
    OBVIOUS
  <1>2. Len(t) = Len(v)
    BY <1>1
  <1>3. ASSUME NEW k \in 1 .. Len(t) PROVE t[k] = v[k]
    <2>1. (s \o t)[Len(s) + k] = t[k]
      BY ConcatTail
    <2>2. (u \o v)[Len(u) + k] = v[k]
      BY <1>2, ConcatTail
    <2> QED BY <2>1, <2>2
  <1> QED BY <1>2, <1>3, SeqEqual

LEMMA CutStays ==
  ASSUME NEW E, NEW s \in Seq(E), NEW t \in Seq(E), NEW n \in 0 .. Len(t)
  PROVE  /\ s \o SubSeq(t, 1, n) \in Seq(E)
         /\ SubSeq(t, n + 1, Len(t)) \in Seq(E)
         /\ Len(s \o SubSeq(t, 1, n)) = Len(s) + n
         /\ Begins(s, s \o SubSeq(t, 1, n))
         /\ (s \o SubSeq(t, 1, n)) \o SubSeq(t, n + 1, Len(t)) = s \o t
  <1> DEFINE p == SubSeq(t, 1, n)
             q == SubSeq(t, n + 1, Len(t))
  <1>1. p \in Seq(E) /\ q \in Seq(E) /\ Len(p) = n
    OBVIOUS
  <1>2. p \o q = t
    <2>1. p \o q = SubSeq(t, 1, Len(t))
      <3>1. 1 \in 1 .. (Len(t) + 1) /\ n \in (1 - 1) .. Len(t) /\ Len(t) \in n .. Len(t)
        OBVIOUS
      <3> QED BY <3>1, ConcatAdjacentSubSeq
    <2> QED BY <2>1, SubSeqFull
  <1> HIDE DEF p, q
  <1>3. (s \o p) \o q = s \o (p \o q)
    <2>1. \A x, y, z \in Seq(E) : (x \o y) \o z = x \o (y \o z)
      BY ConcatAssociative
    <2> QED BY <1>1, <2>1
  <1>4. s \o p \in Seq(E) /\ Len(s \o p) = Len(s) + n /\ Begins(s, s \o p)
    BY <1>1, ConcatProperties, ConcatBegins
  <1> QED BY <1>1, <1>2, <1>3, <1>4 DEF p, q

LEMMA Tuples ==
  /\ \A S : \A a \in S : <<a>> \in Seq(S)
  /\ \A S : \A a, b \in S : <<a, b>> \in Seq(S)
  /\ \A S : \A a, b, c \in S : <<a, b, c>> \in Seq(S)
  /\ \A S : \A a, b, c, d \in S : <<a, b, c, d>> \in Seq(S)
  /\ \A S : \A a, b, c, d, e \in S : <<a, b, c, d, e>> \in Seq(S)
  OBVIOUS

LEMMA Tokens ==
  /\ "socks" \in Token /\ "auth" \in Token /\ "other" \in Token /\ "none" \in Token
  /\ "userpass" \in Token /\ "unacceptable" \in Token /\ "ok" \in Token
  /\ "refused" \in Token /\ "succeeded" \in Token /\ "unreachable" \in Token
  /\ "failure" \in Token /\ "ipv4" \in Token /\ "domain" \in Token
  /\ "unknown" \in Token /\ "length" \in Token /\ "address" \in Token
  /\ "port" \in Token /\ "2xx" \in Token /\ "5xx" \in Token
  /\ "malformed" \in Token /\ "header" \in Token /\ "blank" \in Token
  /\ "early" \in Token /\ "greeting" \in Token
  BY DEF Token

(* What a SOCKS5 hop answers: its length is told by its second token.      *)
LEMMA SocksReplyShape ==
  ASSUME NEW reply \in SocksReplies
  PROVE  /\ reply \in Seq(Token) /\ Len(reply) >= 2
         /\ \/ reply[2] = "ipv4" /\ Len(reply) = 4
            \/ reply[2] = "domain" /\ Len(reply) = 5
            \/ reply[2] = "unknown" /\ Len(reply) = 2
         /\ \A k \in 1 .. Len(reply) : reply[k] # "greeting" /\ reply[k] # "early"
         /\ reply[1] # "2xx" /\ (reply[1] = "other" => Len(reply) > 2)
  <1>1. CASE \E code \in {"succeeded", "refused", "unreachable", "failure", "other"} :
               reply = <<code, "ipv4", "address", "port">>
    <2>1. PICK code \in {"succeeded", "refused", "unreachable", "failure", "other"} :
            reply = <<code, "ipv4", "address", "port">>
      BY <1>1
    <2>2. code \in Token
      BY DEF Token
    <2>3. reply \in Seq(Token)
      BY <2>1, <2>2, Tuples, Tokens, Zenon
    <2> QED BY <2>1, <2>3
  <1>2. CASE \E code \in {"succeeded", "refused"} :
               reply = <<code, "domain", "length", "address", "port">>
    <2>1. PICK code \in {"succeeded", "refused"} :
            reply = <<code, "domain", "length", "address", "port">>
      BY <1>2
    <2>2. code \in Token
      BY DEF Token
    <2>3. reply \in Seq(Token)
      BY <2>1, <2>2, Tuples, Tokens, Zenon
    <2> QED BY <2>1, <2>3
  <1>3. CASE reply = <<"succeeded", "unknown">>
    <2>1. reply \in Seq(Token)
      BY <1>3, Tuples, Tokens, Zenon
    <2> QED BY <1>3, <2>1
  <1> QED BY <1>1, <1>2, <1>3 DEF SocksReplies

(* What an HTTP hop answers: a blank line only at its end, and none within *)
(* the bound if the header does not end.                                   *)
LEMMA HttpReplyShape ==
  ASSUME NEW reply \in HttpReplies
  PROVE  /\ reply \in Seq(Token) /\ Len(reply) >= 1
         /\ \A k \in 1 .. Len(reply) :
              /\ reply[k] # "greeting" /\ reply[k] # "early"
              /\ reply[k] = "blank" => k = Len(reply)
         /\ \/ reply[Len(reply)] = "blank"
            \/ reply = <<"other">>
            \/ Len(reply) = MaxHeader + 1
  <1>1. CASE \E line \in {"2xx", "5xx", "malformed"} : reply = <<line, "blank">>
    <2>1. PICK line \in {"2xx", "5xx", "malformed"} : reply = <<line, "blank">>
      BY <1>1
    <2>2. line \in Token
      BY DEF Token
    <2>3. reply \in Seq(Token)
      BY <2>1, <2>2, Tuples, Tokens, Zenon
    <2> QED BY <2>1, <2>3
  <1>2. CASE reply = <<"2xx", "header", "blank">>
    <2>1. reply \in Seq(Token)
      BY <1>2, Tuples, Tokens, Zenon
    <2> QED BY <1>2, <2>1
  <1>3. CASE reply = <<"other">>
    <2>1. reply \in Seq(Token)
      BY <1>3, Tuples, Tokens, Zenon
    <2> QED BY <1>3, <2>1
  <1>4. CASE reply = <<"2xx">> \o [k \in 1 .. MaxHeader |-> "header"]
    <2> DEFINE h == [k \in 1 .. MaxHeader |-> "header"]
               f == <<"2xx">>
    <2>1. MaxHeader \in Nat
      BY ProxyPathAssumption
    <2>2. h \in Seq(Token) /\ Len(h) = MaxHeader /\ \A k \in 1 .. MaxHeader : h[k] = "header"
      <3>1. \A t \in Token : [k \in 1 .. MaxHeader |-> t] \in Seq(Token)
        BY <2>1
      <3>2. h \in Seq(Token)
        BY <3>1, Tokens
      <3>3. DOMAIN h = 1 .. MaxHeader
        OBVIOUS
      <3> QED BY <2>1, <3>2, <3>3
    <2>3. f \in Seq(Token)
      BY Tuples, Tokens, Zenon
    <2>4. Len(f) = 1 /\ f[1] = "2xx"
      OBVIOUS
    <2>5. reply = f \o h
      BY <1>4
    <2> HIDE DEF h, f
    <2>6. f \o h \in Seq(Token) /\ Len(f \o h) = MaxHeader + 1
      <3>1. f \o h \in Seq(Token) /\ Len(f \o h) = Len(f) + Len(h)
        BY <2>2, <2>3, ConcatProperties
      <3> QED BY <2>1, <2>2, <2>4, <3>1
    <2>7. \A k \in 1 .. (MaxHeader + 1) : (f \o h)[k] = "2xx" \/ (f \o h)[k] = "header"
      <3> TAKE k \in 1 .. (MaxHeader + 1)
      <3>0. k = 1 \/ k > 1
        BY <2>1
      <3>1. CASE k = 1
        <4>1. (f \o h)[1] = f[1]
          <5>1. Begins(f, f \o h)
            BY <2>2, <2>3, ConcatBegins
          <5> QED BY <5>1, <2>4 DEF Begins
        <4> QED BY <3>1, <4>1, <2>4
      <3>2. CASE k > 1
        <4>1. k - 1 \in 1 .. MaxHeader /\ k = Len(f) + (k - 1)
          BY <3>2, <2>1, <2>4
        <4>2. (f \o h)[k] = h[k - 1]
          BY <4>1, <2>2, <2>3, ConcatTail
        <4> QED BY <4>1, <4>2, <2>2
      <3> QED BY <3>0, <3>1, <3>2
    <2>8. Len(f \o h) >= 1
      BY <2>1, <2>6
    <2> QED BY <2>1, <2>5, <2>6, <2>7, <2>8
  <1> QED BY <1>1, <1>2, <1>3, <1>4 DEF HttpReplies

-----------------------------------------------------------------------------
(* What has been read of an answer is of the hop, never of who is behind.  *)

LEMMA LastIsLast ==
  ASSUME NEW g \in Seq(Token), g # << >>
  PROVE  Len(g) \in Nat /\ Len(g) >= 1 /\ Last(g) = g[Len(g)]
  BY DEF Last

LEMMA SocksWithin ==
  ASSUME NEW g \in Seq(Token), NEW w \in Seq(Token),
         NEW reply \in SocksReplies, NEW next \in Seq(Token),
         g \o w = reply \o next,
         Len(g) <= SocksPartEnd(g), Len(g) > 2 => g[2] # "unknown"
  PROVE  /\ Len(g) <= Len(reply) /\ Begins(g, reply)
         /\ \A k \in 1 .. Len(g) : g[k] # "greeting"
         /\ WholeReply(g) => g = reply /\ w = next
  <1> DEFINE n == Len(g)
             m == Len(reply)
  <1>1. reply \in Seq(Token) /\ n \in Nat /\ m \in Nat /\ m >= 2
    BY SocksReplyShape
  <1>2. Begins(g, reply \o next)
    BY ConcatBegins
  <1>3. ASSUME n >= 2 PROVE g[2] = reply[2]
    <2>1. 2 \in 1 .. Len(g) /\ 2 \in 1 .. m
      BY <1>1, <1>3
    <2>2. g[2] = (reply \o next)[2]
      BY <1>2, <2>1 DEF Begins
    <2>3. Begins(reply, reply \o next)
      BY <1>1, ConcatBegins
    <2>4. reply[2] = (reply \o next)[2]
      BY <2>1, <2>3 DEF Begins
    <2> QED BY <2>2, <2>4
  <1>4. n <= m
    <2>1. CASE n < 2
      BY <2>1, <1>1
    <2>2. CASE n >= 2 /\ reply[2] = "ipv4" /\ m = 4
      BY <2>2, <1>3, <1>1 DEF SocksPartEnd
    <2>3. CASE n >= 2 /\ reply[2] = "domain" /\ m = 5
      BY <2>3, <1>3, <1>1 DEF SocksPartEnd
    <2>4. CASE n >= 2 /\ reply[2] = "unknown" /\ m = 2
      BY <2>4, <1>3, <1>1
    <2> QED BY <2>1, <2>2, <2>3, <2>4, <1>1, SocksReplyShape
  <1>5. Begins(g, reply)
    BY <1>1, <1>2, <1>4, BeginsConcat
  <1>6. \A k \in 1 .. Len(g) : g[k] # "greeting"
    BY <1>1, <1>4, <1>5, SocksReplyShape DEF Begins
  <1>7. ASSUME WholeReply(g) PROVE g = reply /\ w = next
    <2>1. n > 2 /\ n = SocksPartEnd(g) /\ (g[2] = "domain" => n > 3)
      BY <1>7 DEF WholeReply
    <2>2. g[2] = reply[2]
      BY <2>1, <1>1, <1>3
    <2>3. n = m
      <3>1. CASE reply[2] = "ipv4" /\ m = 4
        BY <3>1, <2>1, <2>2, <1>1 DEF SocksPartEnd
      <3>2. CASE reply[2] = "domain" /\ m = 5
        BY <3>2, <2>1, <2>2, <1>1 DEF SocksPartEnd
      <3>3. CASE reply[2] = "unknown" /\ m = 2
        BY <3>3, <2>1, <2>2, <1>1
      <3> QED BY <3>1, <3>2, <3>3, SocksReplyShape
    <2>4. g = reply
      BY <2>3, <1>1, <1>5, SeqEqual DEF Begins
    <2>5. w = next
      BY <2>3, <1>1, RestIsRest
    <2> QED BY <2>4, <2>5
  <1> QED BY <1>4, <1>5, <1>6, <1>7

LEMMA HttpWithin ==
  ASSUME NEW g \in Seq(Token), NEW w \in Seq(Token),
         NEW reply \in HttpReplies, NEW next \in Seq(Token),
         g \o w = reply \o next,
         Len(g) <= MaxHeader,
         \A k \in 1 .. (Len(g) - 1) : g[k] # "blank",
         Len(g) > 1 => g[1] \in {"2xx", "5xx", "malformed"}
  PROVE  /\ Len(g) <= Len(reply) /\ Begins(g, reply)
         /\ \A k \in 1 .. Len(g) : g[k] # "greeting"
         /\ WholeResponse(g) => g = reply /\ w = next
  <1> DEFINE n == Len(g)
             m == Len(reply)
  <1>1. reply \in Seq(Token) /\ n \in Nat /\ m \in Nat /\ m >= 1 /\ MaxHeader \in Nat
    BY HttpReplyShape, ProxyPathAssumption
  <1>2. Begins(g, reply \o next)
    BY ConcatBegins
  <1>3. ASSUME n >= m PROVE g[m] = reply[m]
    <2>1. m \in 1 .. n /\ m \in 1 .. m
      BY <1>1, <1>3
    <2>2. g[m] = (reply \o next)[m]
      BY <1>2, <2>1 DEF Begins
    <2>3. Begins(reply, reply \o next)
      BY <1>1, ConcatBegins
    <2>4. reply[m] = (reply \o next)[m]
      BY <2>1, <2>3 DEF Begins
    <2> QED BY <2>2, <2>4
  <1>4. n <= m
    <2> SUFFICES ASSUME n > m PROVE FALSE
      BY <1>1
    <2>1. g[m] = reply[m] /\ m \in 1 .. (Len(g) - 1) /\ n > 1
      BY <1>1, <1>3
    <2>2. CASE reply[m] = "blank"
      BY <2>1, <2>2
    <2>3. CASE reply = <<"other">>
      <3>1. m = 1 /\ reply[m] = "other"
        BY <2>3
      <3> QED BY <3>1, <2>1
    <2>4. CASE m = MaxHeader + 1
      BY <2>4, <1>1
    <2> QED BY <2>2, <2>3, <2>4, HttpReplyShape
  <1>5. Begins(g, reply)
    BY <1>1, <1>2, <1>4, BeginsConcat
  <1>6. \A k \in 1 .. Len(g) : g[k] # "greeting"
    <2> TAKE k \in 1 .. Len(g)
    <2>1. k \in 1 .. Len(reply) /\ g[k] = reply[k]
      BY <1>1, <1>4, <1>5 DEF Begins
    <2> QED BY <2>1, HttpReplyShape
  <1>7. ASSUME WholeResponse(g) PROVE g = reply /\ w = next
    <2>1. g # << >> /\ n >= 1 /\ g[n] = "blank"
      BY <1>7, LastIsLast DEF WholeResponse
    <2>2. n \in 1 .. m /\ reply[n] = "blank"
      BY <2>1, <1>1, <1>4, <1>5 DEF Begins
    <2>3. n = m
      BY <2>2, HttpReplyShape
    <2>4. g = reply
      BY <2>3, <1>1, <1>5, SeqEqual DEF Begins
    <2>5. w = next
      BY <2>3, <1>1, RestIsRest
    <2> QED BY <2>4, <2>5
  <1> QED BY <1>4, <1>5, <1>6, <1>7

(* Another read stays within the part of the answer that is awaited.       *)
LEMMA SocksReadOn ==
  ASSUME NEW g \in Seq(Token), NEW more \in Seq(Token), Begins(g, more),
         Len(more) <= SocksPartEnd(g), Len(g) >= 2 => g[2] # "unknown"
  PROVE  /\ Len(more) <= SocksPartEnd(more)
         /\ Len(more) > 2 => more[2] # "unknown"
  <1>1. Len(g) \in Nat /\ Len(more) \in Nat /\ Len(g) <= Len(more)
    BY DEF Begins
  <1>2. CASE Len(g) < 2
    BY <1>1, <1>2 DEF SocksPartEnd
  <1>3. CASE Len(g) >= 2
    <2>1. more[2] = g[2]
      <3>1. 2 \in 1 .. Len(g)
        BY <1>1, <1>3
      <3> QED BY <3>1 DEF Begins
    <2> QED BY <1>1, <1>3, <2>1 DEF SocksPartEnd
  <1> QED BY <1>1, <1>2, <1>3

LEMMA HttpReadOn ==
  ASSUME NEW g \in Seq(Token), NEW more \in Seq(Token), Begins(g, more),
         Len(more) = Len(g) + 1, Len(g) <= MaxHeader,
         \A k \in 1 .. (Len(g) - 1) : g[k] # "blank",
         g # << >> => /\ g[1] \in {"2xx", "5xx", "malformed"}
                      /\ Last(g) # "blank" /\ Len(g) < MaxHeader
  PROVE  /\ Len(more) <= MaxHeader
         /\ \A k \in 1 .. (Len(more) - 1) : more[k] # "blank"
         /\ Len(more) > 1 => more[1] \in {"2xx", "5xx", "malformed"}
  <1>1. Len(g) \in Nat /\ MaxHeader \in Nat /\ MaxHeader >= 1
    BY ProxyPathAssumption
  <1>2. CASE g = << >>
    <2>1. Len(g) = 0
      BY <1>2
    <2> QED BY <1>1, <2>1
  <1>3. CASE g # << >>
    <2>1. Len(g) >= 1 /\ g[Len(g)] # "blank"
      BY <1>3, LastIsLast
    <2>2. more[1] = g[1]
      BY <1>1, <2>1 DEF Begins
    <2>3. ASSUME NEW k \in 1 .. (Len(more) - 1) PROVE more[k] # "blank"
      <3>1. k \in 1 .. Len(g) /\ more[k] = g[k]
        BY <1>1 DEF Begins
      <3> QED BY <3>1, <1>1, <2>1
    <2> QED BY <1>1, <1>3, <2>2, <2>3
  <1> QED BY <1>2, <1>3

-----------------------------------------------------------------------------
(* How a probe ends, and how it goes on.                                   *)

LEMMA FailureIs ==
  ASSUME NEW kind \in {"timeout", "broken"}
  PROVE  Failure(kind) = IF kind = "timeout" /\ step \in {"request", "answer"}
                           THEN Verdict("filtered", "timeout", step)
                           ELSE Verdict("error", "proxy_reply", step)
  BY DEF Failure, IoFailure, BlameHop, Verdict

LEMMA Budgets ==
  /\ HandshakeBudget \in Nat /\ HandshakeBudget > 0
  /\ ConnectBudget \in Nat /\ ConnectBudget > 0
  BY ProxyPathAssumption

(* An exchange that fails, in the step it fails in.                        *)
LEMMA FailedProbe ==
  ASSUME PInv, step \in Speaking, step' = "done",
         NEW state, NEW source,
         outcome' = Verdict(state, source, step),
         \/ state = "error" /\ source \in {"proxy_reply", "internal"}
         \/ state = "filtered" /\ source = "timeout" /\ (step = "request" \/ (step = "answer" /\ ~Whole)),
         spent' \in Nat,
         source # "internal" => /\ step \in Handshaking => spent' < 3 * HandshakeBudget
                                /\ step \in Connecting => spent' < 2 * ConnectBudget,
         UNCHANGED <<path, options, at, peer, wire, got, heard, sent>>
  PROVE  PInv'
  <1> USE DEF PInv
  <1>1. Scalars'
    BY DEF Scalars, Steps
  <1>2. Standing'
    BY DEF Standing, Destination, Speaking, Writing, Reading
  <1>3. Stream' /\ Progress' /\ Clocks'
    BY DEF Stream, Progress, Clocks, Socks, Http, Writing
  <1>4. Undecided'
    BY DEF Undecided, Speaking, Writing, Reading, Verdict, NoVerdict
  <1>5. VerdictIsAboutTheDestination'
    <2>1. /\ outcome'.state = state /\ outcome'.source = source
          /\ outcome'.reason = step /\ outcome'.pressure = "none"
      BY DEF Verdict
    <2>2. CASE state = "error"
      BY <2>1, <2>2 DEF VerdictIsAboutTheDestination
    <2>3. CASE state = "filtered" /\ source = "timeout" /\ step \in {"request", "answer"}
      <3>1. at = Len(path) /\ at \in 1 .. (Len(path) + 1)
        BY <2>3 DEF Standing, Destination
      <3>2. path # << >>
        BY <3>1
      <3> QED BY <2>1, <2>3, <3>1, <3>2 DEF VerdictIsAboutTheDestination, Direct
    <2> QED BY <2>2, <2>3
  <1>6. OnlySilenceIsRetried'
    <2>1. CASE state = "error" /\ source \in {"proxy_reply", "internal"}
      BY <2>1 DEF OnlySilenceIsRetried, Verdict
    <2>2. CASE step = "request"
      BY <2>2 DEF OnlySilenceIsRetried, Verdict
    <2>3. CASE step = "answer" /\ ~Whole
      <3>1. outcome'.reason = "answer"
        BY <2>3 DEF Verdict
      <3>2. (path[at].kind = "http" => ~WholeResponse(got)) /\ (path[at].kind = "socks5" => ~WholeReply(got))
        BY <2>3 DEF Whole, Http, Socks
      <3> QED BY <3>1, <3>2 DEF OnlySilenceIsRetried, WholeResponse, WholeReply
    <2> QED BY <2>1, <2>2, <2>3
  <1>7. ExchangeIsBounded'
    BY DEF ExchangeIsBounded, Verdict
  <1>8. GreetingIsTheDestinations' /\ EveryoneHearsTheirOwn'
    BY DEF GreetingIsTheDestinations, EveryoneHearsTheirOwn, Destination
  <1> QED BY <1>1, <1>2, <1>3, <1>4, <1>5, <1>6, <1>7, <1>8

(* Until there is a verdict there is nothing to say of it.                 *)
LEMMA NothingSaidYet ==
  ASSUME outcome' = NoVerdict, step' \in Speaking, Clocks', spent' \in Nat
  PROVE  /\ Undecided'
         /\ VerdictIsAboutTheDestination'
         /\ OnlySilenceIsRetried'
         /\ ExchangeIsBounded'
  <1>1. /\ outcome'.state = "none" /\ outcome'.source = "none"
        /\ outcome'.reason = "none" /\ outcome'.pressure = "none"
    BY DEF NoVerdict, Verdict
  <1>2. Undecided'
    BY <1>1 DEF Undecided, Speaking, Writing, Reading
  <1>3. VerdictIsAboutTheDestination' /\ OnlySilenceIsRetried'
    BY <1>1 DEF VerdictIsAboutTheDestination, OnlySilenceIsRetried
  <1>4. ExchangeIsBounded'
    BY Budgets DEF ExchangeIsBounded, Clocks, Speaking, Handshaking, Connecting, Writing, Reading
  <1> QED BY <1>2, <1>3, <1>4

(* The steps that end a path.                                              *)
LEMMA SendFailsKeeps == ASSUME PInv, SendFails PROVE PInv'
  <1>1. PICK kind \in {"timeout", "broken"} :
          /\ EndsWith(Failure(kind))
          /\ spent' = Clock(IF kind = "timeout" THEN Budget ELSE 0)
    BY DEF SendFails
  <1>2. step \in Writing /\ UNCHANGED <<path, options, at, peer, wire, got, heard, sent>>
    BY DEF SendFails, planVars
  <1>3. spent \in Nat /\ (step = "credentials" => spent < 2 * HandshakeBudget)
    BY DEF PInv, Scalars, Clocks
  <1>4. Budget = IF step \in {"greet", "credentials"} THEN HandshakeBudget ELSE ConnectBudget
    BY <1>2 DEF Budget, Handshaking, Writing
  <1>5. /\ spent' \in Nat
        /\ step \in Handshaking => spent' < 3 * HandshakeBudget
        /\ step \in Connecting => spent' < 2 * ConnectBudget
    <2> DEFINE elapsed == IF kind = "timeout" THEN Budget ELSE 0
    <2>0. spent' = Clock(elapsed)
      BY <1>1
    <2>1. CASE step = "greet"
      <3>1. spent' = elapsed /\ Budget = HandshakeBudget
        BY <2>0, <2>1, <1>4 DEF Clock
      <3> QED BY <3>1, <2>1, Budgets DEF Handshaking, Connecting
    <2>2. CASE step = "request"
      <3>1. spent' = elapsed /\ Budget = ConnectBudget
        BY <2>0, <2>2, <1>4 DEF Clock
      <3> QED BY <3>1, <2>2, Budgets DEF Handshaking, Connecting
    <2>3. CASE step = "credentials"
      <3>1. spent' = spent + elapsed /\ Budget = HandshakeBudget
        BY <2>0, <2>3, <1>4 DEF Clock
      <3> QED BY <3>1, <2>3, <1>3, Budgets DEF Handshaking, Connecting
    <2>4. CASE step = "extend"
      <3>1. spent' = 0
        BY <2>0, <2>4 DEF Clock
      <3> QED BY <3>1, <2>4, Budgets DEF Handshaking, Connecting
    <2> QED BY <1>2, <2>1, <2>2, <2>3, <2>4 DEF Writing
  <1>6. outcome' = Failure(kind) /\ step' = "done" /\ step \in Speaking
    BY <1>1, <1>2 DEF EndsWith, Speaking
  <1>7. CASE kind = "timeout" /\ step \in {"request", "answer"}
    <2>1. outcome' = Verdict("filtered", "timeout", step)
      BY <1>6, <1>7, FailureIs
    <2>2. step = "request"
      BY <1>2, <1>7 DEF Writing
    <2> QED BY <2>1, <2>2, <1>2, <1>5, <1>6, FailedProbe
  <1>8. CASE ~(kind = "timeout" /\ step \in {"request", "answer"})
    <2>1. outcome' = Verdict("error", "proxy_reply", step)
      BY <1>6, <1>8, FailureIs
    <2> QED BY <2>1, <1>2, <1>5, <1>6, FailedProbe
  <1> QED BY <1>7, <1>8

LEMMA SocketRefusesTimeoutKeeps == ASSUME PInv, SocketRefusesTimeout PROVE PInv'
  <1>1. /\ outcome' = Verdict("error", "internal", step) /\ step' = "done" /\ step \in Speaking
        /\ UNCHANGED <<path, options, at, peer, wire, got, spent, heard, sent>>
    BY DEF SocketRefusesTimeout, EndsWith, Speaking, planVars
  <1>2. spent' \in Nat
    BY <1>1 DEF PInv, Scalars
  <1> QED BY <1>1, <1>2, FailedProbe

(* The clock of a message that is awaited.                                 *)
LEMMA AwaitedClock ==
  ASSUME PInv, step \in Reading
  PROVE  /\ spent \in Nat /\ step \in Speaking
         /\ step \in Handshaking => Budget = HandshakeBudget /\ spent < 3 * HandshakeBudget
         /\ step \in Connecting => Budget = ConnectBudget /\ spent < 2 * ConnectBudget
  BY Budgets DEF PInv, Scalars, Clocks, Budget, Handshaking, Connecting, Reading, Speaking

(* A message that is awaited in vain.                                      *)
LEMMA AwaitedInVain ==
  ASSUME PInv, step \in Reading, NEW kind \in {"timeout", "broken"},
         kind = "timeout" => ~Whole,
         EndsWith(Failure(kind)), spent' \in Nat,
         step \in Handshaking => spent' < 3 * HandshakeBudget,
         step \in Connecting => spent' < 2 * ConnectBudget,
         UNCHANGED <<path, options, at, peer, wire, got, heard, sent>>
  PROVE  PInv'
  <1>1. outcome' = Failure(kind) /\ step' = "done" /\ step \in Speaking
    BY DEF EndsWith, Speaking
  <1>2. CASE kind = "timeout" /\ step \in {"request", "answer"}
    <2>1. outcome' = Verdict("filtered", "timeout", step) /\ step = "answer" /\ ~Whole
      BY <1>1, <1>2, FailureIs DEF Reading
    <2> QED BY <2>1, <1>1, FailedProbe
  <1>3. CASE ~(kind = "timeout" /\ step \in {"request", "answer"})
    <2>1. outcome' = Verdict("error", "proxy_reply", step)
      BY <1>1, <1>3, FailureIs
    <2> QED BY <2>1, <1>1, FailedProbe
  <1> QED BY <1>2, <1>3

LEMMA ReadFailsKeeps == ASSUME PInv, ReadFails PROVE PInv'
  <1>1. PICK kind \in {"timeout", "broken"} :
          /\ EndsWith(Failure(kind))
          /\ spent' = IF kind = "timeout" THEN spent + Budget ELSE spent
    BY DEF ReadFails
  <1>2. /\ step \in Reading /\ ~Whole /\ spent < Budget
        /\ UNCHANGED <<path, options, at, peer, wire, got, heard, sent>>
    BY DEF ReadFails, WantsMore, InTime, planVars
  <1>3. /\ spent' \in Nat
        /\ step \in Handshaking => spent' < 3 * HandshakeBudget
        /\ step \in Connecting => spent' < 2 * ConnectBudget
    <2>1. step \in Handshaking \/ step \in Connecting
      BY <1>2 DEF Reading, Handshaking, Connecting
    <2>2. Budget \in Nat
      BY Budgets DEF Budget
    <2> QED BY <1>1, <1>2, <2>1, <2>2, AwaitedClock, Budgets
  <1> QED BY <1>1, <1>2, <1>3, AwaitedInVain

LEMMA DeadlinePassesKeeps == ASSUME PInv, DeadlinePasses PROVE PInv'
  <1>1. /\ step \in Reading /\ ~Whole /\ EndsWith(Failure("timeout"))
        /\ UNCHANGED <<path, options, at, peer, wire, got, spent, heard, sent>>
    BY DEF DeadlinePasses, WantsMore, planVars
  <1>2. /\ spent' \in Nat
        /\ step \in Handshaking => spent' < 3 * HandshakeBudget
        /\ step \in Connecting => spent' < 2 * ConnectBudget
    BY <1>1, AwaitedClock
  <1> QED BY <1>1, <1>2, AwaitedInVain

LEMMA MisunderstoodKeeps == ASSUME PInv, Misunderstood PROVE PInv'
  <1>1. /\ step \in Reading /\ EndsWith(Failure("broken"))
        /\ UNCHANGED <<path, options, at, peer, wire, got, spent, heard, sent>>
    BY DEF Misunderstood, planVars
  <1>2. /\ spent' \in Nat
        /\ step \in Handshaking => spent' < 3 * HandshakeBudget
        /\ step \in Connecting => spent' < 2 * ConnectBudget
    BY <1>1, AwaitedClock
  <1> QED BY <1>1, <1>2, AwaitedInVain

-----------------------------------------------------------------------------
(* The first connection.                                                   *)

LEMMA EnterIsWriting ==
  ASSUME NEW h
  PROVE  /\ Enter(h) \in {"greet", "request", "extend"}
         /\ Enter(h) = "greet" <=> path[h].kind = "socks5"
         /\ Enter(h) = "request" => h = Len(path)
         /\ Enter(h) = "extend" => h # Len(path)
         /\ Ask(h) \in {"request", "extend"}
         /\ Ask(h) = "request" <=> h = Len(path)
  BY DEF Enter, Ask

LEMMA HopKinds ==
  ASSUME path \in Seq(Hop), NEW h \in 1 .. Len(path)
  PROVE  path[h].kind \in {"socks5", "http"} /\ path[h].auth \in BOOLEAN
  <1>1. path[h] \in Hop
    OBVIOUS
  <1> QED BY <1>1 DEF Hop

LEMMA DialFailsKeeps == ASSUME PInv, DialFails PROVE PInv'
  <1>1. PICK error \in ConnectErrors :
          /\ EndsWith(IF Direct THEN ClassifyOsError(error) ELSE ProxyUnreachable(error))
          /\ answer' = IF Direct THEN error ELSE "none"
    BY DEF DialFails
  <1>2. step = "dial" /\ UNCHANGED <<path, options, at, peer, wire, got, spent, heard, sent>>
    BY DEF DialFails, planVars
  <1>3. /\ at = 1 /\ peer = 0 /\ step' = "done"
    BY <1>1, <1>2 DEF PInv, Standing, EndsWith
  <1> USE DEF PInv
  <1>4. /\ outcome'.state \in {"closed", "filtered", "error"}
        /\ outcome'.source \in {"local_stack", "timeout", "internal"}
        /\ outcome'.reason = "dial"
        /\ outcome'.pressure # "none" => outcome'.state = "error"
        /\ outcome'.state # "error" => Direct
        /\ outcome'.state = "closed" => answer' = "refused"
        /\ outcome'.state = "filtered" /\ outcome'.source = "timeout" => answer' = "timed out"
        /\ outcome'.state = "filtered" /\ outcome'.source # "timeout" => answer' = "unreachable"
    <2>1. CASE Direct
      <3>1. outcome' = ClassifyOsError(error) /\ answer' = error
        BY <1>1, <2>1 DEF EndsWith
      <3>2. CASE error = "refused"
        BY <2>1, <3>1, <3>2 DEF ClassifyOsError, Verdict
      <3>3. CASE error = "unreachable"
        BY <2>1, <3>1, <3>3 DEF ClassifyOsError, Verdict
      <3>4. CASE error = "timed out"
        BY <2>1, <3>1, <3>4 DEF ClassifyOsError, Verdict
      <3>5. CASE error \in {"ports", "files"}
        <4>1. outcome' = UnderPressure(Verdict("error", "internal", "dial"), Pressure(error))
          BY <3>1, <3>5 DEF ClassifyOsError
        <4> QED BY <4>1 DEF UnderPressure, Verdict
      <3>6. CASE error = "other"
        BY <2>1, <3>1, <3>6 DEF ClassifyOsError, Verdict
      <3> QED BY <3>2, <3>3, <3>4, <3>5, <3>6 DEF ConnectErrors
    <2>2. CASE ~Direct
      <3>1. PICK source \in {"timeout", "local_stack"} : \E pressure :
              outcome' = UnderPressure(Verdict("error", source, "dial"), pressure)
        BY <1>1, <2>2 DEF EndsWith, ProxyUnreachable
      <3> QED BY <3>1 DEF UnderPressure, Verdict
    <2> QED BY <2>1, <2>2
  <1>5. Scalars'
    BY <1>2, <1>3 DEF Scalars, Steps
  <1>6. Standing'
    BY <1>2, <1>3 DEF Standing, Destination, Speaking, Writing, Reading
  <1>7. Stream' /\ Progress' /\ Clocks'
    BY <1>3 DEF Stream, Progress, Clocks, Socks, Http, Writing
  <1>8. Undecided'
    <2>1. outcome' # NoVerdict
      <3>1. NoVerdict.state = "none"
        BY DEF NoVerdict, Verdict
      <3>2. outcome'.state # "none"
        BY <1>4
      <3> QED BY <3>1, <3>2
    <2> QED BY <1>3, <1>4, <2>1 DEF Undecided, Speaking, Writing, Reading
  <1>9. VerdictIsAboutTheDestination'
    BY <1>2, <1>4 DEF VerdictIsAboutTheDestination, Direct
  <1>10. OnlySilenceIsRetried' /\ ExchangeIsBounded'
    BY <1>2, <1>3, <1>4 DEF OnlySilenceIsRetried, ExchangeIsBounded, Handshaking, Connecting
  <1>11. GreetingIsTheDestinations' /\ EveryoneHearsTheirOwn'
    BY <1>2 DEF GreetingIsTheDestinations, EveryoneHearsTheirOwn, Destination
  <1> QED BY <1>5, <1>6, <1>7, <1>8, <1>9, <1>10, <1>11

LEMMA DialKeeps == ASSUME PInv, Dial PROVE PInv'
  <1>1. /\ step = "dial" /\ peer' = 1
        /\ UNCHANGED <<path, options, at, got, spent, heard, sent>>
    BY DEF Dial, planVars
  <1>2. /\ at = 1 /\ wire = << >> /\ path \in Seq(Hop) /\ spent \in Nat /\ outcome = NoVerdict
        /\ got \in Seq(Token)
    BY <1>1 DEF PInv, Standing, Scalars, Undecided
  <1>3. GreetingIsTheDestinations' /\ EveryoneHearsTheirOwn'
    BY <1>1 DEF PInv, GreetingIsTheDestinations, EveryoneHearsTheirOwn, Destination
  <1>4. CASE Direct
    <2>1. /\ step' = "listen" /\ outcome' = Verdict("open", "local_stack", "dial")
          /\ answer' = "connected" /\ wire' \in Greetings
      BY <1>4 DEF Dial
    <2>2. /\ outcome'.state = "open" /\ outcome'.source = "local_stack"
          /\ outcome'.reason = "dial" /\ outcome'.pressure = "none"
      BY <2>1 DEF Verdict
    <2>3. path = << >> /\ Len(path) = 0
      BY <1>4 DEF Direct
    <2>4. wire' \in Seq(Token)
      <3>1. CASE wire' = << >>
        BY <3>1
      <3>2. CASE wire' = <<"greeting">>
        BY <3>2, Tuples, Tokens, Zenon
      <3> QED BY <2>1, <3>1, <3>2 DEF Greetings
    <2>5. Scalars'
      BY <1>1, <2>1, <2>4 DEF PInv, Scalars, Steps
    <2>6. Standing'
      BY <1>1, <1>2, <2>1, <2>3 DEF Standing, Destination, Speaking, Writing, Reading
    <2>7. Stream' /\ Progress' /\ Clocks'
      BY <2>1, <2>2 DEF Stream, Progress, Clocks, Socks, Http, Writing, Handshaking, Connecting
    <2>8. Undecided'
      BY <2>1, <2>2 DEF Undecided, Speaking, Writing, Reading, NoVerdict, Verdict
    <2>9. VerdictIsAboutTheDestination'
      BY <1>1, <2>2, <2>3 DEF VerdictIsAboutTheDestination, Destination
    <2>10. OnlySilenceIsRetried' /\ ExchangeIsBounded'
      BY <2>1, <2>2 DEF OnlySilenceIsRetried, ExchangeIsBounded, Handshaking, Connecting
    <2> QED BY <1>3, <2>5, <2>6, <2>7, <2>8, <2>9, <2>10 DEF PInv
  <1>5. CASE ~Direct
    <2>1. step' = Enter(1) /\ outcome' = outcome /\ answer' = answer /\ wire' = wire
      BY <1>5 DEF Dial
    <2>2. Len(path) >= 1 /\ path[1].kind \in {"socks5", "http"}
      <3>1. Len(path) >= 1
        BY <1>2, <1>5 DEF Direct
      <3> QED BY <3>1, <1>2, HopKinds
    <2>3. /\ step' \in {"greet", "request", "extend"} /\ (step' = "greet" <=> path[1].kind = "socks5")
          /\ step' = "request" => 1 = Len(path)
          /\ step' = "extend" => 1 # Len(path)
      BY <2>1, EnterIsWriting
    <2>4. Scalars'
      BY <1>1, <2>1, <2>3 DEF PInv, Scalars, Steps, Writing
    <2>5. Standing'
      <3>1. /\ at' = 1 /\ peer' = 1 /\ path' = path /\ Len(path) \in Nat
            /\ 1 \in 1 .. (Len(path) + 1) /\ 1 \in 0 .. (Len(path) + 1)
        BY <1>1, <1>2, <2>2
      <3>2. step' = "greet" => path'[1].kind = "socks5"
        BY <2>3, <3>1
      <3>3. ASSUME step' = "extend" PROVE 1 < Len(path)
        <4>1. 1 # Len(path)
          BY <2>3, <3>3
        <4>2. Len(path) \in Nat /\ Len(path) >= 1
          BY <2>2, <3>1
        <4> QED BY <4>1, <4>2
      <3> QED BY <2>2, <2>3, <3>1, <3>2, <3>3 DEF Standing, Destination, Speaking, Writing, Reading
    <2>6. Stream' /\ Progress' /\ Clocks'
      BY <1>2, <2>1, <2>3 DEF Stream, Progress, Clocks, Socks, Http, Writing
    <2>7. outcome' = NoVerdict /\ step' \in Speaking /\ spent' \in Nat
      BY <1>1, <1>2, <2>1, <2>3 DEF Speaking, Writing
    <2> QED BY <1>3, <2>4, <2>5, <2>6, <2>7, NothingSaidYet DEF PInv
  <1> QED BY <1>4, <1>5

-----------------------------------------------------------------------------
(* What is read, and what it leaves unread.                                *)

LEMMA HandshakeShape ==
  ASSUME NEW message \in Selections \union Statuses
  PROVE  /\ message \in Seq(Token) /\ Len(message) = 2
         /\ \A k \in 1 .. 2 : message[k] # "greeting" /\ message[k] # "early"
  <1>1. CASE \E m \in {"none", "userpass", "unacceptable"} : message = <<"socks", m>>
    <2>1. PICK m \in {"none", "userpass", "unacceptable"} : message = <<"socks", m>>
      BY <1>1
    <2>2. m \in Token
      BY DEF Token
    <2>3. message \in Seq(Token)
      BY <2>1, <2>2, Tuples, Tokens, Zenon
    <2> QED BY <2>1, <2>3
  <1>2. CASE message = <<"other", "none">>
    <2>1. message \in Seq(Token)
      BY <1>2, Tuples, Tokens, Zenon
    <2> QED BY <1>2, <2>1
  <1>3. CASE message = <<"auth", "ok">>
    <2>1. message \in Seq(Token)
      BY <1>3, Tuples, Tokens, Zenon
    <2> QED BY <1>3, <2>1
  <1>4. CASE message = <<"auth", "refused">>
    <2>1. message \in Seq(Token)
      BY <1>4, Tuples, Tokens, Zenon
    <2> QED BY <1>4, <2>1
  <1>5. CASE message = <<"other", "ok">>
    <2>1. message \in Seq(Token)
      BY <1>5, Tuples, Tokens, Zenon
    <2> QED BY <1>5, <2>1
  <1> QED BY <1>1, <1>2, <1>3, <1>4, <1>5 DEF Selections, Statuses

LEMMA NextsAreMessages ==
  /\ Early \in Seq(Token) /\ Len(Early) = 1 /\ Early[1] = "early"
  /\ \A next \in Greetings \union {<< >>, Early} : next \in Seq(Token)
  /\ \A next \in Nexts : next \in Seq(Token)
  <1>1. Early \in Seq(Token)
    BY Tuples, Tokens, Zenon DEF Early
  <1>2. Len(Early) = 1 /\ Early[1] = "early"
    BY DEF Early
  <1>3. << >> \in Seq(Token)
    OBVIOUS
  <1>4. <<"greeting">> \in Seq(Token)
    BY Tuples, Tokens, Zenon
  <1>5. \A next \in Greetings : next \in Seq(Token)
    BY <1>3, <1>4, Zenon DEF Greetings
  <1>6. \A next \in {<< >>, Early} : next \in Seq(Token)
    BY <1>1, <1>3, Zenon
  <1>7. \A next \in Nexts : next \in Seq(Token)
    BY <1>5, <1>6, Zenon DEF Nexts
  <1> QED BY <1>1, <1>2, <1>5, <1>6, <1>7, Zenon

Ordered == Scalars /\ Standing /\ Stream /\ Progress

LEMMA NoGreetingRead ==
  Ordered /\ step \in Reading => \A k \in 1 .. Len(got) : got[k] # "greeting"
  <1> SUFFICES ASSUME Ordered, step \in Reading
               PROVE  \A k \in 1 .. Len(got) : got[k] # "greeting"
    OBVIOUS
  <1>1. got \in Seq(Token) /\ wire \in Seq(Token) /\ Len(got) \in Nat
    BY DEF Ordered, Scalars
  <1>2. Begins(got, got \o wire)
    BY <1>1, ConcatBegins
  <1>3. ASSUME NEW message \in Selections \union Statuses,
               got \o wire = message \/ got \o wire = Early \o message
        PROVE  \A k \in 1 .. Len(got) : got[k] # "greeting"
    <2>1. message \in Seq(Token) /\ Len(message) = 2 /\ \A k \in 1 .. 2 : message[k] # "greeting"
      BY HandshakeShape
    <2>2. CASE got \o wire = message
      <3> TAKE k \in 1 .. Len(got)
      <3>1. Begins(got, message)
        BY <1>2, <2>2
      <3>2. k \in 1 .. 2 /\ got[k] = message[k]
        BY <1>1, <2>1, <3>1 DEF Begins
      <3> QED BY <2>1, <3>2
    <2>3. CASE got \o wire = Early \o message
      <3>1. Early \in Seq(Token) /\ Len(Early) = 1 /\ Early[1] = "early"
        BY NextsAreMessages
      <3>2. /\ Len(Early \o message) = 3 /\ (Early \o message)[1] = "early"
            /\ (Early \o message)[2] = message[1] /\ (Early \o message)[3] = message[2]
        BY <2>1, <3>1, OneThenTwo
      <3>5. \A k \in 1 .. 3 : (Early \o message)[k] # "greeting"
        <4> TAKE k \in 1 .. 3
        <4>1. message[1] # "greeting" /\ message[2] # "greeting"
          BY <2>1
        <4>2. k = 1 \/ k = 2 \/ k = 3
          OBVIOUS
        <4> QED BY <3>2, <4>1, <4>2
      <3>6. \A k \in 1 .. Len(got) : k \in 1 .. 3 /\ got[k] = (Early \o message)[k]
        BY <1>1, <1>2, <2>3, <3>2 DEF Begins
      <3> QED BY <3>5, <3>6
    <2> QED BY <1>3, <2>2, <2>3
  <1>4. CASE step = "selection"
    BY <1>3, <1>4 DEF Ordered, Stream
  <1>5. CASE step = "status"
    BY <1>3, <1>5 DEF Ordered, Stream
  <1>6. CASE Socks
    <2>1. PICK reply \in SocksReplies : \E next \in Nexts : got \o wire = reply \o next
      BY <1>6 DEF Ordered, Stream, FromReply
    <2>2. PICK next \in Nexts : got \o wire = reply \o next
      BY <2>1
    <2>3. next \in Seq(Token)
      BY NextsAreMessages
    <2>4. Len(got) <= SocksPartEnd(got) /\ (Len(got) > 2 => got[2] # "unknown")
      BY <1>6 DEF Ordered, Progress
    <2> QED BY <1>1, <2>2, <2>3, <2>4, SocksWithin
  <1>7. CASE Http
    <2>1. /\ Len(got) <= MaxHeader
          /\ \A k \in 1 .. (Len(got) - 1) : got[k] # "blank"
          /\ Len(got) > 1 => got[1] \in {"2xx", "5xx", "malformed"}
      BY <1>7 DEF Ordered, Progress
    <2>2. CASE (got \o wire)[1] = "early"
      <3>1. Len(got) >= 1 => got[1] = "early"
        BY <1>1, <1>2, <2>2 DEF Begins
      <3>2. Len(got) <= 1
        BY <1>1, <2>1, <3>1
      <3> QED BY <1>1, <3>1, <3>2
    <2>3. CASE FromReply(HttpReplies, Nexts)
      <3>1. PICK reply \in HttpReplies : \E next \in Nexts : got \o wire = reply \o next
        BY <2>3 DEF FromReply
      <3>2. PICK next \in Nexts : got \o wire = reply \o next
        BY <3>1
      <3>3. next \in Seq(Token)
        BY NextsAreMessages
      <3> QED BY <1>1, <2>1, <3>2, <3>3, HttpWithin
    <2> QED BY <1>7, <2>2, <2>3 DEF Ordered, Stream
  <1>8. step \in {"extended", "answer"} => Socks \/ Http
    <2>1. at \in 1 .. Len(path) \/ step \notin {"extended", "answer"}
      BY DEF Ordered, Standing, Destination, Speaking, Reading, Scalars
    <2>2. at \in 1 .. Len(path) => path[at].kind \in {"socks5", "http"}
      BY HopKinds DEF Ordered, Scalars
    <2> QED BY <2>1, <2>2 DEF Socks, Http
  <1> QED BY <1>4, <1>5, <1>6, <1>7, <1>8 DEF Reading

(* A message of two tokens that begins what is on the wire is all of it.   *)
LEMMA NothingLeft ==
  ASSUME NEW E, NEW g \in Seq(E), NEW w \in Seq(E), NEW message \in Seq(E),
         g \o w = message, Len(g) = Len(message)
  PROVE  w = << >>
  <1>1. Len(g \o w) = Len(g) + Len(w)
    BY ConcatProperties, Zenon
  <1>2. Len(w) \in Nat /\ Len(g) \in Nat
    OBVIOUS
  <1>3. Len(w) = 0
    BY <1>1, <1>2
  <1> QED BY <1>3

LEMMA HandshakeIsWhole ==
  ASSUME Ordered, Whole,
         step = "status" \/ (step = "selection" /\ got[1] # "early")
  PROVE  wire = << >>
  <1>1. got \in Seq(Token) /\ wire \in Seq(Token) /\ Len(got) = 2
    BY DEF Ordered, Scalars, Whole, Http, Socks
  <1>2. ASSUME NEW message \in Selections \union Statuses, got \o wire = message
        PROVE  wire = << >>
    <2>1. message \in Seq(Token) /\ Len(message) = 2
      BY HandshakeShape
    <2> QED BY <1>1, <1>2, <2>1, NothingLeft
  <1>3. CASE step = "status"
    BY <1>2, <1>3 DEF Ordered, Stream
  <1>4. CASE step = "selection" /\ got[1] # "early"
    <2>1. PICK message \in Selections : got \o wire = message \/ got \o wire = Early \o message
      BY <1>4 DEF Ordered, Stream
    <2>2. got \o wire # Early \o message
      <3>1. Begins(got, got \o wire)
        BY <1>1, ConcatBegins
      <3>2. got[1] = (got \o wire)[1]
        BY <1>1, <3>1 DEF Begins
      <3>3. message \in Seq(Token) /\ Len(message) = 2
        BY HandshakeShape
      <3>4. (Early \o message)[1] = "early"
        BY <3>3, NextsAreMessages, OneThenTwo
      <3> QED BY <1>4, <3>2, <3>4
    <2> QED BY <1>2, <2>1, <2>2
  <1> QED BY <1>3, <1>4

LEMMA AnswerIsWhole ==
  ASSUME Ordered, step \in {"extended", "answer"}, Whole, ~Malformed
  PROVE  \E next \in Nexts :
           /\ wire = next
           /\ IF OpensTunnel(got) THEN peer = at + 1 ELSE next = << >>
           /\ step = "answer" => answer = got[1]
  <1>1. got \in Seq(Token) /\ wire \in Seq(Token)
    BY DEF Ordered, Scalars
  <1>2. CASE Socks
    <2>1. PICK reply \in SocksReplies : \E next \in Nexts :
            /\ got \o wire = reply \o next
            /\ IF OpensTunnel(reply) THEN peer = at + 1 ELSE next = << >>
            /\ step = "answer" => answer = reply[1]
      BY <1>2 DEF Ordered, Stream, FromReply
    <2>2. PICK next \in Nexts :
            /\ got \o wire = reply \o next
            /\ IF OpensTunnel(reply) THEN peer = at + 1 ELSE next = << >>
            /\ step = "answer" => answer = reply[1]
      BY <2>1
    <2>3. next \in Seq(Token)
      BY NextsAreMessages
    <2>4. Len(got) <= SocksPartEnd(got) /\ (Len(got) > 2 => got[2] # "unknown")
      BY <1>2 DEF Ordered, Progress
    <2>5. WholeReply(got)
      BY <1>2 DEF Whole, Http, Socks
    <2>6. got = reply /\ wire = next
      BY <1>1, <2>2, <2>3, <2>4, <2>5, SocksWithin
    <2> QED BY <2>2, <2>6
  <1>3. CASE Http
    <2>1. /\ Len(got) <= MaxHeader
          /\ \A k \in 1 .. (Len(got) - 1) : got[k] # "blank"
          /\ Len(got) > 1 => got[1] \in {"2xx", "5xx", "malformed"}
      BY <1>3 DEF Ordered, Progress
    <2>2. WholeResponse(got)
      BY <1>3 DEF Whole, Http, Socks
    <2>3. (got \o wire)[1] # "early"
      <3>1. got # << >> /\ got[1] \in {"2xx", "5xx", "malformed"}
        BY <1>3, <2>2 DEF Malformed, WholeResponse, Unparsed, Http, Socks
      <3>2. Begins(got, got \o wire)
        BY <1>1, ConcatBegins
      <3>3. 1 \in 1 .. Len(got)
        BY <1>1, <3>1, LastIsLast
      <3>4. got[1] = (got \o wire)[1]
        BY <3>2, <3>3 DEF Begins
      <3> QED BY <3>1, <3>4
    <2>4. PICK reply \in HttpReplies : \E next \in Nexts :
            /\ got \o wire = reply \o next
            /\ IF OpensTunnel(reply) THEN peer = at + 1 ELSE next = << >>
            /\ step = "answer" => answer = reply[1]
      BY <1>3, <2>3 DEF Ordered, Stream, FromReply
    <2>5. PICK next \in Nexts :
            /\ got \o wire = reply \o next
            /\ IF OpensTunnel(reply) THEN peer = at + 1 ELSE next = << >>
            /\ step = "answer" => answer = reply[1]
      BY <2>4
    <2>6. next \in Seq(Token)
      BY NextsAreMessages
    <2>7. got = reply /\ wire = next
      BY <1>1, <2>1, <2>2, <2>5, <2>6, HttpWithin
    <2> QED BY <2>5, <2>7
  <1>4. Socks \/ Http
    <2>1. at \in 1 .. Len(path)
      BY DEF Ordered, Standing, Destination, Speaking, Reading, Scalars
    <2>2. path[at].kind \in {"socks5", "http"}
      BY <2>1, HopKinds DEF Ordered, Scalars
    <2> QED BY <2>2 DEF Socks, Http
  <1> QED BY <1>2, <1>3, <1>4

-----------------------------------------------------------------------------
(* One call of read.                                                       *)

LEMMA ReadSomeKeeps == ASSUME PInv, ReadSome PROVE PInv'
  <1>1. PICK n \in 1 .. (PartEnd - Len(got)) :
          /\ n <= Len(wire)
          /\ got' = got \o SubSeq(wire, 1, n)
          /\ wire' = SubSeq(wire, n + 1, Len(wire))
    BY DEF ReadSome
  <1>2. PICK elapsed \in 0 .. (Budget - 1) : spent' = spent + elapsed
    BY DEF ReadSome
  <1>3. /\ step \in Reading /\ ~Malformed /\ ~Whole /\ spent < Budget
        /\ UNCHANGED <<path, options, step, at, peer, outcome, heard, sent, answer>>
    BY DEF ReadSome, WantsMore, InTime, planVars
  <1>4. got \in Seq(Token) /\ wire \in Seq(Token) /\ spent \in Nat
    BY DEF PInv, Scalars
  <1>5. n \in Nat /\ n \in 0 .. Len(wire)
    BY <1>1, <1>4
  <1>6. /\ got' \in Seq(Token) /\ wire' \in Seq(Token)
        /\ Len(got') = Len(got) + n /\ Begins(got, got')
        /\ got' \o wire' = got \o wire
    <2> DEFINE p == SubSeq(wire, 1, n)
               q == SubSeq(wire, n + 1, Len(wire))
    <2>1. /\ got \o p \in Seq(Token) /\ q \in Seq(Token)
          /\ Len(got \o p) = Len(got) + n /\ Begins(got, got \o p)
          /\ (got \o p) \o q = got \o wire
      <3>1. \A s, t \in Seq(Token) : \A k \in 0 .. Len(t) :
              /\ s \o SubSeq(t, 1, k) \in Seq(Token)
              /\ SubSeq(t, k + 1, Len(t)) \in Seq(Token)
              /\ Len(s \o SubSeq(t, 1, k)) = Len(s) + k
              /\ Begins(s, s \o SubSeq(t, 1, k))
              /\ (s \o SubSeq(t, 1, k)) \o SubSeq(t, k + 1, Len(t)) = s \o t
        BY CutStays, Zenon
      <3> QED BY <1>4, <1>5, <3>1, Zenon
    <2>2. got' = got \o p /\ wire' = q
      BY <1>1
    <2> QED BY <2>1, <2>2, Zenon
  <1>7. Budget \in Nat /\ spent' \in Nat
    BY <1>2, <1>4, Budgets DEF Budget
  <1>8. Scalars'
    BY <1>3, <1>6, <1>7 DEF PInv, Scalars
  <1>9. Standing'
    <2>1. Standing
      BY DEF PInv
    <2> QED BY <1>3, <2>1 DEF Standing, Destination, Reading
  <1>10. Stream'
    BY <1>3, <1>6 DEF PInv, Stream, FromReply, Nexts, Socks, Http, Reading, Writing
  <1>11. Progress'
    <2>1. step' = step /\ (Socks' <=> Socks) /\ (Http' <=> Http) /\ Len(got) \in Nat
      BY <1>3, <1>4 DEF Socks, Http
    <2>2. ASSUME step \in {"selection", "status"} PROVE Len(got') <= 2
      <3>1. PartEnd = 2
        BY <2>2 DEF PartEnd, Http, Socks
      <3> QED BY <1>1, <1>5, <1>6, <2>1, <3>1
    <2>3. ASSUME Socks PROVE Len(got') <= SocksPartEnd(got') /\ (Len(got') > 2 => got'[2] # "unknown")
      <3>1. PartEnd = SocksPartEnd(got)
        BY <2>3 DEF PartEnd, Http, Socks
      <3>2. Len(got) = 2 => got[2] # "unknown"
        BY <1>3, <2>3 DEF Malformed, Http, Socks
      <3>3. Len(got) > 2 => got[2] # "unknown"
        BY <2>3 DEF PInv, Progress
      <3>4. Len(got') <= SocksPartEnd(got)
        <4>1. SocksPartEnd(got) \in Nat
          BY DEF SocksPartEnd
        <4> QED BY <1>1, <1>5, <1>6, <2>1, <3>1, <4>1
      <3>5. Len(got) >= 2 => got[2] # "unknown"
        BY <2>1, <3>2, <3>3
      <3> QED BY <1>4, <1>6, <3>4, <3>5, SocksReadOn
    <2>4. ASSUME Http
          PROVE  /\ Len(got') <= MaxHeader
                 /\ \A k \in 1 .. (Len(got') - 1) : got'[k] # "blank"
                 /\ Len(got') > 1 => got'[1] \in {"2xx", "5xx", "malformed"}
      <3>1. PartEnd = Len(got) + 1
        BY <2>4 DEF PartEnd, Http, Socks
      <3>2. Len(got') = Len(got) + 1
        BY <1>1, <1>5, <1>6, <2>1, <3>1
      <3>3. Len(got) <= MaxHeader /\ \A k \in 1 .. (Len(got) - 1) : got[k] # "blank"
        BY <2>4 DEF PInv, Progress
      <3>4. got # << >> => /\ got[1] \in {"2xx", "5xx", "malformed"}
                           /\ Last(got) # "blank" /\ ~(Len(got) >= MaxHeader)
        BY <1>3, <2>4 DEF Malformed, Whole, WholeResponse, Unparsed, Http, Socks
      <3>5. got # << >> => /\ got[1] \in {"2xx", "5xx", "malformed"}
                           /\ Last(got) # "blank" /\ Len(got) < MaxHeader
        BY <2>1, <3>4, ProxyPathAssumption
      <3> QED BY <1>4, <1>6, <3>2, <3>3, <3>5, HttpReadOn
    <2> QED BY <2>1, <2>2, <2>3, <2>4 DEF Progress
  <1>12. Clocks'
    <2>1. step \in {"selection", "status"} => Budget = HandshakeBudget
      BY DEF Budget, Handshaking
    <2>2. step \in {"extended", "answer"} => Budget = ConnectBudget
      BY DEF Budget, Handshaking
    <2>3. spent' < 2 * Budget
      BY <1>2, <1>3, <1>4, <1>7
    <2> QED BY <1>3, <1>7, <2>1, <2>2, <2>3, Budgets DEF Clocks, Reading
  <1>13. outcome' = NoVerdict /\ step' \in Speaking
    BY <1>3 DEF PInv, Undecided, Speaking
  <1>14. GreetingIsTheDestinations'
    <2>1. Ordered'
      BY <1>8, <1>9, <1>10, <1>11 DEF Ordered
    <2>2. (Ordered /\ step \in Reading => \A k \in 1 .. Len(got) : got[k] # "greeting")'
      BY NoGreetingRead, PTL
    <2>3. DOMAIN got' = 1 .. Len(got') /\ step' \in Reading
      BY <1>3, <1>6
    <2> QED BY <1>3, <2>1, <2>2, <2>3 DEF PInv, GreetingIsTheDestinations
  <1>15. EveryoneHearsTheirOwn'
    BY <1>3 DEF PInv, EveryoneHearsTheirOwn, Destination
  <1> QED BY <1>7, <1>8, <1>9, <1>10, <1>11, <1>12, <1>13, <1>14, <1>15, NothingSaidYet DEF PInv

-----------------------------------------------------------------------------
(* A message is sent, and the hop decides what it will answer.             *)

LEMMA EmptyConcat ==
  \A s \in Seq(Token) : << >> \o s = s /\ s \o << >> = s
  BY ConcatEmptySeq

LEMMA ConcatFirst ==
  ASSUME NEW s \in Seq(Token), NEW t \in Seq(Token), s # << >>
  PROVE  s \o t \in Seq(Token) /\ (s \o t)[1] = s[1] /\ s \o t # << >>
  <1>1. 1 \in 1 .. Len(s)
    OBVIOUS
  <1>2. Begins(s, s \o t) /\ s \o t \in Seq(Token)
    BY ConcatBegins
  <1>3. s[1] = (s \o t)[1]
    BY <1>1, <1>2 DEF Begins
  <1>4. Len(s \o t) # 0
    BY <1>1, <1>2 DEF Begins
  <1> QED BY <1>2, <1>3, <1>4

LEMMA HandshakeOpensNothing ==
  ASSUME NEW message \in Selections \union Statuses
  PROVE  ~OpensTunnel(message)
  BY DEF Selections, Statuses, OpensTunnel

LEMMA MessagesReachTheHop ==
  ASSUME peer = at, at \in Nat, at < Destination, step \in Writing, NEW m \in Messages
  PROVE  m.to = m.for /\ m.to # Destination
  <1>1. m = [what |-> step, for |-> at, to |-> peer] \/ m = [what |-> "credentials", for |-> at, to |-> peer]
    BY DEF Messages, Credentials
  <1> QED BY <1>1 DEF Destination

LEMMA SendClock ==
  ASSUME PInv, step \in Writing, step' = Awaiting[step],
         NEW elapsed \in 0 .. (Budget - 1), spent' = Clock(elapsed),
         outcome' = outcome
  PROVE  spent' \in Nat /\ Clocks'
  <1>1. spent \in Nat /\ (step = "credentials" => spent < 2 * HandshakeBudget)
    BY DEF PInv, Scalars, Clocks
  <1>2. CASE step = "greet"
    <2>1. spent' = elapsed /\ Budget = HandshakeBudget /\ step' = "selection"
      BY <1>2 DEF Clock, Budget, Handshaking, Awaiting
    <2> QED BY <2>1, Budgets DEF Clocks
  <1>3. CASE step = "credentials"
    <2>1. spent' = spent + elapsed /\ Budget = HandshakeBudget /\ step' = "status"
      BY <1>3 DEF Clock, Budget, Handshaking, Awaiting
    <2>2. spent' \in Nat /\ spent' < 3 * HandshakeBudget
      BY <1>1, <1>3, <2>1, Budgets
    <2> QED BY <2>1, <2>2 DEF Clocks
  <1>4. CASE step = "extend"
    <2>1. spent' = 0 /\ step' = "extended"
      BY <1>4 DEF Clock, Awaiting
    <2> QED BY <2>1, Budgets DEF Clocks
  <1>5. CASE step = "request"
    <2>1. spent' = elapsed /\ Budget = ConnectBudget /\ step' = "answer"
      BY <1>5 DEF Clock, Budget, Handshaking, Awaiting
    <2> QED BY <2>1, Budgets DEF Clocks
  <1> QED BY <1>2, <1>3, <1>4, <1>5 DEF Writing

LEMMA SendKeeps == ASSUME PInv, Send PROVE PInv'
  <1>1. PICK elapsed \in 0 .. (Budget - 1) : spent' = Clock(elapsed)
    BY DEF Send
  <1>2. PICK reply \in CASE step = "greet"       -> Selections
                         [] step = "credentials" -> Statuses
                         [] OTHER                -> Replies(at) : Answers(reply)
    BY DEF Send
  <1>3. /\ step \in Writing /\ got' = << >> /\ step' = Awaiting[step]
        /\ sent' = sent \union Messages
        /\ UNCHANGED <<path, options, at, outcome, heard>>
    BY DEF Send, planVars
  <1>4. PICK next \in Following(reply) : wire' = wire \o reply \o next
    BY <1>2 DEF Answers
  <1>5. /\ path \in Seq(Hop) /\ at \in Nat /\ at \in 1 .. Len(path) /\ peer = at
        /\ at < Destination /\ peer \in Nat
        /\ step = "request" => at = Len(path)
        /\ step = "extend" => at < Len(path)
        /\ step \in {"greet", "credentials"} => path[at].kind = "socks5"
        /\ wire = << >> \/ (wire = Early /\ (step = "greet" \/ path[at].kind = "http"))
    <2>1. Standing /\ Stream /\ Scalars
      BY DEF PInv
    <2>2. path \in Seq(Hop) /\ at \in Nat /\ peer = at /\ at \in 1 .. Len(path)
      BY <1>3, <2>1 DEF Standing, Scalars, Speaking, Destination
    <2>3. at < Destination /\ peer \in Nat
      BY <2>2 DEF Destination
    <2> QED BY <1>3, <2>1, <2>2, <2>3 DEF Standing, Stream
  <1>6. path[at].kind \in {"socks5", "http"}
    BY <1>5, HopKinds
  <1>7. spent' \in Nat /\ Clocks'
    BY <1>1, <1>3, SendClock
  <1>8. outcome' = NoVerdict /\ step' \in Speaking /\ step' \in Reading
    BY <1>3 DEF PInv, Undecided, Speaking, Awaiting, Writing, Reading
  <1>9. GreetingIsTheDestinations'
    BY <1>3 DEF PInv, GreetingIsTheDestinations
  <1>10. EveryoneHearsTheirOwn'
    <2>1. \A m \in Messages : m.to = m.for /\ m.to # Destination
      BY <1>3, <1>5, MessagesReachTheHop
    <2>2. Destination' = Destination
      BY <1>3 DEF Destination
    <2> QED BY <1>3, <2>1, <2>2 DEF PInv, EveryoneHearsTheirOwn
  <1>11. Progress'
    <2>1. Len(got') = 0
      BY <1>3
    <2> QED BY <2>1, ProxyPathAssumption DEF Progress, SocksPartEnd
  <1>12. got' \in Seq(Token) /\ \A s \in Seq(Token) : got' \o s = s
    BY <1>3, EmptyConcat
  <1>13. CASE step \in {"greet", "credentials"}
    <2>1. reply \in Selections \union Statuses
      BY <1>13
    <2>2. reply \in Seq(Token) /\ ~OpensTunnel(reply)
      BY <2>1, HandshakeShape, HandshakeOpensNothing
    <2>3. next = << >>
      BY <2>2 DEF Following
    <2>4. wire \in Seq(Token) /\ wire' = wire \o reply
      <3>1. wire \in Seq(Token)
        BY DEF PInv, Scalars
      <3>2. wire \o reply \in Seq(Token)
        BY <2>2, <3>1, ConcatProperties
      <3> QED BY <1>4, <2>3, <3>1, <3>2, EmptyConcat
    <2>5. wire' \in Seq(Token) /\ got' \o wire' = wire \o reply
      <3>1. wire' \in Seq(Token)
        BY <2>2, <2>4, ConcatProperties
      <3> QED BY <1>12, <2>4, <3>1
    <2>6. wire = << >> => wire \o reply = reply
      BY <2>2, EmptyConcat
    <2>7. peer' = peer
      BY <1>2, <1>13 DEF Answers
    <2>8. (step = "greet" /\ step' = "selection") \/ (step = "credentials" /\ step' = "status")
      BY <1>3, <1>13 DEF Awaiting
    <2>9. Scalars'
      BY <1>3, <1>7, <1>8, <1>12, <2>5, <2>7 DEF PInv, Scalars, Steps, Speaking
    <2>10. Standing'
      BY <1>3, <1>5, <1>13, <2>7, <2>8 DEF Standing, Destination, Speaking, Writing, Reading
    <2>11. Stream'
      <3>1. CASE step = "greet" /\ step' = "selection"
        <4>1. reply \in Selections
          BY <1>2, <3>1
        <4>2. got' \o wire' = reply \/ got' \o wire' = Early \o reply
          BY <1>5, <2>5, <2>6
        <4> QED BY <3>1, <4>1, <4>2 DEF Stream, Socks, Http, Writing
      <3>2. CASE step = "credentials" /\ step' = "status"
        <4>1. reply \in Statuses
          BY <1>2, <3>2
        <4>2. wire = << >>
          BY <1>5, <3>2
        <4>3. got' \o wire' = reply
          BY <2>5, <2>6, <4>2
        <4> QED BY <3>2, <4>1, <4>3 DEF Stream, Socks, Http, Writing
      <3> QED BY <2>8, <3>1, <3>2
    <2> QED BY <1>7, <1>8, <1>9, <1>10, <1>11, <2>9, <2>10, <2>11, NothingSaidYet DEF PInv
  <1>14. CASE step \in {"extend", "request"}
    <2>1. reply \in Replies(at)
      BY <1>2, <1>14
    <2>2. /\ path[at].kind = "socks5" => reply \in SocksReplies
          /\ path[at].kind = "http" => reply \in HttpReplies
      BY <1>6, <2>1 DEF Replies
    <2>3. reply \in Seq(Token)
      BY <1>6, <2>2, SocksReplyShape, HttpReplyShape
    <2>4. (step = "extend" /\ step' = "extended") \/ (step = "request" /\ step' = "answer")
      BY <1>3, <1>14 DEF Awaiting
    <2>5. next \in Nexts' /\ (~OpensTunnel(reply) => next = << >>)
      BY <2>4 DEF Following, Nexts, Greetings, Early
    <2>6. next \in Seq(Token)
      <3>1. next \in Greetings \union {<< >>, Early}
        BY <2>4 DEF Following, Greetings, Early
      <3> QED BY <3>1, NextsAreMessages
    <2>7. peer' = IF OpensTunnel(reply) THEN at + 1 ELSE at
      BY <1>2, <1>5, <1>14 DEF Answers
    <2>8. step' = "answer" => answer' = reply[1]
      BY <1>2, <2>4 DEF Answers
    <2>9. wire \in Seq(Token)
      BY DEF PInv, Scalars
    <2>10. wire \o reply \in Seq(Token)
      BY <2>3, <2>9, ConcatProperties
    <2>11. wire' \in Seq(Token)
      BY <1>4, <2>6, <2>10, ConcatProperties
    <2>12. got' \o wire' = wire \o reply \o next
      BY <1>4, <1>12, <2>11
    <2>13. Scalars'
      BY <1>3, <1>5, <1>7, <1>8, <1>12, <2>7, <2>11 DEF PInv, Scalars, Steps, Speaking
    <2>14. Standing'
      BY <1>3, <1>5, <1>14, <2>4, <2>7 DEF Standing, Destination, Speaking, Writing, Reading
    <2>15. CASE wire = << >>
      <3>1. got' \o wire' = reply \o next
        BY <2>3, <2>12, <2>15, EmptyConcat
      <3>2. ASSUME NEW replies, reply \in replies PROVE FromReply(replies, Nexts)'
        BY <1>3, <2>5, <2>7, <2>8, <3>1, <3>2 DEF FromReply
      <3>3. Socks' => FromReply(SocksReplies, Nexts)'
        BY <1>3, <2>2, <3>2 DEF Socks
      <3>4. Http' => FromReply(HttpReplies, Nexts)'
        BY <1>3, <2>2, <3>2 DEF Http
      <3>5. Stream'
        BY <2>4, <3>3, <3>4 DEF Stream, Writing
      <3> QED BY <1>7, <1>8, <1>9, <1>10, <1>11, <2>13, <2>14, <3>5, NothingSaidYet DEF PInv
    <2>16. CASE wire = Early /\ path[at].kind = "http"
      <3>1. Early # << >> /\ Early \in Seq(Token) /\ Early[1] = "early"
        BY NextsAreMessages
      <3>2. wire \o reply # << >> /\ (wire \o reply)[1] = "early"
        BY <2>3, <2>16, <3>1, ConcatFirst
      <3>3. (wire \o reply \o next)[1] = "early"
        BY <2>6, <2>10, <3>2, ConcatFirst
      <3>4. ~Socks'
        BY <1>3, <2>16 DEF Socks
      <3>5. Stream'
        BY <2>4, <2>12, <3>3, <3>4 DEF Stream, Writing
      <3> QED BY <1>7, <1>8, <1>9, <1>10, <1>11, <2>13, <2>14, <3>5, NothingSaidYet DEF PInv
    <2> QED BY <1>5, <1>14, <2>15, <2>16
  <1> QED BY <1>3, <1>13, <1>14 DEF Writing

-----------------------------------------------------------------------------
(* What a message means.                                                   *)

LEMMA InvIsOrdered == PInv => Ordered
  BY DEF PInv, Ordered

(* A hop that cannot be used.                                              *)
LEMMA RefusedKeeps ==
  ASSUME PInv, step \in Reading, EndsWith(Verdict("error", "proxy_reply", step)),
         UNCHANGED <<path, options, at, peer, wire, got, spent, heard, sent>>
  PROVE  PInv'
  <1>1. /\ spent' \in Nat
        /\ step \in Handshaking => spent' < 3 * HandshakeBudget
        /\ step \in Connecting => spent' < 2 * ConnectBudget
    BY AwaitedClock
  <1>2. outcome' = Verdict("error", "proxy_reply", step) /\ step' = "done" /\ step \in Speaking
    BY DEF EndsWith, Speaking
  <1> QED BY <1>1, <1>2, FailedProbe

LEMMA RefusedIs == Refused = Verdict("error", "proxy_reply", step)
  BY DEF Refused, BlameHop, Verdict

(* The greeting of a hop ends, and it is asked for the next party.         *)
LEMMA GoesOn ==
  ASSUME PInv, step \in {"selection", "status"}, wire = << >>,
         \/ step' = Ask(at)
         \/ step' = "credentials" /\ step = "selection",
         UNCHANGED <<path, options, at, peer, wire, got, spent, outcome, heard, sent, answer>>
  PROVE  PInv'
  <1>1. /\ path \in Seq(Hop) /\ at \in 1 .. Len(path) /\ peer = at
        /\ path[at].kind = "socks5" /\ spent \in Nat
    <2>1. Standing /\ Scalars
      BY DEF PInv
    <2> QED BY <2>1 DEF Standing, Scalars, Destination, Speaking, Reading
  <1>2. /\ step' \in {"request", "extend", "credentials"}
        /\ step' = "request" => at = Len(path)
        /\ step' = "extend" => at # Len(path)
        /\ step' = "credentials" => step = "selection"
    BY EnterIsWriting
  <1>3. Scalars'
    BY <1>2 DEF PInv, Scalars, Steps, Writing
  <1>4. Standing'
    <2>1. at \in 1 .. (Len(path) + 1) /\ peer \in 0 .. (Len(path) + 1) /\ at <= Len(path)
      BY <1>1
    <2>2. ASSUME step' = "extend" PROVE at < Len(path)
      <3>1. at # Len(path)
        BY <1>2, <2>2
      <3>2. at \in 1 .. Len(path) /\ Len(path) \in Nat
        BY <1>1
      <3> QED BY <3>1, <3>2
    <2> QED BY <1>1, <1>2, <2>1, <2>2 DEF Standing, Destination, Speaking, Writing, Reading
  <1>5. Stream' /\ Progress'
    BY <1>2 DEF Stream, Progress, Socks, Http, Writing
  <1>6. Clocks'
    <2>1. step = "selection" => spent < 2 * HandshakeBudget
      BY DEF PInv, Clocks
    <2> QED BY <1>2, <2>1 DEF Clocks
  <1>7. outcome' = NoVerdict /\ step' \in Speaking /\ spent' \in Nat
    BY <1>1, <1>2 DEF PInv, Undecided, Speaking, Writing, Reading
  <1>8. GreetingIsTheDestinations' /\ EveryoneHearsTheirOwn'
    BY DEF PInv, GreetingIsTheDestinations, EveryoneHearsTheirOwn, Destination
  <1> QED BY <1>3, <1>4, <1>5, <1>6, <1>7, <1>8, NothingSaidYet DEF PInv

LEMMA SelectedKeeps == ASSUME PInv, Selected PROVE PInv'
  <1>1. /\ step = "selection" /\ Whole /\ step \in Reading
        /\ UNCHANGED <<path, options, at, peer, wire, got, spent, heard, sent, answer>>
    BY DEF Selected, Understood, planVars, Reading
  <1>2. CASE EndsWith(Refused)
    BY <1>1, <1>2, RefusedIs, RefusedKeeps
  <1>3. CASE /\ got = <<"socks", "none">> \/ got = <<"socks", "userpass">>
             /\ step' = Ask(at) \/ step' = "credentials"
             /\ UNCHANGED outcome
    <2>1. got[1] # "early"
      BY <1>3
    <2>2. wire = << >>
      BY <1>1, <2>1, InvIsOrdered, HandshakeIsWhole
    <2> QED BY <1>1, <1>3, <2>2, GoesOn
  <1> QED BY <1>2, <1>3 DEF Selected

LEMMA AuthenticatedKeeps == ASSUME PInv, Authenticated PROVE PInv'
  <1>1. /\ step = "status" /\ Whole /\ step \in Reading
        /\ UNCHANGED <<path, options, at, peer, wire, got, spent, heard, sent, answer>>
    BY DEF Authenticated, Understood, planVars, Reading
  <1>2. CASE EndsWith(Refused)
    BY <1>1, <1>2, RefusedIs, RefusedKeeps
  <1>3. CASE step' = Ask(at) /\ UNCHANGED outcome
    <2>1. wire = << >>
      BY <1>1, InvIsOrdered, HandshakeIsWhole
    <2> QED BY <1>1, <1>3, <2>1, GoesOn
  <1> QED BY <1>2, <1>3 DEF Authenticated

LEMMA ExtendedKeeps == ASSUME PInv, Extended PROVE PInv'
  <1>1. /\ step = "extended" /\ Whole /\ ~Malformed /\ step \in Reading
        /\ UNCHANGED <<path, options, peer, wire, got, spent, heard, sent, answer>>
    BY DEF Extended, Understood, planVars, Reading
  <1>2. CASE ~OpensTunnel(got)
    <2>1. EndsWith(Verdict("error", "proxy_reply", step)) /\ UNCHANGED at
      BY <1>2 DEF Extended
    <2> QED BY <1>1, <2>1, RefusedKeeps
  <1>3. CASE OpensTunnel(got)
    <2>1. at' = at + 1 /\ step' = Enter(at + 1) /\ outcome' = outcome
      BY <1>3 DEF Extended
    <2>2. /\ path \in Seq(Hop) /\ at \in Nat /\ at >= 1 /\ at < Len(path)
          /\ Len(path) \in Nat /\ spent \in Nat
      <3>1. Standing /\ Scalars
        BY DEF PInv
      <3> QED BY <1>1, <3>1 DEF Standing, Scalars, Destination
    <2>3. PICK next \in Nexts :
            wire = next /\ (IF OpensTunnel(got) THEN peer = at + 1 ELSE next = << >>)
      BY <1>1, InvIsOrdered, AnswerIsWhole
    <2>4. (wire = << >> \/ wire = Early) /\ peer = at + 1
      BY <1>1, <1>3, <2>3 DEF Nexts
    <2>5. at + 1 \in 1 .. Len(path) /\ path[at + 1].kind \in {"socks5", "http"}
      <3>1. at + 1 \in 1 .. Len(path)
        BY <2>2
      <3> QED BY <2>2, <3>1, HopKinds
    <2>6. /\ step' \in {"greet", "request", "extend"}
          /\ step' = "greet" <=> path[at + 1].kind = "socks5"
          /\ step' = "request" => at + 1 = Len(path)
          /\ step' = "extend" => at + 1 # Len(path)
      BY <2>1, EnterIsWriting
    <2>7. Scalars'
      BY <1>1, <2>1, <2>2, <2>6 DEF PInv, Scalars, Steps, Writing
    <2>8. Standing'
      <3>1. /\ at' = at + 1 /\ peer' = at + 1 /\ path' = path
            /\ at + 1 \in 1 .. (Len(path) + 1) /\ at + 1 \in 0 .. (Len(path) + 1)
            /\ at + 1 <= Len(path)
        BY <1>1, <2>1, <2>2, <2>4
      <3>2. ASSUME step' = "extend" PROVE at + 1 < Len(path)
        <4>1. at + 1 # Len(path)
          BY <2>6, <3>2
        <4> QED BY <2>2, <4>1
      <3> QED BY <2>6, <3>1, <3>2 DEF Standing, Destination, Speaking, Writing, Reading
    <2>9. Stream'
      <3>1. step' = "greet" \/ path'[at'].kind = "http"
        BY <1>1, <2>1, <2>5, <2>6
      <3>2. wire' = << >> \/ wire' = Early
        BY <1>1, <2>4
      <3> QED BY <2>6, <3>1, <3>2 DEF Stream, Socks, Http
    <2>10. Progress' /\ Clocks'
      BY <2>6 DEF Progress, Clocks, Socks, Http
    <2>11. outcome' = NoVerdict /\ step' \in Speaking /\ spent' \in Nat
      BY <1>1, <2>1, <2>2, <2>6 DEF PInv, Undecided, Speaking, Writing, Reading
    <2>12. GreetingIsTheDestinations' /\ EveryoneHearsTheirOwn'
      BY <1>1 DEF PInv, GreetingIsTheDestinations, EveryoneHearsTheirOwn, Destination
    <2> QED BY <2>7, <2>8, <2>9, <2>10, <2>11, <2>12, NothingSaidYet DEF PInv
  <1> QED BY <1>2, <1>3

LEMMA VerdictOfAnAnswer ==
  ASSUME NEW code, step = "answer",
         outcome' = IF Http THEN ClassifyStatus(code) ELSE ClassifyReply(code)
  PROVE  /\ outcome'.source = "proxy_reply" /\ outcome'.reason = "answer"
         /\ outcome'.pressure = "none"
         /\ outcome'.state \in {"open", "closed", "filtered", "error"}
         /\ outcome'.state = "open" => code \in {"succeeded", "2xx"}
         /\ outcome'.state = "closed" => code = "refused"
         /\ outcome'.state = "filtered" => code = "unreachable"
         /\ outcome' # NoVerdict
  <1>1. \E state \in {"open", "closed", "filtered", "error"} :
          /\ outcome' = Verdict(state, "proxy_reply", "answer")
          /\ state = "open" => code \in {"succeeded", "2xx"}
          /\ state = "closed" => code = "refused"
          /\ state = "filtered" => code = "unreachable"
    <2>1. CASE Http
      BY <2>1 DEF ClassifyStatus
    <2>2. CASE ~Http
      BY <2>2 DEF ClassifyReply
    <2> QED BY <2>1, <2>2
  <1>2. PICK state \in {"open", "closed", "filtered", "error"} :
          /\ outcome' = Verdict(state, "proxy_reply", "answer")
          /\ state = "open" => code \in {"succeeded", "2xx"}
          /\ state = "closed" => code = "refused"
          /\ state = "filtered" => code = "unreachable"
    BY <1>1
  <1>3. /\ outcome'.state = state /\ outcome'.source = "proxy_reply"
        /\ outcome'.reason = "answer" /\ outcome'.pressure = "none"
    BY <1>2 DEF Verdict
  <1>4. outcome' # NoVerdict
    <2>1. NoVerdict.state = "none"
      BY DEF NoVerdict, Verdict
    <2> QED BY <1>3, <2>1
  <1> QED BY <1>2, <1>3, <1>4

LEMMA AnsweredKeeps == ASSUME PInv, Answered PROVE PInv'
  <1>1. /\ step = "answer" /\ Whole /\ ~Malformed
        /\ outcome' = IF Http THEN ClassifyStatus(got[1]) ELSE ClassifyReply(got[1])
        /\ step' = IF outcome'.state = "open" THEN "listen" ELSE "done"
        /\ UNCHANGED <<path, options, at, peer, wire, got, spent, heard, sent, answer>>
    BY DEF Answered, Understood, planVars
  <1>2. PICK next \in Nexts :
          /\ wire = next
          /\ IF OpensTunnel(got) THEN peer = at + 1 ELSE next = << >>
          /\ answer = got[1]
    BY <1>1, InvIsOrdered, AnswerIsWhole
  <1>3. wire \in Greetings
    BY <1>1, <1>2 DEF Nexts
  <1>4. /\ outcome'.source = "proxy_reply" /\ outcome'.reason = "answer"
        /\ outcome'.pressure = "none"
        /\ outcome'.state \in {"open", "closed", "filtered", "error"}
        /\ outcome'.state = "open" => got[1] \in {"succeeded", "2xx"}
        /\ outcome'.state = "closed" => got[1] = "refused"
        /\ outcome'.state = "filtered" => got[1] = "unreachable"
        /\ outcome' # NoVerdict
    BY <1>1, VerdictOfAnAnswer
  <1>5. /\ Scalars /\ Standing /\ at = Len(path) /\ at \in Nat /\ spent \in Nat
        /\ spent < 2 * ConnectBudget
    BY <1>1 DEF PInv, Scalars, Standing, Clocks
  <1>6. step' \in {"listen", "done"} /\ (step' = "listen" => outcome'.state = "open")
    BY <1>1
  <1>7. outcome'.state = "open" => peer = Destination
    <2>1. outcome'.state = "open" => OpensTunnel(got)
      BY <1>4 DEF OpensTunnel
    <2> QED BY <1>2, <1>5, <2>1 DEF Destination
  <1>8. Scalars'
    BY <1>1, <1>5, <1>6 DEF Scalars, Steps
  <1>9. Standing'
    BY <1>1, <1>5, <1>6, <1>7 DEF Standing, Destination, Speaking, Writing, Reading
  <1>10. Stream' /\ Progress'
    BY <1>1, <1>3, <1>6 DEF Stream, Progress, Socks, Http, Writing
  <1>11. Clocks'
    BY <1>1, <1>4, <1>5, <1>6 DEF Clocks, Handshaking
  <1>12. Undecided'
    BY <1>4, <1>6 DEF Undecided, Speaking, Writing, Reading
  <1>13. VerdictIsAboutTheDestination'
    <2>1. Destination' = Destination /\ peer' = peer /\ answer' = got[1]
      BY <1>1, <1>2 DEF Destination
    <2> QED BY <1>4, <1>7, <2>1 DEF VerdictIsAboutTheDestination
  <1>14. OnlySilenceIsRetried' /\ ExchangeIsBounded'
    BY <1>1, <1>4, <1>5, <1>6 DEF OnlySilenceIsRetried, ExchangeIsBounded, Handshaking, Connecting
  <1>15. GreetingIsTheDestinations' /\ EveryoneHearsTheirOwn'
    BY <1>1 DEF PInv, GreetingIsTheDestinations, EveryoneHearsTheirOwn, Destination
  <1> QED BY <1>8, <1>9, <1>10, <1>11, <1>12, <1>13, <1>14, <1>15 DEF PInv

-----------------------------------------------------------------------------
(* An open port.                                                           *)

LEMMA ListenKeeps == ASSUME PInv, Listen PROVE PInv'
  <1>1. /\ step = "listen" /\ step' = "hello"
        /\ heard' = << >> \/ heard' = wire
        /\ wire' = wire \/ wire' = << >>
        /\ UNCHANGED <<path, options, at, peer, got, spent, outcome, sent, answer>>
    BY DEF Listen, planVars
  <1>2. Scalars /\ Standing /\ Stream /\ Clocks /\ Undecided
    BY DEF PInv
  <1>3. wire \in Greetings /\ wire \in Seq(Token)
    BY <1>1, <1>2 DEF Stream, Scalars
  <1>4. Scalars'
    <2>1. wire' \in Seq(Token) /\ heard' \in Seq(Token)
      <3>1. << >> \in Seq(Token)
        OBVIOUS
      <3> QED BY <1>1, <1>3, <3>1, Zenon
    <2> QED BY <1>1, <1>2, <2>1 DEF Scalars, Steps
  <1>5. Standing'
    BY <1>1, <1>2 DEF Standing, Destination, Speaking, Writing, Reading
  <1>6. Stream' /\ Progress'
    BY <1>1 DEF Stream, Progress, Socks, Http, Writing
  <1>7. Clocks' /\ Undecided'
    BY <1>1, <1>2 DEF Clocks, Undecided, Speaking, Writing, Reading
  <1>8. VerdictIsAboutTheDestination' /\ EveryoneHearsTheirOwn'
    BY <1>1 DEF PInv, VerdictIsAboutTheDestination, EveryoneHearsTheirOwn, Destination, Direct
  <1>9. OnlySilenceIsRetried'
    BY <1>1, <1>2 DEF Undecided, OnlySilenceIsRetried
  <1>10. ExchangeIsBounded'
    BY <1>1 DEF ExchangeIsBounded, Handshaking, Connecting
  <1>11. GreetingIsTheDestinations'
    <2>1. \A k \in DOMAIN wire : wire[k] = "greeting"
      BY <1>3 DEF Greetings
    <2> QED BY <1>1, <2>1 DEF PInv, GreetingIsTheDestinations
  <1> QED BY <1>4, <1>5, <1>6, <1>7, <1>8, <1>9, <1>10, <1>11 DEF PInv

LEMMA HelloKeeps == ASSUME PInv, Hello PROVE PInv'
  <1>1. /\ step = "hello" /\ step' = "done"
        /\ sent' = sent \/ sent' = sent \union {[what |-> "hello", for |-> Destination, to |-> peer]}
        /\ UNCHANGED <<path, options, at, peer, wire, got, spent, outcome, heard, answer>>
    BY DEF Hello, planVars
  <1>2. Scalars /\ Standing /\ Clocks /\ Undecided
    BY DEF PInv
  <1>3. peer = Destination /\ outcome.state = "open" /\ outcome.source # "timeout"
    BY <1>1, <1>2 DEF Standing, Undecided
  <1>4. Scalars'
    BY <1>1, <1>2 DEF Scalars, Steps
  <1>5. Standing'
    BY <1>1, <1>2 DEF Standing, Destination, Speaking, Writing, Reading
  <1>6. Stream' /\ Progress' /\ Clocks'
    BY <1>1 DEF Stream, Progress, Clocks, Socks, Http, Writing
  <1>7. Undecided'
    <2>1. NoVerdict.state = "none"
      BY DEF NoVerdict, Verdict
    <2>2. outcome # NoVerdict
      BY <1>3, <2>1
    <2> QED BY <1>1, <1>2, <2>2 DEF Undecided, Speaking, Writing, Reading
  <1>8. VerdictIsAboutTheDestination'
    BY <1>1 DEF PInv, VerdictIsAboutTheDestination, Destination, Direct
  <1>9. OnlySilenceIsRetried'
    BY <1>1, <1>3 DEF OnlySilenceIsRetried
  <1>10. ExchangeIsBounded'
    BY <1>1, <1>2 DEF Clocks, ExchangeIsBounded
  <1>11. GreetingIsTheDestinations'
    BY <1>1 DEF PInv, GreetingIsTheDestinations
  <1>12. EveryoneHearsTheirOwn'
    BY <1>1, <1>3 DEF PInv, EveryoneHearsTheirOwn, Destination
  <1> QED BY <1>4, <1>5, <1>6, <1>7, <1>8, <1>9, <1>10, <1>11, <1>12 DEF PInv

-----------------------------------------------------------------------------
(* The invariant, and what follows from it.                                *)

LEMMA PInvInit == Init => PInv
  <1> SUFFICES ASSUME Init PROVE PInv
    OBVIOUS
  <1>1. PICK n \in 0 .. MaxHops : path \in [1 .. n -> Hop]
    BY DEF Init
  <1>2. n \in Nat /\ path \in Seq(Hop) /\ Len(path) = n /\ Len(path) <= MaxHops
    BY <1>1, ProxyPathAssumption
  <1>3. /\ step = "dial" /\ at = 1 /\ peer = 0 /\ wire = << >> /\ got = << >> /\ heard = << >>
        /\ spent = 0 /\ outcome = NoVerdict /\ sent = {}
        /\ options \in [banner : BOOLEAN, tls : BOOLEAN]
    BY DEF Init
  <1>4. Scalars
    BY <1>2, <1>3 DEF Scalars, Steps
  <1>5. Standing
    BY <1>2, <1>3 DEF Standing, Destination, Speaking, Writing, Reading
  <1>6. Stream /\ Progress /\ Clocks
    BY <1>3 DEF Stream, Progress, Clocks, Socks, Http, Writing
  <1>7. /\ outcome.state = "none" /\ outcome.source = "none"
        /\ outcome.reason = "none" /\ outcome.pressure = "none"
    BY <1>3 DEF NoVerdict, Verdict
  <1>8. Undecided /\ VerdictIsAboutTheDestination /\ OnlySilenceIsRetried /\ ExchangeIsBounded
    BY <1>3, <1>7 DEF Undecided, VerdictIsAboutTheDestination, OnlySilenceIsRetried,
       ExchangeIsBounded, Handshaking, Connecting
  <1>9. GreetingIsTheDestinations /\ EveryoneHearsTheirOwn
    BY <1>3 DEF GreetingIsTheDestinations, EveryoneHearsTheirOwn
  <1> QED BY <1>4, <1>5, <1>6, <1>8, <1>9 DEF PInv

LEMMA PInvStutters == ASSUME PInv, UNCHANGED vars PROVE PInv'
  <1> USE DEF vars, planVars
  <1>1. Scalars' /\ Standing'
    BY DEF PInv, Scalars, Standing, Destination
  <1>2. Stream'
    BY DEF PInv, Stream, FromReply, Nexts, Socks, Http
  <1>3. Progress' /\ Clocks' /\ Undecided'
    BY DEF PInv, Progress, Clocks, Undecided, Socks, Http
  <1>4. VerdictIsAboutTheDestination' /\ OnlySilenceIsRetried' /\ ExchangeIsBounded'
    BY DEF PInv, VerdictIsAboutTheDestination, OnlySilenceIsRetried, ExchangeIsBounded,
       Destination, Direct
  <1>5. GreetingIsTheDestinations' /\ EveryoneHearsTheirOwn'
    BY DEF PInv, GreetingIsTheDestinations, EveryoneHearsTheirOwn, Destination
  <1> QED BY <1>1, <1>2, <1>3, <1>4, <1>5 DEF PInv

LEMMA PInvNext == PInv /\ [Next]_vars => PInv'
  <1> SUFFICES ASSUME PInv, [Next]_vars PROVE PInv'
    OBVIOUS
  <1>1. CASE Dial
    BY <1>1, DialKeeps
  <1>2. CASE DialFails
    BY <1>2, DialFailsKeeps
  <1>3. CASE Send
    BY <1>3, SendKeeps
  <1>4. CASE SendFails
    BY <1>4, SendFailsKeeps
  <1>5. CASE SocketRefusesTimeout
    BY <1>5, SocketRefusesTimeoutKeeps
  <1>6. CASE ReadSome
    BY <1>6, ReadSomeKeeps
  <1>7. CASE ReadFails
    BY <1>7, ReadFailsKeeps
  <1>8. CASE DeadlinePasses
    BY <1>8, DeadlinePassesKeeps
  <1>9. CASE Misunderstood
    BY <1>9, MisunderstoodKeeps
  <1>10. CASE Selected
    BY <1>10, SelectedKeeps
  <1>11. CASE Authenticated
    BY <1>11, AuthenticatedKeeps
  <1>12. CASE Extended
    BY <1>12, ExtendedKeeps
  <1>13. CASE Answered
    BY <1>13, AnsweredKeeps
  <1>14. CASE Listen
    BY <1>14, ListenKeeps
  <1>15. CASE Hello
    BY <1>15, HelloKeeps
  <1>16. CASE UNCHANGED vars
    BY <1>16, PInvStutters
  <1> QED BY <1>1, <1>2, <1>3, <1>4, <1>5, <1>6, <1>7, <1>8, <1>9, <1>10, <1>11, <1>12,
             <1>13, <1>14, <1>15, <1>16 DEF Next, Over

LEMMA PInvHolds == Spec => []PInv
  BY PInvInit, PInvNext, PTL DEF Spec

(* The state of a probe is well formed, and no reader stands beyond the    *)
(* end of the part of the message it waits for (read_reply, read_response).*)
THEOREM ProbeTypeCorrect == Spec => []TypeOK
  <1>1. PInv => TypeOK
    <2> SUFFICES ASSUME PInv PROVE TypeOK
      OBVIOUS
    <2>1. Scalars /\ Standing /\ Progress /\ Undecided /\ Len(got) \in Nat
      BY DEF PInv, Scalars
    <2>2. ASSUME WantsMore PROVE Len(got) < PartEnd
      <3>1. step \in Reading /\ ~Malformed /\ ~Whole
        BY <2>2 DEF WantsMore
      <3>2. CASE Http
        <4>1. PartEnd = Len(got) + 1
          BY <3>2 DEF PartEnd, Http, Socks
        <4> QED BY <2>1, <4>1
      <3>3. CASE Socks
        <4>1. PartEnd = SocksPartEnd(got) /\ ~WholeReply(got)
          BY <3>1, <3>3 DEF PartEnd, Whole, Http, Socks
        <4>2. Len(got) <= SocksPartEnd(got)
          BY <2>1, <3>3 DEF Progress
        <4>3. Len(got) # SocksPartEnd(got)
          <5> SUFFICES ASSUME Len(got) = SocksPartEnd(got) PROVE WholeReply(got)
            BY <4>1
          <5>1. Len(got) >= 2 /\ got[2] # "domain" => Len(got) = 4
            BY <2>1 DEF SocksPartEnd
          <5>2. Len(got) >= 2 /\ got[2] = "domain" => Len(got) = 5
            BY <2>1 DEF SocksPartEnd
          <5>3. Len(got) >= 2
            BY <2>1 DEF SocksPartEnd
          <5> QED BY <5>1, <5>2, <5>3 DEF WholeReply
        <4>4. SocksPartEnd(got) \in Nat
          BY DEF SocksPartEnd
        <4> QED BY <2>1, <4>1, <4>2, <4>3, <4>4
      <3>4. CASE ~Http /\ ~Socks
        <4>1. PartEnd = 2 /\ Len(got) # 2
          BY <3>1, <3>4 DEF PartEnd, Whole
        <4>2. step \in {"selection", "status"}
          <5>1. at \in 1 .. Len(path) \/ step \notin {"extended", "answer"}
            BY <2>1 DEF Standing, Destination, Speaking, Reading, Scalars
          <5>2. at \in 1 .. Len(path) => path[at].kind \in {"socks5", "http"}
            BY <2>1, HopKinds DEF Scalars
          <5> QED BY <3>1, <3>4, <5>1, <5>2 DEF Reading, Socks, Http
        <4>3. Len(got) <= 2
          BY <2>1, <4>2 DEF Progress
        <4>4. \A n \in Nat : n # 2 /\ n <= 2 => n < 2
          OBVIOUS
        <4>5. Len(got) < 2
          BY <2>1, <4>1, <4>3, <4>4, Zenon
        <4> QED BY <4>1, <4>5
      <3> QED BY <3>2, <3>3, <3>4
    <2>3. Socks => Len(got) <= SocksPartEnd(got)
      BY <2>1 DEF Progress
    <2> QED BY <2>1, <2>2, <2>3 DEF TypeOK, Scalars, Standing, Undecided, Steps, Destination
  <1> QED BY PInvHolds, <1>1, PTL

(* Whatever a hop answers, and however it is cut up on the way: an open,   *)
(* closed or filtered verdict was earned at the destination, and what went *)
(* wrong before it is an error (blame_hop, classify, classify_os_error).   *)
THEOREM VerdictsAreEarned == Spec => []VerdictIsAboutTheDestination
  <1>1. PInv => VerdictIsAboutTheDestination
    BY DEF PInv
  <1> QED BY PInvHolds, <1>1, PTL

(* What is_retryable lets a scan probe again is what nobody has answered.  *)
THEOREM RetriesAreOfSilence == Spec => []OnlySilenceIsRetried
  <1>1. PInv => OnlySilenceIsRetried
    BY DEF PInv
  <1> QED BY PInvHolds, <1>1, PTL

(* read_exact's deadline bounds an exchange for any budget, whatever the   *)
(* peer dribbles.                                                          *)
THEOREM BudgetsHold == Spec => []ExchangeIsBounded
  <1>1. PInv => ExchangeIsBounded
    BY DEF PInv
  <1> QED BY PInvHolds, <1>1, PTL

(* No reader of a hop's answer takes a byte that comes behind it, and the  *)
(* banner is made of such bytes only (read_reply, read_response,           *)
(* read_banner).                                                           *)
THEOREM GreetingIsWhole == Spec => []GreetingIsTheDestinations
  <1>1. PInv => GreetingIsTheDestinations
    BY DEF PInv
  <1> QED BY PInvHolds, <1>1, PTL

(* Over a path of any length each hop's credentials reach that hop and no  *)
(* other, and the service is sent a ClientHello or nothing.                *)
THEOREM CredentialsStayHome == Spec => []EveryoneHearsTheirOwn
  <1>1. PInv => EveryoneHearsTheirOwn
    BY DEF PInv
  <1> QED BY PInvHolds, <1>1, PTL

=============================================================================
