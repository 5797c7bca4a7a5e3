--------------------------- MODULE TlsProbeProofs ---------------------------
(***************************************************************************)
(* Theorems about TlsProbe, for servers of any kind, flights of any length *)
(* cut in any way, and any bounds: a flight is bounded, what was learned   *)
(* of it stands, and a survey says what the server speaks.                 *)
(***************************************************************************)
EXTENDS TlsProbe, TLAPS, FiniteSetTheorems, SequenceTheorems, WellFoundedInduction,
        NaturalsInduction

-----------------------------------------------------------------------------
(* The inductive invariant.                                                *)

Hellos == {Main} \union (SSL3 .. TLS12)

CertsIn(stream, n) == {k \in 1 .. n : stream[k].kind = "certificate"}
OneCertificate(stream) ==
  \A j, k \in DOMAIN stream :
    stream[j].kind = "certificate" /\ stream[k].kind = "certificate" => j = k

(* A script with fewer than two Certificate messages, or a real flight.    *)
Plain(s) == s.negotiates \/ Cardinality(Certificates(s.script)) < 2

(* What a flight is made of, and what it is for a server that negotiates.  *)
VersionOf(m) == IF m.is13 THEN TLS13 ELSE m.legacy
FlightIs(s, hello, stream) ==
  /\ stream \in Seq(HandshakeMessage)
  /\ Plain(s) => OneCertificate(stream)
  /\ s.negotiates =>
       /\ \A k \in DOMAIN stream :
            /\ stream[k].kind = "certificate" => stream[k].certs = s.certs
            /\ stream[k].kind = "server_hello" <=> k = 1
       /\ stream = << >> <=> Chosen(s, hello) = {}
       /\ stream # << >> =>
            /\ stream[1].kind = "server_hello" /\ stream[1].size = 1 /\ stream[1].ok
            /\ Chosen(s, hello) = {VersionOf(stream[1])}

(* What is known of a flight of which n messages were handled.             *)
Observed(s, hello, stream, n, o) ==
  /\ o \in Observation
  /\ CertsIn(stream, n) = {} => o.leaf = {} /\ o.der = {} /\ o.certs = 0
  /\ Plain(s) /\ o.der # {} => o.der = o.leaf
  /\ Len(o.chain) <= MaxChainKept
  /\ s.negotiates =>
       /\ o.certs > 0 => o.leaf = {s.certs[1]}
       /\ o.negotiated = IF n = 0 THEN {} ELSE Chosen(s, hello)

ParseErrors == {"", "bad_hello", "retry", "no_share", "bad_certificate", "huge_message"}

Parsed(s, hello, stream, n, total, st) ==
  /\ st \in [obs : Observation, keyed : BOOLEAN, over : BOOLEAN]
  /\ Observed(s, hello, stream, n, st.obs)
  /\ st.obs.error \in ParseErrors /\ (~st.over => st.obs.error = "")
  /\ st.obs.total = total
  /\ n = 0 => ~st.keyed /\ ~st.over

FlightState ==
  [stream : Seq(HandshakeMessage), got : Nat, drained : Nat, total : Nat,
   keyed : BOOLEAN, over : BOOLEAN]

ReadErrors == {"no reply", "header", "body"}

(* A flight, as far as it was read.                                        *)
Reader(fl, o) ==
  /\ fl \in FlightState /\ o \in Observation
  /\ fl.drained <= Len(fl.stream) /\ EndOf(fl.stream)[fl.drained] <= fl.got
  /\ fl.got <= fl.total /\ fl.total <= MaxFlight
  /\ o.total <= MaxFlight + HeaderSize
  /\ o.leaf # {} => o.error \notin ReadErrors
  /\ ~fl.over => o.error = ""

(* The flight that answers a hello: one of a server that negotiates has    *)
(* its hello in its first record, and ends behind it unless it breaks.     *)
Answering(s, hello, fl, o) ==
  /\ Observed(s, hello, fl.stream, fl.drained, o)
  /\ fl.drained = 0 => ~fl.keyed
  /\ s.negotiates =>
       /\ fl.got = 0 => fl.total = 0
       /\ fl.got # 0 => fl.drained # 0
       /\ fl.over /\ ~s.breaks => fl.stream = << >> \/ fl.drained # 0

(* What is kept of the main flight.                                        *)
Stands(s, o) ==
  /\ o \in Observation
  /\ Plain(s) /\ o.der # {} => o.der = o.leaf
  /\ Len(o.chain) <= MaxChainKept
  /\ s.negotiates /\ o.certs > 0 => o.leaf = {s.certs[1]}
MainIs(s, o) ==
  /\ Stands(s, o)
  /\ s.negotiates =>
       /\ o.negotiated \in {{}, Chosen(s, Main)}
       /\ ~s.breaks => o.negotiated = Chosen(s, Main)

(* The answers so far are those of the versions in order, and true.        *)
AnswerRecord == [version : ToSet(SurveyVersions), accepted : {"yes", "no", "unknown"}]
True(s, a) ==
  s.negotiates =>
    /\ a.accepted = "yes" => a.version \in s.speaks
    /\ ~s.breaks /\ a.version \in s.speaks => a.accepted = "yes"
Surveyed(s, hello, sv) ==
  /\ sv \in [answers : Seq(AnswerRecord), connections : Nat, leaf : SUBSET DOMAIN DerSize]
  /\ Len(sv.answers) \in 0 .. 6
  /\ \A k \in DOMAIN sv.answers :
       sv.answers[k].version = SurveyVersions[k] /\ True(s, sv.answers[k])
  /\ sv.leaf # {} => sv.leaf = s.ssl2
  /\ hello \in SSL3 .. TLS12 =>
       /\ ~Answered(sv.answers) /\ NextVersion(sv.answers) = hello
       /\ sv.connections <= Len(sv.answers) + 1
  /\ hello \notin SSL3 .. TLS12 =>
       sv.connections <= Len(sv.answers) /\ sv.connections <= 5

Resting(fl, o) == fl.over /\ o = NoObs

(* What the survey leaves of what the main flight taught.                  *)
GapFilled(b, m, leaf) ==
  /\ b.leaf # {} => m = b
  /\ b.leaf = {} => m = [b EXCEPT !.leaf = leaf, !.der = m.der]

Remembered(hello, b, m, sv) ==
  /\ b \in Observation
  /\ hello \notin {Main, Over} => m = b
  /\ hello = Over => GapFilled(b, m, sv.leaf)

TInv ==
  /\ server \in Servers
  /\ asked \in Hellos \union {Between, Over}
  /\ Reader(reading, obs)
  /\ asked \in Hellos =>
       reading.stream = Flight(server, asked) /\ Answering(server, asked, reading, obs)
  /\ asked \notin Hellos => Resting(reading, obs)
  /\ IF asked = Main THEN main = NoObs /\ survey = NoSurvey ELSE MainIs(server, main)
  /\ Surveyed(server, asked, survey)
  /\ asked \notin {Main, Over} => server.surveyed
  /\ asked = Over /\ server.surveyed => Answered(survey.answers)
  /\ Remembered(asked, before, main, survey)

-----------------------------------------------------------------------------
(* Numbers, and the versions.                                              *)

(* A non-empty set of integers within bounds has a greatest element.       *)
LEMMA GreatestInRange ==
  ASSUME NEW a \in Int, NEW b \in Int, NEW S \in SUBSET (a .. b), S # {}
  PROVE  Max(S) \in S /\ \A y \in S : Max(S) >= y
  <1> DEFINE D == {b - y : y \in S}
  <1>1. D \in SUBSET Nat /\ D # {}
    OBVIOUS
  <1>2. PICK d \in D : \A e \in D : ~ (<<e, d>> \in OpToRel(<, Nat))
    <2> HIDE DEF D
    <2> QED BY <1>1, NatLessThanWellFounded, WFMin
  <1>3. PICK x \in S : d = b - x
    OBVIOUS
  <1>4. ASSUME NEW y \in S PROVE x >= y
    <2>1. b - y \in D /\ b - y \in Nat /\ d \in Nat
      BY <1>1
    <2>2. ~ (b - y < d)
      BY <1>2, <2>1 DEF OpToRel
    <2>3. x \in Int /\ y \in Int
      OBVIOUS
    <2> QED BY <1>3, <2>2, <2>3
  <1>5. \E z \in S : \A y \in S : z >= y
    BY <1>4
  <1> QED BY <1>5 DEF Max

LEMMA GreatestVersion ==
  ASSUME NEW S, S \subseteq 2 .. 7, S # {}
  PROVE  Max(S) \in S /\ \A y \in S : Max(S) >= y
  <1> DEFINE a == 2
             b == 7
  <1>1. a \in Int /\ b \in Int /\ S \in SUBSET (a .. b)
    OBVIOUS
  <1> HIDE DEF a, b
  <1> QED BY <1>1, GreatestInRange

LEMMA LesserOfTwo ==
  ASSUME NEW a \in Int, NEW b \in Int
  PROVE  Min({a, b}) \in Int /\ Min({a, b}) <= a /\ Min({a, b}) <= b
  <1>1. \E x \in {a, b} : \A y \in {a, b} : x =< y
    BY SMT
  <1>2. Min({a, b}) \in {a, b} /\ \A y \in {a, b} : Min({a, b}) =< y
    BY <1>1 DEF Min
  <1> QED BY <1>2

LEMMA Versions ==
  /\ SurveyVersions \in Seq(2 .. 7) /\ Len(SurveyVersions) = 6
  /\ \A k \in 1 .. 6 : SurveyVersions[k] = k + 1
  /\ ToSet(SurveyVersions) = 2 .. 7
  <1>1. SurveyVersions = <<2, 3, 4, 5, 6, 7>>
    BY DEF SurveyVersions, SSL2, SSL3, TLS12, TLS13
  <1>2. /\ SurveyVersions \in Seq(2 .. 7) /\ Len(SurveyVersions) = 6
        /\ \A k \in 1 .. 6 : SurveyVersions[k] = k + 1
    BY <1>1
  <1>3. DOMAIN SurveyVersions = 1 .. 6
    BY <1>2
  <1>4. ASSUME NEW v \in 2 .. 7 PROVE v \in ToSet(SurveyVersions)
    <2>1. v - 1 \in 1 .. 6 /\ SurveyVersions[v - 1] = v
      BY <1>2
    <2> QED BY <1>3, <2>1 DEF ToSet
  <1>5. ASSUME NEW v \in ToSet(SurveyVersions) PROVE v \in 2 .. 7
    <2>1. PICK k \in DOMAIN SurveyVersions : v = SurveyVersions[k]
      BY DEF ToSet
    <2> QED BY <1>2, <1>3, <2>1
  <1> QED BY <1>2, <1>4, <1>5

(* The version a server takes is one it speaks; of the versions a survey   *)
(* names it takes the one it is asked for, if it speaks that one.          *)
Choice(s, hello) ==
  \/ Chosen(s, hello) = {}
  \/ \E v \in s.speaks : v \in 3 .. 7 /\ Chosen(s, hello) = {v}

LEMMA ChosenIsSpoken ==
  ASSUME NEW s, s.speaks \subseteq 2 .. 7, NEW hello \in Hellos
  PROVE  /\ Choice(s, hello)
         /\ hello # Main =>
              /\ hello \in s.speaks => Chosen(s, hello) = {hello}
              /\ TLS13 \notin Chosen(s, hello)
         /\ hello = Main =>
              /\ TLS13 \in s.speaks => Chosen(s, hello) = {TLS13}
              /\ \A v \in Chosen(s, hello) : v # TLS13 => \A w \in s.speaks : w <= v
  <1> DEFINE offered == IF TLS13 \in s.speaks /\ Names13(hello) THEN {TLS13}
                        ELSE Offers(hello) \ {TLS13}
             has == s.speaks \intersect offered
  <1>1. hello = 0 \/ hello \in 3 .. 6
    BY DEF Hellos, Main, SSL3, TLS12
  <1>2. Offers(hello) = IF hello = 0 THEN 3 .. 7 ELSE 3 .. hello
    BY DEF Offers, Main, SSL3, TLS13
  <1>3. offered \subseteq 3 .. 7 /\ has \subseteq 3 .. 7 /\ has \subseteq s.speaks
    BY <1>1, <1>2 DEF Names13, TLS13
  <1>4. Chosen(s, hello) =
          IF has = {} \/ ~(s.stepsDown \/ Max(has) = Max(Offers(hello))) THEN {} ELSE {Max(has)}
    BY DEF Chosen
  <1>5. has # {} => Max(has) \in has /\ \A y \in has : Max(has) >= y
    <2> HIDE DEF has, offered
    <2> QED BY <1>3, GreatestVersion
  <1>6. Max(Offers(hello)) = IF hello = 0 THEN 7 ELSE hello
    <2> HIDE DEF has, offered
    <2> DEFINE top == IF hello = 0 THEN 7 ELSE hello
    <2>0. top \in 3 .. 7
      BY <1>1
    <2>1. Offers(hello) = 3 .. top
      BY <1>2, Zenon
    <2> HIDE DEF top
    <2>2. Max(3 .. top) \in 3 .. top /\ \A y \in 3 .. top : Max(3 .. top) >= y
      <3>1. 3 .. top \subseteq 2 .. 7 /\ 3 \in 3 .. top
        BY <2>0
      <3>2. 3 .. top # {}
        BY <3>1
      <3> DEFINE S == 3 .. top
      <3> HIDE DEF S
      <3>3. Max(S) \in S /\ \A y \in S : Max(S) >= y
        BY <3>1, <3>2, GreatestVersion DEF S
      <3> QED BY <3>3 DEF S
    <2>3. Max(3 .. top) = top
      BY <2>0, <2>2
    <2> QED BY <2>1, <2>3 DEF top
  <1>7. Choice(s, hello)
    <2> HIDE DEF has, offered
    <2> QED BY <1>3, <1>4, <1>5 DEF Choice
  <1>8. ASSUME hello # Main
        PROVE  /\ hello \in s.speaks => Chosen(s, hello) = {hello}
               /\ TLS13 \notin Chosen(s, hello)
    <2>1. hello \in 3 .. 6 /\ offered = (3 .. hello) \ {7}
      BY <1>1, <1>2, <1>8 DEF Main, Names13, TLS13
    <2>2. TLS13 \notin Chosen(s, hello)
      <3>1. 7 \notin has
        BY <2>1
      <3> HIDE DEF has, offered
      <3> QED BY <1>4, <1>5, <3>1 DEF TLS13
    <2>3. ASSUME hello \in s.speaks PROVE Chosen(s, hello) = {hello}
      <3>1. hello \in has /\ \A y \in has : y <= hello
        BY <2>1, <2>3
      <3> HIDE DEF has, offered
      <3>2. Max(has) \in has /\ Max(has) >= hello /\ Max(has) <= hello
        BY <1>5, <3>1
      <3>3. Max(has) \in Int /\ hello \in Int
        <4>1. Max(has) \in 3 .. 7
          BY <1>3, <3>2, Zenon
        <4>2. hello \in 3 .. 6
          BY <2>1, Zenon
        <4> QED BY <4>1, <4>2
      <3>4. Max(has) = hello
        BY <3>2, <3>3
      <3> QED BY <1>4, <1>6, <2>1, <3>1, <3>4
    <2> QED BY <2>2, <2>3
  <1>9. ASSUME hello = Main
        PROVE  /\ TLS13 \in s.speaks => Chosen(s, hello) = {TLS13}
               /\ \A v \in Chosen(s, hello) : v # TLS13 => \A w \in s.speaks : w <= v
    <2>1. ASSUME TLS13 \in s.speaks PROVE Chosen(s, hello) = {TLS13}
      <3>1. has = {7}
        BY <1>9, <2>1 DEF Names13, TLS13
      <3> HIDE DEF has, offered
      <3>2. Max(has) = 7
        BY <1>5, <3>1
      <3> QED BY <1>4, <1>6, <1>9, <3>1, <3>2 DEF TLS13, Main
    <2>2. ASSUME TLS13 \notin s.speaks, NEW v \in Chosen(s, hello), NEW w \in s.speaks PROVE w <= v
      <3>1. has = s.speaks \intersect 3 .. 6
        BY <1>2, <1>9, <2>2 DEF Main, TLS13
      <3>2. w \in has \/ w = 2
        BY <2>2, <3>1 DEF TLS13
      <3> HIDE DEF has, offered
      <3>3. v = Max(has) /\ has # {}
        BY <1>4, <2>2
      <3>4. v \in 3 .. 7
        BY <1>3, <1>5, <3>3
      <3> QED BY <1>5, <3>2, <3>3, <3>4
    <2> QED BY <2>1, <2>2
  <1> QED BY <1>7, <1>8, <1>9

-----------------------------------------------------------------------------
(* Sequences of states, each one made from the one before.                 *)

Unfolds(w, D, m, f, x) ==
  /\ w \in [0 .. m -> D]
  /\ w[0] = x
  /\ \A k \in 1 .. m : w[k] = f[k][w[k - 1]]

LEMMA Unfolding ==
  ASSUME NEW D, NEW x \in D, NEW m \in Nat, NEW f \in [1 .. m -> [D -> D]]
  PROVE  \E w : Unfolds(w, D, m, f, x)
  <1> DEFINE Bad == {j \in 0 .. m : ~ \E w : Unfolds(w, D, j, f, x)}
  <1>1. SUFFICES ASSUME Bad # {} PROVE FALSE
    OBVIOUS
  <1>2. Bad \in SUBSET Nat
    OBVIOUS
  <1> HIDE DEF Bad
  <1>3. PICK j \in Bad : \A y \in Bad : ~ (y < j)
    <2>1. PICK R : R = OpToRel(<, Nat)
      OBVIOUS
    <2>2. IsWellFoundedOn(R, Nat)
      BY <2>1, NatLessThanWellFounded, Zenon
    <2>3. PICK j \in Bad : \A y \in Bad : ~ (<<y, j>> \in R)
      BY <1>1, <1>2, <2>2, WFMin, Zenon
    <2> QED BY <1>2, <2>1, <2>3 DEF OpToRel
  <1>4. j \in 0 .. m /\ ~ \E w : Unfolds(w, D, j, f, x)
    BY <1>3 DEF Bad
  <1>5. CASE j = 0
    <2>1. Unfolds([k \in 0 .. 0 |-> x], D, 0, f, x)
      BY DEF Unfolds
    <2> QED BY <1>4, <1>5, <2>1
  <1>6. CASE j # 0
    <2>1. j - 1 \in 0 .. m /\ j - 1 \notin Bad
      BY <1>3, <1>4, <1>6
    <2>2. PICK w : Unfolds(w, D, j - 1, f, x)
      BY <2>1 DEF Bad
    <2> DEFINE v == [k \in 0 .. j |-> IF k < j THEN w[k] ELSE f[j][w[j - 1]]]
    <2>3. Unfolds(v, D, j, f, x)
      <3>1. w \in [0 .. (j - 1) -> D] /\ w[0] = x
            /\ \A k \in 1 .. (j - 1) : w[k] = f[k][w[k - 1]]
        BY <2>2 DEF Unfolds
      <3>2. v \in [0 .. j -> D]
        <4>1. ASSUME NEW k \in 0 .. j PROVE (IF k < j THEN w[k] ELSE f[j][w[j - 1]]) \in D
          <5>1. CASE k < j
            BY <1>4, <3>1, <5>1
          <5>2. CASE ~ (k < j)
            <6>1. j - 1 \in 0 .. (j - 1) /\ j \in 1 .. m
              BY <1>4, <1>6
            <6>2. w[j - 1] \in D
              BY <3>1, <6>1
            <6> QED BY <5>2, <6>1, <6>2
          <5> QED BY <5>1, <5>2
        <4> QED BY <4>1
      <3>3. v[0] = x
        BY <1>4, <1>6, <3>1
      <3>4. ASSUME NEW k \in 1 .. j PROVE v[k] = f[k][v[k - 1]]
        <4>1. k \in 0 .. j /\ k - 1 \in 0 .. j /\ k - 1 < j
          BY <1>4
        <4>2. v[k - 1] = w[k - 1]
          BY <4>1
        <4>3. CASE k < j
          <5>1. k \in 1 .. (j - 1) /\ v[k] = w[k]
            BY <1>4, <4>1, <4>3
          <5> HIDE DEF v
          <5> QED BY <3>1, <4>2, <5>1
        <4>4. CASE k = j
          <5>1. v[k] = f[j][w[j - 1]]
            BY <1>4, <4>1, <4>4
          <5> HIDE DEF v
          <5> QED BY <4>2, <4>4, <5>1
        <4> HIDE DEF v
        <4> QED BY <1>4, <4>3, <4>4
      <3> HIDE DEF v
      <3> QED BY <3>2, <3>3, <3>4 DEF Unfolds
    <2> QED BY <1>4, <2>3
  <1> QED BY <1>5, <1>6

(* What holds of the first state and is kept by each step holds of all.    *)
LEMMA KeptByEach ==
  ASSUME NEW m \in Nat, NEW S \in SUBSET (0 .. m), 0 \in S,
         \A k \in 1 .. m : k - 1 \in S => k \in S
  PROVE  S = 0 .. m
  <1> DEFINE Bad == (0 .. m) \ S
  <1>1. SUFFICES ASSUME Bad # {} PROVE FALSE
    OBVIOUS
  <1>2. Bad \in SUBSET Nat
    OBVIOUS
  <1> HIDE DEF Bad
  <1>3. PICK j \in Bad : \A y \in Bad : ~ (y < j)
    <2>1. PICK R : R = OpToRel(<, Nat)
      OBVIOUS
    <2>2. IsWellFoundedOn(R, Nat)
      BY <2>1, NatLessThanWellFounded, Zenon
    <2>3. PICK j \in Bad : \A y \in Bad : ~ (<<y, j>> \in R)
      BY <1>1, <1>2, <2>2, WFMin, Zenon
    <2> QED BY <1>2, <2>1, <2>3 DEF OpToRel
  <1>4. j \in 0 .. m /\ j \notin S
    BY <1>3 DEF Bad
  <1>5. j \in 1 .. m /\ j - 1 \in 0 .. m
    BY <1>4
  <1>6. j - 1 \in S
    <2>1. j - 1 \notin Bad
      BY <1>3, <1>5
    <2> QED BY <1>5, <2>1 DEF Bad
  <1> QED BY <1>4, <1>5, <1>6

(* Where the messages of a flight end.                                     *)
LEMMA MessagesEnd ==
  ASSUME NEW stream \in Seq(HandshakeMessage)
  PROVE  /\ EndOf(stream) \in [0 .. Len(stream) -> Nat]
         /\ EndOf(stream)[0] = 0
         /\ \A k \in 1 .. Len(stream) :
              EndOf(stream)[k] = EndOf(stream)[k - 1] + stream[k].size
  <1> DEFINE m == Len(stream)
             f == [k \in 1 .. m |-> [p \in Nat |-> p + stream[k].size]]
             T(w) == w = [k \in 0 .. m |-> IF k = 0 THEN 0 ELSE w[k - 1] + stream[k].size]
             E == EndOf(stream)
  <1>1. m \in Nat /\ \A k \in 1 .. m : stream[k].size \in Nat
    BY DEF HandshakeMessage
  <1>2. f \in [1 .. m -> [Nat -> Nat]]
    BY <1>1
  <1>3. PICK v : Unfolds(v, Nat, m, f, 0)
    <2> HIDE DEF m, f
    <2> QED BY <1>1, <1>2, Unfolding
  <1>4. v \in [0 .. m -> Nat] /\ v[0] = 0 /\ \A k \in 1 .. m : v[k] = f[k][v[k - 1]]
    BY <1>3 DEF Unfolds
  <1>5. \A k \in 1 .. m : v[k] = v[k - 1] + stream[k].size
    <2>1. ASSUME NEW k \in 1 .. m PROVE f[k][v[k - 1]] = v[k - 1] + stream[k].size
      <3>1. k - 1 \in 0 .. m
        BY <1>1
      <3>2. v[k - 1] \in Nat
        BY <1>4, <3>1
      <3> QED BY <3>2
    <2> HIDE DEF f, m
    <2> QED BY <1>4, <2>1
  <1> HIDE DEF m, f
  <1>6. T(v)
    <2>1. ASSUME NEW k \in 0 .. m PROVE v[k] = IF k = 0 THEN 0 ELSE v[k - 1] + stream[k].size
      BY <1>1, <1>4, <1>5
    <2>2. v = [k \in 0 .. m |-> v[k]]
      BY <1>4
    <2> QED BY <2>1, <2>2
  <1>7. E = CHOOSE w : T(w)
    BY DEF EndOf, m
  <1>8. T(E)
    <2> HIDE DEF T, E
    <2> QED BY <1>6, <1>7
  <1> HIDE DEF E
  <1>9. E[0] = 0 /\ \A k \in 1 .. m : E[k] = E[k - 1] + stream[k].size
    <2>1. ASSUME NEW k \in 0 .. m PROVE E[k] = IF k = 0 THEN 0 ELSE E[k - 1] + stream[k].size
      BY <1>8
    <2>2. 0 \in 0 .. m /\ \A k \in 1 .. m : k \in 0 .. m /\ k # 0
      BY <1>1
    <2> HIDE DEF T
    <2> QED BY <2>1, <2>2, Zenon
  <1>10. E \in [0 .. m -> Nat]
    <2> DEFINE S == {k \in 0 .. m : E[k] \in Nat}
    <2>1. S \in SUBSET (0 .. m) /\ 0 \in S
      BY <1>1, <1>9
    <2>2. ASSUME NEW k \in 1 .. m, k - 1 \in S PROVE k \in S
      <3>1. E[k - 1] \in Nat /\ stream[k].size \in Nat /\ k \in 0 .. m
        BY <1>1, <2>2
      <3> QED BY <1>9, <3>1
    <2>3. S = 0 .. m
      <3> HIDE DEF S
      <3> QED BY <1>1, <2>1, <2>2, KeptByEach
    <2>4. E = [k \in 0 .. m |-> E[k]]
      BY <1>8
    <2> HIDE DEF T
    <2> QED BY <2>3, <2>4
  <1> QED BY <1>9, <1>10 DEF E, m

-----------------------------------------------------------------------------
(* The flights of a server.                                                *)

LEMMA ServerFacts ==
  ASSUME NEW s \in Servers
  PROVE  /\ s.negotiates \in BOOLEAN /\ s.surveyed \in BOOLEAN /\ s.breaks \in BOOLEAN
         /\ s.retry \in BOOLEAN
         /\ s.speaks \subseteq 2 .. 7
         /\ s.certs \in Seq(DOMAIN DerSize)
         /\ s.negotiates \/ s.speaks # {} => Len(s.certs) > 0 /\ s.certs[1] \in DOMAIN DerSize
         /\ s.script \in Seq(HandshakeMessage)
         /\ s.ssl2 \subseteq DOMAIN DerSize /\ \A c, d \in s.ssl2 : c = d
  <1>1. /\ {s.negotiates, s.surveyed, s.stepsDown, s.breaks, s.retry} \subseteq BOOLEAN
        /\ s.speaks \subseteq ToSet(SurveyVersions)
        /\ s.certs \in Seq(DOMAIN DerSize)
        /\ s.negotiates \/ s.speaks # {} => s.certs # << >>
        /\ s.ssl2 \subseteq DOMAIN DerSize /\ \A c, d \in s.ssl2 : c = d
        /\ s.script \in Seq(HandshakeMessage)
    BY ServersAssumption
  <1>2. s.certs # << >> => Len(s.certs) > 0 /\ s.certs[1] \in DOMAIN DerSize
    <2> DEFINE D == DOMAIN DerSize
    <2> HIDE DEF D
    <2>1. \A c \in Seq(D) : c # << >> => Len(c) > 0 /\ c[1] \in D
      OBVIOUS
    <2> QED BY <1>1, <2>1, Zenon DEF D
  <1> QED BY <1>1, <1>2, Versions, Zenon

LEMMA ScriptIsFlight ==
  ASSUME NEW s \in Servers, ~s.negotiates, Plain(s)
  PROVE  OneCertificate(s.script)
  <1> DEFINE C == Certificates(s.script)
  <1>1. IsFiniteSet(C) /\ Cardinality(C) < 2
    <2>1. Len(s.script) \in Nat /\ C \subseteq 1 .. Len(s.script)
      BY ServerFacts DEF Certificates
    <2>2. IsFiniteSet(1 .. Len(s.script))
      BY <2>1, FS_Interval
    <2> HIDE DEF C
    <2> QED BY <2>1, <2>2, FS_Subset DEF Plain, C
  <1>2. ASSUME NEW j \in C, NEW k \in C, j # k PROVE FALSE
    <2> HIDE DEF C
    <2>1. IsFiniteSet({j, k}) /\ Cardinality({j, k}) <= Cardinality(C)
      BY <1>1, <1>2, FS_Subset, FS_CardinalityType
    <2>2. Cardinality({k}) = 1 /\ IsFiniteSet({k})
      BY FS_Singleton
    <2>3. Cardinality({k} \union {j}) = Cardinality({k}) + 1
      BY <1>2, <2>2, FS_AddElement
    <2>4. {k} \union {j} = {j, k}
      OBVIOUS
    <2>5. Cardinality(C) \in Nat
      BY <1>1, FS_CardinalityType
    <2> QED BY <1>1, <2>1, <2>2, <2>3, <2>4, <2>5
  <1> QED BY <1>2 DEF OneCertificate, Certificates

LEMMA FlightIsOne ==
  ASSUME NEW s \in Servers, NEW hello \in Hellos
  PROVE  FlightIs(s, hello, Flight(s, hello))
  <1> DEFINE v == Chosen(s, hello)
             is13 == v = {TLS13}
             first == ServerHello(IF is13 THEN TLS12 ELSE Max(v), is13, s.retry, TRUE, TRUE)
             cert == Certificate(s.certs)
  <1>1. CASE ~s.negotiates
    <2>1. Flight(s, hello) = s.script
      BY <1>1 DEF Flight
    <2> QED BY <1>1, <2>1, ServerFacts, ScriptIsFlight DEF FlightIs
  <1>2. CASE s.negotiates /\ v = {}
    <2>1. Flight(s, hello) = << >>
      BY <1>2 DEF Flight
    <2> QED BY <1>2, <2>1 DEF FlightIs, OneCertificate
  <1>3. CASE s.negotiates /\ v # {}
    <2>1. PICK x \in s.speaks : x \in 3 .. 7 /\ v = {x}
      BY <1>3, ServerFacts, ChosenIsSpoken DEF Choice
    <2>2. Max(v) = x
      BY <2>1, GreatestVersion
    <2>3. /\ first \in HandshakeMessage
          /\ first.kind = "server_hello" /\ first.size = 1 /\ first.ok
          /\ {VersionOf(first)} = v
      <3>1. first = [kind |-> "server_hello", size |-> 1,
                     legacy |-> IF is13 THEN TLS12 ELSE x, is13 |-> is13, retry |-> s.retry,
                     share |-> TRUE, ok |-> TRUE]
        BY <2>2 DEF ServerHello
      <3>2. s.retry \in BOOLEAN /\ is13 \in BOOLEAN /\ TLS12 \in Nat /\ x \in Nat
        BY <2>1, ServerFacts DEF TLS12
      <3>3. (IF is13 THEN TLS12 ELSE x) \in Nat
        BY <3>2
      <3> HIDE DEF first, is13
      <3>4. first \in HandshakeMessage /\ first.kind = "server_hello" /\ first.size = 1
            /\ first.ok /\ first.is13 = is13 /\ first.legacy = (IF is13 THEN TLS12 ELSE x)
        BY <3>1, <3>2, <3>3 DEF HandshakeMessage
      <3>5. VersionOf(first) = x
        <4>1. CASE is13
          BY <2>1, <3>4, <4>1 DEF VersionOf, is13
        <4>2. CASE ~is13
          BY <3>4, <4>2 DEF VersionOf
        <4> QED BY <4>1, <4>2
      <3> QED BY <2>1, <3>4, <3>5
    <2>4. cert \in HandshakeMessage /\ cert.kind = "certificate" /\ cert.certs = s.certs
      BY ServerFacts DEF Certificate, HandshakeMessage
    <2>5. {EncryptedExtensions, Verify, Done, KeyExchange} \subseteq HandshakeMessage
      BY DEF EncryptedExtensions, Verify, Done, KeyExchange, Message, HandshakeMessage
    <2>6. /\ EncryptedExtensions.kind = "extensions" /\ Verify.kind = "verify"
          /\ Done.kind = "done" /\ KeyExchange.kind = "key_exchange"
      BY DEF EncryptedExtensions, Verify, Done, KeyExchange, Message
    <2>7. Flight(s, hello) \in {<<first>>, <<first, EncryptedExtensions, cert, Verify, Done>>,
                                <<first, cert, KeyExchange, Done>>}
      BY <1>3, Zenon DEF Flight
    <2> HIDE DEF first, cert, v
    <2>8. CASE Flight(s, hello) = <<first>>
      BY <1>3, <2>3, <2>8 DEF FlightIs, OneCertificate, v
    <2>9. CASE Flight(s, hello) = <<first, EncryptedExtensions, cert, Verify, Done>>
      BY <1>3, <2>3, <2>4, <2>5, <2>6, <2>9 DEF FlightIs, OneCertificate, v
    <2>10. CASE Flight(s, hello) = <<first, cert, KeyExchange, Done>>
      BY <1>3, <2>3, <2>4, <2>5, <2>6, <2>10 DEF FlightIs, OneCertificate, v
    <2> QED BY <2>7, <2>8, <2>9, <2>10
  <1> QED BY <1>1, <1>2, <1>3

-----------------------------------------------------------------------------
(* The parser.                                                             *)

ParserState == [obs : Observation, keyed : BOOLEAN, over : BOOLEAN]

LEMMA ObserveTyped ==
  ASSUME NEW st \in ParserState, NEW o \in Observation
  PROVE  /\ Observe(st, o) \in ParserState /\ Observe(st, o).obs = o
         /\ Observe(st, o).keyed = st.keyed /\ Observe(st, o).over = st.over
  BY DEF ParserState, Observe

LEMMA StopTyped ==
  ASSUME NEW st \in ParserState, NEW o \in Observation, NEW error \in Errors
  PROVE  /\ Stop(st, o, error) \in ParserState /\ Stop(st, o, error).over
         /\ Stop(st, o, error).keyed = st.keyed
         /\ Stop(st, o, error).obs = [o EXCEPT !.error = error]
         /\ [o EXCEPT !.error = error] \in Observation
  <1>1. [o EXCEPT !.error = error] \in Observation
    BY DEF Observation
  <1> DEFINE p == [o EXCEPT !.error = error]
  <1> HIDE DEF p
  <1>2. /\ [st EXCEPT !.obs = p, !.over = TRUE] \in ParserState
        /\ [st EXCEPT !.obs = p, !.over = TRUE].over
        /\ [st EXCEPT !.obs = p, !.over = TRUE].keyed = st.keyed
        /\ [st EXCEPT !.obs = p, !.over = TRUE].obs = p
    BY <1>1 DEF ParserState, p
  <1> QED BY <1>1, <1>2 DEF Stop, p

(* What a certificate list does to an observation.                         *)
Listed(o, certs, q) ==
  /\ q \in Observation /\ q.certs = Len(certs)
  /\ q.leaf = {certs[1]}
  /\ q.der \in {{certs[1]}, o.der}
  /\ Len(o.chain) <= MaxChainKept => Len(q.chain) <= MaxChainKept
  /\ q.negotiated = o.negotiated /\ q.error = o.error /\ q.total = o.total

LEMMA CertificateListed ==
  ASSUME NEW st \in ParserState, NEW m, m.certs \in Seq(DOMAIN DerSize), Len(m.certs) # 0
  PROVE  \E q : Listed(st.obs, m.certs, q) /\ ParseCertificate(st, m) = Observe(st, q)
  <1> DEFINE D == DOMAIN DerSize
             n == Len(m.certs)
             o == st.obs
             seen == [o EXCEPT !.certs = n]
             room == MaxChainKept - Len(seen.chain)
             upto == IF n <= 1 + room THEN n ELSE 1 + room
             der == IF Kept(m.certs[1]) # {} THEN Kept(m.certs[1]) ELSE seen.der
             tail == SubSeq(m.certs, 2, upto)
             q == [seen EXCEPT !.leaf = {m.certs[1]}, !.der = der, !.chain = seen.chain \o tail]
  <1> HIDE DEF D
  <1>1. n \in Nat /\ n # 0 /\ m.certs[1] \in D
    BY DEF D
  <1>2. o \in Observation
    BY DEF ParserState
  <1>3. /\ seen \in Observation /\ seen.certs = n /\ seen.chain = o.chain /\ seen.der = o.der
        /\ seen.negotiated = o.negotiated /\ seen.error = o.error /\ seen.total = o.total
    BY <1>1, <1>2 DEF Observation
  <1>4. ParseCertificate(st, m) = Observe(st, q)
    BY <1>1 DEF ParseCertificate
  <1>5. o.chain \in Seq(D) /\ Len(o.chain) \in Nat /\ MaxChainKept \in Nat
    BY <1>2, TlsAssumption DEF Observation, D
  <1>6. upto \in Int /\ upto <= n /\ upto - 1 <= MaxChainKept - Len(o.chain)
    BY <1>1, <1>3, <1>5
  <1>7. tail \in Seq(D) /\ (Len(o.chain) <= MaxChainKept => Len(o.chain) + Len(tail) <= MaxChainKept)
    <2> HIDE DEF upto, n
    <2>1. CASE upto >= 2
      <3>1. \A i \in 2 .. upto : m.certs[i] \in D
        BY <1>1, <1>6 DEF D, n
      <3>2. tail \in Seq(D) /\ Len(tail) = upto - 1
        BY <1>1, <1>6, <2>1, <3>1, SubSeqProperties DEF n, D
      <3> HIDE DEF tail
      <3> QED BY <1>5, <1>6, <3>2
    <2>2. CASE upto < 2
      <3>1. tail = << >>
        BY <1>6, <2>2
      <3> HIDE DEF tail
      <3>2. tail \in Seq(D) /\ Len(tail) = 0
        BY <3>1
      <3> QED BY <1>5, <3>2
    <2> HIDE DEF tail
    <2> QED BY <1>6, <2>1, <2>2
  <1> HIDE DEF tail, upto, room
  <1>8. seen.chain \o tail \in Seq(D) /\ Len(seen.chain \o tail) = Len(o.chain) + Len(tail)
    BY <1>3, <1>5, <1>7
  <1>9. der \in {{m.certs[1]}, o.der} /\ der \in SUBSET D
    BY <1>1, <1>2, <1>3 DEF Kept, Observation, D
  <1> DEFINE chain == seen.chain \o tail
  <1> HIDE DEF seen, chain, der
  <1>10. /\ q \in Observation /\ q.certs = n /\ q.leaf = {m.certs[1]} /\ q.der = der
         /\ q.chain = chain
         /\ q.negotiated = o.negotiated /\ q.error = o.error /\ q.total = o.total
    BY <1>1, <1>3, <1>8, <1>9 DEF Observation, D, chain
  <1> QED BY <1>4, <1>7, <1>8, <1>9, <1>10 DEF Listed, chain

(* Messages other than a certificate list keep what the list gave.         *)
Beside(o, q) ==
  /\ q \in Observation
  /\ q.leaf = o.leaf /\ q.der = o.der /\ q.chain = o.chain /\ q.certs = o.certs
  /\ q.total = o.total

LEMMA HelloSeen ==
  ASSUME NEW st \in ParserState, NEW m \in HandshakeMessage, m.kind = "server_hello",
         NEW r, r = ParseServerHello(st, m)
  PROVE  /\ r \in ParserState /\ Beside(st.obs, r.obs)
         /\ r.obs.error = st.obs.error \/ (r.over /\ r.obs.error \in ParseErrors)
         /\ m.ok => r.obs.negotiated = {VersionOf(m)}
  <1> DEFINE o == st.obs
             seen == [o EXCEPT !.negotiated = {VersionOf(m)}]
             again == [seen EXCEPT !.retry = TRUE]
  <1>1. m.legacy \in Nat /\ m.is13 \in BOOLEAN /\ m.ok \in BOOLEAN
    BY DEF HandshakeMessage
  <1>2. VersionOf(m) \in Nat
    BY <1>1 DEF VersionOf, TLS13
  <1>3. o \in Observation
    BY DEF ParserState
  <1>4. seen \in Observation /\ seen.negotiated = {VersionOf(m)} /\ Beside(o, seen)
        /\ seen.error = o.error
    BY <1>2, <1>3 DEF Observation, Beside
  <1> HIDE DEF seen
  <1>5. again \in Observation /\ again.negotiated = {VersionOf(m)} /\ Beside(o, again)
    BY <1>4 DEF Observation, Beside
  <1> HIDE DEF again
  <1> DEFINE keyed == [Observe(st, seen) EXCEPT !.keyed = TRUE]
  <1>6. /\ ~m.ok => r = Stop(st, o, "bad_hello")
        /\ m.ok => r \in {Observe(st, seen), Stop(st, again, "retry"),
                          Stop(st, seen, "no_share"), keyed}
    BY Zenon DEF ParseServerHello, VersionOf, seen, again
  <1>7. /\ keyed \in ParserState /\ keyed.obs = seen
    <2>1. Observe(st, seen) \in ParserState /\ Observe(st, seen).obs = seen
      BY <1>4, ObserveTyped
    <2> QED BY <2>1 DEF ParserState
  <1> HIDE DEF keyed
  <1> DEFINE Fine(x, q) ==
               /\ x \in ParserState /\ Beside(o, x.obs)
               /\ x.obs.error = o.error \/ (x.over /\ x.obs.error \in ParseErrors)
               /\ x.obs.negotiated = q.negotiated
  <1>8. Fine(Observe(st, seen), seen) /\ Fine(keyed, seen)
    BY <1>4, <1>7, ObserveTyped
  <1>9. ASSUME NEW q \in Observation, Beside(o, q), NEW e \in ParseErrors
        PROVE  Fine(Stop(st, q, e), q)
    <2>0. e \in Errors
      BY DEF ParseErrors, Errors
    <2>1. /\ Stop(st, q, e) \in ParserState /\ Stop(st, q, e).over
          /\ Stop(st, q, e).obs = [q EXCEPT !.error = e]
      BY <1>9, <2>0, StopTyped
    <2>2. /\ [q EXCEPT !.error = e] \in Observation /\ Beside(o, [q EXCEPT !.error = e])
          /\ [q EXCEPT !.error = e].error = e
          /\ [q EXCEPT !.error = e].negotiated = q.negotiated
      BY <1>9, <2>0 DEF Observation, Beside
    <2> QED BY <1>9, <2>1, <2>2
  <1>10. /\ Fine(Stop(st, o, "bad_hello"), o) /\ Fine(Stop(st, again, "retry"), again)
         /\ Fine(Stop(st, seen, "no_share"), seen)
    <2>1. Beside(o, o)
      BY <1>3 DEF Beside
    <2>2. "bad_hello" \in ParseErrors /\ "retry" \in ParseErrors /\ "no_share" \in ParseErrors
      BY DEF ParseErrors
    <2> HIDE DEF Fine
    <2> QED BY <1>3, <1>4, <1>5, <1>9, <2>1, <2>2
  <1>11. m.ok => Fine(r, seen) \/ Fine(r, again)
    <2> HIDE DEF Fine
    <2> QED BY <1>6, <1>8, <1>10
  <1>12. ~m.ok => Fine(r, o)
    <2> HIDE DEF Fine
    <2> QED BY <1>6, <1>10
  <1> QED BY <1>1, <1>4, <1>5, <1>11, <1>12

LEMMA OthersHandled ==
  ASSUME NEW st \in ParserState, NEW m \in HandshakeMessage,
         m.kind # "server_hello", m.kind # "certificate",
         NEW r, r = HandleMessage(st, m)
  PROVE  /\ r \in ParserState /\ Beside(st.obs, r.obs) /\ r.obs.negotiated = st.obs.negotiated
         /\ r.obs.error = st.obs.error \/ (r.over /\ r.obs.error \in ParseErrors)
  <1> DEFINE o == st.obs
             signed == [o EXCEPT !.signed = TRUE]
             keyEx == [o EXCEPT !.signed = @ \/ o.negotiated = {TLS12}]
             huge == [o EXCEPT !.error = "huge_message"]
             done == [st EXCEPT !.over = TRUE]
             Fine(x) == /\ x \in ParserState /\ Beside(o, x.obs)
                        /\ x.obs.negotiated = o.negotiated
                        /\ x.obs.error = o.error \/ (x.over /\ x.obs.error \in ParseErrors)
  <1>1. r \in {Stop(st, o, "huge_message"), Observe(st, signed), Observe(st, keyEx), done, st}
    BY Zenon DEF HandleMessage
  <1>2. o \in Observation
    BY DEF ParserState
  <1>3. Fine(Stop(st, o, "huge_message"))
    <2>1. "huge_message" \in Errors /\ "huge_message" \in ParseErrors
      BY DEF Errors, ParseErrors
    <2>2. huge \in Observation /\ Beside(o, huge) /\ huge.negotiated = o.negotiated
          /\ huge.error = "huge_message"
      BY <1>2, <2>1 DEF Observation, Beside
    <2>3. Stop(st, o, "huge_message") \in ParserState /\ Stop(st, o, "huge_message").over
          /\ Stop(st, o, "huge_message").obs = huge
      BY <1>2, <2>1, StopTyped
    <2> HIDE DEF huge
    <2> QED BY <2>1, <2>2, <2>3
  <1>4. Fine(Observe(st, signed))
    <2>1. signed \in Observation /\ Beside(o, signed) /\ signed.negotiated = o.negotiated
          /\ signed.error = o.error
      BY <1>2 DEF Observation, Beside
    <2> HIDE DEF signed
    <2> QED BY <2>1, ObserveTyped
  <1>5. Fine(Observe(st, keyEx))
    <2> DEFINE b == o.signed \/ o.negotiated = {TLS12}
    <2>1. keyEx = [o EXCEPT !.signed = b] /\ b \in BOOLEAN
      BY <1>2
    <2> HIDE DEF keyEx, b
    <2>2. keyEx \in Observation /\ Beside(o, keyEx) /\ keyEx.negotiated = o.negotiated
          /\ keyEx.error = o.error
      BY <1>2, <2>1 DEF Observation, Beside
    <2> QED BY <2>2, ObserveTyped
  <1>6. Fine(done) /\ Fine(st)
    <2>1. Beside(o, o)
      BY <1>2 DEF Beside
    <2>2. done \in ParserState /\ done.obs = o
      BY DEF ParserState
    <2> HIDE DEF done
    <2> QED BY <2>1, <2>2
  <1>7. Fine(r)
    <2> HIDE DEF Fine, signed, keyEx, done
    <2> QED BY <1>1, <1>3, <1>4, <1>5, <1>6
  <1> QED BY <1>7

LEMMA ListHandled ==
  ASSUME NEW st \in ParserState, NEW m \in HandshakeMessage, m.kind = "certificate",
         NEW r, r = HandleMessage(st, m)
  PROVE  /\ r \in ParserState
         /\ m.certs \in Seq(DOMAIN DerSize)
         /\ \/ /\ Len(m.certs) # 0 /\ Listed(st.obs, m.certs, r.obs)
               /\ r.keyed = st.keyed /\ r.over = st.over
            \/ /\ Len(m.certs) = 0 /\ r.over /\ r.obs.error = "bad_certificate"
               /\ r.obs = [st.obs EXCEPT !.certs = 0, !.error = "bad_certificate"]
               /\ r.obs \in Observation
  <1>1. m.certs \in Seq(DOMAIN DerSize)
    BY DEF HandshakeMessage
  <1>2. r = ParseCertificate(st, m)
    BY DEF HandleMessage
  <1>3. CASE Len(m.certs) # 0
    <2>1. PICK q : Listed(st.obs, m.certs, q) /\ r = Observe(st, q)
      BY <1>1, <1>2, <1>3, CertificateListed
    <2> QED BY <1>1, <1>3, <2>1, ObserveTyped DEF Listed
  <1>4. CASE Len(m.certs) = 0
    <2> DEFINE o == st.obs
               seen == [o EXCEPT !.certs = 0]
               bad == [seen EXCEPT !.error = "bad_certificate"]
    <2>1. r = Stop(st, seen, "bad_certificate")
      BY <1>2, <1>4 DEF ParseCertificate
    <2>2. "bad_certificate" \in Errors
      BY DEF Errors
    <2>3. o \in Observation
      BY DEF ParserState
    <2>4. seen \in Observation
      BY <2>3 DEF Observation
    <2>5. bad = [o EXCEPT !.certs = 0, !.error = "bad_certificate"] /\ bad.error = "bad_certificate"
      BY <2>3 DEF Observation
    <2> HIDE DEF seen
    <2>6. r \in ParserState /\ r.over /\ r.obs = bad /\ bad \in Observation
      BY <2>1, <2>2, <2>4, StopTyped
    <2> HIDE DEF bad
    <2> QED BY <1>1, <1>4, <2>5, <2>6
  <1> QED BY <1>3, <1>4

LEMMA HandledTyped ==
  ASSUME NEW st \in ParserState, NEW m \in HandshakeMessage
  PROVE  HandleMessage(st, m) \in ParserState
  <1>1. CASE m.kind = "server_hello"
    <2>1. HandleMessage(st, m) = ParseServerHello(st, m)
      BY <1>1 DEF HandleMessage
    <2> QED BY <1>1, <2>1, HelloSeen
  <1>2. CASE m.kind = "certificate"
    BY <1>2, ListHandled
  <1>3. CASE m.kind # "server_hello" /\ m.kind # "certificate"
    BY <1>3, OthersHandled
  <1> QED BY <1>1, <1>2, <1>3

(* A message keeps what the messages before it gave.                       *)
LEMMA MessageHandled ==
  ASSUME NEW s \in Servers, NEW hello \in Hellos, NEW stream, FlightIs(s, hello, stream),
         NEW n \in 1 .. Len(stream), NEW total, NEW st,
         Parsed(s, hello, stream, n - 1, total, st), ~st.over
  PROVE  Parsed(s, hello, stream, n, total, HandleMessage(st, stream[n]))
  <1> DEFINE m == stream[n]
             r == HandleMessage(st, m)
             o == st.obs
  <1>1. /\ st \in ParserState /\ m \in HandshakeMessage /\ n \in DOMAIN stream
        /\ n \in Nat /\ n # 0 /\ n - 1 \in Nat
    <2>1. stream \in Seq(HandshakeMessage) /\ st \in ParserState
      BY DEF Parsed, ParserState, FlightIs
    <2> QED BY <2>1
  <1>2. Observed(s, hello, stream, n - 1, o) /\ o.error = "" /\ o.total = total
        /\ o \in Observation
    BY DEF Parsed, Observed
  <1>3. CertsIn(stream, n) = IF m.kind = "certificate" THEN CertsIn(stream, n - 1) \union {n}
                             ELSE CertsIn(stream, n - 1)
    BY <1>1 DEF CertsIn
  <1>4. "" \in ParseErrors /\ "bad_certificate" \in ParseErrors
    BY DEF ParseErrors
  <1>5. r \in ParserState
    BY <1>1, HandledTyped
  <1> HIDE DEF r
  <1>6. SUFFICES /\ Observed(s, hello, stream, n, r.obs)
                 /\ r.obs.error \in ParseErrors /\ (~r.over => r.obs.error = "")
                 /\ r.obs.total = total
    BY <1>1, <1>5, <1>6 DEF Parsed, ParserState, r
  <1>7. CASE m.kind = "server_hello"
    <2>1. /\ Beside(o, r.obs)
          /\ r.obs.error = o.error \/ (r.over /\ r.obs.error \in ParseErrors)
          /\ m.ok => r.obs.negotiated = {VersionOf(m)}
      <3>1. r = ParseServerHello(st, m)
        BY <1>7 DEF HandleMessage, r
      <3> QED BY <1>1, <1>7, <3>1, HelloSeen
    <2>2. s.negotiates => n = 1 /\ m.ok /\ Chosen(s, hello) = {VersionOf(m)}
      BY <1>1, <1>7 DEF FlightIs
    <2> QED BY <1>1, <1>2, <1>3, <1>4, <1>7, <2>1, <2>2 DEF Observed, Beside
  <1>8. CASE m.kind # "server_hello" /\ m.kind # "certificate"
    <2>1. /\ Beside(o, r.obs) /\ r.obs.negotiated = o.negotiated
          /\ r.obs.error = o.error \/ (r.over /\ r.obs.error \in ParseErrors)
      BY <1>1, <1>8, OthersHandled DEF r
    <2>2. s.negotiates => n # 1
      BY <1>1, <1>8 DEF FlightIs
    <2>3. CertsIn(stream, n) = CertsIn(stream, n - 1)
      BY <1>3, <1>8
    <2>4. /\ r.obs \in Observation /\ r.obs.leaf = o.leaf /\ r.obs.der = o.der
          /\ r.obs.chain = o.chain /\ r.obs.certs = o.certs /\ r.obs.total = o.total
      BY <2>1 DEF Beside
    <2>5. Observed(s, hello, stream, n, r.obs)
      <3>1. s.negotiates => /\ o.certs > 0 => o.leaf = {s.certs[1]}
                            /\ o.negotiated = Chosen(s, hello)
        <4>1. s.negotiates => n - 1 # 0
          BY <1>1, <2>2
        <4> QED BY <1>2, <4>1 DEF Observed
      <3>2. s.negotiates => /\ r.obs.certs > 0 => r.obs.leaf = {s.certs[1]}
                            /\ r.obs.negotiated = IF n = 0 THEN {} ELSE Chosen(s, hello)
        BY <1>1, <2>1, <2>4, <3>1, Zenon
      <3> QED BY <1>2, <2>3, <2>4, <3>2, Zenon DEF Observed
    <2> QED BY <1>2, <1>4, <2>1, <2>4, <2>5
  <1>9. CASE m.kind = "certificate"
    <2>0. /\ r = HandleMessage(st, m) /\ st \in ParserState /\ m \in HandshakeMessage
      BY <1>1 DEF r
    <2>1. n \in CertsIn(stream, n)
      BY <1>1, <1>3, <1>9
    <2>2. s.negotiates => n # 1 /\ m.certs = s.certs /\ Len(m.certs) # 0
      BY <1>1, <1>9, ServerFacts DEF FlightIs
    <2>3. Plain(s) => CertsIn(stream, n - 1) = {}
      <3>1. ASSUME Plain(s), NEW k \in CertsIn(stream, n - 1) PROVE FALSE
        <4>1. k \in DOMAIN stream /\ k # n /\ stream[k].kind = "certificate"
          BY <1>1, <3>1 DEF CertsIn, FlightIs
        <4> QED BY <1>1, <1>9, <3>1, <4>1 DEF FlightIs, OneCertificate
      <3> QED BY <3>1
    <2>4. CASE Len(m.certs) # 0
      <3>1. Listed(o, m.certs, r.obs) /\ r.over = st.over
        BY <1>9, <2>0, <2>4, ListHandled
      <3>2. Plain(s) => o.der = {}
        BY <1>2, <2>3 DEF Observed
      <3>3. Plain(s) /\ r.obs.der # {} => r.obs.der = r.obs.leaf
        BY <3>1, <3>2 DEF Listed
      <3>4. /\ r.obs \in Observation /\ r.obs.leaf = {m.certs[1]}
            /\ Len(o.chain) <= MaxChainKept => Len(r.obs.chain) <= MaxChainKept
            /\ r.obs.negotiated = o.negotiated /\ r.obs.error = o.error
            /\ r.obs.total = o.total
        BY <3>1 DEF Listed
      <3>5. Observed(s, hello, stream, n, r.obs)
        <4>1. s.negotiates => o.negotiated = Chosen(s, hello)
          <5>1. s.negotiates => n - 1 # 0
            BY <1>1, <2>2
          <5> QED BY <1>2, <5>1 DEF Observed
        <4>2. Len(o.chain) <= MaxChainKept
          BY <1>2 DEF Observed
        <4>3. s.negotiates => /\ r.obs.certs > 0 => r.obs.leaf = {s.certs[1]}
                              /\ r.obs.negotiated = IF n = 0 THEN {} ELSE Chosen(s, hello)
          BY <1>1, <2>2, <3>4, <4>1, Zenon
        <4> QED BY <2>1, <3>3, <3>4, <4>2, <4>3, Zenon DEF Observed
      <3> QED BY <1>2, <1>4, <3>1, <3>4, <3>5
    <2>5. CASE Len(m.certs) = 0
      <3>1. /\ r.over /\ r.obs = [o EXCEPT !.certs = 0, !.error = "bad_certificate"]
            /\ r.obs \in Observation
        BY <1>9, <2>0, <2>5, ListHandled
      <3>2. /\ r.obs.leaf = o.leaf /\ r.obs.der = o.der /\ r.obs.chain = o.chain
            /\ r.obs.certs = 0 /\ r.obs.total = o.total /\ r.obs.error = "bad_certificate"
        BY <1>2, <3>1 DEF Observation
      <3>3. ~s.negotiates
        BY <2>2, <2>5
      <3> QED BY <1>1, <1>2, <1>4, <2>1, <3>1, <3>2, <3>3 DEF Observed
    <2> QED BY <2>4, <2>5
  <1> QED BY <1>7, <1>8, <1>9

LEMMA HandledSteps ==
  ASSUME NEW stream \in Seq(HandshakeMessage), NEW from \in 0 .. Len(stream),
         NEW st \in ParserState, NEW A, A = Handled(st, stream, from)
  PROVE  /\ A[0] = st
         /\ \A k \in 1 .. (Len(stream) - from) :
              A[k] = IF A[k - 1].over THEN A[k - 1] ELSE HandleMessage(A[k - 1], stream[from + k])
  <1> DEFINE m == Len(stream) - from
             step(x, k) == IF x.over THEN x ELSE HandleMessage(x, stream[from + k])
             f == [k \in 1 .. m |-> [x \in ParserState |-> step(x, k)]]
             T(w) == w = [k \in 0 .. m |-> IF k = 0 THEN st ELSE step(w[k - 1], k)]
  <1>1. m \in Nat /\ \A k \in 1 .. m : stream[from + k] \in HandshakeMessage
    OBVIOUS
  <1> HIDE DEF m
  <1>2. f \in [1 .. m -> [ParserState -> ParserState]]
    <2>1. ASSUME NEW k \in 1 .. m, NEW x \in ParserState PROVE step(x, k) \in ParserState
      <3>1. HandleMessage(x, stream[from + k]) \in ParserState
        BY <1>1, HandledTyped
      <3> QED BY <3>1
    <2> HIDE DEF step
    <2> QED BY <2>1
  <1>3. PICK v : Unfolds(v, ParserState, m, f, st)
    <2> HIDE DEF f
    <2> QED BY <1>1, <1>2, Unfolding
  <1> HIDE DEF step
  <1>4. v \in [0 .. m -> ParserState] /\ v[0] = st /\ \A k \in 1 .. m : v[k] = f[k][v[k - 1]]
    BY <1>3 DEF Unfolds
  <1>5. \A k \in 1 .. m : v[k] = step(v[k - 1], k)
    <2>1. ASSUME NEW k \in 1 .. m PROVE f[k][v[k - 1]] = step(v[k - 1], k)
      <3>1. k - 1 \in 0 .. m
        BY <1>1
      <3>2. v[k - 1] \in ParserState
        BY <1>4, <3>1
      <3> QED BY <3>2
    <2> HIDE DEF f
    <2> QED BY <1>4, <2>1
  <1> HIDE DEF f
  <1>6. T(v)
    <2>1. ASSUME NEW k \in 0 .. m PROVE v[k] = IF k = 0 THEN st ELSE step(v[k - 1], k)
      BY <1>1, <1>4, <1>5
    <2>2. v = [k \in 0 .. m |-> v[k]]
      BY <1>4
    <2> QED BY <2>1, <2>2
  <1>7. A = CHOOSE w : T(w)
    BY DEF Handled, m, step
  <1>8. T(A)
    <2> HIDE DEF T
    <2> QED BY <1>6, <1>7
  <1>9. A[0] = st /\ \A k \in 1 .. m : A[k] = step(A[k - 1], k)
    <2>1. ASSUME NEW k \in 0 .. m PROVE A[k] = IF k = 0 THEN st ELSE step(A[k - 1], k)
      BY <1>8
    <2>2. 0 \in 0 .. m /\ \A k \in 1 .. m : k \in 0 .. m /\ k # 0
      BY <1>1
    <2> HIDE DEF T
    <2> QED BY <2>1, <2>2, Zenon
  <1> QED BY <1>9 DEF step, m

(* Once the flight is over, messages behind are as good as handled.        *)
LEMMA ParsedStays ==
  ASSUME NEW s, NEW hello, NEW stream \in Seq(HandshakeMessage), NEW n \in 1 .. Len(stream),
         NEW total, NEW st, Parsed(s, hello, stream, n - 1, total, st), st.over
  PROVE  Parsed(s, hello, stream, n, total, st)
  <1>1. n # 0 /\ n - 1 # 0
    BY DEF Parsed
  <1>2. CertsIn(stream, n - 1) \subseteq CertsIn(stream, n)
    BY DEF CertsIn
  <1>3. Observed(s, hello, stream, n - 1, st.obs)
    BY DEF Parsed
  <1>4. Observed(s, hello, stream, n, st.obs)
    <2>1. CertsIn(stream, n) = {} => CertsIn(stream, n - 1) = {}
      BY <1>2
    <2> QED BY <1>1, <1>3, <2>1, Zenon DEF Observed
  <1> QED BY <1>1, <1>4, Zenon DEF Parsed

LEMMA MessagesHandled ==
  ASSUME NEW s \in Servers, NEW hello \in Hellos, NEW stream, FlightIs(s, hello, stream),
         NEW d \in 0 .. Len(stream), NEW total, NEW st, Parsed(s, hello, stream, d, total, st),
         NEW k \in 0 .. (Len(stream) - d)
  PROVE  Parsed(s, hello, stream, d + k, total, Handled(st, stream, d)[k])
  <1> DEFINE A == Handled(st, stream, d)
             m == Len(stream) - d
             S == {j \in 0 .. m : Parsed(s, hello, stream, d + j, total, A[j])}
  <1>1. stream \in Seq(HandshakeMessage) /\ st \in ParserState /\ m \in Nat /\ d \in Nat
    <2>1. stream \in Seq(HandshakeMessage)
      BY DEF FlightIs
    <2>2. st \in ParserState
      BY DEF Parsed, ParserState
    <2> QED BY <2>1, <2>2
  <1>2. /\ A[0] = st
        /\ \A j \in 1 .. m :
             A[j] = IF A[j - 1].over THEN A[j - 1] ELSE HandleMessage(A[j - 1], stream[d + j])
    BY <1>1, HandledSteps
  <1> HIDE DEF A
  <1>3. 0 \in S /\ S \in SUBSET (0 .. m)
    <2>1. d + 0 = d /\ 0 \in 0 .. m
      BY <1>1
    <2> QED BY <1>2, <2>1
  <1>4. ASSUME NEW j \in 1 .. m, j - 1 \in S PROVE j \in S
    <2>1. /\ d + j \in 1 .. Len(stream) /\ d + (j - 1) = (d + j) - 1 /\ j \in 0 .. m
      BY <1>1
    <2>2. Parsed(s, hello, stream, (d + j) - 1, total, A[j - 1])
      BY <1>4, <2>1
    <2>3. Parsed(s, hello, stream, d + j, total, A[j])
      <3>1. CASE A[j - 1].over
        BY <1>1, <1>2, <2>1, <2>2, <3>1, ParsedStays
      <3>2. CASE ~A[j - 1].over
        <4>1. A[j] = HandleMessage(A[j - 1], stream[d + j])
          BY <1>2, <3>2
        <4> QED BY <2>1, <2>2, <3>2, <4>1, MessageHandled
      <3> QED BY <3>1, <3>2
    <2> QED BY <2>1, <2>3
  <1>5. S = 0 .. m
    <2> HIDE DEF S, m
    <2> QED BY <1>1, <1>3, <1>4, KeptByEach
  <1> QED BY <1>5 DEF A

-----------------------------------------------------------------------------
(* Reading a flight.                                                       *)

(* The observation of a flight of which more was read, and nothing parsed. *)
LEMMA ObservedKeeps ==
  ASSUME NEW s, NEW hello, NEW stream, NEW n, NEW o, Observed(s, hello, stream, n, o),
         NEW q \in Observation, q.leaf = o.leaf, q.der = o.der, q.chain = o.chain,
         q.certs = o.certs, q.negotiated = o.negotiated
  PROVE  Observed(s, hello, stream, n, q)
  BY Zenon DEF Observed

(* drain_handshake, after a record of k units of handshake bytes.          *)
LEMMA DrainKeeps ==
  ASSUME NEW s \in Servers, NEW hello \in Hellos, NEW fl, NEW o, NEW k \in Nat,
         FlightIs(s, hello, fl.stream),
         Reader(fl, o), Observed(s, hello, fl.stream, fl.drained, o), ~fl.over,
         fl.drained = 0 => ~fl.keyed,
         fl.got + k <= fl.total,
         s.negotiates => k > 0 /\ fl.stream # << >>,
         NEW e, e = Drain(fl, o, k)
  PROVE  /\ Reader(e.flight, e.obs) /\ Answering(s, hello, e.flight, e.obs)
         /\ e.flight.stream = fl.stream
  <1> DEFINE stream == fl.stream
             E == EndOf(stream)
             d == fl.drained
             got == fl.got + k
             N == {n \in d .. Len(stream) : Complete(stream, n, got)}
             upto == Max(N)
             st == [obs |-> o, keyed |-> fl.keyed, over |-> FALSE]
             end == Handled(st, stream, d)[upto - d]
             after == [fl EXCEPT !.got = got, !.drained = upto, !.keyed = end.keyed,
                                 !.over = end.over]
  <1>1. e = [flight |-> after, obs |-> end.obs]
    BY DEF Drain
  <1>2. /\ stream \in Seq(HandshakeMessage) /\ Len(stream) \in Nat
        /\ d \in 0 .. Len(stream) /\ fl.got \in Nat /\ got \in Nat /\ fl.total \in Nat
        /\ fl \in FlightState /\ o \in Observation /\ fl.keyed \in BOOLEAN
    <2>1. fl \in FlightState /\ o \in Observation /\ fl.drained <= Len(fl.stream)
      BY Zenon DEF Reader
    <2>2. /\ fl.stream \in Seq(HandshakeMessage) /\ fl.got \in Nat /\ fl.drained \in Nat
          /\ fl.total \in Nat /\ fl.keyed \in BOOLEAN
      <3>1. \A x \in FlightState :
              /\ x.stream \in Seq(HandshakeMessage) /\ x.got \in Nat /\ x.drained \in Nat
              /\ x.total \in Nat /\ x.keyed \in BOOLEAN
        BY DEF FlightState
      <3> QED BY <2>1, <3>1
    <2>3. Len(fl.stream) \in Nat
      BY <2>2
    <2> QED BY <2>1, <2>2, <2>3
  <1>3. /\ E \in [0 .. Len(stream) -> Nat] /\ E[0] = 0 /\ E[d] <= fl.got
        /\ \A n \in 1 .. Len(stream) : E[n] = E[n - 1] + stream[n].size
    BY <1>2, MessagesEnd DEF Reader
  <1>4. d \in N /\ N \in SUBSET (d .. Len(stream))
    <2>1. E[d] \in Nat /\ E[d] <= got
      BY <1>2, <1>3
    <2> QED BY <1>2, <2>1 DEF Complete
  <1>5. upto \in N /\ \A n \in N : upto >= n
    <2>1. d \in Int /\ Len(stream) \in Int /\ N # {}
      BY <1>2, <1>4
    <2> HIDE DEF N, d, stream
    <2> QED BY <1>4, <2>1, GreatestInRange
  <1>6. upto \in d .. Len(stream) /\ upto \in Nat /\ E[upto] <= got
    BY <1>2, <1>5 DEF Complete
  <1>7. s.negotiates => upto # 0
    <2>1. SUFFICES ASSUME s.negotiates, d = 0 PROVE 1 \in N
      BY <1>2, <1>5, <1>6
    <2>2. Len(stream) > 0 /\ stream[1].size = 1
      BY <1>2, <2>1 DEF FlightIs
    <2>3. E[1] = 1 /\ got >= 1
      BY <1>2, <1>3, <2>1, <2>2
    <2> QED BY <1>2, <2>1, <2>2, <2>3 DEF Complete
  <1>8. Parsed(s, hello, stream, d, o.total, st)
    <2>1. o.error = "" /\ "" \in ParseErrors
      BY DEF Reader, ParseErrors
    <2> QED BY <1>2, <2>1 DEF Parsed
  <1>9. Parsed(s, hello, stream, upto, o.total, end)
    <2>1. upto - d \in 0 .. (Len(stream) - d) /\ d + (upto - d) = upto
      BY <1>2, <1>6
    <2> HIDE DEF upto, d, st, stream
    <2>2. Parsed(s, hello, stream, d + (upto - d), o.total, end)
      BY <1>2, <1>8, <2>1, MessagesHandled DEF stream
    <2> QED BY <2>1, <2>2
  <1> HIDE DEF upto, end, st, N
  <1>10. /\ end.obs \in Observation /\ end.keyed \in BOOLEAN /\ end.over \in BOOLEAN
         /\ Observed(s, hello, stream, upto, end.obs)
         /\ end.obs.error \in ParseErrors /\ (~end.over => end.obs.error = "")
         /\ end.obs.total = o.total
         /\ upto = 0 => ~end.keyed
    BY <1>9 DEF Parsed
  <1>11. /\ after \in FlightState /\ after.stream = stream /\ after.got = got
         /\ after.drained = upto /\ after.total = fl.total /\ after.keyed = end.keyed
         /\ after.over = end.over
    BY <1>2, <1>6, <1>10 DEF FlightState
  <1> HIDE DEF after, got
  <1>12. Reader(after, end.obs)
    <2>1. end.obs.error \notin ReadErrors
      BY <1>10 DEF ParseErrors, ReadErrors
    <2>2. fl.total <= MaxFlight /\ o.total <= MaxFlight + HeaderSize
      BY DEF Reader
    <2>3. got <= fl.total
      BY DEF got
    <2>4. upto <= Len(stream) /\ E[upto] <= got
      BY <1>2, <1>6
    <2>5. after.drained <= Len(after.stream) /\ EndOf(after.stream)[after.drained] <= after.got
      BY <1>11, <2>4
    <2>6. after.got <= after.total /\ after.total <= MaxFlight
      BY <1>11, <2>2, <2>3
    <2>7. end.obs.total <= MaxFlight + HeaderSize /\ (~after.over => end.obs.error = "")
      BY <1>10, <1>11, <2>2
    <2> QED BY <1>10, <1>11, <2>1, <2>5, <2>6, <2>7, Zenon DEF Reader
  <1>13. Answering(s, hello, after, end.obs)
    <2>1. s.negotiates => got # 0
      BY <1>2 DEF got
    <2>2. Observed(s, hello, after.stream, after.drained, end.obs)
      BY <1>10, <1>11
    <2>3. after.drained = 0 => ~after.keyed
      BY <1>10, <1>11
    <2>4. s.negotiates => after.got # 0 /\ after.drained # 0
      BY <1>7, <1>11, <2>1
    <2> QED BY <2>2, <2>3, <2>4 DEF Answering
  <1> QED BY <1>1, <1>11, <1>12, <1>13

(* What the next record may be.                                            *)
LEMMA RecordsNext ==
  ASSUME NEW fl \in FlightState, NEW r \in NextRecords(fl), server.negotiates \in BOOLEAN
  PROVE  /\ r.units \in Nat
         /\ server.negotiates =>
              /\ r.units \in 1 .. MaxRecord
              /\ r.type \in {"handshake", "sealed"} =>
                   fl.stream # << >> /\ (r.type = "sealed" => fl.keyed)
              /\ r.type \notin {"handshake", "sealed"} =>
                   r.type = "change_cipher_spec" /\ fl.keyed /\ fl.got = 1
  <1> DEFINE most == Min({Run(fl), MaxRecord})
  <1>1. /\ fl.stream \in Seq(HandshakeMessage) /\ fl.got \in Nat
        /\ MaxRecord \in Nat /\ MaxRecord > 0
    BY TlsAssumption DEF FlightState
  <1>2. /\ SizeOf(fl.stream) \in Nat /\ (fl.stream = << >> => SizeOf(fl.stream) = 0)
    <2>1. Len(fl.stream) \in 0 .. Len(fl.stream) /\ (fl.stream = << >> => Len(fl.stream) = 0)
      BY <1>1
    <2> QED BY <1>1, <2>1, MessagesEnd DEF SizeOf
  <1>3. Run(fl) \in Int /\ (fl.stream = << >> => Run(fl) <= 0)
    <2>1. CASE fl.stream = << >>
      <3>1. Run(fl) = 0 - fl.got
        BY <1>2, <2>1 DEF Run
      <3> QED BY <1>1, <3>1
    <2>2. CASE fl.stream # << >>
      <3>1. fl.stream[1].size \in Nat
        <4>1. fl.stream[1] \in HandshakeMessage
          BY <1>1, <2>2
        <4> QED BY <4>1 DEF HandshakeMessage
      <3>2. Run(fl) = fl.stream[1].size - fl.got \/ Run(fl) = SizeOf(fl.stream) - fl.got
        BY Zenon DEF Run
      <3> QED BY <1>1, <1>2, <2>2, <3>1, <3>2
    <2> QED BY <2>1, <2>2
  <1>4. /\ most \in Int /\ most <= MaxRecord /\ (fl.stream = << >> => 1 .. most = {})
    <2>1. most \in Int /\ most <= MaxRecord /\ most <= Run(fl)
      <3>1. Run(fl) \in Int /\ MaxRecord \in Int
        BY <1>1, <1>3
      <3> QED BY <3>1, LesserOfTwo, Zenon
    <2> HIDE DEF most
    <2> QED BY <1>3, <2>1
  <1> HIDE DEF most
  <1>5. CASE server.negotiates
    <2>1. \/ \E k \in 1 .. most : r = Record(IF fl.keyed THEN "sealed" ELSE "handshake", k)
          \/ fl.keyed /\ fl.got = 1 /\ r = Record("change_cipher_spec", 1)
      BY <1>5 DEF NextRecords, most
    <2>2. CASE \E k \in 1 .. most : r = Record(IF fl.keyed THEN "sealed" ELSE "handshake", k)
      <3>1. PICK k \in 1 .. most : r = Record(IF fl.keyed THEN "sealed" ELSE "handshake", k)
        BY <2>2
      <3>2. r.units = k /\ r.type = IF fl.keyed THEN "sealed" ELSE "handshake"
        BY <3>1 DEF Record
      <3>3. k \in Nat /\ k \in 1 .. MaxRecord
        BY <1>1, <1>4
      <3> QED BY <1>4, <1>5, <3>2, <3>3
    <2>3. CASE fl.keyed /\ fl.got = 1 /\ r = Record("change_cipher_spec", 1)
      <3>1. r.units = 1 /\ r.type = "change_cipher_spec"
        BY <2>3 DEF Record
      <3>2. 1 \in 1 .. MaxRecord
        BY <1>1
      <3> QED BY <2>3, <3>1, <3>2
    <2> QED BY <2>1, <2>2, <2>3
  <1>6. CASE ~server.negotiates
    <2>1. \/ \E k \in 1 .. most : r.units = k
          \/ r.units \in {0, 1, 2, MaxRecord + 1}
      BY <1>6 DEF NextRecords, Record, most
    <2>2. \A k \in 1 .. most : k \in Nat
      BY <1>4
    <2> QED BY <1>1, <1>6, <2>1, <2>2
  <1> QED BY <1>5, <1>6

(* A step of the reader keeps the invariant when it keeps what is known of *)
(* the flight.                                                             *)
LEMMA ReadingStep ==
  ASSUME TInv, asked \in Hellos, UNCHANGED <<server, asked, main, survey, before>>,
         reading'.stream = reading.stream,
         Reader(reading', obs'), Answering(server, asked, reading', obs')
  PROVE  TInv'
  <1>1. server' = server /\ asked' = asked /\ main' = main /\ survey' = survey
        /\ before' = before
    OBVIOUS
  <1>2. asked' \in Hellos => reading'.stream = Flight(server', asked')
    BY <1>1 DEF TInv
  <1>3. Answering(server', asked', reading', obs')
    BY <1>1
  <1> QED BY <1>1, <1>2, <1>3, Zenon DEF TInv

LEMMA FlightEnds ==
  ASSUME TInv, Active, NEW q \in Observation, EndFlight(q),
         q.leaf = obs.leaf, q.der = obs.der, q.chain = obs.chain, q.certs = obs.certs,
         q.negotiated = obs.negotiated, q.total <= MaxFlight + HeaderSize,
         q.leaf # {} => q.error \notin ReadErrors,
         server.negotiates /\ ~server.breaks => reading.stream = << >> \/ reading.drained # 0
  PROVE  TInv'
  <1>1. /\ asked \in Hellos /\ Reader(reading, obs) /\ Answering(server, asked, reading, obs)
        /\ reading \in FlightState
    BY DEF TInv, Active, Resting, Reader
  <1>2. /\ obs' = q /\ reading' = [reading EXCEPT !.over = TRUE]
        /\ UNCHANGED <<server, asked, main, survey, before>>
    BY DEF EndFlight
  <1>3. /\ reading' \in FlightState /\ reading'.over /\ reading'.stream = reading.stream
        /\ reading'.got = reading.got /\ reading'.drained = reading.drained
        /\ reading'.total = reading.total /\ reading'.keyed = reading.keyed
    BY <1>1, <1>2 DEF FlightState
  <1>4. Reader(reading', obs')
    BY <1>1, <1>2, <1>3, Zenon DEF Reader
  <1>5. Answering(server, asked, reading', obs')
    <2>1. Observed(server, asked, reading'.stream, reading'.drained, obs')
      BY <1>1, <1>2, <1>3, ObservedKeeps, Zenon DEF Answering
    <2> QED BY <1>1, <1>3, <2>1, Zenon DEF Answering
  <1> QED BY <1>1, <1>2, <1>3, <1>4, <1>5, ReadingStep

(* What a flight being read is.                                            *)
LEMMA Reads ==
  ASSUME TInv, Active
  PROVE  /\ asked \in Hellos /\ server \in Servers /\ server.negotiates \in BOOLEAN
         /\ Reader(reading, obs) /\ Answering(server, asked, reading, obs)
         /\ FlightIs(server, asked, reading.stream)
         /\ reading \in FlightState /\ reading.total \in Nat /\ reading.got \in Nat
         /\ reading.drained \in Nat
         /\ obs \in Observation /\ obs.error = ""
         /\ MaxFlight \in Nat /\ HeaderSize \in Nat /\ MaxRecord \in Nat
         /\ HeaderSize + MaxRecord <= MaxFlight
         /\ reading.total <= MaxFlight /\ obs.total <= MaxFlight + HeaderSize
         /\ obs.total \in Nat
  <1>1. /\ asked \in Hellos /\ server \in Servers /\ Reader(reading, obs)
        /\ Answering(server, asked, reading, obs) /\ reading.stream = Flight(server, asked)
    BY DEF TInv, Active, Resting
  <1>2. server.negotiates \in BOOLEAN /\ FlightIs(server, asked, reading.stream)
    BY <1>1, ServerFacts, FlightIsOne
  <1>3. /\ reading \in FlightState /\ obs \in Observation /\ obs.error = ""
        /\ reading.total <= MaxFlight /\ obs.total <= MaxFlight + HeaderSize
    BY <1>1, Zenon DEF Reader, Active
  <1>4. reading.total \in Nat /\ reading.got \in Nat /\ reading.drained \in Nat
    BY <1>3 DEF FlightState
  <1>5. obs.total \in Nat
    BY <1>3 DEF Observation
  <1>6. /\ MaxFlight \in Nat /\ HeaderSize \in Nat /\ MaxRecord \in Nat
        /\ HeaderSize + MaxRecord <= MaxFlight
    BY TlsAssumption
  <1> QED BY <1>1, <1>2, <1>3, <1>4, <1>5, <1>6

LEMMA ReadsBounded ==
  ASSUME TInv, Active
  PROVE  /\ reading.total \in Nat /\ reading.got \in Nat /\ obs.total \in Nat
         /\ MaxFlight \in Nat /\ HeaderSize \in Nat /\ MaxRecord \in Nat
         /\ HeaderSize + MaxRecord <= MaxFlight
         /\ reading.total <= MaxFlight /\ obs.total <= MaxFlight + HeaderSize
  BY Reads, Zenon

(* An observation with another error, and with another count.              *)
LEMMA ErrorSet ==
  ASSUME NEW o \in Observation, NEW error \in Errors, NEW q, q = [o EXCEPT !.error = error]
  PROVE  /\ q \in Observation /\ q.error = error
         /\ q.leaf = o.leaf /\ q.der = o.der /\ q.chain = o.chain /\ q.certs = o.certs
         /\ q.negotiated = o.negotiated /\ q.total = o.total
  BY DEF Observation

LEMMA TotalSet ==
  ASSUME NEW o \in Observation, NEW total \in Nat, NEW q, q = [o EXCEPT !.total = total]
  PROVE  /\ q \in Observation /\ q.total = total
         /\ q.leaf = o.leaf /\ q.der = o.der /\ q.chain = o.chain /\ q.certs = o.certs
         /\ q.negotiated = o.negotiated /\ q.error = o.error
  BY DEF Observation

(* One lemma for each way a flight ends.                                   *)
LEMMA SendFailsKeeps == TInv /\ SendFails => TInv'
  <1> SUFFICES ASSUME TInv, SendFails PROVE TInv'
    OBVIOUS
  <1> DEFINE q == [obs EXCEPT !.error = "send"]
  <1>1. Active /\ EndFlight(q) /\ server.breaks
    BY DEF SendFails
  <1>2. "send" \in Errors /\ "send" \notin ReadErrors
    BY DEF Errors, ReadErrors
  <1> HIDE DEF q
  <1>3. /\ q \in Observation /\ q.error = "send" /\ q.total = obs.total
        /\ q.leaf = obs.leaf /\ q.der = obs.der /\ q.chain = obs.chain /\ q.certs = obs.certs
        /\ q.negotiated = obs.negotiated
    <2>1. obs \in Observation
      BY <1>1, Reads, Zenon
    <2> QED BY <1>2, <2>1 DEF q, Observation
  <1>4. q.total <= MaxFlight + HeaderSize
    BY <1>1, <1>3, ReadsBounded
  <1> QED BY <1>1, <1>2, <1>3, <1>4, FlightEnds

LEMMA CutShortKeeps ==
  ASSUME TInv, Active, NEW error \in Errors, NEW q, q = CutShort(obs, error)
  PROVE  /\ q \in Observation /\ q.total = obs.total
         /\ q.leaf = obs.leaf /\ q.der = obs.der /\ q.chain = obs.chain /\ q.certs = obs.certs
         /\ q.negotiated = obs.negotiated
         /\ q.leaf # {} => q.error \notin ReadErrors
  <1>1. obs \in Observation /\ obs.error = "" /\ "" \notin ReadErrors
    BY Reads DEF ReadErrors
  <1>2. CASE obs.leaf # {}
    BY <1>1, <1>2, Zenon DEF CutShort
  <1>3. CASE obs.leaf = {}
    <2>1. q = [obs EXCEPT !.error = error]
      BY <1>3 DEF CutShort
    <2>2. /\ q \in Observation /\ q.total = obs.total
          /\ q.leaf = obs.leaf /\ q.der = obs.der /\ q.chain = obs.chain /\ q.certs = obs.certs
          /\ q.negotiated = obs.negotiated
      BY <1>1, <2>1 DEF Observation
    <2> QED BY <1>3, <2>2
  <1> QED BY <1>2, <1>3

LEMMA HeaderFailsKeeps == TInv /\ HeaderFails => TInv'
  <1> SUFFICES ASSUME TInv, HeaderFails PROVE TInv'
    OBVIOUS
  <1>1. Active
    BY DEF HeaderFails
  <1>2. PICK end \in Ends :
          EndFlight(CutShort(obs, IF reading.total = 0 /\ end = "late" THEN "no reply" ELSE "header"))
    BY DEF HeaderFails
  <1> DEFINE error == IF reading.total = 0 /\ end = "late" THEN "no reply" ELSE "header"
             q == CutShort(obs, error)
  <1>3. error \in Errors
    BY DEF Errors
  <1>4. EndFlight(q)
    BY <1>2
  <1> HIDE DEF q, error
  <1>5. /\ q \in Observation /\ q.total = obs.total
        /\ q.leaf = obs.leaf /\ q.der = obs.der /\ q.chain = obs.chain /\ q.certs = obs.certs
        /\ q.negotiated = obs.negotiated /\ (q.leaf # {} => q.error \notin ReadErrors)
    BY <1>1, <1>3, CutShortKeeps DEF q
  <1>6. q.total <= MaxFlight + HeaderSize
    BY <1>1, <1>5, ReadsBounded
  <1>7. server.breaks \/ reading.stream = << >>
    BY <1>2, Zenon DEF Ends
  <1> QED BY <1>1, <1>4, <1>5, <1>6, <1>7, FlightEnds

LEMMA BodyFailsKeeps == TInv /\ BodyFails => TInv'
  <1> SUFFICES ASSUME TInv, BodyFails PROVE TInv'
    OBVIOUS
  <1>1. Active /\ Ends # {}
    BY DEF BodyFails
  <1> DEFINE total == IF obs.leaf # {} THEN obs.total ELSE reading.total + HeaderSize
             cut == CutShort(obs, "body")
             q == [cut EXCEPT !.total = total]
  <1>2. "body" \in Errors
    BY DEF Errors
  <1>3. /\ cut \in Observation /\ cut.total = obs.total
        /\ cut.leaf = obs.leaf /\ cut.der = obs.der /\ cut.chain = obs.chain
        /\ cut.certs = obs.certs
        /\ cut.negotiated = obs.negotiated /\ (cut.leaf # {} => cut.error \notin ReadErrors)
    BY <1>1, <1>2, CutShortKeeps
  <1> HIDE DEF cut
  <1>4. EndFlight(q)
    <2>1. q = [cut EXCEPT !.total = IF obs.leaf # {} THEN @ ELSE reading.total + HeaderSize]
      BY <1>3
    <2> QED BY <2>1 DEF BodyFails, cut
  <1>5. total \in Nat /\ total <= MaxFlight + HeaderSize
    <2>1. reading.total + HeaderSize \in Nat /\ reading.total + HeaderSize <= MaxFlight + HeaderSize
      BY <1>1, ReadsBounded
    <2> QED BY <1>1, <2>1, ReadsBounded
  <1> HIDE DEF total
  <1>6. /\ q \in Observation /\ q.total = total
        /\ q.leaf = cut.leaf /\ q.der = cut.der /\ q.chain = cut.chain
        /\ q.certs = cut.certs /\ q.negotiated = cut.negotiated /\ q.error = cut.error
    BY <1>3, <1>5, TotalSet
  <1> HIDE DEF q
  <1>7. server.breaks \/ reading.stream = << >>
    BY <1>1, Zenon DEF Ends
  <1> QED BY <1>1, <1>3, <1>4, <1>5, <1>6, <1>7, FlightEnds

(* The three ends by a header that says too much.                          *)
LEMMA HeaderEnds ==
  ASSUME TInv, Active, NEW error \in {"not_tls", "too_long"},
         EndFlight([obs EXCEPT !.error = error, !.total = reading.total + HeaderSize]),
         server.negotiates /\ ~server.breaks => reading.stream = << >> \/ reading.drained # 0
  PROVE  TInv'
  <1> DEFINE total == reading.total + HeaderSize
             p == [obs EXCEPT !.error = error]
             q == [p EXCEPT !.total = total]
  <1>1. total \in Nat /\ total <= MaxFlight + HeaderSize /\ obs \in Observation
    <2>1. total \in Nat /\ total <= MaxFlight + HeaderSize
      BY ReadsBounded
    <2> QED BY <2>1, Reads, Zenon
  <1>2. error \in Errors /\ error \notin ReadErrors
    BY DEF Errors, ReadErrors
  <1>3. EndFlight(q)
    <2>1. q = [obs EXCEPT !.error = error, !.total = total]
      BY <1>1 DEF Observation
    <2> QED BY <2>1
  <1> HIDE DEF total
  <1>4. /\ p \in Observation /\ p.error = error
        /\ p.leaf = obs.leaf /\ p.der = obs.der /\ p.chain = obs.chain /\ p.certs = obs.certs
        /\ p.negotiated = obs.negotiated
    BY <1>1, <1>2, ErrorSet
  <1> HIDE DEF p
  <1>5. /\ q \in Observation /\ q.total = total
        /\ q.leaf = p.leaf /\ q.der = p.der /\ q.chain = p.chain
        /\ q.certs = p.certs /\ q.negotiated = p.negotiated /\ q.error = p.error
    BY <1>1, <1>4, TotalSet
  <1> HIDE DEF q
  <1> QED BY <1>1, <1>2, <1>3, <1>4, <1>5, FlightEnds

LEMMA NotTlsKeeps == TInv /\ NotTls => TInv'
  <1> SUFFICES ASSUME TInv, NotTls PROVE TInv'
    OBVIOUS
  <1>1. /\ Active /\ EndFlight([obs EXCEPT !.error = "not_tls", !.total = reading.total + HeaderSize])
        /\ ~server.negotiates \/ reading.stream = << >>
    BY DEF NotTls
  <1> QED BY <1>1, HeaderEnds

LEMMA TooLongKeeps == TInv /\ TooLong => TInv'
  <1> SUFFICES ASSUME TInv, TooLong PROVE TInv'
    OBVIOUS
  <1>1. Active
    BY DEF TooLong
  <1>2. PICK r \in NextRecords(reading) :
          /\ r.units <= MaxRecord
          /\ reading.total + HeaderSize + r.units > MaxFlight
          /\ EndFlight([obs EXCEPT !.error = "too_long", !.total = reading.total + HeaderSize])
    BY DEF TooLong
  <1>3. r.units \in Nat
    BY <1>1, Reads, RecordsNext
  <1>4. server.negotiates => reading.drained # 0
    <2>1. SUFFICES ASSUME server.negotiates, reading.drained = 0 PROVE FALSE
      OBVIOUS
    <2>2. reading.total = 0
      BY <1>1, <2>1, Reads DEF Answering
    <2> QED BY <1>1, <1>2, <1>3, <2>2, ReadsBounded
  <1> QED BY <1>1, <1>2, <1>4, HeaderEnds

LEMMA RecordTooLongKeeps == TInv /\ RecordTooLong => TInv'
  <1> SUFFICES ASSUME TInv, RecordTooLong PROVE TInv'
    OBVIOUS
  <1>1. Active
    BY DEF RecordTooLong
  <1>2. PICK r \in NextRecords(reading) :
          /\ r.units > MaxRecord
          /\ EndFlight([obs EXCEPT !.error = "not_tls", !.total = reading.total + HeaderSize])
    BY DEF RecordTooLong
  <1>3. ~server.negotiates
    <2>1. server.negotiates => r.units \in 1 .. MaxRecord
      BY <1>1, Reads, RecordsNext
    <2> QED BY <1>1, <1>2, <2>1, ReadsBounded
  <1> QED BY <1>1, <1>2, <1>3, HeaderEnds

(* A record that fits is counted in the flight and in the observation.     *)
LEMMA RecordCounted ==
  ASSUME TInv, Active, NEW r, r.units \in Nat, Fits(reading.total, r)
  PROVE  /\ Reader(Counted(r), Read(r)) /\ Counted(r) \in FlightState
         /\ Counted(r).stream = reading.stream /\ Counted(r).drained = reading.drained
         /\ Counted(r).got = reading.got /\ Counted(r).keyed = reading.keyed
         /\ ~Counted(r).over
         /\ Counted(r).total = reading.total + HeaderSize + r.units
         /\ Read(r) \in Observation /\ Read(r).error = ""
         /\ Read(r).total \in Nat /\ Read(r).total <= MaxFlight + HeaderSize
         /\ Read(r).leaf = obs.leaf /\ Read(r).der = obs.der /\ Read(r).chain = obs.chain
         /\ Read(r).certs = obs.certs /\ Read(r).negotiated = obs.negotiated
         /\ Observed(server, asked, reading.stream, reading.drained, Read(r))
  <1> DEFINE total == reading.total + HeaderSize + r.units
             fl == [reading EXCEPT !.total = total]
             o == [obs EXCEPT !.total = total]
  <1>1. /\ total \in Nat /\ total <= MaxFlight /\ total <= MaxFlight + HeaderSize
        /\ reading.got <= total
    <2>1. reading.got <= reading.total
      BY Reads, Zenon DEF Reader
    <2> QED BY <2>1, ReadsBounded DEF Fits
  <1>2. reading \in FlightState /\ obs \in Observation /\ obs.error = "" /\ ~reading.over
        /\ Reader(reading, obs)
    BY Reads, Zenon DEF Active
  <1>3. Read(r) = o /\ Counted(r) = fl
    BY <1>2 DEF Read, Counted, FlightState
  <1> HIDE DEF total
  <1>4. /\ fl \in FlightState /\ fl.stream = reading.stream /\ fl.drained = reading.drained
        /\ fl.got = reading.got /\ fl.keyed = reading.keyed /\ fl.over = reading.over
        /\ fl.total = total
    BY <1>1, <1>2 DEF FlightState
  <1>5. /\ o \in Observation /\ o.total = total /\ o.error = obs.error
        /\ o.leaf = obs.leaf /\ o.der = obs.der /\ o.chain = obs.chain /\ o.certs = obs.certs
        /\ o.negotiated = obs.negotiated
    BY <1>1, <1>2 DEF Observation
  <1> HIDE DEF fl, o
  <1>6. Reader(fl, o)
    <2>1. "" \notin ReadErrors
      BY DEF ReadErrors
    <2> QED BY <1>1, <1>2, <1>4, <1>5, <2>1, Zenon DEF Reader
  <1>7. Observed(server, asked, reading.stream, reading.drained, o)
    <2>1. Observed(server, asked, reading.stream, reading.drained, obs)
      BY Reads, Zenon DEF Answering
    <2> QED BY <1>5, <2>1, ObservedKeeps, Zenon
  <1> QED BY <1>1, <1>2, <1>3, <1>4, <1>5, <1>6, <1>7 DEF total

(* A record that ends the flight, with what it said.                       *)
LEMMA LastRecordEnds ==
  ASSUME TInv, Active, NEW r, r.units \in Nat, Fits(reading.total, r),
         NEW q, EndFlight(q),
         q.leaf = Read(r).leaf, q.der = Read(r).der, q.chain = Read(r).chain,
         q.certs = Read(r).certs, q.negotiated = Read(r).negotiated, q.total = Read(r).total,
         q \in Observation, q.error \notin ReadErrors,
         server.negotiates => reading.stream = << >>
  PROVE  TInv'
  <1>1. /\ q.leaf = obs.leaf /\ q.der = obs.der /\ q.chain = obs.chain
        /\ q.certs = obs.certs /\ q.negotiated = obs.negotiated
        /\ q.total <= MaxFlight + HeaderSize
    BY RecordCounted
  <1> QED BY <1>1, FlightEnds

LEMMA ReadHandshakeKeeps == TInv /\ ReadHandshake => TInv'
  <1> SUFFICES ASSUME TInv, ReadHandshake PROVE TInv'
    OBVIOUS
  <1>1. Active
    BY DEF ReadHandshake
  <1>2. PICK r \in NextRecords(reading) :
          /\ r.type \in {"handshake", "sealed"} /\ Fits(reading.total, r)
          /\ IF r.type = "sealed" /\ ~reading.keyed
               THEN EndFlight([Read(r) EXCEPT !.error = "early_sealed"])
               ELSE LET drained == Drain(Counted(r), Read(r), r.units)
                    IN  /\ reading' = drained.flight /\ obs' = drained.obs
                        /\ UNCHANGED <<server, asked, main, survey, before>>
    BY DEF ReadHandshake
  <1>3. /\ r.units \in Nat
        /\ server.negotiates =>
             /\ r.units > 0 /\ reading.stream # << >>
             /\ r.type = "sealed" => reading.keyed
    <2>1. /\ r.units \in Nat
          /\ server.negotiates =>
               /\ r.units \in 1 .. MaxRecord /\ reading.stream # << >>
               /\ r.type = "sealed" => reading.keyed
      BY <1>1, <1>2, Reads, RecordsNext
    <2> QED BY <1>1, <2>1, ReadsBounded
  <1>4. CASE r.type = "sealed" /\ ~reading.keyed
    <2> DEFINE q == [Read(r) EXCEPT !.error = "early_sealed"]
    <2>1. EndFlight(q)
      BY <1>2, <1>4
    <2>2. "early_sealed" \in Errors /\ "early_sealed" \notin ReadErrors
      BY DEF Errors, ReadErrors
    <2>3. /\ q \in Observation /\ q.error = "early_sealed" /\ q.total = Read(r).total
          /\ q.leaf = Read(r).leaf /\ q.der = Read(r).der /\ q.chain = Read(r).chain
          /\ q.certs = Read(r).certs /\ q.negotiated = Read(r).negotiated
      <3>1. Read(r) \in Observation
        BY <1>1, <1>2, <1>3, RecordCounted
      <3> QED BY <2>2, <3>1, ErrorSet
    <2> HIDE DEF q
    <2>4. ~server.negotiates
      BY <1>3, <1>4
    <2> QED BY <1>1, <1>2, <1>3, <2>1, <2>2, <2>3, <2>4, LastRecordEnds
  <1>5. CASE ~(r.type = "sealed" /\ ~reading.keyed)
    <2> DEFINE fl == Counted(r)
               o == Read(r)
               e == Drain(fl, o, r.units)
    <2>1. /\ reading' = e.flight /\ obs' = e.obs
          /\ UNCHANGED <<server, asked, main, survey, before>>
      BY <1>2, <1>5
    <2>2. /\ Reader(fl, o) /\ fl \in FlightState /\ fl.stream = reading.stream
          /\ fl.drained = reading.drained /\ fl.got = reading.got
          /\ fl.keyed = reading.keyed /\ ~fl.over
          /\ fl.total = reading.total + HeaderSize + r.units
          /\ Observed(server, asked, fl.stream, fl.drained, o)
      BY <1>1, <1>2, <1>3, RecordCounted
    <2>3. /\ server \in Servers /\ asked \in Hellos /\ FlightIs(server, asked, fl.stream)
          /\ (fl.drained = 0 => ~fl.keyed)
      BY <1>1, <2>2, Reads DEF Answering
    <2>4. fl.got + r.units <= fl.total
      <3>1. reading.got <= reading.total
        BY <1>1, Reads, Zenon DEF Reader
      <3> QED BY <1>1, <1>3, <2>2, <3>1, ReadsBounded
    <2> HIDE DEF fl, o
    <2>5. /\ Reader(e.flight, e.obs) /\ Answering(server, asked, e.flight, e.obs)
          /\ e.flight.stream = fl.stream
      BY <1>3, <2>2, <2>3, <2>4, DrainKeeps
    <2> HIDE DEF e
    <2> QED BY <2>1, <2>2, <2>3, <2>5, ReadingStep
  <1> QED BY <1>4, <1>5

LEMMA ReadChangeCipherSpecKeeps == TInv /\ ReadChangeCipherSpec => TInv'
  <1> SUFFICES ASSUME TInv, ReadChangeCipherSpec PROVE TInv'
    OBVIOUS
  <1>1. Active
    BY DEF ReadChangeCipherSpec
  <1>2. PICK r \in NextRecords(reading) :
          /\ \/ r.type = "change_cipher_spec"
             \/ r.type = "sealed_other" /\ reading.keyed
          /\ Fits(reading.total, r)
          /\ reading' = Counted(r) /\ obs' = Read(r)
          /\ UNCHANGED <<server, asked, main, survey, before>>
    BY DEF ReadChangeCipherSpec
  <1>3. r.units \in Nat /\ (server.negotiates => reading.got = 1)
    BY <1>1, <1>2, Reads, RecordsNext
  <1>4. /\ Reader(reading', obs') /\ reading'.stream = reading.stream
        /\ reading'.drained = reading.drained /\ reading'.got = reading.got
        /\ reading'.keyed = reading.keyed /\ ~reading'.over
        /\ Observed(server, asked, reading'.stream, reading'.drained, obs')
    BY <1>1, <1>2, <1>3, RecordCounted
  <1>5. Answering(server, asked, reading', obs')
    <2>1. Answering(server, asked, reading, obs)
      BY <1>1, Reads
    <2>2. server.negotiates => reading'.got # 0
      BY <1>3, <1>4
    <2> QED BY <1>4, <2>1, <2>2, Zenon DEF Answering
  <1> QED BY <1>1, <1>2, <1>4, <1>5, Reads, ReadingStep

LEMMA ReadLastKeeps == TInv /\ ReadLast => TInv'
  <1> SUFFICES ASSUME TInv, ReadLast PROVE TInv'
    OBVIOUS
  <1>1. Active
    BY DEF ReadLast
  <1>2. PICK r \in LastRecords :
          /\ Fits(reading.total, r)
          /\ \/ /\ r.type = "alert"
                /\ EndFlight([Read(r) EXCEPT !.alert = r.units = 2,
                                !.error = IF r.units = 2 THEN @ ELSE "truncated_alert"])
             \/ /\ r.type \in {"unsealable", "sealed_alert", "sealed_other"} /\ ~reading.keyed
                /\ EndFlight([Read(r) EXCEPT !.error = "early_sealed"])
             \/ /\ r.type = "unsealable" /\ reading.keyed
                /\ EndFlight([Read(r) EXCEPT !.error = "unsealable"])
             \/ /\ r.type = "sealed_alert" /\ reading.keyed
                /\ EndFlight([Read(r) EXCEPT !.alert = r.units = 2])
             \/ /\ r.type = "other"
                /\ EndFlight([Read(r) EXCEPT !.error = "record_type"])
    BY DEF ReadLast
  <1>3. r.units \in Nat /\ (server.negotiates => reading.stream = << >>)
    <2>1. CASE r \in NextRecords(reading)
      <3>1. /\ r.units \in Nat
            /\ server.negotiates => r.type \in {"handshake", "sealed", "change_cipher_spec"}
        BY <1>1, <2>1, Reads, RecordsNext, Zenon
      <3>2. r.type \in {"alert", "unsealable", "sealed_alert", "sealed_other", "other"}
        BY <1>2
      <3> QED BY <3>1, <3>2
    <2>2. CASE r \notin NextRecords(reading)
      <3>1. reading.stream = << >> /\ r = Record("alert", 2)
        BY <1>2, <2>2 DEF LastRecords
      <3> QED BY <3>1 DEF Record
    <2> QED BY <2>1, <2>2
  <1> DEFINE o == Read(r)
  <1>4. o \in Observation /\ o.error = ""
    BY <1>1, <1>2, <1>3, RecordCounted
  <1>5. PICK alert \in BOOLEAN, error \in {"", "truncated_alert", "early_sealed", "unsealable",
                                           "record_type"} :
          EndFlight([o EXCEPT !.alert = alert, !.error = error])
    <2> HIDE DEF o
    <2>1. o.alert \in BOOLEAN
      BY <1>4 DEF Observation
    <2>2. \A e : [o EXCEPT !.error = e] = [o EXCEPT !.alert = o.alert, !.error = e]
      BY <1>4 DEF Observation
    <2>3. \A a : [o EXCEPT !.alert = a] = [o EXCEPT !.alert = a, !.error = ""]
      BY <1>4 DEF Observation
    <2>4. \A a : [o EXCEPT !.alert = a, !.error = IF a THEN @ ELSE "truncated_alert"] =
                 [o EXCEPT !.alert = a, !.error = IF a THEN "" ELSE "truncated_alert"]
      BY <1>4 DEF Observation
    <2>5. \/ EndFlight([o EXCEPT !.alert = r.units = 2,
                          !.error = IF r.units = 2 THEN @ ELSE "truncated_alert"])
          \/ EndFlight([o EXCEPT !.error = "early_sealed"])
          \/ EndFlight([o EXCEPT !.error = "unsealable"])
          \/ EndFlight([o EXCEPT !.alert = r.units = 2])
          \/ EndFlight([o EXCEPT !.error = "record_type"])
      BY <1>2 DEF o
    <2>6. (r.units = 2) \in BOOLEAN
      OBVIOUS
    <2> QED BY <2>1, <2>2, <2>3, <2>4, <2>5, <2>6
  <1> DEFINE q == [o EXCEPT !.alert = alert, !.error = error]
  <1> HIDE DEF o
  <1>6. error \in Errors /\ error \notin ReadErrors
    BY DEF Errors, ReadErrors
  <1>7. /\ q \in Observation /\ q.error = error /\ q.total = o.total
        /\ q.leaf = o.leaf /\ q.der = o.der /\ q.chain = o.chain /\ q.certs = o.certs
        /\ q.negotiated = o.negotiated
    BY <1>4, <1>6 DEF Observation
  <1>8. EndFlight(q)
    BY <1>5
  <1> HIDE DEF q
  <1> QED BY <1>1, <1>2, <1>3, <1>6, <1>7, <1>8, LastRecordEnds DEF o

-----------------------------------------------------------------------------
(* The survey.                                                             *)

LEMMA NothingObserved ==
  /\ NoObs \in Observation
  /\ NoObs.leaf = {} /\ NoObs.der = {} /\ NoObs.chain = << >> /\ NoObs.certs = 0
  /\ NoObs.negotiated = {} /\ NoObs.error = "" /\ NoObs.total = 0
  /\ Len(NoObs.chain) <= MaxChainKept
  /\ NoObs.total <= MaxFlight + HeaderSize
  <1>1. MaxChainKept \in Nat
    BY TlsAssumption
  <1>2. 0 <= MaxFlight + HeaderSize
    BY TlsAssumption
  <1>3. NoObs.total = 0
    BY DEF NoObs
  <1> QED BY <1>1, <1>2, <1>3 DEF NoObs, Observation, Errors

LEMMA Rested ==
  ASSUME NEW fl, NEW o, Reader(fl, o), fl.over
  PROVE  Reader(fl, NoObs)
  BY NothingObserved, Zenon DEF Reader

(* A hello that was just sent.                                             *)
LEMMA NewlyAsked ==
  ASSUME NEW s \in Servers, NEW hello \in Hellos,
         NEW fl, fl = NewFlight(Flight(s, hello))
  PROVE  /\ Reader(fl, NoObs) /\ fl.stream = Flight(s, hello) /\ ~fl.over
         /\ Answering(s, hello, fl, NoObs)
  <1> DEFINE stream == Flight(s, hello)
  <1> HIDE DEF stream
  <1>1. stream \in Seq(HandshakeMessage)
    BY FlightIsOne DEF FlightIs, stream
  <1>2. fl = [stream |-> stream, got |-> 0, drained |-> 0, total |-> 0, keyed |-> FALSE,
              over |-> FALSE]
    BY DEF NewFlight, NoFlight, stream
  <1>3. /\ fl \in FlightState /\ fl.stream = stream /\ fl.got = 0 /\ fl.drained = 0
        /\ fl.total = 0 /\ ~fl.keyed /\ ~fl.over
    BY <1>1, <1>2 DEF FlightState
  <1>4. fl.drained <= Len(fl.stream) /\ EndOf(fl.stream)[fl.drained] <= fl.got
    <2>1. EndOf(stream)[0] = 0 /\ Len(stream) \in Nat
      BY <1>1, MessagesEnd
    <2> QED BY <1>3, <2>1
  <1>5. fl.got <= fl.total /\ fl.total <= MaxFlight
    BY <1>3, TlsAssumption
  <1>6. Reader(fl, NoObs)
    BY <1>3, <1>4, <1>5, NothingObserved, Zenon DEF Reader
  <1>7. Observed(s, hello, fl.stream, fl.drained, NoObs)
    <2>1. ~(NoObs.certs > 0)
      BY DEF NoObs
    <2> QED BY <1>3, <2>1, NothingObserved, Zenon DEF Observed
  <1> QED BY <1>3, <1>6, <1>7, Zenon DEF Answering, stream

LEMMA NextVersions ==
  ASSUME NEW answers, Len(answers) \in 0 .. 6, ~Answered(answers)
  PROVE  /\ Len(answers) \in 0 .. 5 /\ NextVersion(answers) = Len(answers) + 2
         /\ NextVersion(answers) = SurveyVersions[Len(answers) + 1]
         /\ NextVersion(answers) \in 2 .. 7
         /\ NextVersion(answers) \in ToSet(SurveyVersions)
  <1> DEFINE n == Len(answers)
  <1>1. n # 6
    BY Versions, Zenon DEF Answered
  <1>2. NextVersion(answers) = SurveyVersions[n + 1]
    BY Zenon DEF NextVersion
  <1>3. n \in 0 .. 6
    OBVIOUS
  <1> HIDE DEF n
  <1>4. n \in 0 .. 5 /\ n + 1 \in 1 .. 6 /\ (n + 1) + 1 = n + 2 /\ n + 2 \in 2 .. 7
    BY <1>1, <1>3
  <1>5. SurveyVersions[n + 1] = (n + 1) + 1
    BY <1>4, Versions, Zenon
  <1> QED BY <1>2, <1>4, <1>5, Versions, Zenon DEF n

(* The answer for the next version is one more.                            *)
LEMMA AnswerAdded ==
  ASSUME NEW s, NEW hello, NEW sv, Surveyed(s, hello, sv), ~Answered(sv.answers),
         NEW a \in AnswerRecord, a.version = NextVersion(sv.answers), True(s, a),
         NEW c \in Nat, c <= Len(sv.answers) + 1, c <= 5,
         NEW leaf \in SUBSET DOMAIN DerSize, leaf # {} => leaf = s.ssl2,
         NEW sv2, sv2.answers = Append(sv.answers, a), sv2.connections = c, sv2.leaf = leaf,
         sv2 = [answers |-> sv2.answers, connections |-> sv2.connections, leaf |-> sv2.leaf]
  PROVE  Surveyed(s, Between, sv2)
  <1> DEFINE old == sv.answers
             new == Append(old, a)
  <1>1. /\ old \in Seq(AnswerRecord) /\ Len(old) \in 0 .. 6
        /\ \A k \in DOMAIN old : old[k].version = SurveyVersions[k] /\ True(s, old[k])
    BY DEF Surveyed
  <1>2. Len(old) \in 0 .. 5 /\ NextVersion(old) = SurveyVersions[Len(old) + 1]
    BY <1>1, NextVersions DEF NextVersion
  <1>3. /\ new \in Seq(AnswerRecord) /\ Len(new) = Len(old) + 1
        /\ \A k \in DOMAIN old : new[k] = old[k]
        /\ new[Len(old) + 1] = a
    BY <1>1
  <1>4. Len(new) \in 0 .. 6
    <2>1. \A n \in 0 .. 5 : n + 1 \in 0 .. 6
      OBVIOUS
    <2> HIDE DEF new, old
    <2> QED BY <1>2, <1>3, <2>1, Zenon
  <1>5. ASSUME NEW k \in DOMAIN new
        PROVE  new[k].version = SurveyVersions[k] /\ True(s, new[k])
    <2>1. k \in DOMAIN old \/ k = Len(old) + 1
      BY <1>1, <1>3
    <2> HIDE DEF new
    <2>2. CASE k \in DOMAIN old
      BY <1>1, <1>3, <2>2
    <2>3. CASE k = Len(old) + 1
      BY <1>2, <1>3, <2>3
    <2> QED BY <2>1, <2>2, <2>3
  <1> HIDE DEF new
  <1>6. sv2 \in [answers : Seq(AnswerRecord), connections : Nat, leaf : SUBSET DOMAIN DerSize]
    BY <1>3 DEF new
  <1>7. sv2.connections <= Len(sv2.answers) /\ sv2.connections <= 5
    BY <1>1, <1>3 DEF new
  <1>8. Between \notin SSL3 .. TLS12
    BY DEF Between, SSL3, TLS12
  <1>9. sv2.answers = new
    BY DEF new
  <1> QED BY <1>4, <1>5, <1>6, <1>7, <1>8, <1>9, Zenon DEF Surveyed

(* What holds between two hellos.                                          *)
LEMMA InSurvey ==
  ASSUME TInv, Surveying
  PROVE  /\ server \in Servers /\ asked = Between /\ server.surveyed
         /\ Reader(reading, obs) /\ reading.over /\ obs = NoObs
         /\ MainIs(server, main) /\ Surveyed(server, Between, survey)
         /\ survey.answers \in Seq(AnswerRecord) /\ Len(survey.answers) \in 0 .. 6
         /\ survey.connections \in Nat /\ survey.leaf \in SUBSET DOMAIN DerSize
         /\ survey.connections <= Len(survey.answers) /\ survey.connections <= 5
         /\ survey = [answers |-> survey.answers, connections |-> survey.connections,
                      leaf |-> survey.leaf]
         /\ survey.leaf # {} => survey.leaf = server.ssl2
         /\ before = main
  <1>1. asked = Between /\ Between \notin Hellos /\ Between # Main /\ Between # Over
        /\ Between \notin SSL3 .. TLS12
    BY DEF Surveying, Between, Hellos, Main, Over, SSL3, TLS12
  <1>2. /\ server \in Servers /\ server.surveyed
        /\ Reader(reading, obs) /\ reading.over /\ obs = NoObs
        /\ MainIs(server, main) /\ Surveyed(server, Between, survey)
        /\ before = main
    BY <1>1, Zenon DEF TInv, Resting, Remembered
  <1>3. /\ survey \in [answers : Seq(AnswerRecord), connections : Nat,
                       leaf : SUBSET DOMAIN DerSize]
        /\ Len(survey.answers) \in 0 .. 6
        /\ survey.connections <= Len(survey.answers) /\ survey.connections <= 5
        /\ survey.leaf # {} => survey.leaf = server.ssl2
    BY <1>1, <1>2, Zenon DEF Surveyed
  <1>4. /\ survey.answers \in Seq(AnswerRecord) /\ survey.connections \in Nat
        /\ survey.leaf \in SUBSET DOMAIN DerSize
        /\ survey = [answers |-> survey.answers, connections |-> survey.connections,
                     leaf |-> survey.leaf]
    BY <1>3
  <1> QED BY <1>1, <1>2, <1>3, <1>4

(* A step that leaves the probe between two hellos.                        *)
LEMMA BetweenHellos ==
  ASSUME server \in Servers, server' = server, asked' = Between, server.surveyed,
         reading' = reading, Reader(reading, NoObs), reading.over, obs' = NoObs,
         MainIs(server, main'), Surveyed(server, Between, survey'), before' = main'
  PROVE  TInv'
  <1>1. Between \notin Hellos /\ Between # Main /\ Between # Over
    BY DEF Between, Hellos, Main, Over, SSL3, TLS12
  <1>2. Reader(reading', obs') /\ Resting(reading', obs')
    BY Zenon DEF Resting
  <1>3. server' \in Servers /\ server'.surveyed /\ MainIs(server', main')
        /\ Surveyed(server', asked', survey')
    BY Zenon
  <1>4. Remembered(asked', before', main', survey')
    BY <1>1, Zenon DEF MainIs, Stands, Remembered
  <1> QED BY <1>1, <1>2, <1>3, <1>4, Zenon DEF TInv

LEMMA MainEndsKeeps == TInv /\ MainEnds => TInv'
  <1> SUFFICES ASSUME TInv, MainEnds PROVE TInv'
    OBVIOUS
  <1>1. /\ asked = Main /\ reading.over /\ main' = obs /\ before' = obs /\ obs' = NoObs
        /\ asked' = (IF server.surveyed THEN Between ELSE Over)
        /\ server' = server /\ reading' = reading /\ survey' = survey
    BY DEF MainEnds
  <1>2. Main \in Hellos /\ Main \notin SSL3 .. TLS12
    BY DEF Hellos, Main, SSL3, TLS12
  <1>3. /\ server \in Servers /\ Reader(reading, obs) /\ Answering(server, Main, reading, obs)
        /\ reading.stream = Flight(server, Main) /\ survey = NoSurvey
        /\ Surveyed(server, Main, survey)
    BY <1>1, <1>2, Zenon DEF TInv
  <1>4. FlightIs(server, Main, reading.stream)
    BY <1>2, <1>3, FlightIsOne
  <1>5. Observed(server, Main, reading.stream, reading.drained, obs)
    BY <1>3 DEF Answering
  <1>6. MainIs(server, obs)
    <2>1. Stands(server, obs)
      BY <1>5, Zenon DEF Observed, Stands
    <2>2. server.negotiates =>
            obs.negotiated = IF reading.drained = 0 THEN {} ELSE Chosen(server, Main)
      BY <1>5 DEF Observed
    <2>3. ASSUME server.negotiates, ~server.breaks PROVE obs.negotiated = Chosen(server, Main)
      <3>1. reading.stream = << >> \/ reading.drained # 0
        BY <1>1, <1>3, <2>3 DEF Answering
      <3>2. reading.stream = << >> => Chosen(server, Main) = {}
        BY <1>4, <2>3 DEF FlightIs
      <3> QED BY <2>2, <2>3, <3>1, <3>2
    <2> QED BY <2>1, <2>2, <2>3, Zenon DEF MainIs
  <1>7. Reader(reading, NoObs)
    BY <1>1, <1>3, Rested
  <1>8. CASE server.surveyed
    <2>1. Surveyed(server, Between, survey)
      <3>1. Between \notin SSL3 .. TLS12
        BY DEF Between, SSL3, TLS12
      <3> QED BY <1>2, <1>3, <3>1, Zenon DEF Surveyed
    <2> QED BY <1>1, <1>3, <1>6, <1>7, <1>8, <2>1, BetweenHellos
  <1>9. CASE ~server.surveyed
    <2>1. asked' = Over /\ Over \notin Hellos /\ Over # Main /\ Over \notin SSL3 .. TLS12
      BY <1>1, <1>9 DEF Over, Hellos, Main, SSL3, TLS12
    <2>2. Surveyed(server, Over, survey)
      BY <1>2, <1>3, <2>1, Zenon DEF Surveyed
    <2>3. survey.leaf = {}
      BY <1>3 DEF NoSurvey
    <2>4. Reader(reading', obs') /\ Resting(reading', obs') /\ MainIs(server', main')
          /\ Surveyed(server', asked', survey') /\ server' \in Servers
      BY <1>1, <1>3, <1>6, <1>7, <2>1, <2>2, Zenon DEF Resting
    <2>5. obs \in Observation
      BY <1>6, Zenon DEF MainIs, Stands
    <2>6. obs.leaf = {} => obs = [obs EXCEPT !.leaf = {}, !.der = obs.der]
      BY <2>5 DEF Observation
    <2>7. Remembered(asked', before', main', survey')
      BY <1>1, <2>1, <2>3, <2>5, <2>6, Zenon DEF Remembered, GapFilled
    <2> QED BY <1>1, <1>9, <2>1, <2>4, <2>7, Zenon DEF TInv
  <1> QED BY <1>8, <1>9

(* What the answer to the main hello says of a version is true.            *)
LEMMA SettledIsTrue ==
  ASSUME NEW s \in Servers, NEW o, MainIs(s, o), NEW v \in 2 .. 7, NEW accepted,
         \/ /\ accepted = IF o.negotiated = {v} THEN "yes" ELSE "no"
            /\ \E y \in o.negotiated : v = TLS13 \/ y = v \/ (v = TLS12 /\ y # TLS13)
         \/ v = TLS13 /\ o.negotiated = {} /\ accepted # "yes"
  PROVE  True(s, Answer(v, accepted))
  <1> DEFINE a == Answer(v, accepted)
  <1>1. a.version = v /\ a.accepted = accepted
    BY DEF Answer
  <1> HIDE DEF a
  <1>2. SUFFICES ASSUME s.negotiates
                 PROVE  /\ accepted = "yes" => v \in s.speaks
                        /\ ~s.breaks /\ v \in s.speaks => accepted = "yes"
    BY <1>1, Zenon DEF True, a
  <1>3. /\ s.speaks \subseteq 2 .. 7 /\ Main \in Hellos
    BY ServerFacts DEF Hellos
  <1>4. /\ Choice(s, Main)
        /\ TLS13 \in s.speaks => Chosen(s, Main) = {TLS13}
        /\ \A x \in Chosen(s, Main) : x # TLS13 => \A w \in s.speaks : w <= x
    BY <1>3, ChosenIsSpoken
  <1>5. /\ o.negotiated \in {{}, Chosen(s, Main)}
        /\ ~s.breaks => o.negotiated = Chosen(s, Main)
    BY <1>2 DEF MainIs
  <1>6. ASSUME accepted = "yes" PROVE v \in s.speaks
    <2>1. o.negotiated = {v}
      BY <1>6
    <2> QED BY <1>4, <1>5, <2>1 DEF Choice
  <1>7. ASSUME ~s.breaks, v \in s.speaks PROVE accepted = "yes"
    <2>1. o.negotiated = Chosen(s, Main)
      BY <1>5, <1>7
    <2>2. CASE v = TLS13
      BY <1>4, <1>7, <2>1, <2>2
    <2>3. CASE v # TLS13
      <3>1. PICK y \in o.negotiated : y = v \/ (v = TLS12 /\ y # TLS13)
        BY <2>3
      <3>2. o.negotiated = {y} /\ y \in 3 .. 7
        BY <1>4, <2>1, <3>1 DEF Choice
      <3>3. y = v
        <4>1. CASE v = TLS12 /\ y # TLS13
          <5>1. v <= y
            BY <1>4, <1>7, <2>1, <3>1, <4>1
          <5> QED BY <3>2, <4>1, <5>1 DEF TLS12, TLS13
        <4> QED BY <3>1, <4>1
      <3>4. accepted = IF o.negotiated = {v} THEN "yes" ELSE "no"
        BY <2>3
      <3> QED BY <3>2, <3>3, <3>4
    <2> QED BY <2>2, <2>3
  <1> QED BY <1>6, <1>7

LEMMA AnswerFromMainKeeps == TInv /\ AnswerFromMain => TInv'
  <1> SUFFICES ASSUME TInv, AnswerFromMain PROVE TInv'
    OBVIOUS
  <1> DEFINE v == NextVersion(survey.answers)
  <1>1. /\ Surveying /\ ~Answered(survey.answers)
        /\ Settled(v) # {} \/ v = TLS13
        /\ \E x \in IF Settled(v) # {} THEN Settled(v) ELSE {Unasked13} : Record1(x)
        /\ UNCHANGED <<server, asked, reading, obs, main, before>>
    BY Zenon DEF AnswerFromMain
  <1>2. PICK x \in IF Settled(v) # {} THEN Settled(v) ELSE {Unasked13} : Record1(x)
    BY <1>1
  <1>3. v \in 2 .. 7 /\ v \in ToSet(SurveyVersions)
    BY <1>1, InSurvey, NextVersions
  <1> HIDE DEF v
  <1>4. \E accepted \in {"yes", "no", "unknown"} :
          /\ x = Answer(v, accepted)
          /\ \/ /\ accepted = IF main.negotiated = {v} THEN "yes" ELSE "no"
                /\ \E y \in main.negotiated : v = TLS13 \/ y = v \/ (v = TLS12 /\ y # TLS13)
             \/ v = TLS13 /\ main.negotiated = {} /\ accepted # "yes"
    <2>1. CASE Settled(v) # {}
      BY <1>2, <2>1 DEF Settled
    <2>2. CASE Settled(v) = {}
      <3>1. v = TLS13 /\ x = Unasked13
        BY <1>1, <1>2, <2>2
      <3>2. main.negotiated = {}
        BY <2>2, <3>1 DEF Settled
      <3> QED BY <3>1, <3>2 DEF Unasked13
    <2> QED BY <2>1, <2>2
  <1>5. x \in AnswerRecord /\ x.version = v
    BY <1>3, <1>4 DEF AnswerRecord, Answer
  <1>6. True(server, x)
    BY <1>1, <1>3, <1>4, InSurvey, SettledIsTrue
  <1>7. survey' = [survey EXCEPT !.answers = Append(survey.answers, x)]
    BY <1>2 DEF Record1
  <1>8. /\ survey'.answers = Append(survey.answers, x)
        /\ survey'.connections = survey.connections /\ survey'.leaf = survey.leaf
        /\ survey' = [answers |-> survey'.answers, connections |-> survey'.connections,
                      leaf |-> survey'.leaf]
    BY <1>1, <1>7, InSurvey
  <1>9. survey.connections <= Len(survey.answers) + 1
    BY <1>1, InSurvey
  <1>10. Surveyed(server, Between, survey')
    BY <1>1, <1>5, <1>6, <1>8, <1>9, InSurvey, AnswerAdded DEF v
  <1> QED BY <1>1, <1>10, InSurvey, BetweenHellos

LEMMA ReopenFailsKeeps == TInv /\ ReopenFails => TInv'
  <1> SUFFICES ASSUME TInv, ReopenFails PROVE TInv'
    OBVIOUS
  <1>1. server.breaks /\ UNCHANGED <<server, asked, reading, obs, main, before>>
    BY DEF ReopenFails
  <1>2. PICK v \in ToSet(SurveyVersions), opened \in {0, 1} :
          /\ Asking(v)
          /\ survey' = [survey EXCEPT !.answers = Append(@, Answer(v, "unknown")),
                                      !.connections = @ + opened]
    BY DEF ReopenFails
  <1>3. Surveying /\ ~Answered(survey.answers) /\ v = NextVersion(survey.answers) /\ v # TLS13
    BY <1>2 DEF Asking
  <1> DEFINE x == Answer(v, "unknown")
             c == survey.connections + opened
  <1>4. x \in AnswerRecord /\ x.version = v
    BY DEF AnswerRecord, Answer
  <1>5. True(server, x)
    BY <1>1 DEF True, Answer
  <1>6. Len(survey.answers) + 2 = v /\ Len(survey.answers) \in 0 .. 5
    BY <1>3, InSurvey, NextVersions
  <1>7. c \in Nat /\ c <= Len(survey.answers) + 1 /\ c <= 5
    <2>1. /\ survey.connections \in Nat /\ survey.connections <= Len(survey.answers)
          /\ survey.connections <= 5
      BY <1>3, InSurvey
    <2> DEFINE n == Len(survey.answers)
    <2>2. n \in 0 .. 5 /\ n + 2 # 7 /\ survey.connections <= n
      BY <1>3, <1>6, <2>1 DEF TLS13
    <2> HIDE DEF n
    <2>3. c \in Nat /\ c <= n + 1 /\ c <= 5
      BY <2>1, <2>2
    <2> QED BY <2>3 DEF n
  <1>8. /\ survey'.answers = Append(survey.answers, x)
        /\ survey'.connections = c /\ survey'.leaf = survey.leaf
        /\ survey' = [answers |-> survey'.answers, connections |-> survey'.connections,
                      leaf |-> survey'.leaf]
    BY <1>2, <1>3, InSurvey
  <1> HIDE DEF x, c
  <1>9. Surveyed(server, Between, survey')
    BY <1>3, <1>4, <1>5, <1>7, <1>8, InSurvey, AnswerAdded
  <1> QED BY <1>1, <1>3, <1>9, InSurvey, BetweenHellos

LEMMA ReopenKeeps == TInv /\ Reopen => TInv'
  <1> SUFFICES ASSUME TInv, Reopen PROVE TInv'
    OBVIOUS
  <1>1. PICK v \in ToSet(SurveyVersions) \ {SSL2} :
          /\ Asking(v) /\ asked' = v /\ reading' = NewFlight(Flight(server, v))
          /\ survey' = [survey EXCEPT !.connections = @ + 1]
          /\ UNCHANGED <<server, obs, main, before>>
    BY DEF Reopen
  <1>2. Surveying /\ ~Answered(survey.answers) /\ v = NextVersion(survey.answers) /\ v # TLS13
    BY <1>1 DEF Asking
  <1>3. /\ v \in SSL3 .. TLS12 /\ v \in Hellos /\ v # Main /\ v # Over
    <2>1. v \in 2 .. 7 /\ v # 2 /\ v # 7
      BY <1>1, <1>2, Versions DEF SSL2, TLS13
    <2> QED BY <2>1 DEF Hellos, SSL3, TLS12, Main, Over
  <1>4. /\ Reader(reading', NoObs) /\ reading'.stream = Flight(server, v)
        /\ Answering(server, v, reading', NoObs)
    BY <1>1, <1>2, <1>3, InSurvey, NewlyAsked
  <1>5. /\ survey'.answers = survey.answers /\ survey'.connections = survey.connections + 1
        /\ survey'.leaf = survey.leaf
        /\ survey' \in [answers : Seq(AnswerRecord), connections : Nat,
                        leaf : SUBSET DOMAIN DerSize]
    <2>1. /\ survey.answers \in Seq(AnswerRecord) /\ survey.connections + 1 \in Nat
          /\ survey.leaf \in SUBSET DOMAIN DerSize
          /\ survey = [answers |-> survey.answers, connections |-> survey.connections,
                       leaf |-> survey.leaf]
      BY <1>2, InSurvey
    <2>2. survey' = [answers |-> survey.answers, connections |-> survey.connections + 1,
                     leaf |-> survey.leaf]
      BY <1>1, <2>1
    <2> QED BY <2>1, <2>2
  <1>6. survey.connections + 1 <= Len(survey.answers) + 1
    <2>1. /\ survey.connections \in Nat /\ survey.connections <= Len(survey.answers)
          /\ Len(survey.answers) \in 0 .. 6
      BY <1>2, InSurvey
    <2> DEFINE n == Len(survey.answers)
    <2> HIDE DEF n
    <2>2. survey.connections + 1 <= n + 1
      BY <2>1 DEF n
    <2> QED BY <2>2 DEF n
  <1>7. /\ \A k \in DOMAIN survey.answers :
             survey.answers[k].version = SurveyVersions[k] /\ True(server, survey.answers[k])
        /\ survey.leaf # {} => survey.leaf = server.ssl2
        /\ Len(survey.answers) \in 0 .. 6
    <2>1. Surveyed(server, Between, survey)
      BY <1>2, InSurvey
    <2> QED BY <2>1, Zenon DEF Surveyed
  <1>8. Surveyed(server, v, survey')
    BY <1>2, <1>3, <1>5, <1>6, <1>7, Zenon DEF Surveyed
  <1>9. /\ server \in Servers /\ server.surveyed /\ MainIs(server, main)
        /\ server' = server /\ main' = main /\ obs' = NoObs
    BY <1>1, <1>2, InSurvey
  <1>10. Reader(reading', obs') /\ asked' \in Hellos /\ asked' # Main /\ asked' # Over
         /\ reading'.stream = Flight(server', asked')
         /\ Answering(server', asked', reading', obs')
    BY <1>1, <1>3, <1>4, <1>9, Zenon
  <1>11. Surveyed(server', asked', survey') /\ MainIs(server', main') /\ server' \in Servers
         /\ server'.surveyed
    BY <1>1, <1>8, <1>9, Zenon
  <1>12. before' = main /\ main \in Observation
    BY <1>1, <1>2, InSurvey, Zenon DEF MainIs, Stands
  <1>13. Remembered(asked', before', main', survey')
    BY <1>9, <1>10, <1>12, Zenon DEF Remembered
  <1> QED BY <1>10, <1>11, <1>13, Zenon DEF TInv

LEMMA VersionEndsKeeps == TInv /\ VersionEnds => TInv'
  <1> SUFFICES ASSUME TInv, VersionEnds PROVE TInv'
    OBVIOUS
  <1> DEFINE accepted == Judged(asked, obs)
             x == Answer(asked, accepted)
             n == Len(survey.answers)
  <1>1. /\ asked \in ToSet(SurveyVersions) /\ reading.over
        /\ survey' = [survey EXCEPT !.answers = Append(survey.answers, x)]
        /\ obs' = NoObs /\ asked' = Between
        /\ UNCHANGED <<server, reading, main, before>>
    BY DEF VersionEnds, Record1
  <1>2. asked \in SSL3 .. TLS12 /\ asked \in Hellos /\ asked # Main /\ asked # Over
        /\ asked \in 3 .. 6
    <2>1. asked \in 2 .. 7 /\ asked \in Hellos \union {Between, Over}
      BY <1>1, Versions DEF TInv
    <2> QED BY <2>1 DEF Hellos, Main, SSL3, TLS12, Between, Over
  <1>3. /\ server \in Servers /\ server.surveyed /\ MainIs(server, main)
        /\ Reader(reading, obs) /\ Answering(server, asked, reading, obs)
        /\ reading.stream = Flight(server, asked)
        /\ Surveyed(server, asked, survey) /\ before = main
    BY <1>2, Zenon DEF TInv, Remembered
  <1>4. /\ survey \in [answers : Seq(AnswerRecord), connections : Nat,
                       leaf : SUBSET DOMAIN DerSize]
        /\ n \in 0 .. 6 /\ ~Answered(survey.answers)
        /\ NextVersion(survey.answers) = asked
        /\ survey.connections <= n + 1
        /\ survey.leaf # {} => survey.leaf = server.ssl2
    BY <1>2, <1>3, Zenon DEF Surveyed
  <1>5. n + 2 = asked
    BY <1>4, NextVersions
  <1>6. /\ survey.answers \in Seq(AnswerRecord) /\ survey.connections \in Nat
        /\ survey.leaf \in SUBSET DOMAIN DerSize
        /\ survey = [answers |-> survey.answers, connections |-> survey.connections,
                     leaf |-> survey.leaf]
    BY <1>4
  <1>7. survey.connections <= 5
    <2> HIDE DEF n
    <2> QED BY <1>2, <1>4, <1>5, <1>6
  <1>8. accepted \in {"yes", "no", "unknown"} /\ (accepted = "yes" <=> obs.negotiated = {asked})
    BY DEF Judged
  <1> HIDE DEF accepted
  <1>9. x \in AnswerRecord /\ x.version = asked /\ x.accepted = accepted
    BY <1>1, <1>8 DEF AnswerRecord, Answer
  <1>10. True(server, x)
    <2>1. FlightIs(server, asked, reading.stream)
      BY <1>2, <1>3, FlightIsOne
    <2>2. server.speaks \subseteq 2 .. 7
      BY <1>3, ServerFacts
    <2>3. /\ Choice(server, asked)
          /\ asked \in server.speaks => Chosen(server, asked) = {asked}
      BY <1>2, <2>2, ChosenIsSpoken
    <2>4. server.negotiates =>
            obs.negotiated = IF reading.drained = 0 THEN {} ELSE Chosen(server, asked)
      BY <1>3 DEF Answering, Observed
    <2>5. ASSUME server.negotiates, obs.negotiated = {asked} PROVE asked \in server.speaks
      BY <2>3, <2>4, <2>5 DEF Choice
    <2>6. ASSUME server.negotiates, ~server.breaks, asked \in server.speaks
          PROVE  obs.negotiated = {asked}
      <3>1. reading.stream # << >>
        BY <2>1, <2>3, <2>6 DEF FlightIs
      <3>2. reading.drained # 0
        BY <1>1, <1>3, <2>6, <3>1 DEF Answering
      <3> QED BY <2>3, <2>4, <2>6, <3>2
    <2> HIDE DEF x
    <2> QED BY <1>8, <1>9, <2>5, <2>6, Zenon DEF True
  <1>11. /\ survey'.answers = Append(survey.answers, x)
         /\ survey'.connections = survey.connections /\ survey'.leaf = survey.leaf
         /\ survey' = [answers |-> survey'.answers, connections |-> survey'.connections,
                       leaf |-> survey'.leaf]
    BY <1>1, <1>6
  <1> HIDE DEF x, n
  <1>12. Surveyed(server, Between, survey')
    BY <1>3, <1>4, <1>6, <1>7, <1>9, <1>10, <1>11, AnswerAdded DEF n
  <1>13. Reader(reading, NoObs)
    BY <1>1, <1>3, Rested
  <1> QED BY <1>1, <1>3, <1>12, <1>13, BetweenHellos

LEMMA AskSsl2Keeps == TInv /\ AskSsl2 => TInv'
  <1> SUFFICES ASSUME TInv, AskSsl2 PROVE TInv'
    OBVIOUS
  <1>1. Asking(SSL2) /\ UNCHANGED <<server, asked, reading, obs, main, before>>
    BY DEF AskSsl2
  <1>2. PICK accepted \in Ssl2Replies :
          survey' = [survey EXCEPT
            !.answers = Append(@, Answer(SSL2, accepted)),
            !.connections = @ + 1,
            !.leaf = IF accepted = "yes" THEN server.ssl2 ELSE @]
    BY DEF AskSsl2
  <1>3. Surveying /\ ~Answered(survey.answers) /\ SSL2 = NextVersion(survey.answers)
    BY <1>1 DEF Asking
  <1> DEFINE x == Answer(SSL2, accepted)
             leaf == IF accepted = "yes" THEN server.ssl2 ELSE survey.leaf
             n == Len(survey.answers)
             c == survey.connections + 1
  <1>4. /\ accepted \in {"yes", "no", "unknown"}
        /\ accepted = "yes" => SSL2 \in server.speaks
        /\ ~server.breaks /\ SSL2 \in server.speaks => accepted = "yes"
    <2>1. CASE SSL2 \in server.speaks
      BY <2>1 DEF Ssl2Replies
    <2>2. CASE SSL2 \notin server.speaks
      BY <2>2 DEF Ssl2Replies
    <2> QED BY <2>1, <2>2
  <1>5. x \in AnswerRecord /\ x.version = SSL2 /\ x.accepted = accepted
    <2>1. SSL2 \in ToSet(SurveyVersions)
      BY Versions DEF SSL2
    <2> QED BY <1>4, <2>1 DEF AnswerRecord, Answer
  <1>6. True(server, x)
    <2> HIDE DEF x
    <2> QED BY <1>4, <1>5, Zenon DEF True
  <1>7. n = 0 /\ survey.connections \in Nat /\ survey.connections <= n
    <2>1. n + 2 = 2 /\ n \in 0 .. 5
      BY <1>3, InSurvey, NextVersions DEF SSL2
    <2>2. n = 0
      <3> HIDE DEF n
      <3> QED BY <2>1
    <2> QED BY <1>3, <2>2, InSurvey
  <1>8. c \in Nat /\ c <= n + 1 /\ c <= 5
    <2> HIDE DEF n
    <2> QED BY <1>7
  <1>9. leaf \in SUBSET DOMAIN DerSize /\ (leaf # {} => leaf = server.ssl2)
    <2>1. server.ssl2 \subseteq DOMAIN DerSize
      BY <1>3, InSurvey, ServerFacts
    <2> QED BY <1>3, <2>1, InSurvey
  <1>10. /\ survey'.answers = Append(survey.answers, x)
         /\ survey'.connections = c /\ survey'.leaf = leaf
         /\ survey' = [answers |-> survey'.answers, connections |-> survey'.connections,
                       leaf |-> survey'.leaf]
    BY <1>2, <1>3, InSurvey
  <1> HIDE DEF x, c, leaf
  <1>11. Surveyed(server, Between, survey')
    BY <1>3, <1>5, <1>6, <1>8, <1>9, <1>10, InSurvey, AnswerAdded
  <1> QED BY <1>1, <1>3, <1>11, InSurvey, BetweenHellos

LEMMA SurveyEndsKeeps == TInv /\ SurveyEnds => TInv'
  <1> SUFFICES ASSUME TInv, SurveyEnds PROVE TInv'
    OBVIOUS
  <1> DEFINE der == UNION {Kept(c) : c \in survey.leaf}
  <1>1. /\ Surveying /\ Answered(survey.answers) /\ asked' = Over
        /\ main' = IF main.leaf = {} /\ survey.leaf # {}
                     THEN [main EXCEPT !.leaf = survey.leaf, !.der = der] ELSE main
        /\ UNCHANGED <<server, reading, obs, survey, before>>
    BY DEF SurveyEnds, WithSsl2Leaf
  <1>2. /\ server \in Servers /\ Reader(reading, obs) /\ reading.over /\ obs = NoObs
        /\ MainIs(server, main) /\ Surveyed(server, Between, survey)
        /\ survey.leaf \in SUBSET DOMAIN DerSize
        /\ survey.leaf # {} => survey.leaf = server.ssl2
        /\ before = main
    BY <1>1, InSurvey
  <1>3. main \in Observation
    BY <1>2 DEF MainIs, Stands
  <1>4. MainIs(server, main') /\ GapFilled(main, main', survey.leaf)
    <2>1. CASE ~(main.leaf = {} /\ survey.leaf # {})
      <3>1. main' = main
        BY <1>1, <2>1
      <3>2. main.leaf = {} => main = [main EXCEPT !.leaf = survey.leaf, !.der = main.der]
        BY <1>3, <2>1 DEF Observation
      <3> QED BY <1>2, <3>1, <3>2, Zenon DEF GapFilled
    <2>2. CASE main.leaf = {} /\ survey.leaf # {}
      <3>1. PICK c \in DOMAIN DerSize : survey.leaf = {c}
        <4>1. \A d, e \in server.ssl2 : d = e
          BY <1>2, ServerFacts
        <4> QED BY <1>2, <2>2, <4>1
      <3>2. der \subseteq {c}
        BY <3>1 DEF Kept
      <3>3. main' = [main EXCEPT !.leaf = survey.leaf, !.der = der]
        BY <1>1, <2>2
      <3> HIDE DEF der
      <3>4. /\ main' \in Observation /\ main'.leaf = {c} /\ main'.der = der
            /\ main'.chain = main.chain /\ main'.certs = main.certs
            /\ main'.negotiated = main.negotiated
        BY <1>3, <3>1, <3>2, <3>3 DEF Observation
      <3>5. main'.der # {} => main'.der = main'.leaf
        BY <3>2, <3>4
      <3>6. ~(server.negotiates /\ main.certs > 0)
        BY <1>2, <2>2 DEF MainIs, Stands
      <3>7. Stands(server, main')
        BY <1>2, <3>4, <3>5, <3>6, Zenon DEF MainIs, Stands
      <3>8. MainIs(server, main')
        BY <1>2, <3>4, <3>7, Zenon DEF MainIs
      <3>9. GapFilled(main, main', survey.leaf)
        BY <2>2, <3>3, <3>4, Zenon DEF GapFilled
      <3> QED BY <3>8, <3>9
    <2> QED BY <2>1, <2>2
  <1>5. Over \notin Hellos /\ Over # Main /\ Over \notin SSL3 .. TLS12
        /\ Between \notin SSL3 .. TLS12
    BY DEF Over, Hellos, Main, SSL3, TLS12, Between
  <1>6. Surveyed(server, Over, survey)
    BY <1>2, <1>5, Zenon DEF Surveyed
  <1>7. /\ server' \in Servers /\ Reader(reading', obs') /\ Resting(reading', obs')
        /\ MainIs(server', main') /\ Surveyed(server', asked', survey')
        /\ Answered(survey'.answers)
    BY <1>1, <1>2, <1>4, <1>6, Zenon DEF Resting
  <1>8. Remembered(asked', before', main', survey')
    <2>1. before' = main /\ survey' = survey
      BY <1>1, <1>2
    <2> QED BY <1>1, <1>3, <1>4, <2>1, Zenon DEF Remembered
  <1> QED BY <1>1, <1>5, <1>7, <1>8, Zenon DEF TInv

-----------------------------------------------------------------------------
(* The invariant, and what follows from it.                                *)

LEMMA TInvInit == Init => TInv
  <1> SUFFICES ASSUME Init PROVE TInv
    OBVIOUS
  <1>1. /\ server \in Servers /\ asked = Main /\ reading = NewFlight(Flight(server, Main))
        /\ obs = NoObs /\ main = NoObs /\ survey = NoSurvey /\ before = NoObs
    BY DEF Init
  <1>2. Main \in Hellos /\ Main # Over /\ Main \notin SSL3 .. TLS12
    BY DEF Hellos, Main, Over, SSL3, TLS12
  <1>3. /\ Reader(reading, obs) /\ reading.stream = Flight(server, Main)
        /\ Answering(server, Main, reading, obs)
    BY <1>1, <1>2, NewlyAsked
  <1>4. Surveyed(server, Main, survey)
    <2>1. /\ survey \in [answers : Seq(AnswerRecord), connections : Nat,
                         leaf : SUBSET DOMAIN DerSize]
          /\ Len(survey.answers) \in 0 .. 6 /\ DOMAIN survey.answers = {}
          /\ survey.connections <= Len(survey.answers) /\ survey.connections <= 5
          /\ survey.leaf = {}
      BY <1>1 DEF NoSurvey
    <2> QED BY <1>2, <2>1, Zenon DEF Surveyed
  <1>5. Remembered(asked, before, main, survey)
    BY <1>1, <1>2, NothingObserved, Zenon DEF Remembered
  <1> QED BY <1>1, <1>2, <1>3, <1>4, <1>5, Zenon DEF TInv

LEMMA TInvNext == TInv /\ [Next]_vars => TInv'
  <1> SUFFICES ASSUME TInv, [Next]_vars PROVE TInv'
    OBVIOUS
  <1>1. ASSUME UNCHANGED vars PROVE TInv'
    <2>1. /\ server' = server /\ asked' = asked /\ reading' = reading /\ obs' = obs
          /\ main' = main /\ survey' = survey /\ before' = before
      BY <1>1 DEF vars
    <2> QED BY <2>1, Zenon DEF TInv
  <1>2. CASE SendFails           BY <1>2, SendFailsKeeps
  <1>3. CASE HeaderFails         BY <1>3, HeaderFailsKeeps
  <1>4. CASE NotTls              BY <1>4, NotTlsKeeps
  <1>5. CASE BodyFails           BY <1>5, BodyFailsKeeps
  <1>6. CASE TooLong             BY <1>6, TooLongKeeps
  <1>7. CASE RecordTooLong       BY <1>7, RecordTooLongKeeps
  <1>8. CASE ReadHandshake       BY <1>8, ReadHandshakeKeeps
  <1>9. CASE ReadChangeCipherSpec BY <1>9, ReadChangeCipherSpecKeeps
  <1>10. CASE ReadLast           BY <1>10, ReadLastKeeps
  <1>11. CASE MainEnds           BY <1>11, MainEndsKeeps
  <1>12. CASE AnswerFromMain     BY <1>12, AnswerFromMainKeeps
  <1>13. CASE ReopenFails        BY <1>13, ReopenFailsKeeps
  <1>14. CASE Reopen             BY <1>14, ReopenKeeps
  <1>15. CASE VersionEnds        BY <1>15, VersionEndsKeeps
  <1>16. CASE AskSsl2            BY <1>16, AskSsl2Keeps
  <1>17. CASE SurveyEnds         BY <1>17, SurveyEndsKeeps
  <1>18. CASE Finished           BY <1>1, <1>18 DEF Finished
  <1> QED BY <1>1, <1>2, <1>3, <1>4, <1>5, <1>6, <1>7, <1>8, <1>9, <1>10, <1>11, <1>12,
             <1>13, <1>14, <1>15, <1>16, <1>17, <1>18, Zenon DEF Next

LEMMA TInvAlways == Spec => []TInv
  BY TInvInit, TInvNext, PTL DEF Spec

(* Every variable of a probe stays in its set, for any servers and any     *)
(* flights; no message is taken from a flight that it does not have        *)
(* (drain_handshake).                                                      *)
THEOREM ProbeTyped == Spec => []TypeOK
  <1>1. TInv => TypeOK
    <2> SUFFICES ASSUME TInv PROVE TypeOK
      OBVIOUS
    <2>1. server \in Servers /\ asked \in Hellos \union {Between, Over} /\ Reader(reading, obs)
          /\ Surveyed(server, asked, survey)
      BY DEF TInv
    <2>2. asked \in {Main, Between, Over} \union (SSL3 .. TLS12)
      BY <2>1 DEF Hellos
    <2>3. /\ reading \in FlightState /\ reading.drained <= Len(reading.stream)
          /\ obs \in Observation
      BY <2>1 DEF Reader
    <2>4. main \in Observation
      BY NothingObserved, Zenon DEF TInv, MainIs, Stands
    <2>5. {obs, main, before} \subseteq Observation
      BY <2>3, <2>4 DEF TInv, Remembered
    <2>6. survey \in [answers : Seq(AnswerRecord), connections : Nat,
                      leaf : SUBSET DOMAIN DerSize]
      BY <2>1, Zenon DEF Surveyed
    <2> QED BY <2>1, <2>2, <2>3, <2>5, <2>6, Zenon DEF TypeOK, FlightState, AnswerRecord
  <1> QED BY <1>1, TInvAlways, PTL

(* However a server cuts its flight into records, empty ones among them,   *)
(* and whatever it sends, the probe reads no more of it than               *)
(* MAX_FLIGHT_BYTES, and counts at most the one header beyond that told it *)
(* to stop (read_server_flight): for any bound that leaves room for one    *)
(* record.                                                                 *)
THEOREM FlightBounded == Spec => []FlightIsBounded
  <1>1. TInv => FlightIsBounded
    BY Zenon DEF TInv, Reader, FlightIsBounded
  <1> QED BY <1>1, TInvAlways, PTL

(* What was learned of a server stands: with a leaf in hand neither the    *)
(* deadline nor the end of the connection is an error; of a flight with    *)
(* one Certificate message the certificate kept is the leaf whose hash is  *)
(* kept; the chain is bounded; and after the survey what the main flight   *)
(* taught is as it was, except that a flight without a certificate has the *)
(* one of SSLv2, if there is one (read_server_flight, parse_certificate,   *)
(* probe_with_survey): for certificates of any size and lists of any       *)
(* length.                                                                 *)
THEOREM LearnedStandsAlways == Spec => []LearnedStands
  <1>1. TInv => LearnedStands
    <2> SUFFICES ASSUME TInv PROVE LearnedStands
      OBVIOUS
    <2>1. Reader(reading, obs)
      BY DEF TInv
    <2>2. obs.leaf # {} => obs.error \notin {"no reply", "header", "body"}
      BY <2>1, Zenon DEF Reader, ReadErrors
    <2>3. Stands(server, NoObs)
      <3>1. ~(NoObs.certs > 0)
        BY DEF NoObs
      <3> QED BY <3>1, NothingObserved, Zenon DEF Stands
    <2>4. Stands(server, obs)
      <3>1. CASE asked \in Hellos
        <4>1. Observed(server, asked, reading.stream, reading.drained, obs)
          BY <3>1 DEF TInv, Answering
        <4> QED BY <4>1, Zenon DEF Observed, Stands
      <3>2. CASE asked \notin Hellos
        BY <2>3, <3>2, Zenon DEF TInv, Resting
      <3> QED BY <3>1, <3>2
    <2>5. Stands(server, main)
      BY <2>3, Zenon DEF TInv, MainIs
    <2>6. ASSUME NEW o, Stands(server, o)
          PROVE  /\ Cardinality(Certificates(server.script)) < 2 /\ o.der # {} => o.der = o.leaf
                 /\ Len(o.chain) <= MaxChainKept
                 /\ o.certs > 0 /\ server.negotiates => o.leaf = {server.certs[1]}
      BY <2>6, Zenon DEF Stands, Plain
    <2>7. asked = Over =>
            /\ before.leaf # {} => main = before
            /\ before.leaf = {} => main = [before EXCEPT !.leaf = survey.leaf, !.der = main.der]
      BY Zenon DEF TInv, Remembered, GapFilled
    <2> QED BY <2>2, <2>4, <2>5, <2>6, <2>7, Zenon DEF LearnedStands
  <1> QED BY <1>1, TInvAlways, PTL

(* The newest version among those accepted.                                *)
LEMMA NewestIsGreatest ==
  ASSUME NEW answers, NEW speaks \in SUBSET (2 .. 7), Accepted(answers, "yes") = speaks
  PROVE  /\ LegacyOnly(answers) <=> speaks # {} /\ speaks \subseteq SSL2 .. (TLS12 - 1)
         /\ "ssl_build" \in Advice(answers) <=> speaks # {} /\ speaks \subseteq {SSL2, SSL3}
  <1>1. Newest(answers) = {v \in speaks : \A w \in speaks : w <= v}
    BY DEF Newest
  <1>2. CASE speaks = {}
    <2>1. Newest(answers) = {}
      BY <1>1, <1>2
    <2>2. ~LegacyOnly(answers)
      BY <2>1 DEF LegacyOnly
    <2>3. Advice(answers) = {}
      BY <2>1 DEF Advice
    <2> QED BY <1>2, <2>2, <2>3
  <1>3. CASE speaks # {}
    <2>1. PICK top \in speaks : \A w \in speaks : w <= top
      <3>1. Max(speaks) \in speaks /\ \A w \in speaks : Max(speaks) >= w
        BY <1>3, GreatestVersion
      <3> DEFINE m == Max(speaks)
      <3> HIDE DEF m
      <3>2. m \in speaks /\ \A w \in speaks : m >= w
        BY <3>1 DEF m
      <3>3. \A w \in speaks : w <= m
        BY <3>2
      <3> QED BY <3>2, <3>3
    <2>2. top \in 2 .. 7 /\ \A w \in speaks : w \in 2 .. 7
      OBVIOUS
    <2>3. Newest(answers) = {top}
      <3>1. ASSUME NEW v \in speaks, \A w \in speaks : w <= v PROVE v = top
        <4>1. top <= v /\ v <= top /\ v \in 2 .. 7
          BY <2>1, <2>2, <3>1
        <4> QED BY <2>2, <4>1
      <3> QED BY <1>1, <2>1, <3>1
    <2>4. LegacyOnly(answers) <=> top < 6
      BY <2>3 DEF LegacyOnly, TLS12
    <2>5. speaks \subseteq SSL2 .. (TLS12 - 1) <=> top < 6
      BY <2>1, <2>2 DEF SSL2, TLS12
    <2>6. speaks \subseteq {SSL2, SSL3} <=> top < 4
      BY <2>1, <2>2 DEF SSL2, SSL3
    <2>7. "ssl_build" \in Advice(answers) <=> top < 6 /\ top \in {SSL2, SSL3}
      <3>1. {w \in Newest(answers) : LegacyOnly(answers)} = IF top < 6 THEN {top} ELSE {}
        BY <2>3, <2>4
      <3> QED BY <3>1 DEF Advice
    <2>8. top \in {SSL2, SSL3} <=> top < 4
      BY <2>2 DEF SSL2, SSL3
    <2>9. top < 4 => top < 6
      BY <2>2
    <2> QED BY <1>3, <2>4, <2>5, <2>6, <2>7, <2>8, <2>9
  <1> QED BY <1>2, <1>3

(* A survey has one answer for each version, in order, from at most five   *)
(* connections; a version is said to be accepted only if the server speaks *)
(* it; of connections that last and are in time nothing it speaks is       *)
(* missing, and the verdict and the advice are those its versions call for *)
(* (survey_versions, settled, legacy_only, advice): whatever versions a    *)
(* server that negotiates speaks, whether it steps down or asks for        *)
(* another hello, however it cuts its flights.                             *)
THEOREM SurveyTruthful == Spec => []SurveyIsTruthful
  <1>1. TInv => SurveyIsTruthful
    <2> SUFFICES ASSUME TInv, asked = Over, server.surveyed
                 PROVE  /\ [k \in DOMAIN survey.answers |-> survey.answers[k].version] =
                             SurveyVersions
                        /\ survey.connections <= Len(SurveyVersions) - 1
                        /\ server.negotiates =>
                             /\ Accepted(survey.answers, "yes") \subseteq server.speaks
                             /\ ~server.breaks =>
                                  /\ Accepted(survey.answers, "yes") = server.speaks
                                  /\ LegacyOnly(survey.answers) <=>
                                       server.speaks # {}
                                         /\ server.speaks \subseteq SSL2 .. (TLS12 - 1)
                                  /\ "ssl_build" \in Advice(survey.answers) <=>
                                       server.speaks # {} /\ server.speaks \subseteq {SSL2, SSL3}
      BY Zenon DEF SurveyIsTruthful
    <2> DEFINE answers == survey.answers
    <2>1. /\ server \in Servers /\ Surveyed(server, Over, survey) /\ Answered(answers)
          /\ Over \notin SSL3 .. TLS12
      BY DEF TInv, Over, SSL3, TLS12
    <2>2. /\ survey \in [answers : Seq(AnswerRecord), connections : Nat,
                         leaf : SUBSET DOMAIN DerSize]
          /\ survey.connections <= 5
          /\ \A k \in DOMAIN answers :
               answers[k].version = SurveyVersions[k] /\ True(server, answers[k])
      BY <2>1, Zenon DEF Surveyed
    <2>3. answers \in Seq(AnswerRecord) /\ survey.connections \in Nat
      BY <2>2
    <2>4. Len(answers) = 6
      BY <2>1, Versions, Zenon DEF Answered
    <2>5. DOMAIN answers = 1 .. 6
      BY <2>3, <2>4
    <2> HIDE DEF answers
    <2>6. [k \in DOMAIN answers |-> answers[k].version] = SurveyVersions
      <3>1. [k \in DOMAIN answers |-> answers[k].version] = [k \in 1 .. 6 |-> SurveyVersions[k]]
        BY <2>2, <2>5
      <3>2. SurveyVersions = [k \in 1 .. 6 |-> SurveyVersions[k]]
        BY Versions
      <3> QED BY <3>1, <3>2
    <2>7. survey.connections <= Len(SurveyVersions) - 1
      <3>1. Len(SurveyVersions) = 6
        BY Versions
      <3>2. 6 - 1 = 5
        OBVIOUS
      <3> QED BY <2>2, <3>1, <3>2, Zenon
    <2>8. ASSUME server.negotiates
          PROVE  /\ Accepted(answers, "yes") \subseteq server.speaks
                 /\ ~server.breaks => Accepted(answers, "yes") = server.speaks
      <3>1. ASSUME NEW v \in Accepted(answers, "yes") PROVE v \in server.speaks
        <4>1. PICK k \in DOMAIN answers : answers[k].accepted = "yes" /\ v = answers[k].version
          BY DEF Accepted
        <4> QED BY <2>2, <2>8, <4>1 DEF True
      <3>2. ASSUME ~server.breaks, NEW v \in server.speaks PROVE v \in Accepted(answers, "yes")
        <4>1. v \in 2 .. 7
          BY <2>1, <3>2, ServerFacts
        <4>2. v - 1 \in 1 .. 6 /\ SurveyVersions[v - 1] = (v - 1) + 1 /\ (v - 1) + 1 = v
          <5>1. v - 1 \in 1 .. 6 /\ (v - 1) + 1 = v
            BY <4>1
          <5> QED BY <5>1, Versions
        <4>3. answers[v - 1].version = v /\ True(server, answers[v - 1])
          BY <2>2, <2>5, <4>2
        <4>4. answers[v - 1].accepted = "yes"
          BY <2>8, <3>2, <4>3 DEF True
        <4> QED BY <2>5, <4>2, <4>3, <4>4 DEF Accepted
      <3> QED BY <3>1, <3>2
    <2>9. server.speaks \in SUBSET (2 .. 7)
      BY <2>1, ServerFacts
    <2>10. ASSUME server.negotiates, ~server.breaks
           PROVE  /\ LegacyOnly(answers) <=>
                       server.speaks # {} /\ server.speaks \subseteq SSL2 .. (TLS12 - 1)
                  /\ "ssl_build" \in Advice(answers) <=>
                       server.speaks # {} /\ server.speaks \subseteq {SSL2, SSL3}
      <3>1. Accepted(answers, "yes") = server.speaks
        BY <2>8, <2>10
      <3> QED BY <2>9, <3>1, NewestIsGreatest
    <2> QED BY <2>6, <2>7, <2>8, <2>10, Zenon DEF answers
  <1> QED BY <1>1, TInvAlways, PTL

=============================================================================
