---------------------------- MODULE ResumeProofs ----------------------------
(***************************************************************************)
(* What a resumed scan probes.                                             *)
(*                                                                         *)
(* First the order: it is a bijection, for a plan of any size that fits in *)
(* 64 bits and any round functions (Permutation).                          *)
(*                                                                         *)
(* Then the record, which says truly what was not probed (Resume).  The    *)
(* argument: every event accounts for as many probes as there are          *)
(* counter indices it covers, no two events cover one index, and only      *)
(* counted indices are covered.  So the digest of a record is the number   *)
(* of indices that it covers, however much of it was lost; and when that   *)
(* number is the number the terminal event counted, nothing was lost.      *)
(***************************************************************************)
EXTENDS Resume, TLAPS, FiniteSetTheorems, WellFoundedInduction, NaturalsInduction,
        SequenceTheorems

-----------------------------------------------------------------------------
(* Numbers.                                                                *)

(* A non-empty set of natural numbers has a least one.                     *)
LEMMA LeastOfNaturals ==
  ASSUME NEW S \in SUBSET Nat, S # {}
  PROVE  \E m \in S : \A y \in S : m <= y
  <1>1. PICK m \in S : \A y \in S : ~ (<<y, m>> \in OpToRel(<, Nat))
    BY NatLessThanWellFounded, WFMin
  <1>2. ASSUME NEW y \in S PROVE m <= y
    <2>1. ~ (y < m)
      BY <1>1 DEF OpToRel
    <2> QED BY <2>1
  <1> QED BY <1>2

(* The widths a network can have.                                          *)
Power(h) == 2 ^ h \in Nat /\ 2 ^ h > 0

LEMMA Powers == \A h \in 1 .. 32 : Power(h)
  <1>1. /\ Power(1) /\ Power(2) /\ Power(3) /\ Power(4)
       /\ Power(5) /\ Power(6) /\ Power(7) /\ Power(8)
    BY DEF Power
  <1>2. /\ Power(9) /\ Power(10) /\ Power(11) /\ Power(12)
       /\ Power(13) /\ Power(14) /\ Power(15) /\ Power(16)
    BY DEF Power
  <1>3. /\ Power(17) /\ Power(18) /\ Power(19) /\ Power(20)
       /\ Power(21) /\ Power(22) /\ Power(23) /\ Power(24)
    BY DEF Power
  <1>4. /\ Power(25) /\ Power(26) /\ Power(27) /\ Power(28)
       /\ Power(29) /\ Power(30) /\ Power(31) /\ Power(32)
    BY DEF Power
  <1> HIDE DEF Power
  <1> QED BY <1>1, <1>2, <1>3, <1>4

(* The network holds the plan.                                             *)
LEMMA NetworkHoldsPlan ==
  ASSUME NEW n, Fits(n)
  PROVE  Side(n) \in Nat /\ Side(n) > 0 /\ Side(n) * Side(n) >= n
  <1> DEFINE Holds(h) == 2 ^ h * 2 ^ h >= n
             S == {h \in 1 .. 32 : Holds(h)}
             P(h) == /\ Holds(h) \/ h = 32
                     /\ \A g \in 1 .. (h - 1) : 2 ^ g * 2 ^ g < n
  <1>0. n \in Nat /\ \A h \in 1 .. 32 : 2 ^ h \in Nat /\ 2 ^ h > 0 /\ 2 ^ h * 2 ^ h \in Nat
    <2>1. ASSUME NEW h \in 1 .. 32
          PROVE  2 ^ h \in Nat /\ 2 ^ h > 0 /\ 2 ^ h * 2 ^ h \in Nat
      <3>1. 2 ^ h \in Nat /\ 2 ^ h > 0
        BY Powers DEF Power
      <3>2. \A p \in Nat : p * p \in Nat
        OBVIOUS
      <3> QED BY <3>1, <3>2, Zenon
    <2>2. n \in Nat
      BY DEF Fits
    <2> QED BY <2>1, <2>2, Zenon
  <1>1. PICK m \in S : \A y \in S : m <= y
    <2>1. PICK h \in 1 .. 32 : Holds(h)
      BY DEF Fits
    <2>2. S \in SUBSET Nat /\ S # {}
      <3> HIDE DEF Holds
      <3> QED BY <2>1
    <2> HIDE DEF S
    <2> QED BY <2>2, LeastOfNaturals
  <1>2. m \in 1 .. 32 /\ P(m)
    <2>1. m \in 1 .. 32 /\ Holds(m)
      OBVIOUS
    <2>2. ASSUME NEW g \in 1 .. (m - 1) PROVE 2 ^ g * 2 ^ g < n
      <3>1. g \in 1 .. 32 /\ g \notin S
        BY <1>1, <2>1
      <3> QED BY <3>1, <1>0
    <2> QED BY <2>1, <2>2
  <1>3. HalfBits(n) = CHOOSE h \in 1 .. 32 : P(h)
    BY DEF HalfBits
  <1>4. HalfBits(n) \in 1 .. 32 /\ P(HalfBits(n))
    <2> HIDE DEF P
    <2> QED BY <1>2, <1>3
  <1>5. Holds(HalfBits(n))
    <2>1. CASE HalfBits(n) = 32
      <3>1. CASE m = 32
        BY <2>1, <3>1
      <3>2. CASE m # 32
        <4>1. m \in 1 .. (HalfBits(n) - 1) /\ 2 ^ m * 2 ^ m >= n
          BY <2>1, <3>2
        <4>2. 2 ^ m * 2 ^ m < n
          BY <1>4, <4>1
        <4> QED BY <1>0, <4>1, <4>2
      <3> QED BY <3>1, <3>2
    <2>2. CASE HalfBits(n) # 32
      BY <1>4, <2>2
    <2> QED BY <2>1, <2>2
  <1> QED BY <1>0, <1>4, <1>5 DEF Side

-----------------------------------------------------------------------------
(* The network.                                                            *)

Round(p, f) == <<p[2], Xor(p[1], f[p[2]])>>

LEMMA RoundsInOrder ==
  ASSUME NEW F, NEW l, NEW r
  PROVE  RoundStates(F, l, r)[Rounds] =
           Round(Round(Round(Round(<<l, r>>, F[1]), F[2]), F[3]), F[4])
  <1> DEFINE T(st) == st = [k \in 0 .. Rounds |->
                              IF k = 0 THEN <<l, r>>
                              ELSE <<st[k - 1][2], Xor(st[k - 1][1], F[k][st[k - 1][2]])>>]
             p0 == <<l, r>>
             p1 == Round(p0, F[1])
             p2 == Round(p1, F[2])
             p3 == Round(p2, F[3])
             p4 == Round(p3, F[4])
             R == RoundStates(F, l, r)
  <1>1. \E st : T(st)
    <2> DEFINE st == [k \in 0 .. Rounds |->
                        IF k = 0 THEN p0 ELSE IF k = 1 THEN p1 ELSE IF k = 2 THEN p2
                        ELSE IF k = 3 THEN p3 ELSE p4]
    <2> HIDE DEF p0, p1, p2, p3, p4
    <2>1. st[0] = p0 /\ st[1] = p1 /\ st[2] = p2 /\ st[3] = p3 /\ st[4] = p4
      BY DEF Rounds
    <2> HIDE DEF st
    <2>2. ASSUME NEW k \in 0 .. Rounds
          PROVE  st[k] = IF k = 0 THEN p0 ELSE Round(st[k - 1], F[k])
      <3>1. k = 0 \/ k = 1 \/ k = 2 \/ k = 3 \/ k = 4
        BY DEF Rounds
      <3>2. p1 = Round(p0, F[1]) /\ p2 = Round(p1, F[2]) /\ p3 = Round(p2, F[3])
            /\ p4 = Round(p3, F[4])
        BY DEF p1, p2, p3, p4
      <3> QED BY <2>1, <3>1, <3>2
    <2>3. st = [k \in 0 .. Rounds |-> st[k]]
      BY DEF st
    <2>4. T(st)
      BY <2>2, <2>3 DEF Round, p0
    <2> QED BY <2>4
  <1>2. R = CHOOSE st : T(st)
    BY DEF RoundStates
  <1>3. T(R)
    <2> HIDE DEF T
    <2> QED BY <1>1, <1>2
  <1> HIDE DEF R
  <1>4. /\ R[0] = p0
        /\ \A k \in 1 .. 4 : R[k] = Round(R[k - 1], F[k])
    BY <1>3 DEF Round, Rounds
  <1>5. R[1] = Round(R[0], F[1]) /\ R[2] = Round(R[1], F[2])
        /\ R[3] = Round(R[2], F[3]) /\ R[4] = Round(R[3], F[4])
    <2> HIDE DEF p0
    <2> QED BY <1>4
  <1> QED BY <1>4, <1>5 DEF R, Rounds

(* A round is an injective function on pairs of halves, whatever its round *)
(* function.                                                               *)
LEMMA RoundIsInjective ==
  ASSUME NEW n, XorIsInvertible(n), NEW f \in [Half(n) -> Half(n)],
         NEW p \in Half(n) \X Half(n), NEW q \in Half(n) \X Half(n)
  PROVE  /\ Round(p, f) \in Half(n) \X Half(n)
         /\ Round(p, f) = Round(q, f) => p = q
  <1>1. p[1] \in Half(n) /\ p[2] \in Half(n) /\ q[1] \in Half(n) /\ q[2] \in Half(n)
        /\ p = <<p[1], p[2]>> /\ q = <<q[1], q[2]>>
    OBVIOUS
  <1>2. f[p[2]] \in Half(n) /\ f[q[2]] \in Half(n)
    BY <1>1
  <1>3. Xor(p[1], f[p[2]]) \in Half(n)
    BY <1>1, <1>2 DEF XorIsInvertible
  <1>4. ASSUME Round(p, f) = Round(q, f) PROVE p = q
    <2>1. p[2] = q[2] /\ Xor(p[1], f[p[2]]) = Xor(q[1], f[q[2]])
      BY <1>4 DEF Round
    <2>2. p[1] = q[1]
      BY <1>1, <1>2, <2>1 DEF XorIsInvertible
    <2> QED BY <1>1, <2>1, <2>2
  <1> QED BY <1>1, <1>3, <1>4 DEF Round

(* Splitting an index into halves, and putting halves together.            *)
LEMMA Splitting ==
  ASSUME NEW s \in Nat, s > 0, NEW x \in 0 .. (s * s - 1)
  PROVE  x \div s \in 0 .. (s - 1) /\ x % s \in 0 .. (s - 1) /\ x = (x \div s) * s + (x % s)
  OBVIOUS

LEMMA Joining ==
  ASSUME NEW s \in Nat, s > 0, NEW a \in 0 .. (s - 1), NEW b \in 0 .. (s - 1),
         NEW c \in 0 .. (s - 1), NEW d \in 0 .. (s - 1)
  PROVE  /\ a * s + b \in 0 .. (s * s - 1)
         /\ a * s + b = c * s + d => a = c /\ b = d
  <1>1. a * s <= (s - 1) * s /\ (s - 1) * s = s * s - s
    OBVIOUS
  <1>2. a * s \in Nat
    OBVIOUS
  <1>3. a * s + b \in 0 .. (s * s - 1)
    BY <1>1, <1>2
  <1>4. ASSUME a * s + b = c * s + d PROVE a = c
    <2>1. a * s - c * s = (a - c) * s
      OBVIOUS
    <2>2. (a - c) * s = d - b
      BY <1>4, <2>1
    <2>3. \A k \in Int : k >= 1 => k * s >= s
      OBVIOUS
    <2>4. \A k \in Int : k <= -1 => k * s <= -s
      OBVIOUS
    <2>5. a - c \in Int /\ d - b < s /\ d - b > -s
      OBVIOUS
    <2> QED BY <2>2, <2>3, <2>4, <2>5
  <1> QED BY <1>3, <1>4

(* Permutation::feistel is an injective function on its domain.            *)
LEMMA FeistelIsInjective ==
  ASSUME NEW n, Fits(n), XorIsInvertible(n), NEW F \in RoundFunctions(n),
         NEW x \in Domain(n), NEW y \in Domain(n)
  PROVE  /\ Feistel(n, F, x) \in Domain(n)
         /\ Feistel(n, F, x) = Feistel(n, F, y) => x = y
  <1> DEFINE s == Side(n)
             H == Half(n)
             in(z) == <<z \div s, z % s>>
             out(z) == Round(Round(Round(Round(in(z), F[1]), F[2]), F[3]), F[4])
  <1>1. s \in Nat /\ s > 0
    BY NetworkHoldsPlan
  <1>2. F[1] \in [H -> H] /\ F[2] \in [H -> H] /\ F[3] \in [H -> H] /\ F[4] \in [H -> H]
    BY DEF RoundFunctions, Rounds
  <1>3. \A z \in Domain(n) : in(z) \in H \X H /\ z = (z \div s) * s + (z % s)
    <2> TAKE z \in Domain(n)
    <2>1. z \in 0 .. (s * s - 1)
      BY DEF Domain
    <2> HIDE DEF s
    <2>2. z \div s \in 0 .. (s - 1) /\ z % s \in 0 .. (s - 1) /\ z = (z \div s) * s + (z % s)
      BY <1>1, <2>1, Splitting
    <2>3. H = 0 .. (s - 1)
      BY DEF Half, s
    <2> HIDE DEF H
    <2> QED BY <2>2, <2>3
  <1>4. \A p, q \in H \X H, f \in [H -> H] :
          Round(p, f) \in H \X H /\ (Round(p, f) = Round(q, f) => p = q)
    <2> TAKE p, q \in H \X H, f \in [H -> H]
    <2> QED BY RoundIsInjective
  <1>5. \A z \in Domain(n) : out(z) \in H \X H
    <2> HIDE DEF in, H
    <2> QED BY <1>2, <1>3, <1>4
  <1>6. out(x) = out(y) => x = y
    <2>1. in(x) = in(y) => x = y
      <3>1. x = (x \div s) * s + (x % s) /\ y = (y \div s) * s + (y % s)
        BY <1>3
      <3>2. in(x) = in(y) => x \div s = y \div s /\ x % s = y % s
        OBVIOUS
      <3> QED BY <3>1, <3>2, Zenon
    <2> DEFINE x1 == Round(in(x), F[1])
               x2 == Round(x1, F[2])
               x3 == Round(x2, F[3])
               y1 == Round(in(y), F[1])
               y2 == Round(y1, F[2])
               y3 == Round(y2, F[3])
    <2>2. in(x) \in H \X H /\ in(y) \in H \X H
      BY <1>3
    <2> HIDE DEF in, H
    <2>3. x1 \in H \X H /\ y1 \in H \X H /\ (x1 = y1 => in(x) = in(y))
      BY <1>2, <1>4, <2>2
    <2> HIDE DEF x1, y1
    <2>4. x2 \in H \X H /\ y2 \in H \X H /\ (x2 = y2 => x1 = y1)
      BY <1>2, <1>4, <2>3
    <2> HIDE DEF x2, y2
    <2>5. x3 \in H \X H /\ y3 \in H \X H /\ (x3 = y3 => x2 = y2)
      BY <1>2, <1>4, <2>4
    <2> HIDE DEF x3, y3
    <2>6. Round(x3, F[4]) = Round(y3, F[4]) => x3 = y3
      BY <1>2, <1>4, <2>5
    <2> QED BY <2>1, <2>3, <2>4, <2>5, <2>6 DEF x1, x2, x3, y1, y2, y3
  <1>7. \A z \in Domain(n) : Feistel(n, F, z) = out(z)[1] * s + out(z)[2]
    <2> TAKE z \in Domain(n)
    <2>1. RoundStates(F, z \div s, z % s)[Rounds] = out(z)
      BY RoundsInOrder, Zenon
    <2> HIDE DEF out
    <2> QED BY <2>1 DEF Feistel
  <1> HIDE DEF out, in
  <1>8. H = 0 .. (s - 1) /\ Domain(n) = 0 .. (s * s - 1)
    BY DEF Half, Domain
  <1> HIDE DEF s, H
  <1>9. /\ out(x)[1] \in 0 .. (s - 1) /\ out(x)[2] \in 0 .. (s - 1)
        /\ out(y)[1] \in 0 .. (s - 1) /\ out(y)[2] \in 0 .. (s - 1)
        /\ out(x) = <<out(x)[1], out(x)[2]>> /\ out(y) = <<out(y)[1], out(y)[2]>>
    <2>1. out(x) \in H \X H /\ out(y) \in H \X H
      BY <1>5
    <2> QED BY <1>8, <2>1
  <1>10. /\ out(x)[1] * s + out(x)[2] \in 0 .. (s * s - 1)
         /\ out(x)[1] * s + out(x)[2] = out(y)[1] * s + out(y)[2] =>
              out(x)[1] = out(y)[1] /\ out(x)[2] = out(y)[2]
    <2> DEFINE a == out(x)[1]
               b == out(x)[2]
               c == out(y)[1]
               d == out(y)[2]
    <2> HIDE DEF a, b, c, d
    <2>1. a \in 0 .. (s - 1) /\ b \in 0 .. (s - 1) /\ c \in 0 .. (s - 1) /\ d \in 0 .. (s - 1)
      BY <1>9 DEF a, b, c, d
    <2>2. /\ a * s + b \in 0 .. (s * s - 1)
          /\ a * s + b = c * s + d => a = c /\ b = d
      BY <1>1, <2>1, Joining
    <2> QED BY <2>2 DEF a, b, c, d
  <1>11. Feistel(n, F, x) \in Domain(n)
    BY <1>7, <1>8, <1>10, Zenon
  <1>12. ASSUME Feistel(n, F, x) = Feistel(n, F, y) PROVE x = y
    <2>1. out(x)[1] * s + out(x)[2] = out(y)[1] * s + out(y)[2]
      BY <1>7, <1>12, Zenon
    <2>2. out(x)[1] = out(y)[1] /\ out(x)[2] = out(y)[2]
      BY <1>10, <2>1, Zenon
    <2>3. out(x) = out(y)
      BY <1>9, <2>2, Zenon
    <2> QED BY <1>6, <2>3
  <1> QED BY <1>11, <1>12

-----------------------------------------------------------------------------
(* The walk.                                                               *)

(* w follows f from x for m steps.                                         *)
Follows(w, f, x, m, D) ==
  /\ w \in [0 .. m -> D]
  /\ w[0] = x
  /\ \A k \in 1 .. m : w[k] = f[w[k - 1]]

(* A function can be followed for any number of steps.                     *)
LEMMA WalkExists ==
  ASSUME NEW D, NEW f \in [D -> D], NEW x \in D, NEW m \in Nat
  PROVE  \E w : Follows(w, f, x, m, D)
  <1> DEFINE Bad == {j \in Nat : ~ \E w : Follows(w, f, x, j, D)}
  <1>1. SUFFICES ASSUME Bad # {} PROVE FALSE
    OBVIOUS
  <1>2. Bad \in SUBSET Nat
    OBVIOUS
  <1> HIDE DEF Bad
  <1>3. PICK j \in Bad : \A y \in Bad : j <= y
    BY <1>1, <1>2, LeastOfNaturals
  <1>4. j \in Nat /\ ~ \E w : Follows(w, f, x, j, D)
    BY <1>3 DEF Bad
  <1>5. CASE j = 0
    <2>1. Follows([k \in 0 .. 0 |-> x], f, x, 0, D)
      BY DEF Follows
    <2> QED BY <1>4, <1>5, <2>1
  <1>6. CASE j # 0
    <2>1. j - 1 \in Nat /\ j - 1 \notin Bad
      BY <1>2, <1>3, <1>4, <1>6
    <2>2. PICK w : Follows(w, f, x, j - 1, D)
      BY <2>1 DEF Bad
    <2> DEFINE v == [k \in 0 .. j |-> IF k < j THEN w[k] ELSE f[w[j - 1]]]
    <2>3. Follows(v, f, x, j, D)
      <3>1. w \in [0 .. (j - 1) -> D] /\ w[0] = x
            /\ \A k \in 1 .. (j - 1) : w[k] = f[w[k - 1]]
        BY <2>2 DEF Follows
      <3>2. v \in [0 .. j -> D]
        <4>1. ASSUME NEW k \in 0 .. j PROVE (IF k < j THEN w[k] ELSE f[w[j - 1]]) \in D
          <5>1. CASE k < j
            BY <1>4, <3>1, <5>1
          <5>2. CASE ~ (k < j)
            <6>1. j - 1 \in 0 .. (j - 1)
              BY <2>1
            <6>2. w[j - 1] \in D
              BY <3>1, <6>1
            <6> QED BY <5>2, <6>2
          <5> QED BY <5>1, <5>2
        <4> QED BY <4>1
      <3>3. v[0] = x
        BY <1>4, <1>6, <3>1
      <3>4. ASSUME NEW k \in 1 .. j PROVE v[k] = f[v[k - 1]]
        <4>1. k \in 0 .. j /\ k - 1 \in 0 .. j /\ k - 1 < j
          BY <1>4
        <4>2. v[k - 1] = w[k - 1]
          BY <4>1
        <4>3. CASE k < j
          <5>1. k \in 1 .. (j - 1) /\ v[k] = w[k]
            BY <1>4, <4>1, <4>3
          <5> HIDE DEF v
          <5> QED BY <3>1, <4>2, <5>1
        <4>4. CASE k = j
          <5>1. v[k] = f[w[j - 1]]
            BY <1>4, <4>1, <4>4
          <5> HIDE DEF v
          <5> QED BY <4>2, <4>4, <5>1
        <4> HIDE DEF v
        <4> QED BY <1>4, <4>3, <4>4
      <3> HIDE DEF v
      <3> QED BY <3>2, <3>3, <3>4 DEF Follows
    <2> QED BY <1>4, <2>3
  <1> QED BY <1>5, <1>6

(* The network as a function.                                              *)
Net(n, F) == [z \in Domain(n) |-> Feistel(n, F, z)]

(* The equation of Walk has a solution, and it stays in the domain.        *)
LEMMA WalkFollows ==
  ASSUME NEW n, Fits(n), XorIsInvertible(n), NEW F \in RoundFunctions(n),
         NEW i \in Domain(n)
  PROVE  Follows(Walk(n, F, i), Net(n, F), i, Side(n) * Side(n), Domain(n))
  <1> DEFINE m == Side(n) * Side(n)
             D == Domain(n)
             T(w) == w = [k \in 0 .. m |-> IF k = 0 THEN i ELSE Feistel(n, F, w[k - 1])]
             W == Walk(n, F, i)
  <1>1. m \in Nat
    <2>1. Side(n) \in Nat
      BY NetworkHoldsPlan
    <2> QED BY <2>1
  <1>2. \A z \in D : Feistel(n, F, z) \in D
    BY FeistelIsInjective, Zenon
  <1>3. Net(n, F) \in [D -> D]
    BY <1>2 DEF Net
  <1>4. PICK v : Follows(v, Net(n, F), i, m, D)
    <2> HIDE DEF m, D
    <2> QED BY <1>1, <1>3, WalkExists DEF D
  <1> HIDE DEF m
  <1>5. T(v)
    <2>1. v = [k \in 0 .. m |-> v[k]]
      BY <1>4 DEF Follows
    <2>2. ASSUME NEW k \in 0 .. m
          PROVE  v[k] = IF k = 0 THEN i ELSE Feistel(n, F, v[k - 1])
      <3>1. CASE k = 0
        BY <1>4, <3>1 DEF Follows
      <3>2. CASE k # 0
        <4>1. k \in 1 .. m /\ k - 1 \in 0 .. m
          BY <1>1, <3>2
        <4>2. v[k] = Net(n, F)[v[k - 1]] /\ v[k - 1] \in D
          BY <1>4, <4>1 DEF Follows
        <4> QED BY <3>2, <4>2 DEF Net
      <3> QED BY <3>1, <3>2
    <2> QED BY <2>1, <2>2
  <1>6. W = CHOOSE w : T(w)
    BY DEF Walk, m
  <1>7. T(W)
    <2> HIDE DEF T
    <2> QED BY <1>5, <1>6
  <1> HIDE DEF W
  <1>8. /\ W = [k \in 0 .. m |-> W[k]]
        /\ \A k \in 0 .. m : W[k] = IF k = 0 THEN i ELSE Feistel(n, F, W[k - 1])
    BY <1>7
  <1>9. \A k \in 0 .. m : W[k] \in D
    <2> DEFINE Bad == {k \in 0 .. m : W[k] \notin D}
    <2>1. SUFFICES ASSUME Bad # {} PROVE FALSE
      OBVIOUS
    <2>2. Bad \in SUBSET Nat
      BY <1>1
    <2>3. PICK k \in Bad : \A y \in Bad : k <= y
      <3> HIDE DEF Bad
      <3> QED BY <2>1, <2>2, LeastOfNaturals
    <2>4. CASE k = 0
      BY <1>8, <2>3, <2>4
    <2>5. CASE k # 0
      <3>1. k - 1 \in 0 .. m /\ k - 1 \notin Bad
        BY <1>1, <2>2, <2>3, <2>5
      <3>2. W[k - 1] \in D
        BY <3>1
      <3>3. W[k] = Feistel(n, F, W[k - 1])
        BY <1>8, <2>5
      <3> QED BY <1>2, <3>2, <3>3
    <2> QED BY <2>4, <2>5
  <1>10. W \in [0 .. m -> D]
    BY <1>8, <1>9
  <1>11. W[0] = i
    <2>1. 0 \in 0 .. m
      BY <1>1
    <2> QED BY <1>8, <2>1, Zenon
  <1>12. ASSUME NEW k \in 1 .. m PROVE W[k] = Net(n, F)[W[k - 1]]
    <2>1. k \in 0 .. m /\ k - 1 \in 0 .. m /\ k # 0
      BY <1>1
    <2>2. W[k] = Feistel(n, F, W[k - 1]) /\ W[k - 1] \in D
      BY <1>8, <1>9, <2>1
    <2> QED BY <2>2 DEF Net
  <1> QED BY <1>10, <1>11, <1>12 DEF Follows, W, m

(* Two walks of an injective function that meet are one walk: what one     *)
(* reaches in a steps and the other in b, the other is a steps before.     *)
LEMMA WalksMeet ==
  ASSUME NEW D, NEW f \in [D -> D], \A x, y \in D : f[x] = f[y] => x = y,
         NEW m \in Nat, NEW x \in D, NEW y \in D, NEW v, NEW w,
         Follows(v, f, x, m, D), Follows(w, f, y, m, D),
         NEW a \in 0 .. m, NEW b \in 0 .. m, a <= b, v[a] = w[b]
  PROVE  x = w[b - a]
  <1> DEFINE Bad == {j \in 0 .. a : v[a - j] # w[b - j]}
  <1>1. SUFFICES Bad = {}
    <2>1. a \in 0 .. a /\ a - a = 0
      OBVIOUS
    <2>2. v[a - a] = w[b - a]
      BY <1>1, <2>1
    <2> QED BY <2>1, <2>2 DEF Follows
  <1>2. SUFFICES ASSUME Bad # {} PROVE FALSE
    OBVIOUS
  <1>3. Bad \in SUBSET Nat
    OBVIOUS
  <1>4. PICK j \in Bad : \A z \in Bad : j <= z
    <2> HIDE DEF Bad
    <2> QED BY <1>2, <1>3, LeastOfNaturals
  <1>5. CASE j = 0
    <2>1. a - 0 = a /\ b - 0 = b
      OBVIOUS
    <2> QED BY <1>4, <1>5, <2>1
  <1>6. CASE j # 0
    <2>1. j - 1 \in 0 .. a /\ j - 1 \notin Bad
      BY <1>3, <1>4, <1>6
    <2>2. v[a - (j - 1)] = w[b - (j - 1)]
      BY <2>1
    <2>3. /\ a - (j - 1) \in 1 .. m /\ a - (j - 1) - 1 = a - j /\ a - j \in 0 .. m
          /\ b - (j - 1) \in 1 .. m /\ b - (j - 1) - 1 = b - j /\ b - j \in 0 .. m
      BY <1>6
    <2>4. v[a - (j - 1)] = f[v[a - j]] /\ w[b - (j - 1)] = f[w[b - j]]
      BY <2>3 DEF Follows
    <2>5. v[a - j] \in D /\ w[b - j] \in D
      BY <2>3 DEF Follows
    <2>6. v[a - j] = w[b - j]
      BY <2>2, <2>4, <2>5
    <2> QED BY <1>4, <2>6
  <1> QED BY <1>5, <1>6

-----------------------------------------------------------------------------
(* The order.                                                              *)

(* A walk of the network from inside the plan returns to the plan, and the *)
(* steps that Apply takes are the fewest.                                  *)
LEMMA WalkReturns ==
  ASSUME NEW n, Fits(n), XorIsInvertible(n), NEW F \in RoundFunctions(n),
         NEW i \in 0 .. (n - 1)
  PROVE  LET W == Walk(n, F, i)
             s == Steps(n, W)
         IN  /\ s \in 1 .. (Side(n) * Side(n))
             /\ W[s] \in 0 .. (n - 1)
             /\ \A j \in 1 .. (s - 1) : W[j] \notin 0 .. (n - 1)
  <1> DEFINE m == Side(n) * Side(n)
             D == Domain(n)
             W == Walk(n, F, i)
             f == Net(n, F)
             P(k) == /\ W[k] < n
                     /\ \A j \in 1 .. (k - 1) : W[j] >= n
  <1>1. m \in Nat /\ n \in Nat /\ m >= n /\ D = 0 .. (m - 1)
    <2>1. Side(n) \in Nat /\ Side(n) * Side(n) >= n /\ n \in Nat
      BY NetworkHoldsPlan DEF Fits
    <2> QED BY <2>1 DEF Domain
  <1> HIDE DEF m
  <1>2. i \in D
    BY <1>1
  <1> HIDE DEF D
  <1>3. f \in [D -> D] /\ \A x, y \in D : f[x] = f[y] => x = y
    <2>1. \A x, y \in D : Feistel(n, F, x) \in D /\ (Feistel(n, F, x) = Feistel(n, F, y) => x = y)
      <3> TAKE x, y \in D
      <3> QED BY FeistelIsInjective DEF D
    <2>2. f = [z \in D |-> Feistel(n, F, z)]
      BY DEF Net, D
    <2> HIDE DEF f
    <2> QED BY <2>1, <2>2
  <1>4. Follows(W, f, i, m, D)
    BY <1>2, WalkFollows DEF D, m
  <1> HIDE DEF W, f
  <1>5. PICK a, b \in 0 .. m : a # b /\ W[a] = W[b]
    <2>1. IsFiniteSet(0 .. m) /\ Cardinality(0 .. m) = m + 1
      BY <1>1, FS_Interval
    <2>2. IsFiniteSet(D) /\ Cardinality(D) = m
      <3>1. IsFiniteSet(0 .. (m - 1)) /\ Cardinality(0 .. (m - 1)) = m
        BY <1>1, FS_Interval
      <3> QED BY <1>1, <3>1
    <2>3. W \in [0 .. m -> D]
      BY <1>4 DEF Follows
    <2>4. Cardinality(D) < Cardinality(0 .. m)
      BY <1>1, <2>1, <2>2
    <2>5. ASSUME NEW S, IsFiniteSet(S), Cardinality(D) < Cardinality(S), W \in [S -> D]
          PROVE  \E x, y \in S : x # y /\ W[x] = W[y]
      BY <2>2, <2>5, FS_PigeonHole
    <2> QED BY <2>1, <2>3, <2>4, <2>5, Zenon
  <1>6. PICK c \in 1 .. m : W[c] = i
    <2>1. ASSUME NEW p \in 0 .. m, NEW q \in 0 .. m, p < q, W[p] = W[q]
          PROVE  \E c \in 1 .. m : W[c] = i
      <3>1. p <= q
        BY <2>1
      <3>2. i = W[q - p]
        <4>1. m \in Nat
          BY <1>1
        <4>2. ASSUME NEW v, NEW w, NEW x \in D, NEW y \in D,
                     Follows(v, f, x, m, D), Follows(w, f, y, m, D), v[p] = w[q]
              PROVE  x = w[q - p]
          BY <1>3, <3>1, <4>1, <4>2, WalksMeet
        <4> QED BY <1>2, <1>4, <2>1, <4>2, Zenon
      <3>3. q - p \in 1 .. m
        BY <1>1, <2>1
      <3> QED BY <3>2, <3>3
    <2>2. a < b \/ b < a
      BY <1>5
    <2> QED BY <1>5, <2>1, <2>2
  <1>7. \A k \in 0 .. m : W[k] \in Nat /\ (W[k] < n <=> W[k] \in 0 .. (n - 1))
    <2> TAKE k \in 0 .. m
    <2>1. W[k] \in D
      BY <1>4 DEF Follows
    <2>2. W[k] \in 0 .. (m - 1)
      BY <1>1, <2>1
    <2> QED BY <1>1, <2>2
  <1>8. PICK s \in 1 .. m : P(s)
    <2> DEFINE S == {k \in 1 .. m : W[k] < n}
    <2>1. S \in SUBSET Nat
      OBVIOUS
    <2>2. c \in S
      BY <1>1, <1>6
    <2>3. PICK s \in S : \A y \in S : s <= y
      <3> HIDE DEF S
      <3> QED BY <2>1, <2>2, LeastOfNaturals
    <2>4. ASSUME NEW j \in 1 .. (s - 1) PROVE W[j] >= n
      <3>1. j \in 1 .. m /\ j \in 0 .. m /\ j \notin S
        BY <1>1, <2>3
      <3>2. ~ (W[j] < n) /\ W[j] \in Nat
        BY <1>7, <3>1
      <3> QED BY <1>1, <3>2
    <2> QED BY <2>3, <2>4
  <1>9. Steps(n, W) = CHOOSE k \in 1 .. m : P(k)
    BY DEF Steps, m
  <1>10. Steps(n, W) \in 1 .. m /\ P(Steps(n, W))
    <2> HIDE DEF P
    <2> QED BY <1>8, <1>9
  <1>11. W[Steps(n, W)] \in 0 .. (n - 1)
    BY <1>1, <1>7, <1>10
  <1>12. ASSUME NEW j \in 1 .. (Steps(n, W) - 1) PROVE W[j] \notin 0 .. (n - 1)
    <2>1. W[j] >= n
      BY <1>10
    <2> QED BY <1>1, <2>1
  <1> QED BY <1>10, <1>11, <1>12 DEF W, m

(* Permutation::apply maps the plan to the plan, no two indices to one     *)
(* place: of two walks that end in one place, the longer would have ended  *)
(* where the shorter began.                                                *)
LEMMA ApplyIsInjective ==
  ASSUME NEW n, Fits(n), XorIsInvertible(n), NEW F \in RoundFunctions(n)
  PROVE  /\ Apply(n, F) \in [0 .. (n - 1) -> 0 .. (n - 1)]
         /\ \A i, j \in 0 .. (n - 1) : Apply(n, F)[i] = Apply(n, F)[j] => i = j
  <1> DEFINE A == Apply(n, F)
             Plan == 0 .. (n - 1)
             m == Side(n) * Side(n)
             D == Domain(n)
             f == Net(n, F)
             W(i) == Walk(n, F, i)
             s(i) == Steps(n, W(i))
  <1>1. CASE n <= 1
    <2>1. A = [i \in Plan |-> i]
      BY <1>1 DEF Apply
    <2> QED BY <2>1
  <1>2. CASE ~ (n <= 1)
    <2>1. \A i \in Plan : A[i] = W(i)[s(i)]
      BY <1>2 DEF Apply
    <2>2. \A i \in Plan : /\ s(i) \in 1 .. m /\ W(i)[s(i)] \in Plan
                          /\ \A j \in 1 .. (s(i) - 1) : W(i)[j] \notin Plan
      <3> TAKE i \in Plan
      <3> QED BY WalkReturns, Zenon
    <2>3. A \in [Plan -> Plan]
      <3>1. A = [i \in Plan |-> A[i]]
        BY DEF Apply
      <3> HIDE DEF A, W, s, m
      <3> QED BY <2>1, <2>2, <3>1
    <2>4. m \in Nat /\ Plan \subseteq D
      <3>1. Side(n) \in Nat /\ Side(n) * Side(n) >= n /\ n \in Nat
        BY NetworkHoldsPlan DEF Fits
      <3> QED BY <3>1 DEF Domain
    <2>5. f \in [D -> D] /\ \A x, y \in D : f[x] = f[y] => x = y
      <3>1. \A x, y \in D : Feistel(n, F, x) \in D /\ (Feistel(n, F, x) = Feistel(n, F, y) => x = y)
        <4> TAKE x, y \in D
        <4> QED BY FeistelIsInjective
      <3>2. f = [z \in D |-> Feistel(n, F, z)]
        BY DEF Net
      <3> HIDE DEF f, D
      <3> QED BY <3>1, <3>2
    <2>6. \A i \in Plan : Follows(W(i), f, i, m, D)
      <3> TAKE i \in Plan
      <3>1. i \in Domain(n)
        BY <2>4
      <3> QED BY <3>1, WalkFollows
    <2> HIDE DEF A, Plan, m, D, f, W, s
    <2>7. ASSUME NEW i \in Plan, NEW j \in Plan, A[i] = A[j], s(i) <= s(j)
          PROVE  i = j
      <3>1. s(i) \in 1 .. m /\ s(j) \in 1 .. m /\ W(i)[s(i)] = W(j)[s(j)]
        BY <2>1, <2>2, <2>7
      <3>2. i = W(j)[s(j) - s(i)]
        <4>1. i \in D /\ j \in D /\ s(i) \in 0 .. m /\ s(j) \in 0 .. m
          BY <2>4, <3>1
        <4>2. Follows(W(i), f, i, m, D) /\ Follows(W(j), f, j, m, D)
          BY <2>6
        <4> QED BY <2>4, <2>5, <2>7, <3>1, <4>1, <4>2, WalksMeet
      <3>3. CASE s(i) = s(j)
        <4>1. s(j) - s(i) = 0
          BY <3>1, <3>3
        <4>2. W(j)[0] = j
          BY <2>6 DEF Follows
        <4> QED BY <3>2, <4>1, <4>2
      <3>4. CASE s(i) # s(j)
        <4>1. s(j) - s(i) \in 1 .. (s(j) - 1)
          BY <2>7, <3>1, <3>4
        <4>2. W(j)[s(j) - s(i)] \notin Plan
          BY <2>2, <4>1
        <4> QED BY <3>2, <4>2
      <3> QED BY <3>3, <3>4
    <2>8. ASSUME NEW i \in Plan, NEW j \in Plan, A[i] = A[j] PROVE i = j
      <3>1. s(i) <= s(j) \/ s(j) <= s(i)
        BY <2>2
      <3> QED BY <2>7, <2>8, <3>1
    <2> QED BY <2>3, <2>8 DEF A, Plan
  <1> QED BY <1>1, <1>2

(* "A genuine bijection over [0, N)": the order in which a scan visits its *)
(* endpoints visits each of them, and none twice, for a plan of any size   *)
(* up to 2^64 and any seed (Permutation::apply).                           *)
THEOREM OrderIsBijective ==
  ASSUME NEW n, Fits(n), XorIsInvertible(n), NEW F \in RoundFunctions(n)
  PROVE  /\ Apply(n, F) \in Bijection(0 .. (n - 1), 0 .. (n - 1))
         /\ {Apply(n, F)[i] : i \in 0 .. (n - 1)} = 0 .. (n - 1)
  <1> DEFINE Plan == 0 .. (n - 1)
             A == Apply(n, F)
  <1>1. A \in [Plan -> Plan] /\ \A i, j \in Plan : A[i] = A[j] => i = j
    BY ApplyIsInjective, Zenon
  <1>2. IsFiniteSet(Plan)
    BY FS_Interval DEF Fits
  <1> HIDE DEF A, Plan
  <1>3. A \in Injection(Plan, Plan)
    BY <1>1 DEF Injection, IsInjective
  <1>4. A \in Surjection(Plan, Plan)
    BY <1>2, <1>3, FS_Injection
  <1>5. \A y \in Plan : \E i \in Plan : A[i] = y
    BY <1>4 DEF Surjection
  <1>6. {A[i] : i \in Plan} = Plan
    BY <1>1, <1>5
  <1>7. A \in Bijection(Plan, Plan)
    BY <1>3, <1>4 DEF Bijection
  <1> QED BY <1>6, <1>7 DEF A, Plan

-----------------------------------------------------------------------------
(* The inductive invariant.                                                *)

Event ==
  [type : {"row"}, at : Position]
    \cup [type : {"span"}, ranges : SUBSET (Index \X Index), count : Nat]
    \cup [type : {"terminal"}, hint : BOOLEAN, from : Nat, indices : SUBSET Index,
          completed : Nat, abandoned : Nat, notStarted : Nat]

(* The indices whose results an event holds, when p is the order.          *)
Cover(p, e) ==
  CASE e.type = "row"      -> {i \in Index : p[i] = e.at}
    [] e.type = "span"     -> Covered(e)
    [] e.type = "terminal" -> {}

CoveredBy(p, events) == UNION {Cover(p, events[k]) : k \in DOMAIN events}

(* Events that cover no index twice.                                       *)
Apart(p, events) ==
  \A j, k \in DOMAIN events :
    j # k => Cover(p, events[j]) \intersect Cover(p, events[k]) = {}

Held == UNION {groups[c] : c \in DOMAIN groups}

(* A bijection of the plan.                                                *)
Order ==
  /\ perm \in [Index -> Position]
  /\ \A i, j \in Index : perm[i] = perm[j] => i = j
  /\ \A p \in Position : \E i \in Index : perm[i] = p

Scalars ==
  /\ collapse \in BOOLEAN /\ tracked \in BOOLEAN /\ exhausted \in BOOLEAN
  /\ next \in 0 .. Planned
  /\ marked \subseteq 0 .. (next - 1)
  /\ phase \in {"scanning", "finished", "damaged", "killed", "read"}

Grouped ==
  /\ DOMAIN groups \subseteq Classes
  /\ \A c \in DOMAIN groups : groups[c] \subseteq marked
  /\ \A c, d \in DOMAIN groups : c # d => groups[c] \intersect groups[d] = {}
  /\ Cardinality(DOMAIN groups) <= MaxGroups

(* An event is the row of a result that is counted, the span of some, or   *)
(* last, the terminal event, when the scan has ended.                      *)
Fine(p, counted, ended, last, e) ==
  \/ \E i \in counted : e = [type |-> "row", at |-> p[i]]
  \/ \E S \in SUBSET counted : e = Span(S)
  \/ ended /\ e = last

Good(e) == Fine(perm, marked, phase # "scanning", Terminal, e)

Recorded ==
  /\ record \in Seq(Event)
  /\ \A k \in DOMAIN record : Good(record[k])
  /\ \A k \in DOMAIN record : record[k].type = "terminal" => k = Len(record)
  /\ Apart(perm, record)

(* A record nothing was lost from.                                         *)
Whole ==
  /\ record # << >> /\ Last(record) = Terminal
  /\ CoveredBy(perm, record) = marked

(* Where the results are.                                                  *)
Homes ==
  /\ phase = "scanning" =>
       /\ CoveredBy(perm, record) \union Held = marked
       /\ CoveredBy(perm, record) \intersect Held = {}
  /\ phase = "finished" => Held = {} /\ Whole

Answered ==
  /\ phase # "read" => result = NoResult
  /\ phase = "read" =>
       /\ result.of \in {"finished", "damaged", "killed"}
       /\ result.of = "finished" => Whole
       /\ HintIsUsable(record) =>
            result.path = "hint" /\ result.outstanding = FromHint(Last(record))
       /\ ~HintIsUsable(record) =>
            result.path = "scan" /\ result.outstanding = ByScanning(record)

RInv ==
  /\ Order
  /\ Scalars
  /\ Grouped
  /\ Recorded
  /\ Homes
  /\ Answered

-----------------------------------------------------------------------------
(* Ranges.                                                                 *)

IsRun(a, b, S) == a <= b /\ a .. b \subseteq S /\ {a - 1, b + 1} \intersect S = {}

LEMMA RangesAreRuns ==
  ASSUME NEW S
  PROVE  Ranges(S) = {r \in S \X S : IsRun(r[1], r[2], S)}
  BY DEF Ranges, IsRun

(* Each index is in a run.                                                 *)
LEMMA EveryIndexHasARun ==
  ASSUME NEW S \in SUBSET Index, NEW i \in S
  PROVE  \E r \in Ranges(S) : i \in r[1] .. r[2]
  <1>0. Planned \in Nat /\ i \in Nat /\ S \subseteq Nat /\ \A x \in S : x < Planned
    BY ResumeAssumption DEF Index
  <1> DEFINE Starts == {x \in Nat : x <= i /\ x .. i \subseteq S}
             Ends == {x \in Nat : x >= i /\ x + 1 \notin S}
  <1>1. PICK a \in Starts : \A y \in Starts : a <= y
    <2>1. Starts \in SUBSET Nat /\ i \in Starts
      BY <1>0
    <2> QED BY <2>1, LeastOfNaturals
  <1>2. PICK b \in Ends : \A y \in Ends : b <= y
    <2>1. Ends \in SUBSET Nat /\ Planned \in Ends
      BY <1>0
    <2> QED BY <2>1, LeastOfNaturals
  <1>3. a \in Nat /\ b \in Nat /\ a <= i /\ i <= b /\ b + 1 \notin S /\ a .. i \subseteq S
    BY <1>1, <1>2
  <1>4. a - 1 \notin S
    <2>1. SUFFICES ASSUME a - 1 \in S PROVE FALSE
      OBVIOUS
    <2>2. a - 1 \in Nat
      BY <1>0, <2>1
    <2>3. \A x \in (a - 1) .. i : x = a - 1 \/ x \in a .. i
      BY <1>3
    <2>4. (a - 1) .. i \subseteq S
      BY <1>3, <2>1, <2>3
    <2>5. a - 1 <= i
      BY <1>0, <1>3
    <2>6. a - 1 \in Starts
      BY <2>2, <2>4, <2>5
    <2> QED BY <1>1, <1>3, <2>6
  <1>5. ASSUME NEW x \in i .. b PROVE x \in S
    <2>1. SUFFICES ASSUME x \notin S PROVE FALSE
      OBVIOUS
    <2>2. x # i /\ x \in Nat
      <3>1. \A p, q \in Nat : \A y \in p .. q : y \in Nat
        OBVIOUS
      <3> QED BY <1>0, <1>3, <2>1, <3>1
    <2>3. x - 1 \in Nat /\ x - 1 >= i /\ x - 1 + 1 = x
      BY <1>0, <1>3, <2>2
    <2>4. x - 1 \in Ends
      BY <2>1, <2>3
    <2> QED BY <1>2, <1>3, <2>2, <2>4
  <1>6. a .. b \subseteq S
    <2>1. \A x \in a .. b : x \in a .. i \/ x \in i .. b
      BY <1>0, <1>3
    <2> QED BY <1>3, <1>5, <2>1
  <1>7. a \in S /\ b \in S
    BY <1>0, <1>3, <1>6
  <1>8. IsRun(a, b, S)
    BY <1>0, <1>3, <1>4, <1>6 DEF IsRun
  <1>9. <<a, b>> \in Ranges(S)
    BY <1>7, <1>8, RangesAreRuns
  <1>10. i \in <<a, b>>[1] .. <<a, b>>[2]
    BY <1>0, <1>3
  <1> QED BY <1>9, <1>10

(* No two runs have an index in common.                                    *)
LEMMA RunsAreApart ==
  ASSUME NEW S \in SUBSET Index, NEW r \in Ranges(S), NEW t \in Ranges(S), r # t
  PROVE  (r[1] .. r[2]) \intersect (t[1] .. t[2]) = {}
  <1>1. /\ r \in S \X S /\ IsRun(r[1], r[2], S)
        /\ t \in S \X S /\ IsRun(t[1], t[2], S)
    BY RangesAreRuns
  <1>2. S \subseteq Int
    BY ResumeAssumption DEF Index
  <1> SUFFICES ASSUME NEW x \in r[1] .. r[2], x \in t[1] .. t[2] PROVE FALSE
    OBVIOUS
  <1>3. ASSUME NEW a \in S, NEW b \in S, NEW c \in S, NEW d \in S,
               IsRun(a, b, S), IsRun(c, d, S), x \in a .. b, x \in c .. d
        PROVE  a <= c /\ b >= d
    <2>0. a \in Int /\ b \in Int /\ c \in Int /\ d \in Int
      BY <1>2
    <2>1. a - 1 \notin S /\ b + 1 \notin S /\ c .. d \subseteq S
      BY <1>3 DEF IsRun
    <2>2. a <= c
      <3>1. ~ (a - 1 \in c .. d)
        BY <2>1
      <3> QED BY <1>3, <2>0, <3>1
    <2>3. b >= d
      <3>1. ~ (b + 1 \in c .. d)
        BY <2>1
      <3> QED BY <1>3, <2>0, <3>1
    <2> QED BY <2>2, <2>3
  <1>4. r[1] \in S /\ r[2] \in S /\ t[1] \in S /\ t[2] \in S
    BY <1>1
  <1>5. r[1] <= t[1] /\ r[2] >= t[2] /\ t[1] <= r[1] /\ t[2] >= r[2]
    BY <1>1, <1>3, <1>4
  <1>6. r[1] = t[1] /\ r[2] = t[2]
    <2>1. r[1] \in Int /\ r[2] \in Int /\ t[1] \in Int /\ t[2] \in Int
      BY <1>2, <1>4
    <2> QED BY <1>5, <2>1
  <1>7. r = <<r[1], r[2]>> /\ t = <<t[1], t[2]>>
    BY <1>1
  <1> QED BY <1>6, <1>7

(* A finite plan has finite parts.                                         *)
LEMMA PartsAreFinite ==
  ASSUME NEW S \in SUBSET Index
  PROVE  IsFiniteSet(S) /\ Cardinality(S) \in Nat
  <1>1. IsFiniteSet(Index)
    BY ResumeAssumption, FS_Interval DEF Index
  <1>2. IsFiniteSet(S)
    BY <1>1, FS_Subset
  <1> QED BY <1>2, FS_CardinalityType

(* A span's ranges cover the indices it is of.                             *)
LEMMA SpanCovers ==
  ASSUME NEW S \in SUBSET Index
  PROVE  /\ Span(S) \in Event /\ Span(S).type = "span"
         /\ Covered(Span(S)) = S
         /\ Span(S).count = Cardinality(S)
         /\ \A r, t \in Span(S).ranges : r # t => (r[1] .. r[2]) \intersect (t[1] .. t[2]) = {}
  <1>1. Ranges(S) \in SUBSET (Index \X Index)
    BY RangesAreRuns
  <1>2. Cardinality(S) \in Nat
    BY PartsAreFinite
  <1>3. UNION {r[1] .. r[2] : r \in Ranges(S)} = S
    <2>1. ASSUME NEW r \in Ranges(S) PROVE r[1] .. r[2] \subseteq S
      BY RangesAreRuns DEF IsRun
    <2>2. ASSUME NEW i \in S PROVE \E r \in Ranges(S) : i \in r[1] .. r[2]
      BY EveryIndexHasARun
    <2> QED BY <2>1, <2>2
  <1>4. Span(S).ranges = Ranges(S) /\ Span(S).count = Cardinality(S) /\ Span(S).type = "span"
    BY DEF Span
  <1>5. \A r, t \in Ranges(S) : r # t => (r[1] .. r[2]) \intersect (t[1] .. t[2]) = {}
    BY RunsAreApart
  <1>6. Span(S) \in Event
    BY <1>1, <1>2 DEF Span, Event
  <1> QED BY <1>3, <1>4, <1>5, <1>6 DEF Covered

-----------------------------------------------------------------------------
(* What events account for.                                                *)

LEMMA MarkedAreIndices ==
  ASSUME Scalars
  PROVE  /\ marked \in SUBSET Index /\ next \in Nat /\ Planned \in Nat /\ next <= Planned
         /\ (0 .. (next - 1)) \ marked \in SUBSET Index
  <1>1. Planned \in Nat
    BY ResumeAssumption
  <1>2. next \in Nat /\ next <= Planned
    BY <1>1 DEF Scalars
  <1>3. 0 .. (next - 1) \subseteq Index
    BY <1>1, <1>2 DEF Index
  <1> QED BY <1>1, <1>2, <1>3 DEF Scalars

LEMMA RowCovers ==
  ASSUME Order, NEW i \in Index
  PROVE  /\ Row(i) \in Event /\ Row(i).type = "row" /\ Row(i).at = perm[i]
         /\ Cover(perm, Row(i)) = {i}
  <1>1. Row(i).type = "row" /\ Row(i).at = perm[i]
    BY DEF Row
  <1>2. Cover(perm, Row(i)) = {j \in Index : perm[j] = perm[i]}
    BY <1>1 DEF Cover
  <1>3. {j \in Index : perm[j] = perm[i]} = {i}
    BY DEF Order
  <1>4. Row(i) \in Event
    BY DEF Row, Event, Order
  <1> QED BY <1>1, <1>2, <1>3, <1>4

LEMMA TerminalCovers ==
  ASSUME Scalars
  PROVE  /\ Terminal \in Event /\ Terminal.type = "terminal"
         /\ Terminal.hint = tracked /\ Terminal.from = next
         /\ Terminal.completed = Cardinality(marked)
         /\ Terminal.notStarted = Planned - next
         /\ tracked => /\ Terminal.indices = (0 .. (next - 1)) \ marked
                       /\ Terminal.abandoned = Cardinality((0 .. (next - 1)) \ marked)
         /\ Cover(perm, Terminal) = {}
  <1>1. Cardinality((0 .. (next - 1)) \ marked) \in Nat /\ Cardinality(marked) \in Nat
    BY MarkedAreIndices, PartsAreFinite
  <1>2. Planned - next \in Nat
    BY MarkedAreIndices
  <1>3. Terminal \in Event
    BY <1>1, <1>2, MarkedAreIndices DEF Terminal, Event, Scalars
  <1>4. /\ Terminal.type = "terminal"
        /\ Terminal.hint = tracked /\ Terminal.from = next
        /\ Terminal.completed = Cardinality(marked)
        /\ Terminal.notStarted = Planned - next
        /\ tracked => /\ Terminal.indices = (0 .. (next - 1)) \ marked
                      /\ Terminal.abandoned = Cardinality((0 .. (next - 1)) \ marked)
    BY DEF Terminal
  <1> HIDE DEF Terminal
  <1>5. Cover(perm, Terminal) = {}
    BY <1>4 DEF Cover
  <1> QED BY <1>3, <1>4, <1>5

(* An event accounts for the indices it covers, all of them counted.       *)
LEMMA GoodAccounts ==
  ASSUME Order, Scalars, NEW e, Good(e)
  PROVE  /\ e \in Event /\ Cover(perm, e) \in SUBSET marked
         /\ Accounted(e) = Cardinality(Cover(perm, e))
  <1>1. CASE \E i \in marked : e = Row(i)
    <2>1. PICK i \in marked : e = Row(i)
      BY <1>1
    <2>2. e \in Event /\ e.type = "row" /\ Cover(perm, e) = {i}
      BY <2>1, MarkedAreIndices, RowCovers
    <2>3. Accounted(e) = 1
      BY <2>2 DEF Accounted
    <2>4. Cardinality({i}) = 1
      BY FS_Singleton
    <2> QED BY <2>2, <2>3, <2>4
  <1>2. CASE \E S \in SUBSET marked : e = Span(S)
    <2>1. PICK S \in SUBSET marked : e = Span(S)
      BY <1>2
    <2>2. S \in SUBSET Index
      BY MarkedAreIndices
    <2>3. e \in Event /\ e.type = "span" /\ Covered(e) = S /\ e.count = Cardinality(S)
      BY <2>1, <2>2, SpanCovers
    <2>4. Accounted(e) = Cardinality(S) /\ Cover(perm, e) = S
      BY <2>3 DEF Accounted, Cover
    <2> QED BY <2>3, <2>4
  <1>3. CASE e = Terminal
    <2>1. e \in Event /\ e.type = "terminal" /\ Cover(perm, e) = {}
      BY <1>3, TerminalCovers
    <2>2. Accounted(e) = 0
      BY <2>1 DEF Accounted
    <2> QED BY <2>1, <2>2, FS_EmptySet
  <1> QED BY <1>1, <1>2, <1>3 DEF Good, Fine, Row

(* Digest::read counts the indices that the events cover.                  *)
LEMMA DigestCounts ==
  ASSUME Order, Scalars, NEW events \in Seq(Event), \A k \in DOMAIN events : Good(events[k]),
         Apart(perm, events)
  PROVE  /\ Digest(events) = Cardinality(CoveredBy(perm, events))
         /\ CoveredBy(perm, events) \in SUBSET marked
  <1> DEFINE n == Len(events)
             Upto(k) == UNION {Cover(perm, events[j]) : j \in 1 .. k}
             T(p) == p = [k \in 0 .. n |->
                            IF k = 0 THEN 0 ELSE p[k - 1] + Accounted(events[k])]
             q == [k \in 0 .. n |-> Cardinality(Upto(k))]
             probes == CHOOSE p : T(p)
  <1>1. n \in Nat /\ DOMAIN events = 1 .. n
    OBVIOUS
  <1>2. \A j \in 1 .. n : /\ Cover(perm, events[j]) \in SUBSET marked
                          /\ Accounted(events[j]) = Cardinality(Cover(perm, events[j]))
    <2> TAKE j \in 1 .. n
    <2>1. Good(events[j])
      BY <1>1
    <2> QED BY <2>1, GoodAccounts
  <1>3. ASSUME NEW k \in 1 .. n
        PROVE  /\ Cardinality(Upto(k)) = Cardinality(Upto(k - 1)) + Accounted(events[k])
    <2>1. \A j : j \in 1 .. k <=> j \in 1 .. (k - 1) \/ j = k
      BY <1>1
    <2>2. Upto(k) = Upto(k - 1) \cup Cover(perm, events[k])
      BY <2>1
    <2>3. Upto(k - 1) \intersect Cover(perm, events[k]) = {}
      <3>1. ASSUME NEW j \in 1 .. (k - 1)
            PROVE  Cover(perm, events[j]) \intersect Cover(perm, events[k]) = {}
        <4>1. j \in DOMAIN events /\ k \in DOMAIN events /\ j # k
          BY <1>1
        <4> QED BY <4>1 DEF Apart
      <3> QED BY <3>1
    <2>4. Upto(k - 1) \in SUBSET Index /\ Cover(perm, events[k]) \in SUBSET Index
      <3>1. marked \in SUBSET Index
        BY MarkedAreIndices
      <3>2. 1 .. (k - 1) \subseteq 1 .. n
        BY <1>1
      <3> QED BY <1>2, <3>1, <3>2
    <2> HIDE DEF Upto
    <2>5. /\ IsFiniteSet(Upto(k - 1)) /\ IsFiniteSet(Cover(perm, events[k]))
          /\ Cardinality(Upto(k - 1)) \in Nat /\ Cardinality(Cover(perm, events[k])) \in Nat
      BY <2>4, PartsAreFinite
    <2>6. Cardinality(Upto(k)) = Cardinality(Upto(k - 1)) + Cardinality(Cover(perm, events[k]))
            - Cardinality(Upto(k - 1) \intersect Cover(perm, events[k]))
      BY <2>2, <2>5, FS_Union
    <2>7. Cardinality(Upto(k - 1) \intersect Cover(perm, events[k])) = 0
      BY <2>3, FS_EmptySet
    <2>8. Accounted(events[k]) = Cardinality(Cover(perm, events[k]))
      BY <1>2
    <2> QED BY <2>5, <2>6, <2>7, <2>8
  <1>4. Cardinality(Upto(0)) = 0
    <2>1. Upto(0) = {}
      OBVIOUS
    <2> QED BY <2>1, FS_EmptySet
  <1> HIDE DEF Upto
  <1>5. T(q)
    <2>1. ASSUME NEW k \in 0 .. n
          PROVE  Cardinality(Upto(k)) = IF k = 0 THEN 0 ELSE q[k - 1] + Accounted(events[k])
      <3>1. CASE k = 0
        BY <1>4, <3>1
      <3>2. CASE k # 0
        <4>1. k \in 1 .. n /\ k - 1 \in 0 .. n
          BY <1>1, <3>2
        <4>2. q[k - 1] = Cardinality(Upto(k - 1))
          BY <4>1
        <4> HIDE DEF q
        <4> QED BY <1>3, <3>2, <4>1, <4>2
      <3> QED BY <3>1, <3>2
    <2> QED BY <2>1
  <1>6. T(probes)
    <2> HIDE DEF T
    <2> QED BY <1>5
  <1>7. Digest(events) = probes[n]
    BY DEF Digest
  <1> HIDE DEF probes
  <1>8. \A k \in 0 .. n : probes[k] = IF k = 0 THEN 0 ELSE probes[k - 1] + Accounted(events[k])
    BY <1>6
  <1>9. \A k \in 0 .. n : probes[k] = Cardinality(Upto(k))
    <2> DEFINE Bad == {k \in 0 .. n : probes[k] # Cardinality(Upto(k))}
    <2>1. SUFFICES ASSUME Bad # {} PROVE FALSE
      OBVIOUS
    <2>2. Bad \in SUBSET Nat
      BY <1>1
    <2>3. PICK k \in Bad : \A y \in Bad : k <= y
      <3> HIDE DEF Bad
      <3> QED BY <2>1, <2>2, LeastOfNaturals
    <2>4. CASE k = 0
      <3>1. probes[0] = 0
        BY <1>1, <1>8
      <3> QED BY <1>4, <2>3, <2>4, <3>1
    <2>5. CASE k # 0
      <3>1. k \in 1 .. n /\ k - 1 \in 0 .. n /\ k - 1 \notin Bad
        BY <1>1, <2>2, <2>3, <2>5
      <3>2. probes[k - 1] = Cardinality(Upto(k - 1))
        BY <3>1
      <3>3. probes[k] = probes[k - 1] + Accounted(events[k])
        BY <1>8, <2>5
      <3>4. probes[k] = Cardinality(Upto(k))
        BY <1>3, <3>1, <3>2, <3>3
      <3> QED BY <2>3, <3>4
    <2> QED BY <2>4, <2>5
  <1>10. Upto(n) = CoveredBy(perm, events)
    BY <1>1 DEF Upto, CoveredBy
  <1>11. CoveredBy(perm, events) \in SUBSET marked
    BY <1>1, <1>2 DEF CoveredBy
  <1>12. probes[n] = Cardinality(Upto(n))
    BY <1>1, <1>9
  <1> QED BY <1>7, <1>10, <1>11, <1>12

-----------------------------------------------------------------------------
(* What the invariant says of a record that is read.                       *)

(* An event of each type is what its type says.                            *)
LEMMA GoodByType ==
  ASSUME Order, Scalars, NEW e, Good(e)
  PROVE  /\ e.type = "row" => \E i \in marked : e = Row(i)
         /\ e.type = "span" => \E S \in SUBSET Index : e = Span(S)
         /\ e.type = "terminal" => phase # "scanning" /\ e = Terminal
         /\ e.type \in {"row", "span", "terminal"}
  <1>1. \A i \in marked : Row(i).type = "row"
    BY DEF Row
  <1>2. \A S \in SUBSET marked : S \in SUBSET Index /\ Span(S).type = "span"
    BY MarkedAreIndices DEF Span
  <1>3. Terminal.type = "terminal"
    BY TerminalCovers
  <1> QED BY <1>1, <1>2, <1>3 DEF Good, Fine, Row

(* The positions a record holds a result for are those of the indices its  *)
(* events cover.                                                           *)
LEMMA BackedIsCovered ==
  ASSUME Order, Scalars, NEW events \in Seq(Event), \A k \in DOMAIN events : Good(events[k])
  PROVE  Backed(events) = {perm[i] : i \in CoveredBy(perm, events)}
  <1>1. ASSUME NEW k \in DOMAIN events, events[k].type = "row"
        PROVE  {perm[i] : i \in Cover(perm, events[k])} = {events[k].at}
    <2>1. PICK i \in marked : events[k] = Row(i)
      BY <1>1, GoodByType
    <2>2. events[k].at = perm[i] /\ Cover(perm, events[k]) = {i}
      BY <2>1, MarkedAreIndices, RowCovers
    <2> QED BY <2>2
  <1>2. ASSUME NEW k \in DOMAIN events, events[k].type = "span"
        PROVE  Cover(perm, events[k]) = Covered(events[k])
    BY <1>2 DEF Cover
  <1>3. ASSUME NEW k \in DOMAIN events, events[k].type = "terminal"
        PROVE  Cover(perm, events[k]) = {}
    BY <1>3 DEF Cover
  <1>4. \A k \in DOMAIN events : events[k].type \in {"row", "span", "terminal"}
    BY GoodByType
  <1> DEFINE Image == {perm[i] : i \in CoveredBy(perm, events)}
  <1>5. ASSUME NEW x \in Backed(events) PROVE x \in Image
    <2>1. CASE x \in RowPositions(events)
      <3>1. PICK k \in DOMAIN events : events[k].type = "row" /\ x = events[k].at
        BY <2>1 DEF RowPositions
      <3>2. x \in {perm[i] : i \in Cover(perm, events[k])}
        BY <1>1, <3>1
      <3> QED BY <3>2 DEF CoveredBy
    <2>2. CASE x \in {perm[i] : i \in SpanIndices(events)}
      <3>1. PICK i \in SpanIndices(events) : x = perm[i]
        BY <2>2
      <3>2. PICK k \in DOMAIN events : events[k].type = "span" /\ i \in Covered(events[k])
        BY <3>1 DEF SpanIndices
      <3>3. i \in Cover(perm, events[k])
        BY <1>2, <3>2
      <3>4. i \in CoveredBy(perm, events)
        BY <3>3 DEF CoveredBy
      <3> QED BY <3>1, <3>4
    <2> QED BY <2>1, <2>2 DEF Backed
  <1>6. ASSUME NEW x \in Image PROVE x \in Backed(events)
    <2>1. PICK i \in CoveredBy(perm, events) : x = perm[i]
      OBVIOUS
    <2>2. PICK k \in DOMAIN events : i \in Cover(perm, events[k])
      BY <2>1 DEF CoveredBy
    <2>3. CASE events[k].type = "row"
      <3>1. x = events[k].at
        BY <1>1, <2>1, <2>2, <2>3
      <3> QED BY <2>3, <3>1 DEF Backed, RowPositions
    <2>4. CASE events[k].type = "span"
      <3>1. i \in Covered(events[k])
        BY <1>2, <2>2, <2>4
      <3>2. i \in SpanIndices(events)
        BY <2>4, <3>1 DEF SpanIndices
      <3> QED BY <2>1, <3>2 DEF Backed
    <2>5. CASE events[k].type = "terminal"
      BY <1>3, <2>2, <2>5
    <2> QED BY <1>4, <2>3, <2>4, <2>5
  <1> QED BY <1>5, <1>6

(* A hint that agrees with the rows and spans that are there is the hint   *)
(* of the scan, and nothing of the record is missing.                      *)
LEMMA UsableHintIsTrue ==
  ASSUME Order, Scalars, Recorded, HintIsUsable(record)
  PROVE  tracked /\ Whole
  <1>1. /\ record # << >> /\ Last(record).type = "terminal" /\ Last(record).hint
        /\ Digest(record) = Last(record).completed
    BY DEF HintIsUsable
  <1>2. Len(record) \in DOMAIN record /\ Last(record) = record[Len(record)]
    BY <1>1 DEF Recorded, Last
  <1>3. Last(record) = Terminal
    BY <1>1, <1>2, GoodByType DEF Recorded
  <1>4. tracked /\ Digest(record) = Cardinality(marked)
    BY <1>1, <1>3, TerminalCovers
  <1>5. /\ Digest(record) = Cardinality(CoveredBy(perm, record))
        /\ CoveredBy(perm, record) \in SUBSET marked
    BY DigestCounts DEF Recorded
  <1>6. IsFiniteSet(marked)
    BY MarkedAreIndices, PartsAreFinite
  <1>7. CoveredBy(perm, record) = marked
    BY <1>4, <1>5, <1>6, FS_Subset
  <1> QED BY <1>1, <1>3, <1>4, <1>7 DEF Whole

(* A whole record's hint is usable.                                        *)
LEMMA WholeRecordHasHint ==
  ASSUME Order, Scalars, Recorded, Whole, tracked
  PROVE  HintIsUsable(record)
  <1>1. Last(record) = Terminal /\ record # << >>
    BY DEF Whole
  <1>2. Digest(record) = Cardinality(marked)
    BY DigestCounts DEF Recorded, Whole
  <1> QED BY <1>1, <1>2, TerminalCovers DEF HintIsUsable

(* What a true hint leaves to be probed.                                   *)
LEMMA HintIsExact ==
  ASSUME Order, Scalars, tracked
  PROVE  FromHint(Terminal) = Position \ {perm[i] : i \in marked}
  <1>1. (Terminal.from .. (Planned - 1)) \union Terminal.indices = Index \ marked
    <2>1. Terminal.from = next /\ Terminal.indices = (0 .. (next - 1)) \ marked
      BY TerminalCovers
    <2>2. next \in Nat /\ Planned \in Nat /\ next <= Planned
      BY MarkedAreIndices
    <2>3. \A i : i \in Index <=> i \in next .. (Planned - 1) \/ i \in 0 .. (next - 1)
      BY <2>2 DEF Index
    <2>4. \A i \in marked : i \notin next .. (Planned - 1)
      BY <2>2 DEF Scalars
    <2> QED BY <2>1, <2>3, <2>4
  <1>2. marked \in SUBSET Index
    BY MarkedAreIndices
  <1>3. {perm[i] : i \in Index \ marked} = Position \ {perm[i] : i \in marked}
    BY <1>2 DEF Order
  <1> QED BY <1>1, <1>3 DEF FromHint

LEMMA PlacesAreKept == RInv => ResultsAreInOnePlace
  <1> SUFFICES ASSUME RInv PROVE ResultsAreInOnePlace
    OBVIOUS
  <1> DEFINE CB == CoveredBy(perm, record)
  <1>0. Order /\ Scalars /\ Grouped /\ Recorded /\ Homes
    BY DEF RInv
  <1>1. Digest(record) = Cardinality(CB) /\ CB \in SUBSET marked
    BY <1>0, DigestCounts DEF Recorded
  <1>2. Backed(record) = {perm[i] : i \in CB}
    BY <1>0, BackedIsCovered DEF Recorded
  <1>3. Held \in SUBSET marked
    BY <1>0 DEF Grouped, Held
  <1>4. marked \in SUBSET Index
    BY <1>0, MarkedAreIndices
  <1> HIDE DEF CB
  <1>5. ASSUME phase \in {"scanning", "finished"}
        PROVE  CB \union Held = marked /\ CB \intersect Held = {}
    BY <1>0, <1>5 DEF Homes, Whole, CB
  <1>6. ASSUME phase \in {"scanning", "finished"}
        PROVE  Digest(record) + Cardinality(Held) = Cardinality(marked)
    <2>1. /\ IsFiniteSet(CB) /\ IsFiniteSet(Held)
          /\ Cardinality(CB) \in Nat /\ Cardinality(Held) \in Nat
      <3>1. CB \in SUBSET Index /\ Held \in SUBSET Index
        BY <1>1, <1>3, <1>4
      <3> QED BY <3>1, PartsAreFinite
    <2>2. Cardinality(CB \union Held) =
            Cardinality(CB) + Cardinality(Held) - Cardinality(CB \intersect Held)
      BY <2>1, FS_Union
    <2>3. Cardinality(CB \intersect Held) = 0
      BY <1>5, <1>6, FS_EmptySet
    <2>4. CB \union Held = marked
      BY <1>5, <1>6
    <2>5. Cardinality(CB) + Cardinality(Held) = Cardinality(marked)
      BY <2>1, <2>2, <2>3, <2>4
    <2> QED BY <1>1, <2>5
  <1>7. ASSUME phase \in {"scanning", "finished"}
        PROVE  Backed(record) \union {perm[i] : i \in Held} = {perm[i] : i \in marked}
    BY <1>2, <1>5, <1>7
  <1>8. ASSUME NEW k \in DOMAIN record, record[k].type = "span"
        PROVE  /\ record[k].count = Cardinality(Covered(record[k]))
               /\ \A r, s \in record[k].ranges :
                    r # s => (r[1] .. r[2]) \intersect (s[1] .. s[2]) = {}
    <2>1. PICK S \in SUBSET Index : record[k] = Span(S)
      BY <1>0, <1>8, GoodByType DEF Recorded
    <2> QED BY <2>1, SpanCovers
  <1> QED BY <1>0, <1>6, <1>7, <1>8 DEF ResultsAreInOnePlace, Grouped, Held

LEMMA ResumedExactly == RInv => WholeRecordIsResumedExactly
  <1> SUFFICES ASSUME RInv, result.of = "finished", tracked
               PROVE  result.outstanding = Position \ {perm[i] : i \in marked}
    BY DEF WholeRecordIsResumedExactly
  <1>0. Order /\ Scalars /\ Recorded /\ Answered
    BY DEF RInv
  <1>1. phase = "read"
    <2>1. NoResult.of # "finished"
      BY DEF NoResult
    <2> QED BY <1>0, <2>1 DEF Answered
  <1>2. Whole
    BY <1>0, <1>1 DEF Answered
  <1>3. HintIsUsable(record)
    BY <1>0, <1>2, WholeRecordHasHint
  <1>4. result.outstanding = FromHint(Terminal)
    BY <1>0, <1>1, <1>2, <1>3 DEF Answered, Whole
  <1> QED BY <1>0, <1>4, HintIsExact

LEMMA SkippedIsBacked == RInv => NothingUnbackedIsSkipped
  <1> SUFFICES ASSUME RInv, phase = "read",
                      result.path = "hint" \/ SpanIndices(record) = {}
               PROVE  Position \ result.outstanding \subseteq Backed(record)
    BY DEF NothingUnbackedIsSkipped
  <1>0. Order /\ Scalars /\ Recorded /\ Answered
    BY DEF RInv
  <1>1. Backed(record) = {perm[i] : i \in CoveredBy(perm, record)}
    BY <1>0, BackedIsCovered DEF Recorded
  <1>2. CASE HintIsUsable(record)
    <2>1. tracked /\ Whole
      BY <1>0, <1>2, UsableHintIsTrue
    <2>2. result.outstanding = Position \ {perm[i] : i \in marked}
      BY <1>0, <1>2, <2>1, HintIsExact DEF Answered, Whole
    <2>3. CoveredBy(perm, record) = marked
      BY <2>1 DEF Whole
    <2> QED BY <1>1, <2>2, <2>3
  <1>3. CASE ~HintIsUsable(record)
    <2>1. result.path = "scan" /\ result.outstanding = ByScanning(record)
      BY <1>0, <1>3 DEF Answered
    <2>2. SpanIndices(record) = {}
      BY <2>1
    <2> QED BY <2>1, <2>2 DEF ByScanning, Backed
  <1> QED BY <1>2, <1>3

-----------------------------------------------------------------------------
(* Events joined and lost.                                                 *)

LEMMA Joined ==
  ASSUME NEW p, NEW s \in Seq(Event), NEW t \in Seq(Event), Apart(p, s), Apart(p, t),
         CoveredBy(p, s) \intersect CoveredBy(p, t) = {}
  PROVE  /\ s \o t \in Seq(Event) /\ Len(s \o t) = Len(s) + Len(t)
         /\ Apart(p, s \o t) /\ CoveredBy(p, s \o t) = CoveredBy(p, s) \union CoveredBy(p, t)
         /\ \A k \in DOMAIN (s \o t) :
              \/ k \in DOMAIN s /\ (s \o t)[k] = s[k]
              \/ k - Len(s) \in DOMAIN t /\ (s \o t)[k] = t[k - Len(s)]
  <1> DEFINE u == s \o t
             m == Len(s)
             n == Len(t)
  <1>1. m \in Nat /\ n \in Nat /\ DOMAIN s = 1 .. m /\ DOMAIN t = 1 .. n
    OBVIOUS
  <1>2. u \in Seq(Event) /\ Len(u) = m + n /\ DOMAIN u = 1 .. (m + n)
    OBVIOUS
  <1>3. \A k \in 1 .. m : k \in 1 .. (m + n) /\ u[k] = s[k]
    BY <1>1
  <1>4. \A k \in 1 .. (m + n) :
          \/ k \in 1 .. m /\ u[k] = s[k]
          \/ k - m \in 1 .. n /\ u[k] = t[k - m]
    <2> TAKE k \in 1 .. (m + n)
    <2>1. CASE k <= m
      <3>1. k \in 1 .. m
        BY <2>1
      <3> QED BY <1>3, <3>1
    <2>2. CASE ~ (k <= m)
      <3>1. k - m \in 1 .. n
        BY <2>2
      <3>2. u[k] = t[k - m]
        BY <2>2
      <3> QED BY <3>1, <3>2
    <2> QED BY <2>1, <2>2
  <1>5. \A k \in DOMAIN s : k \in DOMAIN u /\ u[k] = s[k]
    BY <1>1, <1>2, <1>3
  <1>6. \A k \in DOMAIN t : k + m \in DOMAIN u /\ u[k + m] = t[k]
    BY <1>1
  <1> HIDE DEF u, m, n
  <1>7. \A k \in DOMAIN u :
          \/ k \in DOMAIN s /\ u[k] = s[k]
          \/ k - m \in DOMAIN t /\ u[k] = t[k - m]
    BY <1>1, <1>2, <1>4
  <1>8. CoveredBy(p, u) = CoveredBy(p, s) \union CoveredBy(p, t)
    <2>1. ASSUME NEW k \in DOMAIN u
          PROVE  Cover(p, u[k]) \subseteq CoveredBy(p, s) \union CoveredBy(p, t)
      BY <1>7 DEF CoveredBy
    <2>2. ASSUME NEW k \in DOMAIN s PROVE Cover(p, s[k]) \subseteq CoveredBy(p, u)
      BY <1>5 DEF CoveredBy
    <2>3. ASSUME NEW k \in DOMAIN t PROVE Cover(p, t[k]) \subseteq CoveredBy(p, u)
      BY <1>6 DEF CoveredBy
    <2>4. CoveredBy(p, u) \subseteq CoveredBy(p, s) \union CoveredBy(p, t)
      BY <2>1 DEF CoveredBy
    <2>5. CoveredBy(p, s) \subseteq CoveredBy(p, u)
      BY <2>2 DEF CoveredBy
    <2>6. CoveredBy(p, t) \subseteq CoveredBy(p, u)
      BY <2>3 DEF CoveredBy
    <2> QED BY <2>4, <2>5, <2>6
  <1>9. ASSUME NEW j \in DOMAIN u, NEW k \in DOMAIN u, j # k
        PROVE  Cover(p, u[j]) \intersect Cover(p, u[k]) = {}
    <2>1. \A a \in DOMAIN s : Cover(p, s[a]) \subseteq CoveredBy(p, s)
      BY DEF CoveredBy
    <2>2. \A a \in DOMAIN t : Cover(p, t[a]) \subseteq CoveredBy(p, t)
      BY DEF CoveredBy
    <2>3. CASE j \in DOMAIN s /\ u[j] = s[j] /\ k \in DOMAIN s /\ u[k] = s[k]
      BY <1>9, <2>3 DEF Apart
    <2>4. CASE /\ j - m \in DOMAIN t /\ u[j] = t[j - m]
               /\ k - m \in DOMAIN t /\ u[k] = t[k - m]
      <3>1. j - m # k - m
        BY <1>1, <1>2, <1>9
      <3> QED BY <2>4, <3>1 DEF Apart
    <2>5. CASE j \in DOMAIN s /\ u[j] = s[j] /\ k - m \in DOMAIN t /\ u[k] = t[k - m]
      BY <2>1, <2>2, <2>5
    <2>6. CASE j - m \in DOMAIN t /\ u[j] = t[j - m] /\ k \in DOMAIN s /\ u[k] = s[k]
      BY <2>1, <2>2, <2>6
    <2> QED BY <1>7, <2>3, <2>4, <2>5, <2>6
  <1>10. Apart(p, u)
    BY <1>9 DEF Apart
  <1> QED BY <1>2, <1>7, <1>8, <1>10 DEF u, m, n

LEMMA OneEvent ==
  ASSUME NEW p, NEW e \in Event
  PROVE  /\ <<e>> \in Seq(Event) /\ Len(<<e>>) = 1 /\ <<e>>[1] = e /\ DOMAIN <<e>> = 1 .. 1
         /\ Apart(p, <<e>>) /\ CoveredBy(p, <<e>>) = Cover(p, e)
  <1>1. <<e>> \in Seq(Event) /\ Len(<<e>>) = 1 /\ <<e>>[1] = e /\ DOMAIN <<e>> = 1 .. 1
    OBVIOUS
  <1>2. \A k : k \in 1 .. 1 <=> k = 1
    OBVIOUS
  <1>3. CoveredBy(p, <<e>>) = Cover(p, e)
    <2>1. CoveredBy(p, <<e>>) = UNION {Cover(p, e)}
      BY <1>1, <1>2 DEF CoveredBy
    <2> QED BY <2>1
  <1>4. Apart(p, <<e>>)
    BY <1>1, <1>2 DEF Apart
  <1> QED BY <1>1, <1>3, <1>4

(* What is left of a record when events are lost.                          *)
LEMMA Lost ==
  ASSUME NEW p, NEW s \in Seq(Event), NEW t \in Seq(Event),
         NEW h \in [DOMAIN t -> DOMAIN s], \A j, k \in DOMAIN t : j # k => h[j] # h[k],
         \A k \in DOMAIN t : t[k] = s[h[k]], Apart(p, s)
  PROVE  Apart(p, t)
  BY DEF Apart

(* The spans of a drain: one for each group.                               *)
LEMMA DrainCovers ==
  ASSUME Scalars, Grouped
  PROVE  /\ DrainedEvents \in Seq(Event)
         /\ \A k \in DOMAIN DrainedEvents : \E c \in DOMAIN groups :
              DrainedEvents[k] = Span(groups[c])
         /\ Apart(perm, DrainedEvents) /\ CoveredBy(perm, DrainedEvents) = Held
  <1> DEFINE S == {Span(groups[c]) : c \in DOMAIN groups}
             f == [c \in DOMAIN groups |-> Span(groups[c])]
             n == Cardinality(S)
             D == DrainedEvents
             P(g) == g \in [1 .. n -> S] /\ IsInjective(g)
  <1>1. \A c \in DOMAIN groups : /\ groups[c] \in SUBSET Index
                                 /\ Span(groups[c]) \in Event
                                 /\ Span(groups[c]).type = "span"
                                 /\ Covered(Span(groups[c])) = groups[c]
    <2> TAKE c \in DOMAIN groups
    <2>1. groups[c] \in SUBSET Index
      BY MarkedAreIndices DEF Grouped
    <2> QED BY <2>1, SpanCovers
  <1>2. \A c \in DOMAIN groups : Cover(perm, Span(groups[c])) = groups[c]
    BY <1>1 DEF Cover
  <1>3. IsFiniteSet(S) /\ n \in Nat
    <2>1. IsFiniteSet(DOMAIN groups)
      <3>1. IsFiniteSet(Classes)
        BY ResumeAssumption
      <3>2. DOMAIN groups \in SUBSET Classes
        BY DEF Grouped
      <3> QED BY <3>1, <3>2, FS_Subset
    <2>2. f \in Surjection(DOMAIN groups, S)
      BY DEF Surjection
    <2>3. IsFiniteSet(S)
      <3> HIDE DEF f, S
      <3> QED BY <2>1, <2>2, FS_Surjection
    <2> HIDE DEF S
    <2> QED BY <2>3, FS_CardinalityType
  <1>4. D = CHOOSE g \in [1 .. n -> S] : IsInjective(g)
    BY DEF DrainedEvents, SetToSeq
  <1> HIDE DEF S
  <1>5. PICK b : b \in Bijection(1 .. n, S)
    BY <1>3, FS_CardinalityType DEF ExistsBijection
  <1>6. b \in [1 .. n -> S] /\ IsInjective(b)
    BY <1>5 DEF Bijection, Injection
  <1>7. D \in [1 .. n -> S] /\ IsInjective(D)
    <2> HIDE DEF D
    <2> QED BY <1>4, <1>6
  <1> HIDE DEF D, n
  <1>8. \A e \in S : \E k \in 1 .. n : D[k] = e
    <2>1. D \in Injection(1 .. n, S)
      BY <1>7 DEF Injection
    <2>2. Cardinality(1 .. n) = n
      BY <1>3, FS_Interval
    <2>3. D \in Surjection(1 .. n, S)
      BY <1>3, <2>1, <2>2, FS_Injection DEF n
    <2> QED BY <2>3 DEF Surjection
  <1>9. DOMAIN D = 1 .. n /\ D \in Seq(S)
    BY <1>3, <1>7
  <1>10. S \subseteq Event
    BY <1>1 DEF S
  <1>11. D \in Seq(Event)
    BY <1>9, <1>10
  <1>12. \A k \in DOMAIN D : \E c \in DOMAIN groups : D[k] = Span(groups[c])
    BY <1>7, <1>9 DEF S
  <1>13. ASSUME NEW j \in DOMAIN D, NEW k \in DOMAIN D, j # k
         PROVE  Cover(perm, D[j]) \intersect Cover(perm, D[k]) = {}
    <2>1. PICK c \in DOMAIN groups : D[j] = Span(groups[c])
      BY <1>12
    <2>2. PICK d \in DOMAIN groups : D[k] = Span(groups[d])
      BY <1>12
    <2>3. D[j] # D[k]
      BY <1>7, <1>13 DEF IsInjective
    <2>4. c # d
      BY <2>1, <2>2, <2>3
    <2>5. groups[c] \intersect groups[d] = {}
      BY <2>4 DEF Grouped
    <2> QED BY <1>2, <2>1, <2>2, <2>5
  <1>14. CoveredBy(perm, D) = Held
    <2>1. ASSUME NEW k \in DOMAIN D PROVE Cover(perm, D[k]) \subseteq Held
      BY <1>2, <1>12 DEF Held
    <2>2. ASSUME NEW c \in DOMAIN groups PROVE groups[c] \subseteq CoveredBy(perm, D)
      <3>1. Span(groups[c]) \in S
        BY DEF S
      <3>2. PICK k \in DOMAIN D : D[k] = Span(groups[c])
        BY <1>8, <1>9, <3>1
      <3>3. Cover(perm, D[k]) = groups[c]
        BY <1>2, <3>2
      <3> QED BY <3>3 DEF CoveredBy
    <2>3. CoveredBy(perm, D) \subseteq Held
      BY <2>1 DEF CoveredBy
    <2>4. Held \subseteq CoveredBy(perm, D)
      BY <2>2 DEF Held
    <2> QED BY <2>3, <2>4
  <1>15. Apart(perm, D)
    BY <1>13 DEF Apart
  <1> QED BY <1>11, <1>12, <1>14, <1>15 DEF D

-----------------------------------------------------------------------------
(* The invariant is inductive.                                             *)

LEMMA RInvInit == Init => RInv
  <1> SUFFICES ASSUME Init PROVE RInv
    OBVIOUS
  <1>1. Order
    <2>1. PICK F \in RoundFunctions(Planned) : perm = Apply(Planned, F)
      BY DEF Init
    <2>2. Fits(Planned) /\ XorIsInvertible(Planned)
      BY OrderAssumption
    <2>3. /\ perm \in [Index -> Index] /\ \A i, j \in Index : perm[i] = perm[j] => i = j
      BY <2>1, <2>2, ApplyIsInjective DEF Index
    <2>4. {perm[i] : i \in Index} = Index
      BY <2>1, <2>2, OrderIsBijective DEF Index
    <2> QED BY <2>3, <2>4 DEF Order, Position
  <1>2. Scalars
    <2>1. Planned \in Nat
      BY ResumeAssumption
    <2>2. next = 0 /\ marked = {} /\ 0 \in 0 .. Planned
      BY <2>1 DEF Init
    <2>3. /\ collapse \in BOOLEAN /\ tracked \in BOOLEAN /\ exhausted \in BOOLEAN
          /\ phase = "scanning"
      BY DEF Init
    <2> QED BY <2>2, <2>3 DEF Scalars
  <1>3. Grouped
    <2>1. groups = << >> /\ DOMAIN groups = {}
      BY DEF Init
    <2>2. Cardinality(DOMAIN groups) <= MaxGroups
      BY <2>1, FS_EmptySet, ResumeAssumption
    <2> QED BY <2>1, <2>2 DEF Grouped
  <1>4. record = << >> /\ record \in Seq(Event) /\ DOMAIN record = {}
    BY DEF Init
  <1>5. Recorded
    BY <1>4 DEF Recorded, Apart
  <1>6. Homes
    <2>1. DOMAIN groups = {} /\ marked = {} /\ phase = "scanning"
      BY DEF Init
    <2> QED BY <1>4, <2>1 DEF Homes, CoveredBy, Held
  <1>7. Answered
    BY DEF Init, Answered
  <1> QED BY <1>1, <1>2, <1>3, <1>5, <1>6, <1>7 DEF RInv

(* Good events stay good: while the scan runs more results are counted,    *)
(* and afterwards nothing changes.                                         *)
Later ==
  \/ phase = "scanning" /\ marked \subseteq marked'
  \/ marked' = marked /\ Terminal' = Terminal /\ phase' # "scanning"

LEMMA GoodStays ==
  ASSUME NEW e, Good(e), Later
  PROVE  Fine(perm, marked', phase' # "scanning", Terminal', e)
  <1>1. CASE phase = "scanning" /\ marked \subseteq marked'
    <2>1. Fine(perm, marked, FALSE, Terminal, e)
      BY <1>1 DEF Good, Fine
    <2>2. SUBSET marked \subseteq SUBSET marked'
      BY <1>1
    <2> QED BY <1>1, <2>1, <2>2 DEF Fine
  <1>2. CASE marked' = marked /\ Terminal' = Terminal /\ phase' # "scanning"
    BY <1>2 DEF Good, Fine
  <1> QED BY <1>1, <1>2 DEF Later

(* What Recorded asks of the next state, with the order unchanged.         *)
LEMMA RecordedNext ==
  ASSUME perm' = perm, record' \in Seq(Event),
         \A k \in DOMAIN record' :
           Fine(perm, marked', phase' # "scanning", Terminal', record'[k]),
         \A k \in DOMAIN record' : record'[k].type = "terminal" => k = Len(record'),
         Apart(perm, record')
  PROVE  Recorded'
  BY DEF Recorded, Good

(* A record that is left alone stays what it is.                           *)
LEMMA RecordStays ==
  ASSUME Recorded, UNCHANGED <<perm, record>>, Later
  PROVE  Recorded'
  <1>1. \A k \in DOMAIN record :
          Fine(perm, marked', phase' # "scanning", Terminal', record[k])
    BY GoodStays DEF Recorded
  <1> QED BY <1>1, RecordedNext DEF Recorded

LEMMA TakeStep == RInv /\ Take => RInv'
  <1> SUFFICES ASSUME RInv, Take PROVE RInv'
    OBVIOUS
  <1>1. /\ phase = "scanning" /\ next < Planned /\ next' = next + 1
        /\ UNCHANGED <<perm, collapse, tracked, marked, groups, exhausted, record, phase, result>>
    BY DEF Take, planVars
  <1>2. Order'
    BY <1>1 DEF RInv, Order
  <1>3. Scalars'
    <2>1. next \in Nat /\ Planned \in Nat /\ marked \subseteq 0 .. (next - 1) /\ Scalars
      BY MarkedAreIndices DEF RInv, Scalars
    <2>2. next' \in 0 .. Planned /\ marked' \subseteq 0 .. (next' - 1)
      BY <1>1, <2>1
    <2> QED BY <1>1, <2>1, <2>2 DEF Scalars
  <1>4. Grouped'
    BY <1>1 DEF RInv, Grouped
  <1>5. Recorded'
    BY <1>1, RecordStays DEF RInv, Later
  <1>6. Homes'
    BY <1>1 DEF RInv, Homes, Held
  <1>7. Answered'
    BY <1>1 DEF RInv, Answered
  <1> QED BY <1>2, <1>3, <1>4, <1>5, <1>6, <1>7 DEF RInv

(* A collected result is in a group or in a row of its own.                *)
LEMMA CollectStep == RInv /\ Collect => RInv'
  <1> SUFFICES ASSUME RInv, Collect PROVE RInv'
    OBVIOUS
  <1>0. Order /\ Scalars /\ Grouped /\ Recorded /\ Homes /\ Answered
    BY DEF RInv
  <1>1. PICK i \in 0 .. (next - 1), c \in Classes \union {Single} :
          /\ i \notin marked
          /\ marked' = marked \union {i}
          /\ Absorb(c, i) \/ Refuse(c, i)
    BY DEF Collect
  <1>2. phase = "scanning" /\ UNCHANGED <<perm, collapse, tracked, next, phase, result>>
    BY DEF Collect, planVars
  <1>3. i \in Index /\ marked \in SUBSET Index
    <2>1. next \in Nat /\ Planned \in Nat /\ next <= Planned /\ marked \in SUBSET Index
      BY <1>0, MarkedAreIndices
    <2> QED BY <2>1 DEF Index
  <1>4. Order'
    BY <1>0, <1>2 DEF Order
  <1>5. exhausted' \in BOOLEAN
    BY <1>0, <1>1 DEF Absorb, Refuse, Scalars
  <1>6. Scalars'
    <2>1. marked' \subseteq 0 .. (next' - 1)
      BY <1>0, <1>1, <1>2 DEF Scalars
    <2> QED BY <1>0, <1>2, <1>5, <2>1 DEF Scalars
  <1>7. Answered'
    BY <1>0, <1>2 DEF Answered
  <1>8. Later
    BY <1>1, <1>2 DEF Later
  <1>9. i \notin Held /\ i \notin CoveredBy(perm, record)
    <2>1. Held \subseteq marked
      BY <1>0 DEF Grouped, Held
    <2>2. CoveredBy(perm, record) \subseteq marked
      BY <1>0, DigestCounts DEF Recorded
    <2> QED BY <1>1, <2>1, <2>2
  <1>10. CASE Absorb(c, i)
    <2>1. c \in Classes /\ HasRoom(c) /\ record' = record
      BY <1>10 DEF Absorb
    <2>2. /\ DOMAIN groups' = DOMAIN groups \union {c}
          /\ \A k \in DOMAIN groups' :
               groups'[k] = (IF k \in DOMAIN groups THEN groups[k] ELSE {})
                              \union (IF k = c THEN {i} ELSE {})
      BY <1>10 DEF Absorb
    <2>3. DOMAIN groups' \subseteq Classes
      BY <1>0, <2>1, <2>2 DEF Grouped
    <2>4. \A k \in DOMAIN groups' : groups'[k] \subseteq marked'
      BY <1>0, <1>1, <2>2 DEF Grouped
    <2>5. ASSUME NEW k \in DOMAIN groups', NEW d \in DOMAIN groups', k # d
          PROVE  groups'[k] \intersect groups'[d] = {}
      <3>1. \A h \in DOMAIN groups : i \notin groups[h]
        BY <1>9 DEF Held
      <3>2. \A h, g \in DOMAIN groups : h # g => groups[h] \intersect groups[g] = {}
        BY <1>0 DEF Grouped
      <3> QED BY <2>2, <2>5, <3>1, <3>2
    <2>6. Cardinality(DOMAIN groups') <= MaxGroups
      <3>1. IsFiniteSet(DOMAIN groups) /\ Cardinality(DOMAIN groups) \in Nat
        <4>1. IsFiniteSet(Classes) /\ DOMAIN groups \in SUBSET Classes
          BY <1>0, ResumeAssumption DEF Grouped
        <4>2. IsFiniteSet(DOMAIN groups)
          BY <4>1, FS_Subset
        <4> QED BY <4>2, FS_CardinalityType
      <3>2. MaxGroups \in Nat /\ Cardinality(DOMAIN groups) <= MaxGroups
        BY <1>0, ResumeAssumption DEF Grouped
      <3>3. CASE c \in DOMAIN groups
        <4>1. DOMAIN groups' = DOMAIN groups
          BY <2>2, <3>3
        <4> QED BY <3>2, <4>1
      <3>4. CASE c \notin DOMAIN groups
        <4>1. Cardinality(DOMAIN groups) < MaxGroups
          BY <2>1, <3>4 DEF HasRoom
        <4>2. Cardinality(DOMAIN groups \union {c}) = Cardinality(DOMAIN groups) + 1
          BY <3>1, <3>4, FS_AddElement
        <4> QED BY <2>2, <3>1, <3>2, <4>1, <4>2
      <3> QED BY <3>3, <3>4
    <2>7. Grouped'
      BY <2>3, <2>4, <2>5, <2>6 DEF Grouped
    <2>8. Recorded'
      BY <1>0, <1>2, <1>8, <2>1, RecordStays
    <2>9. Held' = Held \union {i}
      <3>1. \A k \in DOMAIN groups' : groups'[k] \subseteq Held \union {i}
        BY <2>2 DEF Held
      <3>2. \A k \in DOMAIN groups : k \in DOMAIN groups' /\ groups[k] \subseteq groups'[k]
        BY <2>2
      <3>3. c \in DOMAIN groups' /\ i \in groups'[c]
        BY <2>2
      <3> QED BY <3>1, <3>2, <3>3 DEF Held
    <2>10. Homes'
      <3>1. /\ CoveredBy(perm, record) \union Held = marked
            /\ CoveredBy(perm, record) \intersect Held = {}
        BY <1>0, <1>2 DEF Homes
      <3>2. /\ CoveredBy(perm', record') \union Held' = marked'
            /\ CoveredBy(perm', record') \intersect Held' = {}
        BY <1>1, <1>2, <1>9, <2>1, <2>9, <3>1
      <3> QED BY <1>2, <3>2 DEF Homes
    <2> QED BY <1>4, <1>6, <1>7, <2>7, <2>8, <2>10 DEF RInv
  <1>11. CASE Refuse(c, i)
    <2>1. record' = Append(record, Row(i)) /\ groups' = groups
      BY <1>11 DEF Refuse
    <2>2. Row(i) \in Event /\ Cover(perm, Row(i)) = {i} /\ Row(i).type = "row"
      BY <1>0, <1>3, RowCovers
    <2>3. record \in Seq(Event) /\ Apart(perm, record)
      BY <1>0 DEF Recorded
    <2>4. Append(record, Row(i)) = record \o <<Row(i)>>
      BY <2>2, <2>3
    <2>5. /\ <<Row(i)>> \in Seq(Event) /\ <<Row(i)>>[1] = Row(i) /\ DOMAIN <<Row(i)>> = 1 .. 1
          /\ Apart(perm, <<Row(i)>>) /\ CoveredBy(perm, <<Row(i)>>) = {i}
      BY <2>2, OneEvent
    <2>6. /\ record' \in Seq(Event) /\ Apart(perm, record')
          /\ CoveredBy(perm, record') = CoveredBy(perm, record) \union {i}
          /\ \A k \in DOMAIN record' :
               \/ k \in DOMAIN record /\ record'[k] = record[k]
               \/ record'[k] = Row(i)
      <3>1. CoveredBy(perm, record) \intersect CoveredBy(perm, <<Row(i)>>) = {}
        BY <1>9, <2>5
      <3> DEFINE r == <<Row(i)>>
      <3>2. r \in Seq(Event) /\ Apart(perm, r) /\ record' = record \o r
            /\ CoveredBy(perm, record) \intersect CoveredBy(perm, r) = {}
        BY <2>1, <2>4, <2>5, <3>1
      <3> HIDE DEF r
      <3>3. /\ record \o r \in Seq(Event) /\ Apart(perm, record \o r)
            /\ CoveredBy(perm, record \o r) = CoveredBy(perm, record) \union CoveredBy(perm, r)
            /\ \A k \in DOMAIN (record \o r) :
                 \/ k \in DOMAIN record /\ (record \o r)[k] = record[k]
                 \/ /\ k - Len(record) \in DOMAIN r
                    /\ (record \o r)[k] = r[k - Len(record)]
        BY <2>3, <3>2, Joined
      <3>4. /\ record' \in Seq(Event) /\ Apart(perm, record')
            /\ CoveredBy(perm, record') = CoveredBy(perm, record) \union CoveredBy(perm, <<Row(i)>>)
            /\ \A k \in DOMAIN record' :
                 \/ k \in DOMAIN record /\ record'[k] = record[k]
                 \/ /\ k - Len(record) \in DOMAIN <<Row(i)>>
                    /\ record'[k] = <<Row(i)>>[k - Len(record)]
        BY <3>2, <3>3, Zenon DEF r
      <3>5. \A k : k \in DOMAIN <<Row(i)>> => <<Row(i)>>[k] = Row(i)
        BY <2>5
      <3> QED BY <2>5, <3>4, <3>5
    <2>7. ASSUME NEW k \in DOMAIN record'
          PROVE  /\ Fine(perm, marked', phase' # "scanning", Terminal', record'[k])
                 /\ record'[k].type # "terminal"
      <3>1. CASE k \in DOMAIN record /\ record'[k] = record[k]
        <4>1. Good(record[k])
          BY <1>0, <3>1 DEF Recorded
        <4>2. record[k].type # "terminal"
          BY <1>0, <1>2, <4>1, GoodByType
        <4> QED BY <1>8, <3>1, <4>1, <4>2, GoodStays
      <3>2. CASE record'[k] = Row(i)
        <4>1. i \in marked'
          BY <1>1
        <4> QED BY <2>2, <3>2, <4>1 DEF Fine, Row
      <3> QED BY <2>6, <3>1, <3>2
    <2>8. Recorded'
      BY <1>2, <2>6, <2>7, RecordedNext
    <2>9. Grouped'
      BY <1>0, <1>1, <2>1 DEF Grouped
    <2>10. Homes'
      <3>1. /\ CoveredBy(perm, record) \union Held = marked
            /\ CoveredBy(perm, record) \intersect Held = {}
        BY <1>0, <1>2 DEF Homes
      <3>2. Held' = Held
        BY <2>1 DEF Held
      <3>3. /\ CoveredBy(perm', record') \union Held' = marked'
            /\ CoveredBy(perm', record') \intersect Held' = {}
        BY <1>1, <1>2, <1>9, <2>6, <3>1, <3>2
      <3> QED BY <1>2, <3>3 DEF Homes
    <2> QED BY <1>4, <1>6, <1>7, <2>8, <2>9, <2>10 DEF RInv
  <1> QED BY <1>1, <1>10, <1>11

(* A drain puts every group in the record.                                 *)
LEMMA DrainedRecord ==
  ASSUME RInv, phase = "scanning"
  PROVE  LET R == record \o DrainedEvents
         IN  /\ R \in Seq(Event) /\ Apart(perm, R) /\ CoveredBy(perm, R) = marked
             /\ \A k \in DOMAIN R : Good(R[k]) /\ R[k].type # "terminal"
  <1> DEFINE D == DrainedEvents
             R == record \o D
  <1>0. Order /\ Scalars /\ Grouped /\ Recorded /\ Homes
    BY DEF RInv
  <1>1. /\ D \in Seq(Event)
        /\ \A k \in DOMAIN D : \E c \in DOMAIN groups : D[k] = Span(groups[c])
        /\ Apart(perm, D) /\ CoveredBy(perm, D) = Held
    BY <1>0, DrainCovers
  <1>2. record \in Seq(Event) /\ Apart(perm, record)
    BY <1>0 DEF Recorded
  <1>3. CoveredBy(perm, record) \union Held = marked /\ CoveredBy(perm, record) \intersect Held = {}
    BY <1>0 DEF Homes
  <1> HIDE DEF D
  <1>4. /\ R \in Seq(Event) /\ Apart(perm, R)
        /\ CoveredBy(perm, R) = CoveredBy(perm, record) \union CoveredBy(perm, D)
        /\ \A k \in DOMAIN R :
             \/ k \in DOMAIN record /\ R[k] = record[k]
             \/ k - Len(record) \in DOMAIN D /\ R[k] = D[k - Len(record)]
    BY <1>1, <1>2, <1>3, Joined
  <1> HIDE DEF R
  <1>5. ASSUME NEW k \in DOMAIN D PROVE Good(D[k])
    <2>1. PICK c \in DOMAIN groups : D[k] = Span(groups[c])
      BY <1>1
    <2>2. groups[c] \in SUBSET marked
      BY <1>0 DEF Grouped
    <2> QED BY <2>1, <2>2 DEF Good, Fine
  <1>6. ASSUME NEW k \in DOMAIN R PROVE Good(R[k])
    BY <1>0, <1>4, <1>5 DEF Recorded
  <1>7. ASSUME NEW k \in DOMAIN R PROVE R[k].type # "terminal"
    BY <1>0, <1>6, GoodByType
  <1> QED BY <1>1, <1>3, <1>4, <1>6, <1>7 DEF R, D

LEMMA DrainStep == RInv /\ Drain => RInv'
  <1> SUFFICES ASSUME RInv, Drain PROVE RInv'
    OBVIOUS
  <1> DEFINE R == record \o DrainedEvents
  <1>0. Order /\ Scalars /\ Answered
    BY DEF RInv
  <1>1. /\ phase = "scanning" /\ record' = R /\ groups' = << >> /\ exhausted' = FALSE
        /\ UNCHANGED <<perm, collapse, tracked, next, marked, phase, result>>
    BY DEF Drain, planVars
  <1>2. /\ R \in Seq(Event) /\ Apart(perm, R) /\ CoveredBy(perm, R) = marked
        /\ \A k \in DOMAIN R : Good(R[k]) /\ R[k].type # "terminal"
    BY <1>1, DrainedRecord
  <1> HIDE DEF R
  <1>3. Later
    BY <1>1 DEF Later
  <1>4. \A k \in DOMAIN R : Fine(perm, marked', phase' # "scanning", Terminal', R[k])
    BY <1>2, <1>3, GoodStays
  <1>5. Recorded'
    BY <1>1, <1>2, <1>4, RecordedNext
  <1>6. DOMAIN groups' = {} /\ Held' = {}
    <2>1. DOMAIN groups' = {}
      BY <1>1
    <2> QED BY <2>1 DEF Held
  <1>7. Grouped'
    <2>1. Cardinality(DOMAIN groups') <= MaxGroups
      BY <1>6, FS_EmptySet, ResumeAssumption
    <2> QED BY <1>6, <2>1 DEF Grouped
  <1>8. Homes'
    BY <1>1, <1>2, <1>6 DEF Homes
  <1>9. Order' /\ Scalars' /\ Answered'
    BY <1>0, <1>1 DEF Order, Scalars, Answered
  <1> QED BY <1>5, <1>7, <1>8, <1>9 DEF RInv

(* The scan's last drain leaves nothing in the groups, and the terminal    *)
(* event closes a record that is whole.                                    *)
LEMMA FinishStep == RInv /\ Finish => RInv'
  <1> SUFFICES ASSUME RInv, Finish PROVE RInv'
    OBVIOUS
  <1> DEFINE R == record \o DrainedEvents
             t == <<Terminal>>
  <1>0. Order /\ Scalars /\ Answered
    BY DEF RInv
  <1>1. /\ phase = "scanning" /\ record' = Append(R, Terminal) /\ groups' = << >>
        /\ exhausted' = FALSE /\ phase' = "finished"
        /\ UNCHANGED <<perm, collapse, tracked, next, marked, result>>
    BY DEF Finish, planVars
  <1>2. /\ R \in Seq(Event) /\ Apart(perm, R) /\ CoveredBy(perm, R) = marked
        /\ \A k \in DOMAIN R : Good(R[k]) /\ R[k].type # "terminal"
    BY <1>1, DrainedRecord
  <1> HIDE DEF R
  <1>3. Terminal \in Event /\ Terminal.type = "terminal" /\ Cover(perm, Terminal) = {}
    BY <1>0, TerminalCovers
  <1>4. Terminal' = Terminal
    BY <1>1 DEF Terminal
  <1>5. record' = R \o t
    <2> HIDE DEF Terminal
    <2> QED BY <1>1, <1>2, <1>3
  <1>6. /\ t \in Seq(Event) /\ Len(t) = 1 /\ t[1] = Terminal /\ DOMAIN t = 1 .. 1
        /\ Apart(perm, t) /\ CoveredBy(perm, t) = {}
    BY <1>3, OneEvent
  <1> HIDE DEF t
  <1>7. /\ record' \in Seq(Event) /\ Len(record') = Len(R) + 1
        /\ Apart(perm, record') /\ CoveredBy(perm, record') = marked
        /\ \A k \in DOMAIN record' :
             \/ k \in DOMAIN R /\ record'[k] = R[k]
             \/ k = Len(record') /\ record'[k] = Terminal
    <2>1. CoveredBy(perm, R) \intersect CoveredBy(perm, t) = {}
      BY <1>6
    <2>2. /\ R \o t \in Seq(Event) /\ Len(R \o t) = Len(R) + Len(t)
          /\ Apart(perm, R \o t)
          /\ CoveredBy(perm, R \o t) = CoveredBy(perm, R) \union CoveredBy(perm, t)
          /\ \A k \in DOMAIN (R \o t) :
               \/ k \in DOMAIN R /\ (R \o t)[k] = R[k]
               \/ k - Len(R) \in DOMAIN t /\ (R \o t)[k] = t[k - Len(R)]
      <3>1. /\ R \in Seq(Event) /\ t \in Seq(Event) /\ Apart(perm, R) /\ Apart(perm, t)
            /\ CoveredBy(perm, R) \intersect CoveredBy(perm, t) = {}
        BY <1>2, <1>6, <2>1
      <3> QED BY <3>1, Joined
    <2>3. Len(record') = Len(R) + 1
      BY <1>5, <1>6, <2>2
    <2>4. ASSUME NEW k \in DOMAIN record'
          PROVE  \/ k \in DOMAIN R /\ record'[k] = R[k]
                 \/ k = Len(record') /\ record'[k] = Terminal
      <3>1. \/ k \in DOMAIN R /\ record'[k] = R[k]
            \/ k - Len(R) \in DOMAIN t /\ record'[k] = t[k - Len(R)]
        BY <1>5, <2>2, <2>4, Zenon
      <3>2. CASE k - Len(R) \in DOMAIN t /\ record'[k] = t[k - Len(R)]
        <4>1. k - Len(R) = 1
          BY <1>6, <3>2
        <4>2. record'[k] = Terminal
          BY <1>6, <3>2, <4>1
        <4>3. k \in Nat /\ Len(R) \in Nat
          BY <1>2, <1>5, <2>2
        <4>4. k = Len(record')
          BY <2>3, <4>1, <4>3
        <4> QED BY <4>2, <4>4
      <3> QED BY <3>1, <3>2
    <2>5. CoveredBy(perm, record') = marked
      BY <1>2, <1>5, <1>6, <2>2
    <2> QED BY <1>5, <2>2, <2>3, <2>4, <2>5
  <1>8. Later
    BY <1>1, <1>4 DEF Later
  <1>9. \A k \in DOMAIN R : Fine(perm, marked', phase' # "scanning", Terminal', R[k])
    BY <1>2, <1>8, GoodStays
  <1>10. Fine(perm, marked', phase' # "scanning", Terminal', Terminal)
    BY <1>1, <1>4 DEF Fine
  <1> HIDE DEF Terminal
  <1>11. \A k \in DOMAIN record' :
           /\ Fine(perm, marked', phase' # "scanning", Terminal', record'[k])
           /\ record'[k].type = "terminal" => k = Len(record')
    BY <1>2, <1>7, <1>9, <1>10
  <1>12. Recorded'
    BY <1>1, <1>7, <1>11, RecordedNext
  <1>13. DOMAIN groups' = {} /\ Held' = {}
    <2>1. DOMAIN groups' = {}
      BY <1>1
    <2> QED BY <2>1 DEF Held
  <1>14. Grouped'
    <2>1. Cardinality(DOMAIN groups') <= MaxGroups
      BY <1>13, FS_EmptySet, ResumeAssumption
    <2> QED BY <1>13, <2>1 DEF Grouped
  <1>15. Whole'
    <2>1. Len(R) \in Nat
      BY <1>2
    <2>2. Len(record') \in DOMAIN record' /\ Len(record') \notin DOMAIN R /\ record' # << >>
      BY <1>2, <1>7, <2>1
    <2>3. record'[Len(record')] = Terminal
      BY <1>7, <2>2
    <2> QED BY <1>1, <1>4, <1>7, <2>2, <2>3 DEF Whole, Last
  <1>16. Homes'
    BY <1>1, <1>13, <1>15 DEF Homes
  <1>17. Order' /\ Scalars' /\ Answered'
    BY <1>0, <1>1 DEF Order, Scalars, Answered
  <1> QED BY <1>12, <1>14, <1>16, <1>17 DEF RInv

(* A kill keeps a first part of the record, which has no terminal event.   *)
LEMMA KillStep == RInv /\ Kill => RInv'
  <1> SUFFICES ASSUME RInv, Kill PROVE RInv'
    OBVIOUS
  <1>0. Order /\ Scalars /\ Grouped /\ Recorded /\ Answered
    BY DEF RInv
  <1>1. PICK kept \in 0 .. Len(record) : record' = SubSeq(record, 1, kept)
    BY DEF Kill
  <1>2. /\ phase = "scanning" /\ phase' = "killed"
        /\ UNCHANGED <<perm, collapse, tracked, next, marked, groups, exhausted, result>>
    BY DEF Kill, planVars
  <1>3. record \in Seq(Event) /\ Apart(perm, record) /\ Len(record) \in Nat
        /\ DOMAIN record = 1 .. Len(record)
    BY <1>0 DEF Recorded
  <1>4. /\ record' \in Seq(Event)
        /\ \A k \in DOMAIN record' : k \in DOMAIN record /\ record'[k] = record[k]
    <2>1. SubSeq(record, 1, kept) \in Seq(Event) /\ Len(SubSeq(record, 1, kept)) = kept
          /\ DOMAIN SubSeq(record, 1, kept) = 1 .. kept
          /\ \A k \in 1 .. kept : SubSeq(record, 1, kept)[k] = record[k]
      BY <1>3
    <2>2. \A k \in 1 .. kept : k \in DOMAIN record
      BY <1>3
    <2> QED BY <1>1, <2>1, <2>2
  <1>5. Apart(perm, record')
    BY <1>3, <1>4 DEF Apart
  <1>6. Later
    BY <1>2 DEF Later
  <1>7. ASSUME NEW k \in DOMAIN record'
        PROVE  /\ Fine(perm, marked', phase' # "scanning", Terminal', record'[k])
               /\ record'[k].type # "terminal"
    <2>1. Good(record[k])
      BY <1>0, <1>4 DEF Recorded
    <2>2. record[k].type # "terminal"
      BY <1>0, <1>2, <2>1, GoodByType
    <2> QED BY <1>4, <1>6, <2>1, <2>2, GoodStays
  <1>8. Recorded'
    BY <1>2, <1>4, <1>5, <1>7, RecordedNext
  <1>9. Homes'
    BY <1>2 DEF Homes
  <1>10. Order' /\ Scalars' /\ Grouped' /\ Answered'
    BY <1>0, <1>2 DEF Order, Scalars, Grouped, Answered
  <1> QED BY <1>8, <1>9, <1>10 DEF RInv

(* Damage takes one event away and moves those behind it.                  *)
LEMMA DamageStep == RInv /\ Damage => RInv'
  <1> SUFFICES ASSUME RInv, Damage PROVE RInv'
    OBVIOUS
  <1>0. Order /\ Scalars /\ Grouped /\ Recorded /\ Answered
    BY DEF RInv
  <1>1. PICK gone \in DOMAIN record : record' = RemoveAt(record, gone)
    BY DEF Damage
  <1>2. /\ phase \in {"finished", "damaged"} /\ phase' = "damaged"
        /\ UNCHANGED <<perm, collapse, tracked, next, marked, groups, exhausted, result>>
    BY DEF Damage, planVars
  <1> DEFINE n == Len(record)
             from(k) == IF k < gone THEN k ELSE k + 1
  <1>3. record \in Seq(Event) /\ Apart(perm, record) /\ n \in Nat /\ DOMAIN record = 1 .. n
        /\ gone \in 1 .. n
    BY <1>0 DEF Recorded
  <1>4. /\ record' \in Seq(Event) /\ Len(record') = n - 1 /\ DOMAIN record' = 1 .. (n - 1)
        /\ \A k \in 1 .. (n - 1) : record'[k] = record[from(k)]
    <2> DEFINE s == SubSeq(record, 1, gone - 1)
               t == SubSeq(record, gone + 1, n)
    <2>1. /\ s \in Seq(Event) /\ Len(s) = gone - 1
          /\ \A k \in 1 .. (gone - 1) : s[k] = record[k]
      BY <1>3
    <2>2. /\ t \in Seq(Event) /\ Len(t) = n - gone
          /\ \A k \in 1 .. (n - gone) : t[k] = record[k + gone]
      BY <1>3
    <2>3. record' = s \o t
      BY <1>1 DEF RemoveAt
    <2> HIDE DEF s, t, n
    <2>4. s \o t \in Seq(Event) /\ Len(s \o t) = n - 1 /\ DOMAIN (s \o t) = 1 .. (n - 1)
      BY <1>3, <2>1, <2>2
    <2>5. ASSUME NEW k \in 1 .. (n - 1) PROVE (s \o t)[k] = record[from(k)]
      <3>1. CASE k < gone
        <4>1. k \in 1 .. (gone - 1)
          BY <1>3, <3>1
        <4>2. (s \o t)[k] = s[k]
          BY <1>3, <2>1, <2>2, <4>1
        <4> QED BY <2>1, <3>1, <4>1, <4>2
      <3>2. CASE ~ (k < gone)
        <4>1. k - (gone - 1) \in 1 .. (n - gone) /\ k - (gone - 1) + gone = k + 1
          BY <1>3, <3>2
        <4>2. (s \o t)[k] = t[k - (gone - 1)]
          BY <1>3, <2>1, <2>2, <3>2
        <4>3. t[k - (gone - 1)] = record[k - (gone - 1) + gone]
          BY <2>2, <4>1
        <4>4. t[k - (gone - 1)] = record[k + 1]
          BY <4>1, <4>3, Zenon
        <4> QED BY <3>2, <4>2, <4>4
      <3> QED BY <3>1, <3>2
    <2> QED BY <2>3, <2>4, <2>5
  <1>5. \A k \in 1 .. (n - 1) : from(k) \in DOMAIN record
    <2>1. \A k \in 1 .. (n - 1) : from(k) \in 1 .. n
      BY <1>3
    <2> QED BY <1>3, <2>1
  <1>6. \A j, k \in 1 .. (n - 1) : j # k => from(j) # from(k)
    BY <1>3
  <1> HIDE DEF n
  <1>7. \A k \in 1 .. (n - 1) : from(k) = n => k = n - 1
    BY <1>3
  <1> HIDE DEF from
  <1>8. Apart(perm, record')
    BY <1>3, <1>4, <1>5, <1>6 DEF Apart
  <1>9. Later
    <2>1. Terminal' = Terminal
      BY <1>2 DEF Terminal
    <2> QED BY <1>2, <2>1 DEF Later
  <1>10. ASSUME NEW k \in DOMAIN record'
         PROVE  /\ Fine(perm, marked', phase' # "scanning", Terminal', record'[k])
                /\ record'[k].type = "terminal" => k = Len(record')
    <2>1. record'[k] = record[from(k)] /\ from(k) \in DOMAIN record /\ k \in 1 .. (n - 1)
      BY <1>4, <1>5
    <2>2. Good(record[from(k)])
      BY <1>0, <2>1 DEF Recorded
    <2>3. record[from(k)].type = "terminal" => from(k) = n
      BY <1>0, <2>1 DEF Recorded, n
    <2> QED BY <1>4, <1>7, <1>9, <2>1, <2>2, <2>3, GoodStays
  <1>11. Recorded'
    BY <1>2, <1>4, <1>8, <1>10, RecordedNext
  <1>12. Homes'
    BY <1>2 DEF Homes
  <1>13. Order' /\ Scalars' /\ Grouped' /\ Answered'
    BY <1>0, <1>2 DEF Order, Scalars, Grouped, Answered
  <1> QED BY <1>11, <1>12, <1>13 DEF RInv

(* The answer is what the record says, and the record stays.               *)
LEMMA RemainderStep == RInv /\ Remainder => RInv'
  <1> SUFFICES ASSUME RInv, Remainder PROVE RInv'
    OBVIOUS
  <1>0. Order /\ Scalars /\ Grouped /\ Recorded /\ Homes
    BY DEF RInv
  <1>1. /\ phase \in {"finished", "damaged", "killed"} /\ phase' = "read"
        /\ UNCHANGED <<perm, collapse, tracked, next, marked, groups, exhausted, record>>
    BY DEF Remainder, planVars
  <1>2. Terminal' = Terminal
    BY <1>1 DEF Terminal
  <1>3. Recorded'
    BY <1>0, <1>1, <1>2, RecordStays DEF Later
  <1>4. Order' /\ Scalars' /\ Grouped' /\ Homes'
    BY <1>0, <1>1 DEF Order, Scalars, Grouped, Homes
  <1>5. phase = "finished" => Whole'
    BY <1>0, <1>1, <1>2 DEF Homes, Whole
  <1>6. result'.of = phase
    BY DEF Remainder
  <1>7. /\ HintIsUsable(record) =>
             result'.path = "hint" /\ result'.outstanding = FromHint(Last(record))
        /\ ~HintIsUsable(record) =>
             result'.path = "scan" /\ result'.outstanding = ByScanning(record)
    BY DEF Remainder
  <1>8. /\ HintIsUsable(record)' <=> HintIsUsable(record)
        /\ FromHint(Last(record))' = FromHint(Last(record))
        /\ ByScanning(record)' = ByScanning(record)
    BY <1>1 DEF HintIsUsable, Digest, FromHint, ByScanning, RowPositions, SpanIndices
  <1>9. Answered'
    BY <1>1, <1>5, <1>6, <1>7, <1>8 DEF Answered
  <1> QED BY <1>3, <1>4, <1>9 DEF RInv

LEMMA StutterStep == RInv /\ UNCHANGED vars => RInv'
  <1> SUFFICES ASSUME RInv, UNCHANGED vars PROVE RInv'
    OBVIOUS
  <1>0. Order /\ Scalars /\ Grouped /\ Recorded /\ Homes /\ Answered
    BY DEF RInv
  <1>1. UNCHANGED <<perm, collapse, tracked, next, marked, groups, exhausted, record, phase, result>>
    BY DEF vars
  <1>2. Terminal' = Terminal
    BY <1>1 DEF Terminal
  <1>3. Recorded'
    <2>1. Later
      BY <1>1, <1>2 DEF Later
    <2> QED BY <1>0, <1>1, <2>1, RecordStays
  <1>4. Whole' <=> Whole
    BY <1>1, <1>2 DEF Whole
  <1>5. Order' /\ Scalars' /\ Grouped'
    BY <1>0, <1>1 DEF Order, Scalars, Grouped
  <1>6. Homes'
    BY <1>0, <1>1, <1>4 DEF Homes, Held
  <1>7. /\ HintIsUsable(record)' <=> HintIsUsable(record)
        /\ FromHint(Last(record))' = FromHint(Last(record))
        /\ ByScanning(record)' = ByScanning(record)
    BY <1>1 DEF HintIsUsable, Digest, FromHint, ByScanning, RowPositions, SpanIndices
  <1>8. Answered'
    BY <1>0, <1>1, <1>4, <1>7 DEF Answered
  <1> QED BY <1>3, <1>5, <1>6, <1>8 DEF RInv

LEMMA RInvHolds == Spec => []RInv
  <1>1. RInv /\ [Next]_vars => RInv'
    <2> SUFFICES ASSUME RInv, [Next]_vars PROVE RInv'
      OBVIOUS
    <2>1. CASE Take
      BY <2>1, TakeStep
    <2>2. CASE Collect
      BY <2>2, CollectStep
    <2>3. CASE Drain
      BY <2>3, DrainStep
    <2>4. CASE Finish
      BY <2>4, FinishStep
    <2>5. CASE Kill
      BY <2>5, KillStep
    <2>6. CASE Damage
      BY <2>6, DamageStep
    <2>7. CASE Remainder
      BY <2>7, RemainderStep
    <2>8. CASE Over
      BY <2>8, StutterStep DEF Over
    <2>9. CASE UNCHANGED vars
      BY <2>9, StutterStep
    <2> QED BY <2>1, <2>2, <2>3, <2>4, <2>5, <2>6, <2>7, <2>8, <2>9 DEF Next
  <1> QED BY RInvInit, <1>1, PTL DEF Spec

-----------------------------------------------------------------------------
(* The theorems.                                                           *)

(* Every variable stays in its set, every counted index was issued, and a  *)
(* terminal event is the last of its record (Collector::run,               *)
(* terminal_body, remainder).                                              *)
THEOREM RecordTypeCorrect == Spec => []TypeOK
  <1>1. RInv => TypeOK
    <2> SUFFICES ASSUME RInv PROVE TypeOK
      OBVIOUS
    <2>0. Order /\ Scalars /\ Grouped /\ Recorded /\ Answered
      BY DEF RInv
    <2>1. \A k \in DOMAIN record : record[k].type \in {"row", "span", "terminal"}
      BY <2>0, GoodByType DEF Recorded
    <2>2. result.path \in {"none", "hint", "scan"} /\ result.outstanding \subseteq Position
      <3>1. CASE phase # "read"
        BY <2>0, <3>1 DEF Answered, NoResult
      <3>2. CASE phase = "read" /\ HintIsUsable(record)
        <4>1. tracked /\ Whole
          BY <2>0, <3>2, UsableHintIsTrue
        <4>2. result.outstanding = Position \ {perm[i] : i \in marked}
          BY <2>0, <3>2, <4>1, HintIsExact DEF Answered, Whole
        <4> QED BY <2>0, <3>2, <4>2 DEF Answered
      <3>3. CASE phase = "read" /\ ~HintIsUsable(record)
        BY <2>0, <3>3 DEF Answered, ByScanning
      <3> QED BY <3>1, <3>2, <3>3
    <2> QED BY <2>0, <2>1, <2>2 DEF TypeOK, Order, Scalars, Grouped, Recorded
  <1> QED BY <1>1, RInvHolds, PTL

(* Every endpoint of the plan is visited, whatever the seed                *)
(* (Permutation::apply).                                                   *)
THEOREM EveryEndpointIsVisited == Spec => []OrderIsABijection
  <1>1. RInv => OrderIsABijection
    BY DEF RInv, Order, OrderIsABijection
  <1> QED BY <1>1, RInvHolds, PTL

(* Each counted result is in one row, one span or one group, and a span    *)
(* counts what its ranges cover (Spans::absorb, Spans::drain_events,       *)
(* Group::ranges).                                                         *)
THEOREM ResultsHaveOnePlace == Spec => []ResultsAreInOnePlace
  BY PlacesAreKept, RInvHolds, PTL

(* A scan whose record is whole is resumed exactly: its hint is believed,  *)
(* and names what was not reported and nothing else                        *)
(* (remainder_from_hint).                                                  *)
THEOREM WholeRecordsResume == Spec => []WholeRecordIsResumedExactly
  BY ResumedExactly, RInvHolds, PTL

(* A hint is never believed beyond what the rows and spans back, however   *)
(* many events the record has lost (remainder, Digest::read).              *)
THEOREM NoEndpointIsSkippedUnbacked == Spec => []NothingUnbackedIsSkipped
  BY SkippedIsBacked, RInvHolds, PTL

=============================================================================
