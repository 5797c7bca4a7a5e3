---------------------------- MODULE VerifyProofs ----------------------------
(***************************************************************************)
(* What verify accepts, and what the readers then show.                    *)
(*                                                                         *)
(* The argument: a record of a scan has a shape (Fits).  Two edits keep    *)
(* it, and take no result away: the progress event lost, or the seed lost  *)
(* where nothing depends on it.  The single-pass Verifier holds, after n   *)
(* lines, exactly what those n lines say (Tracks), so every other edit     *)
(* leaves a trace in what finish compares.  And over a file of that shape  *)
(* the walk finds the result of each probe once, at its own endpoint.      *)
(***************************************************************************)
EXTENDS Verify, TLAPS, FiniteSetTheorems, FunctionTheorems, SequenceTheorems,
        WellFoundedInduction, NaturalsInduction

-----------------------------------------------------------------------------
(* Numbers and orders.                                                     *)

(* A non-empty set of natural numbers has a least one.                     *)
LEMMA LeastIsIn ==
  ASSUME NEW S \in SUBSET Nat, S # {}
  PROVE  \E m \in S : \A y \in S : m <= y
  <1>1. PICK m \in S : \A y \in S : ~ (<<y, m>> \in OpToRel(<, Nat))
    BY NatLessThanWellFounded, WFMin
  <1>2. ASSUME NEW y \in S PROVE m <= y
    <2>1. ~ (y < m)
      BY <1>1 DEF OpToRel
    <2> QED BY <2>1
  <1> QED BY <1>2

(* Min is what it is used for.                                             *)
LEMMA MinIs ==
  ASSUME NEW S \in SUBSET Int, NEW x \in S, \A y \in S : x <= y
  PROVE  Min(S) = x
  <1>1. \A z \in S : (\A y \in S : z <= y) => z = x
    OBVIOUS
  <1> QED BY <1>1 DEF Min

(* A finite set listed by SetToSeq has each member at one place.           *)
LEMMA Listed ==
  ASSUME NEW S, IsFiniteSet(S)
  PROVE  /\ Cardinality(S) \in Nat
         /\ SetToSeq(S) \in [1 .. Cardinality(S) -> S]
         /\ \A j, k \in 1 .. Cardinality(S) : SetToSeq(S)[j] = SetToSeq(S)[k] => j = k
         /\ \A x \in S : \E k \in 1 .. Cardinality(S) : SetToSeq(S)[k] = x
  <1> DEFINE n == Cardinality(S)
  <1>1. n \in Nat
    BY FS_CardinalityType
  <1>2. ExistsBijection(1 .. n, S)
    BY FS_CardinalityType
  <1>3. \E f \in [1 .. n -> S] : IsInjective(f)
    <2>1. PICK f \in Bijection(1 .. n, S) : TRUE
      BY <1>2 DEF ExistsBijection
    <2>2. f \in [1 .. n -> S] /\ IsInjective(f)
      BY <2>1 DEF Bijection, Injection
    <2> QED BY <2>2
  <1> DEFINE q == SetToSeq(S)
  <1>4. q \in [1 .. n -> S] /\ IsInjective(q)
    BY <1>3 DEF SetToSeq
  <1> HIDE DEF q
  <1>5. q \in Injection(1 .. n, S)
    BY <1>4 DEF Injection
  <1>6. IsFiniteSet(1 .. n) /\ Cardinality(1 .. n) = n
    BY <1>1, FS_Interval
  <1>7. q \in Surjection(1 .. n, S)
    BY <1>5, <1>6, FS_Injection
  <1>8. \A j, k \in 1 .. n : q[j] = q[k] => j = k
    BY <1>4 DEF IsInjective
  <1>9. \A x \in S : \E k \in 1 .. n : q[k] = x
    BY <1>7 DEF Surjection
  <1> QED BY <1>1, <1>4, <1>8, <1>9 DEF q

(* A function that reaches each member of T from one member of S.          *)
LEMMA Matched ==
  ASSUME NEW S, NEW T, IsFiniteSet(S), NEW f \in [S -> T],
         \A x, y \in S : f[x] = f[y] => x = y,
         \A y \in T : \E x \in S : f[x] = y
  PROVE  IsFiniteSet(T) /\ Cardinality(T) = Cardinality(S)
  <1>1. f \in Bijection(S, T)
    BY DEF Bijection, Injection, Surjection, IsInjective
  <1> QED BY <1>1, FS_Bijection DEF ExistsBijection

(* The values of a function on a finite set.                               *)
LEMMA ValuesAreFinite ==
  ASSUME NEW S, IsFiniteSet(S), NEW T, NEW f \in [S -> T]
  PROVE  IsFiniteSet({f[x] : x \in S})
  <1>1. f \in Surjection(S, {f[x] : x \in S})
    BY DEF Surjection
  <1> QED BY <1>1, FS_Surjection

(* A list of the members of S in the order of their keys.                  *)
ListsInOrder(q, S, key) ==
  /\ q \in [1 .. Cardinality(S) -> S]
  /\ \A j, k \in 1 .. Cardinality(S) : j < k => key[q[j]] < key[q[k]]
  /\ \A x \in S : \E k \in 1 .. Cardinality(S) : q[k] = x

(* The members of a set below a member of it.                              *)
Below(S, key, x) == {t \in S : key[t] < key[x]}
Before(S, key, x) == Cardinality(Below(S, key, x))

(* A finite set whose members have different keys can be put in the order  *)
(* of their keys.                                                          *)
LEMMA RisingExists ==
  ASSUME NEW S, IsFiniteSet(S), NEW key \in [S -> Nat],
         \A r, t \in S : key[r] = key[t] => r = t
  PROVE  \E q : ListsInOrder(q, S, key)
  <1> DEFINE n == Cardinality(S)
             rank == [r \in S |-> Before(S, key, r) + 1]
  <1>0. \A r \in S : key[r] \in Nat
    OBVIOUS
  <1>1. n \in Nat
    BY FS_CardinalityType
  <1>2. ASSUME NEW r \in S
        PROVE IsFiniteSet(Below(S, key, r)) /\ Before(S, key, r) \in Nat /\ Before(S, key, r) < n
    <2>1. Below(S, key, r) \in SUBSET S /\ r \notin Below(S, key, r)
      BY <1>0 DEF Below
    <2>2. IsFiniteSet(Below(S, key, r)) /\ Before(S, key, r) <= n /\ Before(S, key, r) # n
      BY <2>1, FS_Subset DEF Before
    <2>3. Before(S, key, r) \in Nat
      BY <2>2, FS_CardinalityType DEF Before
    <2> HIDE DEF n
    <2> QED BY <1>1, <2>2, <2>3
  <1>3. ASSUME NEW r \in S, NEW t \in S, key[r] < key[t] PROVE Before(S, key, r) < Before(S, key, t)
    <2>1. r \in Below(S, key, t) /\ r \notin Below(S, key, r)
      BY <1>0, <1>3 DEF Below
    <2>2. Below(S, key, r) \in SUBSET Below(S, key, t)
      <3>1. key[r] \in Nat /\ key[t] \in Nat /\ \A x \in S : key[x] \in Nat
        BY <1>0
      <3> QED BY <1>3, <3>1 DEF Below
    <2>3. Before(S, key, r) <= Before(S, key, t) /\ Before(S, key, r) # Before(S, key, t)
      BY <1>2, <2>1, <2>2, FS_Subset DEF Before
    <2> QED BY <1>2, <2>3
  <1>4. ASSUME NEW r \in S, NEW t \in S, Before(S, key, r) = Before(S, key, t) PROVE r = t
    <2>1. ~(key[r] < key[t]) /\ ~(key[t] < key[r])
      BY <1>2, <1>3, <1>4
    <2>2. key[r] = key[t]
      BY <1>0, <2>1
    <2> QED BY <2>2
  <1> HIDE DEF n
  <1>5. rank \in Injection(S, 1 .. n)
    <2>1. rank \in [S -> 1 .. n]
      BY <1>1, <1>2
    <2>2. \A x, y \in S : rank[x] = rank[y] => x = y
      BY <1>2, <1>4
    <2> HIDE DEF rank
    <2> QED BY <2>1, <2>2 DEF Injection, IsInjective
  <1>6. rank \in Surjection(S, 1 .. n)
    <2>1. IsFiniteSet(1 .. n) /\ Cardinality(1 .. n) = n
      BY <1>1, FS_Interval
    <2> HIDE DEF rank
    <2> QED BY <1>5, <2>1, FS_Injection DEF n
  <1>7. \A k \in 1 .. n : \E r \in S : Before(S, key, r) = k - 1
    <2> SUFFICES ASSUME NEW k \in 1 .. n PROVE \E r \in S : Before(S, key, r) = k - 1
      OBVIOUS
    <2>1. PICK x \in S : rank[x] = k
      <3> HIDE DEF rank
      <3> QED BY <1>6 DEF Surjection
    <2>2. Before(S, key, x) = k - 1
      BY <1>2, <2>1
    <2> QED BY <2>2
  <1> DEFINE listing == [k \in 1 .. n |-> CHOOSE r \in S : Before(S, key, r) = k - 1]
  <1>8. \A k \in 1 .. n : listing[k] \in S /\ Before(S, key, listing[k]) = k - 1
    BY <1>7
  <1>9. listing \in [1 .. n -> S]
    BY <1>8
  <1> HIDE DEF listing
  <1>10. ASSUME NEW j \in 1 .. n, NEW k \in 1 .. n, j < k PROVE key[listing[j]] < key[listing[k]]
    <2>1. ~(Before(S, key, listing[k]) < Before(S, key, listing[j]))
          /\ Before(S, key, listing[k]) # Before(S, key, listing[j])
      BY <1>1, <1>8, <1>10
    <2>2. ~(key[listing[k]] < key[listing[j]]) /\ listing[k] # listing[j]
      BY <1>3, <1>8, <2>1
    <2>3. key[listing[k]] # key[listing[j]]
      BY <1>8, <2>2
    <2> QED BY <1>0, <1>8, <2>2, <2>3
  <1>11. ASSUME NEW r \in S PROVE \E k \in 1 .. n : listing[k] = r
    <2>1. PICK k \in 1 .. n : Before(S, key, r) = k - 1
      <3> DEFINE m == Before(S, key, r) + 1
      <3>1. m \in 1 .. n /\ Before(S, key, r) = m - 1
        BY <1>1, <1>2
      <3> HIDE DEF m
      <3> QED BY <3>1
    <2>2. listing[k] \in S /\ Before(S, key, listing[k]) = Before(S, key, r)
      BY <1>8, <2>1
    <2>3. listing[k] = r
      BY <1>4, <2>2
    <2> QED BY <2>3
  <1>12. ListsInOrder(listing, S, key)
    BY <1>9, <1>10, <1>11 DEF n, ListsInOrder
  <1> QED BY <1>12

-----------------------------------------------------------------------------
(* The plan.                                                               *)

(* The plan has as many places as endpoints, and one at least.             *)
LEMMA PlanIs ==
  /\ Planned \in Nat /\ Planned > 0 /\ Index \subseteq Nat
  /\ IsFiniteSet(Index) /\ Cardinality(Index) = Planned
  /\ \A i \in Index : i < Planned
  /\ Len(Hosts) \in Nat /\ Len(Ports) \in Nat /\ Len(Hosts) > 0 /\ Len(Ports) > 0
  <1>1. Len(Hosts) \in Nat /\ Len(Ports) \in Nat /\ Planned \in Nat /\ Planned > 0
    BY RecordsAssumption, LenProperties DEF Planned
  <1>2. Len(Hosts) # 0 /\ Len(Ports) # 0
    <2>1. Len(Hosts) * Len(Ports) > 0
      BY RecordsAssumption
    <2>2. ASSUME NEW x \in Nat, NEW y \in Nat, x * y > 0 PROVE x # 0 /\ y # 0
      BY <2>2
    <2> QED BY <1>1, <2>1, <2>2
  <1>3. Index \subseteq Nat /\ \A i \in Index : i < Planned
    BY <1>1 DEF Index
  <1>4. IsFiniteSet(Index) /\ Cardinality(Index) = Planned
    <2>1. 0 \in Int /\ Planned - 1 \in Int /\ ~(0 > Planned - 1)
      BY <1>1
    <2>2. IsFiniteSet(0 .. (Planned - 1)) /\ Cardinality(0 .. (Planned - 1)) = Planned - 1 - 0 + 1
      BY <2>1, FS_Interval
    <2> QED BY <1>1, <2>2 DEF Index
  <1> QED BY <1>1, <1>2, <1>3, <1>4

(* A part of the plan is finite.                                           *)
LEMMA PartsAreFinite ==
  ASSUME NEW S \in SUBSET Index
  PROVE  IsFiniteSet(S) /\ Cardinality(S) \in Nat
  <1>1. IsFiniteSet(S)
    BY PlanIs, FS_Subset
  <1> QED BY <1>1, FS_CardinalityType

(* The endpoint of a place: the row and the column are those of one place. *)
LEMMA EndpointsDiffer ==
  ASSUME NEW mode, NEW i \in Index, NEW j \in Index, At(mode, i) = At(mode, j)
  PROVE  i = j
  <1>0. /\ i \in Nat /\ j \in Nat /\ i < Planned /\ j < Planned /\ Planned \in Nat
        /\ Len(Ports) \in Nat \ {0} /\ Len(Hosts) \in Nat \ {0}
    BY PlanIs
  <1>1. CASE mode \notin {"matrix", "file"}
    <2>1. Pairs[i + 1] = Pairs[j + 1]
      BY <1>1 DEF At
    <2>2. i + 1 \in DOMAIN Pairs /\ j + 1 \in DOMAIN Pairs
      BY <1>0, RecordsAssumption, LenProperties DEF Planned
    <2>3. i + 1 = j + 1
      BY <2>1, <2>2, RecordsAssumption DEF IsInjective
    <2> QED BY <1>0, <2>3
  <1>2. CASE mode \in {"matrix", "file"}
    <2> DEFINE P == Len(Ports)
               a == i \div P
               b == j \div P
               c == i % P
               d == j % P
    <2>1. P \in Nat /\ P > 0
      BY <1>0
    <2>2. /\ a \in Nat /\ c \in 0 .. (P - 1) /\ i = a * P + c
          /\ b \in Nat /\ d \in 0 .. (P - 1) /\ j = b * P + d
      <3> HIDE DEF P
      <3> QED BY <1>0, <2>1, Z3
    <2>3. Hosts[a + 1] = Hosts[b + 1] /\ Ports[c + 1] = Ports[d + 1]
      BY <1>2 DEF At
    <2> HIDE DEF a, b, c, d
    <2>4. a < Len(Hosts) /\ b < Len(Hosts)
      <3>1. i < Len(Hosts) * P /\ j < Len(Hosts) * P
        BY <1>0, RecordsAssumption DEF Planned
      <3> HIDE DEF P
      <3>2. ASSUME NEW x \in Nat, NEW y \in 0 .. (P - 1), NEW h \in Nat, x * P + y < h * P
            PROVE  x < h
        <4>1. SUFFICES ASSUME x >= h PROVE FALSE
          OBVIOUS
        <4>2. x * P >= h * P
          BY <2>1, <4>1, Z3
        <4>3. x * P \in Int /\ h * P \in Int
          BY <2>1
        <4> QED BY <3>2, <4>2, <4>3
      <3> QED BY <1>0, <2>2, <3>1, <3>2
    <2>p. Hosts \in Seq(STRING) /\ Ports \in Seq(1 .. MaxPort)
      BY RecordsAssumption
    <2>5. a + 1 \in DOMAIN Hosts /\ b + 1 \in DOMAIN Hosts
      <3>1. DOMAIN Hosts = 1 .. Len(Hosts)
        BY <2>p, LenProperties
      <3>2. a + 1 \in 1 .. Len(Hosts) /\ b + 1 \in 1 .. Len(Hosts)
        BY <1>0, <2>2, <2>4
      <3> QED BY <3>1, <3>2
    <2>6. c + 1 \in DOMAIN Ports /\ d + 1 \in DOMAIN Ports
      <3>1. DOMAIN Ports = 1 .. P
        BY <2>p, LenProperties
      <3> HIDE DEF P
      <3>2. c + 1 \in 1 .. P /\ d + 1 \in 1 .. P
        BY <2>1, <2>2
      <3> QED BY <3>1, <3>2
    <2>7. a + 1 = b + 1 /\ c + 1 = d + 1
      BY <2>3, <2>5, <2>6, RecordsAssumption DEF IsInjective
    <2>8. a = b /\ c = d
      BY <2>2, <2>7
    <2> QED BY <2>2, <2>8
  <1> QED BY <1>1, <1>2

(* An endpoint of the plan can be read: its port fits.                     *)
LEMMA EndpointsFit ==
  ASSUME NEW mode, NEW i \in Index
  PROVE  /\ At(mode, i)[2] \in 1 .. MaxPort
         /\ At(mode, i) = <<At(mode, i)[1], At(mode, i)[2]>>
  <1>0. i \in Nat /\ i < Planned /\ Planned \in Nat /\ Len(Ports) \in Nat \ {0}
    BY PlanIs
  <1>1. CASE mode \notin {"matrix", "file"}
    <2>1. i + 1 \in 1 .. Len(Pairs)
      BY <1>0 DEF Planned
    <2>2. Pairs[i + 1] \in STRING \X (1 .. MaxPort)
      BY <2>1, RecordsAssumption, ElementOfSeq
    <2>3. At(mode, i) = Pairs[i + 1]
      BY <1>1 DEF At
    <2> QED BY <2>2, <2>3
  <1>2. CASE mode \in {"matrix", "file"}
    <2>1. (i % Len(Ports)) + 1 \in 1 .. Len(Ports)
      BY <1>0
    <2>2. Ports[(i % Len(Ports)) + 1] \in 1 .. MaxPort
      BY <2>1, RecordsAssumption, ElementOfSeq
    <2>3. At(mode, i) = <<Hosts[(i \div Len(Ports)) + 1], Ports[(i % Len(Ports)) + 1]>>
      BY <1>2 DEF At
    <2> QED BY <2>2, <2>3
  <1> QED BY <1>1, <1>2

-----------------------------------------------------------------------------
(* Runs.                                                                   *)

IsRun(a, b, S) == a <= b /\ a .. b \subseteq S /\ {a - 1, b + 1} \intersect S = {}

(* MaximalRuns, run by run.                                                *)
LEMMA RunsAre ==
  ASSUME NEW S
  PROVE  MaximalRuns(S) = {r \in S \X S : IsRun(r[1], r[2], S)}
  BY DEF MaximalRuns, IsRun

(* Each index is in a run.                                                 *)
LEMMA EveryIndexHasARun ==
  ASSUME NEW S \in SUBSET Index, NEW i \in S
  PROVE  \E r \in MaximalRuns(S) : i \in r[1] .. r[2]
  <1>0. Planned \in Nat /\ i \in Nat /\ S \subseteq Nat /\ \A x \in S : x < Planned
    BY PlanIs
  <1> DEFINE Starts == {x \in Nat : x <= i /\ x .. i \subseteq S}
             Ends == {x \in Nat : x >= i /\ x + 1 \notin S}
  <1>1. PICK a \in Starts : \A y \in Starts : a <= y
    <2>1. Starts \in SUBSET Nat /\ i \in Starts
      BY <1>0
    <2> QED BY <2>1, LeastIsIn
  <1>2. PICK b \in Ends : \A y \in Ends : b <= y
    <2>1. Ends \in SUBSET Nat /\ Planned \in Ends
      BY <1>0
    <2> QED BY <2>1, LeastIsIn
  <1>3. a \in Nat /\ b \in Nat /\ a <= i /\ i <= b /\ b + 1 \notin S /\ a .. i \subseteq S
    BY <1>1, <1>2
  <1>4. a - 1 \notin S
    <2>1. SUFFICES ASSUME a - 1 \in S PROVE FALSE
      OBVIOUS
    <2>2. a - 1 \in Nat
      BY <1>0, <2>1
    <2>3. \A x \in (a - 1) .. i : x = a - 1 \/ x \in a .. i
      BY <1>3
    <2>4. (a - 1) .. i \subseteq S
      BY <1>3, <2>1, <2>3
    <2>5. a - 1 <= i
      BY <1>0, <1>3
    <2>6. a - 1 \in Starts
      BY <2>2, <2>4, <2>5
    <2> QED BY <1>1, <1>3, <2>6
  <1>5. ASSUME NEW x \in i .. b PROVE x \in S
    <2>1. SUFFICES ASSUME x \notin S PROVE FALSE
      OBVIOUS
    <2>2. x # i /\ x \in Nat
      <3>1. \A p, q \in Nat : \A y \in p .. q : y \in Nat
        OBVIOUS
      <3> QED BY <1>0, <1>3, <2>1, <3>1
    <2>3. x - 1 \in Nat /\ x - 1 >= i /\ x - 1 + 1 = x
      BY <1>0, <1>3, <2>2
    <2>4. x - 1 \in Ends
      BY <2>1, <2>3
    <2> QED BY <1>2, <1>3, <2>2, <2>4
  <1>6. a .. b \subseteq S
    <2>1. \A x \in a .. b : x \in a .. i \/ x \in i .. b
      BY <1>0, <1>3
    <2> QED BY <1>3, <1>5, <2>1
  <1>7. a \in S /\ b \in S
    BY <1>0, <1>3, <1>6
  <1>8. IsRun(a, b, S)
    BY <1>0, <1>3, <1>4, <1>6 DEF IsRun
  <1>9. <<a, b>> \in MaximalRuns(S)
    BY <1>7, <1>8, RunsAre
  <1>10. i \in <<a, b>>[1] .. <<a, b>>[2]
    BY <1>0, <1>3
  <1> QED BY <1>9, <1>10

(* No two runs have an index in common.                                    *)
LEMMA RunsAreApart ==
  ASSUME NEW S \in SUBSET Index, NEW r \in MaximalRuns(S), NEW t \in MaximalRuns(S), r # t
  PROVE  (r[1] .. r[2]) \intersect (t[1] .. t[2]) = {}
  <1>1. /\ r \in S \X S /\ IsRun(r[1], r[2], S)
        /\ t \in S \X S /\ IsRun(t[1], t[2], S)
    BY RunsAre
  <1>2. S \subseteq Int
    BY PlanIs
  <1> SUFFICES ASSUME NEW x \in r[1] .. r[2], x \in t[1] .. t[2] PROVE FALSE
    OBVIOUS
  <1>3. ASSUME NEW a \in S, NEW b \in S, NEW c \in S, NEW d \in S,
               IsRun(a, b, S), IsRun(c, d, S), x \in a .. b, x \in c .. d
        PROVE  a <= c /\ b >= d
    <2>0. a \in Int /\ b \in Int /\ c \in Int /\ d \in Int
      BY <1>2
    <2>1. a - 1 \notin S /\ b + 1 \notin S /\ c .. d \subseteq S
      BY <1>3 DEF IsRun
    <2>2. a <= c
      <3>1. ~ (a - 1 \in c .. d)
        BY <2>1
      <3> QED BY <1>3, <2>0, <3>1
    <2>3. b >= d
      <3>1. ~ (b + 1 \in c .. d)
        BY <2>1
      <3> QED BY <1>3, <2>0, <3>1
    <2> QED BY <2>2, <2>3
  <1>4. r[1] \in S /\ r[2] \in S /\ t[1] \in S /\ t[2] \in S
    BY <1>1
  <1>5. r[1] <= t[1] /\ r[2] >= t[2] /\ t[1] <= r[1] /\ t[2] >= r[2]
    BY <1>1, <1>3, <1>4
  <1>6. r[1] = t[1] /\ r[2] = t[2]
    <2>1. r[1] \in Int /\ r[2] \in Int /\ t[1] \in Int /\ t[2] \in Int
      BY <1>2, <1>4
    <2> QED BY <1>5, <2>1
  <1>7. r = <<r[1], r[2]>> /\ t = <<t[1], t[2]>>
    BY <1>1
  <1> QED BY <1>6, <1>7

(* The ranges of a set of indices: in order, one of them for each index.   *)
LEMMA RunsOf ==
  ASSUME NEW S \in SUBSET Index
  PROVE  /\ Cardinality(MaximalRuns(S)) \in Nat
         /\ Runs(S) \in [1 .. Cardinality(MaximalRuns(S)) -> MaximalRuns(S)]
         /\ \A j, k \in DOMAIN Runs(S) : j < k => Runs(S)[j][1] < Runs(S)[k][1]
         /\ \A i \in S : \E r \in DOMAIN Runs(S) : i \in Runs(S)[r][1] .. Runs(S)[r][2]
         /\ \A j, k \in DOMAIN Runs(S) : Runs(S)[j] = Runs(S)[k] => j = k
  <1> DEFINE M == MaximalRuns(S)
             key == [r \in M |-> r[1]]
             n == Cardinality(M)
             R == Runs(S)
  <1>0. S \subseteq Nat /\ M \subseteq S \X S
    BY PlanIs, RunsAre
  <1>1. IsFiniteSet(M)
    <2>1. IsFiniteSet(S)
      BY PartsAreFinite
    <2>2. IsFiniteSet(S \X S)
      BY <2>1, FS_Product
    <2> QED BY <1>0, <2>2, FS_Subset
  <1>2. n \in Nat
    BY <1>1, FS_CardinalityType
  <1>3. \A r \in M : r[1] \in S /\ r[2] \in S /\ r[1] \in Nat /\ r[2] \in Nat /\ r[1] <= r[2]
    BY <1>0, RunsAre DEF IsRun
  <1>4. key \in [M -> Nat]
    BY <1>3
  <1>5. ASSUME NEW r \in M, NEW t \in M, r[1] = t[1] PROVE r = t
    <2>1. SUFFICES ASSUME r # t PROVE FALSE
      OBVIOUS
    <2>2. (r[1] .. r[2]) \intersect (t[1] .. t[2]) = {}
      BY <2>1, RunsAreApart
    <2>3. r[1] \in r[1] .. r[2] /\ t[1] \in t[1] .. t[2]
      BY <1>3
    <2> QED BY <1>5, <2>2, <2>3
  <1>6. \A r, t \in M : key[r] = key[t] => r = t
    BY <1>5
  <1>7. PICK q : ListsInOrder(q, M, key)
    <2> HIDE DEF M, key
    <2> QED BY <1>1, <1>4, <1>6, RisingExists
  <1>8. q \in [1 .. n -> M] /\ \A j, k \in DOMAIN q : j < k => q[j][1] < q[k][1]
    <2>1. q \in [1 .. n -> M]
      BY <1>7 DEF ListsInOrder
    <2>2. ASSUME NEW j \in 1 .. n, NEW k \in 1 .. n, j < k PROVE q[j][1] < q[k][1]
      <3>1. key[q[j]] < key[q[k]]
        BY <1>7, <2>2 DEF ListsInOrder
      <3>2. q[j] \in M /\ q[k] \in M
        BY <2>1
      <3> QED BY <3>1, <3>2
    <2> QED BY <2>1, <2>2
  <1>9. R \in [1 .. n -> M] /\ \A j, k \in DOMAIN R : j < k => R[j][1] < R[k][1]
    BY <1>8 DEF Runs
  <1> HIDE DEF R
  <1>10. \A j, k \in 1 .. n : R[j] = R[k] => j = k
    <2> SUFFICES ASSUME NEW j \in 1 .. n, NEW k \in 1 .. n, R[j] = R[k] PROVE j = k
      OBVIOUS
    <2>1. ~(j < k) /\ ~(k < j)
      <3>1. R[j][1] \in Nat /\ R[j][1] = R[k][1]
        BY <1>3, <1>9
      <3>2. ~(R[j][1] < R[k][1]) /\ ~(R[k][1] < R[j][1])
        BY <3>1
      <3> QED BY <1>9, <3>2
    <2> QED BY <1>2, <2>1
  <1>11. R \in Surjection(1 .. n, M)
    <2>1. R \in Injection(1 .. n, M)
      BY <1>9, <1>10 DEF Injection, IsInjective
    <2>2. IsFiniteSet(1 .. n) /\ Cardinality(1 .. n) = n
      BY <1>2, FS_Interval
    <2> HIDE DEF M
    <2> QED BY <1>1, <2>1, <2>2, FS_Injection
  <1>12. ASSUME NEW i \in S PROVE \E r \in DOMAIN R : i \in R[r][1] .. R[r][2]
    <2>1. PICK t \in M : i \in t[1] .. t[2]
      BY EveryIndexHasARun
    <2>2. PICK r \in 1 .. n : R[r] = t
      BY <1>11 DEF Surjection
    <2> QED BY <1>9, <2>1, <2>2
  <1> QED BY <1>2, <1>9, <1>10, <1>12 DEF R

(* The indices of a span, taken from its ranges: each once, in order and   *)
(* within the plan.  (Group::ranges, check_span_row.)                      *)
LEMMA SpanRanges ==
  ASSUME NEW S \in SUBSET Index
  PROVE  /\ DOMAIN Runs(S) = 1 .. Cardinality(MaximalRuns(S))
         /\ Cardinality(MaximalRuns(S)) \in Nat
         /\ \A r \in DOMAIN Runs(S) :
              /\ Runs(S)[r] \in Nat \X Nat
              /\ Runs(S)[r][1] <= Runs(S)[r][2] /\ Runs(S)[r][2] < Planned
              /\ Runs(S)[r][1] .. Runs(S)[r][2] \subseteq S
              /\ r > 1 => Runs(S)[r - 1][2] < Runs(S)[r][1]
         /\ \A i \in S : \E r \in DOMAIN Runs(S) : i \in Runs(S)[r][1] .. Runs(S)[r][2]
         /\ \A j, k \in DOMAIN Runs(S) : \A i \in S :
              i \in Runs(S)[j][1] .. Runs(S)[j][2] /\ i \in Runs(S)[k][1] .. Runs(S)[k][2] => j = k
  <1> DEFINE M == MaximalRuns(S)
             n == Cardinality(M)
             R == Runs(S)
  <1>1. /\ n \in Nat /\ R \in [1 .. n -> M]
        /\ \A j, k \in 1 .. n : j < k => R[j][1] < R[k][1]
        /\ \A i \in S : \E r \in 1 .. n : i \in R[r][1] .. R[r][2]
        /\ \A j, k \in 1 .. n : R[j] = R[k] => j = k
    <2>1. DOMAIN Runs(S) = 1 .. n
      BY RunsOf
    <2> QED BY <2>1, RunsOf
  <1> HIDE DEF R, n
  <1>2. DOMAIN R = 1 .. n
    BY <1>1
  <1>3. ASSUME NEW r \in 1 .. n
        PROVE  /\ R[r] \in M /\ R[r] \in S \X S /\ R[r][1] \in S /\ R[r][2] \in S
               /\ R[r][1] \in Nat /\ R[r][2] \in Nat
               /\ R[r][1] <= R[r][2] /\ R[r][2] < Planned /\ R[r][1] .. R[r][2] \subseteq S
    <2>1. R[r] \in M
      BY <1>1
    <2>2. R[r] \in S \X S /\ IsRun(R[r][1], R[r][2], S)
      BY <2>1, RunsAre
    <2>3. R[r][1] \in S /\ R[r][2] \in S
      BY <2>2
    <2> QED BY <2>1, <2>2, <2>3, PlanIs DEF IsRun
  <1>4. ASSUME NEW j \in 1 .. n, NEW k \in 1 .. n, j # k
        PROVE  (R[j][1] .. R[j][2]) \intersect (R[k][1] .. R[k][2]) = {}
    <2>1. R[j] # R[k]
      BY <1>1, <1>4
    <2> QED BY <1>3, <2>1, RunsAreApart
  <1>5. ASSUME NEW r \in 1 .. n, r > 1 PROVE R[r - 1][2] < R[r][1]
    <2>1. r - 1 \in 1 .. n /\ r - 1 < r /\ r - 1 # r
      BY <1>1, <1>5
    <2>2. R[r - 1][1] < R[r][1]
      BY <1>1, <2>1
    <2>3. R[r][1] \in R[r][1] .. R[r][2]
      BY <1>3
    <2>4. R[r][1] \notin R[r - 1][1] .. R[r - 1][2]
      BY <1>4, <2>1, <2>3
    <2>5. R[r][1] \in Nat /\ R[r - 1][1] \in Nat /\ R[r - 1][2] \in Nat
      BY <1>3, <2>1
    <2> QED BY <2>2, <2>4, <2>5
  <1>6. \A r \in 1 .. n : R[r] \in Nat \X Nat
    <2>1. S \X S \subseteq Nat \X Nat
      BY PlanIs
    <2> QED BY <1>3, <2>1
  <1> QED BY <1>1, <1>2, <1>3, <1>4, <1>5, <1>6 DEF R, n

(* Ranges of numbers hold finitely many indices.                           *)
LEMMA ExpansionIsFinite ==
  ASSUME NEW ranges, IsFiniteSet(DOMAIN ranges),
         \A r \in DOMAIN ranges : ranges[r][1] \in Int /\ ranges[r][2] \in Int
  PROVE  IsFiniteSet(Expansion(ranges))
  <1> DEFINE part(r) == {r} \X (ranges[r][1] .. ranges[r][2])
             parts == {part(r) : r \in DOMAIN ranges}
  <1>1. IsFiniteSet(parts)
    <2> DEFINE f == [r \in DOMAIN ranges |-> part(r)]
    <2>1. f \in [DOMAIN ranges -> {part(r) : r \in DOMAIN ranges}]
      OBVIOUS
    <2>2. IsFiniteSet({f[r] : r \in DOMAIN ranges})
      <3> HIDE DEF f, part
      <3> QED BY <2>1, ValuesAreFinite
    <2>3. parts = {f[r] : r \in DOMAIN ranges}
      OBVIOUS
    <2> QED BY <2>2, <2>3
  <1>2. ASSUME NEW r \in DOMAIN ranges PROVE IsFiniteSet(part(r))
    BY FS_Interval, FS_Singleton, FS_Product
  <1>3. \A x \in parts : IsFiniteSet(x)
    BY <1>2
  <1>4. Expansion(ranges) = UNION parts
    BY DEF Expansion
  <1> HIDE DEF parts
  <1> QED BY <1>1, <1>3, <1>4, FS_UNION

(* A span counts what its ranges hold.                                     *)
LEMMA SpanCovers ==
  ASSUME NEW S \in SUBSET Index
  PROVE  /\ IsFiniteSet(Expansion(Runs(S)))
         /\ Cardinality(Expansion(Runs(S))) = Cardinality(S)
  <1> DEFINE R == Runs(S)
             E == Expansion(R)
             f == [p \in E |-> p[2]]
  <1>0. DOMAIN R = 1 .. Cardinality(MaximalRuns(S)) /\ Cardinality(MaximalRuns(S)) \in Nat
    BY SpanRanges
  <1>1. IsFiniteSet(E)
    <2>1. IsFiniteSet(DOMAIN R)
      BY <1>0, FS_Interval
    <2>2. ASSUME NEW r \in DOMAIN R PROVE R[r][1] \in Int /\ R[r][2] \in Int
      BY SpanRanges
    <2> HIDE DEF R
    <2> QED BY <2>1, <2>2, ExpansionIsFinite
  <1>2. \A p \in E : /\ p = <<p[1], p[2]>> /\ p[1] \in DOMAIN R
                     /\ p[2] \in R[p[1]][1] .. R[p[1]][2] /\ p[2] \in S
    <2>1. \A r \in DOMAIN R : R[r][1] .. R[r][2] \subseteq S
      BY SpanRanges
    <2> HIDE DEF R
    <2> QED BY <2>1 DEF Expansion
  <1>3. \A r \in DOMAIN R : \A i \in R[r][1] .. R[r][2] : <<r, i>> \in E
    <2> HIDE DEF R
    <2> QED BY DEF Expansion
  <1>4. \A j, k \in DOMAIN R : \A i \in S :
          i \in R[j][1] .. R[j][2] /\ i \in R[k][1] .. R[k][2] => j = k
    BY SpanRanges
  <1>5. \A i \in S : \E r \in DOMAIN R : i \in R[r][1] .. R[r][2]
    BY SpanRanges
  <1> HIDE DEF R, E
  <1>6. f \in [E -> S]
    BY <1>2
  <1>7. ASSUME NEW p \in E, NEW q \in E, p[2] = q[2] PROVE p = q
    <2>1. p[1] = q[1]
      BY <1>2, <1>4, <1>7
    <2> QED BY <1>2, <1>7, <2>1
  <1>8. \A i \in S : \E p \in E : f[p] = i
    <2> SUFFICES ASSUME NEW i \in S PROVE \E p \in E : f[p] = i
      OBVIOUS
    <2>1. PICK r \in DOMAIN R : i \in R[r][1] .. R[r][2]
      BY <1>5
    <2>2. <<r, i>> \in E /\ <<r, i>>[2] = i
      BY <1>3, <2>1
    <2> QED BY <2>2
  <1>9. f \in Bijection(E, S)
    <2>1. \A p, q \in E : f[p] = f[q] => p = q
      BY <1>7
    <2> HIDE DEF f
    <2> QED BY <1>6, <1>8, <2>1 DEF Bijection, Injection, Surjection, IsInjective
  <1>10. Cardinality(E) = Cardinality(S)
    <2>1. ExistsBijection(E, S)
      BY <1>9 DEF ExistsBijection
    <2> QED BY <1>1, <2>1, FS_Bijection
  <1> QED BY <1>1, <1>10 DEF E, R

-----------------------------------------------------------------------------
(* Lists.                                                                  *)

IsListOf(s, n) == n \in Nat /\ DOMAIN s = 1 .. n /\ s = [k \in 1 .. n |-> s[k]]

(* A list is a sequence of its values.                                     *)
LEMMA ListIsSequence ==
  ASSUME NEW n, NEW s, IsListOf(s, n)
  PROVE  s \in Seq(ToSet(s)) /\ Len(s) = n
  <1>1. \A k \in 1 .. n : s[k] \in ToSet(s)
    BY DEF ToSet, IsListOf
  <1>2. s \in [1 .. n -> ToSet(s)]
    BY <1>1 DEF IsListOf
  <1> QED BY <1>2 DEF IsListOf

(* And a sequence is a list.                                               *)
LEMMA SequenceIsList ==
  ASSUME NEW S, NEW s \in Seq(S)
  PROVE  IsListOf(s, Len(s))
  BY DEF IsListOf

(* One list after another.                                                 *)
Chain(s, t) == s \o t

(* Two lists, one behind the other.                                        *)
LEMMA ChainIs ==
  ASSUME NEW m, NEW s, IsListOf(s, m), NEW n, NEW t, IsListOf(t, n)
  PROVE  /\ IsListOf(Chain(s, t), m + n)
         /\ \A k \in 1 .. m : Chain(s, t)[k] = s[k]
         /\ \A k \in 1 .. n : Chain(s, t)[m + k] = t[k]
  <1> DEFINE T == ToSet(s) \union ToSet(t)
  <1>1. s \in Seq(T) /\ t \in Seq(T) /\ Len(s) = m /\ Len(t) = n /\ m \in Nat /\ n \in Nat
    <2>1. s \in Seq(ToSet(s)) /\ t \in Seq(ToSet(t)) /\ Len(s) = m /\ Len(t) = n
      BY ListIsSequence
    <2>2. \A A, B : A \subseteq B => Seq(A) \subseteq Seq(B)
      OBVIOUS
    <2>3. Seq(ToSet(s)) \subseteq Seq(T) /\ Seq(ToSet(t)) \subseteq Seq(T)
      BY <2>2
    <2> QED BY <2>1, <2>3 DEF IsListOf
  <1> HIDE DEF T
  <1>2. /\ Chain(s, t) \in Seq(T) /\ Len(Chain(s, t)) = m + n
        /\ \A i \in 1 .. m + n : Chain(s, t)[i] = IF i <= m THEN s[i] ELSE t[i - m]
    BY <1>1, ConcatProperties DEF Chain
  <1>3. IsListOf(Chain(s, t), m + n)
    BY <1>2, SequenceIsList
  <1> HIDE DEF T
  <1>4. \A k \in 1 .. m : Chain(s, t)[k] = s[k]
    BY <1>1, <1>2
  <1>5. ASSUME NEW k \in 1 .. n PROVE Chain(s, t)[m + k] = t[k]
    <2> DEFINE i == m + k
    <2>1. i \in 1 .. m + n /\ ~(i <= m) /\ i - m = k
      BY <1>1
    <2> HIDE DEF i
    <2>2. Chain(s, t)[i] = t[k]
      BY <1>2, <2>1
    <2> QED BY <2>2 DEF i
  <1> QED BY <1>3, <1>4, <1>5

(* A list of one.                                                          *)
LEMMA OneIsList == ASSUME NEW e PROVE IsListOf(<<e>>, 1) /\ <<e>>[1] = e
  BY DEF IsListOf

(* A list and one more.                                                    *)
Extended(s, e) == Append(s, e)

(* A list and one more.                                                    *)
LEMMA ListAppend ==
  ASSUME NEW n, NEW s, IsListOf(s, n), NEW e
  PROVE  /\ IsListOf(Extended(s, e), n + 1) /\ Extended(s, e)[n + 1] = e
         /\ \A k \in 1 .. n : Extended(s, e)[k] = s[k]
  <1> DEFINE T == ToSet(s) \union {e}
  <1>1. s \in Seq(T) /\ Len(s) = n /\ n \in Nat /\ e \in T
    <2>1. s \in Seq(ToSet(s)) /\ Len(s) = n
      BY ListIsSequence
    <2>2. \A A, B : A \subseteq B => Seq(A) \subseteq Seq(B)
      OBVIOUS
    <2>3. Seq(ToSet(s)) \subseteq Seq(T)
      BY <2>2
    <2> QED BY <2>1, <2>3 DEF IsListOf
  <1> HIDE DEF T
  <1>2. /\ Extended(s, e) \in Seq(T) /\ Len(Extended(s, e)) = n + 1
        /\ Extended(s, e)[n + 1] = e /\ \A k \in 1 .. n : Extended(s, e)[k] = s[k]
    BY <1>1, AppendProperties DEF Extended
  <1>3. IsListOf(Extended(s, e), n + 1)
    BY <1>2, SequenceIsList
  <1> QED BY <1>2, <1>3

(* A part of a list.                                                       *)
LEMMA ListPart ==
  ASSUME NEW n, NEW s, IsListOf(s, n), NEW a \in Nat, NEW b \in Nat, a >= 1, a <= b + 1, b <= n
  PROVE  /\ IsListOf(SubSeq(s, a, b), b - a + 1)
         /\ \A k \in 1 .. (b - a + 1) : SubSeq(s, a, b)[k] = s[a + k - 1]
  <1>1. \A i \in a .. b : s[i] \in ToSet(s)
    BY DEF ToSet, IsListOf
  <1>2. /\ SubSeq(s, a, b) \in Seq(ToSet(s))
        /\ Len(SubSeq(s, a, b)) = IF a <= b THEN b - a + 1 ELSE 0
        /\ \A i \in 1 .. b - a + 1 : SubSeq(s, a, b)[i] = s[a + i - 1]
    BY <1>1, SubSeqProperties
  <1>3. Len(SubSeq(s, a, b)) = b - a + 1
    BY <1>2
  <1> QED BY <1>2, <1>3, SequenceIsList

-----------------------------------------------------------------------------
(* The scan.                                                               *)

Alone(s) == {i \in Reported(s) : s.outcome[i] \notin Spanned(s)}
RowCount(s) == Cardinality(Alone(s))
SpanCount(s) == Cardinality(Spanned(s))

(* What the ranges of a span are of.                                       *)
Raw(s, state) ==
  IF s.version >= 2 THEN InState(s, state) ELSE {s.order[i] : i \in InState(s, state)}

(* What a scan is.                                                         *)
LEMMA ScanIs ==
  ASSUME NEW s \in Scans
  PROVE  /\ s.outcome \in [Index -> Outcomes \union {"abandoned"}]
         /\ s.next \in 0 .. Planned
         /\ s.order \in [Index -> Index]
         /\ \A i, j \in Index : s.order[i] = s.order[j] => i = j
         /\ s.version \in {1, 2} /\ s.mode \in Modes /\ s.collapse \in BOOLEAN
         /\ Reported(s) \subseteq Index
         /\ \A i \in Reported(s) : s.outcome[i] \in States
         /\ \A state : InState(s, state) \subseteq Reported(s)
         /\ \A state : Raw(s, state) \subseteq Index
  <1>1. /\ s.outcome \in [Index -> Outcomes \union {"abandoned"}] /\ s.next \in 0 .. Planned
        /\ s.order \in Orders /\ s.version \in Versions /\ s.mode \in Modes
        /\ s.collapse \in BOOLEAN
    BY DEF Scans
  <1>2. s.order \in [Index -> Index] /\ IsInjective(s.order)
    BY <1>1, VerifyAssumption
  <1>3. \A i, j \in Index : s.order[i] = s.order[j] => i = j
    BY <1>2 DEF IsInjective
  <1>4. s.version \in {1, 2}
    BY <1>1, VerifyAssumption DEF SupportedVersions
  <1>5. Reported(s) \subseteq Index
    BY <1>1, PlanIs DEF Reported, Index
  <1>6. \A i \in Reported(s) : s.outcome[i] \in States
    BY <1>1, <1>5, VerifyAssumption DEF Reported
  <1>7. \A state : InState(s, state) \subseteq Reported(s)
    BY DEF InState
  <1>8. \A state : Raw(s, state) \subseteq Index
    BY <1>2, <1>5, <1>7 DEF Raw
  <1> QED BY <1>1, <1>2, <1>3, <1>4, <1>5, <1>6, <1>7, <1>8

(* Its rows and spans list what was found, each once.                      *)
LEMMA SpannedIs ==
  ASSUME NEW s \in Scans
  PROVE  /\ Spanned(s) \subseteq States /\ IsFiniteSet(Spanned(s)) /\ SpanCount(s) \in Nat
         /\ IsFiniteSet(Alone(s)) /\ RowCount(s) \in Nat
         /\ Alone(s) \subseteq Reported(s) /\ Alone(s) \subseteq Index
         /\ \A state \in Spanned(s) : InState(s, state) # {}
         /\ Spans(s) \in [1 .. SpanCount(s) -> Spanned(s)]
         /\ \A j, k \in 1 .. SpanCount(s) : Spans(s)[j] = Spans(s)[k] => j = k
         /\ \A x \in Spanned(s) : \E k \in 1 .. SpanCount(s) : Spans(s)[k] = x
         /\ Rows(s) \in [1 .. RowCount(s) -> Alone(s)]
         /\ \A j, k \in 1 .. RowCount(s) : Rows(s)[j] = Rows(s)[k] => j = k
         /\ \A x \in Alone(s) : \E k \in 1 .. RowCount(s) : Rows(s)[k] = x
  <1>1. IsFiniteSet(Bulk) /\ Bulk \subseteq States
    <2>1. IsFiniteSet({"closed"} \union {"filtered"})
      <3>1. IsFiniteSet({"closed"})
        BY FS_Singleton
      <3> QED BY <3>1, FS_AddElement
    <2>2. Bulk = {"closed"} \union {"filtered"}
      BY DEF Bulk
    <2> QED BY <2>1, <2>2 DEF States
  <1>2. Spanned(s) \subseteq Bulk
    BY DEF Spanned
  <1>3. IsFiniteSet(Spanned(s)) /\ SpanCount(s) \in Nat
    BY <1>1, <1>2, FS_Subset, FS_CardinalityType DEF SpanCount
  <1>4. Alone(s) \in SUBSET Index /\ Alone(s) \subseteq Reported(s)
    BY ScanIs DEF Alone
  <1>5. IsFiniteSet(Alone(s)) /\ RowCount(s) \in Nat
    BY <1>4, PartsAreFinite DEF RowCount
  <1>6. /\ SetToSeq(Spanned(s)) \in [1 .. SpanCount(s) -> Spanned(s)]
        /\ \A j, k \in 1 .. SpanCount(s) :
              SetToSeq(Spanned(s))[j] = SetToSeq(Spanned(s))[k] => j = k
        /\ \A x \in Spanned(s) : \E k \in 1 .. SpanCount(s) : SetToSeq(Spanned(s))[k] = x
    BY <1>3, Listed DEF SpanCount
  <1>7. /\ SetToSeq(Alone(s)) \in [1 .. RowCount(s) -> Alone(s)]
        /\ \A j, k \in 1 .. RowCount(s) : SetToSeq(Alone(s))[j] = SetToSeq(Alone(s))[k] => j = k
        /\ \A x \in Alone(s) : \E k \in 1 .. RowCount(s) : SetToSeq(Alone(s))[k] = x
    BY <1>5, Listed DEF RowCount
  <1>8. Rows(s) = SetToSeq(Alone(s)) /\ Spans(s) = SetToSeq(Spanned(s))
    BY DEF Rows, Spans, Alone
  <1>9. \A state \in Spanned(s) : InState(s, state) # {}
    BY DEF Spanned
  <1> QED BY <1>1, <1>2, <1>3, <1>4, <1>5, <1>6, <1>7, <1>8, <1>9

-----------------------------------------------------------------------------
(* The lines of a record.                                                  *)

RowOf(s, i) == Row(s.mode, s.order, i, s.outcome[i])
SpanOf(s, state) == Span(s.version, s.order, state, InState(s, state))
Progress == [type |-> "scan_progress"]

(* What a scan writes, line by line.                                       *)
LEMMA BodiesAre ==
  ASSUME NEW s \in Scans
  PROVE  LET m == RowCount(s)
             n == SpanCount(s)
         IN  /\ IsListOf(Bodies(s), 3 + m + n)
             /\ Bodies(s)[1] = Started(s.version) /\ Bodies(s)[2] = Config(s.mode)
             /\ \A j \in 1 .. m : Bodies(s)[2 + j] = RowOf(s, Rows(s)[j])
             /\ Bodies(s)[3 + m] = Progress
             /\ \A j \in 1 .. n : Bodies(s)[3 + m + j] = SpanOf(s, Spans(s)[j])
  <1> DEFINE m == RowCount(s)
             n == SpanCount(s)
             head == <<Started(s.version), Config(s.mode)>>
             rows == [k \in DOMAIN Rows(s) |-> RowOf(s, Rows(s)[k])]
             spans == [k \in DOMAIN Spans(s) |-> SpanOf(s, Spans(s)[k])]
             one == <<Progress>>
  <1>0. m \in Nat /\ n \in Nat /\ DOMAIN Rows(s) = 1 .. m /\ DOMAIN Spans(s) = 1 .. n
    BY SpannedIs
  <1>1. IsListOf(head, 2) /\ head[1] = Started(s.version) /\ head[2] = Config(s.mode)
    BY DEF IsListOf
  <1>2. IsListOf(rows, m) /\ \A j \in 1 .. m : rows[j] = RowOf(s, Rows(s)[j])
    BY <1>0 DEF IsListOf
  <1>3. IsListOf(spans, n) /\ \A j \in 1 .. n : spans[j] = SpanOf(s, Spans(s)[j])
    BY <1>0 DEF IsListOf
  <1>4. IsListOf(one, 1) /\ one[1] = Progress
    BY OneIsList
  <1>5. Bodies(s) = Chain(Chain(Chain(head, rows), one), spans)
    BY DEF Bodies, RowOf, SpanOf, Progress, Chain
  <1> HIDE DEF head, rows, spans, one, m, n
  <1>6. /\ IsListOf(Chain(head, rows), 2 + m) /\ Chain(head, rows)[1] = head[1]
        /\ Chain(head, rows)[2] = head[2]
        /\ \A j \in 1 .. m : Chain(head, rows)[2 + j] = rows[j]
    <2>1. /\ IsListOf(Chain(head, rows), 2 + m)
          /\ \A k \in 1 .. 2 : Chain(head, rows)[k] = head[k]
          /\ \A k \in 1 .. m : Chain(head, rows)[2 + k] = rows[k]
      BY <1>1, <1>2, ChainIs
    <2>2. 1 \in 1 .. 2 /\ 2 \in 1 .. 2
      OBVIOUS
    <2> QED BY <2>1, <2>2
  <1>7. /\ IsListOf(Chain(Chain(head, rows), one), 2 + m + 1)
        /\ \A k \in 1 .. 2 + m : Chain(Chain(head, rows), one)[k] = Chain(head, rows)[k]
        /\ Chain(Chain(head, rows), one)[2 + m + 1] = Progress
    <2> DEFINE front == Chain(head, rows)
    <2>0. IsListOf(front, 2 + m)
      BY <1>6
    <2> HIDE DEF front
    <2>1. /\ IsListOf(Chain(front, one), 2 + m + 1)
          /\ \A k \in 1 .. 2 + m : Chain(front, one)[k] = front[k]
          /\ \A k \in 1 .. 1 : Chain(front, one)[2 + m + k] = one[k]
      BY <1>4, <2>0, ChainIs
    <2>2. Chain(front, one)[2 + m + 1] = one[1]
      <3>1. 1 \in 1 .. 1
        OBVIOUS
      <3> QED BY <2>1, <3>1
    <2>3. one[1] = Progress
      BY <1>4
    <2> QED BY <2>1, <2>2, <2>3 DEF front
  <1>8. /\ IsListOf(Bodies(s), 2 + m + 1 + n)
        /\ \A k \in 1 .. 2 + m + 1 : Bodies(s)[k] = Chain(Chain(head, rows), one)[k]
        /\ \A j \in 1 .. n : Bodies(s)[2 + m + 1 + j] = spans[j]
    <2> DEFINE front == Chain(Chain(head, rows), one)
    <2>0. IsListOf(front, 2 + m + 1) /\ Bodies(s) = Chain(front, spans)
      BY <1>5, <1>7
    <2> HIDE DEF front
    <2>1. /\ IsListOf(Chain(front, spans), 2 + m + 1 + n)
          /\ \A k \in 1 .. 2 + m + 1 : Chain(front, spans)[k] = front[k]
          /\ \A k \in 1 .. n : Chain(front, spans)[2 + m + 1 + k] = spans[k]
      BY <1>3, <2>0, ChainIs
    <2> QED BY <2>0, <2>1 DEF front
  <1>9. 2 + m + 1 = 3 + m
    BY <1>0
  <1>10. Bodies(s)[1] = head[1] /\ Bodies(s)[2] = head[2]
    <2>1. 1 \in 1 .. 2 + m /\ 2 \in 1 .. 2 + m /\ 1 \in 1 .. 2 + m + 1 /\ 2 \in 1 .. 2 + m + 1
      BY <1>0
    <2>2. \A k \in {1, 2} : Bodies(s)[k] = Chain(head, rows)[k]
      BY <1>7, <1>8, <2>1
    <2> QED BY <1>6, <2>2
  <1>11. ASSUME NEW j \in 1 .. m PROVE Bodies(s)[2 + j] = rows[j]
    <2>1. 2 + j \in 1 .. 2 + m /\ 2 + j \in 1 .. 2 + m + 1
      BY <1>0
    <2> QED BY <1>6, <1>7, <1>8, <2>1
  <1>12. Bodies(s)[3 + m] = Progress
    <2>1. 2 + m + 1 \in 1 .. 2 + m + 1
      BY <1>0
    <2> QED BY <1>7, <1>8, <1>9, <2>1
  <1> QED BY <1>1, <1>2, <1>3, <1>8, <1>9, <1>10, <1>11, <1>12 DEF m, n

(* A line is its event and the envelope around it.                         *)
EnvelopeFields == {"seq", "id", "ts", "secret"}

IsEnveloped(e, body, k) ==
  /\ DOMAIN e = EnvelopeFields \union DOMAIN body
  /\ e = [f \in DOMAIN e |-> e[f]]
  /\ e["seq"] = k - 1 /\ e["id"] = "scan" /\ e["ts"] = TRUE /\ e["secret"] = FALSE
  /\ \A f \in DOMAIN body : f \notin EnvelopeFields => e[f] = body[f]

(* Enveloped bodies are as many lines, each with its body's fields.        *)
LEMMA EnvelopedIs ==
  ASSUME NEW n, NEW bodies, IsListOf(bodies, n)
  PROVE  /\ IsListOf(Enveloped(bodies), n)
         /\ \A k \in 1 .. n : IsEnveloped(Enveloped(bodies)[k], bodies[k], k)
  <1>1. DOMAIN bodies = 1 .. n /\ n \in Nat
    BY DEF IsListOf
  <1>2. IsListOf(Enveloped(bodies), n)
    BY <1>1 DEF IsListOf, Enveloped
  <1>3. ASSUME NEW k \in 1 .. n
        PROVE  IsEnveloped(Enveloped(bodies)[k], bodies[k], k)
    <2> DEFINE e == Enveloped(bodies)[k]
    <2>1. DOMAIN Envelope(k) = EnvelopeFields
      BY DEF Envelope, EnvelopeFields
    <2>2. e = [f \in EnvelopeFields \union DOMAIN bodies[k] |->
                 IF f \in EnvelopeFields THEN Envelope(k)[f] ELSE bodies[k][f]]
      BY <1>1, <2>1 DEF Enveloped
    <2> HIDE DEF e
    <2>3. DOMAIN e = EnvelopeFields \union DOMAIN bodies[k] /\ e = [f \in DOMAIN e |-> e[f]]
      BY <2>2
    <2>4. \A f \in EnvelopeFields : e[f] = Envelope(k)[f]
      BY <2>2
    <2>5. e["seq"] = k - 1 /\ e["id"] = "scan" /\ e["ts"] = TRUE /\ e["secret"] = FALSE
      BY <2>4 DEF EnvelopeFields, Envelope
    <2>6. \A f \in DOMAIN bodies[k] : f \notin EnvelopeFields => e[f] = bodies[k][f]
      BY <2>2
    <2> QED BY <2>3, <2>5, <2>6 DEF e, IsEnveloped
  <1> QED BY <1>2, <1>3

(* A field of a body is a field of its line.                               *)
LEMMA EnvelopedField ==
  ASSUME NEW k, NEW body, NEW e, IsEnveloped(e, body, k),
         NEW f \in DOMAIN body, f \notin EnvelopeFields
  PROVE  e[f] = body[f]
  BY DEF IsEnveloped

(* What a line of each kind holds.                                         *)
IsWhose(e) == e.id = "scan" /\ e.ts = TRUE /\ e.secret = FALSE

IsStarted(e, s) == e.type = "scan_started" /\ e.version = s.version

IsConfig(e, s) ==
  e.type = "scan_config" /\ e.planned = Planned /\ e.mode = s.mode /\ e.seed \in BOOLEAN

IsRow(e, s, i) ==
  /\ e.type = "probe_result"
  /\ e.host = At(s.mode, s.order[i])[1] /\ e.port = At(s.mode, s.order[i])[2]
  /\ e.state = s.outcome[i] /\ e.source = SourceOf[s.outcome[i]] /\ e.protocol = "tcp"
  /\ e.attempts = 1 /\ e.attemptStates = <<s.outcome[i]>> /\ e.index = s.order[i]
  /\ e.timing = [total |-> 1]

IsSpan(e, s, state) ==
  /\ e.type = "probe_span"
  /\ e.state = state /\ e.source = SourceOf[state]
  /\ e.count = Cardinality(InState(s, state)) /\ e.ranges = Runs(Raw(s, state))
  /\ e.timing = [min |-> 1, mean |-> 2, max |-> 3]

IsTerminal(e, s) == e.type \in Terminals /\ e.counts = Counts(s)

LineCount(s, g) == 3 + g + RowCount(s) + SpanCount(s)

(* The lines of a record of the scan s, with its progress event or without *)
(* it: g is the number of progress events.                                 *)
Fits(L, s, g) ==
  LET m == RowCount(s)
      N == LineCount(s, g)
  IN  /\ g \in {0, 1} /\ IsListOf(L, N)
      /\ \A k \in 1 .. N : IsWhose(L[k]) /\ L[k].seq \in Nat
      /\ \A k \in 2 .. N : L[k - 1].seq < L[k].seq
      /\ IsStarted(L[1], s) /\ IsConfig(L[2], s)
      /\ \A j \in 1 .. m : IsRow(L[2 + j], s, Rows(s)[j])
      /\ g = 1 => L[3 + m].type = "scan_progress"
      /\ \A j \in 1 .. SpanCount(s) : IsSpan(L[2 + g + m + j], s, Spans(s)[j])
      /\ IsTerminal(L[N], s)

(* A line is one of these.                                                 *)
LEMMA EachLine ==
  ASSUME NEW s \in Scans, NEW g \in {0, 1}, NEW k \in 1 .. LineCount(s, g)
  PROVE  \/ k = 1
         \/ k = 2
         \/ \E j \in 1 .. RowCount(s) : k = 2 + j
         \/ g = 1 /\ k = 3 + RowCount(s)
         \/ \E j \in 1 .. SpanCount(s) : k = 2 + g + RowCount(s) + j
         \/ k = LineCount(s, g)
  <1> DEFINE m == RowCount(s)
             n == SpanCount(s)
  <1>0. m \in Nat /\ n \in Nat /\ g \in Nat /\ LineCount(s, g) = 3 + g + m + n
    BY SpannedIs DEF LineCount
  <1> HIDE DEF m, n
  <1>1. CASE k >= 3 /\ k <= 2 + m
    <2>1. k - 2 \in 1 .. m /\ k = 2 + (k - 2)
      BY <1>0, <1>1
    <2> QED BY <2>1 DEF m
  <1>2. CASE k > 2 + g + m /\ k < LineCount(s, g)
    <2>1. k - 2 - g - m \in 1 .. n /\ k = 2 + g + m + (k - 2 - g - m)
      BY <1>0, <1>2
    <2> QED BY <2>1 DEF m, n
  <1>3. k = 1 \/ k = 2 \/ (k >= 3 /\ k <= 2 + m) \/ (g = 1 /\ k = 3 + m)
          \/ (k > 2 + g + m /\ k < LineCount(s, g)) \/ k = LineCount(s, g)
    BY <1>0
  <1> QED BY <1>1, <1>2, <1>3 DEF m

(* The fields of a whole record's lines, and what is in them.              *)
Fields(e, names) ==
  DOMAIN e = EnvelopeFields \union names /\ e = [f \in DOMAIN e |-> e[f]]

RowFields ==
  {"type", "host", "port", "state", "source", "protocol", "attempts", "attemptStates",
   "index", "timing", "label"}

SpanFields == {"type", "state", "source", "count", "ranges", "timing"}

(* The lines of a whole record, one after the other.                       *)
LEMMA WholeLines ==
  ASSUME NEW s \in Scans
  PROVE  LET L == Whole(s)
             m == RowCount(s)
             N == LineCount(s, 1)
         IN  /\ IsListOf(L, N) /\ N \in Nat /\ N >= 4
             /\ \A k \in 1 .. N : L[k].seq = k - 1 /\ IsWhose(L[k])
             /\ IsStarted(L[1], s) /\ Fields(L[1], {"type", "version"})
             /\ IsConfig(L[2], s) /\ L[2].seed = TRUE
             /\ Fields(L[2], {"type", "planned", "mode", "seed"})
             /\ \A j \in 1 .. m : IsRow(L[2 + j], s, Rows(s)[j]) /\ Fields(L[2 + j], RowFields)
             /\ L[3 + m].type = "scan_progress" /\ Fields(L[3 + m], {"type"})
             /\ \A j \in 1 .. SpanCount(s) :
                  IsSpan(L[3 + m + j], s, Spans(s)[j]) /\ Fields(L[3 + m + j], SpanFields)
             /\ IsTerminal(L[N], s) /\ Fields(L[N], {"type", "counts"})
             /\ IsListOf(Unfinished(s), N - 1)
             /\ \A k \in 1 .. (N - 1) : Unfinished(s)[k] = L[k]
  <1> DEFINE b == Bodies(s)
             w == Extended(b, Terminal(s))
             L == Whole(s)
             m == RowCount(s)
             n == SpanCount(s)
             N == LineCount(s, 1)
  <1>0. m \in Nat /\ n \in Nat /\ N = 4 + m + n /\ N - 1 = 3 + m + n /\ N \in Nat /\ N >= 4
    BY SpannedIs DEF LineCount
  <1>1. /\ IsListOf(b, N - 1)
        /\ b[1] = Started(s.version) /\ b[2] = Config(s.mode)
        /\ \A j \in 1 .. m : b[2 + j] = RowOf(s, Rows(s)[j])
        /\ b[3 + m] = Progress
        /\ \A j \in 1 .. n : b[3 + m + j] = SpanOf(s, Spans(s)[j])
    BY <1>0, BodiesAre
  <1>2. Whole(s) = Enveloped(w) /\ Unfinished(s) = Enveloped(b)
    BY DEF Whole, Unfinished, Extended
  <1> HIDE DEF b, w, L, m, n, N
  <1>3. IsListOf(w, N) /\ w[N] = Terminal(s) /\ \A k \in 1 .. (N - 1) : w[k] = b[k]
    <2>1. N - 1 + 1 = N
      BY <1>0
    <2> QED BY <1>1, <2>1, ListAppend DEF w
  <1>4. IsListOf(L, N) /\ \A k \in 1 .. N : IsEnveloped(L[k], w[k], k)
    BY <1>2, <1>3, EnvelopedIs DEF L
  <1>5. IsListOf(Unfinished(s), N - 1)
    BY <1>1, <1>2, EnvelopedIs
  <1>6. ASSUME NEW k \in 1 .. (N - 1) PROVE Unfinished(s)[k] = L[k]
    <2>1. k \in DOMAIN b /\ k \in DOMAIN w
      BY <1>0, <1>1, <1>3 DEF IsListOf
    <2>2. w[k] = b[k]
      BY <1>3
    <2> QED BY <1>2, <2>1, <2>2 DEF Enveloped, L
  <1>7. \A k \in 1 .. N : L[k].seq = k - 1 /\ IsWhose(L[k])
    BY <1>4 DEF IsWhose, IsEnveloped
  <1>8. IsStarted(L[1], s) /\ Fields(L[1], {"type", "version"})
    <2>1. 1 \in 1 .. N /\ w[1] = Started(s.version)
      BY <1>0, <1>1, <1>3
    <2>2. DOMAIN w[1] = {"type", "version"}
      BY <2>1 DEF Started
    <2>3. L[1].type = w[1].type /\ L[1].version = w[1].version
      BY <1>4, EnvelopedField, <2>1, <2>2 DEF EnvelopeFields
    <2> QED BY <1>4, <2>1, <2>2, <2>3 DEF IsStarted, Fields, IsEnveloped, Started
  <1>9. /\ IsConfig(L[2], s) /\ L[2].seed = TRUE
        /\ Fields(L[2], {"type", "planned", "mode", "seed"})
    <2>1. 2 \in 1 .. N /\ w[2] = Config(s.mode)
      BY <1>0, <1>1, <1>3
    <2>2. DOMAIN w[2] = {"type", "planned", "mode", "seed"}
      BY <2>1 DEF Config
    <2>3. /\ L[2].type = w[2].type /\ L[2].planned = w[2].planned /\ L[2].mode = w[2].mode
          /\ L[2].seed = w[2].seed
      BY <1>4, EnvelopedField, <2>1, <2>2 DEF EnvelopeFields
    <2> QED BY <1>4, <2>1, <2>2, <2>3 DEF IsConfig, Fields, IsEnveloped, Config
  <1>10. ASSUME NEW j \in 1 .. m
         PROVE  IsRow(L[2 + j], s, Rows(s)[j]) /\ Fields(L[2 + j], RowFields)
    <2> DEFINE k == 2 + j
               i == Rows(s)[j]
    <2>1. k \in 1 .. N /\ w[k] = RowOf(s, i)
      BY <1>0, <1>1, <1>3
    <2> HIDE DEF k, i
    <2>2. DOMAIN w[k] = RowFields
      BY <2>1 DEF RowOf, Row, RowFields
    <2>3. \A f \in RowFields : L[k][f] = w[k][f]
      BY <1>4, EnvelopedField, <2>1, <2>2 DEF EnvelopeFields, RowFields
    <2>4. /\ L[k].type = w[k].type /\ L[k].host = w[k].host /\ L[k].port = w[k].port
          /\ L[k].state = w[k].state /\ L[k].source = w[k].source
          /\ L[k].protocol = w[k].protocol /\ L[k].attempts = w[k].attempts
          /\ L[k].attemptStates = w[k].attemptStates /\ L[k].index = w[k].index
          /\ L[k].timing = w[k].timing
      BY <2>3 DEF RowFields
    <2>5. IsRow(L[k], s, i)
      BY <2>1, <2>4 DEF IsRow, RowOf, Row
    <2>6. Fields(L[k], RowFields)
      BY <1>4, <2>1, <2>2 DEF Fields, IsEnveloped
    <2> QED BY <2>5, <2>6 DEF k, i
  <1>11. L[3 + m].type = "scan_progress" /\ Fields(L[3 + m], {"type"})
    <2>1. 3 + m \in 1 .. N /\ 3 + m \in 1 .. (N - 1)
      BY <1>0
    <2>2. w[3 + m] = Progress
      BY <1>1, <1>3, <2>1
    <2>3. DOMAIN w[3 + m] = {"type"}
      BY <2>2 DEF Progress
    <2>4. L[3 + m].type = w[3 + m].type
      BY <1>4, EnvelopedField, <2>1, <2>3 DEF EnvelopeFields
    <2> QED BY <1>4, <2>1, <2>2, <2>3, <2>4 DEF Fields, IsEnveloped, Progress
  <1>12. ASSUME NEW j \in 1 .. n
         PROVE  IsSpan(L[3 + m + j], s, Spans(s)[j]) /\ Fields(L[3 + m + j], SpanFields)
    <2> DEFINE k == 3 + m + j
               state == Spans(s)[j]
    <2>1. k \in 1 .. N /\ k \in 1 .. (N - 1)
      BY <1>0
    <2>2. w[k] = SpanOf(s, state)
      BY <1>1, <1>3, <2>1
    <2> HIDE DEF k, state
    <2>3. DOMAIN w[k] = SpanFields
      BY <2>2 DEF SpanOf, Span, SpanFields
    <2>4. /\ L[k].type = w[k].type /\ L[k].state = w[k].state /\ L[k].source = w[k].source
          /\ L[k].count = w[k].count /\ L[k].ranges = w[k].ranges /\ L[k].timing = w[k].timing
      BY <1>4, EnvelopedField, <2>1, <2>3 DEF EnvelopeFields, SpanFields
    <2>5. IsSpan(L[k], s, state)
      BY <2>2, <2>4 DEF IsSpan, SpanOf, Span, Raw
    <2>6. Fields(L[k], SpanFields)
      BY <1>4, <2>1, <2>3 DEF Fields, IsEnveloped
    <2> QED BY <2>5, <2>6 DEF k, state
  <1>13. IsTerminal(L[N], s) /\ Fields(L[N], {"type", "counts"})
    <2>1. N \in 1 .. N
      BY <1>0
    <2>2. DOMAIN w[N] = {"type", "counts"}
      BY <1>3 DEF Terminal
    <2>3. L[N].type = w[N].type /\ L[N].counts = w[N].counts
      BY <1>4, EnvelopedField, <2>1, <2>2 DEF EnvelopeFields
    <2> QED BY <1>3, <1>4, <2>1, <2>2, <2>3 DEF IsTerminal, Fields, IsEnveloped, Terminal, Terminals
  <1> QED BY <1>0, <1>4, <1>5, <1>6, <1>7, <1>8, <1>9, <1>10, <1>11, <1>12, <1>13 DEF L, m, n, N

(* A whole record is a record of its scan.                                 *)
LEMMA WholeFits ==
  ASSUME NEW s \in Scans
  PROVE  Fits(Whole(s), s, 1)
  <1> DEFINE L == Whole(s)
             m == RowCount(s)
             N == LineCount(s, 1)
  <1>1. /\ IsListOf(L, N) /\ N \in Nat
        /\ \A k \in 1 .. N : L[k].seq = k - 1 /\ IsWhose(L[k])
        /\ IsStarted(L[1], s) /\ IsConfig(L[2], s)
        /\ \A j \in 1 .. m : IsRow(L[2 + j], s, Rows(s)[j])
        /\ L[3 + m].type = "scan_progress"
        /\ \A j \in 1 .. SpanCount(s) : IsSpan(L[3 + m + j], s, Spans(s)[j])
        /\ IsTerminal(L[N], s)
    BY WholeLines
  <1> HIDE DEF L, m, N
  <1>2. \A k \in 1 .. N : L[k].seq \in Nat
    BY <1>1
  <1>3. \A k \in 2 .. N : L[k - 1].seq < L[k].seq
    <2> SUFFICES ASSUME NEW k \in 2 .. N PROVE L[k - 1].seq < L[k].seq
      OBVIOUS
    <2> DEFINE h == k - 1
    <2>1. h \in 1 .. N /\ k \in 1 .. N /\ h < k /\ h \in Nat
      BY <1>1
    <2> HIDE DEF h
    <2>2. L[h].seq = h - 1 /\ L[k].seq = k - 1
      BY <1>1, <2>1
    <2>3. L[h].seq < L[k].seq
      BY <2>1, <2>2
    <2> QED BY <2>3 DEF h
  <1>4. 2 + 1 = 3
    OBVIOUS
  <1> QED BY <1>1, <1>2, <1>3, <1>4 DEF Fits, L, m, N

-----------------------------------------------------------------------------
(* What a walk finds in a record of a scan.                                *)

(* The kind of a line says where it stands.                                *)
LEMMA LineKinds ==
  ASSUME NEW s \in Scans, NEW g, NEW L, Fits(L, s, g), NEW k \in 1 .. LineCount(s, g)
  PROVE  /\ L[k].type \notin {"garbled", "torn"}
         /\ L[k].type = "scan_started" => k = 1
         /\ L[k].type = "scan_config" => k = 2
         /\ L[k].type \in Terminals => k = LineCount(s, g)
         /\ L[k].type = "probe_result" =>
              \E j \in 1 .. RowCount(s) : k = 2 + j /\ IsRow(L[k], s, Rows(s)[j])
         /\ L[k].type = "probe_span" =>
              \E j \in 1 .. SpanCount(s) :
                k = 2 + g + RowCount(s) + j /\ IsSpan(L[k], s, Spans(s)[j])
  <1>0. g \in {0, 1}
    BY DEF Fits
  <1>1. CASE k = 1
    BY <1>1 DEF Fits, IsStarted, Terminals
  <1>2. CASE k = 2
    BY <1>2 DEF Fits, IsConfig, Terminals
  <1>3. CASE \E j \in 1 .. RowCount(s) : k = 2 + j
    BY <1>3 DEF Fits, IsRow, Terminals
  <1>4. CASE g = 1 /\ k = 3 + RowCount(s)
    BY <1>4 DEF Fits, Terminals
  <1>5. CASE \E j \in 1 .. SpanCount(s) : k = 2 + g + RowCount(s) + j
    BY <1>5 DEF Fits, IsSpan, Terminals
  <1>6. CASE k = LineCount(s, g)
    BY <1>6 DEF Fits, IsTerminal, Terminals
  <1> QED BY <1>0, <1>1, <1>2, <1>3, <1>4, <1>5, <1>6, EachLine

(* The first n lines of L.                                                 *)
Begins(E, L, n) == IsListOf(E, n) /\ \A k \in 1 .. n : E[k] = L[k]

(* A line behind the second one is read with the record's own config.      *)
LEMMA PlanIsRead ==
  ASSUME NEW s \in Scans, NEW g, NEW L, Fits(L, s, g),
         NEW n \in 0 .. LineCount(s, g), NEW E, Begins(E, L, n), NEW k \in 3 .. n
  PROVE  /\ Min(DOMAIN E) = 1 /\ E[1].type = "scan_started" /\ E[1].version = s.version
         /\ ConfigsBefore(E, k) # {} /\ Min(ConfigsBefore(E, k)) = 2
         /\ E[2] = L[2] /\ E[2].mode = s.mode
  <1>0. DOMAIN E = 1 .. n /\ n \in Nat /\ n >= 3
    BY DEF Begins, IsListOf
  <1>1. LineCount(s, g) \in Nat
    BY SpannedIs DEF LineCount, Fits
  <1>2. 1 \in 1 .. n /\ 2 \in 1 .. n /\ 1 .. n \subseteq 1 .. LineCount(s, g)
    BY <1>0, <1>1
  <1>3. E[1] = L[1] /\ E[2] = L[2]
    BY <1>2 DEF Begins
  <1>4. Min(DOMAIN E) = 1
    <2>1. \A y \in 1 .. n : 1 <= y
      OBVIOUS
    <2>2. 1 .. n \in SUBSET Int
      OBVIOUS
    <2> QED BY <1>0, <1>2, <2>1, <2>2, MinIs
  <1>5. ConfigsBefore(E, k) = {2}
    <2>1. ASSUME NEW j \in ConfigsBefore(E, k) PROVE j = 2
      <3>1. j \in 1 .. n /\ E[j].type = "scan_config"
        BY <1>0, <2>1 DEF ConfigsBefore
      <3>2. L[j].type = "scan_config"
        BY <3>1 DEF Begins
      <3> QED BY <1>2, <3>1, <3>2, LineKinds
    <2>2. 2 \in ConfigsBefore(E, k)
      BY <1>0, <1>2, <1>3 DEF ConfigsBefore, Fits, IsConfig
    <2> QED BY <2>1, <2>2
  <1>6. Min({2}) = 2
    <2>1. {2} \in SUBSET Int /\ 2 \in {2} /\ \A y \in {2} : 2 <= y
      OBVIOUS
    <2> QED BY <2>1, MinIs
  <1> QED BY <1>3, <1>4, <1>5, <1>6 DEF Fits, IsStarted, IsConfig

(* The place in the plan of a result.                                      *)
PlaceAt(E, order, p) ==
  IF E[p[1]].type = "probe_result" THEN E[p[1]].index
                                   ELSE PlaceIn(E, order, p[1], p[2][2])

Places(s) == {s.order[i] : i \in Reported(s)}

(* Whether the ranges of a record's spans can be led back to the plan: it  *)
(* still has its seed, or none is needed.                                  *)
Leads(L, s) == L[2].seed = TRUE \/ s.version < 2 \/ SpanCount(s) = 0

(* A result of a row is its own; a result of a span is that of an index    *)
(* the span was written for.                                               *)
LEMMA HeldInRow ==
  ASSUME NEW E, NEW n, IsListOf(E, n), NEW p \in Held(E)
  PROVE  /\ p[1] \in 1 .. n /\ p = <<p[1], p[2]>> /\ p[2] = <<p[2][1], p[2][2]>>
         /\ \/ E[p[1]].type = "probe_result" /\ p[2] = <<0, 0>>
            \/ /\ E[p[1]].type = "probe_span"
               /\ p[2][1] \in DOMAIN E[p[1]].ranges
               /\ p[2][2] \in E[p[1]].ranges[p[2][1]][1] .. E[p[1]].ranges[p[2][1]][2]
  <1>1. DOMAIN E = 1 .. n
    BY DEF IsListOf
  <1>2. PICK k \in 1 .. n : p \in {k} \X Entries(E[k])
    BY <1>1 DEF Held
  <1>3. p[1] = k /\ p[2] \in Entries(E[k]) /\ p = <<k, p[2]>>
    BY <1>2
  <1>4. CASE E[k].type = "probe_result"
    <2>1. p[2] \in {<<0, 0>>}
      BY <1>3, <1>4 DEF Entries
    <2> QED BY <1>3, <1>4, <2>1
  <1>5. CASE E[k].type = "probe_span"
    <2>1. p[2] \in Expansion(E[k].ranges)
      BY <1>3, <1>5 DEF Entries
    <2>2. PICK r \in DOMAIN E[k].ranges :
            p[2] \in {r} \X (E[k].ranges[r][1] .. E[k].ranges[r][2])
      BY <2>1 DEF Expansion
    <2>3. /\ p[2][1] = r /\ p[2][2] \in E[k].ranges[r][1] .. E[k].ranges[r][2]
          /\ p[2] = <<p[2][1], p[2][2]>>
      BY <2>2
    <2> QED BY <1>3, <1>5, <2>3
  <1>6. CASE E[k].type \notin {"probe_result", "probe_span"}
    <2>1. Entries(E[k]) = {}
      BY <1>6 DEF Entries
    <2> QED BY <1>3, <2>1
  <1> QED BY <1>4, <1>5, <1>6

(* What a line holds the file holds.                                       *)
LEMMA InHeld ==
  ASSUME NEW E, NEW n, IsListOf(E, n), NEW k \in 1 .. n, NEW x \in Entries(E[k])
  PROVE  <<k, x>> \in Held(E)
  BY DEF Held, IsListOf

(* An index of a range is in the expansion.                                *)
LEMMA InExpansion ==
  ASSUME NEW ranges, NEW r \in DOMAIN ranges, NEW i \in ranges[r][1] .. ranges[r][2]
  PROVE  <<r, i>> \in Expansion(ranges)
  BY DEF Expansion

(* The index a raw index of a span stands for.                             *)
LEMMA RawLeads ==
  ASSUME NEW s \in Scans, NEW g, NEW L, Fits(L, s, g), Leads(L, s),
         NEW n \in 0 .. LineCount(s, g), NEW E, Begins(E, L, n),
         NEW order, \A i \in Index : order[i] = s.order[i],
         NEW k \in 3 .. n, SpanCount(s) # 0, NEW state, NEW raw \in Raw(s, state)
  PROVE  \E i \in InState(s, state) :
           /\ PlaceIn(E, order, k, raw) = s.order[i]
           /\ raw = IF s.version >= 2 THEN i ELSE s.order[i]
  <1>1. /\ Min(DOMAIN E) = 1 /\ E[1].type = "scan_started" /\ E[1].version = s.version
        /\ Min(ConfigsBefore(E, k)) = 2 /\ E[2] = L[2]
    BY PlanIsRead
  <1>2. PlaceIn(E, order, k, raw) = IF s.version >= 2 /\ L[2].seed THEN order[raw] ELSE raw
    BY <1>1 DEF PlaceIn, PlaceOf
  <1>3. CASE s.version >= 2
    <2>1. L[2].seed = TRUE
      BY <1>3, ScanIs DEF Leads
    <2>2. raw \in InState(s, state) /\ raw \in Index
      BY <1>3, ScanIs DEF Raw
    <2> QED BY <1>2, <1>3, <2>1, <2>2
  <1>4. CASE ~(s.version >= 2)
    <2>1. PICK i \in InState(s, state) : raw = s.order[i]
      BY <1>4 DEF Raw
    <2> QED BY <1>2, <1>4, <2>1
  <1> QED BY <1>3, <1>4

(* What a result says: the state of the probe of its place.                *)
Tells(E, order, s, p, i) ==
  /\ i \in Reported(s) /\ PlaceAt(E, order, p) = s.order[i] /\ E[p[1]].state = s.outcome[i]
  /\ E[p[1]].type = "probe_span" => p[2][2] = IF s.version >= 2 THEN i ELSE s.order[i]

(* Each result of the walk is one probe's, with its endpoint and outcome.  *)
LEMMA HeldTells ==
  ASSUME NEW s \in Scans, NEW g, NEW L, Fits(L, s, g), Leads(L, s),
         NEW n \in 0 .. LineCount(s, g), NEW E, Begins(E, L, n),
         NEW order, \A i \in Index : order[i] = s.order[i],
         NEW p \in Held(E)
  PROVE  /\ \E i \in Reported(s) : Tells(E, order, s, p, i)
         /\ HasResult(E, order, p)
         /\ \A i : Tells(E, order, s, p, i) =>
              /\ ResultOf(E, order, p).host = At(s.mode, s.order[i])[1]
              /\ ResultOf(E, order, p).port = At(s.mode, s.order[i])[2]
              /\ ResultOf(E, order, p).state = s.outcome[i]
  <1> DEFINE k == p[1]
  <1>0. LineCount(s, g) \in Nat /\ g \in {0, 1} /\ RowCount(s) \in Nat /\ SpanCount(s) \in Nat
    BY SpannedIs DEF LineCount, Fits
  <1>1. IsListOf(E, n) /\ \A h \in 1 .. n : E[h] = L[h]
    BY DEF Begins
  <1>2. k \in 1 .. n /\ k \in 1 .. LineCount(s, g) /\ E[k] = L[k]
    BY <1>0, <1>1, HeldInRow
  <1>3. \/ E[k].type = "probe_result" /\ p[2] = <<0, 0>>
        \/ /\ E[k].type = "probe_span"
           /\ p[2][1] \in DOMAIN E[k].ranges
           /\ p[2][2] \in E[k].ranges[p[2][1]][1] .. E[k].ranges[p[2][1]][2]
    BY <1>1, HeldInRow
  <1> HIDE DEF k
  <1>4. CASE E[k].type = "probe_result"
    <2>1. PICK j \in 1 .. RowCount(s) : k = 2 + j /\ IsRow(E[k], s, Rows(s)[j])
      BY <1>2, <1>4, LineKinds
    <2> DEFINE i == Rows(s)[j]
    <2>2. i \in Alone(s) /\ i \in Reported(s) /\ i \in Index
      BY SpannedIs
    <2> HIDE DEF i
    <2>3. /\ E[k].index = s.order[i] /\ E[k].state = s.outcome[i]
          /\ E[k].host = At(s.mode, s.order[i])[1] /\ E[k].port = At(s.mode, s.order[i])[2]
      BY <2>1 DEF IsRow, i
    <2>4. Tells(E, order, s, p, i)
      BY <1>4, <2>2, <2>3 DEF Tells, PlaceAt, k
    <2>5. HasResult(E, order, p)
      <3>1. s.order[i] \in Index
        BY <2>2, ScanIs
      <3>2. E[k].port \in 0 .. MaxPort
        BY <2>3, <3>1, EndpointsFit
      <3> QED BY <1>4, <3>2 DEF HasResult, IsReadable, k
    <2>6. /\ ResultOf(E, order, p).host = E[k].host /\ ResultOf(E, order, p).port = E[k].port
          /\ ResultOf(E, order, p).state = E[k].state
      BY <1>4 DEF ResultOf, Result, k
    <2>7. ASSUME NEW h, Tells(E, order, s, p, h) PROVE h = i
      <3>1. h \in Index /\ s.order[h] = s.order[i]
        BY <1>4, <2>3, <2>7, ScanIs DEF Tells, PlaceAt, k
      <3> QED BY <2>2, <3>1, ScanIs
    <2> QED BY <2>2, <2>3, <2>4, <2>5, <2>6, <2>7
  <1>5. CASE E[k].type = "probe_span"
    <2>1. PICK j \in 1 .. SpanCount(s) :
            k = 2 + g + RowCount(s) + j /\ IsSpan(E[k], s, Spans(s)[j])
      BY <1>2, <1>5, LineKinds
    <2> DEFINE state == Spans(s)[j]
               raw == p[2][2]
    <2>2. k \in 3 .. n /\ SpanCount(s) # 0
      BY <1>0, <1>2, <2>1
    <2>3. E[k].ranges = Runs(Raw(s, state)) /\ E[k].state = state
      BY <2>1 DEF IsSpan
    <2> HIDE DEF state, raw
    <2>4. raw \in Raw(s, state)
      <3>1. Raw(s, state) \in SUBSET Index
        BY ScanIs
      <3>2. /\ p[2][1] \in DOMAIN Runs(Raw(s, state))
            /\ raw \in Runs(Raw(s, state))[p[2][1]][1] .. Runs(Raw(s, state))[p[2][1]][2]
        BY <1>3, <1>5, <2>3 DEF raw
      <3> QED BY <3>1, <3>2, SpanRanges
    <2>5. PICK i \in InState(s, state) :
            /\ PlaceIn(E, order, k, raw) = s.order[i]
            /\ raw = IF s.version >= 2 THEN i ELSE s.order[i]
      BY <2>2, <2>4, RawLeads
    <2>6. i \in Reported(s) /\ s.outcome[i] = state /\ i \in Index
      BY ScanIs DEF InState
    <2>7. Tells(E, order, s, p, i)
      BY <1>5, <2>3, <2>5, <2>6 DEF Tells, PlaceAt, k, raw
    <2>8. s.order[i] \in Index
      BY <2>6, ScanIs
    <2>9. HasResult(E, order, p)
      BY <1>5, <2>5, <2>8 DEF HasResult, k, raw
    <2>10. Min(ConfigsBefore(E, k)) = 2 /\ E[2].mode = s.mode
      BY <2>2, PlanIsRead
    <2>11. ResultOf(E, order, p) =
             Result(At(s.mode, s.order[i]), state, LabelOf[At(s.mode, s.order[i])[2]], TRUE)
      BY <1>5, <2>3, <2>5, <2>10 DEF ResultOf, k, raw
    <2>12. /\ ResultOf(E, order, p).host = At(s.mode, s.order[i])[1]
           /\ ResultOf(E, order, p).port = At(s.mode, s.order[i])[2]
           /\ ResultOf(E, order, p).state = s.outcome[i]
      BY <2>6, <2>11 DEF Result
    <2>13. ASSUME NEW h, Tells(E, order, s, p, h) PROVE h = i
      <3>1. h \in Index /\ s.order[h] = s.order[i]
        BY <1>5, <2>5, <2>13, ScanIs DEF Tells, PlaceAt, k, raw
      <3> QED BY <2>6, <3>1, ScanIs
    <2> QED BY <2>6, <2>7, <2>9, <2>12, <2>13
  <1> QED BY <1>3, <1>4, <1>5

(* No two results tell of one probe.                                       *)
LEMMA TellsOnce ==
  ASSUME NEW s \in Scans, NEW g, NEW L, Fits(L, s, g), Leads(L, s),
         NEW n \in 0 .. LineCount(s, g), NEW E, Begins(E, L, n), NEW order,
         NEW p \in Held(E), NEW q \in Held(E), NEW i,
         Tells(E, order, s, p, i), Tells(E, order, s, q, i)
  PROVE  p = q
  <1> DEFINE k == p[1]
             h == q[1]
  <1>0. /\ LineCount(s, g) \in Nat /\ g \in {0, 1} /\ RowCount(s) \in Nat /\ SpanCount(s) \in Nat
        /\ i \in Reported(s) /\ i \in Index
    BY SpannedIs, ScanIs DEF LineCount, Fits, Tells
  <1>1. IsListOf(E, n) /\ \A x \in 1 .. n : E[x] = L[x]
    BY DEF Begins
  <1>2. /\ k \in 1 .. n /\ k \in 1 .. LineCount(s, g) /\ E[k] = L[k]
        /\ h \in 1 .. n /\ h \in 1 .. LineCount(s, g) /\ E[h] = L[h]
        /\ p = <<k, p[2]>> /\ p[2] = <<p[2][1], p[2][2]>>
        /\ q = <<h, q[2]>> /\ q[2] = <<q[2][1], q[2][2]>>
    BY <1>0, <1>1, HeldInRow
  <1>3. /\ \/ E[k].type = "probe_result" /\ p[2] = <<0, 0>>
           \/ /\ E[k].type = "probe_span"
              /\ p[2][1] \in DOMAIN E[k].ranges
              /\ p[2][2] \in E[k].ranges[p[2][1]][1] .. E[k].ranges[p[2][1]][2]
        /\ \/ E[h].type = "probe_result" /\ q[2] = <<0, 0>>
           \/ /\ E[h].type = "probe_span"
              /\ q[2][1] \in DOMAIN E[h].ranges
              /\ q[2][2] \in E[h].ranges[q[2][1]][1] .. E[h].ranges[q[2][1]][2]
    BY <1>1, HeldInRow
  <1>4. E[k].state = s.outcome[i] /\ E[h].state = s.outcome[i]
    BY DEF Tells
  <1>5. ASSUME NEW x \in {k, h}, E[x].type = "probe_result"
        PROVE  \E j \in 1 .. RowCount(s) :
                 x = 2 + j /\ E[x].index = s.order[Rows(s)[j]] /\ Rows(s)[j] \in Alone(s)
                   /\ E[x].state = s.outcome[Rows(s)[j]]
    <2>1. PICK j \in 1 .. RowCount(s) : x = 2 + j /\ IsRow(E[x], s, Rows(s)[j])
      BY <1>2, <1>5, LineKinds
    <2> QED BY <2>1, SpannedIs DEF IsRow
  <1>6. ASSUME NEW x \in {k, h}, E[x].type = "probe_span"
        PROVE  \E j \in 1 .. SpanCount(s) :
                 /\ x = 2 + g + RowCount(s) + j /\ Spans(s)[j] = s.outcome[i]
                 /\ Spans(s)[j] \in Spanned(s) /\ E[x].ranges = Runs(Raw(s, Spans(s)[j]))
    <2>1. PICK j \in 1 .. SpanCount(s) :
            x = 2 + g + RowCount(s) + j /\ IsSpan(E[x], s, Spans(s)[j])
      BY <1>2, <1>6, LineKinds
    <2> QED BY <1>4, <2>1, SpannedIs DEF IsSpan
  <1>7. ASSUME NEW x \in {k, h}, E[x].type = "probe_result"
        PROVE  s.outcome[i] \notin Spanned(s)
    <2>1. PICK j \in 1 .. RowCount(s) :
                 E[x].index = s.order[Rows(s)[j]] /\ Rows(s)[j] \in Alone(s)
                   /\ E[x].state = s.outcome[Rows(s)[j]]
      BY <1>5, <1>7
    <2> QED BY <1>4, <2>1 DEF Alone
  <1>8. CASE E[k].type = "probe_result" /\ E[h].type = "probe_result"
    <2>1. E[k].index = s.order[i] /\ E[h].index = s.order[i]
      BY <1>8 DEF Tells, PlaceAt
    <2>2. PICK j \in 1 .. RowCount(s) :
            k = 2 + j /\ E[k].index = s.order[Rows(s)[j]] /\ Rows(s)[j] \in Alone(s)
      BY <1>5, <1>8
    <2>3. PICK l \in 1 .. RowCount(s) :
            h = 2 + l /\ E[h].index = s.order[Rows(s)[l]] /\ Rows(s)[l] \in Alone(s)
      BY <1>5, <1>8
    <2>4. Rows(s)[j] \in Index /\ Rows(s)[l] \in Index
      BY <2>2, <2>3, SpannedIs
    <2>5. Rows(s)[j] = Rows(s)[l]
      BY <2>1, <2>2, <2>3, <2>4, ScanIs
    <2>6. j = l
      BY <2>5, SpannedIs
    <2> QED BY <1>2, <1>3, <1>8, <2>2, <2>3, <2>6
  <1>9. CASE E[k].type = "probe_span" /\ E[h].type = "probe_span"
    <2>1. PICK j \in 1 .. SpanCount(s) :
                 /\ k = 2 + g + RowCount(s) + j /\ Spans(s)[j] = s.outcome[i]
                 /\ Spans(s)[j] \in Spanned(s) /\ E[k].ranges = Runs(Raw(s, Spans(s)[j]))
      BY <1>6, <1>9
    <2>2. PICK l \in 1 .. SpanCount(s) :
                 /\ h = 2 + g + RowCount(s) + l /\ Spans(s)[l] = s.outcome[i]
      BY <1>6, <1>9
    <2>3. j = l
      BY <2>1, <2>2, SpannedIs
    <2>4. k = h
      BY <2>1, <2>2, <2>3
    <2>5. p[2][2] = q[2][2]
      BY <1>9 DEF Tells
    <2> DEFINE S == Raw(s, Spans(s)[j])
               raw == p[2][2]
    <2>6. S \in SUBSET Index
      BY ScanIs
    <2> HIDE DEF S, raw
    <2>7. /\ p[2][1] \in DOMAIN Runs(S) /\ q[2][1] \in DOMAIN Runs(S)
          /\ raw \in Runs(S)[p[2][1]][1] .. Runs(S)[p[2][1]][2]
          /\ raw \in Runs(S)[q[2][1]][1] .. Runs(S)[q[2][1]][2]
      BY <1>3, <1>9, <2>1, <2>4, <2>5 DEF S, raw
    <2>8. raw \in S
      BY <2>6, <2>7, SpanRanges
    <2>9. p[2][1] = q[2][1]
      <3>1. \A x, y \in DOMAIN Runs(S) :
              (raw \in Runs(S)[x][1] .. Runs(S)[x][2] /\ raw \in Runs(S)[y][1] .. Runs(S)[y][2])
                => x = y
        BY <2>6, <2>8, SpanRanges
      <3> QED BY <2>7, <3>1
    <2> QED BY <1>2, <2>4, <2>5, <2>9
  <1>10. ~(E[k].type = "probe_result" /\ E[h].type = "probe_span")
    BY <1>6, <1>7
  <1>11. ~(E[k].type = "probe_span" /\ E[h].type = "probe_result")
    BY <1>6, <1>7
  <1> QED BY <1>3, <1>8, <1>9, <1>10, <1>11

(* A record tells of every probe that reported.                            *)
LEMMA EachIsTold ==
  ASSUME NEW s \in Scans, NEW g, NEW L, Fits(L, s, g), Leads(L, s),
         NEW order, \A i \in Index : order[i] = s.order[i], NEW i \in Reported(s)
  PROVE  \E p \in Held(L) : Tells(L, order, s, p, i)
  <1> DEFINE N == LineCount(s, g)
  <1>0. /\ N \in Nat /\ g \in {0, 1} /\ RowCount(s) \in Nat /\ SpanCount(s) \in Nat /\ i \in Index
        /\ N = 3 + g + RowCount(s) + SpanCount(s)
    BY SpannedIs, ScanIs DEF LineCount, Fits
  <1>1. IsListOf(L, N) /\ Begins(L, L, N)
    BY DEF Fits, Begins
  <1> HIDE DEF N
  <1>2. CASE s.outcome[i] \notin Spanned(s)
    <2>1. PICK j \in 1 .. RowCount(s) : Rows(s)[j] = i
      BY <1>2, SpannedIs DEF Alone
    <2> DEFINE k == 2 + j
               p == <<k, <<0, 0>>>>
    <2>2. k \in 1 .. N /\ IsRow(L[k], s, i)
      BY <1>0, <2>1 DEF Fits
    <2> HIDE DEF k
    <2>3. p \in Held(L)
      <3>1. <<0, 0>> \in Entries(L[k])
        BY <2>2 DEF Entries, IsRow
      <3> QED BY <1>1, <2>2, <3>1, InHeld
    <2>4. Tells(L, order, s, p, i)
      BY <2>2 DEF Tells, PlaceAt, IsRow
    <2> QED BY <2>3, <2>4
  <1>3. CASE s.outcome[i] \in Spanned(s)
    <2> DEFINE state == s.outcome[i]
               raw == IF s.version >= 2 THEN i ELSE s.order[i]
               S == Raw(s, state)
    <2>1. PICK j \in 1 .. SpanCount(s) : Spans(s)[j] = state
      BY <1>3, SpannedIs
    <2> DEFINE k == 2 + g + RowCount(s) + j
    <2>2. k \in 1 .. N /\ k \in 3 .. N /\ IsSpan(L[k], s, state) /\ SpanCount(s) # 0
      BY <1>0, <2>1 DEF Fits
    <2>3. i \in InState(s, state) /\ raw \in S /\ S \in SUBSET Index
      BY ScanIs DEF InState, Raw
    <2> HIDE DEF state, raw, S, k
    <2>4. PICK r \in DOMAIN Runs(S) : raw \in Runs(S)[r][1] .. Runs(S)[r][2]
      BY <2>3, SpanRanges
    <2> DEFINE p == <<k, <<r, raw>>>>
    <2>5. L[k].ranges = Runs(S) /\ L[k].type = "probe_span" /\ L[k].state = state
      BY <2>2 DEF IsSpan, S
    <2>6. <<r, raw>> \in Entries(L[k])
      <3>1. <<r, raw>> \in Expansion(L[k].ranges)
        BY <2>4, <2>5, InExpansion
      <3> QED BY <2>5, <3>1 DEF Entries
    <2>7. p \in Held(L)
      BY <1>1, <2>2, <2>6, InHeld
    <2>8. PICK h \in InState(s, state) :
            /\ PlaceIn(L, order, k, raw) = s.order[h]
            /\ raw = IF s.version >= 2 THEN h ELSE s.order[h]
      <3>1. N \in 0 .. N
        BY <1>0
      <3> QED BY <1>1, <2>2, <2>3, <3>1, RawLeads DEF N, S
    <2>9. h = i
      <3>1. h \in Index /\ (IF s.version >= 2 THEN h ELSE s.order[h])
            = (IF s.version >= 2 THEN i ELSE s.order[i])
        BY <2>8, ScanIs DEF raw
      <3> QED BY <1>0, <3>1, ScanIs
    <2>10. Tells(L, order, s, p, i)
      BY <2>5, <2>8, <2>9 DEF Tells, PlaceAt, raw, state
    <2> QED BY <2>7, <2>10
  <1> QED BY <1>2, <1>3

-----------------------------------------------------------------------------
(* What the walk answers.                                                  *)

(* Finitely many lines of finitely many results hold finitely many.        *)
LEMMA HeldIsFinite ==
  ASSUME NEW E, NEW n, IsListOf(E, n), \A k \in 1 .. n : IsFiniteSet(Entries(E[k]))
  PROVE  IsFiniteSet(Held(E)) /\ Cardinality(Held(E)) \in Nat
  <1> DEFINE part(k) == {k} \X Entries(E[k])
             f == [k \in 1 .. n |-> part(k)]
             parts == {f[k] : k \in 1 .. n}
  <1>0. n \in Nat /\ DOMAIN E = 1 .. n
    BY DEF IsListOf
  <1>1. IsFiniteSet(parts)
    <2>1. f \in [1 .. n -> {part(k) : k \in 1 .. n}]
      OBVIOUS
    <2>2. IsFiniteSet(1 .. n)
      BY <1>0, FS_Interval
    <2> HIDE DEF f, part
    <2> QED BY <2>1, <2>2, ValuesAreFinite
  <1>2. \A x \in parts : IsFiniteSet(x)
    <2>1. ASSUME NEW k \in 1 .. n PROVE IsFiniteSet(part(k))
      <3>1. IsFiniteSet({k}) /\ IsFiniteSet(Entries(E[k]))
        BY FS_Singleton
      <3> QED BY <3>1, FS_Product
    <2>2. \A k \in 1 .. n : f[k] = part(k)
      OBVIOUS
    <2> HIDE DEF f, part
    <2> QED BY <2>1, <2>2
  <1>3. Held(E) = UNION parts
    BY <1>0 DEF Held
  <1> HIDE DEF parts
  <1>4. IsFiniteSet(Held(E))
    BY <1>1, <1>2, <1>3, FS_UNION
  <1> QED BY <1>4, FS_CardinalityType

(* A row holds one result, a span as many as it counts, other lines none.  *)
LEMMA EntriesOfScan ==
  ASSUME NEW s \in Scans, NEW g, NEW L, Fits(L, s, g), NEW k \in 1 .. LineCount(s, g)
  PROVE  /\ IsFiniteSet(Entries(L[k]))
         /\ L[k].type = "probe_result" => Cardinality(Entries(L[k])) = 1
         /\ L[k].type = "probe_span" => Cardinality(Entries(L[k])) = L[k].count
         /\ L[k].type \notin {"probe_result", "probe_span"} => Entries(L[k]) = {}
  <1>1. CASE L[k].type = "probe_result"
    <2>1. Entries(L[k]) = {<<0, 0>>}
      BY <1>1 DEF Entries
    <2> QED BY <1>1, <2>1, FS_Singleton
  <1>2. CASE L[k].type = "probe_span"
    <2>1. PICK j \in 1 .. SpanCount(s) : IsSpan(L[k], s, Spans(s)[j])
      BY <1>2, LineKinds
    <2> DEFINE state == Spans(s)[j]
               S == Raw(s, state)
    <2>2. Entries(L[k]) = Expansion(Runs(S)) /\ L[k].count = Cardinality(InState(s, state))
      BY <1>2, <2>1 DEF Entries, IsSpan
    <2>3. S \in SUBSET Index /\ InState(s, state) \in SUBSET Index
      BY ScanIs
    <2>4. Cardinality(S) = Cardinality(InState(s, state))
      <3>1. CASE s.version >= 2
        BY <3>1 DEF Raw
      <3>2. CASE ~(s.version >= 2)
        <4> DEFINE f == [i \in InState(s, state) |-> s.order[i]]
        <4>1. S = {s.order[i] : i \in InState(s, state)}
          BY <3>2 DEF Raw
        <4>2. f \in [InState(s, state) -> S]
          BY <4>1
        <4>3. \A x, y \in InState(s, state) : f[x] = f[y] => x = y
          BY <2>3, ScanIs
        <4>4. \A y \in S : \E x \in InState(s, state) : f[x] = y
          BY <4>1
        <4>5. IsFiniteSet(InState(s, state))
          BY <2>3, PartsAreFinite
        <4> HIDE DEF f, S
        <4> QED BY <4>2, <4>3, <4>4, <4>5, Matched
      <3> QED BY <3>1, <3>2
    <2> HIDE DEF S
    <2>5. IsFiniteSet(Expansion(Runs(S))) /\ Cardinality(Expansion(Runs(S))) = Cardinality(S)
      BY <2>3, SpanCovers
    <2> QED BY <1>2, <2>2, <2>4, <2>5
  <1>3. CASE L[k].type \notin {"probe_result", "probe_span"}
    <2>1. Entries(L[k]) = {}
      BY <1>3 DEF Entries
    <2> QED BY <1>3, <2>1, FS_EmptySet
  <1> QED BY <1>1, <1>2, <1>3

(* The beginning of a record is a list with finitely many results.         *)
LEMMA BeginsIsList ==
  ASSUME NEW s \in Scans, NEW g, NEW L, Fits(L, s, g),
         NEW n \in 0 .. LineCount(s, g), NEW E, Begins(E, L, n)
  PROVE  /\ IsListOf(E, n) /\ \A k \in 1 .. n : k \in 1 .. LineCount(s, g) /\ E[k] = L[k]
         /\ IsFiniteSet(Held(E)) /\ Cardinality(Held(E)) \in Nat
  <1>1. LineCount(s, g) \in Nat
    BY SpannedIs DEF LineCount, Fits
  <1>2. IsListOf(E, n) /\ \A k \in 1 .. n : k \in 1 .. LineCount(s, g) /\ E[k] = L[k]
    BY <1>1 DEF Begins
  <1>3. \A k \in 1 .. n : IsFiniteSet(Entries(E[k]))
    BY <1>2, EntriesOfScan
  <1> QED BY <1>2, <1>3, HeldIsFinite

(* The results as pairs of an endpoint and a state.                        *)
SeenIn(results) ==
  {<<<<results[p].host, results[p].port>>, results[p].state>> : p \in DOMAIN results}

TruthOf(s) == {<<At(s.mode, s.order[i]), s.outcome[i]>> : i \in Reported(s)}

(* Each result of the first lines of a record is one of the scan's, and    *)
(* every one of them is read.                                              *)
LEMMA WalkOfPart ==
  ASSUME NEW s \in Scans, NEW g, NEW L, Fits(L, s, g), Leads(L, s),
         NEW n \in 0 .. LineCount(s, g), NEW E, Begins(E, L, n),
         NEW order, \A i \in Index : order[i] = s.order[i]
  PROVE  /\ DOMAIN Walk(E, order).results = Held(E)
         /\ SeenIn(Walk(E, order).results) \subseteq TruthOf(s)
         /\ \A p \in Held(E) : Walk(E, order).results[p] = ResultOf(E, order, p)
         /\ \A p \in Held(E) : Walk(E, order).results[p].state \in States
         /\ Walk(E, order).unreadable = 0
  <1> DEFINE R == Walk(E, order).results
  <1>1. R = [p \in {q \in Held(E) : HasResult(E, order, q)} |-> ResultOf(E, order, p)]
    BY DEF Walk
  <1>2. {q \in Held(E) : HasResult(E, order, q)} = Held(E)
    BY HeldTells
  <1>3. DOMAIN R = Held(E) /\ \A p \in Held(E) : R[p] = ResultOf(E, order, p)
    BY <1>1, <1>2
  <1> HIDE DEF R
  <1>4. ASSUME NEW p \in Held(E)
        PROVE  \E i \in Reported(s) :
                 /\ R[p].host = At(s.mode, s.order[i])[1] /\ R[p].port = At(s.mode, s.order[i])[2]
                 /\ R[p].state = s.outcome[i] /\ s.outcome[i] \in States
                 /\ <<R[p].host, R[p].port>> = At(s.mode, s.order[i])
    <2>1. PICK i \in Reported(s) : Tells(E, order, s, p, i)
      BY HeldTells
    <2>2. /\ R[p].host = At(s.mode, s.order[i])[1] /\ R[p].port = At(s.mode, s.order[i])[2]
          /\ R[p].state = s.outcome[i]
      BY <1>3, <2>1, HeldTells
    <2>3. s.order[i] \in Index /\ s.outcome[i] \in States
      BY ScanIs
    <2>4. At(s.mode, s.order[i]) = <<At(s.mode, s.order[i])[1], At(s.mode, s.order[i])[2]>>
      BY <2>3, EndpointsFit
    <2> QED BY <2>2, <2>3, <2>4
  <1>5. SeenIn(R) \subseteq TruthOf(s)
    <2> SUFFICES ASSUME NEW p \in Held(E)
                 PROVE  <<<<R[p].host, R[p].port>>, R[p].state>> \in TruthOf(s)
      BY <1>3 DEF SeenIn
    <2> QED BY <1>4 DEF TruthOf
  <1>6. \A p \in Held(E) : R[p].state \in States
    BY <1>4
  <1>7. Walk(E, order).unreadable = 0
    <2> DEFINE bad == {k \in DOMAIN E : E[k].type = "probe_result" /\ ~IsReadable(E[k])}
    <2>1. ASSUME NEW k \in bad PROVE FALSE
      <3>1. k \in 1 .. n /\ k \in 1 .. LineCount(s, g) /\ E[k] = L[k]
        BY BeginsIsList DEF IsListOf
      <3>2. L[k].type = "probe_result"
        BY <3>1
      <3>3. PICK j \in 1 .. RowCount(s) : IsRow(L[k], s, Rows(s)[j])
        BY <3>1, <3>2, LineKinds
      <3>4. s.order[Rows(s)[j]] \in Index
        BY SpannedIs, ScanIs
      <3>5. L[k].port \in 0 .. MaxPort
        BY <3>3, <3>4, EndpointsFit DEF IsRow
      <3> QED BY <3>1, <3>5 DEF IsReadable
    <2>2. bad = {}
      BY <2>1
    <2>3. Walk(E, order).unreadable = Cardinality(bad)
      BY DEF Walk
    <2> QED BY <2>2, <2>3, FS_EmptySet
  <1> QED BY <1>3, <1>5, <1>6, <1>7 DEF R

(* The truth holds each probe once.                                        *)
LEMMA TruthCounts ==
  ASSUME NEW s \in Scans
  PROVE  /\ IsFiniteSet(Reported(s)) /\ Cardinality(Reported(s)) \in Nat
         /\ Cardinality(TruthOf(s)) = Cardinality(Reported(s)) /\ IsFiniteSet(TruthOf(s))
         /\ \A state : Cardinality({t \in TruthOf(s) : t[2] = state})
                         = Cardinality(InState(s, state))
  <1> DEFINE f == [i \in Reported(s) |-> <<At(s.mode, s.order[i]), s.outcome[i]>>]
  <1>1. Reported(s) \in SUBSET Index /\ s.order \in [Index -> Index]
    BY ScanIs
  <1>2. \A x, y \in Reported(s) : f[x] = f[y] => x = y
    <2> SUFFICES ASSUME NEW x \in Reported(s), NEW y \in Reported(s), f[x] = f[y] PROVE x = y
      OBVIOUS
    <2>1. s.order[x] \in Index /\ s.order[y] \in Index /\ x \in Index /\ y \in Index
      BY <1>1
    <2>2. At(s.mode, s.order[x]) = At(s.mode, s.order[y])
      OBVIOUS
    <2>3. s.order[x] = s.order[y]
      BY <2>1, <2>2, EndpointsDiffer
    <2> QED BY <2>1, <2>3, ScanIs
  <1>3. f \in [Reported(s) -> TruthOf(s)] /\ \A y \in TruthOf(s) : \E x \in Reported(s) : f[x] = y
    BY DEF TruthOf
  <1>4. \A i \in Reported(s) : f[i][2] = s.outcome[i]
    OBVIOUS
  <1> HIDE DEF f
  <1>5. IsFiniteSet(Reported(s)) /\ Cardinality(Reported(s)) \in Nat
    BY <1>1, PartsAreFinite
  <1>6. Cardinality(TruthOf(s)) = Cardinality(Reported(s)) /\ IsFiniteSet(TruthOf(s))
    BY <1>2, <1>3, <1>5, Matched
  <1>7. ASSUME NEW state
        PROVE  Cardinality({t \in TruthOf(s) : t[2] = state}) = Cardinality(InState(s, state))
    <2> DEFINE T == {t \in TruthOf(s) : t[2] = state}
               S == InState(s, state)
               h == [i \in S |-> f[i]]
    <2>1. S \subseteq Reported(s) /\ \A i \in Reported(s) : i \in S <=> s.outcome[i] = state
      BY DEF InState
    <2>2. h \in [S -> T]
      BY <1>3, <1>4, <2>1
    <2>3. \A x, y \in S : h[x] = h[y] => x = y
      BY <1>2, <2>1
    <2>4. \A y \in T : \E x \in S : h[x] = y
      <3> SUFFICES ASSUME NEW y \in T PROVE \E x \in S : h[x] = y
        OBVIOUS
      <3>1. PICK x \in Reported(s) : f[x] = y
        BY <1>3
      <3> QED BY <1>4, <2>1, <3>1
    <2>5. IsFiniteSet(S)
      BY <1>5, <2>1, FS_Subset
    <2> HIDE DEF S, T, h
    <2>6. Cardinality(T) = Cardinality(S)
      BY <2>2, <2>3, <2>4, <2>5, Matched
    <2> QED BY <2>6 DEF S, T
  <1> QED BY <1>5, <1>6, <1>7

(* All of a record is the scan, and each result of it once.                *)
LEMMA WalkOfWhole ==
  ASSUME NEW s \in Scans, NEW g, NEW L, Fits(L, s, g), Leads(L, s),
         NEW order, \A i \in Index : order[i] = s.order[i]
  PROVE  /\ SeenIn(Walk(L, order).results) = TruthOf(s)
         /\ Cardinality(Held(L)) = Cardinality(Reported(s))
         /\ \A state \in States :
              Cardinality({p \in Held(L) : Walk(L, order).results[p].state = state})
                = Cardinality(InState(s, state))
  <1> DEFINE N == LineCount(s, g)
             R == Walk(L, order).results
             f == [i \in Reported(s) |-> CHOOSE p \in Held(L) : Tells(L, order, s, p, i)]
  <1>0. N \in Nat /\ N \in 0 .. N /\ Begins(L, L, N)
    <2>1. N \in Nat /\ IsListOf(L, N)
      BY SpannedIs DEF LineCount, Fits
    <2> QED BY <2>1 DEF Begins
  <1>1. /\ DOMAIN R = Held(L) /\ SeenIn(R) \subseteq TruthOf(s)
        /\ \A p \in Held(L) : R[p] = ResultOf(L, order, p)
    BY <1>0, WalkOfPart
  <1>2. ASSUME NEW i \in Reported(s) PROVE f[i] \in Held(L) /\ Tells(L, order, s, f[i], i)
    <2>1. \E p \in Held(L) : Tells(L, order, s, p, i)
      BY EachIsTold
    <2> QED BY <2>1
  <1>3. f \in [Reported(s) -> Held(L)]
    BY <1>2
  <1> HIDE DEF f, R, N
  <1>4. ASSUME NEW i \in Reported(s)
        PROVE  /\ R[f[i]].host = At(s.mode, s.order[i])[1]
               /\ R[f[i]].port = At(s.mode, s.order[i])[2]
               /\ R[f[i]].state = s.outcome[i]
    BY <1>0, <1>1, <1>2, HeldTells DEF N
  <1>5. ASSUME NEW x \in Reported(s), NEW y \in Reported(s), f[x] = f[y] PROVE x = y
    <2>1. s.order[x] = s.order[y]
      BY <1>2, <1>5 DEF Tells
    <2> QED BY <2>1, ScanIs
  <1>6. ASSUME NEW p \in Held(L) PROVE \E x \in Reported(s) : f[x] = p
    <2>1. PICK i \in Reported(s) : Tells(L, order, s, p, i)
      BY <1>0, HeldTells DEF N
    <2>2. f[i] = p
      BY <1>0, <1>2, <2>1, TellsOnce DEF N
    <2> QED BY <2>2
  <1>7. TruthOf(s) \subseteq SeenIn(R)
    <2> SUFFICES ASSUME NEW i \in Reported(s)
                 PROVE  <<At(s.mode, s.order[i]), s.outcome[i]>> \in SeenIn(R)
      BY DEF TruthOf
    <2>1. s.order[i] \in Index
      BY ScanIs
    <2>2. At(s.mode, s.order[i]) = <<R[f[i]].host, R[f[i]].port>>
      BY <1>4, <2>1, EndpointsFit
    <2>3. f[i] \in DOMAIN R
      BY <1>1, <1>3
    <2> QED BY <1>4, <2>2, <2>3 DEF SeenIn
  <1>8. IsFiniteSet(Reported(s))
    BY TruthCounts
  <1>9. Cardinality(Held(L)) = Cardinality(Reported(s))
    BY <1>3, <1>5, <1>6, <1>8, Matched
  <1>10. ASSUME NEW state \in States
         PROVE  Cardinality({p \in Held(L) : R[p].state = state}) = Cardinality(InState(s, state))
    <2> DEFINE T == {p \in Held(L) : R[p].state = state}
               S == InState(s, state)
               h == [i \in S |-> f[i]]
    <2>1. S \subseteq Reported(s) /\ \A i \in Reported(s) : i \in S <=> s.outcome[i] = state
      BY DEF InState
    <2>2. h \in [S -> T]
      BY <1>3, <1>4, <2>1
    <2>3. \A x, y \in S : h[x] = h[y] => x = y
      BY <1>5, <2>1
    <2>4. \A y \in T : \E x \in S : h[x] = y
      <3> SUFFICES ASSUME NEW y \in T PROVE \E x \in S : h[x] = y
        OBVIOUS
      <3>1. PICK x \in Reported(s) : f[x] = y
        BY <1>6
      <3> QED BY <1>4, <2>1, <3>1
    <2>5. IsFiniteSet(S)
      BY <1>8, <2>1, FS_Subset
    <2> HIDE DEF S, T, h
    <2>6. Cardinality(T) = Cardinality(S)
      BY <2>2, <2>3, <2>4, <2>5, Matched
    <2> QED BY <2>6 DEF S, T
  <1> QED BY <1>1, <1>7, <1>9, <1>10 DEF R

-----------------------------------------------------------------------------
(* The checks of one line.                                                 *)

(* What check_values finds in an event.                                    *)
Values(plan, e) ==
  Failed([ts |-> ~e.ts, credential |-> e.secret])
    \union CASE e.type = "probe_result" -> CheckProbeRow(plan, e)
             [] e.type = "probe_span"   -> CheckSpanRow(plan, e)
             [] OTHER -> {}

(* check_values adds what it finds to the problems.                        *)
LEMMA CheckIsValues ==
  ASSUME NEW w, NEW e
  PROVE  CheckValues(w, e) = Problem(w, Values(w.planned, e))
  BY DEF CheckValues, Values

(* No bad kind, no problem.                                                *)
LEMMA NoneFailed ==
  ASSUME NEW bad, \A kind \in DOMAIN bad : ~bad[kind]
  PROVE  Failed(bad) = {}
  BY DEF Failed

(* A bad kind is a problem.                                                *)
LEMMA OneFailed ==
  ASSUME NEW bad, NEW kind \in DOMAIN bad, bad[kind]
  PROVE  kind \in Failed(bad)
  BY DEF Failed

(* The sizes of two sets apart add up.                                     *)
LEMMA DisjointSum ==
  ASSUME NEW S, NEW T, IsFiniteSet(S), IsFiniteSet(T), S \intersect T = {}
  PROVE  /\ IsFiniteSet(S \union T)
         /\ Cardinality(S \union T) = Cardinality(S) + Cardinality(T)
         /\ Cardinality(S) \in Nat /\ Cardinality(T) \in Nat
  <1>1. Cardinality(S \intersect T) = 0
    BY FS_EmptySet
  <1>2. /\ IsFiniteSet(S \union T)
        /\ Cardinality(S \union T) = Cardinality(S) + Cardinality(T) - Cardinality(S \intersect T)
    BY FS_Union
  <1>3. Cardinality(S) \in Nat /\ Cardinality(T) \in Nat
    BY FS_CardinalityType
  <1> QED BY <1>1, <1>2, <1>3

(* The envelope emit writes is well formed.                                *)
LEMMA EnvelopePasses ==
  ASSUME NEW e, IsWhose(e)
  PROVE  Failed([ts |-> ~e.ts, credential |-> e.secret]) = {}
  <1>1. [ts |-> ~e.ts, credential |-> e.secret] = [ts |-> FALSE, credential |-> FALSE]
    BY DEF IsWhose
  <1>2. Failed([ts |-> FALSE, credential |-> FALSE]) = {}
    BY DEF Failed
  <1> QED BY <1>1, <1>2

(* A probe's own row passes.                                               *)
LEMMA RowPasses ==
  ASSUME NEW s \in Scans, NEW i \in Alone(s), NEW e, IsWhose(e), IsRow(e, s, i)
  PROVE  Values(Planned, e) = {}
  <1> DEFINE state == s.outcome[i]
  <1>1. i \in Index /\ state \in States /\ s.order[i] \in Index
    BY ScanIs, SpannedIs
  <1> HIDE DEF state
  <1>2. e.port \in 1 .. MaxPort
    BY <1>1, EndpointsFit DEF IsRow
  <1>3. e.state \in States /\ e.source \in Sources
    BY <1>1 DEF IsRow, state, SourceOf, Sources, States
  <1>4. ~(e.attempts \in {None, 0} \/ Len(e.attemptStates) # e.attempts)
    BY DEF IsRow, None
  <1>5. ~ \E k \in DOMAIN e.attemptStates : e.attemptStates[k] \notin States
    <2>1. e.attemptStates = <<state>>
      BY DEF IsRow, state
    <2> QED BY <1>1, <2>1
  <1>6. ~(Planned # None /\ e.index >= Planned)
    <2>1. e.index = s.order[i] /\ e.index \in Nat /\ e.index < Planned /\ Planned \in Nat
      BY <1>1, PlanIs DEF IsRow
    <2> QED BY <2>1
  <1>7. ~CheckTimings(e.timing)
    BY DEF IsRow, CheckTimings
  <1>8. e.protocol = "tcp" /\ e.type = "probe_result"
    BY DEF IsRow
  <1>9. CheckProbeRow(Planned, e) = {}
    <2>1. /\ (e.port \notin 1 .. MaxPort) = FALSE
          /\ (e.state \notin States) = FALSE /\ (e.source \notin Sources) = FALSE
          /\ (e.protocol # "tcp") = FALSE
          /\ (e.attempts \in {None, 0} \/ Len(e.attemptStates) # e.attempts) = FALSE
          /\ (\E k \in DOMAIN e.attemptStates : e.attemptStates[k] \notin States) = FALSE
          /\ (Planned # None /\ e.index >= Planned) = FALSE
          /\ CheckTimings(e.timing) = FALSE
      BY <1>2, <1>3, <1>4, <1>5, <1>6, <1>7, <1>8
    <2>2. CheckProbeRow(Planned, e) =
            Failed([port |-> FALSE, state |-> FALSE, source |-> FALSE, protocol |-> FALSE,
                    attempts |-> FALSE, attempt_states |-> FALSE, probe_index |-> FALSE,
                    timing |-> FALSE])
      BY <2>1, Zenon DEF CheckProbeRow
    <2> QED BY <2>2 DEF Failed
  <1> QED BY <1>8, <1>9, EnvelopePasses DEF Values

(* Maximal runs in order are no bad ranges.                                *)
LEMMA NoBadRange ==
  ASSUME NEW S \in SUBSET Index
  PROVE  \A k \in DOMAIN Runs(S) : ~BadRange(Planned, Runs(S), k)
  <1> SUFFICES ASSUME NEW k \in DOMAIN Runs(S) PROVE ~BadRange(Planned, Runs(S), k)
    OBVIOUS
  <1>1. /\ Runs(S)[k] \in Nat \X Nat
        /\ Runs(S)[k][1] <= Runs(S)[k][2] /\ Runs(S)[k][2] < Planned
        /\ k > 1 => Runs(S)[k - 1][2] < Runs(S)[k][1]
    BY SpanRanges
  <1>2. Runs(S)[k][1] \in Nat /\ Runs(S)[k][2] \in Nat /\ Planned \in Nat
    BY <1>1, PlanIs
  <1>3. k > 1 => Runs(S)[k - 1][2] \in Nat
    <2> SUFFICES ASSUME k > 1 PROVE Runs(S)[k - 1][2] \in Nat
      OBVIOUS
    <2>1. k - 1 \in DOMAIN Runs(S)
      BY SpanRanges
    <2>2. Runs(S)[k - 1] \in Nat \X Nat
      BY <2>1, SpanRanges
    <2> QED BY <2>2
  <1> QED BY <1>1, <1>2, <1>3 DEF BadRange

(* A span's ranges cover as many indices as it counts.                     *)
LEMMA SpanHolds ==
  ASSUME NEW s \in Scans, NEW state \in Spanned(s), NEW e, IsSpan(e, s, state)
  PROVE  /\ Cardinality(Expansion(e.ranges)) = e.count
         /\ e.count \in Nat /\ e.count > 0
         /\ \A k \in DOMAIN e.ranges : ~BadRange(Planned, e.ranges, k)
  <1> DEFINE S == Raw(s, state)
             T == InState(s, state)
  <1>1. S \in SUBSET Index /\ T \in SUBSET Index /\ T # {}
    BY ScanIs, SpannedIs
  <1>2. Cardinality(S) = Cardinality(T)
    <2>1. CASE s.version >= 2
      BY <2>1 DEF Raw
    <2>2. CASE ~(s.version >= 2)
      <3> DEFINE f == [i \in T |-> s.order[i]]
      <3>1. S = {s.order[i] : i \in T}
        BY <2>2 DEF Raw
      <3>2. f \in [T -> S]
        BY <3>1
      <3>3. \A x, y \in T : f[x] = f[y] => x = y
        BY <1>1, ScanIs
      <3>4. \A y \in S : \E x \in T : f[x] = y
        BY <3>1
      <3>5. IsFiniteSet(T)
        BY <1>1, PartsAreFinite
      <3> HIDE DEF f, S, T
      <3> QED BY <3>2, <3>3, <3>4, <3>5, Matched
    <2> QED BY <2>1, <2>2
  <1>3. e.ranges = Runs(S) /\ e.count = Cardinality(T)
    BY DEF IsSpan
  <1> HIDE DEF S, T
  <1>4. Cardinality(Expansion(Runs(S))) = Cardinality(S)
    BY <1>1, SpanCovers
  <1>5. Cardinality(T) \in Nat /\ Cardinality(T) # 0
    <2>1. IsFiniteSet(T) /\ Cardinality(T) \in Nat
      BY <1>1, PartsAreFinite
    <2> QED BY <1>1, <2>1, FS_EmptySet
  <1>6. \A k \in DOMAIN e.ranges : ~BadRange(Planned, e.ranges, k)
    BY <1>1, <1>3, NoBadRange
  <1> QED BY <1>2, <1>3, <1>4, <1>5, <1>6

(* A span of the scan passes.                                              *)
LEMMA SpanPasses ==
  ASSUME NEW s \in Scans, NEW state \in Spanned(s), NEW e, IsWhose(e), IsSpan(e, s, state)
  PROVE  Values(Planned, e) = {}
  <1>1. /\ Cardinality(Expansion(e.ranges)) = e.count
        /\ e.count \notin {None, 0}
        /\ ~ \E k \in DOMAIN e.ranges : BadRange(Planned, e.ranges, k)
    BY SpanHolds DEF None
  <1>2. e.state \in States /\ e.source \in Sources /\ e.type = "probe_span"
    <2>1. state \in States
      BY SpannedIs
    <2> QED BY <2>1 DEF IsSpan, SourceOf, Sources, States
  <1>3. e.timing.min <= e.timing.mean /\ e.timing.mean <= e.timing.max
    BY DEF IsSpan
  <1>4. CheckSpanRow(Planned, e) = {}
    <2> DEFINE bad == \E k \in DOMAIN e.ranges : BadRange(Planned, e.ranges, k)
               covered == Cardinality(Expansion(e.ranges))
    <2>1. /\ (e.state \notin States) = FALSE /\ (e.source \notin Sources) = FALSE
          /\ (e.count \in {None, 0}) = FALSE
          /\ (e.count # None /\ bad) = FALSE
          /\ (e.count # None /\ ~bad /\ covered # e.count) = FALSE
          /\ (e.count # None /\ ~bad
                /\ ~(e.timing.min <= e.timing.mean /\ e.timing.mean <= e.timing.max)) = FALSE
      BY <1>1, <1>2, <1>3
    <2>2. CheckSpanRow(Planned, e) =
            Failed([state |-> FALSE, source |-> FALSE, count |-> FALSE, ranges |-> FALSE,
                    coverage |-> FALSE, timing |-> FALSE])
      BY <2>1, Zenon DEF CheckSpanRow
    <2> QED BY <2>2 DEF Failed
  <1> QED BY <1>2, <1>4, EnvelopePasses DEF Values

(* Events without values pass.                                             *)
LEMMA OthersPass ==
  ASSUME NEW plan, NEW e, IsWhose(e), e.type \notin {"probe_result", "probe_span"}
  PROVE  Values(plan, e) = {}
  BY EnvelopePasses DEF Values

-----------------------------------------------------------------------------
(* The sums of the terminal event.                                         *)

(* The counts of a terminal event add up, and are those of the outcomes.   *)
LEMMA CountsAgree ==
  ASSUME NEW s \in Scans
  PROVE  /\ Counts(s).completed = Cardinality(Reported(s))
         /\ Answers(Counts(s)) = Counts(s).completed
         /\ Counts(s).planned = Counts(s).completed + Counts(s).abandoned + Counts(s).not_started
         /\ \A f \in DOMAIN Counts(s) : Counts(s)[f] \in Int
         /\ DOMAIN Counts(s) = {"planned", "completed", "abandoned", "not_started", "open",
                                "closed", "filtered", "error"}
         /\ \A state \in States : Counts(s)[state] = Cardinality(InState(s, state))
  <1> DEFINE a == InState(s, "open")
             b == InState(s, "closed")
             c == InState(s, "filtered")
             d == InState(s, "error")
             C == Counts(s)
  <1>1. C = [planned |-> Planned, completed |-> Cardinality(Reported(s)),
             abandoned |-> s.next - Cardinality(Reported(s)), not_started |-> Planned - s.next,
             open |-> Cardinality(a), closed |-> Cardinality(b),
             filtered |-> Cardinality(c), error |-> Cardinality(d)]
    BY DEF Counts, States
  <1>2. /\ Reported(s) \in SUBSET Index /\ a \in SUBSET Index /\ b \in SUBSET Index
        /\ c \in SUBSET Index /\ d \in SUBSET Index
    BY ScanIs
  <1>3. Reported(s) = ((a \union b) \union c) \union d
    BY ScanIs DEF InState, States
  <1>4. /\ a \intersect b = {} /\ (a \union b) \intersect c = {}
        /\ ((a \union b) \union c) \intersect d = {}
    BY DEF InState
  <1>5. /\ IsFiniteSet(a) /\ IsFiniteSet(b) /\ IsFiniteSet(c) /\ IsFiniteSet(d)
        /\ Cardinality(a) \in Nat /\ Cardinality(b) \in Nat
        /\ Cardinality(c) \in Nat /\ Cardinality(d) \in Nat /\ Cardinality(Reported(s)) \in Nat
    BY <1>2, PartsAreFinite
  <1> HIDE DEF a, b, c, d
  <1>6. IsFiniteSet(a \union b) /\ Cardinality(a \union b) = Cardinality(a) + Cardinality(b)
    BY <1>4, <1>5, DisjointSum
  <1>7. /\ IsFiniteSet((a \union b) \union c)
        /\ Cardinality((a \union b) \union c) = Cardinality(a) + Cardinality(b) + Cardinality(c)
    BY <1>4, <1>5, <1>6, DisjointSum
  <1>8. Cardinality(Reported(s)) = Cardinality(a) + Cardinality(b) + Cardinality(c) + Cardinality(d)
    BY <1>3, <1>4, <1>5, <1>7, DisjointSum
  <1>9. s.next \in Int /\ Planned \in Int
    BY ScanIs, PlanIs
  <1> HIDE DEF C
  <1>10. /\ C.completed = Cardinality(Reported(s))
         /\ C.planned = Planned /\ C.abandoned = s.next - Cardinality(Reported(s))
         /\ C.not_started = Planned - s.next
         /\ C.open = Cardinality(a) /\ C.closed = Cardinality(b)
         /\ C.filtered = Cardinality(c) /\ C.error = Cardinality(d)
         /\ C["open"] = Cardinality(a) /\ C["closed"] = Cardinality(b)
         /\ C["filtered"] = Cardinality(c) /\ C["error"] = Cardinality(d)
         /\ DOMAIN C = {"planned", "completed", "abandoned", "not_started", "open",
                        "closed", "filtered", "error"}
    BY <1>1
  <1>11. \A f \in DOMAIN C : C[f] \in Int
    BY <1>5, <1>9, <1>10
  <1>12. Answers(C) = C.completed
    BY <1>5, <1>8, <1>10 DEF Answers
  <1>13. C.planned = C.completed + C.abandoned + C.not_started
    BY <1>5, <1>9, <1>10
  <1>14. \A state \in States : C[state] = Cardinality(InState(s, state))
    BY <1>10 DEF a, b, c, d, States
  <1> QED BY <1>10, <1>11, <1>12, <1>13, <1>14 DEF C

-----------------------------------------------------------------------------
(* A value that is not the event's own is found out.                       *)

Caught(x, plan) == x.id # "scan" \/ x.seq = None \/ Values(plan, x) # {}

(* A wrong timestamp or an exposed credential is a problem.                *)
LEMMA EnvelopeCaught ==
  ASSUME NEW x, NEW plan, x.ts = FALSE \/ x.secret = TRUE
  PROVE  Values(plan, x) # {}
  <1> DEFINE bad == [ts |-> ~x.ts, credential |-> x.secret]
  <1>1. CASE x.ts = FALSE
    <2>1. "ts" \in DOMAIN bad /\ bad["ts"]
      BY <1>1
    <2> HIDE DEF bad
    <2>2. "ts" \in Failed(bad)
      BY <2>1, OneFailed
    <2> QED BY <2>2 DEF Values, bad
  <1>2. CASE x.secret = TRUE
    <2>1. "credential" \in DOMAIN bad /\ bad["credential"]
      BY <1>2
    <2> HIDE DEF bad
    <2>2. "credential" \in Failed(bad)
      BY <2>1, OneFailed
    <2> QED BY <2>2 DEF Values, bad
  <1> QED BY <1>1, <1>2

EnvelopeHarm(e) ==
  {[e EXCEPT !.id = "other"], [e EXCEPT !.seq = None], [e EXCEPT !.ts = FALSE],
   [e EXCEPT !.secret = TRUE]}

(* A harmed envelope leaves the body, and is found out.                    *)
LEMMA EnvelopeHarmed ==
  ASSUME NEW e, NEW names, Fields(e, names), NEW x \in EnvelopeHarm(e), NEW plan
  PROVE  /\ \A f \in names : f \notin EnvelopeFields => x[f] = e[f]
         /\ Caught(x, plan)
  <1>1. {"id", "seq", "ts", "secret"} \subseteq DOMAIN e /\ names \subseteq DOMAIN e
    BY DEF Fields, EnvelopeFields
  <1>2. \A f \in names : f \notin EnvelopeFields => x[f] = e[f]
    BY <1>1 DEF EnvelopeHarm, EnvelopeFields
  <1>3. x.id = "other" \/ x.seq = None \/ x.ts = FALSE \/ x.secret = TRUE
    BY <1>1 DEF EnvelopeHarm
  <1> QED BY <1>2, <1>3, EnvelopeCaught DEF Caught

(* A misvalued row is found out.                                           *)
LEMMA RowHarmed ==
  ASSUME NEW s \in Scans, NEW i \in Alone(s), NEW e, IsRow(e, s, i), Fields(e, RowFields),
         NEW x \in MisvaluedRow(e)
  PROVE  x.type = "probe_result" /\ Values(Planned, x) # {}
  <1>0. /\ e.type = "probe_result" /\ DOMAIN e = EnvelopeFields \union RowFields
        /\ e.attempts = 1 /\ e.attemptStates = <<s.outcome[i]>>
    BY DEF IsRow, Fields
  <1>1. RowFields \subseteq DOMAIN e
    BY <1>0
  <1>2. x.type = "probe_result"
    <2>1. "type" \in DOMAIN e
      BY <1>1 DEF RowFields
    <2> QED BY <1>0, <2>1 DEF MisvaluedRow
  <1> DEFINE bad ==
         [port |-> x.port \notin 1 .. MaxPort, state |-> x.state \notin States,
          source |-> x.source \notin Sources, protocol |-> x.protocol # "tcp",
          attempts |-> x.attempts \in {None, 0} \/ Len(x.attemptStates) # x.attempts,
          attempt_states |-> \E k \in DOMAIN x.attemptStates : x.attemptStates[k] \notin States,
          probe_index |-> Planned # None /\ x.index >= Planned,
          timing |-> CheckTimings(x.timing)]
  <1>3. CheckProbeRow(Planned, x) = Failed(bad)
    BY DEF CheckProbeRow
  <1>4. Failed(bad) \subseteq Values(Planned, x)
    BY <1>2, <1>3 DEF Values
  <1>5. \/ x.port \in {None, 0, 65616} \/ x.state = "banana" \/ x.source = "guess"
        \/ x.protocol = "udp" \/ x.attempts = 0
        \/ (x.attempts = 2 /\ x.attemptStates = e.attemptStates)
        \/ x.attemptStates = <<"banana">> \/ x.index = Planned
        \/ x.timing = [connect |-> 1] \/ x.timing = [total |-> -2]
    <2>1. \/ \E p \in {None, 0, 65616} : x = [e EXCEPT !.port = p]
          \/ x = [e EXCEPT !.state = "banana"]
          \/ x = [e EXCEPT !.source = "guess"]
          \/ x = [e EXCEPT !.protocol = "udp"]
          \/ x = [e EXCEPT !.attempts = 0]
          \/ x = [e EXCEPT !.attempts = 2]
          \/ x = [e EXCEPT !.attemptStates = <<"banana">>]
          \/ x = [e EXCEPT !.index = Planned]
          \/ x = [e EXCEPT !.timing = [connect |-> 1]]
          \/ x = [e EXCEPT !.timing = [total |-> -2]]
      BY <1>0 DEF MisvaluedRow
    <2>2. {"port", "state", "source", "protocol", "attempts", "attemptStates", "index", "timing"}
            \subseteq DOMAIN e
      BY <1>1 DEF RowFields
    <2> QED BY <2>1, <2>2
  <1>6. \/ x.port \notin 1 .. MaxPort \/ x.state \notin States \/ x.source \notin Sources
        \/ x.protocol # "tcp"
        \/ (x.attempts \in {None, 0} \/ Len(x.attemptStates) # x.attempts)
        \/ (\E k \in DOMAIN x.attemptStates : x.attemptStates[k] \notin States)
        \/ (Planned # None /\ x.index >= Planned)
        \/ CheckTimings(x.timing)
    <2>1. CASE x.port \in {None, 0, 65616}
      <3>1. None \notin 1 .. MaxPort
        BY DEF None, MaxPort
      <3>2. 0 \notin 1 .. MaxPort
        BY DEF MaxPort
      <3>3. 65616 \notin 1 .. MaxPort
        BY DEF MaxPort
      <3> QED BY <2>1, <3>1, <3>2, <3>3
    <2>2. CASE x.state = "banana" \/ x.source = "guess" \/ x.protocol = "udp"
      BY <2>2 DEF States, Sources
    <2>3. CASE x.attempts = 0
      BY <2>3
    <2>4. CASE x.attempts = 2 /\ x.attemptStates = e.attemptStates
      <3>1. Len(<<s.outcome[i]>>) = 1
        OBVIOUS
      <3>2. Len(x.attemptStates) = 1
        BY <1>0, <2>4, <3>1
      <3> QED BY <2>4, <3>2
    <2>5. CASE x.attemptStates = <<"banana">>
      <3>1. 1 \in DOMAIN x.attemptStates /\ x.attemptStates[1] = "banana"
        BY <2>5
      <3> QED BY <3>1 DEF States
    <2>6. CASE x.index = Planned
      BY <2>6, PlanIs DEF None
    <2>7. CASE x.timing = [connect |-> 1]
      <3>1. DOMAIN x.timing = {"connect"}
        BY <2>7
      <3> QED BY <3>1 DEF CheckTimings
    <2>8. CASE x.timing = [total |-> -2]
      <3>1. "total" \in DOMAIN x.timing /\ x.timing["total"] < 0
        BY <2>8
      <3> QED BY <3>1 DEF CheckTimings
    <2> QED BY <1>5, <2>1, <2>2, <2>3, <2>4, <2>5, <2>6, <2>7, <2>8
  <1>7. \/ bad["port"] \/ bad["state"] \/ bad["source"] \/ bad["protocol"] \/ bad["attempts"]
        \/ bad["attempt_states"] \/ bad["probe_index"] \/ bad["timing"]
    BY <1>6, Zenon
  <1>8. DOMAIN bad = {"port", "state", "source", "protocol", "attempts", "attempt_states",
                      "probe_index", "timing"}
    OBVIOUS
  <1> HIDE DEF bad
  <1>9. Failed(bad) # {}
    BY <1>7, <1>8 DEF Failed
  <1> QED BY <1>2, <1>4, <1>9

(* Each rule of check_span_row, broken, is a problem.                      *)
LEMMA SpanCaught ==
  ASSUME NEW x, x.type = "probe_span",
         \/ x.state \notin States \/ x.source \notin Sources \/ x.count \in {None, 0}
         \/ (x.count # None /\ \E k \in DOMAIN x.ranges : BadRange(Planned, x.ranges, k))
         \/ (x.count # None /\ ~(\E k \in DOMAIN x.ranges : BadRange(Planned, x.ranges, k))
               /\ Cardinality(Expansion(x.ranges)) # x.count)
         \/ (x.count # None /\ ~(\E k \in DOMAIN x.ranges : BadRange(Planned, x.ranges, k))
               /\ ~(x.timing.min <= x.timing.mean /\ x.timing.mean <= x.timing.max))
  PROVE  Values(Planned, x) # {}
  <1> DEFINE wrong == \E k \in DOMAIN x.ranges : BadRange(Planned, x.ranges, k)
             bad == [state |-> x.state \notin States, source |-> x.source \notin Sources,
              count |-> x.count \in {None, 0},
              ranges |-> x.count # None /\ wrong,
              coverage |-> x.count # None /\ ~wrong /\ Cardinality(Expansion(x.ranges)) # x.count,
              timing |-> x.count # None /\ ~wrong
                           /\ ~(x.timing.min <= x.timing.mean /\ x.timing.mean <= x.timing.max)]
  <1>1. CheckSpanRow(Planned, x) = Failed(bad)
    BY DEF CheckSpanRow
  <1>2. Failed(bad) \subseteq Values(Planned, x)
    BY <1>1 DEF Values
  <1>3. \/ bad["state"] \/ bad["source"] \/ bad["count"] \/ bad["ranges"] \/ bad["coverage"]
        \/ bad["timing"]
    BY Zenon
  <1>4. DOMAIN bad = {"state", "source", "count", "ranges", "coverage", "timing"}
    OBVIOUS
  <1> HIDE DEF bad
  <1>5. Failed(bad) # {}
    BY <1>3, <1>4 DEF Failed
  <1> QED BY <1>2, <1>5

(* A misvalued span is found out.                                          *)
LEMMA SpanHarmed ==
  ASSUME NEW s \in Scans, NEW state \in Spanned(s), NEW e, IsSpan(e, s, state),
         Fields(e, SpanFields), NEW x \in MisvaluedSpan(e)
  PROVE  x.type = "probe_span" /\ Values(Planned, x) # {} /\ IsFiniteSet(Entries(x))
  <1> DEFINE S == Raw(s, state)
             R == Runs(S)
             n == Cardinality(MaximalRuns(S))
  <1>0. /\ e.type = "probe_span" /\ DOMAIN e = EnvelopeFields \union SpanFields
        /\ e.ranges = R /\ S \in SUBSET Index
    BY ScanIs DEF IsSpan, Fields
  <1>1. SpanFields \subseteq DOMAIN e
    BY <1>0
  <1>2. x.type = "probe_span"
    <2>1. "type" \in DOMAIN e
      BY <1>1 DEF SpanFields
    <2> QED BY <1>0, <2>1 DEF MisvaluedSpan
  <1>3. /\ Cardinality(Expansion(e.ranges)) = e.count /\ e.count \in Nat /\ e.count > 0
        /\ \A k \in DOMAIN e.ranges : ~BadRange(Planned, e.ranges, k)
    BY SpanHolds
  <1>4. /\ DOMAIN R = 1 .. n /\ n \in Nat
        /\ \A r \in DOMAIN R : R[r] \in Nat \X Nat /\ R[r][1] <= R[r][2]
    BY <1>0, SpanRanges
  <1>5. n > 0
    <2>1. Expansion(R) # {}
      BY <1>0, <1>3, FS_EmptySet
    <2>2. DOMAIN R # {}
      BY <2>1 DEF Expansion
    <2> QED BY <1>4, <2>2
  <1>6. IsListOf(R, n) /\ \A r \in 1 .. n : R[r][1] \in Int /\ R[r][2] \in Int
    <2>1. R \in [1 .. n -> MaximalRuns(S)]
      BY <1>0, RunsOf
    <2> HIDE DEF R, n
    <2>2. IsListOf(R, n)
      BY <1>4, <2>1 DEF IsListOf
    <2>3. \A r \in 1 .. n : R[r][1] \in Int /\ R[r][2] \in Int
      BY <1>4
    <2> QED BY <2>2, <2>3
  <1> HIDE DEF R, n, S
  <1>7. \/ x.count \in {None, 0} /\ x.ranges = e.ranges
        \/ x.count = e.count + 1 /\ x.ranges = e.ranges
        \/ x.state = "banana" /\ x.ranges = e.ranges
        \/ x.source = "guess" /\ x.ranges = e.ranges
        \/ x.ranges = Extended(R, Last(R)) /\ x.count = e.count
        \/ x.ranges = Extended(R, <<Planned, Planned>>) /\ x.count = e.count
        \/ x.ranges = <<<<1, 0>>>> /\ x.count = e.count
        \/ /\ x.timing = [min |-> 3, mean |-> 2, max |-> 1] /\ x.ranges = e.ranges
           /\ x.count = e.count
    <2>1. \/ \E c \in {None, 0, e.count + 1} : x = [e EXCEPT !.count = c]
          \/ x = [e EXCEPT !.state = "banana"]
          \/ x = [e EXCEPT !.source = "guess"]
          \/ \E ranges \in {Extended(R, Last(R)), Extended(R, <<Planned, Planned>>), <<<<1, 0>>>>} :
               x = [e EXCEPT !.ranges = ranges]
          \/ x = [e EXCEPT !.timing = [min |-> 3, mean |-> 2, max |-> 1]]
      BY <1>0 DEF MisvaluedSpan, Extended
    <2>2. {"count", "state", "source", "ranges", "timing"} \subseteq DOMAIN e
      BY <1>1 DEF SpanFields
    <2> QED BY <2>1, <2>2
  <1>8. Last(R) = R[n]
    <2>1. Len(R) = n
      BY <1>6, ListIsSequence
    <2> QED BY <2>1 DEF Last
  <1>9. CASE x.ranges = e.ranges
    <2>1. IsFiniteSet(DOMAIN R)
      BY <1>4, FS_Interval
    <2>2. IsFiniteSet(Expansion(x.ranges))
      BY <1>0, <1>4, <1>6, <1>9, <2>1, ExpansionIsFinite
    <2>3. IsFiniteSet(Entries(x))
      BY <1>2, <2>2 DEF Entries
    <2>4. Values(Planned, x) # {}
      <3>1. ~(\E k \in DOMAIN x.ranges : BadRange(Planned, x.ranges, k))
        BY <1>3, <1>9
      <3>2. CASE x.count \in {None, 0} \/ x.state = "banana" \/ x.source = "guess"
        BY <1>2, <3>2, SpanCaught DEF States, Sources
      <3>3. CASE x.count = e.count + 1
        <4>1. x.count # None /\ Cardinality(Expansion(x.ranges)) # x.count
          BY <1>3, <1>9, <3>3 DEF None
        <4> QED BY <1>2, <3>1, <4>1, SpanCaught
      <3>4. CASE x.timing = [min |-> 3, mean |-> 2, max |-> 1] /\ x.count = e.count
        <4>1. ~(x.timing.min <= x.timing.mean /\ x.timing.mean <= x.timing.max)
          BY <3>4
        <4>2. x.count # None
          BY <1>3, <3>4 DEF None
        <4> QED BY <1>2, <3>1, <4>1, <4>2, SpanCaught
      <3>5. CASE x.ranges = Extended(R, Last(R)) \/ x.ranges = Extended(R, <<Planned, Planned>>)
        <4>1. DOMAIN Extended(R, Last(R)) = 1 .. (n + 1)
              /\ DOMAIN Extended(R, <<Planned, Planned>>) = 1 .. (n + 1)
          BY <1>6, ListAppend DEF IsListOf
        <4>2. n + 1 \in 1 .. (n + 1) /\ n + 1 \notin 1 .. n
          BY <1>4
        <4> QED BY <1>0, <1>4, <1>9, <3>5, <4>1, <4>2
      <3>6. CASE x.ranges = <<<<1, 0>>>>
        <4>1. x.ranges[1] = <<1, 0>> /\ 1 \in DOMAIN R
          BY <1>4, <1>5, <3>6
        <4>2. R[1][1] <= R[1][2]
          BY <1>4, <4>1
        <4>3. ~(<<1, 0>>[1] <= <<1, 0>>[2])
          OBVIOUS
        <4> QED BY <1>0, <1>9, <4>1, <4>2, <4>3
      <3> QED BY <1>7, <3>2, <3>3, <3>4, <3>5, <3>6
    <2> QED BY <1>2, <2>3, <2>4
  <1>10. ASSUME NEW last, last = R[n] \/ last = <<Planned, Planned>>,
                x.ranges = Extended(R, last), x.count = e.count
         PROVE  Values(Planned, x) # {} /\ IsFiniteSet(Entries(x))
    <2> DEFINE k == n + 1
               X == x.ranges
    <2>0. k \in Nat /\ k > 1 /\ k - 1 = n /\ n \in 1 .. n /\ k \in 1 .. k /\ n \in 1 .. k
      BY <1>4, <1>5
    <2>1. IsListOf(X, k) /\ X[k] = last /\ \A r \in 1 .. n : X[r] = R[r]
      BY <1>6, <1>10, ListAppend
    <2>h. x.ranges = X /\ \A r \in 1 .. k : r = k \/ r \in 1 .. n
      BY <1>4
    <2> HIDE DEF k, X
    <2>2. k \in DOMAIN X /\ k > 1 /\ k - 1 = n /\ n \in 1 .. n /\ X[n] = R[n] /\ X[k] = last
          /\ DOMAIN X = 1 .. k
      BY <2>0, <2>1 DEF IsListOf
    <2>3. BadRange(Planned, X, k)
      <3>1. CASE last = R[n]
        <4>1. X[k][1] <= X[k - 1][2]
          BY <1>4, <2>2, <3>1
        <4> QED BY <2>2, <4>1 DEF BadRange
      <3>2. CASE last = <<Planned, Planned>>
        <4>1. X[k][2] >= Planned /\ Planned # None
          BY <2>2, <3>2, PlanIs DEF None
        <4> QED BY <4>1 DEF BadRange
      <3> QED BY <1>10, <3>1, <3>2
    <2>4. Values(Planned, x) # {}
      <3>1. x.count # None
        BY <1>3, <1>10 DEF None
      <3> QED BY <1>2, <2>2, <2>3, <3>1, SpanCaught DEF X
    <2>5. \A r \in 1 .. k : X[r][1] \in Int /\ X[r][2] \in Int
      <3>1. last[1] \in Int /\ last[2] \in Int
        BY <1>6, <1>10, <2>2, PlanIs
      <3>2. \A r \in 1 .. n : X[r] = R[r]
        BY <2>1
      <3>3. \A r \in 1 .. k : r = k \/ r \in 1 .. n
        BY <2>h
      <3> QED BY <1>6, <2>2, <3>1, <3>2, <3>3
    <2>6. IsFiniteSet(Expansion(X))
      <3>1. IsFiniteSet(1 .. k)
        BY <2>0, FS_Interval
      <3> QED BY <2>2, <2>5, <3>1, ExpansionIsFinite
    <2>7. IsFiniteSet(Entries(x))
      BY <1>2, <2>6 DEF Entries, X
    <2> QED BY <2>4, <2>7
  <1>11. CASE x.ranges = <<<<1, 0>>>> /\ x.count = e.count
    <2>1. DOMAIN x.ranges = 1 .. 1 /\ x.ranges[1] = <<1, 0>>
      BY <1>11
    <2>2. 1 \in DOMAIN x.ranges /\ x.ranges[1][1] = 1 /\ x.ranges[1][2] = 0
      BY <2>1
    <2>3. BadRange(Planned, x.ranges, 1)
      BY <2>2 DEF BadRange
    <2>4. Values(Planned, x) # {}
      <3>1. x.count # None
        BY <1>3, <1>11 DEF None
      <3> QED BY <1>2, <2>2, <2>3, <3>1, SpanCaught
    <2>5. IsFiniteSet(Expansion(x.ranges))
      <3>1. IsFiniteSet(DOMAIN x.ranges)
        <4>1. DOMAIN x.ranges = {1}
          BY <2>1
        <4> QED BY <4>1, FS_Singleton
      <3>2. \A r \in DOMAIN x.ranges : r = 1
        BY <2>1
      <3>3. \A r \in DOMAIN x.ranges : x.ranges[r][1] \in Int /\ x.ranges[r][2] \in Int
        BY <2>2, <3>2
      <3> QED BY <3>1, <3>3, ExpansionIsFinite
    <2>6. IsFiniteSet(Entries(x))
      BY <1>2, <2>5 DEF Entries
    <2> QED BY <1>2, <2>4, <2>6
  <1> QED BY <1>2, <1>7, <1>8, <1>9, <1>10, <1>11

-----------------------------------------------------------------------------
(* The Verifier after the first n lines.                                   *)

VerifierFields ==
  {"events", "bad", "first", "second", "id", "version", "lastSeq", "sequenceDone", "terminals",
   "terminalAt", "counts", "sawConfig", "planned", "seed", "probes", "spans", "spanProbes",
   "problems"}

HeadFields == {"events", "first", "second", "id", "version"}
OrderFields == {"lastSeq", "sequenceDone", "problems"}
SumFields == {"terminals", "terminalAt", "counts", "sawConfig", "planned", "seed", "probes",
              "spans", "spanProbes"}

(* What Counted changes.                                                   *)
LEMMA CountedIs ==
  ASSUME NEW w, DOMAIN w = VerifierFields, NEW e
  PROVE  LET o == Counted(w, e)
         IN  /\ DOMAIN o = VerifierFields
             /\ \A f \in VerifierFields \ HeadFields : o[f] = w[f]
             /\ o.events = w.events + 1
             /\ o.first = IF w.events = 0 THEN e.type ELSE w.first
             /\ o.second = IF w.events = 1 THEN e.type ELSE w.second
             /\ o.id = IF w.events = 0 THEN e.id ELSE w.id
             /\ o.version = IF w.events = 0 /\ e.type = "scan_started"
                              THEN e.version ELSE w.version
  BY DEF Counted, VerifierFields, HeadFields

(* Whether an event belongs to the scan and follows what came before.      *)
Follows(w, e) == e.id = w.id /\ e.seq # None /\ ~(e.seq <= w.lastSeq)

(* What Problem changes.                                                   *)
LEMMA ProblemIs ==
  ASSUME NEW w, DOMAIN w = VerifierFields, NEW kinds
  PROVE  LET o == Problem(w, kinds)
         IN  /\ DOMAIN o = VerifierFields /\ o.problems = w.problems \union kinds
             /\ \A f \in VerifierFields \ {"problems"} : o[f] = w[f]
  BY DEF Problem, VerifierFields

(* What CheckIdentity changes.                                             *)
LEMMA IdentityIs ==
  ASSUME NEW w, DOMAIN w = VerifierFields, NEW e
  PROVE  LET o == CheckIdentity(w, e)
         IN  /\ DOMAIN o = VerifierFields
             /\ \A f \in VerifierFields \ OrderFields : o[f] = w[f]
             /\ w.problems \subseteq o.problems
             /\ ~w.sequenceDone /\ Follows(w, e) =>
                  ~o.sequenceDone /\ o.problems = w.problems /\ o.lastSeq = e.seq
             /\ ~w.sequenceDone /\ ~Follows(w, e) => o.problems # {}
  <1> DEFINE o == CheckIdentity(w, e)
  <1>1. CASE w.sequenceDone
    <2>1. o = w
      BY <1>1 DEF CheckIdentity
    <2> QED BY <1>1, <2>1
  <1>2. CASE ~w.sequenceDone /\ e.id # w.id
    <2> DEFINE u == [w EXCEPT !.sequenceDone = TRUE]
    <2>1. o = Problem(u, {"scan_id"})
      BY <1>2 DEF CheckIdentity
    <2>2. DOMAIN u = VerifierFields /\ u.problems = w.problems
          /\ \A f \in VerifierFields \ OrderFields : u[f] = w[f]
      BY DEF VerifierFields, OrderFields
    <2> HIDE DEF u, o
    <2>3. /\ DOMAIN o = VerifierFields /\ o.problems = u.problems \union {"scan_id"}
          /\ \A f \in VerifierFields \ {"problems"} : o[f] = u[f]
      BY <2>1, <2>2, ProblemIs
    <2>4. ~Follows(w, e)
      BY <1>2 DEF Follows
    <2> QED BY <1>2, <2>2, <2>3, <2>4 DEF OrderFields, o
  <1>3. CASE ~w.sequenceDone /\ e.id = w.id /\ e.seq = None
    <2> DEFINE kinds == {"no seq"}
    <2>1. o = Problem(w, kinds)
      BY <1>3 DEF CheckIdentity
    <2>2. kinds # {}
      OBVIOUS
    <2> HIDE DEF o, kinds
    <2>3. /\ DOMAIN o = VerifierFields /\ o.problems = w.problems \union kinds
          /\ \A f \in VerifierFields \ {"problems"} : o[f] = w[f]
      BY <2>1, ProblemIs
    <2>4. ~Follows(w, e)
      BY <1>3 DEF Follows
    <2> QED BY <1>3, <2>2, <2>3, <2>4 DEF OrderFields, o
  <1>4. CASE ~w.sequenceDone /\ e.id = w.id /\ e.seq # None
    <2> DEFINE u == [w EXCEPT !.lastSeq = e.seq]
               kinds == IF e.seq <= w.lastSeq THEN {"seq order"} ELSE {}
    <2>1. o = Problem(u, kinds)
      BY <1>4 DEF CheckIdentity
    <2>2. DOMAIN u = VerifierFields /\ u.problems = w.problems /\ u.lastSeq = e.seq
          /\ u.sequenceDone = w.sequenceDone
          /\ \A f \in VerifierFields \ OrderFields : u[f] = w[f]
      BY DEF VerifierFields, OrderFields
    <2>k. (Follows(w, e) => kinds = {}) /\ (~Follows(w, e) => "seq order" \in kinds)
      BY <1>4 DEF Follows
    <2> HIDE DEF u, o, kinds
    <2>3. /\ DOMAIN o = VerifierFields /\ o.problems = u.problems \union kinds
          /\ \A f \in VerifierFields \ {"problems"} : o[f] = u[f]
      BY <2>1, <2>2, ProblemIs
    <2>4. o.lastSeq = e.seq /\ o.sequenceDone = w.sequenceDone
      BY <2>2, <2>3 DEF VerifierFields
    <2>5. \A f \in VerifierFields \ OrderFields : o[f] = w[f]
      BY <2>2, <2>3 DEF OrderFields
    <2> QED BY <1>4, <2>2, <2>3, <2>4, <2>5, <2>k DEF o
  <1> QED BY <1>1, <1>2, <1>3, <1>4

(* What Lifted changes.                                                    *)
LEMMA LiftedIs ==
  ASSUME NEW w, DOMAIN w = VerifierFields, NEW e
  PROVE  LET o == Lifted(w, e)
         IN  /\ DOMAIN o = VerifierFields
             /\ \A f \in VerifierFields \ SumFields : o[f] = w[f]
             /\ e.type \in Terminals =>
                  /\ o.terminals = w.terminals + 1
                  /\ o.terminalAt = IF w.terminals = 0 THEN w.events ELSE w.terminalAt
                  /\ o.counts = IF w.terminals = 0 THEN e.counts ELSE w.counts
             /\ e.type \notin Terminals =>
                  /\ o.terminals = w.terminals /\ o.terminalAt = w.terminalAt
                  /\ o.counts = w.counts
             /\ e.type = "scan_config" /\ ~w.sawConfig =>
                  o.sawConfig = TRUE /\ o.planned = e.planned /\ o.seed = e.seed
             /\ ~(e.type = "scan_config" /\ ~w.sawConfig) =>
                  o.sawConfig = w.sawConfig /\ o.planned = w.planned /\ o.seed = w.seed
             /\ o.probes = IF e.type = "probe_result" THEN w.probes + 1 ELSE w.probes
             /\ e.type = "probe_span" =>
                  /\ o.spans = w.spans + 1
                  /\ o.spanProbes = w.spanProbes + (IF e.count = None THEN 0 ELSE e.count)
             /\ e.type # "probe_span" => o.spans = w.spans /\ o.spanProbes = w.spanProbes
  <1> DEFINE o == Lifted(w, e)
  <1>0. {"scan_config", "probe_result", "probe_span"} \intersect Terminals = {}
    BY DEF Terminals
  <1>1. CASE e.type \in Terminals
    <2> DEFINE at == IF w.terminals = 0 THEN w.events ELSE w.terminalAt
               counts == IF w.terminals = 0 THEN e.counts ELSE w.counts
    <2>1. o = [w EXCEPT !.terminals = w.terminals + 1, !.terminalAt = at, !.counts = counts]
      BY <1>0, <1>1 DEF Lifted
    <2> HIDE DEF at, counts
    <2>2. /\ DOMAIN o = VerifierFields /\ o.terminals = w.terminals + 1 /\ o.terminalAt = at
          /\ o.counts = counts
      BY <2>1 DEF VerifierFields
    <2>3. \A f \in VerifierFields : f \notin {"terminals", "terminalAt", "counts"} => o[f] = w[f]
      BY <2>1
    <2> HIDE DEF o
    <2>4. /\ o.sawConfig = w.sawConfig /\ o.planned = w.planned /\ o.seed = w.seed
          /\ o.probes = w.probes /\ o.spans = w.spans /\ o.spanProbes = w.spanProbes
      BY <2>3 DEF VerifierFields
    <2>5. \A f \in VerifierFields \ SumFields : o[f] = w[f]
      BY <2>3 DEF SumFields
    <2> QED BY <1>0, <1>1, <2>2, <2>4, <2>5 DEF at, counts, o
  <1>2. CASE e.type = "scan_config" /\ ~w.sawConfig
    <2>1. o = [w EXCEPT !.sawConfig = TRUE, !.planned = e.planned, !.seed = e.seed]
      BY <1>0, <1>2 DEF Lifted
    <2> QED BY <1>0, <1>2, <2>1 DEF VerifierFields, SumFields
  <1>3. CASE e.type = "probe_result"
    <2>1. o = [w EXCEPT !.probes = @ + 1]
      BY <1>0, <1>3 DEF Lifted
    <2> QED BY <1>0, <1>3, <2>1 DEF VerifierFields, SumFields
  <1>4. CASE e.type = "probe_span"
    <2>1. o = [w EXCEPT !.spans = @ + 1,
                        !.spanProbes = @ + (IF e.count = None THEN 0 ELSE e.count)]
      BY <1>0, <1>4 DEF Lifted
    <2> QED BY <1>0, <1>4, <2>1 DEF VerifierFields, SumFields
  <1>5. CASE /\ e.type \notin Terminals /\ ~(e.type = "scan_config" /\ ~w.sawConfig)
             /\ e.type # "probe_result" /\ e.type # "probe_span"
    <2>1. o = w
      BY <1>5 DEF Lifted
    <2> QED BY <1>5, <2>1
  <1> QED BY <1>1, <1>2, <1>3, <1>4, <1>5

(* What an observed event leaves behind: w before it, c with it counted.   *)
Observes(o, w, c, e) ==
  /\ DOMAIN o = VerifierFields
  /\ o.events = w.events + 1 /\ o.bad = w.bad
  /\ o.first = c.first /\ o.second = c.second /\ o.id = c.id /\ o.version = c.version
  /\ w.problems \subseteq o.problems /\ Values(o.planned, e) \subseteq o.problems
  /\ ~w.sequenceDone /\ Follows(c, e) =>
       /\ ~o.sequenceDone /\ o.lastSeq = e.seq
       /\ o.problems = w.problems \union Values(o.planned, e)
  /\ ~w.sequenceDone /\ ~Follows(c, e) => o.problems # {}
  /\ e.type \in Terminals =>
       /\ o.terminals = w.terminals + 1
       /\ o.terminalAt = IF w.terminals = 0 THEN w.events + 1 ELSE w.terminalAt
       /\ o.counts = IF w.terminals = 0 THEN e.counts ELSE w.counts
  /\ e.type \notin Terminals =>
       /\ o.terminals = w.terminals /\ o.terminalAt = w.terminalAt
       /\ o.counts = w.counts
  /\ e.type = "scan_config" /\ ~w.sawConfig =>
       o.sawConfig = TRUE /\ o.planned = e.planned /\ o.seed = e.seed
  /\ ~(e.type = "scan_config" /\ ~w.sawConfig) =>
       o.sawConfig = w.sawConfig /\ o.planned = w.planned /\ o.seed = w.seed
  /\ o.probes = IF e.type = "probe_result" THEN w.probes + 1 ELSE w.probes
  /\ e.type = "probe_span" =>
       /\ o.spans = w.spans + 1
       /\ o.spanProbes = w.spanProbes + (IF e.count = None THEN 0 ELSE e.count)
  /\ e.type # "probe_span" => o.spans = w.spans /\ o.spanProbes = w.spanProbes

(* One event, whole: the envelope, the sums and the checks together.       *)
LEMMA ObservedIs ==
  ASSUME NEW w, DOMAIN w = VerifierFields, NEW e, e.type # "garbled"
  PROVE  Observes(Observed(w, e), w, Counted(w, e), e)
  <1> DEFINE c == Counted(w, e)
             i == CheckIdentity(c, e)
             l == Lifted(i, e)
             o == Observed(w, e)
  <1>1. o = Problem(l, Values(l.planned, e))
    BY CheckIsValues DEF Observed
  <1>2. DOMAIN c = VerifierFields /\ (\A f \in VerifierFields \ HeadFields : c[f] = w[f])
        /\ c.events = w.events + 1
    BY CountedIs
  <1>3. /\ DOMAIN i = VerifierFields
        /\ \A f \in VerifierFields \ OrderFields : i[f] = c[f]
        /\ c.problems \subseteq i.problems
        /\ ~c.sequenceDone /\ Follows(c, e) =>
             ~i.sequenceDone /\ i.problems = c.problems /\ i.lastSeq = e.seq
        /\ ~c.sequenceDone /\ ~Follows(c, e) => i.problems # {}
    BY <1>2, IdentityIs
  <1>0. DOMAIN i = VerifierFields
    BY <1>3
  <1> HIDE DEF c, i
  <1>4. /\ DOMAIN l = VerifierFields
        /\ \A f \in VerifierFields \ SumFields : l[f] = i[f]
        /\ e.type \in Terminals =>
             /\ l.terminals = i.terminals + 1
             /\ l.terminalAt = IF i.terminals = 0 THEN i.events ELSE i.terminalAt
             /\ l.counts = IF i.terminals = 0 THEN e.counts ELSE i.counts
        /\ e.type \notin Terminals =>
             /\ l.terminals = i.terminals /\ l.terminalAt = i.terminalAt
             /\ l.counts = i.counts
        /\ e.type = "scan_config" /\ ~i.sawConfig =>
             l.sawConfig = TRUE /\ l.planned = e.planned /\ l.seed = e.seed
        /\ ~(e.type = "scan_config" /\ ~i.sawConfig) =>
             l.sawConfig = i.sawConfig /\ l.planned = i.planned /\ l.seed = i.seed
        /\ l.probes = IF e.type = "probe_result" THEN i.probes + 1 ELSE i.probes
        /\ e.type = "probe_span" =>
             /\ l.spans = i.spans + 1
             /\ l.spanProbes = i.spanProbes + (IF e.count = None THEN 0 ELSE e.count)
        /\ e.type # "probe_span" => l.spans = i.spans /\ l.spanProbes = i.spanProbes
    BY <1>0, LiftedIs
  <1> DEFINE kinds == Values(l.planned, e)
  <1> HIDE DEF l, o
  <1>5. /\ DOMAIN o = VerifierFields /\ o.problems = l.problems \union kinds
        /\ \A f \in VerifierFields \ {"problems"} : o[f] = l[f]
    BY <1>1, <1>4, ProblemIs
  <1>6. /\ i.events = w.events + 1 /\ i.terminals = w.terminals /\ i.terminalAt = w.terminalAt
        /\ i.counts = w.counts /\ i.sawConfig = w.sawConfig /\ i.planned = w.planned
        /\ i.seed = w.seed /\ i.probes = w.probes /\ i.spans = w.spans
        /\ i.spanProbes = w.spanProbes /\ i.bad = w.bad /\ i.first = c.first
        /\ i.second = c.second /\ i.id = c.id /\ i.version = c.version
        /\ c.problems = w.problems /\ c.sequenceDone = w.sequenceDone
    <2>1. {"terminals", "terminalAt", "counts", "sawConfig", "planned", "seed", "probes", "spans",
           "spanProbes", "bad", "problems", "sequenceDone"} \subseteq VerifierFields \ HeadFields
      BY DEF VerifierFields, HeadFields
    <2>2. {"terminals", "terminalAt", "counts", "sawConfig", "planned", "seed", "probes", "spans",
           "spanProbes", "bad", "events", "first", "second", "id", "version"}
             \subseteq VerifierFields \ OrderFields
      BY DEF VerifierFields, OrderFields
    <2> QED BY <1>2, <1>3, <2>1, <2>2
  <1>7. /\ l.bad = i.bad /\ l.events = i.events /\ l.first = i.first /\ l.second = i.second
        /\ l.id = i.id /\ l.version = i.version /\ l.problems = i.problems
        /\ l.sequenceDone = i.sequenceDone /\ l.lastSeq = i.lastSeq
    <2>1. {"bad", "events", "first", "second", "id", "version", "problems", "sequenceDone",
           "lastSeq"} \subseteq VerifierFields \ SumFields
      BY DEF VerifierFields, SumFields
    <2> QED BY <1>4, <2>1
  <1>8. \A f \in VerifierFields : f # "problems" => o[f] = l[f]
    BY <1>5
  <1>9. /\ o.bad = l.bad /\ o.events = l.events /\ o.first = l.first /\ o.second = l.second
        /\ o.id = l.id /\ o.version = l.version /\ o.sequenceDone = l.sequenceDone
        /\ o.lastSeq = l.lastSeq /\ o.terminals = l.terminals /\ o.terminalAt = l.terminalAt
        /\ o.counts = l.counts /\ o.sawConfig = l.sawConfig /\ o.planned = l.planned
        /\ o.seed = l.seed /\ o.probes = l.probes /\ o.spans = l.spans
        /\ o.spanProbes = l.spanProbes
    BY <1>8 DEF VerifierFields
  <1>a. DOMAIN o = VerifierFields /\ o.events = w.events + 1 /\ o.bad = w.bad
        /\ o.first = c.first /\ o.second = c.second /\ o.id = c.id /\ o.version = c.version
    BY <1>5, <1>6, <1>7, <1>9
  <1>b. /\ o.problems = i.problems \union Values(o.planned, e)
        /\ w.problems \subseteq i.problems
    BY <1>3, <1>5, <1>6, <1>7, <1>9 DEF kinds
  <1>c. /\ ~w.sequenceDone /\ Follows(c, e) =>
             ~o.sequenceDone /\ o.lastSeq = e.seq /\ i.problems = w.problems
        /\ ~w.sequenceDone /\ ~Follows(c, e) => i.problems # {}
    BY <1>3, <1>6, <1>7, <1>9
  <1>d. /\ e.type \in Terminals =>
             /\ o.terminals = w.terminals + 1
             /\ o.terminalAt = IF w.terminals = 0 THEN w.events + 1 ELSE w.terminalAt
             /\ o.counts = IF w.terminals = 0 THEN e.counts ELSE w.counts
        /\ e.type \notin Terminals =>
             /\ o.terminals = w.terminals /\ o.terminalAt = w.terminalAt
             /\ o.counts = w.counts
    BY <1>4, <1>6, <1>9
  <1>e. /\ e.type = "scan_config" /\ ~w.sawConfig =>
             o.sawConfig = TRUE /\ o.planned = e.planned /\ o.seed = e.seed
        /\ ~(e.type = "scan_config" /\ ~w.sawConfig) =>
             o.sawConfig = w.sawConfig /\ o.planned = w.planned /\ o.seed = w.seed
    BY <1>4, <1>6, <1>9
  <1>f. /\ o.probes = IF e.type = "probe_result" THEN w.probes + 1 ELSE w.probes
        /\ e.type = "probe_span" =>
             /\ o.spans = w.spans + 1
             /\ o.spanProbes = w.spanProbes + (IF e.count = None THEN 0 ELSE e.count)
        /\ e.type # "probe_span" => o.spans = w.spans /\ o.spanProbes = w.spanProbes
    BY <1>4, <1>6, <1>9
  <1>g. /\ w.problems \subseteq o.problems /\ Values(o.planned, e) \subseteq o.problems
        /\ ~w.sequenceDone /\ Follows(c, e) =>
             /\ ~o.sequenceDone /\ o.lastSeq = e.seq
             /\ o.problems = w.problems \union Values(o.planned, e)
        /\ ~w.sequenceDone /\ ~Follows(c, e) => o.problems # {}
    BY <1>b, <1>c
  <1>h. Observes(o, w, c, e)
    BY <1>a, <1>d, <1>e, <1>f, <1>g DEF Observes
  <1> QED BY <1>h DEF c, o

Clean(L, n) == \A k \in 1 .. n : L[k].type # "garbled"
Headed(L, n) ==
  /\ n >= 1 => L[1].type = "scan_started"
  /\ n >= 2 => L[2].type = "scan_config" /\ L[2].planned = Planned

(* What is asked of the k-th line.                                         *)
PlanAt(k) == IF k = 1 THEN None ELSE Planned
Previous(L, k) == IF k = 1 THEN None ELSE L[k - 1].seq
InSequence(L, k) == L[k].id = L[1].id /\ L[k].seq # None /\ ~(L[k].seq <= Previous(L, k))
Sound(L, k) == InSequence(L, k) /\ Values(PlanAt(k), L[k]) = {}

(* A line whose results can be counted: a span counts what it holds.       *)
Counting(e) ==
  IsFiniteSet(Entries(e)) /\ (e.type = "probe_span" => e.count = Cardinality(Entries(e)))

(* The first n lines.                                                      *)
First(L, n) == [k \in 1 .. n |-> L[k]]

TracksCount(L, n, w) ==
  /\ DOMAIN w = VerifierFields
  /\ w.events \in Nat /\ w.bad \in Nat /\ w.events + w.bad = n
  /\ w.bad = 0 <=> Clean(L, n)

TracksHead(L, n, w) ==
  /\ n >= 1 => /\ w.first = L[1].type /\ w.id = L[1].id
               /\ w.version = IF L[1].type = "scan_started" THEN L[1].version ELSE None
  /\ n = 0 => w.version = None
  /\ n >= 2 => w.second = L[2].type

TracksEnd(L, n, w) ==
  /\ w.terminals \in Nat
  /\ w.terminals = 0 <=> \A k \in 1 .. n : L[k].type \notin Terminals
  /\ w.terminals > 0 =>
       /\ w.terminalAt \in 1 .. n /\ L[w.terminalAt].type \in Terminals
       /\ w.counts = L[w.terminalAt].counts
  /\ w.terminals = 1 => \A k \in 1 .. n : L[k].type \in Terminals => k = w.terminalAt
  /\ w.terminals > 1 =>
       \E j, k \in 1 .. n : j # k /\ L[j].type \in Terminals /\ L[k].type \in Terminals

TracksSums(L, n, w) ==
  /\ w.spans \in Nat
  /\ w.spans = 0 <=> \A k \in 1 .. n : L[k].type # "probe_span"
  /\ (\A k \in 1 .. n : Counting(L[k])) =>
       /\ w.probes \in Nat /\ w.spanProbes \in Nat
       /\ w.probes + w.spanProbes = Cardinality(Held(First(L, n)))

TracksPlan(L, n, w) ==
  /\ n < 2 => w.sawConfig = FALSE /\ w.planned = None
  /\ n >= 2 => w.sawConfig = TRUE /\ w.planned = Planned /\ w.seed = L[2].seed

TracksProblems(L, n, w) ==
  /\ w.problems = {} <=> \A k \in 1 .. n : Sound(L, k)
  /\ w.problems = {} => ~w.sequenceDone /\ w.lastSeq = Previous(L, n + 1)

Tracks(L, n, w) ==
  /\ TracksCount(L, n, w)
  /\ Clean(L, n) =>
       /\ TracksHead(L, n, w) /\ TracksEnd(L, n, w) /\ TracksSums(L, n, w)
       /\ Headed(L, n) => TracksPlan(L, n, w) /\ TracksProblems(L, n, w)

(* Nothing has been read.                                                  *)
LEMMA TracksNothing ==
  ASSUME NEW L
  PROVE  Tracks(L, 0, NewVerifier)
  <1>0. \A k \in 1 .. 0 : FALSE
    OBVIOUS
  <1>1. TracksCount(L, 0, NewVerifier) /\ Clean(L, 0)
    BY <1>0 DEF TracksCount, NewVerifier, VerifierFields, Clean
  <1>2. TracksHead(L, 0, NewVerifier)
    BY DEF TracksHead, NewVerifier
  <1>3. TracksEnd(L, 0, NewVerifier)
    BY <1>0 DEF TracksEnd, NewVerifier
  <1>4. TracksSums(L, 0, NewVerifier)
    <2>1. Held(First(L, 0)) = {}
      <3>1. DOMAIN First(L, 0) = {}
        BY <1>0 DEF First
      <3> QED BY <3>1 DEF Held
    <2>2. Cardinality(Held(First(L, 0))) = 0
      BY <2>1, FS_EmptySet
    <2> QED BY <1>0, <2>2 DEF TracksSums, NewVerifier
  <1>5. TracksPlan(L, 0, NewVerifier)
    BY DEF TracksPlan, NewVerifier
  <1>6. TracksProblems(L, 0, NewVerifier)
    BY <1>0 DEF TracksProblems, NewVerifier, Previous
  <1> QED BY <1>1, <1>2, <1>3, <1>4, <1>5, <1>6 DEF Tracks

(* The results of one line more.                                           *)
LEMMA HeldByOneMore ==
  ASSUME NEW L, NEW n \in Nat, \A k \in 1 .. (n + 1) : IsFiniteSet(Entries(L[k]))
  PROVE  /\ Cardinality(Held(First(L, n + 1)))
              = Cardinality(Held(First(L, n))) + Cardinality(Entries(L[n + 1]))
         /\ Cardinality(Held(First(L, n))) \in Nat /\ Cardinality(Entries(L[n + 1])) \in Nat
  <1> DEFINE m == n + 1
             A == Held(First(L, n))
             B == {m} \X Entries(L[m])
             f == [x \in Entries(L[m]) |-> <<m, x>>]
  <1>0. m \in Nat /\ m \in 1 .. m /\ m \notin 1 .. n /\ 1 .. m = (1 .. n) \union {m}
    OBVIOUS
  <1>1. IsListOf(First(L, n), n) /\ (\A k \in 1 .. n : First(L, n)[k] = L[k])
        /\ DOMAIN First(L, m) = 1 .. m /\ \A k \in 1 .. m : First(L, m)[k] = L[k]
    BY DEF IsListOf, First
  <1>f. \A k \in 1 .. m : IsFiniteSet(Entries(L[k]))
    OBVIOUS
  <1> HIDE DEF m
  <1>2. \A k \in 1 .. n : IsFiniteSet(Entries(First(L, n)[k]))
    BY <1>0, <1>1, <1>f
  <1>3. IsFiniteSet(A) /\ Cardinality(A) \in Nat
    BY <1>1, <1>2, HeldIsFinite
  <1>4. IsFiniteSet(Entries(L[m]))
    BY <1>0, <1>f
  <1>5. IsFiniteSet(B) /\ Cardinality(B) = Cardinality(Entries(L[m]))
    <2>1. f \in [Entries(L[m]) -> B]
      OBVIOUS
    <2>2. (\A x, y \in Entries(L[m]) : f[x] = f[y] => x = y)
          /\ \A y \in B : \E x \in Entries(L[m]) : f[x] = y
      OBVIOUS
    <2> HIDE DEF f, B
    <2> QED BY <1>4, <2>1, <2>2, Matched
  <1>6. Held(First(L, m)) = A \union B
    <2>1. Held(First(L, m)) = UNION {{k} \X Entries(First(L, m)[k]) : k \in 1 .. m}
      BY <1>1 DEF Held
    <2>2. A = UNION {{k} \X Entries(First(L, n)[k]) : k \in 1 .. n}
      BY <1>1 DEF Held, IsListOf
    <2>3. \A k \in 1 .. m : {k} \X Entries(First(L, m)[k]) = {k} \X Entries(L[k])
      BY <1>1
    <2>4. \A k \in 1 .. n : {k} \X Entries(First(L, n)[k]) = {k} \X Entries(L[k])
      BY <1>1
    <2> HIDE DEF A
    <2>5. ASSUME NEW p \in Held(First(L, m)) PROVE p \in A \union B
      <3>1. PICK k \in 1 .. m : p \in {k} \X Entries(L[k])
        BY <2>1, <2>3, <2>5
      <3>2. k = m \/ k \in 1 .. n
        BY <1>0
      <3> QED BY <2>2, <2>4, <3>1, <3>2
    <2>6. ASSUME NEW p \in A \union B PROVE p \in Held(First(L, m))
      <3>1. \E k \in 1 .. m : p \in {k} \X Entries(L[k])
        <4>1. CASE p \in A
          <5>1. PICK k \in 1 .. n : p \in {k} \X Entries(L[k])
            BY <2>2, <2>4, <4>1
          <5> QED BY <1>0, <5>1
        <4>2. CASE p \in B
          BY <1>0, <4>2
        <4> QED BY <2>6, <4>1, <4>2
      <3> QED BY <2>1, <2>3, <3>1
    <2> QED BY <2>5, <2>6
  <1>7. A \intersect B = {}
    <2>1. \A p \in A : p[1] \in 1 .. n
      BY <1>1, HeldInRow
    <2>2. \A p \in B : p[1] = m
      OBVIOUS
    <2> QED BY <1>0, <2>1, <2>2
  <1> HIDE DEF A, B
  <1>8. /\ Cardinality(A \union B) = Cardinality(A) + Cardinality(B)
        /\ Cardinality(A) \in Nat /\ Cardinality(B) \in Nat
    BY <1>3, <1>5, <1>7, DisjointSum
  <1> QED BY <1>5, <1>6, <1>8 DEF m, A

(* Tracks does not come apart by one line that is no event.                *)
LEMMA OneMoreGarbled ==
  ASSUME NEW L, NEW n \in Nat, NEW w, Tracks(L, n, w), L[n + 1].type = "garbled"
  PROVE  Tracks(L, n + 1, Observed(w, L[n + 1]))
  <1> DEFINE m == n + 1
             o == Observed(w, L[m])
  <1>0. m \in Nat /\ m \in 1 .. m /\ L[m].type = "garbled" /\ m = n + 1
    OBVIOUS
  <1>1. o = [w EXCEPT !.bad = @ + 1]
    BY <1>0 DEF Observed
  <1>2. TracksCount(L, n, w)
    BY DEF Tracks
  <1> HIDE DEF m
  <1>3. ~Clean(L, m)
    BY <1>0 DEF Clean
  <1>4. DOMAIN o = VerifierFields /\ o.events = w.events /\ o.bad = w.bad + 1
    BY <1>1, <1>2 DEF TracksCount, VerifierFields
  <1> HIDE DEF o
  <1>5. TracksCount(L, m, o)
    BY <1>0, <1>2, <1>3, <1>4 DEF TracksCount
  <1> QED BY <1>3, <1>5 DEF Tracks, m, o

(* Nor by one that is.                                                     *)
LEMMA OneMoreEvent ==
  ASSUME NEW L, NEW n \in Nat, NEW w, Tracks(L, n, w), L[n + 1].type # "garbled"
  PROVE  Tracks(L, n + 1, Observed(w, L[n + 1]))
  <1> DEFINE m == n + 1
             e == L[m]
             o == Observed(w, e)
             c == Counted(w, e)
  <1>0. m \in Nat /\ m \in 1 .. m /\ m \notin 1 .. n /\ 1 .. m = (1 .. n) \union {m}
        /\ m = n + 1 /\ n \in Nat /\ e.type # "garbled"
    OBVIOUS
  <1>1. TracksCount(L, n, w)
    BY DEF Tracks
  <1>2. DOMAIN w = VerifierFields
    BY <1>1 DEF TracksCount
  <1>e. e = L[m]
    OBVIOUS
  <1>t. e.type # "garbled"
    BY <1>0
  <1> HIDE DEF e
  <1>o1. Observes(o, w, c, e)
    BY <1>2, <1>t, ObservedIs
  <1>o. /\ DOMAIN o = VerifierFields
        /\ o.events = w.events + 1 /\ o.bad = w.bad
        /\ o.first = c.first /\ o.second = c.second /\ o.id = c.id /\ o.version = c.version
        /\ w.problems \subseteq o.problems /\ Values(o.planned, e) \subseteq o.problems
        /\ ~w.sequenceDone /\ Follows(c, e) =>
             /\ ~o.sequenceDone /\ o.lastSeq = e.seq
             /\ o.problems = w.problems \union Values(o.planned, e)
        /\ ~w.sequenceDone /\ ~Follows(c, e) => o.problems # {}
        /\ e.type \in Terminals =>
             /\ o.terminals = w.terminals + 1
             /\ o.terminalAt = IF w.terminals = 0 THEN w.events + 1 ELSE w.terminalAt
             /\ o.counts = IF w.terminals = 0 THEN e.counts ELSE w.counts
        /\ e.type \notin Terminals =>
             /\ o.terminals = w.terminals /\ o.terminalAt = w.terminalAt
             /\ o.counts = w.counts
        /\ e.type = "scan_config" /\ ~w.sawConfig =>
             o.sawConfig = TRUE /\ o.planned = e.planned /\ o.seed = e.seed
        /\ ~(e.type = "scan_config" /\ ~w.sawConfig) =>
             o.sawConfig = w.sawConfig /\ o.planned = w.planned /\ o.seed = w.seed
        /\ o.probes = IF e.type = "probe_result" THEN w.probes + 1 ELSE w.probes
        /\ e.type = "probe_span" =>
             /\ o.spans = w.spans + 1
             /\ o.spanProbes = w.spanProbes + (IF e.count = None THEN 0 ELSE e.count)
        /\ e.type # "probe_span" => o.spans = w.spans /\ o.spanProbes = w.spanProbes
    BY <1>o1, Zenon DEF Observes
  <1>c. /\ c.first = IF w.events = 0 THEN e.type ELSE w.first
        /\ c.second = IF w.events = 1 THEN e.type ELSE w.second
        /\ c.id = IF w.events = 0 THEN e.id ELSE w.id
        /\ c.version = IF w.events = 0 /\ e.type = "scan_started"
                         THEN e.version ELSE w.version
        /\ c.lastSeq = w.lastSeq
    <2>1. "lastSeq" \in VerifierFields \ HeadFields
      BY DEF VerifierFields, HeadFields
    <2>2. \A f \in VerifierFields \ HeadFields : c[f] = w[f]
      BY <1>2, CountedIs
    <2>3. c.lastSeq = w.lastSeq
      BY <2>1, <2>2
    <2>4. /\ c.first = IF w.events = 0 THEN e.type ELSE w.first
          /\ c.second = IF w.events = 1 THEN e.type ELSE w.second
          /\ c.id = IF w.events = 0 THEN e.id ELSE w.id
          /\ c.version = IF w.events = 0 /\ e.type = "scan_started"
                           THEN e.version ELSE w.version
      BY <1>2, CountedIs
    <2> QED BY <2>3, <2>4
  <1>p. m = 1 <=> n = 0
    BY <1>0
  <1> HIDE DEF c
  <1>d. o = Observed(w, e)
    OBVIOUS
  <1> HIDE DEF o, m
  <1>3. Clean(L, m) <=> Clean(L, n)
    BY <1>0, <1>e DEF Clean
  <1>4. TracksCount(L, m, o)
    BY <1>0, <1>1, <1>3, <1>o DEF TracksCount
  <1>5. ASSUME Clean(L, n) PROVE w.events = n /\ w.bad = 0
    BY <1>0, <1>1, <1>5 DEF TracksCount
  <1>6. ASSUME Clean(L, n), TracksHead(L, n, w) PROVE TracksHead(L, m, o)
    <2>1. w.events = n
      BY <1>5, <1>6
    <2>2. CASE n = 0
      <3>1. m = 1
        BY <1>0, <2>2
      <3>2. o.first = e.type /\ o.id = e.id /\ e = L[1] /\ w.version = None
        BY <1>6, <1>c, <1>e, <1>o, <2>1, <2>2, <3>1 DEF TracksHead
      <3>3. o.version = IF e.type = "scan_started" THEN e.version ELSE None
        BY <1>c, <1>o, <2>1, <2>2, <3>2
      <3> QED BY <3>1, <3>2, <3>3 DEF TracksHead
    <2>3. CASE n = 1
      <3>1. m = 2
        BY <1>0, <2>3
      <3>2. /\ o.first = w.first /\ o.id = w.id /\ o.second = e.type /\ e = L[2]
            /\ o.version = w.version
        BY <1>c, <1>e, <1>o, <2>1, <2>3, <3>1
      <3> QED BY <1>6, <2>3, <3>1, <3>2 DEF TracksHead
    <2>4. CASE n > 1
      <3>1. m > 2 /\ n # 0 /\ n # 1 /\ n >= 2
        BY <1>0, <2>4
      <3>2. /\ o.first = w.first /\ o.id = w.id /\ o.second = w.second
            /\ o.version = w.version
        BY <1>c, <1>o, <2>1, <3>1
      <3> QED BY <1>6, <3>1, <3>2 DEF TracksHead
    <2> QED BY <1>0, <2>2, <2>3, <2>4
  <1>7. ASSUME Clean(L, n), TracksEnd(L, n, w) PROVE TracksEnd(L, m, o)
    <2>1. w.events = n
      BY <1>5, <1>7
    <2>2. CASE e.type \notin Terminals
      <3>1. o.terminals = w.terminals /\ o.terminalAt = w.terminalAt /\ o.counts = w.counts
        BY <1>o, <2>2
      <3> QED BY <1>0, <1>7, <1>e, <2>2, <3>1 DEF TracksEnd
    <2>3. CASE e.type \in Terminals
      <3>1. o.terminals = w.terminals + 1 /\ w.terminals \in Nat
        BY <1>7, <1>o, <2>3 DEF TracksEnd
      <3>2. CASE w.terminals = 0
        <4>1. o.terminalAt = m /\ o.counts = e.counts /\ o.terminals = 1
          BY <1>0, <1>o, <2>1, <2>3, <3>1, <3>2
        <4>2. \A k \in 1 .. n : L[k].type \notin Terminals
          BY <1>7, <3>2 DEF TracksEnd
        <4> QED BY <1>0, <1>e, <2>3, <4>1, <4>2 DEF TracksEnd
      <3>3. CASE w.terminals # 0
        <4>1. o.terminalAt = w.terminalAt /\ o.counts = w.counts /\ o.terminals > 1
              /\ o.terminals \in Nat /\ w.terminals > 0
          BY <1>o, <2>3, <3>1, <3>3
        <4>2. w.terminalAt \in 1 .. n /\ L[w.terminalAt].type \in Terminals
              /\ w.counts = L[w.terminalAt].counts
          BY <1>7, <4>1 DEF TracksEnd
        <4>3. w.terminalAt \in 1 .. m /\ w.terminalAt # m /\ L[m].type \in Terminals
          BY <1>0, <1>e, <2>3, <4>2
        <4>4. o.terminals # 0 /\ o.terminals # 1
          BY <4>1
        <4>5. \E j, k \in 1 .. m : j # k /\ L[j].type \in Terminals /\ L[k].type \in Terminals
          BY <1>0, <4>2, <4>3
        <4>6. ~(\A k \in 1 .. m : L[k].type \notin Terminals)
          BY <1>0, <4>3
        <4> QED BY <4>1, <4>2, <4>3, <4>4, <4>5, <4>6 DEF TracksEnd
      <3> QED BY <3>2, <3>3
    <2> QED BY <2>2, <2>3
  <1>8. ASSUME TracksSums(L, n, w) PROVE TracksSums(L, m, o)
    <2>1. o.spans \in Nat /\ (o.spans = 0 <=> \A k \in 1 .. m : L[k].type # "probe_span")
      <3>1. w.spans \in Nat /\ (w.spans = 0 <=> \A k \in 1 .. n : L[k].type # "probe_span")
        BY <1>8 DEF TracksSums
      <3>2. CASE e.type = "probe_span"
        <4>1. o.spans = w.spans + 1 /\ L[m].type = "probe_span"
          BY <1>e, <1>o, <3>2
        <4> QED BY <1>0, <3>1, <4>1
      <3>3. CASE e.type # "probe_span"
        <4>1. o.spans = w.spans /\ L[m].type # "probe_span"
          BY <1>e, <1>o, <3>3
        <4> QED BY <1>0, <3>1, <4>1
      <3> QED BY <3>2, <3>3
    <2>2. ASSUME \A k \in 1 .. m : Counting(L[k])
          PROVE  /\ o.probes \in Nat /\ o.spanProbes \in Nat
                 /\ o.probes + o.spanProbes = Cardinality(Held(First(L, m)))
      <3> DEFINE A == Cardinality(Held(First(L, n)))
                 B == Cardinality(Entries(e))
      <3>1. /\ w.probes \in Nat /\ w.spanProbes \in Nat /\ w.probes + w.spanProbes = A
        BY <1>0, <1>8, <2>2 DEF TracksSums
      <3>2. Cardinality(Held(First(L, m))) = A + B /\ A \in Nat /\ B \in Nat
        <4>1. \A k \in 1 .. (n + 1) : IsFiniteSet(Entries(L[k]))
          BY <1>0, <2>2 DEF Counting
        <4> QED BY <1>0, <1>e, <4>1, HeldByOneMore
      <3>3. Counting(e)
        BY <1>0, <1>e, <2>2
      <3>4. /\ o.probes = w.probes + (IF e.type = "probe_result" THEN 1 ELSE 0)
            /\ o.spanProbes = w.spanProbes + (IF e.type = "probe_span" THEN B ELSE 0)
        <4>1. e.type = "probe_span" => e.count = B /\ e.count # None
          BY <3>2, <3>3 DEF Counting, None
        <4> HIDE DEF B
        <4> QED BY <1>o, <3>1, <4>1
      <3>5. B = IF e.type = "probe_result" THEN 1 ELSE IF e.type = "probe_span" THEN B ELSE 0
        <4>1. e.type = "probe_result" => B = 1
          BY FS_Singleton DEF Entries
        <4>2. e.type \notin {"probe_result", "probe_span"} => B = 0
          BY FS_EmptySet DEF Entries
        <4> QED BY <4>1, <4>2
      <3> HIDE DEF A, B
      <3> QED BY <3>1, <3>2, <3>4, <3>5
    <2> QED BY <2>1, <2>2 DEF TracksSums
  <1>9. ASSUME Headed(L, m) PROVE Headed(L, n)
    BY <1>0, <1>9 DEF Headed
  <1>10. ASSUME Headed(L, m), TracksPlan(L, n, w)
         PROVE  TracksPlan(L, m, o) /\ o.planned = PlanAt(m)
    <2>0. "scan_config" \notin Terminals /\ "scan_started" # "scan_config"
      BY DEF Terminals
    <2>1. CASE n = 0
      <3>1. m = 1 /\ e.type = "scan_started"
        BY <1>0, <1>10, <1>e, <2>1 DEF Headed
      <3>2. o.sawConfig = FALSE /\ o.planned = None
        BY <1>10, <1>o, <2>1, <3>1 DEF TracksPlan
      <3> QED BY <3>1, <3>2 DEF TracksPlan, PlanAt
    <2>2. CASE n = 1
      <3>1. m = 2 /\ e.type = "scan_config" /\ e.planned = Planned /\ e = L[2]
        BY <1>0, <1>10, <1>e, <2>2 DEF Headed
      <3>2. w.sawConfig = FALSE
        BY <1>10, <2>2 DEF TracksPlan
      <3>3. o.sawConfig = TRUE /\ o.planned = Planned /\ o.seed = L[2].seed
        BY <1>o, <3>1, <3>2
      <3> QED BY <3>1, <3>3 DEF TracksPlan, PlanAt
    <2>3. CASE n > 1
      <3>1. m > 2 /\ n >= 2 /\ m # 1 /\ ~(m < 2) /\ m >= 2
        BY <1>0, <2>3
      <3>2. w.sawConfig = TRUE /\ w.planned = Planned /\ w.seed = L[2].seed
        BY <1>10, <3>1 DEF TracksPlan
      <3>3. ~(e.type = "scan_config" /\ ~w.sawConfig)
        BY <3>2, Zenon
      <3>4. o.sawConfig = TRUE /\ o.planned = Planned /\ o.seed = L[2].seed
        <4>1. o.sawConfig = w.sawConfig /\ o.planned = w.planned /\ o.seed = w.seed
          BY <1>o, <3>3
        <4> QED BY <3>2, <4>1, Zenon
      <3> QED BY <3>1, <3>4, Zenon DEF TracksPlan, PlanAt
    <2> QED BY <1>0, <2>1, <2>2, <2>3
  <1>11. ASSUME Clean(L, n), TracksHead(L, n, w), TracksProblems(L, n, w),
                o.planned = PlanAt(m)
         PROVE  TracksProblems(L, m, o)
    <2>1. (\A k \in 1 .. m : Sound(L, k)) <=> (\A k \in 1 .. n : Sound(L, k)) /\ Sound(L, m)
      BY <1>0
    <2>2. Sound(L, m) <=> InSequence(L, m) /\ Values(o.planned, e) = {}
      BY <1>11, <1>e DEF Sound
    <2>3. Previous(L, m + 1) = e.seq
      <3>1. m + 1 # 1 /\ (m + 1) - 1 = m
        BY <1>0
      <3> QED BY <1>e, <3>1 DEF Previous
    <2>4. CASE w.problems # {}
      <3>1. ~(\A k \in 1 .. m : Sound(L, k))
        BY <1>11, <2>1, <2>4 DEF TracksProblems
      <3>2. o.problems # {}
        BY <1>o, <2>4
      <3> QED BY <3>1, <3>2 DEF TracksProblems
    <2>5. CASE w.problems = {}
      <3>1. ~w.sequenceDone /\ w.lastSeq = Previous(L, n + 1)
            /\ \A k \in 1 .. n : Sound(L, k)
        BY <1>11, <2>5 DEF TracksProblems
      <3>2. c.id = L[1].id
        <4>1. w.events = n
          BY <1>5, <1>11
        <4>2. CASE n = 0
          BY <1>c, <1>e, <1>p, <4>1, <4>2
        <4>3. CASE n # 0
          <5>1. n >= 1
            BY <1>0, <4>3
          <5> QED BY <1>11, <1>c, <4>1, <4>3, <5>1 DEF TracksHead
        <4> QED BY <4>2, <4>3
      <3>3. Follows(c, e) <=> InSequence(L, m)
        BY <1>0, <1>c, <1>e, <3>1, <3>2 DEF Follows, InSequence
      <3>4. CASE Follows(c, e)
        <4>1. ~o.sequenceDone /\ o.lastSeq = e.seq /\ o.problems = Values(o.planned, e)
          BY <1>o, <2>5, <3>1, <3>4
        <4> QED BY <2>1, <2>2, <2>3, <3>1, <3>3, <3>4, <4>1 DEF TracksProblems
      <3>5. CASE ~Follows(c, e)
        <4>1. o.problems # {}
          BY <1>o, <3>1, <3>5
        <4> QED BY <2>1, <2>2, <3>3, <3>5, <4>1 DEF TracksProblems
      <3> QED BY <3>4, <3>5
    <2> QED BY <2>4, <2>5
  <1>12. ASSUME Clean(L, m)
         PROVE  /\ TracksHead(L, m, o) /\ TracksEnd(L, m, o) /\ TracksSums(L, m, o)
                /\ Headed(L, m) => TracksPlan(L, m, o) /\ TracksProblems(L, m, o)
    <2>1. /\ Clean(L, n) /\ TracksHead(L, n, w) /\ TracksEnd(L, n, w) /\ TracksSums(L, n, w)
          /\ Headed(L, n) => TracksPlan(L, n, w) /\ TracksProblems(L, n, w)
      BY <1>3, <1>12 DEF Tracks
    <2>2. TracksHead(L, m, o) /\ TracksEnd(L, m, o) /\ TracksSums(L, m, o)
      BY <1>6, <1>7, <1>8, <2>1
    <2>3. ASSUME Headed(L, m) PROVE TracksPlan(L, m, o) /\ TracksProblems(L, m, o)
      <3>1. TracksPlan(L, n, w) /\ TracksProblems(L, n, w)
        BY <1>9, <2>1, <2>3
      <3> QED BY <1>10, <1>11, <2>1, <2>3, <3>1
    <2> QED BY <2>2, <2>3
  <1>13. Tracks(L, m, o)
    BY <1>4, <1>12 DEF Tracks
  <1> QED BY <1>13, <1>0, <1>d, <1>e

(* One more line, and the Verifier still holds what it was given.          *)
LEMMA OneMore ==
  ASSUME NEW L, NEW n \in Nat, NEW w, Tracks(L, n, w)
  PROVE  Tracks(L, n + 1, Observed(w, L[n + 1]))
  BY OneMoreGarbled, OneMoreEvent

-----------------------------------------------------------------------------
(* What finish reports.                                                    *)

(* No problem, no bad kind.                                                *)
LEMMA FailedIs ==
  ASSUME NEW bad
  PROVE  Failed(bad) = {} <=> \A kind \in DOMAIN bad : ~bad[kind]
  BY DEF Failed

HeaderPasses(w) ==
  /\ w.first = "scan_started"
  /\ w.events > 1 => w.second = "scan_config"
  /\ w.version = None \/ w.version \in SupportedVersions
  /\ w.spans > 0 /\ w.sawConfig /\ w.version >= 2 => w.seed

TerminalPasses(w) ==
  /\ w.terminals # 0 /\ ~(w.terminals > 1)
  /\ w.terminals = 1 => w.terminalAt = w.events

CountsPass(w) ==
  /\ w.counts.completed = w.probes + w.spanProbes
  /\ Answers(w.counts) = w.counts.completed
  /\ w.counts.planned = w.counts.completed + w.counts.abandoned + w.counts.not_started

(* When the header is not complained of.                                   *)
LEMMA HeaderIs ==
  ASSUME NEW w
  PROVE  ReportHeader(w) = {} <=> HeaderPasses(w)
  <1> DEFINE a == w.first # "scan_started"
             b == w.events > 1 /\ w.second # "scan_config"
             c == w.version # None /\ w.version \notin SupportedVersions
             d == w.spans > 0 /\ w.sawConfig /\ ~w.seed /\ w.version >= 2
             bad == [first |-> a, second |-> b, version |-> c, seed |-> d]
  <1>1. ReportHeader(w) = Failed(bad)
    BY DEF ReportHeader
  <1>2. ~a /\ ~b /\ ~c /\ ~d <=> HeaderPasses(w)
    BY DEF HeaderPasses
  <1> HIDE DEF a, b, c, d
  <1>3. (\A kind \in DOMAIN bad : ~bad[kind]) <=> ~a /\ ~b /\ ~c /\ ~d
    OBVIOUS
  <1> HIDE DEF bad
  <1> QED BY <1>1, <1>2, <1>3, FailedIs

(* When the end is not complained of.                                      *)
LEMMA TerminalIs ==
  ASSUME NEW w
  PROVE  ReportTerminal(w) = {} <=> TerminalPasses(w)
  <1> DEFINE a == w.terminals = 0
             b == w.terminals > 1
             c == w.terminals = 1 /\ w.terminalAt # w.events
             bad == [no_terminal |-> a, terminals |-> b, follow |-> c]
  <1>1. ReportTerminal(w) = Failed(bad)
    BY DEF ReportTerminal
  <1>2. ~a /\ ~b /\ ~c <=> TerminalPasses(w)
    BY DEF TerminalPasses
  <1> HIDE DEF a, b, c
  <1>3. (\A kind \in DOMAIN bad : ~bad[kind]) <=> ~a /\ ~b /\ ~c
    OBVIOUS
  <1> HIDE DEF bad
  <1> QED BY <1>1, <1>2, <1>3, FailedIs

(* When the counts are not complained of.                                  *)
LEMMA CountsAre ==
  ASSUME NEW w, w.terminals # 0
  PROVE  ReportCounts(w) = {} <=> CountsPass(w)
  <1> DEFINE a == w.counts.completed # w.probes + w.spanProbes
             b == Answers(w.counts) # w.counts.completed
             c == w.counts.planned # w.counts.completed + w.counts.abandoned
                                                + w.counts.not_started
             bad == [completed |-> a, parts |-> b, planned |-> c]
  <1>1. ReportCounts(w) = Failed(bad)
    BY DEF ReportCounts
  <1>2. ~a /\ ~b /\ ~c <=> CountsPass(w)
    BY DEF CountsPass
  <1> HIDE DEF a, b, c
  <1>3. (\A kind \in DOMAIN bad : ~bad[kind]) <=> ~a /\ ~b /\ ~c
    OBVIOUS
  <1> HIDE DEF bad
  <1> QED BY <1>1, <1>2, <1>3, FailedIs

(* No problem is found when each part finds none.                          *)
Passes(w) ==
  /\ w.events # 0 /\ ~(w.bad > 0) /\ ~partial
  /\ HeaderPasses(w) /\ w.problems = {} /\ TerminalPasses(w) /\ CountsPass(w)

(* When verify finds nothing.                                              *)
LEMMA ProblemsAre ==
  ASSUME NEW w
  PROVE  Problems(w) = {} <=> Passes(w)
  <1>1. CASE w.events = 0
    <2>1. "no events" \in Problems(w)
      BY <1>1 DEF Problems
    <2> QED BY <1>1, <2>1 DEF Passes
  <1>2. CASE w.events # 0
    <2> DEFINE bad == [line |-> w.bad > 0, suffix |-> partial]
    <2>1. Problems(w) = Failed(bad) \union ReportHeader(w) \union w.problems
                          \union ReportTerminal(w) \union ReportCounts(w)
      BY <1>2 DEF Problems
    <2>2. Failed(bad) = {} <=> ~(w.bad > 0) /\ ~partial
      <3> DEFINE a == w.bad > 0
                 b == partial
                 r == [line |-> a, suffix |-> b]
      <3>1. bad = r /\ (~a /\ ~b <=> ~(w.bad > 0) /\ ~partial)
        OBVIOUS
      <3> HIDE DEF a, b
      <3>2. (\A kind \in DOMAIN r : ~r[kind]) <=> ~a /\ ~b
        OBVIOUS
      <3> HIDE DEF r, bad
      <3> QED BY <3>1, <3>2, FailedIs
    <2> HIDE DEF bad
    <2>3. Problems(w) = {} <=> /\ Failed(bad) = {} /\ ReportHeader(w) = {} /\ w.problems = {}
                              /\ ReportTerminal(w) = {} /\ ReportCounts(w) = {}
      BY <2>1
    <2>4. ReportTerminal(w) = {} => w.terminals # 0
      BY TerminalIs DEF TerminalPasses
    <2> QED BY <1>2, <2>2, <2>3, <2>4, HeaderIs, TerminalIs, CountsAre DEF Passes
  <1> QED BY <1>1, <1>2

-----------------------------------------------------------------------------
(* A record no line of which was changed.                                  *)

(* Each line of a record of a scan is sound.                               *)
LEMMA FitsIsSound ==
  ASSUME NEW s \in Scans, NEW g, NEW L, Fits(L, s, g)
  PROVE  /\ \A k \in 1 .. LineCount(s, g) : Sound(L, k) /\ Counting(L[k])
         /\ Clean(L, LineCount(s, g)) /\ Headed(L, LineCount(s, g))
         /\ LineCount(s, g) \in Nat /\ LineCount(s, g) >= 3 /\ Len(L) = LineCount(s, g)
  <1> DEFINE N == LineCount(s, g)
  <1>1. /\ g \in {0, 1} /\ IsListOf(L, N)
        /\ \A k \in 1 .. N : IsWhose(L[k]) /\ L[k].seq \in Nat
        /\ \A k \in 2 .. N : L[k - 1].seq < L[k].seq
        /\ IsStarted(L[1], s) /\ IsConfig(L[2], s)
    BY DEF Fits
  <1>2. N \in Nat /\ N >= 3 /\ Len(L) = N
    <2>1. RowCount(s) \in Nat /\ SpanCount(s) \in Nat
      BY SpannedIs
    <2> QED BY <1>1, <2>1, ListIsSequence DEF LineCount
  <1>3. Clean(L, N)
    BY LineKinds DEF Clean
  <1>4. Headed(L, N)
    BY <1>1 DEF Headed, IsStarted, IsConfig
  <1>5. ASSUME NEW k \in 1 .. N PROVE Sound(L, k) /\ Counting(L[k])
    <2>1. Counting(L[k])
      <3>1. /\ IsFiniteSet(Entries(L[k]))
            /\ L[k].type = "probe_span" => Cardinality(Entries(L[k])) = L[k].count
        BY <1>5, EntriesOfScan
      <3> QED BY <3>1 DEF Counting
    <2>2. InSequence(L, k)
      <3>1. L[k].id = "scan" /\ L[1].id = "scan" /\ L[k].seq \in Nat
        <4>1. 1 \in 1 .. N
          BY <1>2
        <4> QED BY <1>1, <1>5, <4>1 DEF IsWhose
      <3>2. L[k].seq # None
        BY <3>1 DEF None
      <3>3. ~(L[k].seq <= Previous(L, k))
        <4>1. CASE k = 1
          <5>1. Previous(L, k) = -1
            BY <4>1 DEF Previous, None
          <5> QED BY <3>1, <5>1
        <4>2. CASE k # 1
          <5>1. k \in 2 .. N /\ k - 1 \in 1 .. N
            BY <1>2, <1>5, <4>2
          <5>2. L[k - 1].seq < L[k].seq /\ L[k - 1].seq \in Nat
            BY <1>1, <5>1
          <5>3. Previous(L, k) = L[k - 1].seq
            BY <4>2 DEF Previous
          <5> QED BY <3>1, <5>2, <5>3
        <4> QED BY <4>1, <4>2
      <3> QED BY <3>1, <3>2, <3>3 DEF InSequence
    <2>3. Values(PlanAt(k), L[k]) = {}
      <3>0. IsWhose(L[k])
        BY <1>1, <1>5
      <3>1. CASE L[k].type = "probe_result"
        <4>1. PICK j \in 1 .. RowCount(s) : k = 2 + j /\ IsRow(L[k], s, Rows(s)[j])
          BY <1>5, <3>1, LineKinds
        <4>2. Rows(s)[j] \in Alone(s)
          BY SpannedIs
        <4>3. k # 1
          BY <4>1
        <4>4. PlanAt(k) = Planned
          BY <4>3 DEF PlanAt
        <4> QED BY <3>0, <4>1, <4>2, <4>4, RowPasses
      <3>2. CASE L[k].type = "probe_span"
        <4>1. PICK j \in 1 .. SpanCount(s) :
                 k = 2 + g + RowCount(s) + j /\ IsSpan(L[k], s, Spans(s)[j])
          BY <1>5, <3>2, LineKinds
        <4>2. Spans(s)[j] \in Spanned(s)
          BY SpannedIs
        <4>3. k # 1
          <5>1. RowCount(s) \in Nat
            BY SpannedIs
          <5> QED BY <1>1, <4>1, <5>1
        <4>4. PlanAt(k) = Planned
          BY <4>3 DEF PlanAt
        <4> QED BY <3>0, <4>1, <4>2, <4>4, SpanPasses
      <3>3. CASE L[k].type \notin {"probe_result", "probe_span"}
        BY <3>0, <3>3, OthersPass
      <3> QED BY <3>1, <3>2, <3>3
    <2> QED BY <2>1, <2>2, <2>3 DEF Sound
  <1> QED BY <1>2, <1>3, <1>4, <1>5

(* The first n of n lines are all.                                         *)
LEMMA FirstIsAll ==
  ASSUME NEW n, NEW L, IsListOf(L, n)
  PROVE  First(L, n) = L
  BY DEF First, IsListOf

(* The engine's own record passes.                                         *)
LEMMA WholePasses ==
  ASSUME NEW s \in Scans, NEW w, Tracks(Whole(s), LineCount(s, 1), w), partial = FALSE
  PROVE  Problems(w) = {}
  <1> DEFINE L == Whole(s)
             N == LineCount(s, 1)
  <1>1. Fits(L, s, 1)
    BY WholeFits
  <1>2. /\ \A k \in 1 .. N : Sound(L, k) /\ Counting(L[k])
        /\ Clean(L, N) /\ Headed(L, N) /\ N \in Nat /\ N >= 3
    BY <1>1, FitsIsSound
  <1>3. /\ IsListOf(L, N) /\ IsStarted(L[1], s) /\ IsConfig(L[2], s) /\ L[2].seed = TRUE
        /\ IsTerminal(L[N], s)
    BY WholeLines
  <1>4. \A k \in 1 .. N : L[k].type \in Terminals => k = N
    BY <1>1, LineKinds
  <1>5. Cardinality(Held(L)) = Cardinality(Reported(s))
    <2>1. Leads(L, s)
      BY <1>3 DEF Leads
    <2>2. \A i \in Index : s.order[i] = s.order[i]
      OBVIOUS
    <2> QED BY <1>1, <2>1, <2>2, WalkOfWhole
  <1>6. First(L, N) = L
    BY <1>3, FirstIsAll
  <1> HIDE DEF L, N
  <1>7. Tracks(L, N, w)
    BY DEF L, N
  <1>8. /\ TracksCount(L, N, w) /\ TracksHead(L, N, w) /\ TracksEnd(L, N, w)
        /\ TracksSums(L, N, w) /\ TracksPlan(L, N, w) /\ TracksProblems(L, N, w)
    BY <1>2, <1>7 DEF Tracks
  <1>9. w.bad = 0 /\ w.events = N /\ w.events # 0 /\ ~(w.bad > 0)
    BY <1>2, <1>8 DEF TracksCount
  <1>10. HeaderPasses(w)
    <2>1. w.first = "scan_started" /\ w.version = s.version
      BY <1>2, <1>3, <1>8 DEF TracksHead, IsStarted
    <2>2. w.second = "scan_config"
      BY <1>2, <1>3, <1>8 DEF TracksHead, IsConfig
    <2>3. s.version \in SupportedVersions
      BY ScanIs DEF SupportedVersions
    <2>4. w.seed = TRUE
      BY <1>2, <1>3, <1>8 DEF TracksPlan
    <2> QED BY <2>1, <2>2, <2>3, <2>4 DEF HeaderPasses
  <1>11. w.problems = {}
    BY <1>2, <1>8 DEF TracksProblems
  <1>12. w.terminals = 1 /\ w.terminalAt = N /\ w.counts = Counts(s)
    <2>1. N \in 1 .. N /\ L[N].type \in Terminals /\ L[N].counts = Counts(s)
      BY <1>2, <1>3 DEF IsTerminal
    <2>2. w.terminals # 0 /\ w.terminals \in Nat
      BY <1>8, <2>1 DEF TracksEnd
    <2>3. ~(w.terminals > 1)
      BY <1>4, <1>8 DEF TracksEnd
    <2>4. w.terminals = 1 /\ w.terminals > 0
      BY <2>2, <2>3
    <2> QED BY <1>8, <2>1, <2>4 DEF TracksEnd
  <1>13. TerminalPasses(w)
    BY <1>9, <1>12 DEF TerminalPasses
  <1>14. CountsPass(w)
    <2>1. w.probes + w.spanProbes = Cardinality(Reported(s))
      BY <1>2, <1>5, <1>6, <1>8 DEF TracksSums
    <2> QED BY <1>12, <2>1, CountsAgree DEF CountsPass
  <1>15. Passes(w)
    BY <1>9, <1>10, <1>11, <1>13, <1>14 DEF Passes
  <1> QED BY <1>15, ProblemsAre

-----------------------------------------------------------------------------
(* The edits of a list.                                                    *)

LostAt(s, k) == RemoveAt(s, k)
TwiceAt(s, k) == InsertAt(s, k, s[k])
SwappedAt(s, k) == [s EXCEPT ![k] = s[k + 1], ![k + 1] = s[k]]
PutAt(s, k, e) == [s EXCEPT ![k] = e]

(* The lines in front of the k-th.                                         *)
LEMMA ListFront ==
  ASSUME NEW n, NEW s, IsListOf(s, n), NEW k \in 1 .. n
  PROVE  /\ IsListOf(SubSeq(s, 1, k - 1), k - 1)
         /\ \A j \in 1 .. (k - 1) : SubSeq(s, 1, k - 1)[j] = s[j]
  <1> DEFINE p == k - 1
  <1>1. n \in Nat /\ p \in Nat /\ 1 <= p + 1 /\ p <= n /\ 1 \in Nat /\ 1 >= 1 /\ p - 1 + 1 = p
        /\ \A j \in 1 .. p : 1 + j - 1 = j
    BY DEF IsListOf
  <1> HIDE DEF p
  <1>2. /\ IsListOf(SubSeq(s, 1, p), p - 1 + 1)
        /\ \A j \in 1 .. (p - 1 + 1) : SubSeq(s, 1, p)[j] = s[1 + j - 1]
    BY <1>1, ListPart
  <1>3. \A j \in 1 .. p : SubSeq(s, 1, p)[j] = s[j]
    BY <1>1, <1>2
  <1> QED BY <1>1, <1>2, <1>3 DEF p

(* A list without its k-th value.                                          *)
LEMMA RemovedIs ==
  ASSUME NEW n, NEW s, IsListOf(s, n), NEW k \in 1 .. n
  PROVE  /\ IsListOf(LostAt(s, k), n - 1)
         /\ \A j \in 1 .. (n - 1) : LostAt(s, k)[j] = IF j < k THEN s[j] ELSE s[j + 1]
  <1> DEFINE a == SubSeq(s, 1, k - 1)
             b == SubSeq(s, k + 1, n)
             p == k - 1
             q == n - k
             L == LostAt(s, k)
  <1>0. n \in Nat /\ k \in Nat /\ k >= 1 /\ k <= n /\ p \in Nat /\ q \in Nat /\ p + q = n - 1
        /\ Len(s) = n
    BY ListIsSequence DEF IsListOf
  <1>1. IsListOf(a, p) /\ \A j \in 1 .. p : a[j] = s[j]
    BY ListFront
  <1>2. IsListOf(b, q) /\ \A j \in 1 .. q : b[j] = s[k + j]
    <2>1. /\ IsListOf(SubSeq(s, k + 1, n), n - (k + 1) + 1)
          /\ \A j \in 1 .. (n - (k + 1) + 1) : SubSeq(s, k + 1, n)[j] = s[(k + 1) + j - 1]
      BY <1>0, ListPart
    <2>2. n - (k + 1) + 1 = q
      BY <1>0
    <2>3. \A j \in 1 .. q : (k + 1) + j - 1 = k + j
      BY <1>0
    <2> QED BY <2>1, <2>2, <2>3
  <1>3. L = Chain(a, b)
    BY <1>0 DEF LostAt, RemoveAt, Chain
  <1>p. p = k - 1 /\ q = n - k
    OBVIOUS
  <1> HIDE DEF L, a, b, p, q
  <1>4. /\ IsListOf(L, p + q) /\ (\A j \in 1 .. p : L[j] = a[j])
        /\ \A j \in 1 .. q : L[p + j] = b[j]
    BY <1>1, <1>2, <1>3, ChainIs
  <1>5. ASSUME NEW j \in 1 .. (n - 1) PROVE L[j] = IF j < k THEN s[j] ELSE s[j + 1]
    <2>1. CASE j < k
      <3>1. j \in 1 .. p
        BY <1>0, <1>p, <2>1
      <3> QED BY <1>1, <1>4, <2>1, <3>1
    <2>2. CASE ~(j < k)
      <3> DEFINE i == j - p
      <3>1. i \in 1 .. q /\ p + i = j /\ k + i = j + 1
        BY <1>0, <1>p, <2>2
      <3> HIDE DEF i
      <3> QED BY <1>2, <1>4, <2>2, <3>1
    <2> QED BY <2>1, <2>2
  <1> QED BY <1>0, <1>4, <1>5 DEF L

(* A line written twice stands next to itself.                             *)
LEMMA InsertedIs ==
  ASSUME NEW n, NEW s, IsListOf(s, n), NEW k \in 1 .. n
  PROVE  /\ IsListOf(TwiceAt(s, k), n + 1)
         /\ TwiceAt(s, k)[k] = s[k] /\ TwiceAt(s, k)[k + 1] = s[k]
         /\ \A j \in 1 .. (n + 1) : \E i \in 1 .. n : TwiceAt(s, k)[j] = s[i]
  <1> DEFINE a == SubSeq(s, 1, k - 1)
             b == SubSeq(s, k, n)
             p == k - 1
             q == n - k + 1
             L == TwiceAt(s, k)
  <1>0. /\ n \in Nat /\ k \in Nat /\ k >= 1 /\ k <= n /\ p \in Nat /\ q \in Nat
        /\ p + 1 = k /\ k + q = n + 1 /\ q >= 1 /\ Len(s) = n /\ k + 1 \in Nat
    BY ListIsSequence DEF IsListOf
  <1>1. IsListOf(a, p) /\ \A j \in 1 .. p : a[j] = s[j]
    BY ListFront
  <1>2. IsListOf(b, q) /\ \A j \in 1 .. q : b[j] = s[p + j]
    <2>1. /\ IsListOf(SubSeq(s, k, n), n - k + 1)
          /\ \A j \in 1 .. (n - k + 1) : SubSeq(s, k, n)[j] = s[k + j - 1]
      <3>1. n \in Nat /\ k \in Nat /\ k >= 1 /\ k <= n + 1 /\ n <= n
        BY <1>0
      <3> HIDE DEF a, b, p, q, L
      <3> QED BY <3>1, ListPart
    <2>2. IsListOf(b, q)
      BY <2>1
    <2>3. ASSUME NEW j \in 1 .. q PROVE b[j] = s[p + j]
      <3> DEFINE i == p + j
      <3>1. k + j - 1 = i
        BY <1>0
      <3> HIDE DEF i
      <3>2. b[j] = s[i]
        BY <2>1, <3>1
      <3> QED BY <3>2 DEF i
    <2> QED BY <2>2, <2>3
  <1>3. L = Chain(Chain(a, <<s[k]>>), b)
    BY <1>0 DEF TwiceAt, InsertAt, Chain
  <1>4. IsListOf(<<s[k]>>, 1) /\ <<s[k]>>[1] = s[k]
    BY OneIsList
  <1> DEFINE one == <<s[k]>>
             c == Chain(a, one)
  <1>h. L = Chain(c, b) /\ IsListOf(one, 1) /\ one[1] = s[k]
    BY <1>3, <1>4
  <1> HIDE DEF L, a, b, p, q, one
  <1>5. /\ IsListOf(c, p + 1) /\ (\A j \in 1 .. p : c[j] = a[j])
        /\ \A j \in 1 .. 1 : c[p + j] = one[j]
    BY <1>1, <1>h, ChainIs
  <1> HIDE DEF c
  <1>6. IsListOf(c, k) /\ c[k] = s[k] /\ \A j \in 1 .. p : c[j] = s[j]
    BY <1>0, <1>1, <1>5, <1>h
  <1>7. /\ IsListOf(L, k + q) /\ (\A j \in 1 .. k : L[j] = c[j])
        /\ \A j \in 1 .. q : L[k + j] = b[j]
    BY <1>2, <1>6, <1>h, ChainIs
  <1>8. L[k] = s[k] /\ L[k + 1] = s[k]
    <2>1. k \in 1 .. k /\ 1 \in 1 .. q
      BY <1>0
    <2>2. L[k + 1] = b[1] /\ b[1] = s[p + 1]
      BY <1>2, <1>7, <2>1
    <2> QED BY <1>0, <1>6, <1>7, <2>1, <2>2
  <1>9. ASSUME NEW j \in 1 .. (n + 1) PROVE \E i \in 1 .. n : L[j] = s[i]
    <2>1. CASE j \in 1 .. p
      <3>1. j \in 1 .. k /\ j \in 1 .. n
        BY <1>0, <2>1
      <3> QED BY <1>6, <1>7, <2>1, <3>1
    <2>2. CASE j = k
      BY <1>8, <2>2
    <2>3. CASE j > k
      <3> DEFINE i == j - k
                 r == p + i
      <3>1. i \in 1 .. q /\ k + i = j /\ r \in 1 .. n
        BY <1>0, <2>3
      <3>r. r = p + i
        OBVIOUS
      <3> HIDE DEF i, r
      <3>2. L[j] = s[r]
        BY <1>2, <1>7, <3>1, <3>r
      <3> QED BY <3>1, <3>2
    <2>4. j \in 1 .. p \/ j = k \/ j > k
      BY <1>0
    <2> QED BY <2>1, <2>2, <2>3, <2>4
  <1> QED BY <1>0, <1>7, <1>8, <1>9 DEF L

(* One line is another.                                                    *)
LEMMA PutIs ==
  ASSUME NEW n, NEW s, IsListOf(s, n), NEW k \in 1 .. n, NEW e
  PROVE  /\ IsListOf(PutAt(s, k, e), n) /\ PutAt(s, k, e)[k] = e
         /\ \A j \in 1 .. n : j # k => PutAt(s, k, e)[j] = s[j]
  BY DEF IsListOf, PutAt

(* A list with two neighbours exchanged.                                   *)
LEMMA SwappedIs ==
  ASSUME NEW n, NEW s, IsListOf(s, n), NEW k \in 1 .. (n - 1)
  PROVE  /\ IsListOf(SwappedAt(s, k), n)
         /\ SwappedAt(s, k)[k] = s[k + 1] /\ SwappedAt(s, k)[k + 1] = s[k]
         /\ \A j \in 1 .. n : \E i \in 1 .. n : SwappedAt(s, k)[j] = s[i]
  <1> DEFINE m == k + 1
             L == SwappedAt(s, k)
  <1>1. m \in 1 .. n /\ k \in 1 .. n /\ m # k /\ L = [s EXCEPT ![k] = s[m], ![m] = s[k]]
    BY DEF IsListOf, SwappedAt
  <1> HIDE DEF m, L
  <1>2. IsListOf(L, n)
    BY <1>1 DEF IsListOf
  <1>3. L[k] = s[m] /\ L[m] = s[k] /\ \A j \in 1 .. n : j # k /\ j # m => L[j] = s[j]
    BY <1>1 DEF IsListOf
  <1>4. \A j \in 1 .. n : \E i \in 1 .. n : L[j] = s[i]
    BY <1>1, <1>3
  <1> QED BY <1>2, <1>3, <1>4 DEF m, L

-----------------------------------------------------------------------------
(* A record that passes.                                                   *)

Plain(L, N) == \A j \in 1 .. N : L[j].type = "scan_config" => L[j].planned = Planned

(* What such a record is then known to be.                                 *)
Passed(L, N, w) ==
  /\ Clean(L, N) /\ w.events = N
  /\ L[1].type = "scan_started" /\ L[2].type = "scan_config"
  /\ w.version = L[1].version /\ w.seed = L[2].seed /\ w.sawConfig = TRUE
  /\ \A k \in 1 .. N : Sound(L, k)
  /\ L[N].type \in Terminals /\ w.counts = L[N].counts
  /\ w.spans > 0 /\ L[1].version >= 2 => L[2].seed
  /\ w.spans \in Nat /\ (w.spans = 0 <=> \A k \in 1 .. N : L[k].type # "probe_span")
  /\ L[1].version = None \/ L[1].version \in SupportedVersions
  /\ (\A k \in 1 .. N : Counting(L[k])) =>
       w.probes + w.spanProbes = Cardinality(Held(First(L, N)))
  /\ CountsPass(w)

(* What a file that passes is then known to be.                            *)
LEMMA PassedIs ==
  ASSUME NEW N \in Nat, N >= 2, NEW L, NEW w, Tracks(L, N, w), Passes(w), Plain(L, N)
  PROVE  Passed(L, N, w)
  <1>1. w.bad = 0 /\ Clean(L, N) /\ w.events = N
    BY DEF Tracks, TracksCount, Passes
  <1>2. TracksHead(L, N, w) /\ TracksEnd(L, N, w) /\ TracksSums(L, N, w)
        /\ (Headed(L, N) => TracksPlan(L, N, w) /\ TracksProblems(L, N, w))
    BY <1>1 DEF Tracks
  <1>3. HeaderPasses(w) /\ TerminalPasses(w) /\ CountsPass(w) /\ w.problems = {}
    BY DEF Passes
  <1>4. w.first = "scan_started" /\ w.second = "scan_config" /\ 1 \in 1 .. N /\ 2 \in 1 .. N
        /\ N >= 1
    BY <1>1, <1>3 DEF HeaderPasses
  <1>5. L[1].type = "scan_started" /\ L[2].type = "scan_config" /\ w.version = L[1].version
    BY <1>2, <1>4 DEF TracksHead
  <1>6. Headed(L, N)
    BY <1>4, <1>5 DEF Headed, Plain
  <1>7. TracksPlan(L, N, w) /\ TracksProblems(L, N, w)
    BY <1>2, <1>6
  <1>8. w.sawConfig = TRUE /\ w.seed = L[2].seed
    BY <1>7 DEF TracksPlan
  <1>9. \A k \in 1 .. N : Sound(L, k)
    BY <1>3, <1>7 DEF TracksProblems
  <1>10. w.terminals = 1 /\ w.terminals > 0 /\ w.terminalAt = N
    <2>1. w.terminals \in Nat /\ w.terminals # 0 /\ ~(w.terminals > 1)
      BY <1>2, <1>3 DEF TracksEnd, TerminalPasses
    <2>2. w.terminals = 1
      BY <2>1
    <2> QED BY <1>1, <1>3, <2>2 DEF TerminalPasses
  <1>11. L[N].type \in Terminals /\ w.counts = L[N].counts
    BY <1>2, <1>10 DEF TracksEnd
  <1>12. ASSUME w.spans > 0, L[1].version >= 2 PROVE L[2].seed
    BY <1>3, <1>5, <1>8, <1>12 DEF HeaderPasses
  <1>13. L[1].version = None \/ L[1].version \in SupportedVersions
    BY <1>3, <1>5 DEF HeaderPasses
  <1>14. /\ w.spans \in Nat /\ (w.spans = 0 <=> \A k \in 1 .. N : L[k].type # "probe_span")
         /\ (\A k \in 1 .. N : Counting(L[k])) =>
              w.probes + w.spanProbes = Cardinality(Held(First(L, N)))
    BY <1>2 DEF TracksSums
  <1> QED BY <1>1, <1>3, <1>5, <1>8, <1>9, <1>11, <1>12, <1>13, <1>14 DEF Passed

(* The sequence numbers of a record that passes rise.                      *)
LEMMA PassedRises ==
  ASSUME NEW N \in Nat, NEW L, NEW k \in 1 .. (N - 1), \A j \in 1 .. N : Sound(L, j)
  PROVE  ~(L[k + 1].seq <= L[k].seq)
  <1> DEFINE m == k + 1
  <1>1. m \in 1 .. N /\ m # 1 /\ m - 1 = k
    OBVIOUS
  <1> HIDE DEF m
  <1>2. ~(L[m].seq <= Previous(L, m)) /\ Previous(L, m) = L[k].seq
    BY <1>1 DEF Sound, InSequence, Previous
  <1> QED BY <1>2 DEF m

-----------------------------------------------------------------------------
(* Every edit but three is found out.                                      *)

(* A row or a span that is lost is missing from the sum.                   *)
LEMMA LostIsMissed ==
  ASSUME NEW n, NEW s, IsListOf(s, n), \A j \in 1 .. n : IsFiniteSet(Entries(s[j])),
         NEW k \in 1 .. n, Entries(s[k]) # {}
  PROVE  /\ Cardinality(Held(LostAt(s, k))) \in Nat
         /\ Cardinality(Held(LostAt(s, k))) # Cardinality(Held(s))
  <1> DEFINE L == LostAt(s, k)
             m == n - 1
             A == Held(L)
             B == Held(s)
             up(j) == IF j < k THEN j ELSE j + 1
             f == [p \in A |-> <<up(p[1]), p[2]>>]
             I == {f[p] : p \in A}
  <1>1. IsListOf(L, m) /\ \A j \in 1 .. m : L[j] = s[up(j)]
    BY RemovedIs
  <1>2. n \in Nat /\ \A j \in 1 .. m : up(j) \in 1 .. n /\ up(j) # k
    BY DEF IsListOf
  <1>3. \A i, j \in 1 .. m : up(i) = up(j) => i = j
    BY <1>2
  <1> HIDE DEF L, m, up
  <1>4. IsFiniteSet(A) /\ Cardinality(A) \in Nat
    <2>1. \A j \in 1 .. m : IsFiniteSet(Entries(L[j]))
      BY <1>1, <1>2
    <2> QED BY <1>1, <2>1, HeldIsFinite
  <1>5. IsFiniteSet(B) /\ Cardinality(B) \in Nat
    BY HeldIsFinite
  <1>6. PICK x \in Entries(s[k]) : TRUE
    OBVIOUS
  <1>7. <<k, x>> \in B
    BY <1>6, InHeld
  <1>8. \A p \in A : p[1] \in 1 .. m /\ p = <<p[1], p[2]>> /\ p[2] \in Entries(L[p[1]])
    <2>1. ASSUME NEW p \in A
          PROVE p[1] \in 1 .. m /\ p = <<p[1], p[2]>> /\ p[2] \in Entries(L[p[1]])
      <3>1. PICK j \in DOMAIN L : p \in {j} \X Entries(L[j])
        BY <2>1 DEF Held
      <3> QED BY <1>1, <3>1 DEF IsListOf
    <2> QED BY <2>1
  <1>9. \A p \in A : f[p] \in B /\ f[p] # <<k, x>> /\ f[p][1] = up(p[1]) /\ f[p][2] = p[2]
    <2>1. ASSUME NEW p \in A PROVE f[p] \in B /\ f[p] # <<k, x>>
      <3>1. up(p[1]) \in 1 .. n /\ up(p[1]) # k /\ p[2] \in Entries(s[up(p[1])])
        BY <1>1, <1>2, <1>8
      <3>2. <<up(p[1]), p[2]>> \in B
        BY <3>1, InHeld
      <3> QED BY <3>1, <3>2
    <2>2. \A p \in A : f[p][1] = up(p[1]) /\ f[p][2] = p[2]
      OBVIOUS
    <2> QED BY <2>1, <2>2
  <1>10. f \in [A -> I] /\ \A y \in I : \E p \in A : f[p] = y
    OBVIOUS
  <1> HIDE DEF f
  <1>11. \A p, q \in A : f[p] = f[q] => p = q
    BY <1>3, <1>8, <1>9
  <1>12. I \subseteq B \ {<<k, x>>}
    BY <1>9
  <1> HIDE DEF I
  <1>13. IsFiniteSet(I) /\ Cardinality(I) = Cardinality(A)
    BY <1>4, <1>10, <1>11, Matched
  <1> HIDE DEF A, B
  <1>14. IsFiniteSet(B \ {<<k, x>>}) /\ Cardinality(B \ {<<k, x>>}) = Cardinality(B) - 1
    BY <1>5, <1>7, FS_RemoveElement
  <1>15. Cardinality(I) <= Cardinality(B \ {<<k, x>>})
    BY <1>12, <1>14, FS_Subset
  <1>16. Cardinality(A) # Cardinality(B)
    BY <1>4, <1>5, <1>13, <1>14, <1>15
  <1> QED BY <1>4, <1>16 DEF A, B, L

(* What a malformed value makes of a line: the checks of that line, or of  *)
(* the file, find it.                                                      *)
RaisedCount(s, x) == \E c \in DOMAIN Counts(s) : x.counts = [Counts(s) EXCEPT ![c] = @ + 1]

Shows(s, k, x) ==
  \/ Caught(x, PlanAt(k))
  \/ k = 1 /\ x.version = 9
  \/ k = 2 /\ x = [Whole(s)[2] EXCEPT !.seed = FALSE]
  \/ k = LineCount(s, 1) /\ RaisedCount(s, x)

(* A harm to the envelope leaves what is the event's own.                  *)
LEMMA EnvelopeShows ==
  ASSUME NEW e, NEW names, Fields(e, names), "type" \in names, NEW x \in EnvelopeHarm(e),
         e.type = "scan_config" => "planned" \in names,
         e.type = "probe_span" => "ranges" \in names, NEW plan
  PROVE  /\ Caught(x, plan) /\ x.type = e.type /\ Entries(x) = Entries(e)
         /\ e.type = "scan_config" => x.planned = e.planned
  <1>1. (\A f \in names : f \notin EnvelopeFields => x[f] = e[f]) /\ Caught(x, plan)
    BY EnvelopeHarmed
  <1>2. {"type", "planned", "ranges"} \intersect EnvelopeFields = {}
    BY DEF EnvelopeFields
  <1>3. x.type = e.type /\ (e.type = "scan_config" => x.planned = e.planned)
        /\ (e.type = "probe_span" => x.ranges = e.ranges)
    BY <1>1, <1>2
  <1>4. Entries(x) = Entries(e)
    <2>1. CASE e.type = "probe_result"
      BY <1>3, <2>1 DEF Entries
    <2>2. CASE e.type = "probe_span"
      BY <1>3, <2>2 DEF Entries
    <2>3. CASE e.type \notin {"probe_result", "probe_span"}
      BY <1>3, <2>3 DEF Entries
    <2> QED BY <2>1, <2>2, <2>3
  <1> QED BY <1>1, <1>3, <1>4

(* A malformed value shows: in its line, or in the file.                   *)
LEMMA MalformedShows ==
  ASSUME NEW s \in Scans, NEW k \in 1 .. LineCount(s, 1), NEW x \in Malformed(Whole(s)[k])
  PROVE  /\ Shows(s, k, x) /\ x.type = Whole(s)[k].type
         /\ x.type = "scan_config" => x.planned = Planned
         /\ IsFiniteSet(Entries(x))
         /\ k = LineCount(s, 1) => Entries(x) = Entries(Whole(s)[k])
  <1> DEFINE L == Whole(s)
             m == RowCount(s)
             N == LineCount(s, 1)
             e == L[k]
  <1>1. /\ IsListOf(L, N) /\ N \in Nat /\ N >= 4
        /\ IsStarted(L[1], s) /\ Fields(L[1], {"type", "version"})
        /\ IsConfig(L[2], s) /\ Fields(L[2], {"type", "planned", "mode", "seed"})
        /\ \A j \in 1 .. m : IsRow(L[2 + j], s, Rows(s)[j]) /\ Fields(L[2 + j], RowFields)
        /\ L[3 + m].type = "scan_progress" /\ Fields(L[3 + m], {"type"})
        /\ \A j \in 1 .. SpanCount(s) :
             IsSpan(L[3 + m + j], s, Spans(s)[j]) /\ Fields(L[3 + m + j], SpanFields)
        /\ IsTerminal(L[N], s) /\ Fields(L[N], {"type", "counts"})
    BY WholeLines
  <1>2. x \in EnvelopeHarm(e) \/ x \in Misvalued(e)
    BY DEF Malformed, EnvelopeHarm
  <1>3. IsFiniteSet(Entries(e)) /\ (e.type \notin {"probe_result", "probe_span"} => Entries(e) = {})
    BY WholeFits, EntriesOfScan
  <1>n. m \in Nat /\ SpanCount(s) \in Nat /\ N = 4 + m + SpanCount(s)
    <2>1. RowCount(s) \in Nat /\ SpanCount(s) \in Nat
      BY SpannedIs
    <2> QED BY <2>1 DEF LineCount
  <1>l. \/ k = 1 \/ k = 2 \/ (\E j \in 1 .. m : k = 2 + j) \/ k = 3 + m
        \/ (\E j \in 1 .. SpanCount(s) : k = 3 + m + j) \/ k = N
    <2>1. \/ k = 1 \/ k = 2 \/ (\E j \in 1 .. m : k = 2 + j) \/ (1 = 1 /\ k = 3 + m)
          \/ (\E j \in 1 .. SpanCount(s) : k = 2 + 1 + m + j) \/ k = N
      BY EachLine
    <2>2. 2 + 1 + m = 3 + m
      BY <1>n
    <2> QED BY <2>1, <2>2
  <1> DEFINE Goal == /\ Shows(s, k, x) /\ x.type = e.type
                     /\ x.type = "scan_config" => x.planned = Planned
                     /\ IsFiniteSet(Entries(x)) /\ (k = N => Entries(x) = Entries(e))
  <1>g. SUFFICES Goal
    OBVIOUS
  <1> HIDE DEF L, m, N
  <1>env. ASSUME NEW names, Fields(e, names), "type" \in names, x \in EnvelopeHarm(e),
                 e.type = "scan_config" => "planned" \in names /\ e.planned = Planned,
                 e.type = "probe_span" => "ranges" \in names
          PROVE  Goal
    <2>1. /\ Caught(x, PlanAt(k)) /\ x.type = e.type /\ Entries(x) = Entries(e)
          /\ e.type = "scan_config" => x.planned = e.planned
      <3> HIDE DEF e
      <3> QED BY <1>env, EnvelopeShows
    <2> QED BY <1>3, <1>env, <2>1 DEF Shows
  <1>4. CASE k = 1
    <2>1. Fields(e, {"type", "version"}) /\ e.type = "scan_started"
      BY <1>1, <1>4 DEF IsStarted
    <2>2. CASE x \in EnvelopeHarm(e)
      BY <1>env, <2>1, <2>2
    <2>3. CASE x \in Misvalued(e)
      <3>1. x = [e EXCEPT !.version = 9]
        BY <2>1, <2>3 DEF Misvalued, Terminals
      <3>2. {"type", "version"} \subseteq DOMAIN e
        BY <2>1 DEF Fields
      <3>3. x.version = 9 /\ x.type = "scan_started"
        BY <2>1, <3>1, <3>2
      <3>4. Entries(x) = {}
        BY <3>3 DEF Entries
      <3>5. IsFiniteSet(Entries(x)) /\ Entries(x) = Entries(e)
        BY <1>3, <2>1, <3>4, FS_EmptySet
      <3> QED BY <1>4, <2>1, <3>3, <3>5 DEF Shows
    <2> QED BY <1>2, <2>2, <2>3
  <1>5. CASE k = 2
    <2>1. Fields(e, {"type", "planned", "mode", "seed"}) /\ e.type = "scan_config"
          /\ e.planned = Planned
      BY <1>1, <1>5 DEF IsConfig
    <2>2. CASE x \in EnvelopeHarm(e)
      BY <1>env, <2>1, <2>2
    <2>3. CASE x \in Misvalued(e)
      <3>1. x = [e EXCEPT !.seed = FALSE]
        BY <2>1, <2>3 DEF Misvalued, Terminals
      <3>2. {"type", "planned"} \subseteq DOMAIN e
        BY <2>1 DEF Fields
      <3>3. x.planned = Planned /\ x.type = "scan_config"
        BY <2>1, <3>1, <3>2
      <3>4. Entries(x) = {}
        BY <3>3 DEF Entries
      <3>5. IsFiniteSet(Entries(x)) /\ Entries(x) = Entries(e)
        BY <1>3, <2>1, <3>4, FS_EmptySet
      <3>6. x = [Whole(s)[2] EXCEPT !.seed = FALSE]
        BY <1>5, <3>1 DEF L
      <3> QED BY <1>5, <2>1, <3>3, <3>5, <3>6 DEF Shows
    <2> QED BY <1>2, <2>2, <2>3
  <1>6. CASE \E j \in 1 .. m : k = 2 + j
    <2>1. PICK j \in 1 .. m : k = 2 + j
      BY <1>6
    <2>2. IsRow(e, s, Rows(s)[j]) /\ Fields(e, RowFields)
      BY <1>1, <2>1
    <2>3. e.type = "probe_result" /\ k # N /\ k # 1
      BY <1>n, <2>1, <2>2 DEF IsRow
    <2>4. CASE x \in EnvelopeHarm(e)
      <3>1. "type" \in RowFields
        BY DEF RowFields
      <3> QED BY <1>env, <2>2, <2>3, <2>4, <3>1
    <2>5. CASE x \in Misvalued(e)
      <3>1. x \in MisvaluedRow(e)
        BY <2>3, <2>5 DEF Misvalued, Terminals
      <3>2. Rows(s)[j] \in Alone(s)
        BY <2>1, SpannedIs DEF m
      <3>3. x.type = "probe_result" /\ Values(Planned, x) # {}
        BY <2>2, <3>1, <3>2, RowHarmed
      <3>4. PlanAt(k) = Planned
        BY <2>3 DEF PlanAt
      <3>5. Shows(s, k, x)
        BY <3>3, <3>4 DEF Shows, Caught
      <3>6. IsFiniteSet(Entries(x))
        BY <3>3, FS_Singleton DEF Entries
      <3> QED BY <2>3, <3>3, <3>5, <3>6
    <2> QED BY <1>2, <2>4, <2>5
  <1>7. CASE k = 3 + m
    <2>1. Fields(e, {"type"}) /\ e.type = "scan_progress" /\ k # N
      BY <1>1, <1>n, <1>7
    <2>2. x \in EnvelopeHarm(e)
      BY <1>2, <2>1 DEF Misvalued, Terminals
    <2> QED BY <1>env, <2>1, <2>2
  <1>8. CASE \E j \in 1 .. SpanCount(s) : k = 3 + m + j
    <2>1. PICK j \in 1 .. SpanCount(s) : k = 3 + m + j
      BY <1>8
    <2>2. IsSpan(e, s, Spans(s)[j]) /\ Fields(e, SpanFields)
      BY <1>1, <2>1
    <2>3. e.type = "probe_span" /\ k # N /\ k # 1
      BY <1>n, <2>1, <2>2 DEF IsSpan
    <2>4. CASE x \in EnvelopeHarm(e)
      <3>1. "type" \in SpanFields /\ "ranges" \in SpanFields
        BY DEF SpanFields
      <3> QED BY <1>env, <2>2, <2>3, <2>4, <3>1
    <2>5. CASE x \in Misvalued(e)
      <3>1. x \in MisvaluedSpan(e)
        BY <2>3, <2>5 DEF Misvalued, Terminals
      <3>2. Spans(s)[j] \in Spanned(s)
        BY <2>1, SpannedIs
      <3>3. x.type = "probe_span" /\ Values(Planned, x) # {} /\ IsFiniteSet(Entries(x))
        BY <2>2, <3>1, <3>2, SpanHarmed
      <3>4. PlanAt(k) = Planned
        BY <2>3 DEF PlanAt
      <3>5. Shows(s, k, x)
        BY <3>3, <3>4 DEF Shows, Caught
      <3> QED BY <2>3, <3>3, <3>5
    <2> QED BY <1>2, <2>4, <2>5
  <1>9. CASE k = N
    <2>1. Fields(e, {"type", "counts"}) /\ e.type \in Terminals /\ e.counts = Counts(s)
      BY <1>1, <1>9 DEF IsTerminal
    <2>2. e.type \notin {"scan_config", "scan_started", "probe_span", "probe_result"}
      BY <2>1 DEF Terminals
    <2>3. CASE x \in EnvelopeHarm(e)
      BY <1>env, <2>1, <2>2, <2>3
    <2>4. CASE x \in Misvalued(e)
      <3>1. PICK c \in DOMAIN e.counts : x = [e EXCEPT !.counts[c] = @ + 1]
        BY <2>1, <2>2, <2>4 DEF Misvalued
      <3>2. {"type", "counts"} \subseteq DOMAIN e
        BY <2>1 DEF Fields
      <3>3. x.type = e.type /\ x.counts = [e.counts EXCEPT ![c] = @ + 1]
        BY <3>1, <3>2
      <3>4. Entries(x) = {}
        BY <2>2, <3>3 DEF Entries
      <3>5. IsFiniteSet(Entries(x)) /\ Entries(x) = Entries(e)
        BY <1>3, <2>2, <3>4, FS_EmptySet
      <3>6. RaisedCount(s, x)
        BY <2>1, <3>1, <3>3 DEF RaisedCount
      <3>7. Shows(s, k, x)
        BY <1>9, <3>6 DEF Shows, N
      <3> QED BY <2>2, <3>3, <3>5, <3>7
    <2> QED BY <1>2, <2>3, <2>4
  <1> QED BY <1>l, <1>4, <1>5, <1>6, <1>7, <1>8, <1>9

LostLine(W, N, L) == \E k \in 1 .. N : L = LostAt(W, k)
TwiceLine(W, N, L) == \E k \in 1 .. N : L = TwiceAt(W, k)
SwappedLine(W, N, L) == \E k \in 1 .. (N - 1) : L = SwappedAt(W, k)
UnreadLine(W, N, L) == \E k \in 1 .. N : L = PutAt(W, k, Garbled) \/ L = PutAt(W, k, Torn)
MalformedLine(W, N, L) ==
  \E k \in 1 .. N : \E x \in Malformed(W[k]) : L = PutAt(W, k, x)

(* The edits, one kind after the other.                                    *)
LEMMA EditIs ==
  ASSUME NEW N, NEW W, IsListOf(W, N), NEW L \in Edits(W)
  PROVE  \/ LostLine(W, N, L) \/ TwiceLine(W, N, L) \/ SwappedLine(W, N, L)
         \/ UnreadLine(W, N, L) \/ MalformedLine(W, N, L)
  <1>1. DOMAIN W = 1 .. N /\ Len(W) = N
    BY ListIsSequence DEF IsListOf
  <1>2. Edits(W) = {LostAt(W, k) : k \in 1 .. N} \union {TwiceAt(W, k) : k \in 1 .. N}
          \union {SwappedAt(W, k) : k \in 1 .. (N - 1)}
          \union {PutAt(W, k, Garbled) : k \in 1 .. N}
          \union {PutAt(W, k, Torn) : k \in 1 .. N}
          \union UNION {{PutAt(W, k, e) : e \in Malformed(W[k])} : k \in 1 .. N}
    BY <1>1 DEF Edits, LostAt, TwiceAt, SwappedAt, PutAt
  <1> QED BY <1>2 DEF LostLine, TwiceLine, SwappedLine, UnreadLine, MalformedLine

(* What a damaged file is made of: lines of the record, unreadable ones    *)
(* and a malformed one.                                                    *)
MadeOf(s, e) ==
  \/ \E i \in 1 .. LineCount(s, 1) : e = Whole(s)[i]
  \/ e = Garbled \/ e = Torn
  \/ \E i \in 1 .. LineCount(s, 1) : e \in Malformed(Whole(s)[i])

(* A line made of the record's holds finitely many results.                *)
LEMMA MadeOfIs ==
  ASSUME NEW s \in Scans, NEW e, MadeOf(s, e)
  PROVE  /\ IsFiniteSet(Entries(e))
         /\ e.type = "scan_config" => e.planned = Planned
  <1>1. CASE \E i \in 1 .. LineCount(s, 1) : e = Whole(s)[i]
    <2>1. PICK i \in 1 .. LineCount(s, 1) : e = Whole(s)[i]
      BY <1>1
    <2>2. Fits(Whole(s), s, 1)
      BY WholeFits
    <2>3. e.type = "scan_config" => i = 2
      BY <2>1, <2>2, LineKinds
    <2>4. Whole(s)[2].planned = Planned
      BY WholeLines DEF IsConfig
    <2> QED BY <2>1, <2>2, <2>3, <2>4, EntriesOfScan
  <1>2. CASE e = Garbled \/ e = Torn
    <2>1. e.type \notin {"probe_result", "probe_span", "scan_config"}
      BY <1>2 DEF Garbled, Torn
    <2>2. Entries(e) = {}
      BY <2>1 DEF Entries
    <2> QED BY <2>1, <2>2, FS_EmptySet
  <1>3. CASE \E i \in 1 .. LineCount(s, 1) : e \in Malformed(Whole(s)[i])
    BY <1>3, MalformedShows
  <1> QED BY <1>1, <1>2, <1>3 DEF MadeOf

(* An edited record is a list of such lines.                               *)
LEMMA EditedIs ==
  ASSUME NEW s \in Scans, NEW L \in Edits(Whole(s))
  PROVE  /\ IsListOf(L, Len(L)) /\ Len(L) >= 3
         /\ \A j \in 1 .. Len(L) : MadeOf(s, L[j])
  <1> DEFINE W == Whole(s)
             N == LineCount(s, 1)
  <1>1. IsListOf(W, N) /\ N \in Nat /\ N >= 4
    BY WholeLines
  <1>d. /\ \A i \in 1 .. N : MadeOf(s, W[i])
        /\ MadeOf(s, Garbled) /\ MadeOf(s, Torn)
        /\ \A i \in 1 .. N : \A x \in Malformed(W[i]) : MadeOf(s, x)
    BY DEF MadeOf
  <1>2. \/ LostLine(W, N, L) \/ TwiceLine(W, N, L) \/ SwappedLine(W, N, L)
        \/ UnreadLine(W, N, L) \/ MalformedLine(W, N, L)
    BY <1>1, EditIs
  <1>w. IsListOf(W, N)
    BY <1>1
  <1> HIDE DEF W, N
  <1>3. SUFFICES \E n : IsListOf(L, n) /\ n >= 3 /\ \A j \in 1 .. n : MadeOf(s, L[j])
    BY ListIsSequence
  <1>4. CASE LostLine(W, N, L)
    <2>1. PICK k \in 1 .. N : L = LostAt(W, k)
      BY <1>4 DEF LostLine
    <2> DEFINE n == N - 1
    <2>2. IsListOf(L, n) /\ \A j \in 1 .. n : L[j] = IF j < k THEN W[j] ELSE W[j + 1]
      BY <1>1, <2>1, RemovedIs
    <2>3. n >= 3 /\ \A j \in 1 .. n : j \in 1 .. N /\ j + 1 \in 1 .. N
      BY <1>1
    <2> HIDE DEF n
    <2>4. \A j \in 1 .. n : MadeOf(s, L[j])
      BY <1>d, <2>2, <2>3
    <2> QED BY <2>2, <2>3, <2>4
  <1>5. CASE TwiceLine(W, N, L)
    <2>1. PICK k \in 1 .. N : L = TwiceAt(W, k)
      BY <1>5 DEF TwiceLine
    <2> DEFINE n == N + 1
    <2>2. IsListOf(L, n) /\ \A j \in 1 .. n : \E i \in 1 .. N : L[j] = W[i]
      <3>1. /\ IsListOf(TwiceAt(W, k), N + 1)
            /\ \A j \in 1 .. (N + 1) : \E i \in 1 .. N : TwiceAt(W, k)[j] = W[i]
        BY <1>w, InsertedIs
      <3> QED BY <2>1, <3>1
    <2>3. n >= 3
      BY <1>1
    <2> HIDE DEF n
    <2>4. \A j \in 1 .. n : MadeOf(s, L[j])
      BY <1>d, <2>2
    <2> QED BY <2>2, <2>3, <2>4
  <1>6. CASE SwappedLine(W, N, L)
    <2>1. PICK k \in 1 .. (N - 1) : L = SwappedAt(W, k)
      BY <1>6 DEF SwappedLine
    <2>2. IsListOf(L, N) /\ \A j \in 1 .. N : \E i \in 1 .. N : L[j] = W[i]
      <3>1. /\ IsListOf(SwappedAt(W, k), N)
            /\ \A j \in 1 .. N : \E i \in 1 .. N : SwappedAt(W, k)[j] = W[i]
        BY <1>w, SwappedIs
      <3> QED BY <2>1, <3>1
    <2>4. \A j \in 1 .. N : MadeOf(s, L[j])
      BY <1>d, <2>2
    <2> QED BY <1>1, <2>2, <2>4
  <1>7. ASSUME NEW k \in 1 .. N, NEW x, MadeOf(s, x), L = PutAt(W, k, x)
        PROVE  \E n : IsListOf(L, n) /\ n >= 3 /\ \A j \in 1 .. n : MadeOf(s, L[j])
    <2>2. IsListOf(L, N) /\ L[k] = x /\ \A j \in 1 .. N : j # k => L[j] = W[j]
      BY <1>1, <1>7, PutIs
    <2>4. \A j \in 1 .. N : MadeOf(s, L[j])
      BY <1>d, <1>7, <2>2
    <2> QED BY <1>1, <2>2, <2>4
  <1>8. CASE UnreadLine(W, N, L)
    <2>1. PICK k \in 1 .. N : L = PutAt(W, k, Garbled) \/ L = PutAt(W, k, Torn)
      BY <1>8 DEF UnreadLine
    <2> QED BY <1>7, <1>d, <2>1
  <1>9. CASE MalformedLine(W, N, L)
    <2>0. PICK k \in 1 .. N : \E x \in Malformed(W[k]) : L = PutAt(W, k, x)
      BY <1>9 DEF MalformedLine
    <2>1. PICK x \in Malformed(W[k]) : L = PutAt(W, k, x)
      BY <2>0
    <2>2. MadeOf(s, x)
      BY <1>d, <2>1
    <2> QED BY <1>7, <2>1, <2>2
  <1> QED BY <1>2, <1>4, <1>5, <1>6, <1>8, <1>9

(* The sum of a lost row or span is missing from what was read.            *)
LEMMA LostShows ==
  ASSUME NEW s \in Scans, NEW k \in 1 .. LineCount(s, 1), Entries(Whole(s)[k]) # {},
         k # LineCount(s, 1)
  PROVE  LET L == LostAt(Whole(s), k)
             n == LineCount(s, 1) - 1
         IN  /\ \A j \in 1 .. n : Counting(L[j])
             /\ L[n] = Whole(s)[LineCount(s, 1)]
             /\ Cardinality(Held(L)) # Cardinality(Reported(s))
  <1> DEFINE W == Whole(s)
             N == LineCount(s, 1)
             n == N - 1
             L == LostAt(W, k)
  <1>1. IsListOf(W, N) /\ N \in Nat /\ N >= 4 /\ W[2].seed = TRUE
    BY WholeLines
  <1>2. \A j \in 1 .. N : Counting(W[j])
    BY WholeFits, FitsIsSound
  <1>3. Cardinality(Held(W)) = Cardinality(Reported(s))
    <2>1. Leads(W, s)
      BY <1>1 DEF Leads
    <2>2. \A i \in Index : s.order[i] = s.order[i]
      OBVIOUS
    <2> QED BY <2>1, <2>2, WholeFits, WalkOfWhole
  <1>k. k \in 1 .. N /\ k # N /\ Entries(W[k]) # {}
    OBVIOUS
  <1>w. IsListOf(W, N)
    BY <1>1
  <1> HIDE DEF W, N
  <1>4. IsListOf(L, n) /\ \A j \in 1 .. n : L[j] = IF j < k THEN W[j] ELSE W[j + 1]
    BY <1>w, <1>k, RemovedIs
  <1>5. Cardinality(Held(L)) # Cardinality(Held(W))
    <2>1. \A j \in 1 .. N : IsFiniteSet(Entries(W[j]))
      BY <1>2 DEF Counting
    <2> QED BY <1>w, <1>k, <2>1, LostIsMissed
  <1> HIDE DEF L
  <1>6. \A j \in 1 .. n : Counting(L[j])
    <2>1. \A j \in 1 .. n : j \in 1 .. N /\ j + 1 \in 1 .. N
      BY <1>1
    <2> QED BY <1>2, <1>4, <2>1
  <1>7. L[n] = W[N]
    <2>1. n \in 1 .. n /\ ~(n < k) /\ n + 1 = N
      BY <1>1, <1>k
    <2> QED BY <1>4, <2>1
  <1> QED BY <1>3, <1>5, <1>6, <1>7 DEF L, W, N

(* A count of the terminal event that is not the scan's.                   *)
LEMMA RaisedShows ==
  ASSUME NEW s \in Scans, NEW x, RaisedCount(s, x), NEW w, w.counts = x.counts,
         w.probes + w.spanProbes = Cardinality(Reported(s))
  PROVE  ~CountsPass(w)
  <1> DEFINE C == Counts(s)
             R == Cardinality(Reported(s))
  <1>1. PICK c \in DOMAIN C : x.counts = [C EXCEPT ![c] = C[c] + 1]
    BY DEF RaisedCount
  <1>2. /\ C.completed = R
        /\ Answers(C) = C.completed
        /\ C.planned = C.completed + C.abandoned + C.not_started
        /\ \A f \in DOMAIN C : C[f] \in Int
        /\ DOMAIN C = {"planned", "completed", "abandoned", "not_started", "open",
                       "closed", "filtered", "error"}
    BY CountsAgree
  <1> HIDE DEF C, R
  <1>3. /\ C.planned \in Int /\ C.completed \in Int /\ C.abandoned \in Int
        /\ C.not_started \in Int /\ C.open \in Int /\ C.closed \in Int /\ C.filtered \in Int
        /\ C.error \in Int /\ C.open + C.closed + C.filtered + C.error = C.completed
    BY <1>2 DEF Answers
  <1> DEFINE D == x.counts
  <1>4. \A f \in DOMAIN C : D[f] = IF f = c THEN C[f] + 1 ELSE C[f]
    BY <1>1
  <1>5. w.probes + w.spanProbes = R /\ w.counts = D
    BY DEF R
  <1> HIDE DEF D
  <1>6. /\ D.planned = IF c = "planned" THEN C.planned + 1 ELSE C.planned
        /\ D.completed = IF c = "completed" THEN C.completed + 1 ELSE C.completed
        /\ D.abandoned = IF c = "abandoned" THEN C.abandoned + 1 ELSE C.abandoned
        /\ D.not_started = IF c = "not_started" THEN C.not_started + 1 ELSE C.not_started
        /\ D.open = IF c = "open" THEN C.open + 1 ELSE C.open
        /\ D.closed = IF c = "closed" THEN C.closed + 1 ELSE C.closed
        /\ D.filtered = IF c = "filtered" THEN C.filtered + 1 ELSE C.filtered
        /\ D.error = IF c = "error" THEN C.error + 1 ELSE C.error
    BY <1>2, <1>4
  <1>7. SUFFICES ASSUME D.completed = R,
                        D.open + D.closed + D.filtered + D.error = D.completed,
                        D.planned = D.completed + D.abandoned + D.not_started
                 PROVE  FALSE
    BY <1>5 DEF CountsPass, Answers
  <1>8. c # "completed"
    BY <1>2, <1>3, <1>6, <1>7
  <1>9. c \notin {"open", "closed", "filtered", "error"}
    BY <1>3, <1>6, <1>7, <1>8
  <1>10. c \notin {"planned", "abandoned", "not_started"}
    BY <1>2, <1>3, <1>6, <1>7, <1>8
  <1> QED BY <1>1, <1>2, <1>8, <1>9, <1>10

(* A record without its progress event is a record of its scan.            *)
LEMMA WithoutProgress ==
  ASSUME NEW s \in Scans
  PROVE  LET L == LostAt(Whole(s), 3 + RowCount(s))
         IN  Fits(L, s, 0) /\ Leads(L, s)
  <1> DEFINE W == Whole(s)
             m == RowCount(s)
             N == LineCount(s, 1)
             n == LineCount(s, 0)
             k == 3 + m
             L == LostAt(W, k)
  <1>1. /\ IsListOf(W, N) /\ N \in Nat /\ N >= 4
        /\ \A j \in 1 .. N : W[j].seq = j - 1 /\ IsWhose(W[j])
        /\ IsStarted(W[1], s) /\ IsConfig(W[2], s) /\ W[2].seed = TRUE
        /\ \A j \in 1 .. m : IsRow(W[2 + j], s, Rows(s)[j])
        /\ \A j \in 1 .. SpanCount(s) : IsSpan(W[3 + m + j], s, Spans(s)[j])
        /\ IsTerminal(W[N], s)
    BY WholeLines
  <1>2. m \in Nat /\ SpanCount(s) \in Nat /\ N = 4 + m + SpanCount(s) /\ n = 3 + m + SpanCount(s)
    <2>1. RowCount(s) \in Nat /\ SpanCount(s) \in Nat
      BY SpannedIs
    <2> QED BY <2>1 DEF LineCount
  <1>3. k \in 1 .. N /\ n = N - 1 /\ IsListOf(W, N)
    BY <1>1, <1>2
  <1>k. k = 3 + m
    OBVIOUS
  <1> HIDE DEF W, m, N, n, k
  <1>4. IsListOf(L, n) /\ \A j \in 1 .. n : L[j] = IF j < k THEN W[j] ELSE W[j + 1]
    BY <1>3, RemovedIs
  <1>g. SUFFICES Fits(L, s, 0) /\ Leads(L, s)
    BY <1>k DEF L, W, k, m
  <1> HIDE DEF L
  <1>5. \A j \in 1 .. n : L[j] = IF j < k THEN W[j] ELSE W[j + 1]
    BY <1>4
  <1>6. \A j \in 1 .. n : j \in 1 .. N /\ j + 1 \in 1 .. N
    BY <1>2
  <1>7. \A j \in 1 .. n : IsWhose(L[j]) /\ L[j].seq = IF j < k THEN j - 1 ELSE j
    <2>1. ASSUME NEW j \in 1 .. n PROVE IsWhose(L[j]) /\ L[j].seq = IF j < k THEN j - 1 ELSE j
      <3> DEFINE i == j + 1
      <3>1. j \in 1 .. N /\ i \in 1 .. N /\ i - 1 = j
        BY <1>6
      <3>2. L[j] = IF j < k THEN W[j] ELSE W[i]
        BY <1>5
      <3> HIDE DEF i
      <3> QED BY <1>1, <3>1, <3>2
    <2> QED BY <2>1
  <1>8. \A j \in 1 .. n : L[j].seq \in Nat
    BY <1>7
  <1>9. \A j \in 2 .. n : L[j - 1].seq < L[j].seq
    <2>1. ASSUME NEW j \in 2 .. n PROVE L[j - 1].seq < L[j].seq
      <3> DEFINE i == j - 1
      <3>1. j \in 1 .. n /\ i \in 1 .. n /\ i < j /\ i + 1 = j /\ k \in Nat
        BY <1>2, <1>k
      <3> HIDE DEF i
      <3>2. L[i].seq = (IF i < k THEN i - 1 ELSE i) /\ L[j].seq = IF j < k THEN j - 1 ELSE j
        BY <1>7, <3>1
      <3>3. L[i].seq < L[j].seq
        BY <3>1, <3>2
      <3> QED BY <3>3 DEF i
    <2> QED BY <2>1
  <1>10. IsStarted(L[1], s) /\ IsConfig(L[2], s) /\ L[2].seed = TRUE
    <2>1. 1 \in 1 .. n /\ 2 \in 1 .. n /\ 1 < k /\ 2 < k
      BY <1>2, <1>k
    <2> QED BY <1>1, <1>5, <2>1
  <1>11. ASSUME NEW j \in 1 .. m PROVE IsRow(L[2 + j], s, Rows(s)[j])
    <2> DEFINE i == 2 + j
    <2>1. i \in 1 .. n /\ i < k
      BY <1>2, <1>k
    <2>2. IsRow(W[i], s, Rows(s)[j])
      BY <1>1
    <2> HIDE DEF i
    <2>3. IsRow(L[i], s, Rows(s)[j])
      BY <1>5, <2>1, <2>2
    <2> QED BY <2>3 DEF i
  <1>12. ASSUME NEW j \in 1 .. SpanCount(s) PROVE IsSpan(L[2 + 0 + m + j], s, Spans(s)[j])
    <2> DEFINE i == 2 + 0 + m + j
               r == 3 + m + j
    <2>1. i \in 1 .. n /\ ~(i < k) /\ i + 1 = r
      BY <1>2, <1>k
    <2>2. IsSpan(W[r], s, Spans(s)[j])
      BY <1>1
    <2> HIDE DEF i, r
    <2>3. IsSpan(L[i], s, Spans(s)[j])
      BY <1>5, <2>1, <2>2
    <2> QED BY <2>3 DEF i
  <1>13. IsTerminal(L[n], s)
    <2>1. n \in 1 .. n /\ ~(n < k) /\ n + 1 = N
      BY <1>2, <1>k
    <2> QED BY <1>1, <1>5, <2>1
  <1> QED BY <1>4, <1>7, <1>8, <1>9, <1>10, <1>11, <1>12, <1>13 DEF Fits, Leads, n, m

(* A record without its seed is one of its scan still.                     *)
LEMMA WithoutSeed ==
  ASSUME NEW s \in Scans, NEW x, x = [Whole(s)[2] EXCEPT !.seed = FALSE]
  PROVE  Fits(PutAt(Whole(s), 2, x), s, 1)
  <1> DEFINE W == Whole(s)
             m == RowCount(s)
             N == LineCount(s, 1)
             L == PutAt(W, 2, x)
  <1>1. Fits(W, s, 1)
    BY WholeFits
  <1>2. IsListOf(W, N) /\ N \in Nat /\ N >= 4 /\ Fields(W[2], {"type", "planned", "mode", "seed"})
    BY WholeLines
  <1>n. m \in Nat /\ SpanCount(s) \in Nat /\ N = 4 + m + SpanCount(s)
    <2>1. RowCount(s) \in Nat /\ SpanCount(s) \in Nat
      BY SpannedIs
    <2> QED BY <2>1 DEF LineCount
  <1>3. /\ \A k \in 1 .. N : IsWhose(W[k]) /\ W[k].seq \in Nat
        /\ \A k \in 2 .. N : W[k - 1].seq < W[k].seq
        /\ IsStarted(W[1], s) /\ IsConfig(W[2], s)
        /\ \A j \in 1 .. m : IsRow(W[2 + j], s, Rows(s)[j])
        /\ W[3 + m].type = "scan_progress"
        /\ \A j \in 1 .. SpanCount(s) : IsSpan(W[2 + 1 + m + j], s, Spans(s)[j])
        /\ IsTerminal(W[N], s)
    BY <1>1 DEF Fits
  <1>4. /\ x.seq = W[2].seq /\ x.id = W[2].id /\ x.ts = W[2].ts /\ x.secret = W[2].secret
        /\ x.type = W[2].type /\ x.planned = W[2].planned /\ x.mode = W[2].mode /\ x.seed = FALSE
    BY <1>2 DEF Fields, EnvelopeFields
  <1>w. IsListOf(W, N) /\ 2 \in 1 .. N
    BY <1>2
  <1> HIDE DEF W, N, m
  <1>5. IsListOf(L, N) /\ L[2] = x /\ \A j \in 1 .. N : j # 2 => L[j] = W[j]
    BY <1>w, PutIs
  <1>g. SUFFICES Fits(L, s, 1)
    BY DEF W
  <1> HIDE DEF L
  <1>6. \A k \in 1 .. N : IsWhose(L[k]) /\ L[k].seq = W[k].seq
    <2>1. IsWhose(x) /\ x.seq = W[2].seq
      <3>1. IsWhose(W[2])
        BY <1>3, <1>w
      <3> QED BY <1>4, <3>1, Zenon DEF IsWhose
    <2> QED BY <1>3, <1>5, <2>1
  <1>7. \A k \in 2 .. N : L[k - 1].seq < L[k].seq
    <2>1. ASSUME NEW k \in 2 .. N PROVE L[k - 1].seq < L[k].seq
      <3> DEFINE i == k - 1
      <3>0. W[i].seq < W[k].seq
        BY <1>3
      <3>1. i \in 1 .. N /\ k \in 1 .. N
        BY <1>2
      <3> HIDE DEF i
      <3>2. L[i].seq < L[k].seq
        BY <1>6, <3>0, <3>1
      <3> QED BY <3>2 DEF i
    <2> QED BY <2>1
  <1>8. IsStarted(L[1], s) /\ IsConfig(L[2], s)
    <2>1. 1 \in 1 .. N /\ 1 # 2
      BY <1>2
    <2>2. IsConfig(x, s)
      <3>1. IsConfig(W[2], s)
        BY <1>3
      <3>2. x.seed \in BOOLEAN
        BY <1>4
      <3> QED BY <1>4, <3>1, <3>2, Zenon DEF IsConfig
    <2> QED BY <1>3, <1>5, <2>1, <2>2
  <1>9. ASSUME NEW j \in 1 .. m PROVE IsRow(L[2 + j], s, Rows(s)[j])
    <2> DEFINE i == 2 + j
    <2>1. i \in 1 .. N /\ i # 2 /\ IsRow(W[i], s, Rows(s)[j])
      BY <1>3, <1>n
    <2> HIDE DEF i
    <2>2. IsRow(L[i], s, Rows(s)[j])
      BY <1>5, <2>1
    <2> QED BY <2>2 DEF i
  <1>10. L[3 + m].type = "scan_progress"
    <2> DEFINE i == 3 + m
    <2>1. i \in 1 .. N /\ i # 2 /\ W[i].type = "scan_progress"
      BY <1>3, <1>n
    <2> HIDE DEF i
    <2>2. L[i].type = "scan_progress"
      BY <1>5, <2>1
    <2> QED BY <2>2 DEF i
  <1>11. ASSUME NEW j \in 1 .. SpanCount(s) PROVE IsSpan(L[2 + 1 + m + j], s, Spans(s)[j])
    <2> DEFINE i == 2 + 1 + m + j
    <2>1. i \in 1 .. N /\ i # 2 /\ IsSpan(W[i], s, Spans(s)[j])
      BY <1>3, <1>n
    <2> HIDE DEF i
    <2>2. IsSpan(L[i], s, Spans(s)[j])
      BY <1>5, <2>1
    <2> QED BY <2>2 DEF i
  <1>12. IsTerminal(L[N], s)
    <2>1. N \in 1 .. N /\ N # 2
      BY <1>2
    <2> QED BY <1>3, <1>5, <2>1
  <1>13. \A k \in 1 .. N : L[k].seq \in Nat
    BY <1>3, <1>6
  <1> QED BY <1>5, <1>6, <1>7, <1>8, <1>9, <1>10, <1>11, <1>12, <1>13 DEF Fits, N, m

(* A file that passes.                                                     *)
Readably(L, N) == \A k \in 1 .. N : L[k].type # "torn"

StillThe(s, L) == \E g : Fits(L, s, g) /\ Leads(L, s)

(* A record that lost a line and passes lost its progress event.           *)
LEMMA LostPasses ==
  ASSUME NEW s \in Scans, NEW k \in 1 .. LineCount(s, 1), NEW w,
         Tracks(LostAt(Whole(s), k), LineCount(s, 1) - 1, w), Passes(w)
  PROVE  StillThe(s, LostAt(Whole(s), k))
  <1> DEFINE W == Whole(s)
             m == RowCount(s)
             N == LineCount(s, 1)
             n == N - 1
             L == LostAt(W, k)
  <1>1. /\ IsListOf(W, N) /\ N \in Nat /\ N >= 4 /\ IsConfig(W[2], s) /\ IsTerminal(W[N], s)
        /\ \A j \in 1 .. m : IsRow(W[2 + j], s, Rows(s)[j])
        /\ \A j \in 1 .. SpanCount(s) : IsSpan(W[3 + m + j], s, Spans(s)[j])
    BY WholeLines
  <1>2. \A j \in 1 .. N : /\ W[j].type = "scan_started" => j = 1
                          /\ W[j].type = "scan_config" => j = 2
                          /\ W[j].type \in Terminals => j = N
    BY WholeFits, LineKinds
  <1>3. IsListOf(L, n) /\ \A j \in 1 .. n : L[j] = IF j < k THEN W[j] ELSE W[j + 1]
    <2>1. IsListOf(W, N)
      BY <1>1
    <2> HIDE DEF W, N
    <2> QED BY <2>1, RemovedIs DEF N
  <1>4. n \in Nat /\ n >= 3 /\ \A j \in 1 .. n : j \in 1 .. N /\ j + 1 \in 1 .. N
    BY <1>1
  <1>l. \/ k = 1 \/ k = 2 \/ (\E j \in 1 .. m : k = 2 + j) \/ k = 3 + m
        \/ (\E j \in 1 .. SpanCount(s) : k = 3 + m + j) \/ k = N
    <2>1. \/ k = 1 \/ k = 2 \/ (\E j \in 1 .. m : k = 2 + j) \/ (1 = 1 /\ k = 3 + m)
          \/ (\E j \in 1 .. SpanCount(s) : k = 2 + 1 + m + j) \/ k = N
      BY EachLine
    <2>2. 2 + 1 + m = 3 + m
      BY SpannedIs
    <2> QED BY <2>1, <2>2
  <1>t. Tracks(L, n, w)
    OBVIOUS
  <1>k. k \in 1 .. N
    OBVIOUS
  <1>s. k = 3 + m => StillThe(s, L)
    BY WithoutProgress DEF StillThe
  <1>r. /\ \A j \in 1 .. n : L[j] = IF j < k THEN W[j] ELSE W[j + 1]
        /\ W[2].planned = Planned
    BY <1>1, <1>3 DEF IsConfig
  <1>e. Entries(W[k]) # {} /\ k # N =>
          /\ \A j \in 1 .. n : Counting(L[j])
          /\ L[n] = W[N]
          /\ Cardinality(Held(L)) # Cardinality(Reported(s))
    BY LostShows
  <1>g. SUFFICES StillThe(s, L)
    OBVIOUS
  <1>m. m \in Nat /\ N = 4 + m + SpanCount(s) /\ SpanCount(s) \in Nat
    <2>1. RowCount(s) \in Nat /\ SpanCount(s) \in Nat
      BY SpannedIs
    <2> QED BY <2>1 DEF LineCount
  <1>v. n = N - 1
    OBVIOUS
  <1> HIDE DEF W, L, N, n, m
  <1>5. Plain(L, n)
    BY <1>2, <1>4, <1>r DEF Plain
  <1>6. /\ L[1].type = "scan_started" /\ L[2].type = "scan_config"
        /\ L[n].type \in Terminals /\ w.counts = L[n].counts
        /\ (\A j \in 1 .. n : Counting(L[j])) =>
             w.probes + w.spanProbes = Cardinality(Held(First(L, n)))
        /\ CountsPass(w)
    <2>1. n \in Nat
      BY <1>4
    <2>2. n >= 2
      BY <1>4
    <2>3. Passes(w)
      OBVIOUS
    <2>4. Passed(L, n, w)
      BY <1>5, <1>t, <2>1, <2>2, <2>3, PassedIs
    <2> QED BY <2>4 DEF Passed
  <1>7. k # 1
    <2>1. ASSUME k = 1 PROVE FALSE
      <3>1. 1 \in 1 .. n /\ ~(1 < k)
        BY <1>4, <2>1
      <3>2. L[1] = W[2]
        BY <1>r, <3>1
      <3>3. W[2].type = "scan_config"
        BY <1>1 DEF IsConfig
      <3> QED BY <1>6, <3>2, <3>3
    <2> QED BY <2>1
  <1>8. k # 2
    <2>1. ASSUME k = 2 PROVE FALSE
      <3>1. 2 \in 1 .. n /\ ~(2 < k) /\ 3 \in 1 .. N
        BY <1>4, <2>1
      <3>2. L[2] = W[3]
        BY <1>r, <3>1
      <3> QED BY <1>2, <1>6, <3>1, <3>2
    <2> QED BY <2>1
  <1>9. k # N
    <2>1. ASSUME k = N PROVE FALSE
      <3>1. n \in 1 .. n /\ n < k /\ n \in 1 .. N /\ n # N
        BY <1>4, <1>1, <1>v, <2>1
      <3>2. L[n] = W[n]
        BY <1>r, <3>1
      <3> QED BY <1>2, <1>6, <3>1, <3>2
    <2> QED BY <2>1
  <1>10. Entries(W[k]) = {}
    <2>1. ASSUME Entries(W[k]) # {} PROVE FALSE
      <3>1. /\ \A j \in 1 .. n : Counting(L[j])
            /\ L[n] = W[N]
            /\ Cardinality(Held(L)) # Cardinality(Reported(s))
        BY <1>9, <1>e, <2>1
      <3>2. First(L, n) = L
        BY <1>3, FirstIsAll
      <3>3. w.counts = Counts(s)
        BY <1>1, <1>6, <3>1 DEF IsTerminal
      <3>4. w.counts.completed = Cardinality(Held(L))
        BY <1>6, <3>1, <3>2 DEF CountsPass
      <3> QED BY <3>1, <3>3, <3>4, CountsAgree
    <2> QED BY <2>1
  <1>11. ~(\E j \in 1 .. m : k = 2 + j)
    <2>1. ASSUME NEW j \in 1 .. m, k = 2 + j PROVE FALSE
      <3>1. W[k].type = "probe_result"
        BY <1>1, <2>1 DEF IsRow
      <3>2. Entries(W[k]) = {<<0, 0>>}
        BY <3>1 DEF Entries
      <3> QED BY <1>10, <3>2
    <2> QED BY <2>1
  <1>12. ~(\E j \in 1 .. SpanCount(s) : k = 3 + m + j)
    <2>1. ASSUME NEW j \in 1 .. SpanCount(s), k = 3 + m + j PROVE FALSE
      <3>1. IsSpan(W[k], s, Spans(s)[j]) /\ Spans(s)[j] \in Spanned(s)
        BY <1>1, <2>1, SpannedIs
      <3>2. /\ Cardinality(Expansion(W[k].ranges)) = W[k].count /\ W[k].count > 0
            /\ W[k].count \in Nat
        BY <3>1, SpanHolds
      <3>3. Entries(W[k]) = Expansion(W[k].ranges)
        BY <3>1 DEF IsSpan, Entries
      <3> QED BY <1>10, <3>2, <3>3, FS_EmptySet
    <2> QED BY <2>1
  <1> QED BY <1>l, <1>s, <1>7, <1>8, <1>9, <1>11, <1>12

(* A line written twice or out of its place is out of sequence.            *)
LEMMA StrayPasses ==
  ASSUME NEW s \in Scans, NEW L \in Edits(Whole(s)), NEW w, Tracks(L, Len(L), w), Passes(w)
  PROVE  /\ ~TwiceLine(Whole(s), LineCount(s, 1), L)
         /\ ~SwappedLine(Whole(s), LineCount(s, 1), L)
  <1> DEFINE W == Whole(s)
             N == LineCount(s, 1)
             n == Len(L)
  <1>1. IsListOf(W, N) /\ N \in Nat /\ N >= 4 /\ \A j \in 1 .. N : W[j].seq = j - 1
    BY WholeLines
  <1>2. IsListOf(L, n) /\ n \in Nat /\ n >= 2 /\ \A j \in 1 .. n : MadeOf(s, L[j])
    BY EditedIs DEF IsListOf
  <1>3. Plain(L, n)
    BY <1>2, MadeOfIs DEF Plain
  <1>4. \A j \in 1 .. n : Sound(L, j)
    <2>1. Passed(L, n, w)
      BY <1>2, <1>3, PassedIs
    <2> QED BY <2>1 DEF Passed
  <1>w. IsListOf(W, N)
    BY <1>1
  <1> HIDE DEF W, N, n
  <1>5. \A k \in 1 .. (n - 1) : ~(L[k + 1].seq <= L[k].seq)
    BY <1>2, <1>4, PassedRises
  <1>6. ASSUME TwiceLine(W, N, L) PROVE FALSE
    <2>1. PICK k \in 1 .. N : L = TwiceAt(W, k)
      BY <1>6 DEF TwiceLine
    <2>2. IsListOf(L, N + 1) /\ L[k] = W[k] /\ L[k + 1] = W[k]
      <3>1. IsListOf(TwiceAt(W, k), N + 1) /\ TwiceAt(W, k)[k] = W[k] /\ TwiceAt(W, k)[k + 1] = W[k]
        BY <1>w, InsertedIs
      <3> QED BY <2>1, <3>1
    <2>3. n = N + 1
      BY <2>2, ListIsSequence DEF n
    <2>4. k \in 1 .. (n - 1)
      BY <1>1, <2>3
    <2>5. W[k].seq <= W[k].seq
      BY <1>1
    <2> QED BY <1>5, <2>2, <2>4, <2>5
  <1>7. ASSUME SwappedLine(W, N, L) PROVE FALSE
    <2>1. PICK k \in 1 .. (N - 1) : L = SwappedAt(W, k)
      BY <1>7 DEF SwappedLine
    <2>2. IsListOf(L, N) /\ L[k] = W[k + 1] /\ L[k + 1] = W[k]
      <3>1. IsListOf(SwappedAt(W, k), N)
            /\ SwappedAt(W, k)[k] = W[k + 1] /\ SwappedAt(W, k)[k + 1] = W[k]
        BY <1>w, SwappedIs
      <3> QED BY <2>1, <3>1
    <2>3. n = N
      BY <2>2, ListIsSequence DEF n
    <2>5. W[k].seq <= W[k + 1].seq
      <3>1. k \in 1 .. N /\ k + 1 \in 1 .. N
        BY <1>1
      <3>2. W[k].seq = k - 1 /\ W[k + 1].seq = (k + 1) - 1
        BY <1>1, <3>1
      <3> QED BY <3>2
    <2> QED BY <1>5, <2>1, <2>2, <2>3, <2>5
  <1> QED BY <1>6, <1>7 DEF W, N

(* A value that is not the event's own does not pass, but for a lost seed. *)
LEMMA MalformedPasses ==
  ASSUME NEW s \in Scans, NEW k \in 1 .. LineCount(s, 1), NEW x \in Malformed(Whole(s)[k]),
         NEW w, Tracks(PutAt(Whole(s), k, x), LineCount(s, 1), w), Passes(w)
  PROVE  StillThe(s, PutAt(Whole(s), k, x))
  <1> DEFINE W == Whole(s)
             N == LineCount(s, 1)
             L == PutAt(W, k, x)
  <1>1. /\ IsListOf(W, N) /\ N \in Nat /\ N >= 4 /\ IsTerminal(W[N], s) /\ W[2].seed = TRUE
        /\ IsStarted(W[1], s)
        /\ \A j \in 1 .. N : IsWhose(W[j])
    BY WholeLines
  <1>2. /\ Shows(s, k, x) /\ x.type = W[k].type
        /\ x.type = "scan_config" => x.planned = Planned
        /\ IsFiniteSet(Entries(x)) /\ (k = N => Entries(x) = Entries(W[k]))
    BY MalformedShows
  <1>3. \A j \in 1 .. N : Counting(W[j])
    BY WholeFits, FitsIsSound
  <1>4. \A j \in 1 .. N : MadeOf(s, W[j])
    BY DEF MadeOf
  <1>c. x = [W[2] EXCEPT !.seed = FALSE] /\ k = 2 => Fits(L, s, 1)
    BY WithoutSeed
  <1>h. Cardinality(Held(W)) = Cardinality(Reported(s))
    <2>1. Leads(W, s)
      BY <1>1 DEF Leads
    <2>2. \A i \in Index : s.order[i] = s.order[i]
      OBVIOUS
    <2> QED BY <2>1, <2>2, WholeFits, WalkOfWhole
  <1>w. IsListOf(W, N) /\ k \in 1 .. N
    BY <1>1
  <1>t. Tracks(L, N, w)
    OBVIOUS
  <1>d. Shows(s, k, x) =>
          \/ Caught(x, PlanAt(k))
          \/ k = 1 /\ x.version = 9
          \/ k = 2 /\ x = [W[2] EXCEPT !.seed = FALSE]
          \/ k = N /\ RaisedCount(s, x)
    BY DEF Shows
  <1>g. SUFFICES StillThe(s, L)
    OBVIOUS
  <1> HIDE DEF W, N
  <1>5. IsListOf(L, N) /\ L[k] = x /\ \A j \in 1 .. N : j # k => L[j] = W[j]
    BY <1>w, PutIs
  <1> HIDE DEF L
  <1>6. Plain(L, N)
    <2>1. \A j \in 1 .. N : L[j].type = "scan_config" => L[j].planned = Planned
      BY <1>2, <1>4, <1>5, MadeOfIs
    <2> QED BY <2>1 DEF Plain
  <1>7. Passed(L, N, w)
    <2>1. N \in Nat
      BY <1>1
    <2>2. N >= 2
      BY <1>1
    <2>3. Passes(w)
      OBVIOUS
    <2> QED BY <1>6, <1>t, <2>1, <2>2, <2>3, PassedIs
  <1>8. /\ L[1].type = "scan_started" /\ w.counts = L[N].counts
        /\ \A j \in 1 .. N : Sound(L, j)
        /\ w.spans > 0 /\ L[1].version >= 2 => L[2].seed
        /\ w.spans \in Nat /\ (w.spans = 0 <=> \A j \in 1 .. N : L[j].type # "probe_span")
        /\ L[1].version = None \/ L[1].version \in SupportedVersions
        /\ (\A j \in 1 .. N : Counting(L[j])) =>
             w.probes + w.spanProbes = Cardinality(Held(First(L, N)))
        /\ CountsPass(w)
    BY <1>7 DEF Passed
  <1>9. ~Caught(x, PlanAt(k))
    <2>1. Sound(L, k) /\ L[k] = x
      BY <1>5, <1>8, <1>w
    <2>2. x.seq # None /\ Values(PlanAt(k), x) = {} /\ x.id = L[1].id
      BY <2>1 DEF Sound, InSequence
    <2>3. x.id = "scan"
      <3>1. CASE k = 1
        <4>1. 2 \in 1 .. N /\ 2 # k
          BY <1>1, <3>1
        <4>2. L[2].id = L[1].id /\ L[2].id = "scan"
          BY <1>1, <1>5, <1>8, <4>1 DEF Sound, InSequence, IsWhose
        <4> QED BY <2>2, <4>2
      <3>2. CASE k # 1
        <4>1. 1 \in 1 .. N /\ 1 # k
          BY <1>1, <3>2
        <4>2. L[1].id = "scan"
          BY <1>1, <1>5, <4>1 DEF IsWhose
        <4> QED BY <2>2, <4>2
      <3> QED BY <3>1, <3>2
    <2> QED BY <2>2, <2>3 DEF Caught
  <1>10. ~(k = 1 /\ x.version = 9)
    BY <1>5, <1>8, <1>w DEF None, SupportedVersions
  <1>11. ~(k = N /\ RaisedCount(s, x))
    <2>1. ASSUME k = N, RaisedCount(s, x) PROVE FALSE
      <3>1. Entries(L[k]) = Entries(W[k])
            /\ \A j \in 1 .. N : j # k => Entries(L[j]) = Entries(W[j])
        BY <1>2, <1>5, <2>1
      <3>2. \A j \in 1 .. N : Entries(L[j]) = Entries(W[j])
        BY <3>1
      <3>3. Held(L) = Held(W)
        <4>1. DOMAIN L = 1 .. N /\ DOMAIN W = 1 .. N
          BY <1>5, <1>w DEF IsListOf
        <4>2. \A j \in 1 .. N : {j} \X Entries(L[j]) = {j} \X Entries(W[j])
          BY <3>2
        <4>3. UNION {{j} \X Entries(L[j]) : j \in 1 .. N}
              = UNION {{j} \X Entries(W[j]) : j \in 1 .. N}
          BY <4>2
        <4> QED BY <4>1, <4>3 DEF Held
      <3>4. First(L, N) = L
        BY <1>5, FirstIsAll
      <3>5. \A j \in 1 .. N : Counting(L[j])
        <4>1. Counting(x)
          <5>1. x.type # "probe_span"
            BY <1>1, <1>2, <2>1 DEF IsTerminal, Terminals
          <5> QED BY <1>2, <5>1 DEF Counting
        <4> QED BY <1>3, <1>5, <4>1
      <3>6. w.probes + w.spanProbes = Cardinality(Reported(s))
        BY <1>8, <1>h, <3>3, <3>4, <3>5
      <3>7. w.counts = x.counts
        BY <1>5, <1>8, <2>1
      <3> QED BY <1>8, <2>1, <3>6, <3>7, RaisedShows
    <2> QED BY <2>1
  <1>12. k = 2 /\ x = [W[2] EXCEPT !.seed = FALSE]
    BY <1>2, <1>9, <1>10, <1>11, <1>d
  <1>13. Fits(L, s, 1)
    BY <1>12, <1>c
  <1>14. Leads(L, s)
    <2>1. ASSUME ~(s.version < 2), SpanCount(s) # 0 PROVE L[2].seed = TRUE
      <3>1. L[1].version = s.version
        <4>1. 1 \in 1 .. N /\ 1 # k
          BY <1>1, <1>12
        <4> QED BY <1>1, <1>5, <4>1 DEF IsStarted
      <3>2. L[1].version >= 2
        BY <2>1, <3>1, ScanIs
      <3>3. w.spans > 0
        <4> DEFINE i == 2 + 1 + RowCount(s) + 1
        <4>1. SpanCount(s) \in Nat /\ RowCount(s) \in Nat /\ 1 \in 1 .. SpanCount(s)
              /\ i \in 1 .. N
          <5>1. SpanCount(s) \in Nat /\ RowCount(s) \in Nat
            BY SpannedIs
          <5> QED BY <2>1, <5>1 DEF LineCount, N
        <4>2. IsSpan(L[i], s, Spans(s)[1])
          BY <1>13, <4>1 DEF Fits
        <4> HIDE DEF i
        <4>3. L[i].type = "probe_span"
          BY <4>2 DEF IsSpan
        <4>4. w.spans \in Nat /\ w.spans # 0
          BY <1>8, <4>1, <4>3
        <4> QED BY <4>4
      <3>4. L[2].seed
        BY <1>8, <3>2, <3>3
      <3>5. L[2].seed \in BOOLEAN
        BY <1>13 DEF Fits, IsConfig
      <3> QED BY <3>4, <3>5
    <2> QED BY <2>1 DEF Leads
  <1> QED BY <1>13, <1>14 DEF StillThe

(* A line that is not an event is counted.                                 *)
LEMMA UnreadPasses ==
  ASSUME NEW s \in Scans, NEW L \in Edits(Whole(s)), NEW w, Tracks(L, Len(L), w), Passes(w),
         Readably(L, Len(L))
  PROVE  ~UnreadLine(Whole(s), LineCount(s, 1), L)
  <1> DEFINE W == Whole(s)
             N == LineCount(s, 1)
             n == Len(L)
  <1>w. IsListOf(W, N)
    BY WholeLines
  <1>1. Clean(L, n) /\ Readably(L, n)
    BY DEF Tracks, TracksCount, Passes
  <1> HIDE DEF W, N, n
  <1>2. ASSUME UnreadLine(W, N, L) PROVE FALSE
    <2>1. PICK k \in 1 .. N : L = PutAt(W, k, Garbled) \/ L = PutAt(W, k, Torn)
      BY <1>2 DEF UnreadLine
    <2>2. IsListOf(L, N) /\ L[k].type \in {"garbled", "torn"}
      <3>1. /\ IsListOf(PutAt(W, k, Garbled), N) /\ PutAt(W, k, Garbled)[k] = Garbled
            /\ IsListOf(PutAt(W, k, Torn), N) /\ PutAt(W, k, Torn)[k] = Torn
        BY <1>w, PutIs
      <3> QED BY <2>1, <3>1 DEF Garbled, Torn
    <2>3. n = N
      BY <2>2, ListIsSequence DEF n
    <2> QED BY <1>1, <2>2, <2>3 DEF Clean, Readably
  <1> QED BY <1>2 DEF W, N

(* An edited record that passes is still the record of its scan.           *)
LEMMA EditedPasses ==
  ASSUME NEW s \in Scans, NEW L \in Edits(Whole(s)), NEW w, Tracks(L, Len(L), w), Passes(w),
         Readably(L, Len(L))
  PROVE  StillThe(s, L)
  <1> DEFINE W == Whole(s)
             N == LineCount(s, 1)
  <1>w. IsListOf(W, N)
    BY WholeLines
  <1>1. \/ LostLine(W, N, L) \/ MalformedLine(W, N, L)
    BY <1>w, EditIs, StrayPasses, UnreadPasses
  <1>2. CASE LostLine(W, N, L)
    <2>1. PICK k \in 1 .. N : L = LostAt(W, k)
      BY <1>2 DEF LostLine
    <2> HIDE DEF W, N
    <2>2. IsListOf(LostAt(W, k), N - 1)
      BY <1>w, RemovedIs
    <2>3. Len(L) = N - 1
      BY <2>1, <2>2, ListIsSequence
    <2>4. Tracks(LostAt(W, k), N - 1, w)
      BY <2>1, <2>3
    <2>5. StillThe(s, LostAt(W, k))
      BY <2>4, LostPasses DEF W, N
    <2> QED BY <2>1, <2>5
  <1>3. CASE MalformedLine(W, N, L)
    <2>0. PICK k \in 1 .. N : \E x \in Malformed(W[k]) : L = PutAt(W, k, x)
      BY <1>3 DEF MalformedLine
    <2>1. PICK x \in Malformed(W[k]) : L = PutAt(W, k, x)
      BY <2>0
    <2> HIDE DEF W, N
    <2>2. IsListOf(PutAt(W, k, x), N)
      BY <1>w, PutIs
    <2>3. Len(L) = N
      BY <2>1, <2>2, ListIsSequence
    <2>4. Tracks(PutAt(W, k, x), N, w)
      BY <2>1, <2>3
    <2>5. StillThe(s, PutAt(W, k, x))
      BY <2>4, MalformedPasses DEF W, N
    <2> QED BY <2>1, <2>5
  <1> QED BY <1>1, <1>2, <1>3

(***************************************************************************)
(* The inductive invariant.                                                *)
(***************************************************************************)

(* The file is the record of the scan, one edit of it, or its beginning.   *)
FileStands ==
  /\ scan \in Scans /\ partial \in BOOLEAN /\ harm \in {"none", "edited", "killed"}
  /\ harm = "none" => ~partial /\ lines = Whole(scan)
  /\ harm = "edited" => ~partial /\ lines \in Edits(Whole(scan))
  /\ harm = "killed" =>
       /\ partial
       /\ \E n \in 0 .. Len(Unfinished(scan)), tail \in {<< >>, <<Torn>>} :
            lines = Chain(SubSeq(Unfinished(scan), 1, n), tail)

(* The Verifier holds what it was given, and the report what it found.     *)
ReadingStands ==
  /\ phase \in {"file", "verifying", "verified", "read"}
  /\ phase = "file" => pos = 0 /\ v = NewVerifier
  /\ phase # "file" => pos \in 0 .. Len(Readable) /\ Tracks(lines, pos, v)
  /\ phase \in {"verified", "read"} =>
       pos = Len(Readable) /\ report = IF StreamRefuses THEN {"cannot read"} ELSE Problems(v)

(* What ReadResults may answer.                                            *)
WalkFrom(stray) == walk = Walked(Walk(Events, Strayed(scan.order, stray)))
Walks == ~StreamRefuses /\ DOMAIN Events # {} /\ CanWalk(Events)
WalkStands ==
  /\ phase # "read" => walk = NoWalk
  /\ phase = "read" /\ Walks =>
       (\E stray \in Index : WalkFrom(stray)) \/ ("ranges" \in report /\ walk = NoWalk)
  /\ phase = "read" /\ ~Walks => walk = NoWalk

Inv == FileStands /\ ReadingStands /\ WalkStands

(* What was read does not change while the file does not.                  *)
LEMMA FileKeeps ==
  ASSUME lines' = lines, partial' = partial, scan' = scan
  PROVE  /\ Readable' = Readable /\ Events' = Events /\ StreamRefuses' = StreamRefuses
         /\ Walks' = Walks
<1>1. TornAt' = TornAt
  BY DEF TornAt
<1>2. Readable' = Readable
  BY <1>1 DEF Readable
<1>3. Events' = Events
  BY <1>2 DEF Events
<1>4. StreamRefuses' = StreamRefuses
  BY <1>1, <1>3 DEF StreamRefuses
<1>5. CanWalk(Events)' = CanWalk(Events)
  BY <1>3 DEF CanWalk, ConfigsBefore
<1>6. Walks' = Walks
  BY <1>3, <1>4, <1>5 DEF Walks
<1> QED
  BY <1>2, <1>3, <1>4, <1>6

(* A file nobody touches stays what it is.                                 *)
LEMMA FileKeepsItsScan ==
  ASSUME UNCHANGED file, FileStands
  PROVE  FileStands'
BY DEF FileStands, file

(* And the problems of a Verifier nobody moves.                            *)
LEMMA ProblemsKeep ==
  ASSUME partial' = partial, v' = v
  PROVE  Problems(v)' = Problems(v)
BY DEF Problems, Failed, ReportHeader, ReportTerminal, ReportCounts

(* And what it holds.                                                      *)
LEMMA TracksKeep ==
  ASSUME lines' = lines, pos' = pos, v' = v
  PROVE  Tracks(lines, pos, v)' = Tracks(lines, pos, v)
OBVIOUS

(* What is left of a record: its first lines, and perhaps a torn one.      *)
Starts(L, s, n, tail, j) ==
  /\ IsListOf(L, n + j)
  /\ \A k \in 1 .. n : L[k] = Whole(s)[k]
  /\ \A k \in 1 .. j : L[n + k] = tail[k]

(* A beginning has the record's first lines.                               *)
LEMMA BeginningIs ==
  ASSUME NEW s \in Scans, NEW n \in Nat, n < LineCount(s, 1),
         NEW tail, NEW j, IsListOf(tail, j)
  PROVE  Starts(Chain(SubSeq(Unfinished(s), 1, n), tail), s, n, tail, j)
<1> DEFINE U == Unfinished(s)
           N == LineCount(s, 1)
           P == SubSeq(U, 1, n)
<1>1. /\ IsListOf(U, N - 1) /\ N \in Nat /\ N >= 4
      /\ \A k \in 1 .. (N - 1) : U[k] = Whole(s)[k]
  BY WholeLines
<1>4. IsListOf(P, n - 1 + 1) /\ \A k \in 1 .. (n - 1 + 1) : P[k] = U[1 + k - 1]
  <2>0. N - 1 \in Nat /\ 1 \in Nat /\ n \in Nat /\ 1 <= n + 1 /\ 1 >= 1 /\ n <= N - 1
    BY <1>1
  <2>1. IsListOf(U, N - 1)
    BY <1>1
  <2> HIDE DEF U, N
  <2>2. IsListOf(SubSeq(U, 1, n), n - 1 + 1)
        /\ \A k \in 1 .. (n - 1 + 1) : SubSeq(U, 1, n)[k] = U[1 + k - 1]
    BY <2>0, <2>1, ListPart
  <2> QED
    BY <2>2
<1>5. IsListOf(P, n) /\ \A k \in 1 .. n : P[k] = U[k]
  <2> HIDE DEF U, P, N
  <2>1. n - 1 + 1 = n
    OBVIOUS
  <2>2. \A k \in 1 .. n : 1 + k - 1 = k
    OBVIOUS
  <2> QED
    BY <1>4, <2>1, <2>2
<1>6. /\ IsListOf(Chain(P, tail), n + j)
      /\ \A k \in 1 .. n : Chain(P, tail)[k] = P[k]
      /\ \A k \in 1 .. j : Chain(P, tail)[n + k] = tail[k]
  <2> HIDE DEF P
  <2>1. IsListOf(P, n)
    BY <1>5
  <2> QED
    BY <2>1, ChainIs
<1>7. \A k \in 1 .. n : k \in 1 .. (N - 1)
  <2> HIDE DEF N
  <2> QED
    BY <1>1 DEF N
<1>8. \A k \in 1 .. n : P[k] = Whole(s)[k]
  <2> HIDE DEF P, U, N
  <2> QED
    BY <1>1, <1>5, <1>7
<1> SUFFICES /\ IsListOf(Chain(P, tail), n + j)
             /\ \A k \in 1 .. n : Chain(P, tail)[k] = Whole(s)[k]
             /\ \A k \in 1 .. j : Chain(P, tail)[n + k] = tail[k]
  BY DEF Starts
<1> HIDE DEF P
<1> QED
  BY <1>6, <1>8

(* The lines of a killed record.                                           *)
Killed(s, L, n, torn) ==
  /\ n \in Nat /\ n < LineCount(s, 1)
  /\ IsListOf(L, IF torn THEN n + 1 ELSE n)
  /\ \A k \in 1 .. n : L[k] = Whole(s)[k]
  /\ torn => L[n + 1] = Torn

(* Kill leaves such a beginning.                                           *)
LEMMA KilledIs ==
  ASSUME NEW s \in Scans, NEW n \in 0 .. Len(Unfinished(s)), NEW tail \in {<< >>, <<Torn>>}
  PROVE  \E torn \in BOOLEAN : Killed(s, Chain(SubSeq(Unfinished(s), 1, n), tail), n, torn)
<1>1. n \in Nat /\ n < LineCount(s, 1)
  <2>1. IsListOf(Unfinished(s), LineCount(s, 1) - 1) /\ LineCount(s, 1) \in Nat
        /\ LineCount(s, 1) >= 4
    BY WholeLines
  <2>2. Len(Unfinished(s)) = LineCount(s, 1) - 1
    BY <2>1, ListIsSequence
  <2> QED
    BY <2>1, <2>2
<1> DEFINE P == SubSeq(Unfinished(s), 1, n)
<1>2. Killed(s, Chain(P, << >>), n, FALSE)
  <2> DEFINE none == << >>
  <2>1. IsListOf(none, 0)
    BY DEF IsListOf
  <2> HIDE DEF none
  <2>2. /\ IsListOf(Chain(P, none), n + 0)
        /\ \A k \in 1 .. n : Chain(P, none)[k] = Whole(s)[k]
        /\ \A k \in 1 .. 0 : Chain(P, none)[n + k] = none[k]
    <3>1. n \in Nat
      BY <1>1
    <3>2. n < LineCount(s, 1)
      BY <1>1
    <3>3. IsListOf(none, 0)
      BY <2>1
    <3>4. Starts(Chain(P, none), s, n, none, 0)
      BY <3>1, <3>2, <3>3, BeginningIs
    <3> HIDE DEF P
    <3> QED
      BY <3>4 DEF Starts
  <2>3. n + 0 = n
    BY <1>1
  <2> HIDE DEF P
  <2>4. Killed(s, Chain(P, none), n, FALSE)
    BY <2>2, <2>3, <1>1 DEF Killed
  <2> QED
    BY <2>4 DEF none
<1>3. Killed(s, Chain(P, <<Torn>>), n, TRUE)
  <2> DEFINE one == <<Torn>>
  <2>1. IsListOf(one, 1) /\ one[1] = Torn
    BY OneIsList
  <2> HIDE DEF one
  <2>2. /\ IsListOf(Chain(P, one), n + 1)
        /\ \A k \in 1 .. n : Chain(P, one)[k] = Whole(s)[k]
        /\ \A k \in 1 .. 1 : Chain(P, one)[n + k] = one[k]
    <3>1. n \in Nat
      BY <1>1
    <3>2. n < LineCount(s, 1)
      BY <1>1
    <3>3. IsListOf(one, 1)
      BY <2>1
    <3>4. Starts(Chain(P, one), s, n, one, 1)
      BY <3>1, <3>2, <3>3, BeginningIs
    <3> HIDE DEF P
    <3> QED
      BY <3>4 DEF Starts
  <2>3. 1 \in 1 .. 1
    OBVIOUS
  <2> HIDE DEF P
  <2>4. Chain(P, one)[n + 1] = Torn
    BY <2>1, <2>2, <2>3
  <2>5. Killed(s, Chain(P, one), n, TRUE)
    BY <2>2, <2>4, <1>1 DEF Killed
  <2> QED
    BY <2>5 DEF one
<1>4. tail = << >> \/ tail = <<Torn>>
  OBVIOUS
<1> HIDE DEF P
<1>5. \E torn \in BOOLEAN : Killed(s, Chain(P, tail), n, torn)
  BY <1>2, <1>3, <1>4, Zenon
<1> QED
  BY <1>5 DEF P

(* A file is a list, of lines made of the record's.                        *)
LEMMA FileIsList ==
  ASSUME FileStands
  PROVE  IsListOf(lines, Len(lines)) /\ \A k \in 1 .. Len(lines) : MadeOf(scan, lines[k])
<1> USE DEF FileStands
<1>1. CASE harm = "none"
  <2>1. IsListOf(lines, LineCount(scan, 1)) /\ lines = Whole(scan)
    BY <1>1, WholeLines
  <2>2. Len(lines) = LineCount(scan, 1)
    BY <2>1, ListIsSequence
  <2> QED
    BY <2>1, <2>2 DEF MadeOf
<1>2. CASE harm = "edited"
  BY <1>2, EditedIs
<1>3. CASE harm = "killed"
  <2>1. PICK n \in 0 .. Len(Unfinished(scan)) :
          \E tail \in {<< >>, <<Torn>>} : lines = Chain(SubSeq(Unfinished(scan), 1, n), tail)
    BY <1>3
  <2>2. PICK tail \in {<< >>, <<Torn>>} : lines = Chain(SubSeq(Unfinished(scan), 1, n), tail)
    BY <2>1
  <2>3. PICK torn \in BOOLEAN : Killed(scan, lines, n, torn)
    BY <2>2, KilledIs
  <2> DEFINE m == IF torn THEN n + 1 ELSE n
  <2>4. Len(lines) = m /\ IsListOf(lines, m) /\ n \in Nat
    <3>1. IsListOf(lines, m) /\ n \in Nat
      BY <2>3 DEF Killed
    <3> HIDE DEF m
    <3> QED
      BY <3>1, ListIsSequence
  <2>5. LineCount(scan, 1) \in Nat
    BY WholeLines
  <2>6. ASSUME NEW k \in 1 .. m
        PROVE  MadeOf(scan, lines[k])
    <3>1. CASE k <= n
      <4>1. k \in 1 .. n /\ k \in 1 .. LineCount(scan, 1)
        BY <3>1, <2>3, <2>4, <2>5 DEF Killed
      <4>2. lines[k] = Whole(scan)[k]
        BY <4>1, <2>3 DEF Killed
      <4> QED
        BY <4>1, <4>2 DEF MadeOf
    <3>2. CASE ~(k <= n)
      <4>1. torn /\ k = n + 1
        BY <3>2, <2>4
      <4>2. lines[k] = Torn
        BY <4>1, <2>3 DEF Killed
      <4> QED
        BY <4>2 DEF MadeOf
    <3> QED
      BY <3>1, <3>2
  <2> HIDE DEF m
  <2> QED
    BY <2>4, <2>6
<1> QED
  BY <1>1, <1>2, <1>3

(* The line reader gives the lines before the first torn one.              *)
LEMMA ReadableIs ==
  ASSUME NEW N, IsListOf(lines, N)
  PROVE  /\ IsListOf(Readable, Len(Readable)) /\ Len(Readable) \in Nat /\ Len(Readable) <= N
         /\ \A k \in 1 .. Len(Readable) : Readable[k] = lines[k] /\ lines[k].type # "torn"
         /\ TornAt = {} => Readable = lines
         /\ TornAt # {} => Len(Readable) < N /\ lines[Len(Readable) + 1].type = "torn"
<1>0. N \in Nat /\ DOMAIN lines = 1 .. N
  BY DEF IsListOf
<1>1. CASE TornAt = {}
  <2>1. Readable = lines
    BY <1>1 DEF Readable
  <2>2. Len(lines) = N
    BY ListIsSequence
  <2>3. \A k \in 1 .. N : lines[k].type # "torn"
    BY <1>0, <1>1 DEF TornAt
  <2> QED
    BY <2>1, <2>2, <2>3, <1>0, <1>1
<1>2. CASE TornAt # {}
  <2>1. TornAt \in SUBSET Nat
    BY <1>0 DEF TornAt
  <2>2. PICK m \in TornAt : \A y \in TornAt : m <= y
    BY <2>1, <1>2, LeastIsIn
  <2>3. Min(TornAt) = m
    <3>1. TornAt \in SUBSET Int
      BY <2>1
    <3> QED
      BY <2>2, <3>1, MinIs
  <2>4. m \in 1 .. N /\ lines[m].type = "torn"
    BY <2>2, <1>0 DEF TornAt
  <2>5. Readable = SubSeq(lines, 1, m - 1)
    BY <2>3, <1>2 DEF Readable
  <2>6. /\ IsListOf(SubSeq(lines, 1, m - 1), m - 1)
        /\ \A j \in 1 .. (m - 1) : SubSeq(lines, 1, m - 1)[j] = lines[j]
    BY <2>4, ListFront
  <2>7. /\ IsListOf(Readable, m - 1)
        /\ \A j \in 1 .. (m - 1) : Readable[j] = lines[j]
    BY <2>5, <2>6
  <2>8. Len(Readable) = m - 1
    BY <2>7, ListIsSequence
  <2>9. ASSUME NEW j \in 1 .. (m - 1) PROVE lines[j].type # "torn"
    <3>1. j \in DOMAIN lines /\ ~(m <= j)
      BY <1>0, <2>4
    <3> QED
      BY <3>1, <2>2 DEF TornAt
  <2>10. m - 1 \in Nat /\ m - 1 <= N /\ m - 1 < N /\ m - 1 + 1 = m
    BY <2>4, <1>0
  <2> QED
    BY <2>4, <2>7, <2>8, <2>9, <2>10, <1>2
<1> QED
  BY <1>1, <1>2

(* The engine's own record, before anything is done with it.               *)
LEMMA InitStands == Init => Inv
<1> SUFFICES ASSUME Init PROVE Inv
  OBVIOUS
<1>1. FileStands
  BY DEF Init, FileStands
<1>2. ReadingStands
  BY DEF Init, ReadingStands
<1>3. WalkStands
  BY DEF Init, WalkStands
<1> QED
  BY <1>1, <1>2, <1>3 DEF Inv

(* While nothing is read, the file is all there is to say.                 *)
LEMMA UnreadStands ==
  ASSUME Inv, phase = "file", UNCHANGED <<phase, pos, v, report, walk>>, FileStands'
  PROVE  Inv'
<1>1. ReadingStands'
  BY DEF Inv, ReadingStands
<1>2. WalkStands'
  BY DEF Inv, WalkStands
<1> QED
  BY <1>1, <1>2 DEF Inv

(* One edit.                                                               *)
LEMMA DamageStands == ASSUME Inv, Damage PROVE Inv'
<1>1. FileStands'
  BY DEF Inv, FileStands, Damage
<1> QED
  BY <1>1, UnreadStands DEF Damage

(* A kill.                                                                 *)
LEMMA KillStands == ASSUME Inv, Kill PROVE Inv'
<1>1. FileStands'
  <2>1. PICK n \in 0 .. Len(Unfinished(scan)), tail \in {<< >>, <<Torn>>} :
          lines' = SubSeq(Unfinished(scan), 1, n) \o tail
    BY DEF Kill
  <2>2. lines' = Chain(SubSeq(Unfinished(scan), 1, n), tail)
    BY <2>1 DEF Chain
  <2>3. scan' = scan /\ partial' = TRUE /\ harm' = "killed" /\ scan \in Scans
    BY DEF Kill, Inv, FileStands
  <2> QED
    BY <2>2, <2>3 DEF FileStands
<1> QED
  BY <1>1, UnreadStands DEF Kill

(* A Verifier that was given nothing holds nothing.                        *)
LEMMA StartVerifyStands == ASSUME Inv, StartVerify PROVE Inv'
<1>1. scan' = scan /\ lines' = lines /\ partial' = partial /\ harm' = harm
  BY DEF StartVerify, file
<1>2. FileStands'
  BY <1>1, FileKeepsItsScan DEF Inv, file
<1>3. Readable' = Readable
  BY <1>1, FileKeeps
<1>4. Len(Readable) \in Nat
  BY FileIsList, ReadableIs DEF Inv
<1>5. ReadingStands'
  <2>1. pos' = 0 /\ v' = NewVerifier /\ phase' = "verifying"
    BY DEF StartVerify, Inv, ReadingStands
  <2>2. Tracks(lines, 0, NewVerifier)
    BY TracksNothing
  <2>3. Tracks(lines', pos', v')
    BY <1>1, <2>1, <2>2
  <2> QED
    BY <1>3, <1>4, <2>1, <2>3 DEF ReadingStands
<1>6. WalkStands'
  BY DEF StartVerify, Inv, WalkStands
<1> QED
  BY <1>2, <1>5, <1>6 DEF Inv

(* One more line is held.                                                  *)
LEMMA ObserveStands == ASSUME Inv, Observe PROVE Inv'
<1>1. scan' = scan /\ lines' = lines /\ partial' = partial /\ harm' = harm
  BY DEF Observe, file
<1>2. FileStands'
  BY <1>1, FileKeepsItsScan DEF Inv, file
<1>3. Readable' = Readable
  BY <1>1, FileKeeps
<1>4. Len(Readable) \in Nat
  BY FileIsList, ReadableIs DEF Inv
<1>5. ReadingStands'
  <2>1. phase = "verifying" /\ phase' = "verifying" /\ pos < Len(Readable) /\ pos' = pos + 1
        /\ v' = Observed(v, lines[pos + 1])
    BY DEF Observe
  <2>2. pos \in 0 .. Len(Readable) /\ Tracks(lines, pos, v)
    BY <2>1 DEF Inv, ReadingStands
  <2>3. pos \in Nat /\ pos + 1 \in 0 .. Len(Readable)
    BY <2>1, <2>2, <1>4
  <2>4. Tracks(lines, pos + 1, Observed(v, lines[pos + 1]))
    BY <2>2, <2>3, OneMore
  <2>5. Tracks(lines', pos', v')
    BY <1>1, <2>1, <2>4
  <2> QED
    BY <1>3, <2>1, <2>3, <2>5 DEF ReadingStands
<1>6. WalkStands'
  BY DEF Observe, Inv, WalkStands
<1> QED
  BY <1>2, <1>5, <1>6 DEF Inv

(* Reading on from where the Verifier is.                                  *)
LEMMA RestStands ==
  ASSUME Inv, UNCHANGED <<file, pos, v>>, phase \in {"verifying", "verified", "read"}
  PROVE  /\ FileStands' /\ Readable' = Readable /\ StreamRefuses' = StreamRefuses
         /\ (pos \in 0 .. Len(Readable))' /\ Tracks(lines, pos, v)' /\ Problems(v)' = Problems(v)
         /\ Walks' = Walks /\ Events' = Events /\ scan' = scan
<1>1. scan' = scan /\ lines' = lines /\ partial' = partial /\ harm' = harm /\ pos' = pos /\ v' = v
  BY DEF file
<1>2. FileStands'
  BY <1>1, FileKeepsItsScan DEF Inv, file
<1>3. /\ Readable' = Readable /\ Events' = Events /\ StreamRefuses' = StreamRefuses
      /\ Walks' = Walks
  BY <1>1, FileKeeps
<1>4. Problems(v)' = Problems(v)
  BY <1>1, ProblemsKeep
<1>5. pos \in 0 .. Len(Readable) /\ Tracks(lines, pos, v)
  BY DEF Inv, ReadingStands
<1>6. (pos \in 0 .. Len(Readable))'
  BY <1>1, <1>3, <1>5
<1>7. Tracks(lines, pos, v)'
  BY <1>1, <1>5
<1> QED
  BY <1>1, <1>2, <1>3, <1>4, <1>6, <1>7

(* What is reported is what is held.                                       *)
LEMMA FinishStands == ASSUME Inv, Finish PROVE Inv'
<1>1. /\ UNCHANGED <<file, pos, v, walk>> /\ phase = "verifying" /\ phase' = "verified"
      /\ pos = Len(Readable)
      /\ report' = IF StreamRefuses THEN {"cannot read"} ELSE Problems(v)
  BY DEF Finish
<1>2. /\ FileStands' /\ Readable' = Readable /\ StreamRefuses' = StreamRefuses
      /\ (pos \in 0 .. Len(Readable))' /\ Tracks(lines, pos, v)' /\ Problems(v)' = Problems(v)
  <2>1. phase \in {"verifying", "verified", "read"} /\ UNCHANGED <<file, pos, v>>
    BY <1>1
  <2> QED
    BY <2>1, RestStands
<1>3. ReadingStands'
  <2>1. (pos = Len(Readable))'
    BY <1>1, <1>2
  <2>2. (report = IF StreamRefuses THEN {"cannot read"} ELSE Problems(v))'
    BY <1>1, <1>2
  <2> QED
    BY <1>1, <1>2, <2>1, <2>2 DEF ReadingStands
<1>4. WalkStands'
  BY <1>1 DEF Inv, WalkStands
<1> QED
  BY <1>2, <1>3, <1>4 DEF Inv

(* The walk goes over the events that were read.                           *)
LEMMA ReadResultsStands == ASSUME Inv, ReadResults PROVE Inv'
<1>1. /\ UNCHANGED <<file, pos, v, report>> /\ phase = "verified" /\ phase' = "read"
  BY DEF ReadResults
<1>2. /\ FileStands' /\ Readable' = Readable /\ StreamRefuses' = StreamRefuses
      /\ (pos \in 0 .. Len(Readable))' /\ Tracks(lines, pos, v)' /\ Problems(v)' = Problems(v)
      /\ Walks' = Walks /\ Events' = Events /\ scan' = scan
  <2>1. phase \in {"verifying", "verified", "read"} /\ UNCHANGED <<file, pos, v>>
    BY <1>1
  <2> QED
    BY <2>1, RestStands
<1>3. ReadingStands'
  <2>0. pos = Len(Readable) /\ report = IF StreamRefuses THEN {"cannot read"} ELSE Problems(v)
    BY <1>1 DEF Inv, ReadingStands
  <2>1. (pos = Len(Readable))'
    BY <1>1, <1>2, <2>0
  <2>2. (report = IF StreamRefuses THEN {"cannot read"} ELSE Problems(v))'
    BY <1>1, <1>2, <2>0
  <2> QED
    BY <1>1, <1>2, <2>1, <2>2 DEF ReadingStands
<1>4. WalkStands'
  <2>1. CASE Walks
    <3>1. \/ \E stray \in Index : walk' = Walked(Walk(Events, Strayed(scan.order, stray)))
          \/ "ranges" \in report /\ walk' = NoWalk
      BY <2>1 DEF ReadResults, Walks
    <3>2. CASE \E stray \in Index : walk' = Walked(Walk(Events, Strayed(scan.order, stray)))
      <4>1. PICK stray \in Index : walk' = Walked(Walk(Events, Strayed(scan.order, stray)))
        BY <3>2
      <4>2. walk' = Walked(Walk(Events', Strayed(scan'.order, stray)))
        BY <4>1, <1>2
      <4>3. WalkFrom(stray)'
        BY <4>2 DEF WalkFrom
      <4> QED
        BY <4>3, <1>1, <1>2, <2>1 DEF WalkStands
    <3>3. CASE "ranges" \in report /\ walk' = NoWalk
      BY <3>3, <1>1, <1>2, <2>1 DEF WalkStands
    <3> QED
      BY <3>1, <3>2, <3>3
  <2>2. CASE ~Walks
    <3>1. walk' = NoWalk
      BY <2>2 DEF ReadResults, Walks
    <3> QED
      BY <3>1, <2>2, <1>1, <1>2 DEF WalkStands
  <2> QED
    BY <2>1, <2>2
<1> QED
  BY <1>2, <1>3, <1>4 DEF Inv

(* Nothing changes, nothing is lost.                                       *)
LEMMA StutterStands == ASSUME Inv, UNCHANGED vars PROVE Inv'
<1>1. UNCHANGED <<file, pos, v>> /\ phase' = phase /\ report' = report /\ walk' = walk
  BY DEF vars, file
<1>2. CASE phase = "file"
  <2>1. FileStands'
    BY <1>1, FileKeepsItsScan DEF Inv
  <2> QED
    BY <1>1, <1>2, <2>1, UnreadStands
<1>3. CASE phase # "file"
  <2>1. phase \in {"verifying", "verified", "read"}
    BY <1>3 DEF Inv, ReadingStands
  <2>2. /\ FileStands' /\ Readable' = Readable /\ StreamRefuses' = StreamRefuses
        /\ (pos \in 0 .. Len(Readable))' /\ Tracks(lines, pos, v)' /\ Problems(v)' = Problems(v)
        /\ Walks' = Walks /\ Events' = Events /\ scan' = scan
    BY <1>1, <2>1, RestStands
  <2>3. ReadingStands'
    <3>1. phase \in {"verified", "read"} =>
            pos = Len(Readable) /\ report = IF StreamRefuses THEN {"cannot read"} ELSE Problems(v)
      BY DEF Inv, ReadingStands
    <3>2. phase' \in {"verified", "read"} =>
            pos' = Len(Readable')
              /\ report' = IF StreamRefuses' THEN {"cannot read"} ELSE Problems(v)'
      BY <1>1, <2>2, <3>1
    <3> QED
      BY <1>1, <1>3, <2>1, <2>2, <3>2 DEF ReadingStands
  <2>4. WalkStands'
    <3>1. \A stray \in Index : WalkFrom(stray) => WalkFrom(stray)'
      BY <1>1, <2>2 DEF WalkFrom
    <3> QED
      BY <1>1, <2>2, <3>1 DEF Inv, WalkStands
  <2> QED
    BY <2>2, <2>3, <2>4 DEF Inv
<1> QED
  BY <1>2, <1>3

(* The invariant holds in every state.                                     *)
THEOREM Invariance == Spec => []Inv
<1>1. Init => Inv
  BY InitStands
<1>2. Inv /\ [Next]_vars => Inv'
  BY DamageStands, KillStands, StartVerifyStands, ObserveStands, FinishStands,
     ReadResultsStands, StutterStands DEF Next, Over
<1> QED
  BY <1>1, <1>2, PTL DEF Spec

(* Each variable is in its set.                                            *)
LEMMA Typed == ASSUME Inv PROVE TypeOK
<1>1. /\ scan \in Scans /\ partial \in BOOLEAN /\ harm \in {"none", "edited", "killed"}
      /\ phase \in {"file", "verifying", "verified", "read"}
  BY DEF Inv, FileStands, ReadingStands
<1>2. IsListOf(lines, Len(lines))
  BY FileIsList DEF Inv
<1>3. Len(Readable) \in Nat /\ Len(Readable) <= Len(lines) /\ Len(lines) \in Nat
  <2>1. Len(lines) \in Nat
    BY <1>2 DEF IsListOf
  <2> QED
    BY <2>1, <1>2, ReadableIs
<1>4. pos \in 0 .. Len(lines) /\ v.events + v.bad = pos
  <2>1. CASE phase = "file"
    <3>1. pos = 0 /\ v = NewVerifier
      BY <2>1 DEF Inv, ReadingStands
    <3>2. NewVerifier.events + NewVerifier.bad = 0
      BY DEF NewVerifier
    <3> QED
      BY <3>1, <3>2, <1>3
  <2>2. CASE phase # "file"
    <3>1. pos \in 0 .. Len(Readable) /\ Tracks(lines, pos, v)
      BY <2>2 DEF Inv, ReadingStands
    <3> QED
      BY <3>1, <1>3 DEF Tracks, TracksCount
  <2> QED
    BY <2>1, <2>2
<1>5. walk.ok \in BOOLEAN
  <2>1. NoWalk.ok = FALSE
    BY DEF NoWalk
  <2>2. \A w : Walked(w).ok = TRUE
    BY DEF Walked
  <2>3. walk = NoWalk \/ \E stray \in Index : WalkFrom(stray)
    BY <1>1 DEF Inv, WalkStands
  <2> QED
    BY <2>1, <2>2, <2>3 DEF WalkFrom
<1> QED
  BY <1>1, <1>4, <1>5 DEF TypeOK

(* A record is what the engine wrote: verify passes every one.             *)
LEMMA WholeVerifies == ASSUME Inv PROVE WholeRecordVerifies
<1> SUFFICES ASSUME harm = "none", phase \in {"verified", "read"} PROVE report = {}
  BY DEF WholeRecordVerifies
<1>1. scan \in Scans /\ lines = Whole(scan) /\ partial = FALSE
  BY DEF Inv, FileStands
<1>2. Fits(lines, scan, 1)
  BY <1>1, WholeFits
<1>3. IsListOf(lines, LineCount(scan, 1)) /\ Len(lines) = LineCount(scan, 1)
  <2>1. IsListOf(lines, LineCount(scan, 1))
    BY <1>1, WholeLines
  <2> QED
    BY <2>1, ListIsSequence
<1>4. TornAt = {}
  <2>1. \A k \in 1 .. LineCount(scan, 1) : lines[k].type \notin {"garbled", "torn"}
    BY <1>1, <1>2, LineKinds
  <2> QED
    BY <2>1, <1>3 DEF TornAt, IsListOf
<1>5. Readable = lines /\ ~StreamRefuses
  BY <1>4 DEF Readable, StreamRefuses
<1>6. pos = LineCount(scan, 1) /\ report = Problems(v) /\ Tracks(lines, pos, v)
  BY <1>3, <1>5 DEF Inv, ReadingStands
<1>7. Tracks(Whole(scan), LineCount(scan, 1), v)
  BY <1>1, <1>6
<1> QED
  BY <1>1, <1>6, <1>7, WholePasses

(* What a passed record is.                                                *)
SumsStand == v.counts = Counts(scan) /\ (v.spans > 0 <=> SpanCount(scan) # 0) /\ v.spans \in Nat

(* A file in which verify finds nothing is the record of its scan.         *)
LEMMA Accepted ==
  ASSUME Inv, phase \in {"verified", "read"}, report = {}
  PROVE  /\ ~partial /\ scan \in Scans /\ ~StreamRefuses /\ Events = lines
         /\ StillThe(scan, lines) /\ SumsStand
<1>1. pos = Len(Readable) /\ report = IF StreamRefuses THEN {"cannot read"} ELSE Problems(v)
  BY DEF Inv, ReadingStands
<1>2. ~StreamRefuses /\ Problems(v) = {}
  BY <1>1
<1>3. Passes(v)
  BY <1>2, ProblemsAre
<1>4. ~partial
  BY <1>3 DEF Passes
<1>5. TornAt = {}
  BY <1>2, <1>4 DEF StreamRefuses
<1>6. Readable = lines
  BY <1>5 DEF Readable
<1>7. scan \in Scans
  BY DEF Inv, FileStands
<1>8. Tracks(lines, Len(lines), v)
  BY <1>1, <1>6 DEF Inv, ReadingStands
<1>9. harm \in {"none", "edited"}
  BY <1>4 DEF Inv, FileStands
<1>10. StillThe(scan, lines)
  <2>1. CASE harm = "none"
    <3>1. lines = Whole(scan)
      BY <2>1 DEF Inv, FileStands
    <3>2. Fits(Whole(scan), scan, 1)
      BY <1>7, WholeFits
    <3>3. Whole(scan)[2].seed = TRUE
      BY <1>7, WholeLines
    <3> QED
      BY <3>1, <3>2, <3>3 DEF StillThe, Leads
  <2>2. CASE harm = "edited"
    <3>1. lines \in Edits(Whole(scan))
      BY <2>2 DEF Inv, FileStands
    <3>2. Readably(lines, Len(lines))
      <4>1. IsListOf(lines, Len(lines))
        BY FileIsList DEF Inv
      <4> QED
        BY <4>1, <1>5 DEF Readably, TornAt, IsListOf
    <3> QED
      BY <3>1, <3>2, <1>3, <1>7, <1>8, EditedPasses
  <2> QED
    BY <1>9, <2>1, <2>2
<1>11. PICK g : Fits(lines, scan, g) /\ Leads(lines, scan)
  BY <1>10 DEF StillThe
<1> DEFINE N == LineCount(scan, g)
<1>12. /\ \A k \in 1 .. N : Sound(lines, k) /\ Counting(lines[k])
       /\ Clean(lines, N) /\ Headed(lines, N) /\ N \in Nat /\ N >= 3 /\ Len(lines) = N
  BY <1>7, <1>11, FitsIsSound
<1>13. IsListOf(lines, N)
  BY <1>11 DEF Fits
<1>14. Events = lines
  <2>1. {j \in DOMAIN lines : lines[j].type # "garbled"} = 1 .. N
    BY <1>12, <1>13 DEF Clean, IsListOf
  <2>2. Events = [k \in 1 .. N |-> lines[k]]
    BY <1>6, <2>1 DEF Events
  <2> QED
    BY <2>2, <1>13 DEF IsListOf
<1>15. Tracks(lines, N, v)
  BY <1>8, <1>12
<1>16. TracksEnd(lines, N, v) /\ TracksSums(lines, N, v)
  BY <1>12, <1>15 DEF Tracks
<1>17. v.terminals # 0
  BY <1>3 DEF Passes, TerminalPasses
<1>18. v.terminalAt \in 1 .. N /\ lines[v.terminalAt].type \in Terminals
       /\ v.counts = lines[v.terminalAt].counts
  BY <1>16, <1>17 DEF TracksEnd
<1>19. v.terminalAt = N
  BY <1>7, <1>11, <1>18, LineKinds
<1>20. v.counts = Counts(scan)
  BY <1>11, <1>18, <1>19 DEF Fits, IsTerminal
<1>21. v.spans \in Nat /\ (v.spans = 0 <=> \A k \in 1 .. N : lines[k].type # "probe_span")
  BY <1>16 DEF TracksSums
<1>22. (\E k \in 1 .. N : lines[k].type = "probe_span") <=> SpanCount(scan) # 0
  <2>0. SpanCount(scan) \in Nat /\ RowCount(scan) \in Nat
    BY <1>7, SpannedIs
  <2>1. ASSUME NEW k \in 1 .. N, lines[k].type = "probe_span" PROVE SpanCount(scan) # 0
    <3>1. PICK j \in 1 .. SpanCount(scan) : TRUE
      BY <1>7, <1>11, <2>1, LineKinds
    <3> QED
      BY <3>1, <2>0
  <2>2. ASSUME SpanCount(scan) # 0 PROVE \E k \in 1 .. N : lines[k].type = "probe_span"
    <3>1. 1 \in 1 .. SpanCount(scan)
      BY <2>0, <2>2
    <3>2. lines[2 + g + RowCount(scan) + 1].type = "probe_span"
      BY <1>11, <3>1 DEF Fits, IsSpan
    <3>3. g \in {0, 1}
      BY <1>11 DEF Fits
    <3>4. 2 + g + RowCount(scan) + 1 \in 1 .. N
      BY <2>0, <2>2, <3>3 DEF LineCount
    <3> QED
      BY <3>2, <3>4
  <2> QED
    BY <2>1, <2>2
<1>23. SumsStand
  BY <1>20, <1>21, <1>22 DEF SumsStand
<1> QED
  BY <1>2, <1>4, <1>7, <1>10, <1>14, <1>23

(* A stray index leads the others nowhere else.                            *)
LEMMA StrayedIs ==
  ASSUME NEW order, NEW stray, NEW i \in Index
  PROVE  Strayed(order, stray)[i] = order[i]
<1>1. i \in 0 .. Planned /\ i # Planned
  BY PlanIs DEF Index
<1> QED
  BY <1>1 DEF Strayed

(* A walk that answered went over the events of the file.                  *)
LEMMA WalkedIs ==
  ASSUME Inv, phase = "read", walk.ok
  PROVE  /\ \E order : /\ \A i \in Index : order[i] = scan.order[i]
                       /\ walk.results = Walk(Events, order).results
                       /\ walk.unreadable = Walk(Events, order).unreadable
         /\ ~StreamRefuses /\ CanWalk(Events)
<1>1. NoWalk.ok = FALSE
  BY DEF NoWalk
<1>2. walk # NoWalk
  BY <1>1
<1>3. Walks /\ \E stray \in Index : WalkFrom(stray)
  BY <1>2 DEF Inv, WalkStands
<1>4. PICK stray \in Index : WalkFrom(stray)
  BY <1>3
<1> DEFINE order == Strayed(scan.order, stray)
<1>5. \A i \in Index : order[i] = scan.order[i]
  BY StrayedIs
<1>6. walk = Walked(Walk(Events, order))
  BY <1>4 DEF WalkFrom
<1>7. walk.results = Walk(Events, order).results /\ walk.unreadable = Walk(Events, order).unreadable
  BY <1>6 DEF Walked
<1> HIDE DEF order
<1> QED
  BY <1>3, <1>5, <1>7 DEF Walks

(* The lines of a list are where it begins.                                *)
LEMMA AllOf ==
  ASSUME NEW s, NEW g, NEW L, Fits(L, s, g)
  PROVE  Begins(L, L, LineCount(s, g)) /\ LineCount(s, g) \in 0 .. LineCount(s, g)
<1>1. IsListOf(L, LineCount(s, g))
  BY DEF Fits
<1>2. LineCount(s, g) \in Nat
  BY <1>1 DEF IsListOf
<1> QED
  BY <1>1, <1>2 DEF Begins

(* The results of a record that passed are those of the scan.              *)
ReadsTruth ==
  /\ Seen = Truth /\ Truth = TruthOf(scan)
  /\ IsFiniteSet(DOMAIN walk.results)
  /\ Cardinality(DOMAIN walk.results) = Cardinality(Truth)
  /\ walk.unreadable = 0
  /\ \A p \in DOMAIN walk.results : walk.results[p].state \in States
  /\ \A s \in States :
       /\ v.counts[s] = Cardinality({t \in Truth : t[2] = s})
       /\ v.counts[s] = Cardinality({p \in DOMAIN walk.results : walk.results[p].state = s})

(* The walk over it finds what the scan found.                             *)
LEMMA AcceptedReads ==
  ASSUME Inv, phase = "read", report = {}, walk.ok
  PROVE  ReadsTruth
<1>0. Truth = TruthOf(scan) /\ Seen = SeenIn(walk.results)
  BY DEF Truth, TruthOf, Seen, SeenIn
<1>1. scan \in Scans /\ Events = lines /\ StillThe(scan, lines) /\ v.counts = Counts(scan)
  <2>1. phase \in {"verified", "read"}
    OBVIOUS
  <2> QED
    BY <2>1, Accepted DEF SumsStand
<1>2. PICK g : Fits(lines, scan, g) /\ Leads(lines, scan)
  BY <1>1 DEF StillThe
<1>3. PICK order : /\ \A i \in Index : order[i] = scan.order[i]
                   /\ walk.results = Walk(lines, order).results
                   /\ walk.unreadable = Walk(lines, order).unreadable
  BY <1>1, WalkedIs
<1>4. Begins(lines, lines, LineCount(scan, g)) /\ LineCount(scan, g) \in 0 .. LineCount(scan, g)
  BY <1>2, AllOf
<1>5. /\ DOMAIN Walk(lines, order).results = Held(lines)
      /\ \A p \in Held(lines) : Walk(lines, order).results[p].state \in States
      /\ Walk(lines, order).unreadable = 0
  BY <1>1, <1>2, <1>3, <1>4, WalkOfPart
<1>6. /\ SeenIn(Walk(lines, order).results) = TruthOf(scan)
      /\ Cardinality(Held(lines)) = Cardinality(Reported(scan))
      /\ \A state \in States :
           Cardinality({p \in Held(lines) : Walk(lines, order).results[p].state = state})
             = Cardinality(InState(scan, state))
  BY <1>1, <1>2, <1>3, WalkOfWhole
<1>7. /\ Cardinality(TruthOf(scan)) = Cardinality(Reported(scan))
      /\ \A state : Cardinality({t \in TruthOf(scan) : t[2] = state})
                      = Cardinality(InState(scan, state))
  BY <1>1, TruthCounts
<1>8. IsFiniteSet(Held(lines))
  BY <1>1, <1>2, <1>4, BeginsIsList
<1>9. \A state \in States : Counts(scan)[state] = Cardinality(InState(scan, state))
  BY <1>1, CountsAgree
<1>10. DOMAIN walk.results = Held(lines)
  BY <1>3, <1>5
<1>11. \A s \in States : v.counts[s] = Cardinality({t \in Truth : t[2] = s})
  BY <1>0, <1>1, <1>7, <1>9
<1>12. \A s \in States :
         v.counts[s] = Cardinality({p \in DOMAIN walk.results : walk.results[p].state = s})
  <2> TAKE s \in States
  <2>1. Cardinality({p \in Held(lines) : Walk(lines, order).results[p].state = s})
          = Cardinality(InState(scan, s))
    BY <1>6
  <2>2. {p \in Held(lines) : Walk(lines, order).results[p].state = s}
          = {p \in DOMAIN walk.results : walk.results[p].state = s}
    BY <1>3, <1>10
  <2> QED
    BY <2>1, <2>2, <1>1, <1>9
<1>13. Seen = Truth
  BY <1>0, <1>3, <1>6
<1>14. Cardinality(DOMAIN walk.results) = Cardinality(Truth)
  BY <1>0, <1>6, <1>7, <1>10
<1>15. walk.unreadable = 0 /\ \A p \in DOMAIN walk.results : walk.results[p].state \in States
  BY <1>3, <1>5, <1>10
<1>16. IsFiniteSet(DOMAIN walk.results)
  BY <1>8, <1>10
<1> QED
  BY <1>0, <1>11, <1>12, <1>13, <1>14, <1>15, <1>16 DEF ReadsTruth

(* A record that passed and cannot be walked has a plan nobody can expand. *)
LEMMA AcceptedRefuses ==
  ASSUME Inv, phase = "read", report = {}, ~walk.ok
  PROVE  ~Expandable(scan.mode) /\ v.spans > 0
<1>1. scan \in Scans /\ Events = lines /\ ~StreamRefuses /\ StillThe(scan, lines) /\ SumsStand
  <2>1. phase \in {"verified", "read"}
    OBVIOUS
  <2> QED
    BY <2>1, Accepted
<1>2. PICK g : Fits(lines, scan, g) /\ Leads(lines, scan)
  BY <1>1 DEF StillThe
<1> DEFINE N == LineCount(scan, g)
<1>3. N \in Nat /\ N >= 3
  BY <1>1, <1>2, FitsIsSound
<1>4. DOMAIN lines = 1 .. N
  BY <1>2 DEF Fits, IsListOf
<1>5. ~Walks
  <2>1. ASSUME Walks PROVE FALSE
    <3>1. \E stray \in Index : WalkFrom(stray)
      BY <2>1 DEF Inv, WalkStands
    <3>2. \A w : Walked(w).ok = TRUE
      BY DEF Walked
    <3> QED
      BY <3>1, <3>2 DEF WalkFrom
  <2> QED
    BY <2>1
<1>6. ~CanWalk(lines)
  BY <1>1, <1>3, <1>4, <1>5 DEF Walks
<1>7. PICK k \in 1 .. N : /\ lines[k].type = "probe_span"
                          /\ ~(/\ ConfigsBefore(lines, k) # {}
                               /\ Expandable(lines[Min(ConfigsBefore(lines, k))].mode))
  BY <1>4, <1>6 DEF CanWalk
<1>8. PICK j \in 1 .. SpanCount(scan) : k = 2 + g + RowCount(scan) + j
  BY <1>1, <1>2, <1>7, LineKinds
<1>9. SpanCount(scan) \in Nat /\ RowCount(scan) \in Nat /\ g \in {0, 1}
  BY <1>1, <1>2, SpannedIs DEF Fits
<1>10. k \in 3 .. N /\ SpanCount(scan) # 0
  BY <1>7, <1>8, <1>9
<1>11. /\ ConfigsBefore(lines, k) # {} /\ Min(ConfigsBefore(lines, k)) = 2
       /\ lines[2].mode = scan.mode
  <2>1. Begins(lines, lines, N) /\ N \in 0 .. N
    BY <1>2, AllOf
  <2> QED
    BY <1>1, <1>2, <1>10, <2>1, PlanIsRead
<1>12. ~Expandable(scan.mode)
  BY <1>7, <1>11
<1>13. v.spans > 0
  BY <1>1, <1>10 DEF SumsStand
<1> QED
  BY <1>12, <1>13

(* Together: what verify accepts is the scan.                              *)
LEMMA VerifiedIs == ASSUME Inv PROVE VerifiedIsTheScan
<1> SUFFICES ASSUME phase = "read", report = {}
             PROVE  /\ ~partial
                    /\ walk.ok =>
                         /\ Seen = Truth
                         /\ Cardinality(DOMAIN walk.results) = Cardinality(Truth)
                         /\ walk.unreadable = 0
                         /\ \A s \in States : v.counts[s] = Cardinality({t \in Truth : t[2] = s})
                    /\ ~walk.ok => ~Expandable(scan.mode) /\ v.spans > 0
  BY DEF VerifiedIsTheScan
<1>1. ~partial
  BY Accepted
<1>2. walk.ok => ReadsTruth
  BY AcceptedReads
<1>3. ~walk.ok => ~Expandable(scan.mode) /\ v.spans > 0
  BY AcceptedRefuses
<1> QED
  BY <1>1, <1>2, <1>3 DEF ReadsTruth

(* No finding of a record whose every line is sound is about a range.      *)
LEMMA NoRanges ==
  ASSUME NEW w, w.problems = {}
  PROVE  "ranges" \notin Problems(w)
<1>1. \A bad : Failed(bad) \subseteq DOMAIN bad
  BY DEF Failed
<1>2. "ranges" \notin Failed([line |-> w.bad > 0])
  <2> DEFINE bad == [line |-> w.bad > 0]
  <2>1. DOMAIN bad = {"line"}
    OBVIOUS
  <2> HIDE DEF bad
  <2>2. "ranges" \notin Failed(bad)
    BY <2>1, <1>1
  <2> QED
    BY <2>2 DEF bad
<1>3. "ranges" \notin Failed([line |-> w.bad > 0, suffix |-> partial])
  <2> DEFINE bad == [line |-> w.bad > 0, suffix |-> partial]
  <2>1. DOMAIN bad = {"line", "suffix"}
    OBVIOUS
  <2> HIDE DEF bad
  <2>2. "ranges" \notin Failed(bad)
    BY <2>1, <1>1
  <2> QED
    BY <2>2 DEF bad
<1>4. "ranges" \notin ReportHeader(w)
  <2> DEFINE bad == [first |-> w.first # "scan_started",
          second |-> w.events > 1 /\ w.second # "scan_config",
          version |-> w.version # None /\ w.version \notin SupportedVersions,
          seed |-> w.spans > 0 /\ w.sawConfig /\ ~w.seed /\ w.version >= 2]
  <2>1. DOMAIN bad = {"first", "second", "version", "seed"}
    OBVIOUS
  <2> HIDE DEF bad
  <2>2. "ranges" \notin Failed(bad)
    BY <2>1, <1>1
  <2> QED
    BY <2>2 DEF bad, ReportHeader
<1>5. "ranges" \notin ReportTerminal(w)
  <2> DEFINE bad == [no_terminal |-> w.terminals = 0, terminals |-> w.terminals > 1,
          follow |-> w.terminals = 1 /\ w.terminalAt # w.events]
  <2>1. DOMAIN bad = {"no_terminal", "terminals", "follow"}
    OBVIOUS
  <2> HIDE DEF bad
  <2>2. "ranges" \notin Failed(bad)
    BY <2>1, <1>1
  <2> QED
    BY <2>2 DEF bad, ReportTerminal
<1>6. "ranges" \notin ReportCounts(w)
  <2> DEFINE bad == [completed |-> w.counts.completed # w.probes + w.spanProbes,
               parts |-> Answers(w.counts) # w.counts.completed,
               planned |-> w.counts.planned # w.counts.completed + w.counts.abandoned
                                                + w.counts.not_started]
  <2>1. DOMAIN bad = {"completed", "parts", "planned"}
    OBVIOUS
  <2> HIDE DEF bad
  <2>2. "ranges" \notin Failed(bad)
    BY <2>1, <1>1
  <2>3. ReportCounts(w) = IF w.terminals = 0 THEN {} ELSE Failed(bad)
    BY DEF bad, ReportCounts
  <2> QED
    BY <2>2, <2>3
<1> QED
  BY <1>2, <1>3, <1>4, <1>5, <1>6 DEF Problems

(* The beginning of a record, as the reader is given it.                   *)
Begun(n) ==
  /\ Begins(Events, Whole(scan), n) /\ n \in 0 .. LineCount(scan, 1)
  /\ Begins(First(lines, n), Whole(scan), n)
  /\ Tracks(lines, n, v) /\ First(lines, n) = Events /\ pos = n

(* A killed record is read from its beginning to where it ends.            *)
LEMMA KilledGives ==
  ASSUME Inv, phase = "read", harm = "killed"
  PROVE  \E n : Begun(n)
<1>1. scan \in Scans
  BY DEF Inv, FileStands
<1>2. PICK n \in 0 .. Len(Unfinished(scan)) :
        \E tail \in {<< >>, <<Torn>>} : lines = Chain(SubSeq(Unfinished(scan), 1, n), tail)
  BY DEF Inv, FileStands
<1>3. PICK tail \in {<< >>, <<Torn>>} : lines = Chain(SubSeq(Unfinished(scan), 1, n), tail)
  BY <1>2
<1>4. PICK torn \in BOOLEAN : Killed(scan, lines, n, torn)
  BY <1>1, <1>3, KilledIs
<1>5. /\ n \in Nat /\ n < LineCount(scan, 1) /\ LineCount(scan, 1) \in Nat
      /\ \A k \in 1 .. n : lines[k] = Whole(scan)[k]
      /\ torn => lines[n + 1] = Torn
  <2>1. LineCount(scan, 1) \in Nat
    BY <1>1, WholeLines
  <2> QED
    BY <2>1, <1>4 DEF Killed
<1>6. ASSUME NEW k \in 1 .. n PROVE lines[k].type \notin {"garbled", "torn"}
  <2>1. k \in 1 .. LineCount(scan, 1)
    BY <1>5
  <2>2. Whole(scan)[k].type \notin {"garbled", "torn"}
    BY <1>1, <2>1, WholeFits, LineKinds
  <2> QED
    BY <2>2, <1>5
<1> DEFINE N == IF torn THEN n + 1 ELSE n
           M == Len(Readable)
<1>7. IsListOf(lines, N)
  BY <1>4 DEF Killed
<1>8. N \in Nat /\ DOMAIN lines = 1 .. N
  BY <1>7 DEF IsListOf
<1>9. /\ IsListOf(Readable, M) /\ M \in Nat /\ M <= N
      /\ \A k \in 1 .. M : Readable[k] = lines[k] /\ lines[k].type # "torn"
      /\ TornAt = {} => Readable = lines
      /\ TornAt # {} => M < N /\ lines[M + 1].type = "torn"
  <2> HIDE DEF N
  <2> QED
    BY <1>7, ReadableIs
<1>10. M = n
  <2>1. CASE torn
    <3>1. lines[n + 1].type = "torn" /\ n + 1 \in DOMAIN lines
      BY <1>5, <1>8, <2>1 DEF Torn
    <3>2. TornAt # {}
      BY <3>1 DEF TornAt
    <3>3. M < n + 1 /\ lines[M + 1].type = "torn"
      BY <1>9, <2>1, <3>2
    <3>4. M + 1 \notin 1 .. n
      BY <1>6, <3>3
    <3> QED
      BY <3>3, <3>4, <1>9, <1>5
  <2>2. CASE ~torn
    <3>1. TornAt = {}
      BY <1>6, <1>8, <2>2 DEF TornAt
    <3>2. M = Len(lines)
      BY <3>1, <1>9
    <3>3. Len(lines) = N
      <4> HIDE DEF N
      <4> QED
        BY <1>7, ListIsSequence
    <3> QED
      BY <3>2, <3>3, <2>2
  <2> QED
    BY <2>1, <2>2
<1> HIDE DEF N, M
<1>11. IsListOf(Readable, n) /\ \A k \in 1 .. n : Readable[k] = lines[k]
  BY <1>9, <1>10
<1>12. Events = [k \in 1 .. n |-> lines[k]]
  <2>1. DOMAIN Readable = 1 .. n
    BY <1>11 DEF IsListOf
  <2>2. {j \in DOMAIN Readable : Readable[j].type # "garbled"} = 1 .. n
    BY <2>1, <1>6, <1>11
  <2>3. Events = [k \in 1 .. n |-> Readable[k]]
    BY <2>2 DEF Events
  <2> QED
    BY <2>3, <1>11
<1>13. First(lines, n) = Events
  BY <1>12 DEF First
<1>14. Begins(Events, Whole(scan), n)
  <2>1. IsListOf(Events, n)
    BY <1>5, <1>12 DEF IsListOf
  <2>2. \A k \in 1 .. n : Events[k] = Whole(scan)[k]
    BY <1>5, <1>12
  <2> QED
    BY <2>1, <2>2 DEF Begins
<1>15. pos = n /\ Tracks(lines, n, v)
  BY <1>10 DEF Inv, ReadingStands, M
<1>16. n \in 0 .. LineCount(scan, 1)
  BY <1>5
<1> QED
  BY <1>13, <1>14, <1>15, <1>16 DEF Begun

(* Nothing but its end is wrong with it.                                   *)
LEMMA BegunIsSound ==
  ASSUME scan \in Scans, NEW n, Begun(n)
  PROVE  /\ n \in Nat /\ v.problems = {}
         /\ v.spans \in Nat /\ (v.spans = 0 <=> \A k \in 1 .. n : Events[k].type # "probe_span")
         /\ v.probes + v.spanProbes = Cardinality(Held(Events))
<1> DEFINE W == Whole(scan)
           N == LineCount(scan, 1)
<1>1. /\ \A k \in 1 .. N : Sound(W, k) /\ Counting(W[k])
      /\ Clean(W, N) /\ Headed(W, N) /\ N \in Nat /\ N >= 3
  BY WholeFits, FitsIsSound
<1>2. n \in Nat /\ n <= N
  BY <1>1 DEF Begun
<1>3. \A k \in 1 .. n : Events[k] = W[k] /\ lines[k] = W[k]
  BY DEF Begun, Begins, First
<1> HIDE DEF W, N
<1>4. \A k \in 1 .. n : k \in 1 .. N
  BY <1>1, <1>2
<1>5. Clean(lines, n)
  BY <1>1, <1>3, <1>4 DEF Clean
<1>6. Headed(lines, n)
  <2>1. n >= 1 => 1 \in 1 .. n
    BY <1>2
  <2>2. n >= 2 => 2 \in 1 .. n /\ 1 \in 1 .. n
    BY <1>2
  <2> QED
    BY <1>1, <1>2, <1>3, <2>1, <2>2 DEF Headed
<1>7. ASSUME NEW k \in 1 .. n PROVE Sound(lines, k)
  <2>1. Sound(W, k) /\ lines[k] = W[k]
    BY <1>1, <1>3, <1>4
  <2>2. 1 \in 1 .. n /\ lines[1] = W[1]
    BY <1>2, <1>3
  <2>3. k # 1 => lines[k - 1] = W[k - 1]
    <3>1. k # 1 => k - 1 \in 1 .. n
      BY <1>2
    <3> QED
      BY <3>1, <1>3
  <2>4. Previous(lines, k) = Previous(W, k)
    BY <2>3 DEF Previous
  <2> QED
    BY <2>1, <2>2, <2>4 DEF Sound, InSequence
<1>8. \A k \in 1 .. n : Counting(lines[k])
  BY <1>1, <1>3, <1>4
<1>9. TracksSums(lines, n, v) /\ TracksProblems(lines, n, v)
  BY <1>5, <1>6 DEF Begun, Tracks
<1>10. v.problems = {}
  BY <1>7, <1>9 DEF TracksProblems
<1>11. v.probes + v.spanProbes = Cardinality(Held(First(lines, n)))
  BY <1>8, <1>9 DEF TracksSums
<1>12. First(lines, n) = Events
  BY DEF Begun
<1>13. v.spans \in Nat /\ (v.spans = 0 <=> \A k \in 1 .. n : Events[k].type # "probe_span")
  BY <1>3, <1>9 DEF TracksSums
<1> QED
  BY <1>2, <1>10, <1>11, <1>12, <1>13

(* So the walk finds some of what the scan found, and all that was counted.*)
LEMMA KilledReads ==
  ASSUME Inv, phase = "read", harm = "killed", DOMAIN Events # {},
         Expandable(scan.mode) \/ v.spans = 0
  PROVE  walk.ok /\ Seen \subseteq Truth
        /\ Cardinality(DOMAIN walk.results) = v.probes + v.spanProbes
<1>1. scan \in Scans /\ partial
  BY DEF Inv, FileStands
<1>2. PICK n : Begun(n)
  BY KilledGives
<1>3. /\ n \in Nat /\ v.problems = {}
      /\ v.spans \in Nat /\ (v.spans = 0 <=> \A k \in 1 .. n : Events[k].type # "probe_span")
      /\ v.probes + v.spanProbes = Cardinality(Held(Events))
  BY <1>1, <1>2, BegunIsSound
<1>4. Begins(Events, Whole(scan), n) /\ n \in 0 .. LineCount(scan, 1)
  BY <1>2 DEF Begun
<1>5. Fits(Whole(scan), scan, 1)
  BY <1>1, WholeFits
<1>6. ~StreamRefuses
  BY <1>1 DEF StreamRefuses
<1>7. "ranges" \notin report
  <2>1. report = Problems(v)
    BY <1>6 DEF Inv, ReadingStands
  <2> QED
    BY <2>1, <1>3, NoRanges
<1>8. CanWalk(Events)
  <2> SUFFICES ASSUME NEW k \in DOMAIN Events, Events[k].type = "probe_span"
               PROVE  /\ ConfigsBefore(Events, k) # {}
                      /\ Expandable(Events[Min(ConfigsBefore(Events, k))].mode)
    BY DEF CanWalk
  <2>1. k \in 1 .. n /\ Events[k] = Whole(scan)[k]
    BY <1>4 DEF Begins, IsListOf
  <2>2. k \in 1 .. LineCount(scan, 1)
    <3>1. LineCount(scan, 1) \in Nat
      BY <1>1, WholeLines
    <3> QED
      BY <3>1, <2>1, <1>3, <1>4
  <2>3. PICK j \in 1 .. SpanCount(scan) : k = 2 + 1 + RowCount(scan) + j
    BY <1>1, <1>5, <2>1, <2>2, LineKinds
  <2>4. RowCount(scan) \in Nat /\ SpanCount(scan) \in Nat
    BY <1>1, SpannedIs
  <2>5. k \in 3 .. n
    BY <2>1, <2>3, <2>4
  <2>6. /\ ConfigsBefore(Events, k) # {} /\ Min(ConfigsBefore(Events, k)) = 2
        /\ Events[2].mode = scan.mode
    BY <1>1, <1>4, <1>5, <2>5, PlanIsRead
  <2>7. Expandable(scan.mode)
    BY <2>1, <1>3
  <2> QED
    BY <2>6, <2>7
<1>9. walk.ok
  <2>1. Walks
    BY <1>6, <1>8 DEF Walks
  <2>2. \E stray \in Index : WalkFrom(stray)
    BY <2>1, <1>7 DEF Inv, WalkStands
  <2>3. \A w : Walked(w).ok = TRUE
    BY DEF Walked
  <2> QED
    BY <2>2, <2>3 DEF WalkFrom
<1>10. PICK order : /\ \A i \in Index : order[i] = scan.order[i]
                    /\ walk.results = Walk(Events, order).results
  BY <1>9, WalkedIs
<1>11. Leads(Whole(scan), scan)
  <2>1. Whole(scan)[2].seed = TRUE
    BY <1>1, WholeLines
  <2> QED
    BY <2>1 DEF Leads
<1>12. /\ DOMAIN Walk(Events, order).results = Held(Events)
       /\ SeenIn(Walk(Events, order).results) \subseteq TruthOf(scan)
  BY <1>1, <1>4, <1>5, <1>10, <1>11, WalkOfPart
<1>13. Truth = TruthOf(scan) /\ Seen = SeenIn(walk.results)
  BY DEF Truth, TruthOf, Seen, SeenIn
<1> QED
  BY <1>3, <1>9, <1>10, <1>12, <1>13

(* Together: a killed record is read, and never passes.                    *)
LEMMA KilledIsRead == ASSUME Inv PROVE KilledRecordIsRead
<1> SUFFICES ASSUME phase = "read", harm = "killed"
             PROVE  /\ report # {}
                    /\ DOMAIN Events # {} /\ (Expandable(scan.mode) \/ v.spans = 0) =>
                         /\ walk.ok
                         /\ Seen \subseteq Truth
                         /\ Cardinality(DOMAIN walk.results) = v.probes + v.spanProbes
  BY DEF KilledRecordIsRead
<1>1. report # {}
  <2>1. partial
    BY DEF Inv, FileStands
  <2>2. ASSUME report = {} PROVE ~partial
    <3>1. phase \in {"verified", "read"}
      OBVIOUS
    <3> QED
      BY <2>2, <3>1, Accepted
  <2> QED
    BY <2>1, <2>2
<1> QED
  BY <1>1, KilledReads

(* The commands for some results offer each host the ports found on it,    *)
(* and a host is in one command.                                           *)
LEMMA CommandsAre ==
  ASSUME NEW hits
  PROVE  /\ UNION {c.hosts \X c.ports : c \in Commands(hits)} = {<<h.host, h.port>> : h \in hits}
         /\ \A c, d \in Commands(hits) : c # d => c.hosts \intersect d.hosts = {}
<1> DEFINE H == {h.host : h \in hits}
           P == [host \in H |-> {h.port : h \in {g \in hits : g.host = host}}]
           C(host) == [ports |-> P[host], hosts |-> {other \in H : P[other] = P[host]}]
<1>1. Commands(hits) = {C(host) : host \in H}
  BY DEF Commands
<1>2. \A host \in H : \A p : p \in P[host] <=> \E h \in hits : h.host = host /\ h.port = p
  OBVIOUS
<1>3. \A host : host \in H <=> \E h \in hits : h.host = host
  OBVIOUS
<1>4. \A host : C(host).ports = P[host] /\ C(host).hosts = {other \in H : P[other] = P[host]}
  OBVIOUS
<1>5. \A host : \A other : other \in C(host).hosts <=> other \in H /\ P[other] = P[host]
  BY <1>4
<1> HIDE DEF H, P
<1>6. ASSUME NEW x, x \in UNION {c.hosts \X c.ports : c \in Commands(hits)}
      PROVE  x \in {<<h.host, h.port>> : h \in hits}
  <2>1. PICK c \in Commands(hits) : x \in c.hosts \X c.ports
    BY <1>6
  <2>2. PICK host \in H : c = C(host)
    BY <1>1, <2>1
  <2>3. PICK other \in c.hosts, p \in c.ports : x = <<other, p>>
    BY <2>1
  <2>4. other \in H /\ P[other] = P[host]
    BY <1>5, <2>2, <2>3
  <2>5. p \in P[other]
    BY <1>4, <2>2, <2>3, <2>4
  <2>6. PICK h \in hits : h.host = other /\ h.port = p
    BY <1>2, <2>4, <2>5
  <2> QED
    BY <2>3, <2>6
<1>7. ASSUME NEW h \in hits
      PROVE  <<h.host, h.port>> \in UNION {c.hosts \X c.ports : c \in Commands(hits)}
  <2>1. h.host \in H
    BY <1>3
  <2>2. h.port \in P[h.host]
    BY <1>2, <2>1
  <2>3. C(h.host) \in Commands(hits)
    BY <1>1, <2>1
  <2>4. h.host \in C(h.host).hosts /\ h.port \in C(h.host).ports
    BY <1>4, <1>5, <2>1, <2>2
  <2> HIDE DEF C
  <2>5. <<h.host, h.port>> \in C(h.host).hosts \X C(h.host).ports
    BY <2>4
  <2> QED
    BY <2>3, <2>5
<1>8. UNION {c.hosts \X c.ports : c \in Commands(hits)} = {<<h.host, h.port>> : h \in hits}
  BY <1>6, <1>7
<1>9. ASSUME NEW c \in Commands(hits), NEW d \in Commands(hits),
             NEW o \in c.hosts \intersect d.hosts
      PROVE  c = d
  <2>1. PICK host \in H : c = C(host)
    BY <1>1
  <2>2. PICK host2 \in H : d = C(host2)
    BY <1>1
  <2>3. P[o] = P[host] /\ P[o] = P[host2]
    BY <1>5, <1>9, <2>1, <2>2
  <2>4. C(host) = C(host2)
    BY <2>3
  <2> QED
    BY <2>1, <2>2, <2>4
<1> QED
  BY <1>8, <1>9

(* What is handed on is what the scan found open.                          *)
LEMMA HandoffIs == ASSUME Inv PROVE HandoffIsWhatIsOpen
<1> DEFINE open == Hits(walk.results, [hosts |-> {}, ports |-> {}, states |-> {"open"}])
<1> SUFFICES ASSUME phase = "read", walk.ok, report = {}
             PROVE  /\ UNION {c.hosts \X c.ports : c \in Commands(open)}
                         = {t[1] : t \in {u \in Truth : u[2] = "open"}}
                    /\ \A c, d \in Commands(open) : c # d => c.hosts \intersect d.hosts = {}
  BY DEF HandoffIsWhatIsOpen
<1>1. Seen = Truth
  BY AcceptedReads DEF ReadsTruth
<1>2. open = {walk.results[k] : k \in {j \in DOMAIN walk.results : walk.results[j].state = "open"}}
  BY DEF Hits, Wants
<1>3. {<<h.host, h.port>> : h \in open} = {t[1] : t \in {u \in Truth : u[2] = "open"}}
  <2> HIDE DEF open
  <2>1. ASSUME NEW h \in open
        PROVE <<h.host, h.port>> \in {t[1] : t \in {u \in Truth : u[2] = "open"}}
    <3>1. PICK k \in DOMAIN walk.results : walk.results[k].state = "open" /\ h = walk.results[k]
      BY <1>2
    <3> DEFINE u == <<<<h.host, h.port>>, "open">>
    <3>2. u \in Seen
      BY <3>1 DEF Seen
    <3>3. u \in Truth /\ u[2] = "open" /\ u[1] = <<h.host, h.port>>
      BY <1>1, <3>2
    <3> HIDE DEF u
    <3> QED
      BY <3>3
  <2>2. ASSUME NEW u \in Truth, u[2] = "open" PROVE u[1] \in {<<h.host, h.port>> : h \in open}
    <3>1. PICK k \in DOMAIN walk.results :
            u = <<<<walk.results[k].host, walk.results[k].port>>, walk.results[k].state>>
      BY <1>1 DEF Seen
    <3>2. walk.results[k].state = "open" /\ u[1] = <<walk.results[k].host, walk.results[k].port>>
      BY <2>2, <3>1
    <3>3. walk.results[k] \in open
      BY <1>2, <3>2
    <3> QED
      BY <3>2, <3>3
  <2> QED
    BY <2>1, <2>2
<1> HIDE DEF open
<1> QED
  BY <1>3, CommandsAre

-----------------------------------------------------------------------------
(* Sums.                                                                   *)

(* A sum is what adds up element by element.                               *)
Adds(g, f, T) ==
  /\ g[{}] = 0
  /\ \A s \in SUBSET T : \A x \in s : g[s] = f[x] + g[s \ {x}]

(* What adds up so is the sum.                                             *)
LEMMA SumIs ==
  ASSUME NEW T, IsFiniteSet(T), NEW f, NEW g, g = [s \in SUBSET T |-> g[s]], Adds(g, f, T)
  PROVE  SumFunctionOnSet(f, T) = g[T]
<1> DEFINE Body(it, s) == IF s = {} THEN 0
                          ELSE f[CHOOSE x \in s : TRUE] + it[s \ {CHOOSE x \in s : TRUE}]
           Is(it) == it = [s \in SUBSET T |-> Body(it, s)]
<1>1. SumFunctionOnSet(f, T) = (CHOOSE it : Is(it))[T]
  BY DEF SumFunctionOnSet, FoldFunctionOnSet, MapThenFoldSet
<1>2. Is(g)
  <2>1. ASSUME NEW s \in SUBSET T PROVE g[s] = Body(g, s)
    <3>1. CASE s = {}
      BY <3>1 DEF Adds
    <3>2. CASE s # {}
      <4>1. (CHOOSE x \in s : TRUE) \in s
        BY <3>2
      <4> QED
        BY <3>2, <4>1 DEF Adds
    <3> QED
      BY <3>1, <3>2
  <2>2. [s \in SUBSET T |-> g[s]] = [s \in SUBSET T |-> Body(g, s)]
    <3> HIDE DEF Body
    <3> QED
      BY <2>1
  <2> HIDE DEF Body
  <2> QED
    BY <2>2
<1> DEFINE it == CHOOSE i : Is(i)
<1>3. Is(it)
  <2> HIDE DEF Is
  <2> QED
    BY <1>2
<1> HIDE DEF it
<1>4. \A s \in SUBSET T : it[s] = Body(it, s)
  <2> HIDE DEF Body
  <2> QED
    BY <1>3
<1> DEFINE Bad == {s \in SUBSET T : it[s] # g[s]}
           Sizes == {Cardinality(s) : s \in Bad}
<1>5. \A s \in SUBSET T : IsFiniteSet(s) /\ Cardinality(s) \in Nat
  BY FS_Subset, FS_CardinalityType
<1>6. Bad = {}
  <2> SUFFICES ASSUME Bad # {} PROVE FALSE
    OBVIOUS
  <2>1. Sizes \in SUBSET Nat /\ Sizes # {}
    BY <1>5
  <2>2. PICK m \in Sizes : \A y \in Sizes : m <= y
    BY <2>1, LeastIsIn
  <2>3. PICK s \in Bad : m = Cardinality(s)
    BY <2>2
  <2>4. s \in SUBSET T /\ it[s] # g[s]
    BY <2>3
  <2>5. s # {}
    BY <1>4, <2>4 DEF Adds
  <2> DEFINE x == CHOOSE y \in s : TRUE
             r == s \ {x}
  <2>6. x \in s
    BY <2>5
  <2>7. it[s] = f[x] + it[r]
    BY <1>4, <2>4, <2>5
  <2> HIDE DEF x
  <2>8. g[s] = f[x] + g[r]
    BY <2>4, <2>6 DEF Adds
  <2>9. Cardinality(r) = Cardinality(s) - 1 /\ r \in SUBSET T
    <3>1. IsFiniteSet(s)
      BY <1>5, <2>4
    <3> QED
      BY <2>4, <2>6, <3>1, FS_RemoveElement
  <2>10. Cardinality(r) \in Nat /\ Cardinality(s) \in Nat
    BY <1>5, <2>4, <2>9
  <2>11. Cardinality(r) \notin Sizes
    <3> HIDE DEF r, Sizes, Bad
    <3> QED
      BY <2>2, <2>3, <2>9, <2>10
  <2>12. r \notin Bad
    BY <2>11
  <2> HIDE DEF r
  <2>13. it[r] = g[r]
    BY <2>9, <2>12
  <2> QED
    BY <2>4, <2>7, <2>8, <2>13
<1>7. it[T] = g[T]
  BY <1>6
<1> QED
  BY <1>1, <1>7 DEF it

(* Counting what has one of some keys is adding up what has each.          *)
With(K, key, S) == {k \in K : key[k] \in S}

(* f says how many of K have each key of T.                                *)
CountsKeys(f, K, key, T) == \A x \in T : f[x] = Cardinality({k \in K : key[k] = x})

(* So what has one of some keys is counted key by key.                     *)
LEMMA SumOfFibres ==
  ASSUME NEW K, IsFiniteSet(K), NEW key, NEW T, IsFiniteSet(T), NEW f, CountsKeys(f, K, key, T)
  PROVE  SumFunctionOnSet(f, T) = Cardinality(With(K, key, T))
<1> DEFINE g == [s \in SUBSET T |-> Cardinality(With(K, key, s))]
<1>1. g = [s \in SUBSET T |-> g[s]]
  OBVIOUS
<1>2. \A s : IsFiniteSet(With(K, key, s)) /\ Cardinality(With(K, key, s)) \in Nat
  <2> TAKE s
  <2>1. With(K, key, s) \subseteq K
    BY DEF With
  <2> QED
    BY <2>1, FS_Subset, FS_CardinalityType
<1>3. Adds(g, f, T)
  <2>1. With(K, key, {}) = {}
    BY DEF With
  <2>2. Cardinality(With(K, key, {})) = 0
    BY <2>1, FS_EmptySet
  <2>3. ASSUME NEW s \in SUBSET T, NEW x \in s
        PROVE  Cardinality(With(K, key, s)) = f[x] + Cardinality(With(K, key, s \ {x}))
    <3> DEFINE A == With(K, key, {x})
               B == With(K, key, s \ {x})
    <3>1. With(K, key, s) = A \union B /\ A \intersect B = {}
      BY <2>3 DEF With
    <3>2. A = {k \in K : key[k] = x}
      BY DEF With
    <3>3. f[x] = Cardinality(A)
      BY <2>3, <3>2 DEF CountsKeys
    <3>4. IsFiniteSet(A) /\ IsFiniteSet(B)
      BY <1>2
    <3> HIDE DEF A, B
    <3>5. Cardinality(A \union B) = Cardinality(A) + Cardinality(B)
      BY <3>1, <3>4, DisjointSum
    <3> QED
      BY <3>1, <3>3, <3>5 DEF B
  <2> QED
    BY <2>2, <2>3 DEF Adds
<1> HIDE DEF g
<1>4. SumFunctionOnSet(f, T) = g[T]
  BY <1>1, <1>3, SumIs
<1> QED
  BY <1>4 DEF g

-----------------------------------------------------------------------------
(* The sections of a summary.                                              *)

(* The results in a state.                                                 *)
Of(results, b) == {k \in DOMAIN results : Bucket(results[k].state) = b}

(* Finitely many results, finitely many in a state.                        *)
LEMMA OfIsFinite ==
  ASSUME NEW results, IsFiniteSet(DOMAIN results), NEW b
  PROVE  IsFiniteSet(Of(results, b))
<1>1. Of(results, b) \subseteq DOMAIN results
  BY DEF Of
<1> QED
  BY <1>1, FS_Subset

(* The values of a function on a finite set are finitely many.             *)
LEMMA FiniteImage ==
  ASSUME NEW S, IsFiniteSet(S), NEW f
  PROVE  IsFiniteSet({f[x] : x \in S})
<1> DEFINE T == {f[x] : x \in S}
           g == [x \in S |-> f[x]]
<1>1. g \in [S -> T]
  OBVIOUS
<1>2. {g[x] : x \in S} = T
  OBVIOUS
<1> HIDE DEF T, g
<1>3. IsFiniteSet({g[x] : x \in S})
  BY <1>1, ValuesAreFinite
<1> QED
  BY <1>2, <1>3 DEF T

(* A row holds the results of its key.                                     *)
SectionHolds(results, key, b) ==
  /\ DOMAIN Section(results, key) = {key[k] : k \in DOMAIN results}
  /\ IsFiniteSet(DOMAIN Section(results, key))
  /\ \A x \in DOMAIN Section(results, key) :
       /\ Section(results, key)[x][b] = Cardinality({k \in Of(results, b) : key[k] = x})
       /\ Section(results, key)[x][b] \in Nat

(* Each row of a section counts the results of its key.                    *)
LEMMA SectionIs ==
  ASSUME NEW results, IsFiniteSet(DOMAIN results), NEW key, DOMAIN key = DOMAIN results,
         NEW b \in Buckets
  PROVE  SectionHolds(results, key, b)
<1>1. DOMAIN Section(results, key) = {key[k] : k \in DOMAIN results}
  BY DEF Section
<1>2. IsFiniteSet({key[k] : k \in DOMAIN results})
  BY FiniteImage
<1>3. ASSUME NEW x \in DOMAIN Section(results, key)
      PROVE  /\ Section(results, key)[x][b] = Cardinality({k \in Of(results, b) : key[k] = x})
             /\ Section(results, key)[x][b] \in Nat
  <2> DEFINE keep == {k \in DOMAIN results : key[k] = x}
             mine == {k \in keep : Bucket(results[k].state) = b}
  <2>1. Section(results, key)[x] = Tally(results, keep)
    BY <1>1, <1>3 DEF Section
  <2>2. mine = {k \in keep : b = Bucket(results[k].state)}
    OBVIOUS
  <2>3. Tally(results, keep)[b] = Cardinality(mine)
    BY DEF Tally
  <2>4. mine = {k \in Of(results, b) : key[k] = x}
    BY DEF Of
  <2>5. IsFiniteSet(mine) /\ Cardinality(mine) \in Nat
    <3>1. mine \subseteq Of(results, b)
      BY <2>4
    <3> QED
      BY <3>1, OfIsFinite, FS_Subset, FS_CardinalityType
  <2> QED
    BY <2>1, <2>3, <2>4, <2>5
<1> QED
  BY <1>1, <1>2, <1>3 DEF SectionHolds

(* A section holds every result in a state once, and so do the rows it is  *)
(* rolled up to.                                                           *)
LEMMA SectionSums ==
  ASSUME NEW results, IsFiniteSet(DOMAIN results), NEW key, DOMAIN key = DOMAIN results,
         NEW b \in Buckets
  PROVE  SumFunction([x \in DOMAIN Section(results, key) |-> Section(results, key)[x][b]])
           = Cardinality(Of(results, b))
<1> DEFINE section == Section(results, key)
           f == [x \in DOMAIN section |-> section[x][b]]
           T == DOMAIN section
           K == Of(results, b)
<1>1. SectionHolds(results, key, b)
  BY SectionIs
<1>2. IsFiniteSet(T) /\ CountsKeys(f, K, key, T)
  BY <1>1 DEF SectionHolds, CountsKeys
<1>3. IsFiniteSet(K)
  BY OfIsFinite
<1>4. DOMAIN f = T
  OBVIOUS
<1>5. With(K, key, T) = K
  BY <1>1 DEF With, Of, SectionHolds
<1> SUFFICES SumFunction(f) = Cardinality(K)
  OBVIOUS
<1> HIDE DEF section, f, T, K
<1>6. SumFunctionOnSet(f, T) = Cardinality(With(K, key, T))
  BY <1>2, <1>3, SumOfFibres
<1> QED
  BY <1>4, <1>5, <1>6 DEF SumFunction

(* States::merge: rows rolled up count the results of all their keys.      *)
LEMMA MergedIs ==
  ASSUME NEW results, IsFiniteSet(DOMAIN results), NEW key, DOMAIN key = DOMAIN results,
         NEW b \in Buckets, NEW rows, rows \subseteq DOMAIN Section(results, key)
  PROVE  /\ Merged(Section(results, key), rows)[b] = Cardinality(With(Of(results, b), key, rows))
         /\ Merged(Section(results, key), rows)[b] \in Nat
<1> DEFINE section == Section(results, key)
           f == [x \in DOMAIN section |-> section[x][b]]
           K == Of(results, b)
<1>1. SectionHolds(results, key, b)
  BY SectionIs
<1>2. IsFiniteSet(rows)
  BY <1>1, FS_Subset DEF SectionHolds
<1>3. CountsKeys(f, K, key, rows)
  BY <1>1 DEF SectionHolds, CountsKeys
<1>4. IsFiniteSet(K)
  BY OfIsFinite
<1>5. Merged(section, rows)[b] = SumFunctionOnSet(f, rows)
  BY DEF Merged
<1>6. IsFiniteSet(With(K, key, rows)) /\ Cardinality(With(K, key, rows)) \in Nat
  <2>1. With(K, key, rows) \subseteq K
    BY DEF With
  <2> HIDE DEF K
  <2> QED
    BY <2>1, <1>4, FS_Subset, FS_CardinalityType
<1> SUFFICES Merged(section, rows)[b] = Cardinality(With(K, key, rows))
  BY <1>6
<1> HIDE DEF section, f, K
<1>7. SumFunctionOnSet(f, rows) = Cardinality(With(K, key, rows))
  BY <1>2, <1>3, <1>4, SumOfFibres
<1> QED
  BY <1>5, <1>7

RollsUp(f, section, label, b) ==
  /\ DOMAIN f = {label[x] : x \in DOMAIN section}
  /\ \A n \in DOMAIN f : f[n] = Merged(section, {x \in DOMAIN section : label[x] = n})[b]

(* So do the rows of a section that another is rolled up to.               *)
LEMMA RolledUpSums ==
  ASSUME NEW results, IsFiniteSet(DOMAIN results), NEW key, DOMAIN key = DOMAIN results,
         NEW b \in Buckets, NEW label, NEW f, RollsUp(f, Section(results, key), label, b)
  PROVE  SumFunction(f) = Cardinality(Of(results, b)) /\ IsFiniteSet(DOMAIN f)
<1> DEFINE section == Section(results, key)
           K == Of(results, b)
           up == [k \in K |-> label[key[k]]]
           rows(n) == {x \in DOMAIN section : label[x] = n}
           N == DOMAIN f
<1>0. /\ N = {label[x] : x \in DOMAIN section}
      /\ \A n \in N : f[n] = Merged(section, rows(n))[b]
  BY DEF RollsUp
<1>1. SectionHolds(results, key, b)
  BY SectionIs
<1>2. IsFiniteSet(N)
  BY <1>0, <1>1, FiniteImage DEF SectionHolds
<1>3. IsFiniteSet(K)
  BY OfIsFinite
<1>4. \A k \in K : key[k] \in DOMAIN section
  BY <1>1 DEF SectionHolds, Of
<1>5. ASSUME NEW n \in N PROVE f[n] = Cardinality({k \in K : up[k] = n})
  <2>1. rows(n) \subseteq DOMAIN section
    OBVIOUS
  <2>2. f[n] = Merged(section, rows(n))[b]
    BY <1>0, <1>5
  <2>3. Merged(section, rows(n))[b] = Cardinality(With(K, key, rows(n)))
    <3> HIDE DEF rows
    <3> QED
      BY <2>1, MergedIs
  <2>4. With(K, key, rows(n)) = {k \in K : up[k] = n}
    BY <1>4 DEF With
  <2> QED
    BY <2>2, <2>3, <2>4
<1>6. With(K, up, N) = K
  <2> HIDE DEF K
  <2> QED
    BY <1>0, <1>4 DEF With
<1> HIDE DEF section, K, up, N
<1>7. CountsKeys(f, K, up, N)
  BY <1>5 DEF CountsKeys
<1>8. SumFunctionOnSet(f, N) = Cardinality(With(K, up, N))
  BY <1>2, <1>3, <1>7, SumOfFibres
<1> QED
  BY <1>2, <1>6, <1>8 DEF SumFunction, K, N

(* A table that ranks what answered first shows it first.                  *)
RanksAnswered(rank, open) ==
  /\ \A a \in DOMAIN rank : 1 \in DOMAIN rank[a] /\ DOMAIN rank[a] \subseteq Nat \ {0}
  /\ \A a \in DOMAIN rank : rank[a][1] \in Int
  /\ \A a, b \in DOMAIN rank :
       open[a] > 0 /\ ~(open[b] > 0) => rank[a][1] < rank[b][1]

(* Such a table shows what answered first.                                 *)
LEMMA RankedFirst ==
  ASSUME NEW rank, IsFiniteSet(DOMAIN rank), NEW open, RanksAnswered(rank, open)
  PROVE  AnsweredFirst(rank, open)
<1> USE DEF RanksAnswered
<1> DEFINE Lessers(a) == {b \in DOMAIN rank : Less(rank[b], rank[a])}
<1>1. SUFFICES ASSUME NEW hidden \in DOMAIN rank \ Shown(rank), open[hidden] > 0,
                      NEW row \in Shown(rank), ~(open[row] > 0)
               PROVE  FALSE
  BY DEF AnsweredFirst
<1>2. row \in DOMAIN rank /\ Cardinality(Lessers(row)) < SectionRows
  BY DEF Shown
<1>3. rank[hidden][1] < rank[row][1]
  BY <1>1, <1>2
<1>4. ASSUME NEW b \in DOMAIN rank, Less(rank[b], rank[hidden]) PROVE Less(rank[b], rank[row])
  <2>1. 1 \in DOMAIN rank[b] /\ DOMAIN rank[b] \subseteq Nat \ {0}
    OBVIOUS
  <2>2. PICK k \in DOMAIN rank[b] : /\ rank[b][k] < rank[hidden][k]
                            /\ \A j \in 1 .. (k - 1) : rank[b][j] = rank[hidden][j]
    BY <1>4, <2>1 DEF Less
  <2>3. rank[b][1] <= rank[hidden][1]
    <3>1. CASE k = 1
      BY <2>2, <3>1
    <3>2. CASE k # 1
      <4>1. 1 \in 1 .. (k - 1)
        BY <2>1, <2>2, <3>2
      <4>2. rank[b][1] = rank[hidden][1]
        BY <2>2, <4>1
      <4> QED
        BY <4>2
    <3> QED
      BY <3>1, <3>2
  <2>4. rank[b][1] \in Int /\ rank[hidden][1] \in Int /\ rank[row][1] \in Int
    BY <1>2
  <2>5. rank[b][1] < rank[row][1]
    BY <1>3, <2>3, <2>4
  <2>6. 1 \in DOMAIN rank[b] /\ \A j \in 1 .. (1 - 1) : rank[b][j] = rank[row][j]
    BY <2>1
  <2> QED
    BY <2>5, <2>6 DEF Less
<1>5. Lessers(hidden) \subseteq Lessers(row)
  BY <1>4
<1>6. IsFiniteSet(Lessers(row)) /\ Lessers(row) \subseteq DOMAIN rank
  <2>1. Lessers(row) \subseteq DOMAIN rank
    OBVIOUS
  <2> HIDE DEF Lessers
  <2> QED
    BY <2>1, FS_Subset
<1>7. Cardinality(Lessers(hidden)) <= Cardinality(Lessers(row))
      /\ IsFiniteSet(Lessers(hidden))
  <2> HIDE DEF Lessers
  <2> QED
    BY <1>5, <1>6, FS_Subset
<1>8. Cardinality(Lessers(hidden)) \in Nat /\ Cardinality(Lessers(row)) \in Nat
  <2> HIDE DEF Lessers
  <2> QED
    BY <1>6, <1>7, FS_CardinalityType
<1>9. SectionRows \in Nat
  BY RecordsAssumption
<1>10. Cardinality(Lessers(hidden)) < SectionRows
  <2> HIDE DEF Lessers
  <2> QED
    BY <1>2, <1>7, <1>8, <1>9
<1>11. hidden \in Shown(rank)
  BY <1>10 DEF Shown
<1> QED
  BY <1>11

(* A file holds finitely many results, whatever was done to it.            *)
LEMMA ResultsAreFinite ==
  ASSUME Inv, phase = "read", walk.ok
  PROVE  IsFiniteSet(DOMAIN walk.results)
<1>1. IsListOf(lines, Len(lines)) /\ \A k \in 1 .. Len(lines) : MadeOf(scan, lines[k])
  BY FileIsList DEF Inv
<1>2. /\ IsListOf(Readable, Len(Readable)) /\ Len(Readable) \in Nat /\ Len(Readable) <= Len(lines)
      /\ \A k \in 1 .. Len(Readable) : Readable[k] = lines[k]
  BY <1>1, ReadableIs
<1>3. scan \in Scans /\ Len(lines) \in Nat
  BY <1>1 DEF Inv, FileStands, IsListOf
<1>4. \A k \in 1 .. Len(Readable) : IsFiniteSet(Entries(Readable[k]))
  <2> TAKE k \in 1 .. Len(Readable)
  <2>1. k \in 1 .. Len(lines) /\ Readable[k] = lines[k]
    BY <1>2, <1>3
  <2>2. MadeOf(scan, Readable[k])
    BY <1>1, <2>1
  <2> QED
    BY <1>3, <2>2, MadeOfIs
<1>5. IsFiniteSet(Held(Readable))
  BY <1>2, <1>4, HeldIsFinite
<1>6. Held(Events) \subseteq Held(Readable)
  <2>1. DOMAIN Events \subseteq DOMAIN Readable /\ \A k \in DOMAIN Events : Events[k] = Readable[k]
    BY DEF Events
  <2> QED
    BY <2>1 DEF Held
<1>7. PICK order : walk.results = Walk(Events, order).results
  BY WalkedIs
<1>8. DOMAIN walk.results \subseteq Held(Events)
  BY <1>7 DEF Walk
<1> QED
  BY <1>5, <1>6, <1>8, FS_Subset

(* What is summarized is the walk's results, each in one state.            *)
HostKeys == [k \in DOMAIN walk.results |-> walk.results[k].host]
PortKeys == [k \in DOMAIN walk.results |-> walk.results[k].port]
HostSection == Section(walk.results, HostKeys)
PortSection == Section(walk.results, PortKeys)
InNetwork(n) == {h \in DOMAIN HostSection : NetOf[h] = n}
Service == [p \in DOMAIN PortSection |-> PortLabel(walk.results, p)]
UnderService(s) == {p \in DOMAIN PortSection : Service[p] = s}

(* The host and port sections are sections.                                *)
LEMMA SectionsAre ==
  /\ ByHost(walk.results) = HostSection
  /\ ByPort(walk.results) = PortSection
BY DEF ByHost, ByPort, HostSection, PortSection, HostKeys, PortKeys

(* The network section rolls the host section up.                          *)
LEMMA NetworksAre ==
  LET nets == ByNetwork(walk.results)
  IN  /\ DOMAIN nets = {NetOf[h] : h \in DOMAIN HostSection}
      /\ \A n \in DOMAIN nets :
           /\ nets[n].hosts = Cardinality(InNetwork(n))
           /\ nets[n].withOpen = Cardinality({h \in InNetwork(n) : HostSection[h].open > 0})
           /\ nets[n].states = Merged(HostSection, InNetwork(n))
BY SectionsAre DEF ByNetwork, InNetwork

(* The service section rolls the port section up.                          *)
LEMMA ServicesAre ==
  LET svcs == ByService(walk.results)
  IN  /\ DOMAIN svcs = {Service[p] : p \in DOMAIN PortSection}
      /\ \A s \in DOMAIN svcs :
           svcs[s].ports = UnderService(s) /\ svcs[s].states = Merged(PortSection, UnderService(s))
<1> DEFINE R == walk.results
           under(s) == {p \in DOMAIN PortSection : PortLabel(R, p) = s}
           N == {PortLabel(R, p) : p \in DOMAIN PortSection}
<1>1. ByService(R) = [s \in N |-> [ports |-> under(s), states |-> Merged(PortSection, under(s))]]
  BY SectionsAre DEF ByService
<1>2. \A s : under(s) = UnderService(s)
  BY DEF UnderService, Service
<1>3. N = {Service[p] : p \in DOMAIN PortSection}
  BY DEF Service
<1> HIDE DEF under, N
<1> QED
  BY <1>1, <1>2, <1>3

(* A total counts the results in a state.                                  *)
LEMMA TotalIs ==
  ASSUME NEW b \in Buckets
  PROVE  Total(b) = Cardinality(Of(walk.results, b))
<1>1. "other" \notin States
  BY DEF States
<1>2. \A k \in DOMAIN walk.results :
        Bucket(walk.results[k].state) = b
          <=> IF b = "other" THEN walk.results[k].state \notin States
                             ELSE walk.results[k].state = b
  BY <1>1 DEF Bucket, Buckets
<1>3. Of(walk.results, b)
        = {k \in DOMAIN walk.results : IF b = "other" THEN walk.results[k].state \notin States
                                                      ELSE walk.results[k].state = b}
  BY <1>2 DEF Of
<1> QED
  BY <1>3 DEF Total

(* Every result has a host and a port.                                     *)
LEMMA KeysAre == DOMAIN HostKeys = DOMAIN walk.results /\ DOMAIN PortKeys = DOMAIN walk.results
BY DEF HostKeys, PortKeys

(* Each section holds the results in a state, each once.                   *)
LEMMA HostsSum ==
  ASSUME IsFiniteSet(DOMAIN walk.results), NEW b \in Buckets
  PROVE  SumFunction([h \in DOMAIN HostSection |-> HostSection[h][b]]) = Total(b)
BY KeysAre, SectionSums, TotalIs DEF HostSection

(* The ports too.                                                          *)
LEMMA PortsSum ==
  ASSUME IsFiniteSet(DOMAIN walk.results), NEW b \in Buckets
  PROVE  SumFunction([p \in DOMAIN PortSection |-> PortSection[p][b]]) = Total(b)
BY KeysAre, SectionSums, TotalIs DEF PortSection

(* The networks too.                                                       *)
LEMMA NetworksSum ==
  ASSUME IsFiniteSet(DOMAIN walk.results), NEW b \in Buckets
  PROVE  LET nets == ByNetwork(walk.results)
         IN  /\ SumFunction([n \in DOMAIN nets |-> nets[n].states[b]]) = Total(b)
             /\ IsFiniteSet(DOMAIN nets)
<1> DEFINE nets == ByNetwork(walk.results)
           N == DOMAIN nets
           f == [n \in N |-> nets[n].states[b]]
<1>1. DOMAIN HostKeys = DOMAIN walk.results
  BY KeysAre
<1>2. RollsUp(f, HostSection, NetOf, b)
  BY NetworksAre DEF RollsUp, InNetwork
<1>3. DOMAIN f = N
  OBVIOUS
<1> SUFFICES SumFunction(f) = Total(b) /\ IsFiniteSet(N)
  OBVIOUS
<1> HIDE DEF f, N
<1>4. RollsUp(f, Section(walk.results, HostKeys), NetOf, b)
  BY <1>2 DEF HostSection
<1>5. SumFunction(f) = Cardinality(Of(walk.results, b)) /\ IsFiniteSet(DOMAIN f)
  BY <1>1, <1>4, RolledUpSums
<1> QED
  BY <1>3, <1>5, TotalIs

(* And the services.                                                       *)
LEMMA ServicesSum ==
  ASSUME IsFiniteSet(DOMAIN walk.results), NEW b \in Buckets
  PROVE  LET svcs == ByService(walk.results)
         IN  /\ SumFunction([s \in DOMAIN svcs |-> svcs[s].states[b]]) = Total(b)
             /\ IsFiniteSet(DOMAIN svcs)
<1> DEFINE svcs == ByService(walk.results)
           N == DOMAIN svcs
           f == [s \in N |-> svcs[s].states[b]]
<1>1. DOMAIN PortKeys = DOMAIN walk.results
  BY KeysAre
<1>2. RollsUp(f, PortSection, Service, b)
  BY ServicesAre DEF RollsUp, UnderService
<1>3. DOMAIN f = N
  OBVIOUS
<1> SUFFICES SumFunction(f) = Total(b) /\ IsFiniteSet(N)
  OBVIOUS
<1> HIDE DEF f, N
<1>4. RollsUp(f, Section(walk.results, PortKeys), Service, b)
  BY <1>2 DEF PortSection
<1>5. SumFunction(f) = Cardinality(Of(walk.results, b)) /\ IsFiniteSet(DOMAIN f)
  BY <1>1, <1>4, RolledUpSums
<1> QED
  BY <1>3, <1>5, TotalIs

(* Each host is in one network.                                            *)
LEMMA HostsInNetworks ==
  ASSUME IsFiniteSet(DOMAIN walk.results)
  PROVE  LET nets == ByNetwork(walk.results)
         IN  SumFunction([n \in DOMAIN nets |-> nets[n].hosts]) = Cardinality(DOMAIN HostSection)
<1> DEFINE nets == ByNetwork(walk.results)
           N == DOMAIN nets
           K == DOMAIN HostSection
           f == [n \in N |-> nets[n].hosts]
<1>0. "open" \in Buckets
  BY DEF Buckets, States
<1>1. IsFiniteSet(N)
  BY <1>0, NetworksSum
<1>2. IsFiniteSet(K)
  BY <1>0, KeysAre, SectionIs DEF SectionHolds, HostSection
<1>3. DOMAIN f = N
  OBVIOUS
<1>4. CountsKeys(f, K, NetOf, N)
  BY NetworksAre DEF InNetwork, CountsKeys
<1>5. With(K, NetOf, N) = K
  BY NetworksAre DEF With
<1> SUFFICES SumFunction(f) = Cardinality(K)
  OBVIOUS
<1> HIDE DEF f, N, K, nets
<1>6. SumFunctionOnSet(f, N) = Cardinality(With(K, NetOf, N))
  BY <1>1, <1>2, <1>4, SumOfFibres
<1> QED
  BY <1>3, <1>5, <1>6 DEF SumFunction

(* The counts a table is ranked by.                                        *)
LEMMA HostsCount ==
  ASSUME IsFiniteSet(DOMAIN walk.results)
  PROVE  IsFiniteSet(DOMAIN HostSection)
        /\ \A h \in DOMAIN HostSection : HostSection[h].open \in Nat
<1>1. "open" \in Buckets
  BY DEF Buckets, States
<1> QED
  BY <1>1, KeysAre, SectionIs DEF SectionHolds, HostSection

(* And those of the ports.                                                 *)
LEMMA PortsCount ==
  ASSUME IsFiniteSet(DOMAIN walk.results)
  PROVE  IsFiniteSet(DOMAIN PortSection)
        /\ \A p \in DOMAIN PortSection : PortSection[p].open \in Nat
<1>1. "open" \in Buckets
  BY DEF Buckets, States
<1> QED
  BY <1>1, KeysAre, SectionIs DEF SectionHolds, PortSection

(* What answered is smaller in its rank's first place.                     *)
LEMMA HostsRanked ==
  ASSUME IsFiniteSet(DOMAIN walk.results)
  PROVE  AnsweredFirst(HostRank(HostSection), [h \in DOMAIN HostSection |-> HostSection[h].open])
<1> DEFINE rank == HostRank(HostSection)
           open == [h \in DOMAIN HostSection |-> HostSection[h].open]
<1>1. DOMAIN rank = DOMAIN HostSection
  BY DEF HostRank
<1>2. \A a \in DOMAIN rank :
        DOMAIN rank[a] = 1 .. 2 /\ rank[a][1] = IF open[a] = 0 THEN 1 ELSE 0
  BY DEF HostRank, Silent
<1>3. IsFiniteSet(DOMAIN rank) /\ \A a \in DOMAIN rank : open[a] \in Nat
  BY <1>1, HostsCount
<1> HIDE DEF rank, open
<1>4. \A a \in DOMAIN rank : 1 \in DOMAIN rank[a] /\ DOMAIN rank[a] \subseteq Nat \ {0}
  BY <1>2
<1>5. \A a \in DOMAIN rank : rank[a][1] \in Int
  BY <1>2
<1>6. \A a, b \in DOMAIN rank : open[a] > 0 /\ ~(open[b] > 0) => rank[a][1] < rank[b][1]
  BY <1>2, <1>3
<1>7. RanksAnswered(rank, open)
  BY <1>4, <1>5, <1>6 DEF RanksAnswered
<1>8. AnsweredFirst(rank, open)
  BY <1>3, <1>7, RankedFirst
<1> QED
  BY <1>8 DEF rank, open

(* Of the ports.                                                           *)
LEMMA PortsRanked ==
  ASSUME IsFiniteSet(DOMAIN walk.results)
  PROVE  AnsweredFirst(PortRank(PortSection), [p \in DOMAIN PortSection |-> PortSection[p].open])
<1> DEFINE rank == PortRank(PortSection)
           open == [p \in DOMAIN PortSection |-> PortSection[p].open]
<1>1. DOMAIN rank = DOMAIN PortSection
  BY DEF PortRank
<1>2. \A a \in DOMAIN rank : DOMAIN rank[a] = 1 .. 4 /\ rank[a][1] = -open[a]
  BY DEF PortRank
<1>3. IsFiniteSet(DOMAIN rank) /\ \A a \in DOMAIN rank : open[a] \in Nat
  BY <1>1, PortsCount
<1> HIDE DEF rank, open
<1>4. \A a \in DOMAIN rank : 1 \in DOMAIN rank[a] /\ DOMAIN rank[a] \subseteq Nat \ {0}
  BY <1>2
<1>5. \A a \in DOMAIN rank : rank[a][1] \in Int
  BY <1>2, <1>3
<1>6. \A a, b \in DOMAIN rank : open[a] > 0 /\ ~(open[b] > 0) => rank[a][1] < rank[b][1]
  BY <1>2, <1>3
<1>7. RanksAnswered(rank, open)
  BY <1>4, <1>5, <1>6 DEF RanksAnswered
<1>8. AnsweredFirst(rank, open)
  BY <1>3, <1>7, RankedFirst
<1> QED
  BY <1>8 DEF rank, open

(* Of the networks.                                                        *)
LEMMA NetworksRanked ==
  ASSUME IsFiniteSet(DOMAIN walk.results)
  PROVE  LET nets == ByNetwork(walk.results)
         IN  AnsweredFirst(NetworkRank(nets), [n \in DOMAIN nets |-> nets[n].withOpen])
<1> DEFINE nets == ByNetwork(walk.results)
           rank == NetworkRank(nets)
           open == [n \in DOMAIN nets |-> nets[n].withOpen]
<1>0. "open" \in Buckets
  BY DEF Buckets, States
<1>1. DOMAIN rank = DOMAIN nets
  BY DEF NetworkRank
<1>2. \A a \in DOMAIN rank :
        DOMAIN rank[a] = 1 .. 2 /\ rank[a][1] = IF open[a] = 0 THEN 1 ELSE 0
  <2> HIDE DEF nets
  <2> QED
    BY DEF NetworkRank, Silent
<1>3. IsFiniteSet(DOMAIN rank)
  BY <1>0, <1>1, NetworksSum
<1>4. \A a \in DOMAIN rank : open[a] \in Nat
  <2> TAKE a \in DOMAIN rank
  <2>1. open[a] = Cardinality({h \in InNetwork(a) : HostSection[h].open > 0})
    BY <1>1, NetworksAre
  <2>2. {h \in InNetwork(a) : HostSection[h].open > 0} \subseteq DOMAIN HostSection
    BY DEF InNetwork
  <2> QED
    BY <2>1, <2>2, HostsCount, FS_Subset, FS_CardinalityType
<1> SUFFICES AnsweredFirst(rank, open)
  OBVIOUS
<1> HIDE DEF rank, open, nets
<1>5. \A a \in DOMAIN rank : 1 \in DOMAIN rank[a] /\ DOMAIN rank[a] \subseteq Nat \ {0}
  BY <1>2
<1>6. \A a \in DOMAIN rank : rank[a][1] \in Int
  BY <1>2
<1>7. \A a, b \in DOMAIN rank : open[a] > 0 /\ ~(open[b] > 0) => rank[a][1] < rank[b][1]
  BY <1>2, <1>4
<1>8. RanksAnswered(rank, open)
  BY <1>5, <1>6, <1>7 DEF RanksAnswered
<1> QED
  BY <1>3, <1>8, RankedFirst

(* Of the services.                                                        *)
LEMMA ServicesRanked ==
  ASSUME IsFiniteSet(DOMAIN walk.results)
  PROVE  LET svcs == ByService(walk.results)
         IN  AnsweredFirst(ServiceRank(svcs), [s \in DOMAIN svcs |-> svcs[s].states.open])
<1> DEFINE svcs == ByService(walk.results)
           rank == ServiceRank(svcs)
           open == [s \in DOMAIN svcs |-> svcs[s].states.open]
<1>0. "open" \in Buckets
  BY DEF Buckets, States
<1>1. DOMAIN rank = DOMAIN svcs
  BY DEF ServiceRank
<1>2. \A a \in DOMAIN rank : DOMAIN rank[a] = 1 .. 3 /\ rank[a][1] = -open[a]
  <2> HIDE DEF svcs
  <2> QED
    BY DEF ServiceRank
<1>3. IsFiniteSet(DOMAIN rank)
  BY <1>0, <1>1, ServicesSum
<1>4. \A a \in DOMAIN rank : open[a] \in Nat
  <2> TAKE a \in DOMAIN rank
  <2>1. open[a] = Merged(PortSection, UnderService(a))["open"]
    BY <1>1, ServicesAre
  <2>2. UnderService(a) \subseteq DOMAIN PortSection
    BY DEF UnderService
  <2>3. Merged(PortSection, UnderService(a))["open"] \in Nat
    BY <1>0, <2>2, KeysAre, MergedIs DEF PortSection
  <2> QED
    BY <2>1, <2>3
<1> SUFFICES AnsweredFirst(rank, open)
  OBVIOUS
<1> HIDE DEF rank, open, svcs
<1>5. \A a \in DOMAIN rank : 1 \in DOMAIN rank[a] /\ DOMAIN rank[a] \subseteq Nat \ {0}
  BY <1>2
<1>6. \A a \in DOMAIN rank : rank[a][1] \in Int
  BY <1>2, <1>4
<1>7. \A a, b \in DOMAIN rank : open[a] > 0 /\ ~(open[b] > 0) => rank[a][1] < rank[b][1]
  BY <1>2, <1>4
<1>8. RanksAnswered(rank, open)
  BY <1>5, <1>6, <1>7 DEF RanksAnswered
<1> QED
  BY <1>3, <1>8, RankedFirst

(* Of a record that passed there is nothing to add to the tables.          *)
LEMMA NoCaveats ==
  ASSUME Inv, phase = "read", walk.ok, report = {}
  PROVE  /\ Caveats(walk) = [unusablePort |-> 0, unknownState |-> 0]
         /\ \A s \in States : Total(s) = v.counts[s]
<1>1. ReadsTruth
  BY AcceptedReads
<1>2. {k \in DOMAIN walk.results : walk.results[k].state \notin States} = {}
  BY <1>1 DEF ReadsTruth
<1>3. Cardinality({k \in DOMAIN walk.results : walk.results[k].state \notin States}) = 0
  BY <1>2, FS_EmptySet
<1>4. ASSUME NEW s \in States PROVE Total(s) = v.counts[s]
  <2>1. s # "other"
    BY DEF States
  <2> QED
    BY <1>1, <2>1 DEF Total, ReadsTruth
<1> QED
  BY <1>1, <1>3, <1>4 DEF Caveats, ReadsTruth

(* The sections of a summary agree, whatever was done to the file.         *)
LEMMA SectionsDo == ASSUME Inv PROVE SectionsAgree
<1> DEFINE hosts == ByHost(walk.results)
           ports == ByPort(walk.results)
           nets  == ByNetwork(walk.results)
           svcs  == ByService(walk.results)
<1> SUFFICES ASSUME phase = "read", walk.ok
             PROVE  /\ \A b \in Buckets :
                         /\ SumFunction([h \in DOMAIN hosts |-> hosts[h][b]]) = Total(b)
                         /\ SumFunction([p \in DOMAIN ports |-> ports[p][b]]) = Total(b)
                         /\ SumFunction([n \in DOMAIN nets |-> nets[n].states[b]]) = Total(b)
                         /\ SumFunction([s \in DOMAIN svcs |-> svcs[s].states[b]]) = Total(b)
                    /\ SumFunction([n \in DOMAIN nets |-> nets[n].hosts])
                          = Cardinality(DOMAIN hosts)
                    /\ report = {} =>
                         /\ Caveats(walk) = [unusablePort |-> 0, unknownState |-> 0]
                         /\ \A s \in States : Total(s) = v.counts[s]
                    /\ AnsweredFirst(HostRank(hosts), [h \in DOMAIN hosts |-> hosts[h].open])
                    /\ AnsweredFirst(NetworkRank(nets), [n \in DOMAIN nets |-> nets[n].withOpen])
                    /\ AnsweredFirst(PortRank(ports), [p \in DOMAIN ports |-> ports[p].open])
                    /\ AnsweredFirst(ServiceRank(svcs), [s \in DOMAIN svcs |-> svcs[s].states.open])
  BY Zenon DEF SectionsAgree
<1>1. IsFiniteSet(DOMAIN walk.results)
  BY ResultsAreFinite
<1>2. hosts = HostSection /\ ports = PortSection
  BY SectionsAre
<1>3. ASSUME NEW b \in Buckets
      PROVE  /\ SumFunction([h \in DOMAIN hosts |-> hosts[h][b]]) = Total(b)
             /\ SumFunction([p \in DOMAIN ports |-> ports[p][b]]) = Total(b)
             /\ SumFunction([n \in DOMAIN nets |-> nets[n].states[b]]) = Total(b)
             /\ SumFunction([s \in DOMAIN svcs |-> svcs[s].states[b]]) = Total(b)
  <2>1. SumFunction([h \in DOMAIN HostSection |-> HostSection[h][b]]) = Total(b)
    BY <1>1, HostsSum
  <2>2. SumFunction([p \in DOMAIN PortSection |-> PortSection[p][b]]) = Total(b)
    BY <1>1, PortsSum
  <2>3. SumFunction([n \in DOMAIN nets |-> nets[n].states[b]]) = Total(b)
    BY <1>1, NetworksSum
  <2>4. SumFunction([s \in DOMAIN svcs |-> svcs[s].states[b]]) = Total(b)
    BY <1>1, ServicesSum
  <2> HIDE DEF hosts, ports, nets, svcs
  <2> QED
    BY <1>2, <2>1, <2>2, <2>3, <2>4
<1>4. SumFunction([n \in DOMAIN nets |-> nets[n].hosts]) = Cardinality(DOMAIN hosts)
  BY <1>1, <1>2, HostsInNetworks
<1>5. report = {} =>
        /\ Caveats(walk) = [unusablePort |-> 0, unknownState |-> 0]
        /\ \A s \in States : Total(s) = v.counts[s]
  BY NoCaveats
<1>6. AnsweredFirst(HostRank(HostSection), [h \in DOMAIN HostSection |-> HostSection[h].open])
  BY <1>1, HostsRanked
<1>7. AnsweredFirst(NetworkRank(nets), [n \in DOMAIN nets |-> nets[n].withOpen])
  BY <1>1, NetworksRanked
<1>8. AnsweredFirst(PortRank(PortSection), [p \in DOMAIN PortSection |-> PortSection[p].open])
  BY <1>1, PortsRanked
<1>9. AnsweredFirst(ServiceRank(svcs), [s \in DOMAIN svcs |-> svcs[s].states.open])
  BY <1>1, ServicesRanked
<1> HIDE DEF hosts, ports, nets, svcs
<1> QED
  BY <1>2, <1>3, <1>4, <1>5, <1>6, <1>7, <1>8, <1>9

-----------------------------------------------------------------------------
(* The theorems.                                                           *)

(* Each variable of the file, of the Verifier (struct Verifier) and of the *)
(* walk stays in its set, and a line consumed is an event or a bad line,   *)
(* for every plan, record and edit.                                        *)
THEOREM VerifierTyped == Spec => []TypeOK
<1>1. Inv => TypeOK
  BY Typed
<1> QED
  BY <1>1, Invariance, PTL

(* verify finds nothing wrong with a record that execute_with wrote and    *)
(* nobody touched: of any plan, in either version, interrupted or not.     *)
THEOREM WholeRecordsPass == Spec => []WholeRecordVerifies
<1>1. Inv => WholeRecordVerifies
  BY WholeVerifies
<1> QED
  BY <1>1, Invariance, PTL

(* When verify finds nothing, walk_results finds what the scan found: no   *)
(* single edit of any record takes a result from it unseen.                *)
THEOREM VerifiedRecordIsTheScan == Spec => []VerifiedIsTheScan
<1>1. Inv => VerifiedIsTheScan
  BY VerifiedIs
<1> QED
  BY <1>1, Invariance, PTL

(* The record of a killed scan is read up to where it ends (stream), with  *)
(* what the scan found, and verify never accepts it.                       *)
THEOREM KilledRecordsAreRead == Spec => []KilledRecordIsRead
<1>1. Inv => KilledRecordIsRead
  BY KilledIsRead
<1> QED
  BY <1>1, Invariance, PTL

(* Summary's sections hold the same results, whatever was done to the      *)
(* file, and each table shows what answered first.                         *)
THEOREM SectionsAgreeAlways == Spec => []SectionsAgree
<1>1. Inv => SectionsAgree
  BY SectionsDo
<1> QED
  BY <1>1, Invariance, PTL

(* handoff names the open endpoints of a verified record, each host once.  *)
THEOREM HandoffNamesTheOpen == Spec => []HandoffIsWhatIsOpen
<1>1. Inv => HandoffIsWhatIsOpen
  BY HandoffIs
<1> QED
  BY <1>1, Invariance, PTL

=============================================================================
