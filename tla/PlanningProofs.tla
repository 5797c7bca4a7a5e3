--------------------------- MODULE PlanningProofs ---------------------------
(***************************************************************************)
(* What a plan says of its transport is what its exits can tell, what      *)
(* "transport test" advises can be followed, names stay where the plan     *)
(* says, the probes are the endpoints asked for, and every setting and     *)
(* label is that of the highest place that has it: proofs about Planning,  *)
(* for every configuration.                                                *)
(*                                                                         *)
(* The argument: what a name resolves to at some depth is a proxy, a       *)
(* direct connection, a chain of proxies, or a pool of what names resolve  *)
(* to at a smaller depth; so opening the pools as often as names are deep  *)
(* leaves no pool, and each opening keeps what the transport promised.     *)
(*                                                                         *)
(* Advice is given of files that every stage has passed.  Following it     *)
(* writes one fidelity, which no stage but the transport's reads, into the *)
(* table the measured exit was read from; so every stage passes again and  *)
(* the transport is resolved to the same proxies with what was measured.   *)
(*                                                                         *)
(* A plan is what its stages have put into it.  A list that enumerates a   *)
(* set names each element once, a spec's interval is what the spec matches *)
(* and taking names out of a list and addresses into it loses neither; so  *)
(* the matrix has each endpoint that was meant at one position.            *)
(*                                                                         *)
(* A setting's cascade asks the command line, then one list of places or   *)
(* two, each with the highest file first; what it finds is what the first  *)
(* of these that is not empty has.                                         *)
(***************************************************************************)
EXTENDS Planning, TLAPS, FiniteSetTheorems, FunctionTheorems, SequenceTheorems,
        WellFoundedInduction, NaturalsInduction

-----------------------------------------------------------------------------
(* Files.                                                                  *)

GoodFiles(fs) ==
  /\ \E n \in Nat : DOMAIN fs = 1 .. n
  /\ \A k \in DOMAIN fs : IsDocument(fs[k])

(* A non-empty set of the numbers of files has a highest.                  *)
LEMMA HighestIsIn ==
  ASSUME NEW n \in Nat, NEW S \in SUBSET (1 .. n), S # {}
  PROVE  Max(S) \in S /\ \A j \in S : Max(S) >= j
  <1> DEFINE T == {n - k : k \in S}
  <1>1. T \in SUBSET Nat /\ T # {}
    <2>1. \A k \in S : n - k \in Nat
      OBVIOUS
    <2>2. PICK k \in S : TRUE
      OBVIOUS
    <2>3. n - k \in T
      OBVIOUS
    <2> QED BY <2>1, <2>3
  <1> HIDE DEF T
  <1>2. PICK m \in T : \A y \in T : ~ (y < m)
    <2>1. PICK m \in T : \A y \in T : ~ (<<y, m>> \in OpToRel(<, Nat))
      BY <1>1, NatLessThanWellFounded, WFMin
    <2> QED BY <1>1, <2>1 DEF OpToRel
  <1>3. PICK k \in S : m = n - k
    BY <1>2 DEF T
  <1>4. \A j \in S : k >= j
    <2>1. TAKE j \in S
    <2>2. n - j \in T
      BY DEF T
    <2>3. ~ (n - j < n - k)
      BY <1>2, <1>3, <2>2
    <2> QED BY <2>3
  <1> QED BY <1>3, <1>4 DEF Max

(* A set's chosen member is one.                                           *)
LEMMA TheMember == ASSUME NEW S, S # {} PROVE The(S) \in S
  BY DEF The

(* What is defined under a name is a table of some file.                   *)
LEMMA DefinedInAFile ==
  ASSUME NEW fs, GoodFiles(fs), NEW name,
         TransportDef(fs, name) # {}
  PROVE  \E k \in DOMAIN fs :
           /\ name \in DOMAIN fs[k].transports
           /\ The(TransportDef(fs, name)).value = fs[k].transports[name]
  <1> DEFINE having == {k \in DOMAIN fs : Key(fs[k].transports, name) # {}}
             picked == [value |-> The(Key(fs[Max(having)].transports, name)), layer |-> Max(having)]
  <1>1. PICK n \in Nat : DOMAIN fs = 1 .. n
    BY DEF GoodFiles
  <1>2. having # {} /\ TransportDef(fs, name) = {picked}
    BY DEF Pick, TransportDef
  <1>3. Max(having) \in having
    BY <1>1, <1>2, HighestIsIn
  <1> DEFINE k == Max(having)
  <1>4. k \in DOMAIN fs /\ Key(fs[k].transports, name) # {}
    BY <1>3
  <1>5. The(TransportDef(fs, name)) = picked
    <2> HIDE DEF picked
    <2> QED BY <1>2, TheMember
  <1>6. picked.value = The(Key(fs[k].transports, name))
    OBVIOUS
  <1> HIDE DEF k, picked, having
  <1>7. name \in DOMAIN fs[k].transports /\ Key(fs[k].transports, name) = {fs[k].transports[name]}
    BY <1>4 DEF Key
  <1>8. The(Key(fs[k].transports, name)) = fs[k].transports[name]
    BY <1>7, TheMember
  <1> QED BY <1>4, <1>5, <1>6, <1>7, <1>8

(* Every setting that is a name is one.                                    *)
LEMMA PickedIsAName ==
  ASSUME NEW fs, GoodFiles(fs), NEW names, NEW args, NamesIn(args, "transport"),
         NEW fallback \in Name
  PROVE  PickName(fs, names, Key(args, "transport"), "transport", fallback).value \in Name
  <1>1. PICK n \in Nat : DOMAIN fs = 1 .. n
    BY DEF GoodFiles
  <1> DEFINE fromCli == FromCli(Key(args, "transport"))
             fromScan == FromFile(InScan(fs, names, "transport"), "scan")
             fromDefaults == FromFile(InDefaults(fs, "transport"), "defaults")
             fallen == {Found(fallback, "default", 0)}
  <1>2. ASSUME NEW x \in fromCli PROVE x.value \in Name
    <2>1. PICK v \in Key(args, "transport") : x = Found(v, "cli", 0)
      BY <1>2 DEF FromCli
    <2> QED BY <2>1 DEF Found, NamesIn
  <1>3. ASSUME NEW x \in fromScan PROVE x.value \in Name
    <2> DEFINE get(d) == UNION {KeyIn(d.scans, s, "transport") : s \in names}
               having == {k \in DOMAIN fs : get(fs[k]) # {}}
    <2>1. PICK q \in InScan(fs, names, "transport") : x = Found(q.value, "scan", q.layer)
      BY <1>3 DEF FromFile
    <2>2. having # {} /\ q = [value |-> The(get(fs[Max(having)])), layer |-> Max(having)]
      BY <2>1 DEF InScan, Pick
    <2>3. Max(having) \in having
      BY <1>1, <2>2, HighestIsIn
    <2> DEFINE k == Max(having)
    <2>4. k \in DOMAIN fs /\ get(fs[k]) # {}
      BY <2>3
    <2>5. q.value = The(get(fs[k]))
      BY <2>2
    <2> HIDE DEF k, having
    <2>6. q.value \in get(fs[k])
      <3> HIDE DEF get
      <3> QED BY <2>4, <2>5, TheMember
    <2>7. PICK s \in names : q.value \in KeyIn(fs[k].scans, s, "transport")
      BY <2>6
    <2>8. s \in DOMAIN fs[k].scans /\ q.value \in Key(fs[k].scans[s], "transport")
      BY <2>7 DEF KeyIn
    <2>9. q.value \in Name
      BY <2>4, <2>8 DEF GoodFiles, IsDocument, IsScan, NamesIn
    <2> QED BY <2>1, <2>9 DEF Found
  <1>4. ASSUME NEW x \in fromDefaults PROVE x.value \in Name
    <2> DEFINE having == {k \in DOMAIN fs : Key(fs[k].defaults, "transport") # {}}
    <2>1. PICK q \in InDefaults(fs, "transport") : x = Found(q.value, "defaults", q.layer)
      BY <1>4 DEF FromFile
    <2>2. having # {} /\ q = [value |-> The(Key(fs[Max(having)].defaults, "transport")),
                               layer |-> Max(having)]
      BY <2>1 DEF InDefaults, Pick
    <2>3. Max(having) \in having
      BY <1>1, <2>2, HighestIsIn
    <2> DEFINE k == Max(having)
    <2>4. k \in DOMAIN fs /\ Key(fs[k].defaults, "transport") # {}
      BY <2>3
    <2>5. q.value = The(Key(fs[k].defaults, "transport"))
      BY <2>2
    <2> HIDE DEF k, having
    <2>6. q.value \in Key(fs[k].defaults, "transport")
      BY <2>4, <2>5, TheMember
    <2>7. q.value \in Name
      BY <2>4, <2>6 DEF GoodFiles, IsDocument, IsDefaults, NamesIn
    <2> QED BY <2>1, <2>7 DEF Found
  <1>5. ASSUME NEW x \in fallen PROVE x.value \in Name
    BY DEF Found
  <1> DEFINE found == Or(fromCli, Or(fromScan, Or(fromDefaults, fallen)))
  <1>6. fallen # {}
    OBVIOUS
  <1>7. PickName(fs, names, Key(args, "transport"), "transport", fallback) = The(found)
    BY DEF PickName
  <1> HIDE DEF fromCli, fromScan, fromDefaults, fallen
  <1>8. found # {} /\ found \in {fromCli, fromScan, fromDefaults, fallen}
    BY <1>6 DEF Or
  <1>9. The(found) \in found
    <2> HIDE DEF found
    <2> QED BY <1>8, TheMember
  <1> HIDE DEF found
  <1> QED BY <1>2, <1>3, <1>4, <1>5, <1>7, <1>8, <1>9

(* The names that are defined can be counted.                              *)
LEMMA NamesAreFinite ==
  ASSUME NEW fs, GoodFiles(fs)
  PROVE  IsFiniteSet(TransportNames(fs))
  <1>1. PICK n \in Nat : DOMAIN fs = 1 .. n
    BY DEF GoodFiles
  <1> DEFINE tables == {DOMAIN fs[k].transports : k \in DOMAIN fs}
             table == [k \in DOMAIN fs |-> DOMAIN fs[k].transports]
  <1>2. IsFiniteSet(DOMAIN fs)
    BY <1>1, FS_Interval
  <1>3. table \in Surjection(DOMAIN fs, tables)
    BY DEF Surjection
  <1>4. \A T \in tables : IsFiniteSet(T)
    BY DEF GoodFiles, IsDocument
  <1>5. TransportNames(fs) = UNION tables
    BY DEF TransportNames, Names
  <1> HIDE DEF tables, table
  <1>6. IsFiniteSet(tables)
    BY <1>2, <1>3, FS_Surjection
  <1> QED BY <1>4, <1>5, <1>6, FS_UNION

(* Resolution has a depth.                                                 *)
LEMMA DepthIsANumber ==
  ASSUME NEW fs, GoodFiles(fs)
  PROVE  Depth(fs) \in Nat /\ Depth(fs) > 0
  <1>1. Cardinality(TransportNames(fs)) \in Nat
    BY NamesAreFinite, FS_CardinalityType
  <1> QED BY <1>1 DEF Depth

-----------------------------------------------------------------------------
(* Recursion.                                                              *)

(* The steps by which the planner's functions on the natural numbers go    *)
(* from one number to the next, each with what it depends on.              *)
ResolveStep(fs, below) == [path \in Seq(Name) |-> ResolveLast(fs, below, path)]
TakeStep(e, r) == IF r.kind = "pool" THEN Pick1(r, e) ELSE r
JoinStep(seqs, joined) == <<joined[1] + 1, joined[2] \o seqs[joined[1] + 1]>>

Step(p, x) ==
  CASE p[1] = "resolve" -> ResolveStep(p[2], x)
    [] p[1] = "open"    -> Opened(x)
    [] p[1] = "take"    -> TakeStep(p[2], x)
    [] p[1] = "join"    -> JoinStep(p[2], x)
    [] p[1] = "double"  -> 2 * x

(* The first n steps.                                                      *)
Begins(p, x, w, n) ==
  w = [k \in 0 .. n |-> IF k = 0 THEN x ELSE Step(p, w[k - 1])]

LEMMA BeginningIsUnique ==
  ASSUME NEW p, NEW x, NEW m \in Nat, NEW n \in Nat, m <= n, NEW v, NEW w,
         Begins(p, x, v, m), Begins(p, x, w, n)
  PROVE  \A k \in 0 .. m : v[k] = w[k]
  <1> DEFINE Bad == {k \in 0 .. m : v[k] # w[k]}
  <1>1. SUFFICES ASSUME Bad # {} PROVE FALSE
    OBVIOUS
  <1>2. Bad \in SUBSET Nat
    OBVIOUS
  <1> HIDE DEF Bad
  <1>3. PICK k \in Bad : \A y \in Bad : ~ (y < k)
    <2>1. PICK k \in Bad : \A y \in Bad : ~ (<<y, k>> \in OpToRel(<, Nat))
      BY <1>1, <1>2, NatLessThanWellFounded, WFMin
    <2> QED BY <1>2, <2>1 DEF OpToRel
  <1>4. k \in 0 .. m /\ k \in 0 .. n /\ v[k] # w[k]
    BY <1>3 DEF Bad
  <1>5. v[k] = (IF k = 0 THEN x ELSE Step(p, v[k - 1]))
    BY <1>4 DEF Begins
  <1>6. w[k] = (IF k = 0 THEN x ELSE Step(p, w[k - 1]))
    BY <1>4 DEF Begins
  <1>7. CASE k = 0
    BY <1>4, <1>5, <1>6, <1>7
  <1>8. CASE k # 0
    <2>1. k - 1 \in 0 .. m /\ k - 1 < k
      BY <1>4, <1>8
    <2>2. v[k - 1] = w[k - 1]
      BY <1>3, <2>1 DEF Bad
    <2> QED BY <1>4, <1>5, <1>6, <1>8, <2>2
  <1> QED BY <1>7, <1>8

LEMMA BeginningExists ==
  ASSUME NEW p, NEW x, NEW n \in Nat
  PROVE  \E w : Begins(p, x, w, n)
  <1> DEFINE Bad == {m \in Nat : ~ \E w : Begins(p, x, w, m)}
  <1>1. SUFFICES ASSUME Bad # {} PROVE FALSE
    OBVIOUS
  <1>2. Bad \in SUBSET Nat
    OBVIOUS
  <1> HIDE DEF Bad
  <1>3. PICK m \in Bad : \A y \in Bad : ~ (y < m)
    <2>1. PICK m \in Bad : \A y \in Bad : ~ (<<y, m>> \in OpToRel(<, Nat))
      BY <1>1, <1>2, NatLessThanWellFounded, WFMin
    <2> QED BY <1>2, <2>1 DEF OpToRel
  <1>4. m \in Nat /\ ~ \E w : Begins(p, x, w, m)
    BY <1>3 DEF Bad
  <1>5. CASE m = 0
    <2>1. Begins(p, x, [k \in 0 .. 0 |-> x], 0)
      BY DEF Begins
    <2> QED BY <1>4, <1>5, <2>1
  <1>6. CASE m # 0
    <2>1. m - 1 \in Nat /\ m - 1 < m
      BY <1>4, <1>6
    <2>2. PICK w : Begins(p, x, w, m - 1)
      BY <1>3, <2>1 DEF Bad
    <2> DEFINE v == [k \in 0 .. m |-> IF k = 0 THEN x ELSE Step(p, w[k - 1])]
    <2>3. ASSUME NEW k \in 0 .. (m - 1) PROVE v[k] = w[k]
      <3>1. w[k] = IF k = 0 THEN x ELSE Step(p, w[k - 1])
        BY <2>2 DEF Begins
      <3>2. k \in 0 .. m
        BY <1>4
      <3>3. v[k] = IF k = 0 THEN x ELSE Step(p, w[k - 1])
        BY <3>2
      <3> QED BY <3>1, <3>3
    <2>4. ASSUME NEW k \in 0 .. m, k # 0 PROVE Step(p, w[k - 1]) = Step(p, v[k - 1])
      <3>1. k - 1 \in 0 .. (m - 1)
        BY <1>4, <2>4
      <3>2. v[k - 1] = w[k - 1]
        BY <2>3, <3>1
      <3> HIDE DEF v
      <3> QED BY <3>2
    <2>5. v = [k \in 0 .. m |-> IF k = 0 THEN x ELSE Step(p, v[k - 1])]
      BY <2>4
    <2> HIDE DEF v
    <2> QED BY <1>4, <2>5 DEF Begins
  <1> QED BY <1>5, <1>6

(* There is a function that is x at zero and goes on by the step.          *)
IsIteration(p, x, g) == g = [n \in Nat |-> IF n = 0 THEN x ELSE Step(p, g[n - 1])]

LEMMA IterationExists == ASSUME NEW p, NEW x PROVE \E g : IsIteration(p, x, g)
  <1> DEFINE start(n) == CHOOSE w : Begins(p, x, w, n)
             g == [n \in Nat |-> start(n)[n]]
  <1>1. \A n \in Nat : Begins(p, x, start(n), n)
    BY BeginningExists
  <1> HIDE DEF start
  <1>2. ASSUME NEW n \in Nat
        PROVE  g[n] = IF n = 0 THEN x ELSE Step(p, g[n - 1])
    <2>1. start(n)[n] = IF n = 0 THEN x ELSE Step(p, start(n)[n - 1])
      BY <1>1 DEF Begins
    <2>2. CASE n = 0
      BY <2>1, <2>2
    <2>3. CASE n # 0
      <3>1. n - 1 \in Nat /\ n - 1 <= n /\ n - 1 \in 0 .. (n - 1)
        BY <2>3
      <3>2. start(n - 1)[n - 1] = start(n)[n - 1]
        BY <1>1, <3>1, BeginningIsUnique
      <3>3. g[n] = start(n)[n] /\ g[n - 1] = start(n - 1)[n - 1]
        BY <3>1
      <3> HIDE DEF g
      <3> QED BY <2>1, <2>3, <3>2, <3>3
    <2> QED BY <2>2, <2>3
  <1>3. IsIteration(p, x, g)
    <2>1. g = [n \in Nat |-> IF n = 0 THEN x ELSE Step(p, g[n - 1])]
      <3>1. [n \in Nat |-> start(n)[n]] = [n \in Nat |-> IF n = 0 THEN x ELSE Step(p, g[n - 1])]
        <4> DEFINE h == [n \in Nat |-> IF n = 0 THEN x ELSE Step(p, g[n - 1])]
        <4>1. \A n \in Nat : g[n] = h[n]
          <5> HIDE DEF g
          <5> QED BY <1>2
        <4> QED BY <4>1
      <3> QED BY <3>1
    <2> HIDE DEF g
    <2> QED BY <2>1 DEF IsIteration
  <1> HIDE DEF g
  <1> QED BY <1>3

-----------------------------------------------------------------------------
(* What a name resolves to.                                                *)

NothingYet == [path \in Seq(Name) |-> Unresolved("cycle")]

(* What paths resolve to, from the longest on.                             *)
Resolving(fs) ==
  LET f[n \in Nat] == IF n = 0 THEN NothingYet ELSE ResolveStep(fs, f[n - 1]) IN f

LEMMA ResolvingGoes ==
  ASSUME NEW fs
  PROVE  /\ Resolving(fs)[0] = NothingYet
         /\ \A n \in Nat : Resolving(fs)[n + 1] = ResolveStep(fs, Resolving(fs)[n])
  <1> DEFINE p == <<"resolve", fs>>
             Is(f) == f = [n \in Nat |-> IF n = 0 THEN NothingYet ELSE ResolveStep(fs, f[n - 1])]
  <1>1. \A y : Step(p, y) = ResolveStep(fs, y)
    BY DEF Step
  <1> HIDE DEF p
  <1>2. PICK g : IsIteration(p, NothingYet, g)
    BY IterationExists
  <1>3. Is(g)
    BY <1>1, <1>2 DEF IsIteration
  <1>4. Resolving(fs) = CHOOSE f : Is(f)
    BY DEF Resolving
  <1> DEFINE it == Resolving(fs)
  <1>5. Is(it)
    <2> HIDE DEF Is
    <2> QED BY <1>3, <1>4
  <1> HIDE DEF it
  <1>6. it[0] = NothingYet
    BY <1>5
  <1>7. ASSUME NEW n \in Nat PROVE it[n + 1] = ResolveStep(fs, it[n])
    <2>1. n + 1 \in Nat /\ n + 1 # 0 /\ (n + 1) - 1 = n
      OBVIOUS
    <2> HIDE DEF p
    <2>2. it[n + 1] = IF n + 1 = 0 THEN NothingYet ELSE ResolveStep(fs, it[(n + 1) - 1])
      BY <1>5, <2>1
    <2> QED BY <2>1, <2>2
  <1> QED BY <1>6, <1>7 DEF it

(* What paths resolve to when they are n shorter than any can be, and what *)
(* of it can be used.                                                      *)
At(fs, n) == Resolving(fs)[n]
Usable(fs, n) == {r \in {At(fs, n)[path] : path \in Seq(Name)} : r.ok}

IsLink(r) ==
  /\ r.ok /\ r.kind \in {"socks5", "http"} /\ r.fidelity \in Fidelities
  /\ r.kind = "http" => r.fidelity # "full"

HasParts(r) == \E m \in Nat \ {0} : Len(r.parts) = m /\ DOMAIN r.parts = 1 .. m

(* A transport that no pool is opened for.                                 *)
IsLeaf(r) ==
  \/ IsLink(r)
  \/ r.ok /\ r.kind = "direct" /\ r.fidelity = "full"
  \/ /\ r.ok /\ r.kind = "chain" /\ HasParts(r)
     /\ \A k \in DOMAIN r.parts : IsLink(r.parts[k])
     /\ r.fidelity = r.parts[Len(r.parts)].fidelity

IsPoolOf(r, S) ==
  /\ r.ok /\ r.kind = "pool" /\ HasParts(r)
  /\ \A k \in DOMAIN r.parts : r.parts[k] \in S /\ r.parts[k].kind # "direct"
  /\ r.fidelity = PoolFidelity(r.parts)

(* The levels of resolution, by the levels below them.                     *)
LEMMA AtZero == ASSUME NEW fs PROVE At(fs, 0) = NothingYet
  BY ResolvingGoes DEF At

LEMMA AtNext ==
  ASSUME NEW fs, NEW n \in Nat
  PROVE  At(fs, n + 1) = ResolveStep(fs, At(fs, n))
  BY ResolvingGoes DEF At

(* A transport is what its name leads to at the depth of the files.        *)
LEMMA ResolvedAtDepth ==
  ASSUME NEW fs, NEW name
  PROVE  ResolveTransport(fs, name) = At(fs, Depth(fs))[<<name>>]
  BY DEF ResolveTransport, At, Resolving, ResolveStep, NothingYet

(* A list of parts is used only when every part fits.                      *)
LEMMA EveryPartFits ==
  ASSUME NEW parts, NEW m \in Nat, DOMAIN parts = 1 .. m, NEW S \in SUBSET (1 .. m),
         {k \in DOMAIN parts : k \in S /\ \A j \in 1 .. (k - 1) : j \notin S} = {}
  PROVE  S = {}
  <1>1. SUFFICES ASSUME S # {} PROVE FALSE
    OBVIOUS
  <1>2. S \in SUBSET Nat
    OBVIOUS
  <1>3. PICK k \in S : \A y \in S : ~ (y < k)
    <2>1. PICK k \in S : \A y \in S : ~ (<<y, k>> \in OpToRel(<, Nat))
      BY <1>1, <1>2, NatLessThanWellFounded, WFMin
    <2> QED BY <1>2, <2>1 DEF OpToRel
  <1>4. k \in 1 .. m /\ \A j \in 1 .. (k - 1) : j < k
    OBVIOUS
  <1>5. \A j \in 1 .. (k - 1) : j \notin S
    BY <1>3, <1>4
  <1> QED BY <1>4, <1>5

(* A chain that is used is made of proxies that are.                       *)
LEMMA ComposedOfProxies ==
  ASSUME NEW name, NEW parts, NEW m \in Nat, DOMAIN parts = 1 .. m, Len(parts) = m,
         NEW fidelity, NEW r, r = Compose(name, "chain", parts, IsProxy, fidelity), r.ok
  PROVE  /\ r = Resolved(name, "chain", fidelity, parts)
         /\ m # 0
         /\ \A k \in DOMAIN parts : parts[k].ok /\ IsProxy(parts[k])
  <1> DEFINE S == {k \in DOMAIN parts : ~parts[k].ok \/ ~IsProxy(parts[k])}
             unfit == FirstUnfit(parts, IsProxy)
  <1>1. unfit = {k \in DOMAIN parts : k \in S /\ \A j \in 1 .. (k - 1) : j \notin S}
    <2>1. \A k \in DOMAIN parts : \A j \in 1 .. (k - 1) : j \in DOMAIN parts
      OBVIOUS
    <2> QED BY <2>1 DEF FirstUnfit
  <1>2. CASE parts = << >>
    BY <1>2 DEF Compose, Unresolved
  <1>3. CASE parts # << >> /\ unfit # {}
    <2>1. r = IF parts[The(unfit)].ok THEN Unresolved("part_kind") ELSE parts[The(unfit)]
      BY <1>3 DEF Compose
    <2>2. CASE parts[The(unfit)].ok
      <3>1. r = Unresolved("part_kind")
        BY <2>1, <2>2
      <3>2. ~Unresolved("part_kind").ok
        BY DEF Unresolved
      <3> HIDE DEF unfit
      <3> QED BY <3>1, <3>2
    <2>3. CASE ~parts[The(unfit)].ok
      <3>1. r = parts[The(unfit)]
        BY <2>1, <2>3
      <3> HIDE DEF unfit
      <3> QED BY <2>3, <3>1
    <2> QED BY <2>2, <2>3
  <1>4. CASE parts # << >> /\ unfit = {}
    <2>1. r = Resolved(name, "chain", fidelity, parts)
      BY <1>4 DEF Compose
    <2>2. S = {}
      <3> HIDE DEF unfit
      <3>1. S \in SUBSET (1 .. m)
        OBVIOUS
      <3> HIDE DEF S
      <3> QED BY <1>1, <1>4, <3>1, EveryPartFits
    <2>3. m # 0
      <3>1. SUFFICES ASSUME m = 0 PROVE FALSE
        OBVIOUS
      <3> QED BY <1>4, <3>1
    <2> HIDE DEF unfit
    <2> QED BY <2>1, <2>2, <2>3
  <1> QED BY <1>2, <1>3, <1>4

(* A pool that is used is made of members that are, none direct.           *)
LEMMA ComposedOfMembers ==
  ASSUME NEW name, NEW parts, NEW m \in Nat, DOMAIN parts = 1 .. m, Len(parts) = m,
         NEW fidelity, NEW r, r = Compose(name, "pool", parts, IsNotDirect, fidelity), r.ok
  PROVE  /\ r = Resolved(name, "pool", fidelity, parts)
         /\ m # 0
         /\ \A k \in DOMAIN parts : parts[k].ok /\ IsNotDirect(parts[k])
  <1> DEFINE S == {k \in DOMAIN parts : ~parts[k].ok \/ ~IsNotDirect(parts[k])}
             unfit == FirstUnfit(parts, IsNotDirect)
  <1>1. unfit = {k \in DOMAIN parts : k \in S /\ \A j \in 1 .. (k - 1) : j \notin S}
    <2>1. \A k \in DOMAIN parts : \A j \in 1 .. (k - 1) : j \in DOMAIN parts
      OBVIOUS
    <2> QED BY <2>1 DEF FirstUnfit
  <1>2. CASE parts = << >>
    BY <1>2 DEF Compose, Unresolved
  <1>3. CASE parts # << >> /\ unfit # {}
    <2>1. r = IF parts[The(unfit)].ok THEN Unresolved("part_kind") ELSE parts[The(unfit)]
      BY <1>3 DEF Compose
    <2>2. CASE parts[The(unfit)].ok
      <3>1. r = Unresolved("part_kind")
        BY <2>1, <2>2
      <3>2. ~Unresolved("part_kind").ok
        BY DEF Unresolved
      <3> HIDE DEF unfit
      <3> QED BY <3>1, <3>2
    <2>3. CASE ~parts[The(unfit)].ok
      <3>1. r = parts[The(unfit)]
        BY <2>1, <2>3
      <3> HIDE DEF unfit
      <3> QED BY <2>3, <3>1
    <2> QED BY <2>2, <2>3
  <1>4. CASE parts # << >> /\ unfit = {}
    <2>1. r = Resolved(name, "pool", fidelity, parts)
      BY <1>4 DEF Compose
    <2>2. S = {}
      <3> HIDE DEF unfit
      <3>1. S \in SUBSET (1 .. m)
        OBVIOUS
      <3> HIDE DEF S
      <3> QED BY <1>1, <1>4, <3>1, EveryPartFits
    <2>3. m # 0
      <3>1. SUFFICES ASSUME m = 0 PROVE FALSE
        OBVIOUS
      <3> QED BY <1>4, <3>1
    <2> HIDE DEF unfit
    <2> QED BY <2>1, <2>2, <2>3
  <1> QED BY <1>2, <1>3, <1>4

(* A proxy that is used is of the kind its table says.                     *)
LEMMA ProxyIsALink ==
  ASSUME NEW name, NEW kind \in {"socks5", "http"}, NEW t, NEW r,
         r = ResolveProxy(name, kind, t), r.ok
  PROVE  IsLink(r) /\ r.kind = kind
  <1> DEFINE wrong == FirstProblem(<<
        <<"address", Key(t, "address") # {"ok"}>>,
        <<"password", PasswordSource(t) = {"bad"}>>,
        <<"no_username", PasswordSource(t) # {} /\ Key(t, "username") = {}>>,
        <<"fidelity", ~(Key(t, "fidelity") \subseteq Fidelities)>>,
        <<"http_full", kind = "http" /\ Key(t, "fidelity") = {"full"}>>>>)
  <1>1. r = IF wrong # {} THEN Unresolved(The(wrong))
            ELSE Resolved(name, kind, IF kind = "http" THEN "open_only"
                                      ELSE The(Or(Key(t, "fidelity"), {"unknown"})), << >>)
    BY DEF ResolveProxy
  <1>2. wrong = {}
    <2> HIDE DEF wrong
    <2> QED BY <1>1 DEF Unresolved
  <1>3. Key(t, "fidelity") \subseteq Fidelities
    <2> DEFINE checks == <<
          <<"address", Key(t, "address") # {"ok"}>>,
          <<"password", PasswordSource(t) = {"bad"}>>,
          <<"no_username", PasswordSource(t) # {} /\ Key(t, "username") = {}>>,
          <<"fidelity", ~(Key(t, "fidelity") \subseteq Fidelities)>>,
          <<"http_full", kind = "http" /\ Key(t, "fidelity") = {"full"}>>>>
    <2>1. 4 \in DOMAIN checks /\ checks[4][2] = ~(Key(t, "fidelity") \subseteq Fidelities)
      OBVIOUS
    <2>2. wrong = FirstProblem(checks)
      OBVIOUS
    <2> HIDE DEF checks, wrong
    <2>3. {k \in DOMAIN checks : checks[k][2]} = {}
      BY <1>2, <2>2 DEF FirstProblem
    <2> QED BY <2>1, <2>3
  <1>4. The(Or(Key(t, "fidelity"), {"unknown"})) \in Fidelities
    <2> DEFINE given == Or(Key(t, "fidelity"), {"unknown"})
    <2>1. given # {} /\ given \subseteq Fidelities
      BY <1>3 DEF Or, Fidelities
    <2>2. SUFFICES The(given) \in Fidelities
      OBVIOUS
    <2> HIDE DEF given
    <2>3. The(given) \in given
      BY <2>1, TheMember
    <2> QED BY <2>1, <2>3
  <1> HIDE DEF wrong
  <1> QED BY <1>1, <1>2, <1>4 DEF Resolved, IsLink, Fidelities

(* What a list of names resolves to, one part for each.                    *)
LEMMA PartsAreUsable ==
  ASSUME NEW fs, NEW n \in Nat, NEW path \in Seq(Name), NEW names \in Seq(Name)
  PROVE  LET parts == [j \in DOMAIN names |-> At(fs, n)[Append(path, names[j])]]
         IN  /\ \E m \in Nat : DOMAIN parts = 1 .. m /\ Len(parts) = m
             /\ \A k \in DOMAIN parts : parts[k].ok => parts[k] \in Usable(fs, n)
  <1> DEFINE parts == [j \in DOMAIN names |-> At(fs, n)[Append(path, names[j])]]
  <1>1. Len(names) \in Nat /\ DOMAIN names = 1 .. Len(names)
    OBVIOUS
  <1>2. DOMAIN parts = 1 .. Len(names) /\ Len(parts) = Len(names)
    <2>1. DOMAIN parts = 1 .. Len(names)
      BY <1>1
    <2> HIDE DEF parts
    <2> QED BY <1>1, <2>1
  <1>3. ASSUME NEW k \in DOMAIN parts, parts[k].ok PROVE parts[k] \in Usable(fs, n)
    <2>1. names[k] \in Name /\ parts[k] = At(fs, n)[Append(path, names[k])]
      BY <1>1, <1>2
    <2>2. Append(path, names[k]) \in Seq(Name)
      BY <2>1
    <2> HIDE DEF parts
    <2> QED BY <1>3, <2>1, <2>2 DEF Usable
  <1> HIDE DEF parts
  <1>4. /\ \E m \in Nat : DOMAIN parts = 1 .. m /\ Len(parts) = m
        /\ \A k \in DOMAIN parts : parts[k].ok => parts[k] \in Usable(fs, n)
    BY <1>1, <1>2, <1>3
  <1> QED BY <1>4 DEF parts

(* The hops and members of a table are names.                              *)
LEMMA ListsAreLists ==
  ASSUME NEW fs, GoodFiles(fs), NEW k \in DOMAIN fs, NEW name \in DOMAIN fs[k].transports,
         NEW key \in {"hops", "members"}
  PROVE  The(Or(Key(fs[k].transports[name], key), {<< >>})) \in Seq(Name)
  <1> DEFINE lists == Or(Key(fs[k].transports[name], key), {<< >>})
  <1>1. << >> \in Seq(Name)
    OBVIOUS
  <1>2. Key(fs[k].transports[name], key) \subseteq Seq(Name)
    BY DEF GoodFiles, IsDocument
  <1>3. lists # {} /\ lists \subseteq Seq(Name)
    BY <1>1, <1>2 DEF Or
  <1>4. SUFFICES The(lists) \in Seq(Name)
    OBVIOUS
  <1> HIDE DEF lists
  <1>5. The(lists) \in lists
    BY <1>3, TheMember
  <1> QED BY <1>3, <1>5

(* A pool is a pool of what names resolve to one level down.               *)
LEMMA WhatANameIs ==
  ASSUME NEW fs, GoodFiles(fs), NEW n \in Nat, NEW path \in Seq(Name),
         \A q \in Usable(fs, n) : IsLeaf(q) \/ q.kind = "pool",
         NEW r, r = At(fs, n + 1)[path], r.ok
  PROVE  IsLeaf(r) \/ IsPoolOf(r, Usable(fs, n))
  <1> DEFINE below == At(fs, n)
             name == path[Len(path)]
             visiting == {path[k] : k \in 1 .. (Len(path) - 1)}
             defined == TransportDef(fs, name)
             t == The(defined).value
             kind == The(Or(Key(t, "type"), {"direct"}))
             names(k) == The(Or(Key(t, k), {<< >>}))
             parts(k) == [j \in DOMAIN names(k) |-> below[Append(path, names(k)[j])]]
             hops == parts("hops")
             members == parts("members")
  <1>1. r = ResolveLast(fs, below, path)
    <2>1. r = ResolveStep(fs, below)[path]
      BY AtNext
    <2> QED BY <2>1 DEF ResolveStep
  <1>2. CASE name \in visiting
    <2>1. r = Unresolved("cycle")
      BY <1>1, <1>2 DEF ResolveLast
    <2>2. ~Unresolved("cycle").ok
      BY DEF Unresolved
    <2> QED BY <2>1, <2>2
  <1>3. CASE name \notin visiting /\ defined = {}
    <2>1. r = IF name = DefaultTransport THEN DirectTransport(name) ELSE Unresolved("no_transport")
      BY <1>1, <1>3 DEF ResolveLast
    <2>2. ~Unresolved("no_transport").ok
      BY DEF Unresolved
    <2>3. r = DirectTransport(name)
      <3> HIDE DEF name
      <3> QED BY <2>1, <2>2
    <2> QED BY <2>3 DEF DirectTransport, Resolved, IsLeaf
  <1>4. CASE name \notin visiting /\ defined # {}
    <2>1. r = CASE kind = "direct" -> DirectTransport(name)
                [] kind \in {"socks5", "http"} -> ResolveProxy(name, kind, t)
                [] kind = "chain" -> Compose(name, kind, hops, IsProxy, ChainFidelity(hops))
                [] kind = "pool" ->
                     Compose(name, kind, members, IsNotDirect, PoolFidelity(members))
                [] OTHER -> Unresolved("type")
      BY <1>1, <1>4 DEF ResolveLast
    <2>2. PICK k \in DOMAIN fs : name \in DOMAIN fs[k].transports /\ t = fs[k].transports[name]
      <3> HIDE DEF name
      <3> QED BY <1>4, DefinedInAFile
    <2>3. \A key \in {"hops", "members"} : names(key) \in Seq(Name)
      <3>1. TAKE key \in {"hops", "members"}
      <3>2. The(Or(Key(fs[k].transports[name], key), {<< >>})) \in Seq(Name)
        <4> HIDE DEF name
        <4> QED BY <2>2, ListsAreLists
      <3> HIDE DEF t, name
      <3> QED BY <2>2, <3>2
    <2> HIDE DEF kind, t, name, names, below
    <2>4. CASE kind = "direct"
      <3>1. r = DirectTransport(name)
        BY <2>1, <2>4
      <3> QED BY <3>1 DEF DirectTransport, Resolved, IsLeaf
    <2>5. CASE kind \in {"socks5", "http"}
      <3>1. r = ResolveProxy(name, kind, t)
        BY <2>1, <2>5
      <3> QED BY <2>5, <3>1, ProxyIsALink DEF IsLeaf
    <2>6. CASE kind = "chain"
      <3>1. r = Compose(name, "chain", hops, IsProxy, ChainFidelity(hops))
        BY <2>1, <2>6
      <3>2. /\ \E m \in Nat : DOMAIN hops = 1 .. m /\ Len(hops) = m
            /\ \A j \in DOMAIN hops : hops[j].ok => hops[j] \in Usable(fs, n)
        BY <2>3, PartsAreUsable DEF below
      <3> HIDE DEF hops
      <3>3. PICK m \in Nat : DOMAIN hops = 1 .. m /\ Len(hops) = m
        BY <3>2
      <3>4. /\ r = Resolved(name, "chain", ChainFidelity(hops), hops)
            /\ m # 0
            /\ \A j \in DOMAIN hops : hops[j].ok /\ IsProxy(hops[j])
        BY <3>1, <3>3, ComposedOfProxies
      <3>5. ASSUME NEW j \in DOMAIN hops PROVE IsLink(hops[j])
        <4>1. hops[j] \in Usable(fs, n) /\ hops[j].kind \in {"socks5", "http"}
          BY <3>2, <3>4 DEF IsProxy
        <4>2. IsLeaf(hops[j])
          BY <4>1
        <4> QED BY <4>1, <4>2 DEF IsLeaf
      <3>6. /\ r.ok /\ r.kind = "chain" /\ r.parts = hops
            /\ r.fidelity = hops[Len(hops)].fidelity
        BY <3>4 DEF Resolved, ChainFidelity
      <3>7. HasParts(r)
        BY <3>3, <3>4, <3>6 DEF HasParts
      <3> QED BY <3>5, <3>6, <3>7 DEF IsLeaf
    <2>7. CASE kind = "pool"
      <3>1. r = Compose(name, "pool", members, IsNotDirect, PoolFidelity(members))
        BY <2>1, <2>7
      <3>2. /\ \E m \in Nat : DOMAIN members = 1 .. m /\ Len(members) = m
            /\ \A j \in DOMAIN members : members[j].ok => members[j] \in Usable(fs, n)
        BY <2>3, PartsAreUsable DEF below
      <3> HIDE DEF members
      <3>3. PICK m \in Nat : DOMAIN members = 1 .. m /\ Len(members) = m
        BY <3>2
      <3>4. /\ r = Resolved(name, "pool", PoolFidelity(members), members)
            /\ m # 0
            /\ \A j \in DOMAIN members : members[j].ok /\ IsNotDirect(members[j])
        <4> DEFINE fidelity == PoolFidelity(members)
        <4>1. r = Compose(name, "pool", members, IsNotDirect, fidelity) /\ r.ok
          BY <3>1
        <4> HIDE DEF fidelity
        <4>2. /\ r = Resolved(name, "pool", fidelity, members)
              /\ m # 0
              /\ \A j \in DOMAIN members : members[j].ok /\ IsNotDirect(members[j])
          BY <3>3, <4>1, ComposedOfMembers, ZenonT(60)
        <4> QED BY <4>2 DEF fidelity
      <3>5. ASSUME NEW j \in DOMAIN members
            PROVE  members[j] \in Usable(fs, n) /\ members[j].kind # "direct"
        BY <3>2, <3>4 DEF IsNotDirect
      <3>6. /\ r.ok /\ r.kind = "pool" /\ r.parts = members
            /\ r.fidelity = PoolFidelity(members)
        BY <3>4 DEF Resolved
      <3>7. HasParts(r)
        BY <3>3, <3>4, <3>6 DEF HasParts
      <3> QED BY <3>5, <3>6, <3>7 DEF IsPoolOf
    <2>8. CASE kind \notin {"direct", "socks5", "http", "chain", "pool"}
      <3>1. r = Unresolved("type")
        BY <2>1, <2>8
      <3>2. ~Unresolved("type").ok
        BY DEF Unresolved
      <3> QED BY <3>1, <3>2
    <2> QED BY <2>4, <2>5, <2>6, <2>7, <2>8
  <1> HIDE DEF name, visiting, defined
  <1> QED BY <1>2, <1>3, <1>4

(* At the last level there is nothing, and no level has anything else than *)
(* leaves and pools of the level below.                                    *)
LEMMA NothingAtZero ==
  ASSUME NEW fs PROVE Usable(fs, 0) = {}
  <1>1. SUFFICES ASSUME NEW path \in Seq(Name) PROVE ~At(fs, 0)[path].ok
    BY DEF Usable
  <1>2. At(fs, 0)[path] = Unresolved("cycle")
    BY AtZero DEF NothingYet
  <1> QED BY <1>2 DEF Unresolved

Layered(fs, n) == \A q \in Usable(fs, n) : IsLeaf(q) \/ q.kind = "pool"

(* Whatever is usable at a level is a leaf or a pool.                      *)
LEMMA EveryLevelIsLayered ==
  ASSUME NEW fs, GoodFiles(fs), NEW n \in Nat
  PROVE  Layered(fs, n)
  <1> DEFINE Bad == {m \in Nat : ~Layered(fs, m)}
  <1>1. SUFFICES ASSUME Bad # {} PROVE FALSE
    OBVIOUS
  <1>2. Bad \in SUBSET Nat
    OBVIOUS
  <1> HIDE DEF Bad
  <1>3. PICK m \in Bad : \A y \in Bad : ~ (y < m)
    <2>1. PICK m \in Bad : \A y \in Bad : ~ (<<y, m>> \in OpToRel(<, Nat))
      BY <1>1, <1>2, NatLessThanWellFounded, WFMin
    <2> QED BY <1>2, <2>1 DEF OpToRel
  <1>4. m \in Nat /\ ~Layered(fs, m)
    BY <1>3 DEF Bad
  <1>5. CASE m = 0
    BY <1>4, <1>5, NothingAtZero DEF Layered
  <1>6. CASE m # 0
    <2>1. m - 1 \in Nat /\ m - 1 < m /\ (m - 1) + 1 = m
      BY <1>4, <1>6
    <2>2. Layered(fs, m - 1)
      BY <1>3, <2>1 DEF Bad
    <2>3. ASSUME NEW q \in Usable(fs, m) PROVE IsLeaf(q) \/ q.kind = "pool"
      <3>1. PICK path \in Seq(Name) : q = At(fs, (m - 1) + 1)[path] /\ q.ok
        BY <2>1 DEF Usable
      <3>2. IsLeaf(q) \/ IsPoolOf(q, Usable(fs, m - 1))
        BY <2>1, <2>2, <3>1, WhatANameIs DEF Layered
      <3> QED BY <3>2 DEF IsPoolOf
    <2> QED BY <1>4, <2>3 DEF Layered
  <1> QED BY <1>5, <1>6

(* The same, of one of them.                                               *)
LEMMA UsableIsALeafOrAPool ==
  ASSUME NEW fs, GoodFiles(fs), NEW n \in Nat, n # 0, NEW q \in Usable(fs, n)
  PROVE  IsLeaf(q) \/ IsPoolOf(q, Usable(fs, n - 1))
  <1>1. n - 1 \in Nat /\ (n - 1) + 1 = n
    OBVIOUS
  <1>2. PICK path \in Seq(Name) : q = At(fs, (n - 1) + 1)[path] /\ q.ok
    BY <1>1 DEF Usable
  <1>3. Layered(fs, n - 1)
    BY <1>1, EveryLevelIsLayered
  <1> QED BY <1>1, <1>2, <1>3, WhatANameIs DEF Layered

-----------------------------------------------------------------------------
(* Resolution ends by itself.                                              *)

(* Names met before the last are defined, and different.                   *)
IsFresh(fs, path) ==
  /\ path \in Seq(Name) /\ Len(path) > 0
  /\ \A i \in 1 .. (Len(path) - 1) : path[i] \in TransportNames(fs)
  /\ \A i, j \in 1 .. (Len(path) - 1) : path[i] = path[j] => i = j

(* A path of distinct defined names is no longer than there are names.     *)
LEMMA FreshIsShort ==
  ASSUME NEW fs, GoodFiles(fs), NEW path, IsFresh(fs, path)
  PROVE  Len(path) - 1 <= Cardinality(TransportNames(fs)) /\ Len(path) \in Nat
  <1> DEFINE names == TransportNames(fs)
             m == Len(path) - 1
             f == [i \in 1 .. m |-> path[i]]
  <1>1. IsFiniteSet(names) /\ Cardinality(names) \in Nat
    BY NamesAreFinite, FS_CardinalityType
  <1>2. Len(path) \in Nat /\ m \in Nat
    BY DEF IsFresh
  <1>3. f \in Injection(1 .. m, names)
    <2>1. f \in [1 .. m -> names]
      BY DEF IsFresh
    <2>2. \A i, j \in 1 .. m : f[i] = f[j] => i = j
      BY DEF IsFresh
    <2> HIDE DEF f, m, names
    <2> QED BY <2>1, <2>2 DEF Injection, IsInjective
  <1> HIDE DEF f, names
  <1>4. IsFiniteSet(1 .. m) /\ Cardinality(1 .. m) = m
    BY <1>2, FS_Interval
  <1>5. Cardinality(1 .. m) <= Cardinality(names)
    BY <1>1, <1>3, FS_Injection
  <1> QED BY <1>2, <1>4, <1>5 DEF names

(* The steps that a path this long can still take do not come to an end.   *)
Settled(fs, n) ==
  \A path : IsFresh(fs, path) /\ n + Len(path) >= Depth(fs) =>
    At(fs, n)[path] = At(fs, n + 1)[path]

(* A path as deep as it can be resolves the same at any greater depth.     *)
LEMMA LastIsSettled ==
  ASSUME NEW fs, GoodFiles(fs), NEW n \in Nat, Settled(fs, n), NEW path, IsFresh(fs, path),
         (n + 1) + Len(path) >= Depth(fs)
  PROVE  ResolveLast(fs, At(fs, n), path) = ResolveLast(fs, At(fs, n + 1), path)
  <1> DEFINE name == path[Len(path)]
             visiting == {path[k] : k \in 1 .. (Len(path) - 1)}
             defined == TransportDef(fs, name)
             t == The(defined).value
             names(k) == The(Or(Key(t, k), {<< >>}))
             parts(k, below) == [j \in DOMAIN names(k) |-> below[Append(path, names(k)[j])]]
  <1>1. CASE name \in visiting
    BY <1>1 DEF ResolveLast
  <1>2. CASE name \notin visiting /\ defined = {}
    BY <1>2 DEF ResolveLast
  <1>3. CASE name \notin visiting /\ defined # {}
    <2>1. PICK k \in DOMAIN fs : name \in DOMAIN fs[k].transports /\ t = fs[k].transports[name]
      <3> HIDE DEF name
      <3> QED BY <1>3, DefinedInAFile
    <2>2. name \in TransportNames(fs)
      BY <2>1 DEF TransportNames, Names
    <2>3. \A key \in {"hops", "members"} : names(key) \in Seq(Name)
      <3>1. TAKE key \in {"hops", "members"}
      <3>2. The(Or(Key(fs[k].transports[name], key), {<< >>})) \in Seq(Name)
        <4> HIDE DEF name
        <4> QED BY <2>1, ListsAreLists
      <3> HIDE DEF t, name
      <3> QED BY <2>1, <3>2
    <2>4. ASSUME NEW next \in Name
          PROVE  At(fs, n)[Append(path, next)] = At(fs, n + 1)[Append(path, next)]
      <3> DEFINE longer == Append(path, next)
      <3>1. path \in Seq(Name) /\ Len(path) \in Nat
        BY DEF IsFresh
      <3>2. /\ longer \in Seq(Name) /\ Len(longer) = Len(path) + 1
            /\ \A i \in 1 .. Len(path) : longer[i] = path[i]
        BY <3>1
      <3> HIDE DEF longer
      <3>3. \A i \in 1 .. (Len(path) - 1) : path[i] # name
        BY <1>3
      <3>4. \A i \in 1 .. Len(path) : i \in 1 .. (Len(path) - 1) \/ i = Len(path)
        BY <3>1
      <3>5. \A i \in 1 .. Len(path) : path[i] \in TransportNames(fs)
        BY <2>2, <3>4 DEF IsFresh
      <3>6. \A i, j \in 1 .. Len(path) : path[i] = path[j] => i = j
        BY <3>3, <3>4 DEF IsFresh
      <3>7. Len(longer) - 1 = Len(path) /\ Len(longer) > 0
        BY <3>1, <3>2
      <3>8. IsFresh(fs, longer)
        <4> HIDE DEF name, visiting, defined, t
        <4> QED BY <3>2, <3>5, <3>6, <3>7 DEF IsFresh
      <3>9. n + Len(longer) >= Depth(fs)
        <4>1. Depth(fs) \in Nat
          BY DepthIsANumber
        <4> QED BY <3>1, <3>2, <4>1
      <3> HIDE DEF name, visiting, defined, t
      <3> QED BY <3>8, <3>9 DEF Settled, longer
    <2>5. \A key \in {"hops", "members"} :
            parts(key, At(fs, n)) = parts(key, At(fs, n + 1))
      <3>1. TAKE key \in {"hops", "members"}
      <3>2. \A j \in DOMAIN names(key) : names(key)[j] \in Name
        <4> HIDE DEF names
        <4> QED BY <2>3
      <3> HIDE DEF names
      <3> QED BY <2>4, <3>2
    <2>6. /\ parts("hops", At(fs, n)) = parts("hops", At(fs, n + 1))
          /\ parts("members", At(fs, n)) = parts("members", At(fs, n + 1))
      BY <2>5
    <2> DEFINE of(hops, members) ==
           LET kind == The(Or(Key(t, "type"), {"direct"}))
           IN  CASE kind = "direct" -> DirectTransport(name)
                 [] kind \in {"socks5", "http"} -> ResolveProxy(name, kind, t)
                 [] kind = "chain" -> Compose(name, kind, hops, IsProxy, ChainFidelity(hops))
                 [] kind = "pool" ->
                      Compose(name, kind, members, IsNotDirect, PoolFidelity(members))
                 [] OTHER -> Unresolved("type")
    <2>7. ASSUME NEW below
          PROVE  ResolveLast(fs, below, path) = of(parts("hops", below), parts("members", below))
      BY <1>3 DEF ResolveLast
    <2> HIDE DEF of, parts, name
    <2> QED BY <2>6, <2>7
  <1> HIDE DEF name, visiting, defined
  <1> QED BY <1>1, <1>2, <1>3

(* And so does every path, with as many levels as it may still grow.       *)
LEMMA EveryLevelIsSettled ==
  ASSUME NEW fs, GoodFiles(fs), NEW n \in Nat
  PROVE  Settled(fs, n)
  <1> DEFINE Bad == {m \in Nat : ~Settled(fs, m)}
  <1>1. SUFFICES ASSUME Bad # {} PROVE FALSE
    OBVIOUS
  <1>2. Bad \in SUBSET Nat
    OBVIOUS
  <1> HIDE DEF Bad
  <1>3. PICK m \in Bad : \A y \in Bad : ~ (y < m)
    <2>1. PICK m \in Bad : \A y \in Bad : ~ (<<y, m>> \in OpToRel(<, Nat))
      BY <1>1, <1>2, NatLessThanWellFounded, WFMin
    <2> QED BY <1>2, <2>1 DEF OpToRel
  <1>4. m \in Nat /\ ~Settled(fs, m)
    BY <1>3 DEF Bad
  <1>5. CASE m = 0
    <2>1. ASSUME NEW path, IsFresh(fs, path), 0 + Len(path) >= Depth(fs) PROVE FALSE
      <3>1. Len(path) - 1 <= Cardinality(TransportNames(fs)) /\ Len(path) \in Nat
        BY <2>1, FreshIsShort
      <3>2. Cardinality(TransportNames(fs)) \in Nat
        BY NamesAreFinite, FS_CardinalityType
      <3> QED BY <2>1, <3>1, <3>2 DEF Depth
    <2> QED BY <1>4, <1>5, <2>1 DEF Settled
  <1>6. CASE m # 0
    <2>1. m - 1 \in Nat /\ m - 1 < m /\ (m - 1) + 1 = m
      BY <1>4, <1>6
    <2>2. Settled(fs, m - 1)
      BY <1>3, <2>1 DEF Bad
    <2>3. ASSUME NEW path, IsFresh(fs, path), m + Len(path) >= Depth(fs)
          PROVE  At(fs, m)[path] = At(fs, m + 1)[path]
      <3>1. path \in Seq(Name)
        BY <2>3 DEF IsFresh
      <3>2. At(fs, m)[path] = ResolveLast(fs, At(fs, m - 1), path)
        <4>1. At(fs, (m - 1) + 1) = ResolveStep(fs, At(fs, m - 1))
          BY <2>1, AtNext
        <4> QED BY <2>1, <3>1, <4>1 DEF ResolveStep
      <3>3. At(fs, m + 1)[path] = ResolveLast(fs, At(fs, m), path)
        <4>1. At(fs, m + 1) = ResolveStep(fs, At(fs, m))
          BY <1>4, AtNext
        <4> QED BY <3>1, <4>1 DEF ResolveStep
      <3>4. ResolveLast(fs, At(fs, m - 1), path) = ResolveLast(fs, At(fs, (m - 1) + 1), path)
        <4>1. ((m - 1) + 1) + Len(path) >= Depth(fs)
          BY <2>1, <2>3
        <4> QED BY <2>1, <2>2, <2>3, <4>1, LastIsSettled
      <3> QED BY <2>1, <3>2, <3>3, <3>4
    <2> QED BY <1>4, <2>3 DEF Settled
  <1> QED BY <1>5, <1>6

(* Resolution ends by itself: no configuration has a transport whose       *)
(* resolution is cut short, for what a name resolves to at the depth where *)
(* resolve_transport_at ends it is what it resolves to at any other.  (A   *)
(* name met again is refused as a cycle before its table is read.)         *)
THEOREM ResolutionEnds ==
  ASSUME NEW fs, GoodFiles(fs), NEW name \in Name, NEW n \in Nat, n >= Depth(fs)
  PROVE  At(fs, n)[<<name>>] = ResolveTransport(fs, name)
  <1> DEFINE Bad == {m \in Nat : /\ m >= Depth(fs)
                                 /\ At(fs, m)[<<name>>] # At(fs, Depth(fs))[<<name>>]}
  <1>1. SUFFICES ASSUME Bad # {} PROVE FALSE
    BY ResolvedAtDepth
  <1>2. Bad \in SUBSET Nat
    OBVIOUS
  <1> HIDE DEF Bad
  <1>3. PICK m \in Bad : \A y \in Bad : ~ (y < m)
    <2>1. PICK m \in Bad : \A y \in Bad : ~ (<<y, m>> \in OpToRel(<, Nat))
      BY <1>1, <1>2, NatLessThanWellFounded, WFMin
    <2> QED BY <1>2, <2>1 DEF OpToRel
  <1>4. m \in Nat /\ m >= Depth(fs) /\ At(fs, m)[<<name>>] # At(fs, Depth(fs))[<<name>>]
    BY <1>3 DEF Bad
  <1>5. m # Depth(fs) /\ Depth(fs) \in Nat
    BY <1>4, DepthIsANumber
  <1>6. m - 1 \in Nat /\ m - 1 >= Depth(fs) /\ m - 1 < m /\ (m - 1) + 1 = m
    BY <1>4, <1>5
  <1>7. At(fs, m - 1)[<<name>>] = At(fs, Depth(fs))[<<name>>]
    BY <1>3, <1>6 DEF Bad
  <1>8. IsFresh(fs, <<name>>) /\ Len(<<name>>) = 1
    BY DEF IsFresh
  <1>9. (m - 1) + Len(<<name>>) >= Depth(fs)
    BY <1>5, <1>6, <1>8
  <1>10. At(fs, m - 1)[<<name>>] = At(fs, (m - 1) + 1)[<<name>>]
    BY <1>6, <1>8, <1>9, EveryLevelIsSettled DEF Settled
  <1> QED BY <1>4, <1>6, <1>7, <1>10

-----------------------------------------------------------------------------
(* What answers for a transport.                                           *)

(* What opening the pools of r leaves.                                     *)
Opening(r) == LET f[n \in Nat] == IF n = 0 THEN {r} ELSE Opened(f[n - 1]) IN f

LEMMA OpeningGoes ==
  ASSUME NEW r
  PROVE  /\ Opening(r)[0] = {r}
         /\ \A n \in Nat : Opening(r)[n + 1] = Opened(Opening(r)[n])
  <1> DEFINE p == <<"open", r>>
             Is(f) == f = [n \in Nat |-> IF n = 0 THEN {r} ELSE Opened(f[n - 1])]
  <1>1. \A y : Step(p, y) = Opened(y)
    BY DEF Step
  <1> HIDE DEF p
  <1>2. PICK g : IsIteration(p, {r}, g)
    BY IterationExists
  <1>3. Is(g)
    BY <1>1, <1>2 DEF IsIteration
  <1>4. Opening(r) = CHOOSE f : Is(f)
    BY DEF Opening
  <1> DEFINE it == Opening(r)
  <1>5. Is(it)
    <2> HIDE DEF Is
    <2> QED BY <1>3, <1>4
  <1> HIDE DEF it
  <1>6. it[0] = {r}
    BY <1>5
  <1>7. ASSUME NEW n \in Nat PROVE it[n + 1] = Opened(it[n])
    <2>1. n + 1 \in Nat /\ n + 1 # 0 /\ (n + 1) - 1 = n
      OBVIOUS
    <2> HIDE DEF p
    <2>2. it[n + 1] = IF n + 1 = 0 THEN {r} ELSE Opened(it[(n + 1) - 1])
      BY <1>5, <2>1
    <2> QED BY <2>1, <2>2
  <1> QED BY <1>6, <1>7 DEF it

(* Which part of r an endpoint is sent to.                                 *)
Choosing(r, e) == LET f[n \in Nat] == IF n = 0 THEN r ELSE TakeStep(e, f[n - 1]) IN f

LEMMA ChoosingGoes ==
  ASSUME NEW r, NEW e
  PROVE  /\ Choosing(r, e)[0] = r
         /\ \A n \in Nat : Choosing(r, e)[n + 1] = TakeStep(e, Choosing(r, e)[n])
  <1> DEFINE p == <<"take", e>>
             Is(f) == f = [n \in Nat |-> IF n = 0 THEN r ELSE TakeStep(e, f[n - 1])]
  <1>1. \A y : Step(p, y) = TakeStep(e, y)
    BY DEF Step
  <1> HIDE DEF p
  <1>2. PICK g : IsIteration(p, r, g)
    BY IterationExists
  <1>3. Is(g)
    BY <1>1, <1>2 DEF IsIteration
  <1>4. Choosing(r, e) = CHOOSE f : Is(f)
    BY DEF Choosing
  <1> DEFINE it == Choosing(r, e)
  <1>5. Is(it)
    <2> HIDE DEF Is
    <2> QED BY <1>3, <1>4
  <1> HIDE DEF it
  <1>6. it[0] = r
    BY <1>5
  <1>7. ASSUME NEW n \in Nat PROVE it[n + 1] = TakeStep(e, it[n])
    <2>1. n + 1 \in Nat /\ n + 1 # 0 /\ (n + 1) - 1 = n
      OBVIOUS
    <2> HIDE DEF p
    <2>2. it[n + 1] = IF n + 1 = 0 THEN r ELSE TakeStep(e, it[(n + 1) - 1])
      BY <1>5, <2>1
    <2> QED BY <2>1, <2>2
  <1> QED BY <1>6, <1>7 DEF it

(* What is left of r after its pools are opened m times, and which of it   *)
(* an endpoint is sent to.                                                 *)
Behind(r, m) == Opening(r)[m]
Chosen(r, e, m) == Choosing(r, e)[m]

(* The leaves are what is behind a transport, opened Depth times.          *)
LEMMA LeavesAreBehind ==
  ASSUME NEW fs, NEW r
  PROVE  Leaves(fs, r) = Behind(r, Depth(fs))
  BY DEF Leaves, Behind, Opening

(* The answering transport is the choice made Depth times.                 *)
LEMMA TakenIsChosen ==
  ASSUME NEW fs, NEW r, NEW e
  PROVE  Taken(fs, r, e) = Chosen(r, e, Depth(fs))
  BY DEF Taken, Chosen, Choosing, TakeStep

(* One more opening opens what is behind.                                  *)
LEMMA BehindNext ==
  ASSUME NEW r
  PROVE  Behind(r, 0) = {r} /\ \A m \in Nat : Behind(r, m + 1) = Opened(Behind(r, m))
  BY OpeningGoes DEF Behind

(* One more choice chooses from what was chosen.                           *)
LEMMA ChosenNext ==
  ASSUME NEW r, NEW e
  PROVE  /\ Chosen(r, e, 0) = r
         /\ \A m \in Nat : Chosen(r, e, m + 1) =
              IF Chosen(r, e, m).kind = "pool" THEN Pick1(Chosen(r, e, m), e)
              ELSE Chosen(r, e, m)
  BY ChoosingGoes DEF Chosen, TakeStep

(* What q may not take back of what r promised.                            *)
Keeps(r, q) ==
  /\ r.fidelity = "full" => q.fidelity = "full"
  /\ r.fidelity = "open_only" => q.fidelity # "unknown"
  /\ r.kind # "direct" => q.kind # "direct"

(* A pool promises no more than each of its members.                       *)
LEMMA MembersKeep ==
  ASSUME NEW r, NEW S, IsPoolOf(r, S), NEW k \in DOMAIN r.parts,
         r.parts[k].fidelity \in Fidelities
  PROVE  Keeps(r, r.parts[k])
  <1> DEFINE fs == {r.parts[j].fidelity : j \in DOMAIN r.parts}
  <1>1. r.parts[k].fidelity \in fs
    OBVIOUS
  <1>2. r.fidelity = Weakest(fs)
    BY DEF IsPoolOf, PoolFidelity
  <1> HIDE DEF fs
  <1>3. /\ r.fidelity = "full" => "unknown" \notin fs /\ "open_only" \notin fs
        /\ r.fidelity = "open_only" => "unknown" \notin fs
    BY <1>2 DEF Weakest
  <1> QED BY <1>1, <1>3 DEF Keeps, IsPoolOf, Fidelities

(* Keeping a promise is transitive.                                        *)
LEMMA KeepsOn ==
  ASSUME NEW r, NEW q, NEW s, Keeps(r, q), Keeps(q, s), q.fidelity \in Fidelities,
         s.fidelity \in Fidelities
  PROVE  Keeps(r, s)
  BY DEF Keeps, Fidelities

(* A leaf's fidelity is one of the three.                                  *)
LEMMA LeafFidelity ==
  ASSUME NEW q, IsLeaf(q)
  PROVE  q.fidelity \in Fidelities
  <1>1. CASE q.kind = "chain" /\ HasParts(q) /\ \A k \in DOMAIN q.parts : IsLink(q.parts[k])
             /\ q.fidelity = q.parts[Len(q.parts)].fidelity
    <2>1. Len(q.parts) \in DOMAIN q.parts
      BY <1>1 DEF HasParts
    <2> QED BY <1>1, <2>1 DEF IsLink
  <1> QED BY <1>1 DEF IsLeaf, IsLink, Fidelities

(* So is the weakest of any.                                               *)
LEMMA PoolFidelityIsOne ==
  ASSUME NEW r, NEW S, IsPoolOf(r, S)
  PROVE  r.fidelity \in Fidelities
  BY DEF IsPoolOf, PoolFidelity, Weakest, Fidelities

(* So is that of whatever is usable.                                       *)
LEMMA UsableFidelity ==
  ASSUME NEW fs, GoodFiles(fs), NEW n \in Nat, NEW q \in Usable(fs, n)
  PROVE  q.fidelity \in Fidelities
  <1>1. n # 0
    BY NothingAtZero
  <1> QED BY <1>1, UsableIsALeafOrAPool, LeafFidelity, PoolFidelityIsOne

(* After each opening: something is left, of what names resolve to so many *)
(* levels down, all of it keeps the promise, and the choice is among it.   *)
OpenedOnto(fs, n, r, m) ==
  /\ Behind(r, m) # {}
  /\ \A q \in Behind(r, m) : (IsLeaf(q) \/ q \in Usable(fs, n - m)) /\ Keeps(r, q)
  /\ \A e \in DOMAIN Hash : Chosen(r, e, m) \in Behind(r, m)

(* An opening keeps the promise and goes one level down.                   *)
LEMMA OpeningKeeps ==
  ASSUME NEW fs, GoodFiles(fs), NEW n \in Nat, NEW r, NEW m \in Nat, m < n,
         r.fidelity \in Fidelities, OpenedOnto(fs, n, r, m)
  PROVE  OpenedOnto(fs, n, r, m + 1)
  <1> DEFINE here == Behind(r, m)
             next == Behind(r, m + 1)
  <1>1. next = UNION {IF q.kind = "pool" THEN ToSet(q.parts) ELSE {q} : q \in here}
    BY BehindNext DEF Opened
  <1>2. n - m \in Nat /\ n - m # 0 /\ (n - m) - 1 = n - (m + 1)
    OBVIOUS
  <1>3. ASSUME NEW q \in here, q.kind = "pool" PROVE IsPoolOf(q, Usable(fs, n - (m + 1)))
    <2>1. ~IsLeaf(q)
      BY <1>3 DEF IsLeaf, IsLink
    <2>2. q \in Usable(fs, n - m)
      BY <2>1 DEF OpenedOnto
    <2>3. IsLeaf(q) \/ IsPoolOf(q, Usable(fs, (n - m) - 1))
      BY <1>2, <2>2, UsableIsALeafOrAPool
    <2> QED BY <1>2, <2>1, <2>3
  <1>4. ASSUME NEW q \in here, q.kind # "pool" PROVE IsLeaf(q)
    <2>1. CASE q \in Usable(fs, n - m)
      <3>1. IsLeaf(q) \/ IsPoolOf(q, Usable(fs, (n - m) - 1))
        BY <1>2, <2>1, UsableIsALeafOrAPool
      <3> QED BY <1>4, <3>1 DEF IsPoolOf
    <2> QED BY <2>1 DEF OpenedOnto
  <1>5. ASSUME NEW q \in here, q.kind = "pool", NEW k \in DOMAIN q.parts
        PROVE  q.parts[k] \in Usable(fs, n - (m + 1)) /\ Keeps(r, q.parts[k])
    <2>1. q.parts[k] \in Usable(fs, n - (m + 1))
      BY <1>3, <1>5 DEF IsPoolOf
    <2>2. n - (m + 1) \in Nat
      OBVIOUS
    <2>3. q.parts[k].fidelity \in Fidelities
      BY <2>1, <2>2, UsableFidelity
    <2>4. Keeps(q, q.parts[k]) /\ q.fidelity \in Fidelities
      BY <1>3, <1>5, <2>3, MembersKeep, PoolFidelityIsOne
    <2>5. Keeps(r, q)
      BY DEF OpenedOnto
    <2> QED BY <2>1, <2>3, <2>4, <2>5, KeepsOn
  <1>6. ASSUME NEW s \in next
        PROVE  (IsLeaf(s) \/ s \in Usable(fs, n - (m + 1))) /\ Keeps(r, s)
    <2>1. PICK q \in here : s \in (IF q.kind = "pool" THEN ToSet(q.parts) ELSE {q})
      BY <1>1, <1>6
    <2> HIDE DEF here, next
    <2>2. CASE q.kind = "pool"
      <3>1. PICK k \in DOMAIN q.parts : s = q.parts[k]
        BY <2>1, <2>2 DEF ToSet
      <3> QED BY <1>5, <2>2, <3>1
    <2>3. CASE q.kind # "pool"
      <3>1. s = q
        BY <2>1, <2>3
      <3>2. IsLeaf(s)
        BY <1>4, <2>3, <3>1
      <3> QED BY <3>1, <3>2 DEF OpenedOnto, here
    <2> QED BY <2>2, <2>3
  <1>7. ASSUME NEW q \in here, q.kind = "pool", NEW k \in DOMAIN q.parts PROVE q.parts[k] \in next
    <2>1. q.parts[k] \in ToSet(q.parts)
      BY <1>7 DEF ToSet
    <2> HIDE DEF here, next
    <2> QED BY <1>1, <1>7, <2>1
  <1>8. ASSUME NEW q \in here, q.kind # "pool" PROVE q \in next
    <2> HIDE DEF here, next
    <2> QED BY <1>1, <1>8
  <1>9. next # {}
    <2>1. PICK q \in here : TRUE
      BY DEF OpenedOnto
    <2>2. CASE q.kind = "pool"
      <3>1. 1 \in DOMAIN q.parts
        <4>1. PICK j \in Nat \ {0} : DOMAIN q.parts = 1 .. j
          BY <1>3, <2>2 DEF IsPoolOf, HasParts
        <4>2. 1 \in 1 .. j
          OBVIOUS
        <4> QED BY <4>1, <4>2
      <3> HIDE DEF here, next
      <3> QED BY <1>7, <2>2, <3>1
    <2> HIDE DEF here, next
    <2> QED BY <1>8, <2>2
  <1>10. ASSUME NEW e \in DOMAIN Hash PROVE Chosen(r, e, m + 1) \in next
    <2> DEFINE q == Chosen(r, e, m)
    <2>1. q \in here
      BY DEF OpenedOnto
    <2>2. Chosen(r, e, m + 1) = IF q.kind = "pool" THEN Pick1(q, e) ELSE q
      BY ChosenNext
    <2> HIDE DEF here, next, q
    <2>3. CASE q.kind = "pool"
      <3>1. PICK j \in Nat \ {0} : Len(q.parts) = j /\ DOMAIN q.parts = 1 .. j
        BY <1>3, <2>1, <2>3 DEF IsPoolOf, HasParts
      <3>2. Hash[e] \in Nat
        BY TransportsAssumption
      <3> DEFINE k == (Hash[e] % Len(q.parts)) + 1
      <3>3. k \in DOMAIN q.parts
        <4> DEFINE h == Hash[e]
        <4>1. h \in Nat
          BY <3>2
        <4> HIDE DEF h
        <4>2. (h % j) + 1 \in 1 .. j
          BY <4>1
        <4> QED BY <3>1, <4>2 DEF h
      <3>4. Pick1(q, e) = q.parts[k]
        BY DEF Pick1
      <3> HIDE DEF k
      <3> QED BY <1>7, <2>1, <2>2, <2>3, <3>3, <3>4
    <2> QED BY <1>8, <2>1, <2>2, <2>3
  <1> QED BY <1>6, <1>9, <1>10 DEF OpenedOnto

(* Opened Depth times, no pool is left.                                    *)
LEMMA OpenedToTheEnd ==
  ASSUME NEW fs, GoodFiles(fs), NEW n \in Nat, NEW r \in Usable(fs, n)
  PROVE  OpenedOnto(fs, n, r, n)
  <1>1. r.fidelity \in Fidelities
    BY UsableFidelity
  <1>2. OpenedOnto(fs, n, r, 0)
    <2>1. Behind(r, 0) = {r} /\ \A e \in DOMAIN Hash : Chosen(r, e, 0) = r
      BY BehindNext, ChosenNext
    <2>2. Keeps(r, r) /\ n - 0 = n
      BY DEF Keeps
    <2> QED BY <2>1, <2>2 DEF OpenedOnto
  <1> DEFINE Bad == {m \in 0 .. n : ~OpenedOnto(fs, n, r, m)}
  <1>3. SUFFICES ASSUME Bad # {} PROVE FALSE
    OBVIOUS
  <1>4. Bad \in SUBSET Nat
    OBVIOUS
  <1> HIDE DEF Bad
  <1>5. PICK m \in Bad : \A y \in Bad : ~ (y < m)
    <2>1. PICK m \in Bad : \A y \in Bad : ~ (<<y, m>> \in OpToRel(<, Nat))
      BY <1>3, <1>4, NatLessThanWellFounded, WFMin
    <2> QED BY <1>4, <2>1 DEF OpToRel
  <1>6. m \in 0 .. n /\ ~OpenedOnto(fs, n, r, m)
    BY <1>5 DEF Bad
  <1>7. CASE m = 0
    BY <1>2, <1>6, <1>7
  <1>8. CASE m # 0
    <2>1. m - 1 \in 0 .. n /\ m - 1 \in Nat /\ m - 1 < n /\ m - 1 < m /\ (m - 1) + 1 = m
      BY <1>6, <1>8
    <2>2. OpenedOnto(fs, n, r, m - 1)
      BY <1>5, <2>1 DEF Bad
    <2>3. OpenedOnto(fs, n, r, (m - 1) + 1)
      BY <1>1, <2>1, <2>2, OpeningKeeps
    <2> QED BY <1>6, <2>1, <2>3
  <1> QED BY <1>7, <1>8

-----------------------------------------------------------------------------
(* TransportIsHonest.                                                      *)

Honest(fs, r) ==
  LET leaves == Leaves(fs, r)
      claims == {Decider(q).fidelity : q \in leaves}
  IN  /\ r.fidelity = "full" => claims = {"full"}
      /\ r.fidelity = "open_only" => "unknown" \notin claims
      /\ \A q \in leaves :
           /\ Path(q) = << >> => r.kind = "direct"
           /\ \A hop \in ToSet(Path(q)) : hop.kind \in {"socks5", "http"}
           /\ Decider(q).kind = "http" => Decider(q).fidelity # "full"
      /\ \A e \in DOMAIN Hash : Taken(fs, r, e) \in leaves

(* A leaf is decided by its exit, which has the fidelity of the leaf.      *)
LEMMA LeafIsDecided ==
  ASSUME NEW q, IsLeaf(q)
  PROVE  /\ Decider(q).fidelity = q.fidelity
         /\ Path(q) = << >> => q.kind = "direct"
         /\ \A hop \in ToSet(Path(q)) : hop.kind \in {"socks5", "http"}
         /\ Decider(q).kind = "http" => Decider(q).fidelity # "full"
  <1>1. CASE IsLink(q)
    <2>1. Path(q) = <<q>>
      BY <1>1 DEF IsLink, Path
    <2>2. Decider(q) = q
      <3>1. <<q>> # << >> /\ <<q>>[Len(<<q>>)] = q
        OBVIOUS
      <3> QED BY <2>1, <3>1 DEF Decider
    <2>3. \A hop \in ToSet(Path(q)) : hop = q
      BY <2>1 DEF ToSet
    <2>4. Path(q) # << >>
      BY <2>1
    <2> QED BY <1>1, <2>2, <2>3, <2>4 DEF IsLink
  <1>2. CASE q.kind = "direct" /\ q.fidelity = "full"
    <2>1. Path(q) = << >>
      BY <1>2 DEF Path
    <2>2. Decider(q) = q
      BY <2>1 DEF Decider
    <2>3. ToSet(Path(q)) = {}
      BY <2>1 DEF ToSet
    <2> QED BY <1>2, <2>2, <2>3
  <1>3. CASE /\ q.kind = "chain" /\ HasParts(q)
             /\ \A k \in DOMAIN q.parts : IsLink(q.parts[k])
             /\ q.fidelity = q.parts[Len(q.parts)].fidelity
    <2>1. Path(q) = q.parts
      BY <1>3 DEF Path
    <2>2. PICK m \in Nat \ {0} : Len(q.parts) = m /\ DOMAIN q.parts = 1 .. m
      BY <1>3 DEF HasParts
    <2>3. m \in DOMAIN q.parts /\ q.parts # << >>
      <3>1. m \in 1 .. m /\ DOMAIN << >> = {}
        OBVIOUS
      <3> QED BY <2>2, <3>1
    <2>4. Decider(q) = q.parts[m]
      BY <2>1, <2>2, <2>3 DEF Decider
    <2>5. IsLink(q.parts[m])
      BY <1>3, <2>3
    <2>6. \A hop \in ToSet(Path(q)) : IsLink(hop)
      BY <1>3, <2>1 DEF ToSet
    <2> QED BY <1>3, <2>1, <2>2, <2>3, <2>4, <2>5, <2>6 DEF IsLink
  <1> QED BY <1>1, <1>2, <1>3 DEF IsLeaf

(* What a name resolves to is honest.                                      *)
LEMMA ResolvedIsHonest ==
  ASSUME NEW fs, GoodFiles(fs), NEW name \in Name, NEW r,
         r = ResolveTransport(fs, name), r.ok
  PROVE  Honest(fs, r)
  <1> DEFINE n == Depth(fs)
             leaves == Leaves(fs, r)
  <1>1. n \in Nat
    BY DepthIsANumber
  <1>2. r \in Usable(fs, n)
    <2>1. <<name>> \in Seq(Name)
      OBVIOUS
    <2>2. r = At(fs, n)[<<name>>]
      BY ResolvedAtDepth
    <2> HIDE DEF n
    <2> QED BY <2>1, <2>2 DEF Usable
  <1>3. OpenedOnto(fs, n, r, n)
    <2> HIDE DEF n
    <2> QED BY <1>1, <1>2, OpenedToTheEnd
  <1>4. leaves = Behind(r, n)
    BY LeavesAreBehind
  <1>5. \A e \in DOMAIN Hash : Taken(fs, r, e) \in leaves
    <2>1. TAKE e \in DOMAIN Hash
    <2>2. Taken(fs, r, e) = Chosen(r, e, n)
      BY TakenIsChosen
    <2> HIDE DEF n, leaves
    <2> QED BY <1>3, <1>4, <2>2 DEF OpenedOnto
  <1>6. leaves # {}
    BY <1>3, <1>4 DEF OpenedOnto
  <1>7. ASSUME NEW q \in leaves PROVE IsLeaf(q) /\ Keeps(r, q)
    <2>1. n - n = 0
      BY <1>1
    <2> HIDE DEF n, leaves
    <2>2. q \notin Usable(fs, n - n)
      BY <2>1, NothingAtZero
    <2> QED BY <1>3, <1>4, <2>2 DEF OpenedOnto
  <1> HIDE DEF n, leaves
  <1>8. ASSUME NEW q \in leaves
        PROVE  /\ Decider(q).fidelity = q.fidelity
               /\ Path(q) = << >> => r.kind = "direct"
               /\ \A hop \in ToSet(Path(q)) : hop.kind \in {"socks5", "http"}
               /\ Decider(q).kind = "http" => Decider(q).fidelity # "full"
    BY <1>7, LeafIsDecided DEF Keeps
  <1> DEFINE claims == {Decider(q).fidelity : q \in leaves}
  <1>9. r.fidelity = "full" => claims = {"full"}
    <2>1. SUFFICES ASSUME r.fidelity = "full" PROVE claims = {"full"}
      OBVIOUS
    <2>2. \A q \in leaves : Decider(q).fidelity = "full"
      BY <1>7, <1>8, <2>1 DEF Keeps
    <2> QED BY <1>6, <2>2
  <1>10. r.fidelity = "open_only" => "unknown" \notin claims
    <2>1. SUFFICES ASSUME r.fidelity = "open_only" PROVE "unknown" \notin claims
      OBVIOUS
    <2>2. \A q \in leaves : Decider(q).fidelity # "unknown"
      BY <1>7, <1>8, <2>1 DEF Keeps
    <2> QED BY <2>2
  <1> HIDE DEF claims
  <1> QED BY <1>5, <1>8, <1>9, <1>10 DEF Honest, leaves, claims

-----------------------------------------------------------------------------
(* The inductive invariant.                                                *)

RequestStands ==
  /\ {"cli", "scan", "test"} \subseteq DOMAIN request
  /\ NamesIn(request.cli, "transport") /\ ListsIn(request.cli) /\ IsOption(request.scan)
  /\ {"services_file", "use_etc_services"} \cap DOMAIN request.cli = {}
PathsStand ==
  stage = "load" =>
    \A path \in request.paths.explicit \union {request.paths.user, request.paths.project} :
      IsDocument(path.document)

BeforeTransport == {"load", "validate", "scan", "transport", "refused"}
TransportIsResolved ==
  stage \notin BeforeTransport =>
    /\ "transport" \in DOMAIN plan
    /\ plan.transport.ok
    /\ \E name \in Name : plan.transport = ResolveTransport(files, name)

IInv == RequestStands /\ PathsStand /\ GoodFiles(files) /\ TransportIsResolved

(* The invariant holds of a command that has not begun.                    *)
LEMMA InvInit == Init => IInv
  <1> SUFFICES ASSUME Init PROVE IInv
    OBVIOUS
  <1>1. RequestStands /\ PathsStand
    BY PlanningAssumption DEF Init, RequestStands, PathsStand
  <1>2. GoodFiles(files)
    <2>1. DOMAIN files = 1 .. 0
      BY DEF Init
    <2> QED BY <2>1 DEF GoodFiles
  <1>3. TransportIsResolved
    BY DEF Init, TransportIsResolved, BeforeTransport
  <1> QED BY <1>1, <1>2, <1>3 DEF IInv

(* What is found has documents, and is a sequence.                         *)
LEMMA FoundIsGood ==
  ASSUME NEW p, IsDocument(p.document)
  PROVE  FoundAt(p) \in {<< >>, <<p.document>>}
  BY DEF FoundAt

(* What is discovered is a sequence of documents.                          *)
LEMMA DiscoveredIsGood ==
  ASSUME NEW paths,
         \A p \in paths.explicit \union {paths.user, paths.project} : IsDocument(p.document)
  PROVE  GoodFiles(Discover(paths))
  <1> DEFINE Documents == {p.document : p \in paths.explicit \union {paths.user, paths.project}}
  <1>1. \A p \in paths.explicit \union {paths.user, paths.project} :
          FoundAt(p) \in Seq(Documents)
    <2>1. TAKE p \in paths.explicit \union {paths.user, paths.project}
    <2>2. p.document \in Documents
      OBVIOUS
    <2> HIDE DEF Documents
    <2> QED BY <2>2 DEF FoundAt
  <1>2. \A d \in Documents : IsDocument(d)
    OBVIOUS
  <1> HIDE DEF Documents
  <1>3. Discover(paths) \in Seq(Documents)
    <2>1. CASE paths.explicit # {}
      <3>1. The(paths.explicit) \in paths.explicit
        BY <2>1, TheMember
      <3> QED BY <1>1, <2>1, <3>1 DEF Discover
    <2>2. CASE paths.explicit = {}
      <3>1. FoundAt(paths.user) \in Seq(Documents) /\ FoundAt(paths.project) \in Seq(Documents)
        BY <1>1
      <3>2. FoundAt(paths.user) \o FoundAt(paths.project) \in Seq(Documents)
        BY <3>1
      <3> QED BY <2>2, <3>2 DEF Discover
    <2> QED BY <2>1, <2>2
  <1> DEFINE found == Discover(paths)
  <1>4. Len(found) \in Nat /\ DOMAIN found = 1 .. Len(found)
        /\ \A k \in DOMAIN found : found[k] \in Documents
    BY <1>3
  <1> HIDE DEF found
  <1>5. GoodFiles(found)
    BY <1>2, <1>4 DEF GoodFiles
  <1> QED BY <1>5 DEF found

(* What is added to a plan leaves what it has.                             *)
LEMMA AddingKeeps ==
  ASSUME NEW f, NEW g, NEW x \in DOMAIN g, x \notin DOMAIN f
  PROVE  x \in DOMAIN With(g, f) /\ With(g, f)[x] = g[x]
  BY DEF With

(* What is added is there.                                                 *)
LEMMA AddedFirst ==
  ASSUME NEW f, NEW g, NEW x \in DOMAIN f
  PROVE  x \in DOMAIN With(g, f) /\ With(g, f)[x] = f[x]
  BY DEF With

(* A stage that resolves something else leaves the transport.              *)
LEMMA StageKeeps ==
  ASSUME IInv, NEW from, NEW to, NEW refusal, NEW resolved, NEW origins,
         Stage(from, to, refusal, resolved, origins), UNCHANGED files,
         from # "load", to # "load",
         from \in BeforeTransport => to \in BeforeTransport,
         "transport" \notin DOMAIN resolved
  PROVE  IInv'
  <1>1. RequestStands'
    BY DEF IInv, Stage, RequestStands
  <1>2. stage = from /\ stage' \in {"refused", to}
    BY DEF Stage
  <1>3. PathsStand'
    BY <1>2 DEF PathsStand
  <1>4. GoodFiles(files)'
    BY DEF IInv
  <1>5. TransportIsResolved'
    <2>1. SUFFICES ASSUME stage' \notin BeforeTransport
                   PROVE  /\ "transport" \in DOMAIN plan'
                          /\ plan'.transport.ok
                          /\ \E name \in Name : plan'.transport = ResolveTransport(files, name)
      BY DEF TransportIsResolved
    <2>2. stage \notin BeforeTransport /\ plan' = With(plan, resolved)
      BY <1>2, <2>1 DEF Stage, BeforeTransport
    <2>3. /\ "transport" \in DOMAIN plan
          /\ plan.transport.ok
          /\ \E name \in Name : plan.transport = ResolveTransport(files, name)
      BY <2>2 DEF IInv, TransportIsResolved
    <2>4. "transport" \in DOMAIN plan' /\ plan'["transport"] = plan["transport"]
      BY <2>2, <2>3, AddingKeeps
    <2> QED BY <2>3, <2>4
  <1> QED BY <1>1, <1>3, <1>4, <1>5 DEF IInv

(* Loading keeps the invariant.                                            *)
LEMMA LoadKeeps == ASSUME IInv, Load PROVE IInv'
  <1>1. RequestStands'
    BY DEF IInv, Load, RequestStands
  <1>2. stage' \in {"refused", "validate"}
    BY DEF Load
  <1>3. PathsStand' /\ TransportIsResolved'
    BY <1>2 DEF PathsStand, TransportIsResolved, BeforeTransport
  <1>4. GoodFiles(files)'
    <2>1. CASE UNCHANGED files
      BY <2>1 DEF IInv
    <2>2. CASE files' = Discover(request.paths)
      <3>1. GoodFiles(Discover(request.paths))
        BY DiscoveredIsGood DEF IInv, PathsStand, Load
      <3> QED BY <2>2, <3>1
    <2> QED BY <2>1, <2>2 DEF Load
  <1> QED BY <1>1, <1>3, <1>4 DEF IInv

(* The stage that resolves the transport establishes what is known of it.  *)
LEMMA ChooseTransportKeeps == ASSUME IInv, ChooseTransport PROVE IInv'
  <1> DEFINE name == TransportName
             r == ResolveTransport(files, name.value)
             refusal == IF r.ok THEN {} ELSE {r.problem}
             resolved == [transport |-> r]
             origins == [transport |-> name]
  <1>1. Stage("transport", "profile", refusal, resolved, origins) /\ UNCHANGED files
    BY DEF ChooseTransport
  <1>2. name.value \in Name
    <2>1. NamesIn(cli, "transport")
      BY DEF IInv, RequestStands, cli
    <2>2. DefaultTransport \in Name
      BY PlanningAssumption
    <2>3. GoodFiles(files)
      BY DEF IInv
    <2> QED BY <2>1, <2>2, <2>3, PickedIsAName DEF TransportName
  <1> HIDE DEF name
  <1>3. RequestStands'
    <2> HIDE DEF r, refusal, resolved, origins
    <2> QED BY <1>1 DEF IInv, Stage, RequestStands
  <1>4. stage' \in {"refused", "profile"}
    <2> HIDE DEF r, refusal, resolved, origins
    <2> QED BY <1>1 DEF Stage
  <1>5. PathsStand'
    BY <1>4 DEF PathsStand
  <1>6. GoodFiles(files)'
    BY <1>1 DEF IInv
  <1>7. TransportIsResolved'
    <2>1. CASE stage' = "refused"
      BY <2>1 DEF TransportIsResolved, BeforeTransport
    <2>2. CASE stage' = "profile"
      <3>1. refusal = {} /\ plan' = With(plan, resolved)
        <4> HIDE DEF r, refusal, resolved, origins
        <4> QED BY <1>1, <2>2 DEF Stage
      <3>2. r.ok
        <4> HIDE DEF r, resolved, origins
        <4> QED BY <3>1
      <3>3. "transport" \in DOMAIN resolved /\ resolved["transport"] = r
        <4> HIDE DEF r
        <4> QED OBVIOUS
      <3>4. "transport" \in DOMAIN plan' /\ plan'["transport"] = r
        <4> HIDE DEF r, resolved, origins
        <4> QED BY <3>1, <3>3, AddedFirst
      <3>5. r = ResolveTransport(files', name.value)
        BY <1>1
      <3> HIDE DEF r, refusal, resolved, origins
      <3> QED BY <1>2, <3>2, <3>4, <3>5 DEF TransportIsResolved
    <2> QED BY <1>4, <2>1, <2>2
  <1> HIDE DEF r, refusal, resolved, origins
  <1> QED BY <1>3, <1>5, <1>6, <1>7 DEF IInv

(* Measuring touches neither the files nor the plan.                       *)
LEMMA MeasuringKeeps ==
  ASSUME IInv, Measure \/ Check \/ Conclude \/ CalibrateLevel
  PROVE  IInv'
  <1>1. UNCHANGED <<request, files, plan>>
    BY DEF Measure, Check, Conclude, CalibrateLevel
  <1>2. stage \notin BeforeTransport /\ stage # "load" /\ stage' # "load"
    BY DEF Measure, Measurable, Check, Conclude, CalibrateLevel, BeforeTransport
  <1>3. RequestStands' /\ GoodFiles(files)' /\ PathsStand'
    BY <1>1, <1>2 DEF IInv, RequestStands, PathsStand
  <1>4. TransportIsResolved'
    BY <1>1, <1>2 DEF IInv, TransportIsResolved
  <1> QED BY <1>3, <1>4 DEF IInv

(* Advice changes one transport's fidelity, never what it is made of.      *)
LEMMA FollowAdviceKeeps == ASSUME IInv, FollowAdvice PROVE IInv'
  <1> DEFINE a == The(report.advice)
             k == The(TransportDef(files, a.transport)).layer
             old == files[k]
             tables == old.transports
             t == tables[a.transport]
             newTables == [tables EXCEPT ![a.transport] = With(t, [fidelity |-> a.fidelity])]
             new == [old EXCEPT !.transports = newTables]
  <1>1. files' = [files EXCEPT ![k] = new] /\ stage' = "validate"
        /\ request' = [request EXCEPT !.test = FALSE]
    BY DEF FollowAdvice
  <1>2. RequestStands'
    <2>1. /\ DOMAIN request' = DOMAIN request
          /\ "cli" \in DOMAIN request => request'.cli = request.cli
          /\ "scan" \in DOMAIN request => request'.scan = request.scan
      BY <1>1
    <2> QED BY <2>1 DEF IInv, RequestStands
  <1>3. PathsStand' /\ TransportIsResolved'
    BY <1>1 DEF PathsStand, TransportIsResolved, BeforeTransport
  <1>4. GoodFiles(files')
    <2>1. GoodFiles(files)
      BY DEF IInv
    <2>2. ASSUME k \in DOMAIN files PROVE IsDocument(new)
      <3>1. IsDocument(old)
        BY <2>1, <2>2 DEF GoodFiles
      <3>2. DOMAIN new = DOMAIN old /\ new.transports = newTables
            /\ new.defaults = old.defaults /\ new.scans = old.scans
            /\ new.targets = old.targets /\ new.ports = old.ports
        <4> HIDE DEF newTables, old
        <4> QED BY <3>1 DEF IsDocument
      <3>3. DOMAIN newTables = DOMAIN tables
        OBVIOUS
      <3>4. ASSUME NEW n \in DOMAIN tables, NEW key \in {"hops", "members"},
                   NEW list \in Key(newTables[n], key)
            PROVE  list \in Seq(Name)
        <4>1. list \in Key(tables[n], key)
          <5>1. CASE n = a.transport
            <6>1. newTables[n] = With(t, [fidelity |-> a.fidelity])
              BY <5>1
            <6>2. key \in DOMAIN t /\ newTables[n][key] = t[key]
              <7> HIDE DEF t, newTables, a
              <7> QED BY <3>4, <6>1 DEF Key, With
            <6> HIDE DEF newTables, a
            <6> QED BY <3>4, <5>1, <6>2 DEF Key
          <5>2. CASE n # a.transport
            <6>1. newTables[n] = tables[n]
              BY <5>2
            <6> HIDE DEF newTables
            <6> QED BY <3>4, <6>1
          <5> QED BY <5>1, <5>2
        <4> QED BY <3>1, <4>1 DEF IsDocument
      <3> HIDE DEF new, newTables, old
      <3> QED BY <3>1, <3>2, <3>3, <3>4 DEF IsDocument
    <2>3. DOMAIN files' = DOMAIN files
          /\ \A j \in DOMAIN files : files'[j] = IF j = k THEN new ELSE files[j]
      <3> HIDE DEF new, k
      <3> QED BY <1>1
    <2> HIDE DEF new, k
    <2> QED BY <2>1, <2>2, <2>3 DEF GoodFiles
  <1> HIDE DEF new, k
  <1> QED BY <1>2, <1>3, <1>4 DEF IInv

(* Every other stage keeps it.                                             *)
LEMMA StageStep ==
  ASSUME IInv,
         \/ ValidateFiles \/ CheckScanExists \/ ChooseProfile \/ ResolveTiming \/ ResolveDns
         \/ ResolveTargets \/ ResolvePorts \/ ResolvePairs \/ ResolveNames
         \/ ResolveScalars \/ AddWarnings
  PROVE  IInv'
  <1>1. CASE ValidateFiles
    <2>1. PICK refusal : Stage("validate", "scan", refusal, << >>, << >>) /\ UNCHANGED files
      BY <1>1 DEF ValidateFiles
    <2> QED BY <2>1, StageKeeps DEF BeforeTransport
  <1>2. CASE CheckScanExists
    <2>1. PICK refusal : Stage("scan", "transport", refusal, << >>, << >>) /\ UNCHANGED files
      BY <1>2 DEF CheckScanExists
    <2> QED BY <2>1, StageKeeps DEF BeforeTransport
  <1>3. CASE ChooseProfile
    <2>1. PICK refusal, x, y, origins :
            Stage("profile", "timing", refusal, [profile |-> x, base |-> y], origins)
            /\ UNCHANGED files
      BY <1>3 DEF ChooseProfile
    <2>2. "transport" \notin DOMAIN [profile |-> x, base |-> y]
      OBVIOUS
    <2> QED BY <2>1, <2>2, StageKeeps DEF BeforeTransport
  <1>4. CASE ResolveTiming
    <2>1. PICK refusal, x, y, origins :
            Stage("timing", "dns", refusal, [timing |-> x, flags |-> y], origins)
            /\ UNCHANGED files
      BY <1>4 DEF ResolveTiming
    <2>2. "transport" \notin DOMAIN [timing |-> x, flags |-> y]
      OBVIOUS
    <2> QED BY <2>1, <2>2, StageKeeps DEF BeforeTransport
  <1>5. CASE ResolveDns
    <2>0. PICK to \in {"targets", "pairs"} : \E refusal, x, y, origins :
            Stage("dns", to, refusal, [requested |-> x, dns |-> y], origins)
            /\ UNCHANGED files
      BY <1>5 DEF ResolveDns
    <2>1. PICK refusal, x, y, origins :
            Stage("dns", to, refusal, [requested |-> x, dns |-> y], origins)
            /\ UNCHANGED files
      BY <2>0
    <2>2. "transport" \notin DOMAIN [requested |-> x, dns |-> y]
      OBVIOUS
    <2> QED BY <2>1, <2>2, StageKeeps DEF BeforeTransport
  <1>6. CASE ResolveTargets
    <2>1. PICK refusal, t, p, i, x, f :
            Stage("targets", "ports", refusal,
                  [targets |-> t, pairs |-> p, include |-> i, exclude |-> x,
                   resumed_from |-> f], << >>)
            /\ UNCHANGED files
      BY <1>6 DEF ResolveTargets
    <2>2. "transport" \notin DOMAIN [targets |-> t, pairs |-> p, include |-> i, exclude |-> x,
                                     resumed_from |-> f]
      OBVIOUS
    <2> QED BY <2>1, <2>2, StageKeeps DEF BeforeTransport
  <1>7. CASE ResolvePorts
    <2>1. PICK refusal, p, s :
            Stage("ports", "names", refusal, [ports |-> p, port_specs |-> s], << >>)
            /\ UNCHANGED files
      BY <1>7 DEF ResolvePorts
    <2>2. "transport" \notin DOMAIN [ports |-> p, port_specs |-> s]
      OBVIOUS
    <2> QED BY <2>1, <2>2, StageKeeps DEF BeforeTransport
  <1>8. CASE ResolvePairs
    <2>1. PICK refusal, t, p, q, f :
            Stage("pairs", "names", refusal,
                  [targets |-> t, ports |-> p, pairs |-> q, include |-> << >>,
                   exclude |-> << >>, resumed_from |-> f], << >>)
            /\ UNCHANGED files
      BY <1>8 DEF ResolvePairs
    <2>2. "transport" \notin DOMAIN [targets |-> t, ports |-> p, pairs |-> q, include |-> << >>,
                                     exclude |-> << >>, resumed_from |-> f]
      OBVIOUS
    <2> QED BY <2>1, <2>2, StageKeeps DEF BeforeTransport
  <1>9. CASE ResolveNames
    <2>1. PICK refusal, t, r :
            Stage("names", "scalars", refusal, [targets |-> t, resolved |-> r], << >>)
            /\ UNCHANGED files
      BY <1>9 DEF ResolveNames
    <2>2. "transport" \notin DOMAIN [targets |-> t, resolved |-> r]
      OBVIOUS
    <2> QED BY <2>1, <2>2, StageKeeps DEF BeforeTransport
  <1>10. CASE ResolveScalars
    <2>1. PICK refusal, s, v, origins :
            Stage("scalars", "warnings", refusal, [scalars |-> s, services |-> v], origins)
            /\ UNCHANGED files
      BY <1>10 DEF ResolveScalars
    <2>2. "transport" \notin DOMAIN [scalars |-> s, services |-> v]
      OBVIOUS
    <2> QED BY <2>1, <2>2, StageKeeps DEF BeforeTransport
  <1>11. CASE AddWarnings
    <2>0. PICK to \in {"measure", "planned"} : \E w :
            Stage("warnings", to, {}, [warnings |-> w], << >>) /\ UNCHANGED files
      BY <1>11 DEF AddWarnings
    <2>1. PICK w : Stage("warnings", to, {}, [warnings |-> w], << >>) /\ UNCHANGED files
      BY <2>0
    <2>2. "transport" \notin DOMAIN [warnings |-> w]
      OBVIOUS
    <2> QED BY <2>1, <2>2, StageKeeps DEF BeforeTransport
  <1> QED BY <1>1, <1>2, <1>3, <1>4, <1>5, <1>6, <1>7, <1>8, <1>9, <1>10, <1>11

(* Every step keeps the invariant.                                         *)
LEMMA InvNext == IInv /\ [Next]_vars => IInv'
  <1> SUFFICES ASSUME IInv, [Next]_vars PROVE IInv'
    OBVIOUS
  <1>1. CASE Load
    BY <1>1, LoadKeeps
  <1>2. CASE ChooseTransport
    BY <1>2, ChooseTransportKeeps
  <1>3. CASE \/ ValidateFiles \/ CheckScanExists \/ ChooseProfile \/ ResolveTiming \/ ResolveDns
             \/ ResolveTargets \/ ResolvePorts \/ ResolvePairs \/ ResolveNames
             \/ ResolveScalars \/ AddWarnings
    BY <1>3, StageStep
  <1>4. CASE Measure \/ Check \/ Conclude \/ CalibrateLevel
    BY <1>4, MeasuringKeeps
  <1>5. CASE FollowAdvice
    BY <1>5, FollowAdviceKeeps
  <1>6. CASE UNCHANGED vars
    BY <1>6 DEF vars, IInv, RequestStands, PathsStand, TransportIsResolved
  <1> QED BY <1>1, <1>2, <1>3, <1>4, <1>5, <1>6 DEF Next, Over

(* A transport promises no more than the proxy that will answer, for every *)
(* configuration: any number of files, any graph of chains and pools that  *)
(* resolution accepts, any hash of endpoints, and also after the operator  *)
(* has followed the advice of "transport test" (resolve_transport,         *)
(* PoolTransport::pick).                                                   *)
THEOREM TransportsAreHonest == Spec => []TransportIsHonest
  <1>1. IInv => TransportIsHonest
    <2> SUFFICES ASSUME IInv, Planned PROVE Honest(files, plan.transport)
      BY DEF TransportIsHonest, Honest
    <2>1. stage \notin BeforeTransport
      BY DEF Planned, BeforeTransport
    <2>2. GoodFiles(files)
      BY DEF IInv
    <2>3. plan.transport.ok /\ \E name \in Name : plan.transport = ResolveTransport(files, name)
      BY <2>1 DEF IInv, TransportIsResolved
    <2> QED BY <2>2, <2>3, ResolvedIsHonest
  <1> QED BY <1>1, InvInit, InvNext, PTL DEF Spec

-----------------------------------------------------------------------------
(* Following the advice of "transport test".                               *)

(* Files that differ, if at all, in the fidelity of transports.            *)
SameButFidelity(fs, gs) ==
  /\ DOMAIN gs = DOMAIN fs
  /\ \A k \in DOMAIN fs :
       /\ gs[k].version = fs[k].version /\ gs[k].defaults = fs[k].defaults
       /\ gs[k].profiles = fs[k].profiles /\ gs[k].scans = fs[k].scans
       /\ gs[k].targets = fs[k].targets /\ gs[k].ports = fs[k].ports
       /\ DOMAIN gs[k].transports = DOMAIN fs[k].transports
       /\ \A n \in DOMAIN fs[k].transports : \A key : key # "fidelity" =>
            Key(gs[k].transports[n], key) = Key(fs[k].transports[n], key)

(* The highest of the files that have something is one of them.            *)
LEMMA HighestHaving ==
  ASSUME NEW fs, GoodFiles(fs), NEW having \in SUBSET DOMAIN fs, having # {}
  PROVE  Max(having) \in having
  BY HighestIsIn DEF GoodFiles

(* No cascade reads a fidelity, so every one finds what it found.          *)
LEMMA SameScan ==
  ASSUME NEW fs, GoodFiles(fs), NEW gs, SameButFidelity(fs, gs), NEW names, NEW key
  PROVE  InScan(gs, names, key) = InScan(fs, names, key)
  <1> DEFINE get(d) == UNION {KeyIn(d.scans, s, key) : s \in names}
             having == {k \in DOMAIN fs : get(fs[k]) # {}}
             hers == {k \in DOMAIN gs : get(gs[k]) # {}}
  <1>1. DOMAIN gs = DOMAIN fs /\ \A k \in DOMAIN fs : get(gs[k]) = get(fs[k])
    BY DEF SameButFidelity
  <1>2. InScan(fs, names, key) = IF having = {} THEN {}
          ELSE {[value |-> The(get(fs[Max(having)])), layer |-> Max(having)]}
    BY DEF InScan, Pick
  <1>3. InScan(gs, names, key) = IF hers = {} THEN {}
          ELSE {[value |-> The(get(gs[Max(hers)])), layer |-> Max(hers)]}
    BY DEF InScan, Pick
  <1> HIDE DEF get
  <1>4. hers = having
    BY <1>1
  <1>5. having # {} => Max(having) \in DOMAIN fs
    BY HighestHaving DEF having
  <1> HIDE DEF hers, having
  <1> QED BY <1>1, <1>2, <1>3, <1>4, <1>5

(* The defaults.                                                           *)
LEMMA SameDefaults ==
  ASSUME NEW fs, GoodFiles(fs), NEW gs, SameButFidelity(fs, gs), NEW key
  PROVE  InDefaults(gs, key) = InDefaults(fs, key)
  <1> DEFINE get(d) == Key(d.defaults, key)
             having == {k \in DOMAIN fs : get(fs[k]) # {}}
             hers == {k \in DOMAIN gs : get(gs[k]) # {}}
  <1>1. DOMAIN gs = DOMAIN fs /\ \A k \in DOMAIN fs : get(gs[k]) = get(fs[k])
    BY DEF SameButFidelity
  <1>2. InDefaults(fs, key) = IF having = {} THEN {}
          ELSE {[value |-> The(get(fs[Max(having)])), layer |-> Max(having)]}
    BY DEF InDefaults, Pick
  <1>3. InDefaults(gs, key) = IF hers = {} THEN {}
          ELSE {[value |-> The(get(gs[Max(hers)])), layer |-> Max(hers)]}
    BY DEF InDefaults, Pick
  <1> HIDE DEF get
  <1>4. hers = having
    BY <1>1
  <1>5. having # {} => Max(having) \in DOMAIN fs
    BY HighestHaving DEF having
  <1> HIDE DEF hers, having
  <1> QED BY <1>1, <1>2, <1>3, <1>4, <1>5

(* A profile.                                                              *)
LEMMA SameProfile ==
  ASSUME NEW fs, GoodFiles(fs), NEW gs, SameButFidelity(fs, gs), NEW name, NEW key
  PROVE  InProfile(gs, name, key) = InProfile(fs, name, key)
  <1> DEFINE get(d) == KeyIn(d.profiles, name, key)
             having == {k \in DOMAIN fs : get(fs[k]) # {}}
             hers == {k \in DOMAIN gs : get(gs[k]) # {}}
  <1>1. DOMAIN gs = DOMAIN fs /\ \A k \in DOMAIN fs : get(gs[k]) = get(fs[k])
    BY DEF SameButFidelity
  <1>2. InProfile(fs, name, key) = IF having = {} THEN {}
          ELSE {[value |-> The(get(fs[Max(having)])), layer |-> Max(having)]}
    BY DEF InProfile, Pick
  <1>3. InProfile(gs, name, key) = IF hers = {} THEN {}
          ELSE {[value |-> The(get(gs[Max(hers)])), layer |-> Max(hers)]}
    BY DEF InProfile, Pick
  <1> HIDE DEF get
  <1>4. hers = having
    BY <1>1
  <1>5. having # {} => Max(having) \in DOMAIN fs
    BY HighestHaving DEF having
  <1> HIDE DEF hers, having
  <1> QED BY <1>1, <1>2, <1>3, <1>4, <1>5

(* A transport's table, but for its fidelity.                              *)
LEMMA SameTransport ==
  ASSUME NEW fs, GoodFiles(fs), NEW gs, SameButFidelity(fs, gs), NEW name, NEW key, key # "fidelity"
  PROVE  InTransport(gs, name, key) = InTransport(fs, name, key)
  <1> DEFINE get(d) == KeyIn(d.transports, name, key)
             having == {k \in DOMAIN fs : get(fs[k]) # {}}
             hers == {k \in DOMAIN gs : get(gs[k]) # {}}
  <1>1. DOMAIN gs = DOMAIN fs /\ \A k \in DOMAIN fs : get(gs[k]) = get(fs[k])
    BY DEF SameButFidelity, KeyIn
  <1>2. InTransport(fs, name, key) = IF having = {} THEN {}
          ELSE {[value |-> The(get(fs[Max(having)])), layer |-> Max(having)]}
    BY DEF InTransport, Pick
  <1>3. InTransport(gs, name, key) = IF hers = {} THEN {}
          ELSE {[value |-> The(get(gs[Max(hers)])), layer |-> Max(hers)]}
    BY DEF InTransport, Pick
  <1> HIDE DEF get
  <1>4. hers = having
    BY <1>1
  <1>5. having # {} => Max(having) \in DOMAIN fs
    BY HighestHaving DEF having
  <1> HIDE DEF hers, having
  <1> QED BY <1>1, <1>2, <1>3, <1>4, <1>5

(* A target set.                                                           *)
LEMMA SameTargetSet ==
  ASSUME NEW fs, GoodFiles(fs), NEW gs, SameButFidelity(fs, gs), NEW name
  PROVE  TargetSetDef(gs, name) = TargetSetDef(fs, name)
  <1> DEFINE get(d) == Key(d.targets, name)
             having == {k \in DOMAIN fs : get(fs[k]) # {}}
             hers == {k \in DOMAIN gs : get(gs[k]) # {}}
  <1>1. DOMAIN gs = DOMAIN fs /\ \A k \in DOMAIN fs : get(gs[k]) = get(fs[k])
    BY DEF SameButFidelity
  <1>2. TargetSetDef(fs, name) = IF having = {} THEN {}
          ELSE {[value |-> The(get(fs[Max(having)])), layer |-> Max(having)]}
    BY DEF TargetSetDef, Pick
  <1>3. TargetSetDef(gs, name) = IF hers = {} THEN {}
          ELSE {[value |-> The(get(gs[Max(hers)])), layer |-> Max(hers)]}
    BY DEF TargetSetDef, Pick
  <1> HIDE DEF get
  <1>4. hers = having
    BY <1>1
  <1>5. having # {} => Max(having) \in DOMAIN fs
    BY HighestHaving DEF having
  <1> HIDE DEF hers, having
  <1> QED BY <1>1, <1>2, <1>3, <1>4, <1>5

(* A port set.                                                             *)
LEMMA SamePortSet ==
  ASSUME NEW fs, GoodFiles(fs), NEW gs, SameButFidelity(fs, gs), NEW name
  PROVE  PortSetDef(gs, name) = PortSetDef(fs, name)
  <1> DEFINE get(d) == Key(d.ports, name)
             having == {k \in DOMAIN fs : get(fs[k]) # {}}
             hers == {k \in DOMAIN gs : get(gs[k]) # {}}
  <1>1. DOMAIN gs = DOMAIN fs /\ \A k \in DOMAIN fs : get(gs[k]) = get(fs[k])
    BY DEF SameButFidelity
  <1>2. PortSetDef(fs, name) = IF having = {} THEN {}
          ELSE {[value |-> The(get(fs[Max(having)])), layer |-> Max(having)]}
    BY DEF PortSetDef, Pick
  <1>3. PortSetDef(gs, name) = IF hers = {} THEN {}
          ELSE {[value |-> The(get(gs[Max(hers)])), layer |-> Max(hers)]}
    BY DEF PortSetDef, Pick
  <1> HIDE DEF get
  <1>4. hers = having
    BY <1>1
  <1>5. having # {} => Max(having) \in DOMAIN fs
    BY HighestHaving DEF having
  <1> HIDE DEF hers, having
  <1> QED BY <1>1, <1>2, <1>3, <1>4, <1>5

(* The names there are.                                                    *)
LEMMA SameNames ==
  ASSUME NEW fs, NEW gs, SameButFidelity(fs, gs)
  PROVE  /\ ScanNames(gs) = ScanNames(fs)
         /\ ProfileNames(gs) = ProfileNames(fs)
         /\ TransportNames(gs) = TransportNames(fs)
         /\ TargetSetNames(gs) = TargetSetNames(fs)
         /\ PortSetNames(gs) = PortSetNames(fs)
  <1>1. ScanNames(gs) = ScanNames(fs)
    BY DEF SameButFidelity, ScanNames, Names
  <1>2. ProfileNames(gs) = ProfileNames(fs)
    BY DEF SameButFidelity, ProfileNames, Names
  <1>3. TransportNames(gs) = TransportNames(fs)
    BY DEF SameButFidelity, TransportNames, Names
  <1>4. TargetSetNames(gs) = TargetSetNames(fs)
    BY DEF SameButFidelity, TargetSetNames, Names
  <1>5. PortSetNames(gs) = PortSetNames(fs)
    BY DEF SameButFidelity, PortSetNames, Names
  <1> QED BY <1>1, <1>2, <1>3, <1>4, <1>5

-----------------------------------------------------------------------------
(* The cascades made of them.                                              *)
LEMMA SameCascades ==
  ASSUME NEW fs, GoodFiles(fs), NEW gs, SameButFidelity(fs, gs), NEW names, NEW given, NEW key
  PROVE  /\ \A fallback :
              PickName(gs, names, given, key, fallback) = PickName(fs, names, given, key, fallback)
         /\ \A fallback :
              ResolveFlag(gs, names, given, key, fallback)
                = ResolveFlag(fs, names, given, key, fallback)
         /\ \A profile, builtin :
              ResolveField(gs, names, profile, given, key, builtin)
                = ResolveField(fs, names, profile, given, key, builtin)
         /\ \A transport :
              ResolveDnsMode(gs, names, transport, given)
                = ResolveDnsMode(fs, names, transport, given)
  <1>1. InScan(gs, names, key) = InScan(fs, names, key)
        /\ InScan(gs, names, "dns") = InScan(fs, names, "dns")
    BY SameScan
  <1>2. InDefaults(gs, key) = InDefaults(fs, key)
    BY SameDefaults
  <1>3. \A profile : InProfile(gs, profile, key) = InProfile(fs, profile, key)
    BY SameProfile
  <1>4. \A transport : InTransport(gs, transport, "dns") = InTransport(fs, transport, "dns")
    BY SameTransport
  <1>5. \A fallback :
          PickName(gs, names, given, key, fallback) = PickName(fs, names, given, key, fallback)
    BY <1>1, <1>2 DEF PickName
  <1>6. \A fallback :
          ResolveFlag(gs, names, given, key, fallback)
            = ResolveFlag(fs, names, given, key, fallback)
    BY <1>1, <1>2 DEF ResolveFlag
  <1>7. \A profile, builtin :
          ResolveField(gs, names, profile, given, key, builtin)
            = ResolveField(fs, names, profile, given, key, builtin)
    BY <1>1, <1>3 DEF ResolveField
  <1>8. \A transport :
          ResolveDnsMode(gs, names, transport, given)
            = ResolveDnsMode(fs, names, transport, given)
    BY <1>1, <1>4 DEF ResolveDnsMode
  <1> QED BY <1>5, <1>6, <1>7, <1>8

(* What the stages resolve to, of the files and the command line as they   *)
(* are.                                                                    *)
TransportNow == ResolveTransport(files, TransportName.value)
ProfileNow == ProfileName(TransportNow).value
BaseNow == BaseProfile(ProfileNow, TransportNow)
ModeNow == DnsMode(TransportNow).value
DnsNow == AppliedDns(ModeNow, TransportNow)
ByPairs == Key(cli, "pairs") # {}
TargetsNow == IF ByPairs THEN PairTargets ELSE Expand(IncludedSpecs, ExcludedSpecs)

(* That no stage refuses them.                                             *)
FilesPass == Validate(files) = {}
ScanPasses == scan \subseteq ScanNames(files)
TransportPasses == TransportNow.ok
ProfilePasses == ProfileProblem(ProfileNow) = {}
TimingPasses == TimingProblem(Timings(ProfileNow, BaseNow)) = {}
DnsPasses == DnsProblem(ModeNow, TransportNow) = {}
TargetsPass == IF ByPairs THEN PairsProblem = {} ELSE TargetsProblem = {}
PortsPass == ~ByPairs => PortsProblem = {}
NamesPass == NamesProblem(ApplyDns(TargetsNow, DnsNow)) = {}
LabelsPass == ServicesProblem = {}

Settings ==
  <<ProfileNow, BaseNow, ModeNow, DnsNow, ByPairs, TargetsNow, IncludedSpecs, ExcludedSpecs,
    PortSpecs, Pairs, ScanPasses, ProfilePasses, TimingPasses, DnsPasses, TargetsPass,
    PortsPass, NamesPass, LabelsPass>>

(* Of files that differ in fidelities, a transport of the same kind and name*)
(* gets the same settings.                                                 *)
LEMMA SettingsStand ==
  ASSUME GoodFiles(files), SameButFidelity(files, files'), cli' = cli, scan' = scan,
         TransportNow'.kind = TransportNow.kind, TransportNow'.name = TransportNow.name
  PROVE  UNCHANGED Settings /\ UNCHANGED TransportName
  <1>1. UNCHANGED TransportName
    BY SameCascades DEF TransportName
  <1>2. SupportsRemoteDns(TransportNow') = SupportsRemoteDns(TransportNow)
    BY DEF SupportsRemoteDns
  <1>3. DefaultProfile(TransportNow)' = DefaultProfile(TransportNow)
    BY <1>2 DEF DefaultProfile
  <1>4. ProfileName(TransportNow)' = ProfileName(TransportNow)
    BY <1>3, SameCascades DEF ProfileName
  <1>5. UNCHANGED <<ProfileNow, BaseNow>>
    BY <1>3, <1>4 DEF ProfileNow, BaseNow, BaseProfile
  <1>6. UNCHANGED ProfilePasses
    BY <1>5, SameNames DEF ProfilePasses, ProfileProblem
  <1>7. UNCHANGED ScanPasses
    BY SameNames DEF ScanPasses
  <1>8. UNCHANGED <<ModeNow, DnsNow>>
    <2>1. DnsMode(TransportNow)' = DnsMode(TransportNow)
      BY SameCascades DEF DnsMode
    <2> QED BY <1>2, <2>1 DEF ModeNow, DnsNow, AppliedDns
  <1>9. UNCHANGED DnsPasses
    BY <1>2, <1>8 DEF DnsPasses, DnsProblem
  <1>10. UNCHANGED TimingPasses
    <2>1. UNCHANGED Flags
      <3>1. \A key, fallback : Flag(key, fallback)' = Flag(key, fallback)
        BY SameCascades DEF Flag
      <3> QED BY <3>1 DEF Flags
    <2>2. \A key : Field(ProfileNow, BaseNow, key)' = Field(ProfileNow, BaseNow, key)
      BY <1>5, SameCascades DEF Field
    <2>3. Timings(ProfileNow, BaseNow)' = Timings(ProfileNow, BaseNow)
      BY <2>1, <2>2 DEF Timings
    <2> QED BY <2>1, <2>3 DEF TimingPasses, TimingProblem
  <1>11. \A key, option : Items(key, option)' = Items(key, option)
    <2>1. TAKE key, option
    <2>2. InScan(files', scan', key) = InScan(files, scan, key)
      BY SameScan
    <2> QED BY <2>2 DEF Items
  <1>12. ASSUME NEW item
         PROVE  Included(item)' = Included(item) /\ Excluded(item)' = Excluded(item)
    <2>1. NamedSet(item)' = NamedSet(item)
      BY SameTargetSet DEF NamedSet
    <2>2. TargetSetNames(files') = TargetSetNames(files)
      BY SameNames
    <2> QED BY <2>1, <2>2 DEF Included, Excluded
  <1>13. UNCHANGED TargetItems
    BY <1>11 DEF TargetItems
  <1>14. UNCHANGED IncludedSpecs
    BY <1>12, <1>13 DEF IncludedSpecs
  <1>15. UNCHANGED ExcludedSpecs
    <2>1. InScan(files', scan', "exclude") = InScan(files, scan, "exclude")
      BY SameScan
    <2> QED BY <1>12, <1>13, <2>1 DEF ExcludedSpecs
  <1>16. UNCHANGED TargetsProblem
    BY <1>13, <1>14, <1>15 DEF TargetsProblem
  <1>17. UNCHANGED <<Pairs, PairTargets, PairsProblem, ByPairs>>
    <2>1. UNCHANGED Pairs
      BY DEF Pairs
    <2> QED BY <2>1 DEF PairTargets, PairsProblem, ByPairs
  <1>18. UNCHANGED <<TargetsNow, TargetsPass>>
    BY <1>14, <1>15, <1>16, <1>17 DEF TargetsNow, TargetsPass
  <1>19. UNCHANGED PortItems
    BY <1>11 DEF PortItems
  <1>20. UNCHANGED PortSpecs
    <2>1. \A name : PortSetDef(files', name) = PortSetDef(files, name)
      BY SamePortSet
    <2>2. PortSetNames(files') = PortSetNames(files)
      BY SameNames
    <2> QED BY <1>19, <2>1, <2>2 DEF PortSpecs
  <1>21. UNCHANGED PortsPass
    <2>1. UNCHANGED PortsProblem
      BY <1>19, <1>20 DEF PortsProblem
    <2> QED BY <1>17, <2>1 DEF PortsPass
  <1>22. UNCHANGED NamesPass
    BY <1>8, <1>18 DEF NamesPass
  <1>23. UNCHANGED LabelsPass
    <2>1. UNCHANGED ServicesFile
      BY SameDefaults DEF ServicesFile
    <2> QED BY <2>1 DEF LabelsPass, ServicesProblem
  <1> QED BY <1>1, <1>5, <1>6, <1>7, <1>8, <1>9, <1>10, <1>14, <1>15, <1>17, <1>18, <1>20,
             <1>21, <1>22, <1>23
          DEF Settings

-----------------------------------------------------------------------------
(* What following the advice changes.                                      *)

(* What a table says once a fidelity is written into it.                   *)
LEMMA KeysOfWith ==
  ASSUME NEW t, NEW f
  PROVE  /\ Key(With(t, [fidelity |-> f]), "fidelity") = {f}
         /\ \A key : key # "fidelity" => Key(With(t, [fidelity |-> f]), key) = Key(t, key)
  <1>1. DOMAIN [fidelity |-> f] = {"fidelity"} /\ [fidelity |-> f]["fidelity"] = f
    OBVIOUS
  <1> DEFINE new == [fidelity |-> f]
  <1>2. DOMAIN new = {"fidelity"} /\ new["fidelity"] = f
    BY <1>1
  <1> HIDE DEF new
  <1>3. Key(With(t, new), "fidelity") = {f}
    BY <1>2 DEF With, Key
  <1>4. ASSUME NEW key, key # "fidelity" PROVE Key(With(t, new), key) = Key(t, key)
    BY <1>2, <1>4 DEF With, Key
  <1> QED BY <1>3, <1>4 DEF new

(* A transport's definition is that of the highest file that has it.       *)
LEMMA WhereItIs ==
  ASSUME NEW fs, GoodFiles(fs), NEW name, TransportDef(fs, name) # {}
  PROVE  LET having == {k \in DOMAIN fs : name \in DOMAIN fs[k].transports}
             k == The(TransportDef(fs, name)).layer
         IN  /\ k = Max(having) /\ k \in having
             /\ The(TransportDef(fs, name)).value = fs[k].transports[name]
             /\ TransportDef(fs, name) = {[value |-> fs[k].transports[name], layer |-> k]}
  <1> DEFINE having == {k \in DOMAIN fs : name \in DOMAIN fs[k].transports}
             get(d) == Key(d.transports, name)
             some == {k \in DOMAIN fs : get(fs[k]) # {}}
             picked == [value |-> The(get(fs[Max(some)])), layer |-> Max(some)]
  <1>1. TransportDef(fs, name) = IF some = {} THEN {} ELSE {picked}
    BY DEF TransportDef, Pick
  <1>2. some = having
    BY DEF Key
  <1>3. TransportDef(fs, name) = {picked} /\ some # {}
    <2> HIDE DEF some, picked
    <2> QED BY <1>1
  <1>4. Max(having) \in having
    <2> HIDE DEF some
    <2>1. having \in SUBSET DOMAIN fs /\ having # {}
      BY <1>2, <1>3
    <2> HIDE DEF having
    <2> QED BY <2>1, HighestHaving
  <1>5. The(TransportDef(fs, name)) = picked
    <2> HIDE DEF picked
    <2> QED BY <1>3, TheMember
  <1>6. picked.layer = Max(having) /\ picked.value = The(Key(fs[Max(having)].transports, name))
        /\ picked = [value |-> picked.value, layer |-> picked.layer]
    BY <1>2
  <1> DEFINE k == Max(having)
  <1>7. The(Key(fs[k].transports, name)) = fs[k].transports[name]
    <2>1. Key(fs[k].transports, name) = {fs[k].transports[name]}
      BY <1>4 DEF Key
    <2> HIDE DEF k, having, some, picked
    <2>2. The(Key(fs[k].transports, name)) \in Key(fs[k].transports, name)
      BY <2>1, TheMember
    <2> QED BY <2>1, <2>2
  <1> HIDE DEF picked, some, having
  <1> QED BY <1>3, <1>4, <1>5, <1>6, <1>7 DEF having

(* Files gs are files fs with the fidelity of a transport written where    *)
(* that transport is defined.                                              *)
Revised(fs, gs, name, k, f) ==
  /\ k = The(TransportDef(fs, name)).layer
  /\ gs = [fs EXCEPT ![k].transports[name] = With(@, [fidelity |-> f])]
Rewritten(fs, gs, name, k, f) ==
  /\ SameButFidelity(fs, gs)
  /\ \A n : n # name => TransportDef(gs, n) = TransportDef(fs, n)
  /\ TransportDef(gs, name) # {}
  /\ The(TransportDef(gs, name)).value
       = With(The(TransportDef(fs, name)).value, [fidelity |-> f])
  /\ k \in DOMAIN fs /\ name \in DOMAIN fs[k].transports
  /\ The(TransportDef(fs, name)).value = fs[k].transports[name]
  /\ \A j \in DOMAIN fs : \A n \in DOMAIN fs[j].transports :
       gs[j].transports[n] =
         IF j = k /\ n = name THEN With(fs[k].transports[name], [fidelity |-> f])
         ELSE fs[j].transports[n]

(* Writing a fidelity changes that and nothing else.                       *)
LEMMA AdvisedFiles ==
  ASSUME NEW fs, GoodFiles(fs), NEW name, TransportDef(fs, name) # {}, NEW f, NEW k, NEW gs,
         Revised(fs, gs, name, k, f)
  PROVE  Rewritten(fs, gs, name, k, f)
  <1> DEFINE having == {j \in DOMAIN fs : name \in DOMAIN fs[j].transports}
             old == fs[k]
             tables == old.transports
             t == tables[name]
             u == With(t, [fidelity |-> f])
             newTables == [tables EXCEPT ![name] = u]
             new == [old EXCEPT !.transports = newTables]
  <1>1. /\ k = Max(having) /\ k \in having
        /\ The(TransportDef(fs, name)).value = fs[k].transports[name]
    BY WhereItIs DEF Revised
  <1>2. gs = [fs EXCEPT ![k] = new]
    BY DEF Revised
  <1>3. DOMAIN gs = DOMAIN fs /\ gs[k] = new /\ \A j \in DOMAIN fs : j # k => gs[j] = fs[j]
    <2> HIDE DEF new
    <2> QED BY <1>1, <1>2
  <1>4. IsDocument(old)
    BY <1>1 DEF GoodFiles
  <1>5. /\ new.version = old.version /\ new.defaults = old.defaults
        /\ new.profiles = old.profiles /\ new.scans = old.scans
        /\ new.targets = old.targets /\ new.ports = old.ports
        /\ new.transports = newTables
    <2> HIDE DEF newTables, old
    <2> QED BY <1>4 DEF IsDocument
  <1>6. DOMAIN newTables = DOMAIN tables /\ newTables[name] = u
        /\ \A n \in DOMAIN tables : n # name => newTables[n] = tables[n]
    <2> HIDE DEF u
    <2> QED BY <1>1
  <1> HIDE DEF new, newTables
  <1>7. ASSUME NEW j \in DOMAIN fs, NEW n \in DOMAIN fs[j].transports
        PROVE  gs[j].transports[n] = IF j = k /\ n = name THEN u ELSE fs[j].transports[n]
    BY <1>3, <1>5, <1>6
  <1>8. ASSUME NEW j \in DOMAIN fs PROVE DOMAIN gs[j].transports = DOMAIN fs[j].transports
    BY <1>3, <1>5, <1>6
  <1>9. \A key : key # "fidelity" => Key(u, key) = Key(t, key)
    BY KeysOfWith
  <1>10. SameButFidelity(fs, gs)
    <2>1. ASSUME NEW j \in DOMAIN fs
          PROVE  /\ gs[j].version = fs[j].version /\ gs[j].defaults = fs[j].defaults
                 /\ gs[j].profiles = fs[j].profiles /\ gs[j].scans = fs[j].scans
                 /\ gs[j].targets = fs[j].targets /\ gs[j].ports = fs[j].ports
      BY <1>3, <1>5
    <2>2. ASSUME NEW j \in DOMAIN fs, NEW n \in DOMAIN fs[j].transports, NEW key, key # "fidelity"
          PROVE  Key(gs[j].transports[n], key) = Key(fs[j].transports[n], key)
      <3> HIDE DEF u
      <3> QED BY <1>7, <1>9, <2>2
    <2> QED BY <1>3, <1>8, <2>1, <2>2 DEF SameButFidelity
  <1>11. ASSUME NEW n, n # name PROVE TransportDef(gs, n) = TransportDef(fs, n)
    <2> DEFINE get(d) == Key(d.transports, n)
               mine == {j \in DOMAIN fs : get(fs[j]) # {}}
               hers == {j \in DOMAIN gs : get(gs[j]) # {}}
    <2>1. ASSUME NEW j \in DOMAIN fs PROVE get(gs[j]) = get(fs[j])
      <3>1. CASE n \in DOMAIN fs[j].transports
        <4>1. gs[j].transports[n] = fs[j].transports[n] /\ n \in DOMAIN gs[j].transports
          <5> HIDE DEF u
          <5> QED BY <1>7, <1>8, <1>11, <3>1
        <4> QED BY <3>1, <4>1 DEF Key
      <3>2. CASE n \notin DOMAIN fs[j].transports
        BY <1>8, <3>2 DEF Key
      <3> QED BY <3>1, <3>2
    <2>2. TransportDef(fs, n) = IF mine = {} THEN {}
            ELSE {[value |-> The(get(fs[Max(mine)])), layer |-> Max(mine)]}
      BY DEF TransportDef, Pick
    <2>3. TransportDef(gs, n) = IF hers = {} THEN {}
            ELSE {[value |-> The(get(gs[Max(hers)])), layer |-> Max(hers)]}
      BY DEF TransportDef, Pick
    <2> HIDE DEF get
    <2>4. hers = mine
      BY <1>3, <2>1
    <2>5. mine # {} => Max(mine) \in DOMAIN fs
      BY HighestHaving DEF mine
    <2> HIDE DEF hers, mine
    <2> QED BY <2>1, <2>2, <2>3, <2>4, <2>5
  <1>12. TransportDef(gs, name) # {} /\ The(TransportDef(gs, name)).value = u
    <2> DEFINE get(d) == Key(d.transports, name)
               hers == {j \in DOMAIN gs : get(gs[j]) # {}}
               picked == [value |-> The(get(gs[Max(hers)])), layer |-> Max(hers)]
    <2>1. TransportDef(gs, name) = IF hers = {} THEN {} ELSE {picked}
      BY DEF TransportDef, Pick
    <2>2. hers = having
      BY <1>3, <1>8 DEF Key
    <2>3. k \in hers /\ Max(hers) = k
      BY <1>1, <2>2
    <2>4. get(gs[k]) = {u}
      <3> HIDE DEF u
      <3> QED BY <1>1, <1>7, <1>8 DEF Key
    <2>5. The(get(gs[k])) = u
      BY <2>4, TheMember
    <2>6. picked.value = u
      BY <2>3, <2>5
    <2> HIDE DEF hers, picked, u
    <2>7. TransportDef(gs, name) = {picked}
      BY <2>1, <2>3
    <2>8. The(TransportDef(gs, name)) = picked
      BY <2>7, TheMember
    <2> QED BY <2>6, <2>7, <2>8
  <1> QED BY <1>1, <1>7, <1>10, <1>11, <1>12 DEF Rewritten

(* No problem of five.                                                     *)
LEMMA NoneOfFive ==
  ASSUME NEW a1, NEW a2, NEW a3, NEW a4, NEW a5, NEW b1 \in BOOLEAN, NEW b2 \in BOOLEAN,
         NEW b3 \in BOOLEAN, NEW b4 \in BOOLEAN, NEW b5 \in BOOLEAN
  PROVE  FirstProblem(<<<<a1, b1>>, <<a2, b2>>, <<a3, b3>>, <<a4, b4>>, <<a5, b5>>>>) = {}
           <=> ~b1 /\ ~b2 /\ ~b3 /\ ~b4 /\ ~b5
  <1> DEFINE checks == <<<<a1, b1>>, <<a2, b2>>, <<a3, b3>>, <<a4, b4>>, <<a5, b5>>>>
  <1>1. /\ DOMAIN checks = 1 .. 5
        /\ checks[1][2] = b1 /\ checks[2][2] = b2 /\ checks[3][2] = b3 /\ checks[4][2] = b4
        /\ checks[5][2] = b5
    OBVIOUS
  <1> HIDE DEF checks
  <1>2. FirstProblem(checks) = {} <=> {k \in DOMAIN checks : checks[k][2]} = {}
    BY DEF FirstProblem
  <1>3. {k \in DOMAIN checks : checks[k][2]} = {} <=> ~b1 /\ ~b2 /\ ~b3 /\ ~b4 /\ ~b5
    BY <1>1
  <1> QED BY <1>2, <1>3 DEF checks

(* A proxy is used when there is nothing wrong with it.                    *)
ProxyStands(kind, t) ==
  /\ Key(t, "address") = {"ok"}
  /\ PasswordSource(t) # {"bad"}
  /\ PasswordSource(t) = {} \/ Key(t, "username") # {}
  /\ Key(t, "fidelity") \subseteq Fidelities
  /\ ~(kind = "http" /\ Key(t, "fidelity") = {"full"})

(* A proxy is used when it stands, with the fidelity its table declares.   *)
LEMMA ProxyOfATable ==
  ASSUME NEW name, NEW kind, NEW t
  PROVE  /\ ResolveProxy(name, kind, t).ok <=> ProxyStands(kind, t)
         /\ ProxyStands(kind, t) =>
              ResolveProxy(name, kind, t) =
                Resolved(name, kind, IF kind = "http" THEN "open_only"
                                     ELSE The(Or(Key(t, "fidelity"), {"unknown"})), << >>)
  <1> DEFINE wrong == FirstProblem(<<
        <<"address", Key(t, "address") # {"ok"}>>,
        <<"password", PasswordSource(t) = {"bad"}>>,
        <<"no_username", PasswordSource(t) # {} /\ Key(t, "username") = {}>>,
        <<"fidelity", ~(Key(t, "fidelity") \subseteq Fidelities)>>,
        <<"http_full", kind = "http" /\ Key(t, "fidelity") = {"full"}>>>>)
             fidelity == IF kind = "http" THEN "open_only"
                         ELSE The(Or(Key(t, "fidelity"), {"unknown"}))
  <1>1. ResolveProxy(name, kind, t) = IF wrong # {} THEN Unresolved(The(wrong))
            ELSE Resolved(name, kind, fidelity, << >>)
    BY DEF ResolveProxy
  <1>2. wrong = {} <=> ProxyStands(kind, t)
    <2> DEFINE b1 == Key(t, "address") # {"ok"}
               b2 == PasswordSource(t) = {"bad"}
               b3 == PasswordSource(t) # {} /\ Key(t, "username") = {}
               b4 == ~(Key(t, "fidelity") \subseteq Fidelities)
               b5 == kind = "http" /\ Key(t, "fidelity") = {"full"}
    <2>1. wrong = FirstProblem(<<<<"address", b1>>, <<"password", b2>>, <<"no_username", b3>>,
                                   <<"fidelity", b4>>, <<"http_full", b5>>>>)
      OBVIOUS
    <2>2. b1 \in BOOLEAN /\ b2 \in BOOLEAN /\ b3 \in BOOLEAN /\ b4 \in BOOLEAN /\ b5 \in BOOLEAN
      OBVIOUS
    <2>3. ProxyStands(kind, t) <=> ~b1 /\ ~b2 /\ ~b3 /\ ~b4 /\ ~b5
      BY DEF ProxyStands
    <2> HIDE DEF b1, b2, b3, b4, b5, wrong
    <2>4. FirstProblem(<<<<"address", b1>>, <<"password", b2>>, <<"no_username", b3>>,
                         <<"fidelity", b4>>, <<"http_full", b5>>>>) = {}
            <=> ~b1 /\ ~b2 /\ ~b3 /\ ~b4 /\ ~b5
      BY <2>2, NoneOfFive
    <2> QED BY <2>1, <2>3, <2>4
  <1> HIDE DEF wrong, fidelity
  <1>3. ~Unresolved(The(wrong)).ok /\ Resolved(name, kind, fidelity, << >>).ok
    BY DEF Unresolved, Resolved
  <1>4. /\ ResolveProxy(name, kind, t).ok <=> ProxyStands(kind, t)
        /\ ProxyStands(kind, t) =>
             ResolveProxy(name, kind, t) = Resolved(name, kind, fidelity, << >>)
    BY <1>1, <1>2, <1>3
  <1> QED BY <1>4 DEF fidelity

Measurement(kind, f) == f \in {"full", "open_only"} /\ (kind = "http" => f # "full")

(* A proxy that is used is used with the fidelity that was measured of it. *)
LEMMA AdvisedProxy ==
  ASSUME NEW name, NEW kind, NEW t, NEW f, NEW u, u = With(t, [fidelity |-> f]),
         ResolveProxy(name, kind, t).ok, Measurement(kind, f)
  PROVE  ResolveProxy(name, kind, u) = Resolved(name, kind, f, << >>)
  <1>1. /\ Key(u, "fidelity") = {f}
        /\ \A key : key # "fidelity" => Key(u, key) = Key(t, key)
    BY KeysOfWith
  <1>2. ProxyStands(kind, t)
    BY ProxyOfATable
  <1>3. /\ Key(u, "address") = Key(t, "address")
        /\ Key(u, "username") = Key(t, "username")
        /\ Key(u, "password_env") = Key(t, "password_env")
        /\ Key(u, "password_file") = Key(t, "password_file")
    BY <1>1
  <1>4. PasswordSource(u) = PasswordSource(t)
    BY <1>3 DEF PasswordSource
  <1>5. Key(u, "fidelity") \subseteq Fidelities /\ ~(kind = "http" /\ Key(u, "fidelity") = {"full"})
    BY <1>1 DEF Measurement, Fidelities
  <1>6. ProxyStands(kind, u)
    BY <1>2, <1>3, <1>4, <1>5 DEF ProxyStands
  <1>7. The(Or(Key(u, "fidelity"), {"unknown"})) = f
    <2>1. Or(Key(u, "fidelity"), {"unknown"}) = {f}
      BY <1>1 DEF Or
    <2>2. The({f}) \in {f}
      BY TheMember
    <2> QED BY <2>1, <2>2
  <1>8. kind = "http" => f = "open_only"
    BY DEF Measurement
  <1>9. (IF kind = "http" THEN "open_only" ELSE The(Or(Key(u, "fidelity"), {"unknown"}))) = f
    BY <1>7, <1>8
  <1> QED BY <1>6, <1>9, ProxyOfATable

(* A proxy's type is written, since the default is direct.                 *)
LEMMA TypeOfAProxy ==
  ASSUME NEW t, NEW kind \in {"socks5", "http", "chain", "pool"},
         The(Or(Key(t, "type"), {"direct"})) = kind
  PROVE  Key(t, "type") = {kind}
  <1>1. Key(t, "type") # {}
    <2>1. SUFFICES ASSUME Key(t, "type") = {} PROVE FALSE
      OBVIOUS
    <2>2. Or(Key(t, "type"), {"direct"}) = {"direct"}
      BY <2>1 DEF Or
    <2>3. The({"direct"}) \in {"direct"}
      BY TheMember
    <2> QED BY <2>2, <2>3
  <1>2. "type" \in DOMAIN t /\ Key(t, "type") = {t["type"]}
    BY <1>1 DEF Key
  <1>3. Or(Key(t, "type"), {"direct"}) = {t["type"]}
    BY <1>2 DEF Or
  <1>4. The({t["type"]}) \in {t["type"]}
    BY TheMember
  <1> QED BY <1>2, <1>3, <1>4

(* A proxy's table that validates does so with what was measured written in.*)
LEMMA TransportStaysValid ==
  ASSUME NEW t, NEW kind \in {"socks5", "http"}, Key(t, "type") = {kind}, NEW f,
         Measurement(kind, f), ValidateTransport(t) = {}
  PROVE  ValidateTransport(With(t, [fidelity |-> f])) = {}
  <1> DEFINE u == With(t, [fidelity |-> f])
  <1>1. /\ Key(u, "fidelity") = {f}
        /\ \A key : key # "fidelity" => Key(u, key) = Key(t, key)
    BY KeysOfWith
  <1> HIDE DEF u
  <1>2. /\ Key(u, "type") = {kind}
        /\ Key(u, "address") = Key(t, "address")
        /\ Key(u, "password") = Key(t, "password")
        /\ Key(u, "password_env") = Key(t, "password_env")
        /\ Key(u, "password_file") = Key(t, "password_file")
        /\ Key(u, "dns") = Key(t, "dns")
    BY <1>1
  <1>3. /\ ValidateTransportKind(t) = {} /\ ValidateTransportCredentials(t) = {}
        /\ ValidateTransportModes(t) = {}
    BY DEF ValidateTransport
  <1>4. ValidateTransportCredentials(u) = {}
    BY <1>2, <1>3 DEF ValidateTransportCredentials, SecretIsExposed
  <1>5. ValidateTransportModes(u) = {}
    <2> DEFINE before ==
          [fidelity  |-> ~(Key(t, "fidelity") \subseteq Fidelities),
           http_full |-> Key(t, "type") = {"http"} /\ Key(t, "fidelity") = {"full"},
           dns       |-> ~(Key(t, "dns") \subseteq DnsModes)]
               after ==
          [fidelity  |-> ~(Key(u, "fidelity") \subseteq Fidelities),
           http_full |-> Key(u, "type") = {"http"} /\ Key(u, "fidelity") = {"full"},
           dns       |-> ~(Key(u, "dns") \subseteq DnsModes)]
    <2>1. "dns" \in DOMAIN before /\ before["dns"] = ~(Key(t, "dns") \subseteq DnsModes)
      OBVIOUS
    <2>2. Failing(before) = {}
      BY <1>3 DEF ValidateTransportModes
    <2>3. ~before["dns"]
      <3> HIDE DEF before
      <3> QED BY <2>1, <2>2 DEF Failing
    <2>4. Key(t, "dns") \subseteq DnsModes
      <3> HIDE DEF before
      <3> QED BY <2>1, <2>3
    <2>5. {f} \subseteq Fidelities /\ ~(kind = "http" /\ f = "full")
      BY DEF Measurement, Fidelities
    <2>6. DOMAIN after = {"fidelity", "http_full", "dns"}
          /\ ~after["fidelity"] /\ ~after["http_full"] /\ ~after["dns"]
      BY <1>1, <1>2, <2>4, <2>5
    <2>7. Failing(after) = {}
      <3> HIDE DEF after
      <3> QED BY <2>6 DEF Failing
    <2> QED BY <2>7 DEF ValidateTransportModes
  <1>6. ValidateTransportKind(u) = {}
    <2> DEFINE count(s, k) == IF Key(s, k) = {} THEN 0 ELSE Len(s[k])
               checks(s) ==
      [direct_address |-> Key(s, "type") = {"direct"} /\ Key(s, "address") # {},
       address  |-> Key(s, "type") \subseteq {"socks5", "http"} /\ Key(s, "type") # {}
                      /\ Key(s, "address") # {"ok"},
       derived  |-> Key(s, "type") \subseteq {"chain", "pool"} /\ Key(s, "type") # {}
                      /\ Key(s, "fidelity") # {},
       hops     |-> Key(s, "type") = {"chain"} /\ count(s, "hops") = 0,
       members  |-> Key(s, "type") = {"pool"} /\ count(s, "members") = 0,
       type     |-> Key(s, "type") = {}
                      \/ ~(Key(s, "type") \subseteq {"direct", "socks5", "http", "chain", "pool"})]
               before == checks(t)
               after == checks(u)
    <2>1. Failing(before) = {}
      BY <1>3 DEF ValidateTransportKind
    <2> HIDE DEF count
    <2>2. "address" \in DOMAIN before
          /\ before["address"] = (Key(t, "type") \subseteq {"socks5", "http"} /\ Key(t, "type") # {}
                                    /\ Key(t, "address") # {"ok"})
      OBVIOUS
    <2>3. ~before["address"]
      <3> HIDE DEF before
      <3> QED BY <2>1, <2>2 DEF Failing
    <2>4. Key(t, "address") = {"ok"}
      <3> HIDE DEF before
      <3> QED BY <2>2, <2>3
    <2>5. DOMAIN after = {"direct_address", "address", "derived", "hops", "members", "type"}
          /\ ~after["direct_address"] /\ ~after["address"] /\ ~after["derived"]
          /\ ~after["hops"] /\ ~after["members"] /\ ~after["type"]
      BY <1>2, <2>4
    <2>6. Failing(after) = {}
      <3> HIDE DEF after
      <3> QED BY <2>5 DEF Failing
    <2> QED BY <2>6 DEF ValidateTransportKind, count
  <1> QED BY <1>4, <1>5, <1>6 DEF ValidateTransport, u

(* Files that validate still do.                                           *)
LEMMA FilesStayValid ==
  ASSUME NEW fs, GoodFiles(fs), NEW gs, SameButFidelity(fs, gs), Validate(fs) = {},
         \A k \in DOMAIN fs : \A n \in DOMAIN fs[k].transports :
           ValidateTransport(fs[k].transports[n]) = {}
             => ValidateTransport(gs[k].transports[n]) = {}
  PROVE  Validate(gs) = {}
  <1>1. DOMAIN gs = DOMAIN fs
    BY DEF SameButFidelity
  <1>2. ASSUME NEW k \in DOMAIN fs PROVE ValidateDocument(gs[k]) = {}
    <2> DEFINE d == fs[k]
               e == gs[k]
    <2>1. ValidateDocument(d) = {}
      BY DEF Validate
    <2>2. UNION {ValidateTransport(d.transports[n]) : n \in DOMAIN d.transports} = {}
      BY <2>1 DEF ValidateDocument
    <2>3. \A n \in DOMAIN d.transports : ValidateTransport(d.transports[n]) = {}
      BY <2>2
    <2>4. /\ e.version = d.version /\ e.defaults = d.defaults /\ e.profiles = d.profiles
          /\ e.scans = d.scans /\ e.targets = d.targets /\ e.ports = d.ports
          /\ DOMAIN e.transports = DOMAIN d.transports
      BY DEF SameButFidelity
    <2>5. UNION {ValidateTransport(e.transports[n]) : n \in DOMAIN e.transports} = {}
      BY <2>3, <2>4
    <2>6. ValidateVersion(e) = ValidateVersion(d)
      BY <2>4 DEF ValidateVersion
    <2> HIDE DEF d, e
    <2> QED BY <2>1, <2>4, <2>5, <2>6 DEF ValidateDocument, e
  <1>3. ASSUME NEW k \in DOMAIN fs PROVE ValidateReferences(gs, gs[k]) = {}
    <2>1. ValidateReferences(fs, fs[k]) = {}
      BY DEF Validate
    <2>2. gs[k].defaults = fs[k].defaults /\ gs[k].scans = fs[k].scans
      BY DEF SameButFidelity
    <2>3. ValidateReferences(gs, gs[k]) = ValidateReferences(fs, fs[k])
      BY <2>2, SameNames DEF ValidateReferences
    <2> QED BY <2>1, <2>3
  <1> QED BY <1>1, <1>2, <1>3 DEF Validate

Table(fs, name) == The(TransportDef(fs, name)).value
TypeOf(t) == The(Or(Key(t, "type"), {"direct"}))
HopsOf(t) == The(Or(Key(t, "hops"), {<< >>}))
PartsAt(fs, n, path, names) == [j \in DOMAIN names |-> At(fs, n)[Append(path, names[j])]]
Met(path) == {path[k] : k \in 1 .. (Len(path) - 1)}

(* What is known of the definition a proxy or a chain was read from.       *)
ReadFrom(fs, n, path, r) ==
  LET name == Last(path)
      t == Table(fs, name)
      hops == PartsAt(fs, n, path, HopsOf(t))
  IN  /\ name \notin Met(path) /\ TransportDef(fs, name) # {}
      /\ TypeOf(t) = r.kind
      /\ r.kind \in {"socks5", "http"} => r = ResolveProxy(name, r.kind, t)
      /\ r.kind = "chain" =>
           /\ HopsOf(t) \in Seq(Name) /\ HopsOf(t) # << >>
           /\ r = Resolved(name, "chain", ChainFidelity(hops), hops)
           /\ \A j \in DOMAIN hops : hops[j].ok /\ IsProxy(hops[j])

(* Whatever resolves to a proxy or a chain was read from a definition.     *)
LEMMA WhatALinkIs ==
  ASSUME NEW fs, GoodFiles(fs), NEW n \in Nat, NEW path \in Seq(Name),
         NEW r, r = At(fs, n + 1)[path], r.ok, r.kind \in {"socks5", "http", "chain"}
  PROVE  ReadFrom(fs, n, path, r)
  <1> DEFINE below == At(fs, n)
             name == Last(path)
             defined == TransportDef(fs, name)
             t == Table(fs, name)
             kind == TypeOf(t)
             members == PartsAt(fs, n, path, The(Or(Key(t, "members"), {<< >>})))
             hops == PartsAt(fs, n, path, HopsOf(t))
  <1>1. r = ResolveLast(fs, below, path)
    <2>1. r = ResolveStep(fs, below)[path]
      BY AtNext
    <2> QED BY <2>1 DEF ResolveStep
  <1>2. CASE name \in Met(path)
    <2>1. r = Unresolved("cycle")
      BY <1>1, <1>2 DEF ResolveLast, Last, Met
    <2>2. ~Unresolved("cycle").ok
      BY DEF Unresolved
    <2> QED BY <2>1, <2>2
  <1>3. CASE name \notin Met(path) /\ defined = {}
    <2>1. r = IF name = DefaultTransport THEN DirectTransport(name) ELSE Unresolved("no_transport")
      BY <1>1, <1>3 DEF ResolveLast, Last, Met
    <2>2. ~Unresolved("no_transport").ok
      BY DEF Unresolved
    <2>3. r = DirectTransport(name)
      <3> HIDE DEF name
      <3> QED BY <2>1, <2>2
    <2> QED BY <2>3 DEF DirectTransport, Resolved
  <1>4. CASE name \notin Met(path) /\ defined # {}
    <2>1. r = CASE kind = "direct" -> DirectTransport(name)
                [] kind \in {"socks5", "http"} -> ResolveProxy(name, kind, t)
                [] kind = "chain" -> Compose(name, kind, hops, IsProxy, ChainFidelity(hops))
                [] kind = "pool" ->
                     Compose(name, kind, members, IsNotDirect, PoolFidelity(members))
                [] OTHER -> Unresolved("type")
      BY <1>1, <1>4 DEF ResolveLast, Last, Met, Table, TypeOf, HopsOf, PartsAt
    <2>2. PICK k \in DOMAIN fs : name \in DOMAIN fs[k].transports /\ t = fs[k].transports[name]
      <3> HIDE DEF name
      <3> QED BY <1>4, DefinedInAFile DEF Table
    <2>3. \A key \in {"hops", "members"} : The(Or(Key(t, key), {<< >>})) \in Seq(Name)
      <3>1. TAKE key \in {"hops", "members"}
      <3>2. The(Or(Key(fs[k].transports[name], key), {<< >>})) \in Seq(Name)
        <4> HIDE DEF name
        <4> QED BY <2>2, ListsAreLists
      <3> HIDE DEF t, name
      <3> QED BY <2>2, <3>2
    <2> HIDE DEF kind, t, name, below
    <2>4. CASE kind = "direct"
      <3>1. r = DirectTransport(name)
        BY <2>1, <2>4
      <3> QED BY <3>1 DEF DirectTransport, Resolved
    <2>5. CASE kind \in {"socks5", "http"}
      <3>1. r = ResolveProxy(name, kind, t)
        BY <2>1, <2>5
      <3>2. r.kind = kind
        BY <2>5, <3>1, ProxyIsALink
      <3> QED BY <1>4, <2>5, <3>1, <3>2 DEF kind, t, name, ReadFrom
    <2>6. CASE kind = "chain"
      <3>1. r = Compose(name, "chain", hops, IsProxy, ChainFidelity(hops))
        BY <2>1, <2>6
      <3>2. HopsOf(t) \in Seq(Name)
        BY <2>3 DEF HopsOf
      <3>3. \E m \in Nat : DOMAIN hops = 1 .. m /\ Len(hops) = m
        BY <3>2, PartsAreUsable DEF PartsAt
      <3>4. HopsOf(t) # << >>
        <4>1. SUFFICES ASSUME HopsOf(t) = << >> PROVE FALSE
          OBVIOUS
        <4>2. hops = << >>
          BY <4>1 DEF PartsAt
        <4>3. r = Unresolved("empty")
          <5> HIDE DEF hops
          <5> QED BY <3>1, <4>2 DEF Compose
        <4>4. ~Unresolved("empty").ok
          BY DEF Unresolved
        <4> QED BY <4>3, <4>4
      <3> HIDE DEF hops
      <3>5. PICK m \in Nat : DOMAIN hops = 1 .. m /\ Len(hops) = m
        BY <3>3
      <3>6. /\ r = Resolved(name, "chain", ChainFidelity(hops), hops)
            /\ \A j \in DOMAIN hops : hops[j].ok /\ IsProxy(hops[j])
        <4> DEFINE fidelity == ChainFidelity(hops)
        <4>1. r = Compose(name, "chain", hops, IsProxy, fidelity) /\ r.ok
          BY <3>1
        <4> HIDE DEF fidelity
        <4>2. /\ r = Resolved(name, "chain", fidelity, hops)
              /\ \A j \in DOMAIN hops : hops[j].ok /\ IsProxy(hops[j])
          BY <3>5, <4>1, ComposedOfProxies, ZenonT(60)
        <4> QED BY <4>2 DEF fidelity
      <3>7. r.kind = "chain"
        BY <3>6 DEF Resolved
      <3> QED BY <1>4, <2>6, <3>2, <3>4, <3>6, <3>7 DEF kind, t, name, hops, ReadFrom
    <2>7. CASE kind = "pool"
      <3>1. r = Compose(name, "pool", members, IsNotDirect, PoolFidelity(members))
        BY <2>1, <2>7
      <3>2. \E m \in Nat : DOMAIN members = 1 .. m /\ Len(members) = m
        BY <2>3, PartsAreUsable DEF PartsAt
      <3> HIDE DEF members
      <3>3. PICK m \in Nat : DOMAIN members = 1 .. m /\ Len(members) = m
        BY <3>2
      <3> DEFINE fidelity == PoolFidelity(members)
      <3>4. r = Compose(name, "pool", members, IsNotDirect, fidelity) /\ r.ok
        BY <3>1
      <3> HIDE DEF fidelity
      <3>5. r = Resolved(name, "pool", fidelity, members)
        BY <3>3, <3>4, ComposedOfMembers, ZenonT(60)
      <3> QED BY <3>5 DEF Resolved
    <2>8. CASE kind \notin {"direct", "socks5", "http", "chain", "pool"}
      <3>1. r = Unresolved("type")
        BY <2>1, <2>8
      <3>2. ~Unresolved("type").ok
        BY DEF Unresolved
      <3> QED BY <3>1, <3>2
    <2> QED BY <2>4, <2>5, <2>6, <2>7, <2>8
  <1> HIDE DEF name, defined
  <1> QED BY <1>2, <1>3, <1>4

(* The proxy that advice is about, and what the files then say of it.      *)
Advised(fs, gs, which, f) ==
  /\ GoodFiles(fs) /\ GoodFiles(gs) /\ SameButFidelity(fs, gs)
  /\ \A n : n # which => TransportDef(gs, n) = TransportDef(fs, n)
  /\ TransportDef(gs, which) # {}
  /\ Table(gs, which) = With(Table(fs, which), [fidelity |-> f])
  /\ Measurement(TypeOf(Table(fs, which)), f)

(* The advice leaves kinds and hops.                                       *)
LEMMA SameKindOfTable ==
  ASSUME NEW fs, NEW gs, NEW which, NEW f, Advised(fs, gs, which, f), NEW name,
         TransportDef(fs, name) # {}
  PROVE  /\ TransportDef(gs, name) # {}
         /\ TypeOf(Table(gs, name)) = TypeOf(Table(fs, name))
         /\ HopsOf(Table(gs, name)) = HopsOf(Table(fs, name))
  <1>1. CASE name = which
    <2>1. \A key : key # "fidelity" => Key(Table(gs, name), key) = Key(Table(fs, name), key)
      BY <1>1, KeysOfWith DEF Advised
    <2>2. Key(Table(gs, name), "type") = Key(Table(fs, name), "type")
          /\ Key(Table(gs, name), "hops") = Key(Table(fs, name), "hops")
      BY <2>1
    <2> QED BY <1>1, <2>2 DEF Advised, TypeOf, HopsOf
  <1>2. CASE name # which
    BY <1>2 DEF Advised, Table
  <1> QED BY <1>1, <1>2

(* A path that led to a proxy leads to it again, with what was measured.   *)
LEMMA AdvisedPath ==
  ASSUME NEW fs, NEW gs, NEW which, NEW f, Advised(fs, gs, which, f), NEW n \in Nat,
         NEW path \in Seq(Name), NEW r, r = At(fs, n + 1)[path], r.ok,
         r.kind \in {"socks5", "http"}
  PROVE  /\ r.name = Last(path)
         /\ At(gs, n + 1)[path] =
              IF Last(path) = which THEN Resolved(which, r.kind, f, << >>) ELSE r
  <1> DEFINE name == Last(path)
             t == Table(fs, name)
             u == Table(gs, name)
             s == At(gs, n + 1)[path]
  <1>1. GoodFiles(fs)
    BY DEF Advised
  <1>2. /\ name \notin Met(path) /\ TransportDef(fs, name) # {}
        /\ TypeOf(t) = r.kind /\ r = ResolveProxy(name, r.kind, t)
    <2>1. ReadFrom(fs, n, path, r)
      BY <1>1, WhatALinkIs
    <2> QED BY <2>1 DEF ReadFrom
  <1>3. TransportDef(gs, name) # {} /\ TypeOf(u) = r.kind
    BY <1>2, SameKindOfTable
  <1>4. s = ResolveProxy(name, r.kind, u)
    <2>1. s = ResolveLast(gs, At(gs, n), path)
      BY AtNext DEF ResolveStep
    <2> DEFINE kind == r.kind
    <2>2. TypeOf(u) = kind /\ kind \in {"socks5", "http"}
      BY <1>3
    <2> HIDE DEF kind
    <2>3. ResolveLast(gs, At(gs, n), path) = ResolveProxy(name, kind, u)
      BY <1>2, <1>3, <2>2 DEF ResolveLast, Last, Met, TypeOf, Table
    <2> QED BY <2>1, <2>3 DEF kind
  <1>5. r.name = name
    <2>1. ProxyStands(r.kind, t)
      BY <1>2, ProxyOfATable
    <2>2. PICK fidelity : r = Resolved(name, r.kind, fidelity, << >>)
      BY <1>2, <2>1, ProxyOfATable
    <2> QED BY <2>2 DEF Resolved
  <1>6. CASE name = which
    <2>1. u = With(t, [fidelity |-> f]) /\ Measurement(r.kind, f)
      BY <1>2, <1>6 DEF Advised
    <2>2. ResolveProxy(name, r.kind, u) = Resolved(name, r.kind, f, << >>)
      <3> HIDE DEF name, t, u
      <3> QED BY <1>2, <2>1, AdvisedProxy
    <2> QED BY <1>4, <1>5, <1>6, <2>2
  <1>7. CASE name # which
    <2>1. u = t
      BY <1>7 DEF Advised, Table
    <2> QED BY <1>2, <1>4, <1>5, <1>7, <2>1
  <1> QED BY <1>6, <1>7

(* The proxy that "transport test" tells the operator to write under.      *)
ExitOf(r) == IF r.kind = "chain" THEN r.parts[Len(r.parts)] ELSE r
IsAdvisable(r) == r.ok /\ r.kind \in {"socks5", "chain"}

(* There is room for a chain and its hops.                                 *)
LEMMA DepthIsTwoMore ==
  ASSUME NEW fs, GoodFiles(fs)
  PROVE  \E n \in Nat : Depth(fs) = n + 2
  <1>1. Cardinality(TransportNames(fs)) \in Nat
    BY NamesAreFinite, FS_CardinalityType
  <1> QED BY <1>1 DEF Depth

(* The hops of a chain are what paths lead to.                             *)
AreHops(fs, n, path, names) ==
  LET hops == PartsAt(fs, n, path, names)
  IN  /\ Len(names) \in DOMAIN names /\ DOMAIN hops = DOMAIN names
      /\ Len(hops) = Len(names) /\ hops # << >>
      /\ \A j \in DOMAIN names :
           /\ hops[j] = At(fs, n)[Append(path, names[j])]
           /\ Append(path, names[j]) \in Seq(Name)
           /\ Last(Append(path, names[j])) = names[j]

(* For any list of names that is not empty.                                *)
LEMMA HopsAreAt ==
  ASSUME NEW fs, NEW n \in Nat, NEW path \in Seq(Name), NEW names \in Seq(Name), names # << >>
  PROVE  AreHops(fs, n, path, names)
  <1> DEFINE hops == PartsAt(fs, n, path, names)
             m == Len(names)
  <1>1. m \in Nat \ {0} /\ DOMAIN names = 1 .. m
    OBVIOUS
  <1>2. m \in DOMAIN names
    BY <1>1
  <1>3. DOMAIN hops = 1 .. m
    BY <1>1 DEF PartsAt
  <1>4. Len(hops) = m
    <2> HIDE DEF hops, m
    <2> QED BY <1>1, <1>3
  <1>5. hops # << >>
    <2>1. DOMAIN << >> = {}
      OBVIOUS
    <2> HIDE DEF hops, m
    <2> QED BY <1>1, <1>2, <1>3, <2>1
  <1>6. ASSUME NEW j \in DOMAIN names
        PROVE  /\ hops[j] = At(fs, n)[Append(path, names[j])]
               /\ Append(path, names[j]) \in Seq(Name)
               /\ Last(Append(path, names[j])) = names[j]
    <2>1. names[j] \in Name
      OBVIOUS
    <2>2. hops[j] = At(fs, n)[Append(path, names[j])]
      BY DEF PartsAt
    <2> DEFINE name == names[j]
    <2> HIDE DEF name
    <2>3. Append(path, name) \in Seq(Name) /\ Last(Append(path, name)) = name
      <3>1. name \in Name
        BY <2>1 DEF name
      <3> QED BY <3>1 DEF Last
    <2> QED BY <2>2, <2>3 DEF name
  <1> QED BY <1>1, <1>2, <1>3, <1>4, <1>5, <1>6 DEF AreHops

(* The advice names a table that is there, and is of a proxy.              *)
LEMMA WhoIsAdvised ==
  ASSUME NEW fs, GoodFiles(fs), NEW name \in Name, NEW r, r = ResolveTransport(fs, name),
         IsAdvisable(r)
  PROVE  /\ r.name = name
         /\ ExitOf(r).kind \in {"socks5", "http"}
         /\ TransportDef(fs, ExitOf(r).name) # {}
         /\ TypeOf(Table(fs, ExitOf(r).name)) = ExitOf(r).kind
  <1>1. PICK n \in Nat : Depth(fs) = n + 2
    BY DepthIsTwoMore
  <1> DEFINE path == <<name>>
  <1>2. path \in Seq(Name) /\ Last(path) = name /\ (n + 1) + 1 = n + 2 /\ n + 1 \in Nat
    BY DEF Last
  <1>3. r = At(fs, (n + 1) + 1)[path]
    BY <1>1, <1>2, ResolvedAtDepth
  <1> HIDE DEF path
  <1>4. ReadFrom(fs, n + 1, path, r)
    BY <1>2, <1>3, WhatALinkIs DEF IsAdvisable
  <1>5. CASE r.kind = "socks5"
    <2>1. r = ResolveProxy(name, "socks5", Table(fs, name)) /\ TransportDef(fs, name) # {}
          /\ TypeOf(Table(fs, name)) = r.kind
      BY <1>2, <1>4, <1>5 DEF ReadFrom
    <2>2. PICK fidelity : r = Resolved(name, "socks5", fidelity, << >>)
      BY <2>1, ProxyOfATable DEF IsAdvisable
    <2>3. ExitOf(r) = r /\ r.name = name
      BY <1>5, <2>2 DEF ExitOf, Resolved
    <2> QED BY <1>5, <2>1, <2>3
  <1>6. CASE r.kind = "chain"
    <2> DEFINE names == HopsOf(Table(fs, name))
               hops == PartsAt(fs, n + 1, path, names)
    <2>1. /\ names \in Seq(Name) /\ names # << >>
          /\ r = Resolved(name, "chain", ChainFidelity(hops), hops)
          /\ \A j \in DOMAIN hops : hops[j].ok /\ IsProxy(hops[j])
      BY <1>2, <1>4, <1>6 DEF ReadFrom
    <2> DEFINE m == Len(names)
               exit == hops[m]
               longer == Append(path, names[m])
    <2> HIDE DEF names
    <2>2. /\ m \in DOMAIN names /\ DOMAIN hops = DOMAIN names /\ Len(hops) = m
          /\ exit = At(fs, n + 1)[longer] /\ longer \in Seq(Name) /\ Last(longer) = names[m]
      <3>1. AreHops(fs, n + 1, path, names)
        BY <1>2, <2>1, HopsAreAt
      <3> QED BY <3>1 DEF AreHops
    <2>3. r.name = name /\ ExitOf(r) = exit
      <3> HIDE DEF hops
      <3>1. r.name = name /\ r.parts = hops
        BY <2>1 DEF Resolved
      <3> QED BY <1>6, <2>2, <3>1 DEF ExitOf
    <2>4. exit.ok /\ exit.kind \in {"socks5", "http"}
      <3> HIDE DEF hops, m
      <3> QED BY <2>1, <2>2 DEF IsProxy
    <2> HIDE DEF exit, longer, hops, m
    <2>5. ReadFrom(fs, n, longer, exit)
      BY <2>2, <2>4, WhatALinkIs
    <2>6. exit = ResolveProxy(names[m], exit.kind, Table(fs, names[m]))
          /\ TransportDef(fs, names[m]) # {} /\ TypeOf(Table(fs, names[m])) = exit.kind
      BY <2>2, <2>4, <2>5 DEF ReadFrom
    <2>7. PICK fidelity : exit = Resolved(names[m], exit.kind, fidelity, << >>)
      BY <2>4, <2>6, ProxyOfATable
    <2>8. exit.name = names[m]
      BY <2>7 DEF Resolved
    <2> QED BY <2>3, <2>4, <2>6, <2>8
  <1> QED BY <1>5, <1>6 DEF IsAdvisable

(* The transport that was measured then resolves to what was measured.     *)
LEMMA AdviceIsTaken ==
  ASSUME NEW fs, NEW gs, NEW which, NEW f, Advised(fs, gs, which, f), NEW name \in Name,
         NEW r, r = ResolveTransport(fs, name), IsAdvisable(r), which = ExitOf(r).name
  PROVE  LET s == ResolveTransport(gs, name)
         IN  s.ok /\ s.kind = r.kind /\ s.name = r.name /\ s.fidelity = f
  <1> DEFINE s == ResolveTransport(gs, name)
  <1>1. GoodFiles(fs) /\ GoodFiles(gs)
    BY DEF Advised
  <1>2. PICK n \in Nat : Depth(fs) = n + 2
    BY <1>1, DepthIsTwoMore
  <1>3. Depth(gs) = n + 2
    BY <1>2, SameNames DEF Depth, Advised
  <1> DEFINE path == <<name>>
  <1>4. path \in Seq(Name) /\ Last(path) = name /\ (n + 1) + 1 = n + 2 /\ n + 1 \in Nat
    BY DEF Last
  <1>5. r = At(fs, (n + 1) + 1)[path] /\ s = At(gs, (n + 1) + 1)[path]
    BY <1>2, <1>3, <1>4, ResolvedAtDepth
  <1> HIDE DEF path, s
  <1>6. ReadFrom(fs, n + 1, path, r)
    BY <1>1, <1>4, <1>5, WhatALinkIs DEF IsAdvisable
  <1>7. r.name = name
    BY <1>1, WhoIsAdvised
  <1>8. CASE r.kind = "socks5"
    <2>1. which = name
      BY <1>7, <1>8 DEF ExitOf
    <2>2. s = Resolved(which, r.kind, f, << >>)
      BY <1>4, <1>5, <1>8, <2>1, AdvisedPath DEF IsAdvisable
    <2> QED BY <1>7, <1>8, <2>1, <2>2 DEF Resolved, s
  <1>9. CASE r.kind = "chain"
    <2> DEFINE names == HopsOf(Table(fs, name))
               hops == PartsAt(fs, n + 1, path, names)
               after == PartsAt(gs, n + 1, path, names)
               m == Len(names)
    <2>1. /\ names \in Seq(Name) /\ names # << >>
          /\ r = Resolved(name, "chain", ChainFidelity(hops), hops)
          /\ \A j \in DOMAIN hops : hops[j].ok /\ IsProxy(hops[j])
          /\ name \notin Met(path) /\ TransportDef(fs, name) # {}
          /\ TypeOf(Table(fs, name)) = "chain"
      BY <1>4, <1>6, <1>9 DEF ReadFrom
    <2>2. /\ TransportDef(gs, name) # {} /\ TypeOf(Table(gs, name)) = "chain"
          /\ HopsOf(Table(gs, name)) = names
      BY <2>1, SameKindOfTable
    <2>3. s = Compose(name, "chain", after, IsProxy, ChainFidelity(after))
      <3>1. s = ResolveLast(gs, At(gs, n + 1), path)
        <4>1. At(gs, (n + 1) + 1) = ResolveStep(gs, At(gs, n + 1))
          BY <1>4, AtNext
        <4> QED BY <1>4, <1>5, <4>1 DEF ResolveStep
      <3>2. after = PartsAt(gs, n + 1, path, HopsOf(Table(gs, name)))
        BY <2>2
      <3> HIDE DEF after, names
      <3>3. ResolveLast(gs, At(gs, n + 1), path)
              = Compose(name, "chain", after, IsProxy, ChainFidelity(after))
        BY <1>4, <2>1, <2>2, <3>2
           DEF ResolveLast, Last, Met, Table, TypeOf, HopsOf, PartsAt
      <3> QED BY <3>1, <3>3
    <2> HIDE DEF names
    <2>4. /\ m \in DOMAIN names /\ DOMAIN hops = DOMAIN names /\ Len(hops) = m
          /\ \A j \in DOMAIN names :
               /\ hops[j] = At(fs, n + 1)[Append(path, names[j])]
               /\ Append(path, names[j]) \in Seq(Name)
               /\ Last(Append(path, names[j])) = names[j]
      <3>1. AreHops(fs, n + 1, path, names)
        BY <1>4, <2>1, HopsAreAt
      <3> QED BY <3>1 DEF AreHops
    <2>5. /\ DOMAIN after = DOMAIN names /\ Len(after) = m /\ after # << >>
          /\ \A j \in DOMAIN names : after[j] = At(gs, n + 1)[Append(path, names[j])]
      <3>1. AreHops(gs, n + 1, path, names)
        BY <1>4, <2>1, HopsAreAt
      <3> QED BY <3>1 DEF AreHops
    <2> HIDE DEF hops, after, m
    <2>6. ASSUME NEW j \in DOMAIN names
          PROVE  /\ hops[j].name = names[j]
                 /\ after[j] = IF names[j] = which THEN Resolved(which, hops[j].kind, f, << >>)
                               ELSE hops[j]
                 /\ after[j].ok /\ IsProxy(after[j])
      <3> DEFINE longer == Append(path, names[j])
                 hop == hops[j]
      <3>1. /\ hop = At(fs, n + 1)[longer] /\ longer \in Seq(Name) /\ Last(longer) = names[j]
            /\ after[j] = At(gs, n + 1)[longer]
        BY <2>4, <2>5
      <3>2. hop.ok /\ hop.kind \in {"socks5", "http"}
        BY <2>1, <2>4 DEF IsProxy
      <3> HIDE DEF longer, hop
      <3>3. /\ hop.name = Last(longer)
            /\ At(gs, n + 1)[longer] =
                 IF Last(longer) = which THEN Resolved(which, hop.kind, f, << >>) ELSE hop
        BY <3>1, <3>2, AdvisedPath
      <3>4. Resolved(which, hop.kind, f, << >>).ok
            /\ Resolved(which, hop.kind, f, << >>).kind = hop.kind
        BY DEF Resolved
      <3> QED BY <3>1, <3>2, <3>3, <3>4 DEF hop, IsProxy
    <2>7. FirstUnfit(after, IsProxy) = {}
      BY <2>5, <2>6 DEF FirstUnfit
    <2>8. s = Resolved(name, "chain", ChainFidelity(after), after)
      BY <2>3, <2>5, <2>7 DEF Compose
    <2>9. ChainFidelity(after) = f
      <3>1. r.parts = hops
        BY <2>1 DEF Resolved
      <3>2. ExitOf(r) = hops[m]
        BY <1>9, <2>4, <3>1 DEF ExitOf
      <3>3. names[m] = which
        BY <2>4, <2>6, <3>2
      <3>4. after[m] = Resolved(which, hops[m].kind, f, << >>)
        BY <2>4, <2>6, <3>3
      <3>5. Resolved(which, hops[m].kind, f, << >>).fidelity = f
        BY DEF Resolved
      <3> QED BY <2>5, <3>4, <3>5 DEF ChainFidelity
    <2> QED BY <1>7, <1>9, <2>8, <2>9 DEF Resolved, s
  <1> QED BY <1>8, <1>9 DEF IsAdvisable

-----------------------------------------------------------------------------
(* What is known at each stage.                                            *)

AfterAll == {"planned", "measure", "checks", "calibrate", "reported"}
AfterScalars == {"warnings"} \union AfterAll
AfterNames == {"scalars"} \union AfterScalars
AfterPorts == {"names"} \union AfterNames
AfterTargets == {"ports"} \union AfterPorts
AfterDns == {"targets", "pairs"} \union AfterTargets
AfterTiming == {"dns"} \union AfterDns
AfterProfile == {"timing"} \union AfterTiming
AfterTransport == {"profile"} \union AfterProfile
AfterScan == {"transport"} \union AfterTransport
AfterFiles == {"scan"} \union AfterScan

(* The stages before s have passed.                                        *)
PassedBy(s) ==
  /\ s \in AfterFiles => FilesPass
  /\ s \in AfterScan => ScanPasses
  /\ s \in AfterTransport => TransportPasses
  /\ s \in AfterProfile => ProfilePasses
  /\ s \in AfterTiming => TimingPasses
  /\ s \in AfterDns => DnsPasses
  /\ s \in AfterTargets => TargetsPass
  /\ s \in AfterPorts => PortsPass
  /\ s \in AfterNames => NamesPass
  /\ s \in AfterScalars => LabelsPass
  /\ s = "pairs" => ByPairs
  /\ s \in {"targets", "ports"} => ~ByPairs

AllPass ==
  /\ FilesPass /\ ScanPasses /\ TransportPasses /\ ProfilePasses /\ TimingPasses
  /\ DnsPasses /\ TargetsPass /\ PortsPass /\ NamesPass /\ LabelsPass

(* What a plan p has that later stages read.                               *)
PlanAt(s, p) ==
  /\ s \in AfterTransport => "transport" \in DOMAIN p /\ p.transport = TransportNow
  /\ s = "timing" => /\ "profile" \in DOMAIN p /\ p.profile = ProfileNow
                     /\ "base" \in DOMAIN p /\ p.base = BaseNow
  /\ s \in {"targets", "pairs", "ports", "names"} => "dns" \in DOMAIN p /\ p.dns = DnsNow
  /\ s \in {"ports", "names"} => "targets" \in DOMAIN p /\ p.targets = TargetsNow

(* Advice is given of files that pass every stage, of a proxy, and of what *)
(* was measured; once followed, the files say it and still pass.           *)
Given(f) ==
  /\ Measurement(ExitOf(TransportNow).kind, f)
  /\ report.fidelity = {f} /\ report.advice = AdviceFor(TransportNow, f)
Followed == request.test = FALSE /\ report.fidelity = {TransportNow.fidelity}
AdviceStands ==
  report.advice # {} =>
    /\ stage \notin {"refused", "load", "measure", "checks"}
    /\ AllPass
    /\ IF stage \in {"calibrate", "reported"} THEN \E f \in Fidelities : Given(f) ELSE Followed

ReportStands == {"checks", "levels", "fidelity", "advice"} \subseteq DOMAIN report

AdviceInv ==
  IInv /\ ReportStands /\ PassedBy(stage) /\ PlanAt(stage, plan) /\ AdviceStands

(* Nothing moves while the command line and the files stay.                *)
LEMMA SettingsUnmoved ==
  ASSUME IInv, UNCHANGED <<request, files>>
  PROVE  UNCHANGED Settings /\ UNCHANGED <<TransportNow, TransportPasses, FilesPass>>
  <1>1. UNCHANGED <<cli, scan>>
    BY DEF cli, scan
  <1>2. GoodFiles(files) /\ SameButFidelity(files, files')
    BY DEF IInv, SameButFidelity
  <1>3. UNCHANGED TransportName
    BY <1>1 DEF TransportName
  <1>4. UNCHANGED TransportNow
    BY <1>3 DEF TransportNow
  <1>5. UNCHANGED Settings
    BY <1>1, <1>2, <1>4, SettingsStand
  <1> QED BY <1>4, <1>5 DEF TransportPasses, FilesPass

(* So what is known stays known.                                           *)
LEMMA KnownUnmoved ==
  ASSUME IInv, UNCHANGED <<request, files>>, NEW s, NEW p
  PROVE  /\ PassedBy(s) => PassedBy(s)'
         /\ PlanAt(s, p) => PlanAt(s, p)'
         /\ AllPass => AllPass'
  <1>1. UNCHANGED <<TransportNow, TransportPasses, FilesPass>>
        /\ UNCHANGED <<ProfileNow, BaseNow, ModeNow, DnsNow, ByPairs, TargetsNow>>
        /\ UNCHANGED <<ScanPasses, ProfilePasses, TimingPasses, DnsPasses, TargetsPass,
                       PortsPass, NamesPass, LabelsPass>>
    BY SettingsUnmoved DEF Settings
  <1>2. PassedBy(s) => PassedBy(s)'
    BY <1>1 DEF PassedBy
  <1>3. PlanAt(s, p) => PlanAt(s, p)'
    BY <1>1 DEF PlanAt
  <1>4. AllPass => AllPass'
    BY <1>1 DEF AllPass
  <1> QED BY <1>2, <1>3, <1>4

(* A stage that refuses only what is wrong keeps what is known.            *)
Moves(from, to, refusal, resolved) ==
  /\ AllPass => refusal = {}
  /\ refusal = {} => PassedBy(to) /\ PlanAt(to, With(plan, resolved))
  /\ from \notin {"calibrate", "reported"}
  /\ to \notin {"load", "refused", "checks", "calibrate", "reported"}
  /\ to = "measure" => request.test # FALSE

LEMMA StageMoves ==
  ASSUME AdviceInv, IInv', NEW from, NEW to, NEW refusal, NEW resolved, NEW origins,
         Stage(from, to, refusal, resolved, origins), UNCHANGED files,
         Moves(from, to, refusal, resolved)
  PROVE  AdviceInv'
  <1>0. /\ AllPass => refusal = {}
        /\ refusal = {} => PassedBy(to) /\ PlanAt(to, With(plan, resolved))
        /\ from \notin {"calibrate", "reported"}
        /\ to \notin {"load", "refused", "checks", "calibrate", "reported"}
        /\ to = "measure" => request.test # FALSE
    BY DEF Moves
  <1>1. UNCHANGED <<request, files, report>> /\ stage = from
    BY DEF Stage
  <1>2. ReportStands'
    BY <1>1 DEF AdviceInv, ReportStands
  <1>3. CASE refusal # {}
    <2>1. stage' = "refused"
      BY <1>3 DEF Stage
    <2>2. report.advice = {}
      BY <1>0, <1>3 DEF AdviceInv, AdviceStands
    <2>3. PassedBy(stage)' /\ PlanAt(stage, plan)'
      BY <2>1 DEF PassedBy, PlanAt, AfterAll, AfterScalars, AfterNames, AfterPorts, AfterTargets,
                  AfterDns, AfterTiming, AfterProfile, AfterTransport, AfterScan, AfterFiles
    <2>4. AdviceStands'
      BY <1>1, <2>2 DEF AdviceStands
    <2> QED BY <1>2, <2>3, <2>4 DEF AdviceInv
  <1>4. CASE refusal = {}
    <2>1. stage' = to /\ plan' = With(plan, resolved)
      BY <1>4 DEF Stage
    <2>2. PassedBy(to) /\ PlanAt(to, plan')
      BY <1>0, <1>4, <2>1
    <2>3. PassedBy(stage)' /\ PlanAt(stage, plan)'
      <3>1. \A s, p : (PassedBy(s) => PassedBy(s)') /\ (PlanAt(s, p) => PlanAt(s, p)')
        BY <1>1, KnownUnmoved DEF AdviceInv
      <3> QED BY <2>1, <2>2, <3>1
    <2>4. AdviceStands'
      <3>1. SUFFICES ASSUME report.advice # {}
                     PROVE  to # "measure" /\ AllPass' /\ Followed'
        BY <1>0, <1>1, <2>1 DEF AdviceStands
      <3>2. AllPass /\ Followed
        BY <1>0, <1>1, <3>1 DEF AdviceInv, AdviceStands
      <3>3. AllPass'
        BY <1>1, <3>2, KnownUnmoved DEF AdviceInv
      <3>4. Followed'
        <4>1. UNCHANGED TransportNow
          BY <1>1, SettingsUnmoved DEF AdviceInv
        <4> QED BY <1>1, <3>2, <4>1 DEF Followed
      <3>5. to # "measure"
        BY <1>0, <3>2 DEF Followed
      <3> QED BY <3>3, <3>4, <3>5
    <2> QED BY <1>2, <2>3, <2>4 DEF AdviceInv
  <1> QED BY <1>3, <1>4

(* Each stage refuses exactly when the files, as they are, do not pass it, *)
(* and resolves what the later stages are said to read.                    *)
LEMMA FilesStage == ASSUME AdviceInv, IInv', ValidateFiles PROVE AdviceInv'
  <1> DEFINE refusal == IF Validate(files) = {} THEN {} ELSE {"invalid"}
  <1>1. Stage("validate", "scan", refusal, << >>, << >>) /\ UNCHANGED files
    BY DEF ValidateFiles
  <1>2. refusal = {} <=> FilesPass
    BY DEF FilesPass
  <1> HIDE DEF refusal
  <1>3. AllPass => refusal = {}
    BY <1>2 DEF AllPass
  <1>4. refusal = {} => PassedBy("scan")
    BY <1>2 DEF PassedBy, AfterAll, AfterScalars, AfterNames, AfterPorts, AfterTargets,
                AfterDns, AfterTiming, AfterProfile, AfterTransport, AfterScan, AfterFiles
  <1>5. PlanAt("scan", With(plan, << >>))
    BY DEF PlanAt, AfterAll, AfterScalars, AfterNames, AfterPorts, AfterTargets,
           AfterDns, AfterTiming, AfterProfile, AfterTransport
  <1>6. Moves("validate", "scan", refusal, << >>)
    BY <1>3, <1>4, <1>5 DEF Moves
  <1> QED BY <1>1, <1>6, StageMoves

(* The scan.                                                               *)
LEMMA ScanStage == ASSUME AdviceInv, IInv', CheckScanExists PROVE AdviceInv'
  <1> DEFINE refusal == IF scan \subseteq ScanNames(files) THEN {} ELSE {"no_scan"}
  <1>1. Stage("scan", "transport", refusal, << >>, << >>) /\ UNCHANGED files
    BY DEF CheckScanExists
  <1>2. refusal = {} <=> ScanPasses
    BY DEF ScanPasses
  <1> HIDE DEF refusal
  <1>3. AllPass => refusal = {}
    BY <1>2 DEF AllPass
  <1>4. PassedBy("scan")
    BY <1>1 DEF AdviceInv, Stage
  <1>5. refusal = {} => PassedBy("transport")
    BY <1>2, <1>4
       DEF PassedBy, AfterAll, AfterScalars, AfterNames, AfterPorts, AfterTargets,
           AfterDns, AfterTiming, AfterProfile, AfterTransport, AfterScan, AfterFiles
  <1>6. PlanAt("transport", With(plan, << >>))
    BY DEF PlanAt, AfterAll, AfterScalars, AfterNames, AfterPorts, AfterTargets,
           AfterDns, AfterTiming, AfterProfile, AfterTransport
  <1>7. Moves("scan", "transport", refusal, << >>)
    BY <1>3, <1>5, <1>6 DEF Moves
  <1> QED BY <1>1, <1>7, StageMoves

(* The transport.                                                          *)
LEMMA TransportStage == ASSUME AdviceInv, IInv', ChooseTransport PROVE AdviceInv'
  <1> DEFINE refusal == IF TransportNow.ok THEN {} ELSE {TransportNow.problem}
             resolved == [transport |-> TransportNow]
             origins == [transport |-> TransportName]
  <1>1. Stage("transport", "profile", refusal, resolved, origins) /\ UNCHANGED files
    BY DEF ChooseTransport, TransportNow
  <1>2. refusal = {} <=> TransportPasses
    BY DEF TransportPasses
  <1>3. "transport" \in DOMAIN resolved /\ resolved["transport"] = TransportNow
    OBVIOUS
  <1> HIDE DEF refusal, resolved, origins
  <1>4. AllPass => refusal = {}
    BY <1>2 DEF AllPass
  <1>5. PassedBy("transport")
    BY <1>1 DEF AdviceInv, Stage
  <1>6. refusal = {} => PassedBy("profile")
    BY <1>2, <1>5
       DEF PassedBy, AfterAll, AfterScalars, AfterNames, AfterPorts, AfterTargets,
           AfterDns, AfterTiming, AfterProfile, AfterTransport, AfterScan, AfterFiles
  <1>7. "transport" \in DOMAIN With(plan, resolved)
        /\ With(plan, resolved)["transport"] = TransportNow
    BY <1>3, AddedFirst
  <1>8. PlanAt("profile", With(plan, resolved))
    BY <1>7 DEF PlanAt
  <1>9. Moves("transport", "profile", refusal, resolved)
    BY <1>4, <1>6, <1>8 DEF Moves
  <1> QED BY <1>1, <1>9, StageMoves

(* The profile.                                                            *)
LEMMA ProfileStage == ASSUME AdviceInv, IInv', ChooseProfile PROVE AdviceInv'
  <1> DEFINE refusal == ProfileProblem(ProfileNow)
             resolved == [profile |-> ProfileNow, base |-> BaseNow]
             origins == [profile |-> ProfileName(TransportNow)]
  <1>1. stage = "profile" /\ PassedBy("profile") /\ PlanAt("profile", plan)
    BY DEF ChooseProfile, Stage, AdviceInv
  <1>2. "transport" \in DOMAIN plan /\ plan.transport = TransportNow
    BY <1>1 DEF PlanAt, AfterTransport
  <1>3. Stage("profile", "timing", refusal, resolved, origins) /\ UNCHANGED files
    BY <1>2 DEF ChooseProfile, ProfileNow, BaseNow
  <1>4. refusal = {} <=> ProfilePasses
    BY DEF ProfilePasses
  <1>5. /\ "profile" \in DOMAIN resolved /\ resolved["profile"] = ProfileNow
        /\ "base" \in DOMAIN resolved /\ resolved["base"] = BaseNow
        /\ "transport" \notin DOMAIN resolved
    OBVIOUS
  <1> HIDE DEF refusal, resolved, origins
  <1>6. AllPass => refusal = {}
    BY <1>4 DEF AllPass
  <1>7. refusal = {} => PassedBy("timing")
    BY <1>1, <1>4
       DEF PassedBy, AfterAll, AfterScalars, AfterNames, AfterPorts, AfterTargets,
           AfterDns, AfterTiming, AfterProfile, AfterTransport, AfterScan, AfterFiles
  <1> DEFINE new == With(plan, resolved)
  <1>8. /\ "profile" \in DOMAIN new /\ new["profile"] = ProfileNow
        /\ "base" \in DOMAIN new /\ new["base"] = BaseNow
    BY <1>5, AddedFirst
  <1>9. "transport" \in DOMAIN new /\ new["transport"] = TransportNow
    BY <1>2, <1>5, AddingKeeps
  <1> HIDE DEF new
  <1>10. PlanAt("timing", new)
    BY <1>8, <1>9 DEF PlanAt
  <1>11. Moves("profile", "timing", refusal, resolved)
    BY <1>6, <1>7, <1>10 DEF Moves, new
  <1> QED BY <1>3, <1>11, StageMoves

(* The timing.                                                             *)
LEMMA TimingStage == ASSUME AdviceInv, IInv', ResolveTiming PROVE AdviceInv'
  <1> DEFINE refusal == TimingProblem(Timings(ProfileNow, BaseNow))
  <1>1. stage = "timing" /\ PassedBy("timing") /\ PlanAt("timing", plan)
    BY DEF ResolveTiming, Stage, AdviceInv
  <1>2. /\ "transport" \in DOMAIN plan /\ plan.transport = TransportNow
        /\ plan.profile = ProfileNow /\ plan.base = BaseNow
    BY <1>1 DEF PlanAt, AfterTransport, AfterProfile
  <1>3. PICK x, y, origins :
          Stage("timing", "dns", refusal, [timing |-> x, flags |-> y], origins)
          /\ UNCHANGED files
    BY <1>2 DEF ResolveTiming
  <1> DEFINE resolved == [timing |-> x, flags |-> y]
  <1>4. refusal = {} <=> TimingPasses
    BY DEF TimingPasses
  <1>5. "transport" \notin DOMAIN resolved
    OBVIOUS
  <1> HIDE DEF refusal, resolved
  <1>6. AllPass => refusal = {}
    BY <1>4 DEF AllPass
  <1>7. refusal = {} => PassedBy("dns")
    BY <1>1, <1>4
       DEF PassedBy, AfterAll, AfterScalars, AfterNames, AfterPorts, AfterTargets,
           AfterDns, AfterTiming, AfterProfile, AfterTransport, AfterScan, AfterFiles
  <1> DEFINE new == With(plan, resolved)
  <1>8. "transport" \in DOMAIN new /\ new["transport"] = TransportNow
    BY <1>2, <1>5, AddingKeeps
  <1> HIDE DEF new
  <1>9. PlanAt("dns", new)
    BY <1>8 DEF PlanAt
  <1>10. Moves("timing", "dns", refusal, resolved)
    BY <1>6, <1>7, <1>9 DEF Moves, new
  <1>11. Stage("timing", "dns", refusal, resolved, origins) /\ UNCHANGED files
    BY <1>3 DEF resolved
  <1> QED BY <1>10, <1>11, StageMoves

(* Name resolution, and the way to the endpoints.                          *)
LEMMA DnsStage == ASSUME AdviceInv, IInv', ResolveDns PROVE AdviceInv'
  <1> DEFINE refusal == DnsProblem(ModeNow, TransportNow)
             resolved == [requested |-> ModeNow, dns |-> DnsNow]
             origins == [dns |-> DnsMode(TransportNow)]
             to == IF ByPairs THEN "pairs" ELSE "targets"
  <1>1. stage = "dns" /\ PassedBy("dns") /\ PlanAt("dns", plan)
    BY DEF ResolveDns, Stage, AdviceInv
  <1>2. "transport" \in DOMAIN plan /\ plan.transport = TransportNow
    BY <1>1 DEF PlanAt, AfterTransport, AfterProfile, AfterTiming
  <1>3. Stage("dns", to, refusal, resolved, origins) /\ UNCHANGED files
    <2>1. to = IF Key(cli, "pairs") = {} THEN "targets" ELSE "pairs"
      BY DEF ByPairs
    <2> HIDE DEF to
    <2> QED BY <1>2, <2>1 DEF ResolveDns, ModeNow, DnsNow
  <1>4. refusal = {} <=> DnsPasses
    BY DEF DnsPasses
  <1>5. /\ "dns" \in DOMAIN resolved /\ resolved["dns"] = DnsNow
        /\ "transport" \notin DOMAIN resolved
    OBVIOUS
  <1>6. to \in {"targets", "pairs"} /\ (to = "pairs" <=> ByPairs)
    OBVIOUS
  <1> HIDE DEF refusal, resolved, origins, to
  <1>7. AllPass => refusal = {}
    BY <1>4 DEF AllPass
  <1>8. refusal = {} => PassedBy(to)
    <2>1. refusal = {} => PassedBy("targets") \/ ByPairs
      BY <1>1, <1>4
         DEF PassedBy, AfterAll, AfterScalars, AfterNames, AfterPorts, AfterTargets,
             AfterDns, AfterTiming, AfterProfile, AfterTransport, AfterScan, AfterFiles
    <2>2. refusal = {} => PassedBy("pairs") \/ ~ByPairs
      BY <1>1, <1>4
         DEF PassedBy, AfterAll, AfterScalars, AfterNames, AfterPorts, AfterTargets,
             AfterDns, AfterTiming, AfterProfile, AfterTransport, AfterScan, AfterFiles
    <2> QED BY <1>6, <2>1, <2>2
  <1> DEFINE new == With(plan, resolved)
  <1>9. "dns" \in DOMAIN new /\ new["dns"] = DnsNow
    BY <1>5, AddedFirst
  <1>10. "transport" \in DOMAIN new /\ new["transport"] = TransportNow
    BY <1>2, <1>5, AddingKeeps
  <1> HIDE DEF new
  <1>11. PlanAt(to, new)
    BY <1>6, <1>9, <1>10 DEF PlanAt
  <1>12. Moves("dns", to, refusal, resolved)
    BY <1>6, <1>7, <1>8, <1>11 DEF Moves, new
  <1> QED BY <1>3, <1>12, StageMoves

(* The targets of a matrix.                                                *)
LEMMA TargetsStage == ASSUME AdviceInv, IInv', ResolveTargets PROVE AdviceInv'
  <1> DEFINE refusal == TargetsProblem
             resolved == [targets |-> Expand(IncludedSpecs, ExcludedSpecs), pairs |-> {},
                          include |-> IncludedSpecs, exclude |-> ExcludedSpecs,
                          resumed_from |-> Key(cli, "resumed_from")]
  <1>1. stage = "targets" /\ PassedBy("targets") /\ PlanAt("targets", plan)
    BY DEF ResolveTargets, Stage, AdviceInv
  <1>2. /\ "transport" \in DOMAIN plan /\ plan.transport = TransportNow
        /\ "dns" \in DOMAIN plan /\ plan.dns = DnsNow
    BY <1>1 DEF PlanAt, AfterTransport, AfterProfile, AfterTiming, AfterDns
  <1>3. ~ByPairs
    BY <1>1 DEF PassedBy
  <1>4. Stage("targets", "ports", refusal, resolved, << >>) /\ UNCHANGED files
    BY DEF ResolveTargets
  <1>5. refusal = {} <=> TargetsPass
    BY <1>3 DEF TargetsPass
  <1>6. /\ "targets" \in DOMAIN resolved /\ resolved["targets"] = TargetsNow
        /\ "transport" \notin DOMAIN resolved /\ "dns" \notin DOMAIN resolved
    BY <1>3 DEF TargetsNow
  <1> HIDE DEF refusal, resolved
  <1>7. AllPass => refusal = {}
    BY <1>5 DEF AllPass
  <1>8. refusal = {} => PassedBy("ports")
    BY <1>1, <1>5
       DEF PassedBy, AfterAll, AfterScalars, AfterNames, AfterPorts, AfterTargets,
           AfterDns, AfterTiming, AfterProfile, AfterTransport, AfterScan, AfterFiles
  <1> DEFINE new == With(plan, resolved)
  <1>9. "targets" \in DOMAIN new /\ new["targets"] = TargetsNow
    BY <1>6, AddedFirst
  <1>10. "transport" \in DOMAIN new /\ new["transport"] = TransportNow
    BY <1>2, <1>6, AddingKeeps
  <1>11. "dns" \in DOMAIN new /\ new["dns"] = DnsNow
    BY <1>2, <1>6, AddingKeeps
  <1> HIDE DEF new
  <1>12. PlanAt("ports", new)
    BY <1>9, <1>10, <1>11 DEF PlanAt
  <1>13. Moves("targets", "ports", refusal, resolved)
    BY <1>7, <1>8, <1>12 DEF Moves, new
  <1> QED BY <1>4, <1>13, StageMoves

(* Its ports.                                                              *)
LEMMA PortsStage == ASSUME AdviceInv, IInv', ResolvePorts PROVE AdviceInv'
  <1> DEFINE refusal == PortsProblem
             resolved == [ports |-> ParsePorts(PortSpecs), port_specs |-> PortSpecs]
  <1>1. stage = "ports" /\ PassedBy("ports") /\ PlanAt("ports", plan)
    BY DEF ResolvePorts, Stage, AdviceInv
  <1>2. /\ "transport" \in DOMAIN plan /\ plan.transport = TransportNow
        /\ "dns" \in DOMAIN plan /\ plan.dns = DnsNow
        /\ "targets" \in DOMAIN plan /\ plan.targets = TargetsNow
    BY <1>1 DEF PlanAt, AfterTransport, AfterProfile, AfterTiming, AfterDns, AfterTargets
  <1>3. ~ByPairs
    BY <1>1 DEF PassedBy
  <1>4. Stage("ports", "names", refusal, resolved, << >>) /\ UNCHANGED files
    BY DEF ResolvePorts
  <1>5. refusal = {} <=> PortsPass
    BY <1>3 DEF PortsPass
  <1>6. /\ "transport" \notin DOMAIN resolved /\ "dns" \notin DOMAIN resolved
        /\ "targets" \notin DOMAIN resolved
    OBVIOUS
  <1> HIDE DEF refusal, resolved
  <1>7. AllPass => refusal = {}
    BY <1>5 DEF AllPass
  <1>8. refusal = {} => PassedBy("names")
    BY <1>1, <1>5
       DEF PassedBy, AfterAll, AfterScalars, AfterNames, AfterPorts, AfterTargets,
           AfterDns, AfterTiming, AfterProfile, AfterTransport, AfterScan, AfterFiles
  <1> DEFINE new == With(plan, resolved)
  <1>9. "targets" \in DOMAIN new /\ new["targets"] = TargetsNow
    BY <1>2, <1>6, AddingKeeps
  <1>10. "transport" \in DOMAIN new /\ new["transport"] = TransportNow
    BY <1>2, <1>6, AddingKeeps
  <1>11. "dns" \in DOMAIN new /\ new["dns"] = DnsNow
    BY <1>2, <1>6, AddingKeeps
  <1> HIDE DEF new
  <1>12. PlanAt("names", new)
    BY <1>9, <1>10, <1>11 DEF PlanAt
  <1>13. Moves("ports", "names", refusal, resolved)
    BY <1>7, <1>8, <1>12 DEF Moves, new
  <1> QED BY <1>4, <1>13, StageMoves

(* Endpoints given as pairs.                                               *)
LEMMA PairsStage == ASSUME AdviceInv, IInv', ResolvePairs PROVE AdviceInv'
  <1> DEFINE refusal == PairsProblem
  <1>1. stage = "pairs" /\ PassedBy("pairs") /\ PlanAt("pairs", plan)
    BY DEF ResolvePairs, Stage, AdviceInv
  <1>2. /\ "transport" \in DOMAIN plan /\ plan.transport = TransportNow
        /\ "dns" \in DOMAIN plan /\ plan.dns = DnsNow
    BY <1>1 DEF PlanAt, AfterTransport, AfterProfile, AfterTiming, AfterDns
  <1>3. ByPairs
    BY <1>1 DEF PassedBy
  <1>4. PICK p, q, f :
          Stage("pairs", "names", refusal,
                [targets |-> PairTargets, ports |-> p, pairs |-> q, include |-> << >>,
                 exclude |-> << >>, resumed_from |-> f], << >>)
          /\ UNCHANGED files
    BY DEF ResolvePairs
  <1> DEFINE resolved == [targets |-> PairTargets, ports |-> p, pairs |-> q, include |-> << >>,
                          exclude |-> << >>, resumed_from |-> f]
  <1>5. refusal = {} <=> TargetsPass /\ PortsPass
    BY <1>3 DEF TargetsPass, PortsPass
  <1>6. /\ "targets" \in DOMAIN resolved /\ resolved["targets"] = TargetsNow
        /\ "transport" \notin DOMAIN resolved /\ "dns" \notin DOMAIN resolved
    BY <1>3 DEF TargetsNow
  <1>7. Stage("pairs", "names", refusal, resolved, << >>) /\ UNCHANGED files
    BY <1>4
  <1> HIDE DEF refusal, resolved
  <1>8. AllPass => refusal = {}
    BY <1>5 DEF AllPass
  <1>9. refusal = {} => PassedBy("names")
    BY <1>1, <1>5
       DEF PassedBy, AfterAll, AfterScalars, AfterNames, AfterPorts, AfterTargets,
           AfterDns, AfterTiming, AfterProfile, AfterTransport, AfterScan, AfterFiles
  <1> DEFINE new == With(plan, resolved)
  <1>10. "targets" \in DOMAIN new /\ new["targets"] = TargetsNow
    BY <1>6, AddedFirst
  <1>11. "transport" \in DOMAIN new /\ new["transport"] = TransportNow
    BY <1>2, <1>6, AddingKeeps
  <1>12. "dns" \in DOMAIN new /\ new["dns"] = DnsNow
    BY <1>2, <1>6, AddingKeeps
  <1> HIDE DEF new
  <1>13. PlanAt("names", new)
    BY <1>10, <1>11, <1>12 DEF PlanAt
  <1>14. Moves("pairs", "names", refusal, resolved)
    BY <1>8, <1>9, <1>13 DEF Moves, new
  <1> QED BY <1>7, <1>14, StageMoves

(* The names among the targets.                                            *)
LEMMA NamesStage == ASSUME AdviceInv, IInv', ResolveNames PROVE AdviceInv'
  <1> DEFINE applied == ApplyDns(TargetsNow, DnsNow)
             refusal == NamesProblem(applied)
             resolved == [targets |-> applied.targets, resolved |-> applied.resolved]
  <1>1. stage = "names" /\ PassedBy("names") /\ PlanAt("names", plan)
    BY DEF ResolveNames, Stage, AdviceInv
  <1>2. /\ "transport" \in DOMAIN plan /\ plan.transport = TransportNow
        /\ plan.dns = DnsNow /\ plan.targets = TargetsNow
    BY <1>1 DEF PlanAt, AfterTransport, AfterProfile, AfterTiming, AfterDns, AfterTargets,
                AfterPorts
  <1>3. Stage("names", "scalars", refusal, resolved, << >>) /\ UNCHANGED files
    BY <1>2 DEF ResolveNames
  <1>4. refusal = {} <=> NamesPass
    BY DEF NamesPass
  <1>5. "transport" \notin DOMAIN resolved
    OBVIOUS
  <1> HIDE DEF refusal, resolved
  <1>6. AllPass => refusal = {}
    BY <1>4 DEF AllPass
  <1>7. refusal = {} => PassedBy("scalars")
    BY <1>1, <1>4
       DEF PassedBy, AfterAll, AfterScalars, AfterNames, AfterPorts, AfterTargets,
           AfterDns, AfterTiming, AfterProfile, AfterTransport, AfterScan, AfterFiles
  <1> DEFINE new == With(plan, resolved)
  <1>8. "transport" \in DOMAIN new /\ new["transport"] = TransportNow
    BY <1>2, <1>5, AddingKeeps
  <1> HIDE DEF new
  <1>9. PlanAt("scalars", new)
    BY <1>8 DEF PlanAt
  <1>10. Moves("names", "scalars", refusal, resolved)
    BY <1>6, <1>7, <1>9 DEF Moves, new
  <1> QED BY <1>3, <1>10, StageMoves

(* The rest, and the label table.                                          *)
LEMMA ScalarsStage == ASSUME AdviceInv, IInv', ResolveScalars PROVE AdviceInv'
  <1> DEFINE refusal == ServicesProblem
  <1>1. stage = "scalars" /\ PassedBy("scalars") /\ PlanAt("scalars", plan)
    BY DEF ResolveScalars, Stage, AdviceInv
  <1>2. "transport" \in DOMAIN plan /\ plan.transport = TransportNow
    BY <1>1 DEF PlanAt, AfterTransport, AfterProfile, AfterTiming, AfterDns, AfterTargets,
                AfterPorts, AfterNames
  <1>3. PICK x, y, origins :
          Stage("scalars", "warnings", refusal, [scalars |-> x, services |-> y], origins)
          /\ UNCHANGED files
    BY DEF ResolveScalars
  <1> DEFINE resolved == [scalars |-> x, services |-> y]
  <1>4. refusal = {} <=> LabelsPass
    BY DEF LabelsPass
  <1>5. "transport" \notin DOMAIN resolved
    OBVIOUS
  <1>6. Stage("scalars", "warnings", refusal, resolved, origins) /\ UNCHANGED files
    BY <1>3
  <1> HIDE DEF refusal, resolved
  <1>7. AllPass => refusal = {}
    BY <1>4 DEF AllPass
  <1>8. refusal = {} => PassedBy("warnings")
    BY <1>1, <1>4
       DEF PassedBy, AfterAll, AfterScalars, AfterNames, AfterPorts, AfterTargets,
           AfterDns, AfterTiming, AfterProfile, AfterTransport, AfterScan, AfterFiles
  <1> DEFINE new == With(plan, resolved)
  <1>9. "transport" \in DOMAIN new /\ new["transport"] = TransportNow
    BY <1>2, <1>5, AddingKeeps
  <1> HIDE DEF new
  <1>10. PlanAt("warnings", new)
    BY <1>9 DEF PlanAt
  <1>11. Moves("scalars", "warnings", refusal, resolved)
    BY <1>7, <1>8, <1>10 DEF Moves, new
  <1> QED BY <1>6, <1>11, StageMoves

(* The warnings refuse nothing; only a test is measured.                   *)
LEMMA WarningsStage == ASSUME AdviceInv, IInv', AddWarnings PROVE AdviceInv'
  <1> DEFINE to == IF request.test THEN "measure" ELSE "planned"
             resolved == [warnings |-> Warnings]
  <1>1. stage = "warnings" /\ PassedBy("warnings") /\ PlanAt("warnings", plan)
    BY DEF AddWarnings, Stage, AdviceInv
  <1>2. "transport" \in DOMAIN plan /\ plan.transport = TransportNow
    BY <1>1 DEF PlanAt, AfterTransport, AfterProfile, AfterTiming, AfterDns, AfterTargets,
                AfterPorts, AfterNames, AfterScalars
  <1>3. Stage("warnings", to, {}, resolved, << >>) /\ UNCHANGED files
    BY DEF AddWarnings
  <1>4. "transport" \notin DOMAIN resolved
    OBVIOUS
  <1>5. to \in {"measure", "planned"} /\ (to = "measure" => request.test # FALSE)
    OBVIOUS
  <1> HIDE DEF resolved, to
  <1>6. PassedBy(to)
    BY <1>1, <1>5
       DEF PassedBy, AfterAll, AfterScalars, AfterNames, AfterPorts, AfterTargets,
           AfterDns, AfterTiming, AfterProfile, AfterTransport, AfterScan, AfterFiles
  <1> DEFINE new == With(plan, resolved)
  <1>7. "transport" \in DOMAIN new /\ new["transport"] = TransportNow
    BY <1>2, <1>4, AddingKeeps
  <1> HIDE DEF new
  <1>8. PlanAt(to, new)
    BY <1>5, <1>7 DEF PlanAt
  <1>9. Moves("warnings", to, {}, resolved)
    BY <1>5, <1>6, <1>8 DEF Moves, new
  <1> QED BY <1>3, <1>9, StageMoves

-----------------------------------------------------------------------------
(* Loading files: no advice was given yet.                                 *)
LEMMA LoadAdvice == ASSUME AdviceInv, IInv', Load PROVE AdviceInv'
  <1>1. report.advice = {}
    BY DEF Load, AdviceInv, AdviceStands
  <1>2. report' = report /\ stage' \in {"refused", "validate"}
    BY DEF Load
  <1>3. PassedBy(stage)' /\ PlanAt(stage, plan)'
    BY <1>2 DEF PassedBy, PlanAt, AfterAll, AfterScalars, AfterNames, AfterPorts, AfterTargets,
                AfterDns, AfterTiming, AfterProfile, AfterTransport, AfterScan, AfterFiles
  <1>4. ReportStands' /\ AdviceStands'
    BY <1>1, <1>2 DEF AdviceInv, ReportStands, AdviceStands
  <1> QED BY <1>3, <1>4 DEF AdviceInv

(* Before a report is rendered there is no advice: the files say nothing   *)
(* of a measurement in progress.                                           *)
LEMMA MeasureAdvice == ASSUME AdviceInv, IInv', Measure PROVE AdviceInv'
  <1>1. stage = "measure" /\ UNCHANGED <<request, files, plan>>
    BY DEF Measure
  <1>2. report.advice = {} /\ ReportStands
    BY <1>1 DEF AdviceInv, AdviceStands
  <1>3. stage' \in {"refused", "reported", "checks"}
    BY DEF Measure, Measurable
  <1>4. ReportStands' /\ report'.advice = {}
    BY <1>2 DEF Measure, ReportStands
  <1>5. AdviceStands'
    BY <1>4 DEF AdviceStands
  <1>6. PassedBy("measure") /\ PlanAt("measure", plan)
    BY <1>1 DEF AdviceInv
  <1>7. PassedBy(stage') /\ PlanAt(stage', plan)
    BY <1>3, <1>6
       DEF PassedBy, PlanAt, AfterAll, AfterScalars, AfterNames, AfterPorts, AfterTargets,
           AfterDns, AfterTiming, AfterProfile, AfterTransport, AfterScan, AfterFiles
  <1>8. \A s, p : (PassedBy(s) => PassedBy(s)') /\ (PlanAt(s, p) => PlanAt(s, p)')
    BY <1>1, KnownUnmoved DEF AdviceInv
  <1>9. PassedBy(stage)' /\ PlanAt(stage, plan)'
    BY <1>1, <1>7, <1>8
  <1> QED BY <1>4, <1>5, <1>9 DEF AdviceInv

(* One check more.                                                         *)
LEMMA CheckAdvice == ASSUME AdviceInv, IInv', Check PROVE AdviceInv'
  <1>1. stage = "checks" /\ UNCHANGED <<request, files, stage, plan>>
    BY DEF Check
  <1>2. report.advice = {} /\ ReportStands
    BY <1>1 DEF AdviceInv, AdviceStands
  <1>3. ReportStands' /\ report'.advice = {}
    BY <1>2 DEF Check, ReportStands
  <1>4. AdviceStands'
    BY <1>3 DEF AdviceStands
  <1>5. PassedBy(stage)' /\ PlanAt(stage, plan)'
    <2>1. \A s, p : (PassedBy(s) => PassedBy(s)') /\ (PlanAt(s, p) => PlanAt(s, p)')
      BY <1>1, KnownUnmoved DEF AdviceInv
    <2> QED BY <1>1, <2>1 DEF AdviceInv
  <1> QED BY <1>3, <1>4, <1>5 DEF AdviceInv

(* What advice is given of is a measurement of the exit.                   *)
LEMMA AdviceIsMeasured ==
  ASSUME NEW r, NEW checks, NEW f, f = Judge(Path(r)[Len(Path(r))], checks), AdviceFor(r, f) # {}
  PROVE  Measurement(ExitOf(r).kind, f) /\ r.kind \in {"socks5", "chain"}
  <1>1. r.kind \in {"socks5", "chain"}
    BY DEF AdviceFor
  <1>2. Path(r)[Len(Path(r))] = ExitOf(r)
    <2>1. CASE r.kind = "socks5"
      <3>1. Path(r) = <<r>>
        BY <2>1 DEF Path
      <3>2. <<r>>[Len(<<r>>)] = r
        OBVIOUS
      <3> QED BY <2>1, <3>1, <3>2 DEF ExitOf
    <2>2. CASE r.kind = "chain"
      BY <2>2 DEF Path, ExitOf
    <2> QED BY <1>1, <2>1, <2>2
  <1>3. f \in {"unknown", "full", "open_only"} /\ (f = "full" => ExitOf(r).kind # "http")
    BY <1>2 DEF Judge
  <1>4. f # "unknown"
    BY DEF AdviceFor
  <1> QED BY <1>1, <1>3, <1>4 DEF Measurement

(* Advice is given of files that have passed every stage.                  *)
LEMMA ConcludeAdvice == ASSUME AdviceInv, IInv', Conclude PROVE AdviceInv'
  <1>0. PICK f : f = Judge(Exit, report.checks)
    OBVIOUS
  <1>1. stage = "checks" /\ UNCHANGED <<request, files, plan>>
    BY DEF Conclude
  <1>2. ReportStands /\ PassedBy("checks") /\ PlanAt("checks", plan)
    BY <1>1 DEF AdviceInv
  <1>3. plan.transport = TransportNow
    BY <1>2 DEF PlanAt, AfterAll, AfterScalars, AfterNames, AfterPorts, AfterTargets,
                AfterDns, AfterTiming, AfterProfile, AfterTransport
  <1>4. AllPass
    BY <1>2 DEF PassedBy, AllPass, AfterAll, AfterScalars, AfterNames, AfterPorts, AfterTargets,
                AfterDns, AfterTiming, AfterProfile, AfterTransport, AfterScan, AfterFiles
  <1>5. stage' \in {"calibrate", "reported"}
    BY DEF Conclude
  <1>6. /\ ReportStands' /\ report'.fidelity = {f}
        /\ report'.advice = AdviceFor(TransportNow, f)
    <2>1. report' = [report EXCEPT !.fidelity = {f}, !.advice = AdviceFor(TransportNow, f)]
      BY <1>0, <1>3 DEF Conclude
    <2> QED BY <1>2, <2>1 DEF ReportStands
  <1>7. f = Judge(Path(TransportNow)[Len(Path(TransportNow))], report.checks)
    BY <1>0, <1>3 DEF Exit
  <1>8. UNCHANGED TransportNow /\ AllPass'
    BY <1>1, <1>4, SettingsUnmoved, KnownUnmoved DEF AdviceInv
  <1>9. AdviceStands'
    <2>1. SUFFICES ASSUME report'.advice # {} PROVE \E g \in Fidelities : Given(g)'
      BY <1>5, <1>8 DEF AdviceStands
    <2>2. Measurement(ExitOf(TransportNow).kind, f)
      BY <1>6, <1>7, <2>1, AdviceIsMeasured
    <2>3. f \in Fidelities
      BY <2>2 DEF Measurement, Fidelities
    <2>4. Given(f)'
      BY <1>6, <1>8, <2>2 DEF Given
    <2> QED BY <2>3, <2>4
  <1>10. PassedBy(stage') /\ PlanAt(stage', plan)
    BY <1>2, <1>5
       DEF PassedBy, PlanAt, AfterAll, AfterScalars, AfterNames, AfterPorts, AfterTargets,
           AfterDns, AfterTiming, AfterProfile, AfterTransport, AfterScan, AfterFiles
  <1>11. PassedBy(stage)' /\ PlanAt(stage, plan)'
    <2>1. \A s, p : (PassedBy(s) => PassedBy(s)') /\ (PlanAt(s, p) => PlanAt(s, p)')
      BY <1>1, KnownUnmoved DEF AdviceInv
    <2> QED BY <1>1, <1>10, <2>1
  <1> QED BY <1>6, <1>9, <1>11 DEF AdviceInv

(* A calibration leaves the advice.                                        *)
LEMMA CalibrateAdvice == ASSUME AdviceInv, IInv', CalibrateLevel PROVE AdviceInv'
  <1>1. stage = "calibrate" /\ UNCHANGED <<request, files, plan>>
    BY DEF CalibrateLevel
  <1>2. stage' \in {"calibrate", "reported"}
    BY DEF CalibrateLevel
  <1>3. ReportStands
    BY DEF AdviceInv
  <1>4. /\ ReportStands' /\ report'.fidelity = report.fidelity
        /\ report'.advice = report.advice
    <2>1. PICK levels : report' = [report EXCEPT !.levels = levels]
      BY DEF CalibrateLevel
    <2> QED BY <1>3, <2>1 DEF ReportStands
  <1>5. UNCHANGED TransportNow /\ (AllPass => AllPass')
    BY <1>1, SettingsUnmoved, KnownUnmoved DEF AdviceInv
  <1>6. AdviceStands'
    <2>1. SUFFICES ASSUME report'.advice # {} PROVE AllPass' /\ \E g \in Fidelities : Given(g)'
      BY <1>2 DEF AdviceStands
    <2>2. AllPass /\ \E g \in Fidelities : Given(g)
      BY <1>1, <1>4, <2>1 DEF AdviceInv, AdviceStands
    <2>3. \A g : Given(g) => Given(g)'
      BY <1>4, <1>5 DEF Given
    <2> QED BY <1>5, <2>2, <2>3
  <1>7. PassedBy(stage) /\ PlanAt(stage, plan)
    BY DEF AdviceInv
  <1>8. PassedBy(stage') /\ PlanAt(stage', plan)
    BY <1>1, <1>2, <1>7
       DEF PassedBy, PlanAt, AfterAll, AfterScalars, AfterNames, AfterPorts, AfterTargets,
           AfterDns, AfterTiming, AfterProfile, AfterTransport, AfterScan, AfterFiles
  <1>9. PassedBy(stage)' /\ PlanAt(stage, plan)'
    <2>1. \A s, p : (PassedBy(s) => PassedBy(s)') /\ (PlanAt(s, p) => PlanAt(s, p)')
      BY <1>1, KnownUnmoved DEF AdviceInv
    <2> QED BY <1>1, <1>8, <2>1
  <1> QED BY <1>4, <1>6, <1>9 DEF AdviceInv

(* What the advice says, of a transport that may be advised about.         *)
LEMMA WhatAdviceSays ==
  ASSUME NEW r, NEW f, AdviceFor(r, f) # {}
  PROVE  /\ r.kind \in {"socks5", "chain"}
         /\ The(AdviceFor(r, f)) = [transport |-> ExitOf(r).name, fidelity |-> f]
  <1>1. r.kind \in {"socks5", "chain"}
    BY DEF AdviceFor
  <1> DEFINE advice == [transport |-> ExitOf(r).name, fidelity |-> f]
  <1>2. AdviceFor(r, f) = {advice}
    BY <1>1 DEF AdviceFor, ExitOf
  <1> HIDE DEF advice
  <1>3. The({advice}) = advice
    BY TheMember
  <1> QED BY <1>1, <1>2, <1>3 DEF advice

(* Written where the advice says, what was measured is what the planner reads:*)
(* no stage refuses now, and the transport has that fidelity.              *)
LEMMA FollowAdviceStep ==
  ASSUME AdviceInv, IInv', FollowAdvice
  PROVE  AdviceInv' /\ UNCHANGED Settings
  <1>1. /\ stage = "reported" /\ report.advice # {} /\ stage' = "validate"
        /\ request' = [request EXCEPT !.test = FALSE] /\ report' = report
    BY DEF FollowAdvice
  <1>2. AllPass /\ \E g \in Fidelities : Given(g)
    BY <1>1 DEF AdviceInv, AdviceStands
  <1>3. PICK f \in Fidelities : Given(f)
    BY <1>2
  <1>4. PICK which : which = ExitOf(TransportNow).name
    OBVIOUS
  <1>5. PICK k : k = The(TransportDef(files, which)).layer
    OBVIOUS
  <1>6. /\ TransportNow.kind \in {"socks5", "chain"}
        /\ The(report.advice) = [transport |-> which, fidelity |-> f]
    BY <1>1, <1>3, <1>4, WhatAdviceSays DEF Given
  <1>7. files' = [files EXCEPT ![k].transports[which] = With(@, [fidelity |-> f])]
    <2> DEFINE a == The(report.advice)
    <2>1. a.transport = which /\ a.fidelity = f
      BY <1>6
    <2>2. files' =
            [files EXCEPT ![The(TransportDef(files, a.transport)).layer].transports[a.transport] =
               With(@, [fidelity |-> a.fidelity])]
      BY DEF FollowAdvice
    <2> HIDE DEF a
    <2> QED BY <1>5, <2>1, <2>2
  <1>8. RequestStands /\ GoodFiles(files) /\ GoodFiles(files')
    BY DEF AdviceInv, IInv
  <1>9. cli' = cli /\ scan' = scan /\ request'.test = FALSE
    BY <1>1, <1>8 DEF RequestStands, cli, scan
  <1>10. PICK name : name = TransportName.value
    OBVIOUS
  <1>11. name \in Name
    BY <1>8, <1>10, PickedIsAName, PlanningAssumption DEF TransportName, RequestStands, cli
  <1>12. PICK r : r = TransportNow
    OBVIOUS
  <1>13. r = ResolveTransport(files, name) /\ IsAdvisable(r) /\ which = ExitOf(r).name
    BY <1>2, <1>4, <1>6, <1>10, <1>12 DEF TransportNow, AllPass, TransportPasses, IsAdvisable
  <1>14. /\ ExitOf(r).kind \in {"socks5", "http"} /\ TransportDef(files, which) # {}
         /\ TypeOf(Table(files, which)) = ExitOf(r).kind
    BY <1>8, <1>11, <1>13, WhoIsAdvised
  <1>15. /\ SameButFidelity(files, files')
         /\ \A n : n # which => TransportDef(files', n) = TransportDef(files, n)
         /\ TransportDef(files', which) # {}
         /\ Table(files', which) = With(Table(files, which), [fidelity |-> f])
         /\ k \in DOMAIN files /\ which \in DOMAIN files[k].transports
         /\ Table(files, which) = files[k].transports[which]
         /\ \A j \in DOMAIN files : \A n \in DOMAIN files[j].transports :
              files'[j].transports[n] =
                IF j = k /\ n = which THEN With(files[k].transports[which], [fidelity |-> f])
                ELSE files[j].transports[n]
    <2>1. PICK gs : gs = files'
      OBVIOUS
    <2>2. Revised(files, gs, which, k, f)
      BY <1>5, <1>7, <2>1 DEF Revised
    <2>3. Rewritten(files, gs, which, k, f)
      BY <1>8, <1>14, <2>2, AdvisedFiles
    <2> QED BY <2>1, <2>3 DEF Rewritten, Table
  <1>16. Measurement(ExitOf(r).kind, f)
    BY <1>3, <1>12 DEF Given
  <1>17. Advised(files, files', which, f)
    BY <1>8, <1>14, <1>15, <1>16 DEF Advised
  <1>18. UNCHANGED TransportName
    BY <1>8, <1>9, <1>15, SameCascades DEF TransportName
  <1>19. /\ TransportNow'.ok /\ TransportNow'.kind = TransportNow.kind
         /\ TransportNow'.name = TransportNow.name /\ TransportNow'.fidelity = f
    <2>1. TransportNow' = ResolveTransport(files', name)
      BY <1>10, <1>18 DEF TransportNow
    <2> QED BY <1>11, <1>12, <1>13, <1>17, <2>1, AdviceIsTaken
  <1>20. UNCHANGED Settings
    BY <1>8, <1>9, <1>15, <1>19, SettingsStand
  <1>21. FilesPass'
    <2>1. Validate(files) = {}
      BY <1>2 DEF AllPass, FilesPass
    <2>2. ASSUME NEW j \in DOMAIN files, NEW n \in DOMAIN files[j].transports,
                 ValidateTransport(files[j].transports[n]) = {}
          PROVE  ValidateTransport(files'[j].transports[n]) = {}
      <3>1. CASE j = k /\ n = which
        <4> DEFINE t == files[k].transports[which]
        <4>1. PICK kind : kind = ExitOf(r).kind
          OBVIOUS
        <4>2. kind \in {"socks5", "http"} /\ The(Or(Key(t, "type"), {"direct"})) = kind
          BY <1>14, <1>15, <4>1 DEF TypeOf
        <4>3. ValidateTransport(t) = {} /\ Measurement(kind, f)
          BY <1>16, <2>2, <3>1, <4>1
        <4>4. files'[j].transports[n] = With(t, [fidelity |-> f])
          BY <1>15, <3>1
        <4> HIDE DEF t
        <4>5. Key(t, "type") = {kind}
          BY <4>2, TypeOfAProxy
        <4> QED BY <4>2, <4>3, <4>4, <4>5, TransportStaysValid
      <3>2. CASE ~(j = k /\ n = which)
        <4>1. files'[j].transports[n] = files[j].transports[n]
          BY <1>15, <3>2
        <4> QED BY <2>2, <4>1
      <3> QED BY <3>1, <3>2
    <2>3. Validate(files') = {}
      BY <1>8, <1>15, <2>1, <2>2, FilesStayValid
    <2> QED BY <2>3 DEF FilesPass
  <1>22. AllPass'
    BY <1>2, <1>19, <1>20, <1>21 DEF AllPass, TransportPasses, Settings
  <1>23. Followed'
    BY <1>1, <1>3, <1>9, <1>19 DEF Followed, Given
  <1>24. AdviceStands'
    BY <1>1, <1>22, <1>23 DEF AdviceStands
  <1>25. PassedBy(stage)' /\ PlanAt(stage, plan)'
    BY <1>1 DEF PassedBy, PlanAt, AfterAll, AfterScalars, AfterNames, AfterPorts, AfterTargets,
                AfterDns, AfterTiming, AfterProfile, AfterTransport, AfterScan, AfterFiles
  <1>26. ReportStands'
    BY <1>1 DEF AdviceInv, ReportStands
  <1> QED BY <1>20, <1>24, <1>25, <1>26 DEF AdviceInv

(* No advice is given of a command that has not begun.                     *)
LEMMA AdviceInit == Init => AdviceInv
  <1> SUFFICES ASSUME Init PROVE AdviceInv
    OBVIOUS
  <1>1. ReportStands /\ AdviceStands
    BY DEF Init, NoReport, ReportStands, AdviceStands
  <1>2. PassedBy(stage) /\ PlanAt(stage, plan)
    BY DEF Init, PassedBy, PlanAt, AfterAll, AfterScalars, AfterNames, AfterPorts, AfterTargets,
           AfterDns, AfterTiming, AfterProfile, AfterTransport, AfterScan, AfterFiles
  <1> QED BY <1>1, <1>2, InvInit DEF AdviceInv

(* Every step keeps the advice sound.                                      *)
LEMMA AdviceNext == AdviceInv /\ [Next]_vars => AdviceInv'
  <1> SUFFICES ASSUME AdviceInv, [Next]_vars PROVE AdviceInv'
    OBVIOUS
  <1>1. IInv'
    BY InvNext DEF AdviceInv
  <1>2. CASE UNCHANGED vars
    <2>1. UNCHANGED <<request, files, stage, plan, report>>
      BY <1>2 DEF vars
    <2>2. ReportStands' /\ PassedBy(stage) /\ PlanAt(stage, plan)
      BY <2>1 DEF AdviceInv, ReportStands
    <2>3. PassedBy(stage)' /\ PlanAt(stage, plan)'
      <3>1. \A s, p : (PassedBy(s) => PassedBy(s)') /\ (PlanAt(s, p) => PlanAt(s, p)')
        BY <2>1, KnownUnmoved DEF AdviceInv
      <3> QED BY <2>1, <2>2, <3>1
    <2>4. UNCHANGED TransportNow /\ (AllPass => AllPass')
      BY <2>1, SettingsUnmoved, KnownUnmoved DEF AdviceInv
    <2>5. Followed' <=> Followed
      BY <2>1, <2>4 DEF Followed
    <2>6. \A g : Given(g)' <=> Given(g)
      BY <2>1, <2>4 DEF Given
    <2>7. AdviceStands
      BY DEF AdviceInv
    <2>8. AdviceStands'
      BY <2>1, <2>4, <2>5, <2>6, <2>7 DEF AdviceStands
    <2> QED BY <1>1, <2>2, <2>3, <2>8 DEF AdviceInv
  <1>3. CASE Load
    BY <1>1, <1>3, LoadAdvice
  <1>4. CASE ValidateFiles \/ CheckScanExists \/ ChooseTransport \/ ChooseProfile
    BY <1>1, <1>4, FilesStage, ScanStage, TransportStage, ProfileStage
  <1>5. CASE ResolveTiming \/ ResolveDns \/ ResolveTargets \/ ResolvePorts \/ ResolvePairs
    BY <1>1, <1>5, TimingStage, DnsStage, TargetsStage, PortsStage, PairsStage
  <1>6. CASE ResolveNames \/ ResolveScalars \/ AddWarnings
    BY <1>1, <1>6, NamesStage, ScalarsStage, WarningsStage
  <1>7. CASE Measure \/ Check \/ Conclude \/ CalibrateLevel
    BY <1>1, <1>7, MeasureAdvice, CheckAdvice, ConcludeAdvice, CalibrateAdvice
  <1>8. CASE FollowAdvice
    BY <1>1, <1>8, FollowAdviceStep
  <1> QED BY <1>2, <1>3, <1>4, <1>5, <1>6, <1>7, <1>8 DEF Next, Over

(* What "transport test" tells the operator to write can be written, for   *)
(* every configuration and every answer of the measured proxy: the files   *)
(* still validate, no stage of resolution refuses what it did not refuse   *)
(* before, and the transport has exactly the fidelity that was measured.   *)
(* The advice names the one table the planner reads the measured exit      *)
(* from, through any chain (judge, render, resolve).                       *)
THEOREM AdviceCanBeFollowed == Spec => []AdviceIsSound
  <1>1. AdviceInv => AdviceIsSound
    <2> SUFFICES ASSUME AdviceInv, report.advice # {}
                 PROVE  /\ stage # "refused"
                        /\ Planned => {plan.transport.fidelity} = report.fidelity
      BY DEF AdviceIsSound
    <2>1. stage # "refused" /\ (stage = "planned" => Followed)
      BY DEF AdviceInv, AdviceStands
    <2>2. stage = "planned" => plan.transport = TransportNow
      BY DEF AdviceInv, PlanAt, AfterAll, AfterScalars, AfterNames, AfterPorts, AfterTargets,
             AfterDns, AfterTiming, AfterProfile, AfterTransport
    <2> QED BY <2>1, <2>2 DEF Planned, Followed
  <1> QED BY <1>1, AdviceInit, AdviceNext, PTL DEF Spec

-----------------------------------------------------------------------------
(* Lists: what is enumerated, picked and told apart.                       *)

(* A list without repetitions.                                             *)
OneToOne(s) == \A j, k \in DOMAIN s : s[j] = s[k] => j = k

(* A list of the elements of S, each once.                                 *)
Enumerates(s, S) == IsList(s) /\ ToSet(s) = S /\ OneToOne(s) /\ Len(s) = Cardinality(S)

(* Of two elements the one before has less before it.                      *)
Orders(below, S) ==
  /\ \A x \in S : below[x] \subseteq S /\ x \notin below[x]
  /\ \A x, y \in S : x # y => \/ x \in below[y] /\ below[x] \subseteq below[y]
                              \/ y \in below[x] /\ below[y] \subseteq below[x]

(* A list is a function on the numbers up to its length.                   *)
LEMMA ListIsFunction ==
  ASSUME NEW n \in Nat, NEW s, s = [k \in 1 .. n |-> s[k]]
  PROVE  IsList(s) /\ Len(s) = n /\ DOMAIN s = 1 .. n
  <1>1. DOMAIN s = 1 .. n
    OBVIOUS
  <1>2. \A k \in 1 .. n : s[k] \in ToSet(s)
    BY <1>1 DEF ToSet
  <1>3. s \in [1 .. n -> ToSet(s)]
    BY <1>1, <1>2
  <1>4. s \in Seq(ToSet(s))
    BY <1>3
  <1> QED BY <1>1, <1>4 DEF IsList

(* What InOrder lists are the elements, each once.                         *)
LEMMA InOrderEnumerates ==
  ASSUME NEW S, IsFiniteSet(S), NEW below, Orders(below, S)
  PROVE  Enumerates(InOrder(S, below), S)
  <1> DEFINE n == Cardinality(S)
             before(x) == Cardinality(below[x])
             rank == [x \in S |-> before(x) + 1]
             s == InOrder(S, below)
  <1>1. n \in Nat
    BY FS_CardinalityType
  <1>2. ASSUME NEW x \in S PROVE IsFiniteSet(below[x]) /\ before(x) \in Nat /\ before(x) < n
    <2>1. below[x] \in SUBSET S /\ below[x] # S
      BY DEF Orders
    <2>2. IsFiniteSet(below[x]) /\ before(x) <= n /\ before(x) # n
      BY <2>1, FS_Subset
    <2>3. before(x) \in Nat
      BY <2>2, FS_CardinalityType
    <2> HIDE DEF n, before
    <2> QED BY <1>1, <2>2, <2>3
  <1>3. ASSUME NEW x \in S, NEW y \in S, x \in below[y], below[x] \subseteq below[y]
        PROVE  before(x) # before(y)
    <2>1. below[x] # below[y]
      BY <1>3 DEF Orders
    <2>2. below[x] \in SUBSET below[y]
      BY <1>3
    <2> QED BY <1>2, <2>1, <2>2, FS_Subset
  <1>4. ASSUME NEW x \in S, NEW y \in S, before(x) = before(y) PROVE x = y
    BY <1>3, <1>4 DEF Orders
  <1> HIDE DEF before, n
  <1>5. rank \in Injection(S, 1 .. n)
    <2>1. rank \in [S -> 1 .. n]
      BY <1>1, <1>2
    <2>2. \A x, y \in S : rank[x] = rank[y] => x = y
      BY <1>2, <1>4
    <2> HIDE DEF rank
    <2> QED BY <2>1, <2>2 DEF Injection, IsInjective
  <1>6. rank \in Surjection(S, 1 .. n)
    <2>1. IsFiniteSet(1 .. n) /\ Cardinality(1 .. n) = n
      BY <1>1, FS_Interval
    <2> HIDE DEF rank
    <2> QED BY <1>5, <2>1, FS_Injection DEF n
  <1>7. ASSUME NEW k \in 1 .. n PROVE \E x \in S : before(x) = k - 1
    <2>1. PICK x \in S : rank[x] = k
      <3> HIDE DEF rank
      <3> QED BY <1>6 DEF Surjection
    <2>2. before(x) = k - 1
      BY <1>2, <2>1
    <2> QED BY <2>2
  <1>8. s = [k \in 1 .. n |-> CHOOSE x \in S : before(x) = k - 1]
    BY DEF InOrder, before, n
  <1> HIDE DEF s
  <1>9. IsList(s) /\ Len(s) = n /\ DOMAIN s = 1 .. n
    <2>1. s = [k \in 1 .. n |-> s[k]]
      BY <1>8
    <2> QED BY <1>1, <2>1, ListIsFunction
  <1>10. ASSUME NEW k \in 1 .. n PROVE s[k] \in S /\ before(s[k]) = k - 1
    <2>1. s[k] = CHOOSE x \in S : before(x) = k - 1
      BY <1>8
    <2> QED BY <1>7, <2>1
  <1>11. OneToOne(s)
    <2> SUFFICES ASSUME NEW j \in 1 .. n, NEW k \in 1 .. n, s[j] = s[k] PROVE j = k
      BY <1>9 DEF OneToOne
    <2>1. j - 1 = k - 1
      BY <1>10
    <2> QED BY <1>1, <2>1
  <1>12. ASSUME NEW x \in S PROVE x \in ToSet(s)
    <2>1. before(x) + 1 \in 1 .. n /\ (before(x) + 1) - 1 = before(x)
      BY <1>1, <1>2
    <2>2. x = s[before(x) + 1]
      BY <1>4, <1>10, <2>1
    <2> QED BY <1>9, <2>1, <2>2 DEF ToSet
  <1>13. ToSet(s) = S
    BY <1>9, <1>10, <1>12 DEF ToSet
  <1> QED BY <1>9, <1>11, <1>13 DEF Enumerates, s, n

LEMMA AscendingEnumerates ==
  ASSUME NEW S \in SUBSET Int, IsFiniteSet(S)
  PROVE  Enumerates(Ascending(S), S)
  <1> DEFINE below == [x \in S |-> {y \in S : y < x}]
  <1>1. \A x \in S : below[x] = {y \in S : y < x}
    OBVIOUS
  <1>2. Orders(below, S)
    <2> HIDE DEF below
    <2>1. \A x \in S : below[x] \subseteq S /\ x \notin below[x]
      <3>1. \A x \in S : ~(x < x)
        OBVIOUS
      <3> QED BY <1>1, <3>1
    <2>2. ASSUME NEW x \in S, NEW y \in S, x < y
          PROVE  x \in below[y] /\ below[x] \subseteq below[y]
      <3>1. \A z \in S : z < x => z < y
        BY <2>2
      <3> QED BY <1>1, <2>2, <3>1
    <2>3. \A x, y \in S : x # y => x < y \/ y < x
      OBVIOUS
    <2> QED BY <2>1, <2>2, <2>3 DEF Orders
  <1> HIDE DEF below
  <1>3. Enumerates(InOrder(S, below), S)
    BY <1>2, InOrderEnumerates
  <1> QED BY <1>3 DEF Ascending, below

(* What is picked of a list.                                               *)
LEMMA PickedIs ==
  ASSUME NEW s, IsList(s), NEW K \in SUBSET DOMAIN s
  PROVE  /\ IsList(Picked(s, K)) /\ Len(Picked(s, K)) = Cardinality(K)
         /\ ToSet(Picked(s, K)) = {s[k] : k \in K}
         /\ (\A j, k \in K : s[j] = s[k] => j = k) => OneToOne(Picked(s, K))
  <1> DEFINE places == Ascending(K)
             p == Picked(s, K)
             n == Len(places)
  <1>1. DOMAIN s = 1 .. Len(s) /\ Len(s) \in Nat
    BY DEF IsList
  <1>2. IsFiniteSet(K) /\ K \in SUBSET Int
    <2>1. IsFiniteSet(1 .. Len(s))
      BY <1>1, FS_Interval
    <2>2. K \in SUBSET (1 .. Len(s))
      BY <1>1
    <2> QED BY <2>1, <2>2, FS_Subset
  <1>3. Enumerates(places, K)
    BY <1>2, AscendingEnumerates
  <1> HIDE DEF places
  <1>4. n \in Nat /\ DOMAIN places = 1 .. n /\ n = Cardinality(K)
    BY <1>3 DEF Enumerates, IsList
  <1>5. p = [j \in 1 .. n |-> s[places[j]]]
    BY <1>4 DEF Picked, places
  <1> HIDE DEF p, n
  <1>6. IsList(p) /\ Len(p) = n /\ DOMAIN p = 1 .. n
    <2>1. p = [j \in 1 .. n |-> p[j]]
      BY <1>5
    <2> QED BY <1>4, <2>1, ListIsFunction
  <1>7. \A j \in 1 .. n : p[j] = s[places[j]] /\ places[j] \in K
    BY <1>3, <1>4, <1>5 DEF Enumerates, ToSet
  <1>8. \A k \in K : \E j \in 1 .. n : places[j] = k
    BY <1>3, <1>4 DEF Enumerates, ToSet
  <1>9. ToSet(p) = {s[k] : k \in K}
    <2>1. ToSet(p) = {p[j] : j \in 1 .. n}
      BY <1>6 DEF ToSet
    <2> QED BY <1>7, <1>8, <2>1
  <1>10. (\A j, k \in K : s[j] = s[k] => j = k) => OneToOne(p)
    <2> SUFFICES ASSUME \A j, k \in K : s[j] = s[k] => j = k,
                        NEW i \in 1 .. n, NEW j \in 1 .. n, p[i] = p[j]
                 PROVE  i = j
      BY <1>6 DEF OneToOne
    <2>1. places[i] = places[j]
      BY <1>7
    <2> QED BY <1>3, <1>4, <2>1 DEF Enumerates, OneToOne
  <1> QED BY <1>4, <1>6, <1>9, <1>10 DEF p

(* A non-empty set of natural numbers has a least one.                     *)
LEMMA LeastIsIn ==
  ASSUME NEW S \in SUBSET Nat, S # {}
  PROVE  \E m \in S : \A y \in S : m <= y
  <1>1. PICK m \in S : \A y \in S : ~ (<<y, m>> \in OpToRel(<, Nat))
    BY NatLessThanWellFounded, WFMin
  <1>2. ASSUME NEW y \in S PROVE m <= y
    <2>1. ~ (y < m)
      BY <1>1 DEF OpToRel
    <2> QED BY <2>1
  <1> QED BY <1>2

(* The elements of a list, each once.                                      *)
LEMMA DistinctIs ==
  ASSUME NEW s, IsList(s)
  PROVE  IsList(Distinct(s)) /\ ToSet(Distinct(s)) = ToSet(s) /\ OneToOne(Distinct(s))
  <1> DEFINE first == {k \in DOMAIN s : \A j \in 1 .. (k - 1) : s[j] # s[k]}
  <1>1. DOMAIN s = 1 .. Len(s) /\ Len(s) \in Nat
    BY DEF IsList
  <1>2. ASSUME NEW j \in first, NEW k \in first, s[j] = s[k] PROVE j = k
    <2>1. ~(j < k)
      BY <1>1, <1>2
    <2>2. ~(k < j)
      BY <1>1, <1>2
    <2> QED BY <1>1, <2>1, <2>2
  <1>3. ASSUME NEW i \in DOMAIN s PROVE \E k \in first : s[k] = s[i]
    <2> DEFINE same == {k \in DOMAIN s : s[k] = s[i]}
    <2>1. same \in SUBSET Nat /\ same # {}
      BY <1>1
    <2>2. PICK k \in same : \A j \in same : k <= j
      <3> HIDE DEF same
      <3> QED BY <2>1, LeastIsIn
    <2>3. \A j \in 1 .. (k - 1) : s[j] # s[k]
      BY <1>1, <2>2
    <2> QED BY <2>2, <2>3
  <1>4. first \in SUBSET DOMAIN s
    OBVIOUS
  <1>5. Distinct(s) = Picked(s, first)
    BY DEF Distinct
  <1>6. {s[k] : k \in first} = ToSet(s)
    BY <1>3, <1>4 DEF ToSet
  <1> HIDE DEF first
  <1>7. \A j, k \in first : s[j] = s[k] => j = k
    BY <1>2
  <1> QED BY <1>4, <1>5, <1>6, <1>7, PickedIs

(* What holds at zero and is kept by each next number holds of all.        *)
LEMMA Throughout ==
  ASSUME NEW T, 0 \in T, \A n \in Nat : n \in T => n + 1 \in T
  PROVE  Nat \subseteq T
  <1> DEFINE Bad == {n \in Nat : n \notin T}
  <1>1. SUFFICES ASSUME Bad # {} PROVE FALSE
    OBVIOUS
  <1>2. PICK m \in Bad : \A y \in Bad : m <= y
    <2>1. Bad \in SUBSET Nat
      OBVIOUS
    <2> HIDE DEF Bad
    <2> QED BY <1>1, <2>1, LeastIsIn
  <1>3. m \in Nat /\ m \notin T /\ m # 0
    BY <1>2
  <1>4. m - 1 \in Nat /\ (m - 1) + 1 = m
    BY <1>3
  <1>5. m - 1 \notin Bad
    BY <1>2, <1>4
  <1> QED BY <1>3, <1>4, <1>5

(* The lists of a list, one behind the other: so many of them, joined.     *)
Joining(seqs) ==
  LET f[n \in Nat] == IF n = 0 THEN <<1, seqs[1]>> ELSE JoinStep(seqs, f[n - 1]) IN f

LEMMA JoiningGoes ==
  ASSUME NEW seqs
  PROVE  /\ Joining(seqs)[0] = <<1, seqs[1]>>
         /\ \A n \in Nat : Joining(seqs)[n + 1] = JoinStep(seqs, Joining(seqs)[n])
  <1> DEFINE p == <<"join", seqs>>
             Is(f) == f = [n \in Nat |-> IF n = 0 THEN <<1, seqs[1]>> ELSE JoinStep(seqs, f[n - 1])]
  <1>1. \A y : Step(p, y) = JoinStep(seqs, y)
    BY DEF Step
  <1> HIDE DEF p
  <1>2. PICK g : IsIteration(p, <<1, seqs[1]>>, g)
    BY IterationExists
  <1>3. Is(g)
    BY <1>1, <1>2 DEF IsIteration
  <1>4. Joining(seqs) = CHOOSE f : Is(f)
    BY DEF Joining
  <1> DEFINE it == Joining(seqs)
  <1>5. Is(it)
    <2> HIDE DEF Is
    <2> QED BY <1>3, <1>4
  <1> HIDE DEF it
  <1>6. it[0] = <<1, seqs[1]>>
    BY <1>5
  <1>7. ASSUME NEW n \in Nat PROVE it[n + 1] = JoinStep(seqs, it[n])
    <2>1. n + 1 \in Nat /\ n + 1 # 0 /\ (n + 1) - 1 = n
      OBVIOUS
    <2> HIDE DEF p
    <2>2. it[n + 1] = IF n + 1 = 0 THEN <<1, seqs[1]>> ELSE JoinStep(seqs, it[(n + 1) - 1])
      BY <1>5, <2>1
    <2> QED BY <2>1, <2>2
  <1> QED BY <1>6, <1>7 DEF it

Joined(seqs, i) == Joining(seqs)[i - 1]

LEMMA JoinedOne == ASSUME NEW seqs PROVE Joined(seqs, 1) = <<1, seqs[1]>>
  <1>1. Joining(seqs)[0] = <<1, seqs[1]>>
    BY JoiningGoes
  <1> QED BY <1>1 DEF Joined

LEMMA JoinedNext ==
  ASSUME NEW seqs, NEW i \in Nat, i > 0
  PROVE  Joined(seqs, i + 1) = JoinStep(seqs, Joined(seqs, i))
  <1>1. i - 1 \in Nat /\ (i - 1) + 1 = i /\ (i + 1) - 1 = i
    OBVIOUS
  <1>2. Joining(seqs)[(i - 1) + 1] = JoinStep(seqs, Joining(seqs)[i - 1])
    BY <1>1, JoiningGoes
  <1> QED BY <1>1, <1>2 DEF Joined

LEMMA JoinedFirst ==
  ASSUME NEW seqs, NEW i \in Nat
  PROVE  Joined(seqs, i + 1)[1] = i + 1
  <1> DEFINE T == {n \in Nat : Joined(seqs, n + 1)[1] = n + 1}
  <1>1. 0 \in T
    BY JoinedOne
  <1>2. ASSUME NEW n \in Nat, n \in T PROVE n + 1 \in T
    <2>1. Joined(seqs, n + 1)[1] = n + 1 /\ n + 1 \in Nat /\ n + 1 > 0
      BY <1>2
    <2>2. Joined(seqs, (n + 1) + 1) = JoinStep(seqs, Joined(seqs, n + 1))
      BY <2>1, JoinedNext
    <2> QED BY <2>1, <2>2 DEF JoinStep
  <1> HIDE DEF T
  <1>3. i \in T
    BY <1>1, <1>2, Throughout
  <1> QED BY <1>3 DEF T

LEMMA JoinedTail ==
  ASSUME NEW seqs, NEW i \in Nat, i > 0
  PROVE  Joined(seqs, i + 1)[2] = Joined(seqs, i)[2] \o seqs[i + 1]
  <1>1. \A x, y : <<x, y>>[2] = y
    OBVIOUS
  <1> DEFINE at == Joined(seqs, i)
  <1>2. Joined(seqs, i + 1) = <<at[1] + 1, at[2] \o seqs[at[1] + 1]>>
    BY JoinedNext DEF JoinStep
  <1>3. i - 1 \in Nat /\ (i - 1) + 1 = i
    OBVIOUS
  <1>4. at[1] = i
    BY <1>3, JoinedFirst
  <1> HIDE DEF at
  <1> DEFINE next == at[2] \o seqs[i + 1]
  <1>5. Joined(seqs, i + 1) = <<i + 1, next>>
    BY <1>2, <1>4
  <1> HIDE DEF next
  <1>6. Joined(seqs, i + 1)[2] = next
    BY <1>1, <1>5
  <1> QED BY <1>6 DEF next, at

(* Flattening joins all of them.                                           *)
LEMMA FlattenJoins ==
  ASSUME NEW seqs, IsList(seqs), seqs # << >>
  PROVE  FlattenSeq(seqs) = Joined(seqs, Len(seqs))[2]
  <1> DEFINE n == Len(seqs)
             g == [i \in 1 .. n |-> Joined(seqs, i)[2]]
             Flattens(f) == f = [i \in 1 .. n |-> IF i = 1 THEN seqs[i] ELSE f[i - 1] \o seqs[i]]
             flatten == CHOOSE f : Flattens(f)
  <1>1. n \in Nat /\ n > 0
    BY DEF IsList
  <1>2. FlattenSeq(seqs) = flatten[n]
    BY <1>1 DEF FlattenSeq
  <1>3. ASSUME NEW i \in 1 .. n
        PROVE  g[i] = IF i = 1 THEN seqs[i] ELSE g[i - 1] \o seqs[i]
    <2>1. CASE i = 1
      BY <2>1, JoinedOne
    <2>2. CASE i # 1
      <3> DEFINE j == i - 1
      <3>1. j \in Nat /\ j > 0 /\ j \in 1 .. n /\ j + 1 = i /\ j - 1 \in Nat /\ (j - 1) + 1 = j
        BY <1>1, <2>2
      <3> HIDE DEF j
      <3>2. Joined(seqs, j + 1)[2] = Joined(seqs, j)[2] \o seqs[j + 1]
        BY <3>1, JoinedTail
      <3>4. g[i] = Joined(seqs, i)[2] /\ g[j] = Joined(seqs, j)[2]
        BY <3>1
      <3>5. Joined(seqs, i)[2] = Joined(seqs, j)[2] \o seqs[i]
        BY <3>1, <3>2
      <3>6. g[i] = g[j] \o seqs[i]
        BY <3>4, <3>5
      <3> HIDE DEF g
      <3> QED BY <2>2, <3>6 DEF j
    <2> QED BY <2>1, <2>2
  <1>4. Flattens(g)
    <2> DEFINE h == [i \in 1 .. n |-> IF i = 1 THEN seqs[i] ELSE g[i - 1] \o seqs[i]]
    <2>1. \A i \in 1 .. n : g[i] = h[i]
      <3> HIDE DEF g
      <3> QED BY <1>3
    <2>2. g = h
      <3>1. g = [i \in 1 .. n |-> g[i]] /\ h = [i \in 1 .. n |-> h[i]]
        OBVIOUS
      <3> HIDE DEF g, h
      <3> QED BY <2>1, <3>1
    <2> HIDE DEF g
    <2> QED BY <2>2
  <1> HIDE DEF g
  <1>5. Flattens(flatten)
    <2> HIDE DEF Flattens
    <2> QED BY <1>4
  <1> HIDE DEF flatten
  <1>6. ASSUME NEW f, Flattens(f), NEW i \in 1 .. n
        PROVE  f[i] = Joined(seqs, i)[2]
    <2> DEFINE T == {k \in Nat : k + 1 \in 1 .. n => f[k + 1] = Joined(seqs, k + 1)[2]}
    <2>0. \A k \in 1 .. n : f[k] = IF k = 1 THEN seqs[k] ELSE f[k - 1] \o seqs[k]
      BY <1>6
    <2> HIDE DEF Flattens
    <2>1. 0 \in T
      BY <1>1, <2>0, JoinedOne
    <2>2. ASSUME NEW k \in Nat, k \in T PROVE k + 1 \in T
      <3> SUFFICES ASSUME (k + 1) + 1 \in 1 .. n
                   PROVE  f[(k + 1) + 1] = Joined(seqs, (k + 1) + 1)[2]
        OBVIOUS
      <3> DEFINE j == k + 1
      <3>1. j \in Nat /\ j > 0 /\ j \in 1 .. n /\ j + 1 \in 1 .. n /\ j + 1 # 1 /\ (j + 1) - 1 = j
        BY <1>1
      <3>2. f[j] = Joined(seqs, j)[2]
        BY <2>2, <3>1
      <3> HIDE DEF j
      <3>3. Joined(seqs, j + 1)[2] = Joined(seqs, j)[2] \o seqs[j + 1]
        BY <3>1, JoinedTail
      <3>4. f[j + 1] = f[j] \o seqs[j + 1]
        BY <2>0, <3>1
      <3>5. f[j + 1] = Joined(seqs, j + 1)[2]
        BY <3>2, <3>3, <3>4
      <3> QED BY <3>5 DEF j
    <2> HIDE DEF T
    <2>3. i - 1 \in T
      <3>1. i - 1 \in Nat
        BY <1>1
      <3> QED BY <2>1, <2>2, <3>1, Throughout
    <2>4. (i - 1) + 1 = i
      BY <1>1
    <2> QED BY <2>3, <2>4 DEF T
  <1>7. n \in 1 .. n
    BY <1>1
  <1> HIDE DEF Flattens, n
  <1> QED BY <1>2, <1>5, <1>6, <1>7 DEF n

(* A flat list has the elements of its lists.                              *)
LEMMA FlattenedIs ==
  ASSUME NEW seqs, IsList(seqs), \A k \in DOMAIN seqs : IsList(seqs[k])
  PROVE  /\ IsList(FlattenSeq(seqs))
         /\ ToSet(FlattenSeq(seqs)) = UNION {ToSet(seqs[k]) : k \in DOMAIN seqs}
  <1> DEFINE S == UNION {ToSet(seqs[k]) : k \in DOMAIN seqs}
             n == Len(seqs)
             upTo(i) == UNION {ToSet(seqs[k]) : k \in 1 .. i}
             Good(i) == LET s == Joined(seqs, i)[2]
                        IN  /\ s \in Seq(S)
                            /\ \A x : x \in ToSet(s) <=> \E k \in 1 .. i : x \in ToSet(seqs[k])
  <1>1. n \in Nat /\ DOMAIN seqs = 1 .. n
    BY DEF IsList
  <1>2. CASE seqs = << >>
    <2>1. FlattenSeq(seqs) = << >> /\ S = {}
      BY <1>2 DEF FlattenSeq
    <2>2. IsList(<< >>) /\ ToSet(<< >>) = {}
      BY DEF IsList, ToSet
    <2> QED BY <2>1, <2>2
  <1>3. CASE seqs # << >>
    <2>0. n > 0
      BY <1>1, <1>3 DEF IsList
    <2>1. ASSUME NEW k \in 1 .. n PROVE seqs[k] \in Seq(S) /\ ToSet(seqs[k]) \subseteq S
      <3>1. ToSet(seqs[k]) \subseteq S
        BY <1>1
      <3>2. seqs[k] \in Seq(ToSet(seqs[k]))
        BY <1>1 DEF IsList
      <3> HIDE DEF S
      <3>3. seqs[k] \in Seq(S)
        BY <3>1, <3>2
      <3> QED BY <3>1, <3>3
    <2> DEFINE T == {k \in Nat : k + 1 \in 1 .. n => Good(k + 1)}
    <2>2. 0 \in T
      <3>1. Joined(seqs, 1)[2] = seqs[1]
        BY JoinedOne
      <3>2. \A x : x \in ToSet(seqs[1]) <=> \E k \in 1 .. 1 : x \in ToSet(seqs[k])
        OBVIOUS
      <3> HIDE DEF S
      <3>3. Good(1)
        BY <2>0, <1>1, <2>1, <3>1, <3>2
      <3> HIDE DEF Good
      <3> QED BY <3>3
    <2>3. ASSUME NEW k \in Nat, k \in T PROVE k + 1 \in T
      <3> SUFFICES ASSUME (k + 1) + 1 \in 1 .. n PROVE Good((k + 1) + 1)
        OBVIOUS
      <3> DEFINE j == k + 1
                 s == Joined(seqs, j)[2]
                 t == Joined(seqs, j + 1)[2]
      <3>1. j \in Nat /\ j > 0 /\ j \in 1 .. n /\ j + 1 \in 1 .. n
        BY <1>1
      <3>2. Good(j)
        BY <2>3, <3>1
      <3> HIDE DEF j, S
      <3>4. t = s \o seqs[j + 1]
        BY <3>1, JoinedTail
      <3>5. s \in Seq(S) /\ \A x : x \in ToSet(s) <=> \E i \in 1 .. j : x \in ToSet(seqs[i])
        BY <3>2
      <3>6. seqs[j + 1] \in Seq(S)
        BY <2>1, <3>1
      <3> DEFINE u == seqs[j + 1]
      <3> HIDE DEF s, t, u
      <3>7. t \in Seq(S) /\ \A x : x \in ToSet(t) <=> x \in ToSet(s) \/ x \in ToSet(u)
        <4>1. t = s \o u /\ s \in Seq(S) /\ u \in Seq(S)
          BY <3>4, <3>5, <3>6 DEF u
        <4>2. t \in Seq(S) /\ Len(t) = Len(s) + Len(u)
          BY <4>1
        <4>3. \A m \in 1 .. Len(s) : t[m] = s[m]
          BY <4>1
        <4>4. \A m \in 1 .. Len(u) : t[Len(s) + m] = u[m]
          BY <4>1
        <4>5. DOMAIN s = 1 .. Len(s) /\ DOMAIN u = 1 .. Len(u) /\ DOMAIN t = 1 .. Len(t)
              /\ Len(s) \in Nat /\ Len(u) \in Nat
          BY <4>1, <4>2
        <4>6. ASSUME NEW x, x \in ToSet(t) PROVE x \in ToSet(s) \/ x \in ToSet(u)
          <5>1. PICK m \in 1 .. (Len(s) + Len(u)) : t[m] = x
            BY <4>2, <4>5, <4>6 DEF ToSet
          <5>2. CASE m <= Len(s)
            <6>1. m \in 1 .. Len(s)
              BY <4>5, <5>2
            <6> QED BY <4>3, <4>5, <5>1, <6>1 DEF ToSet
          <5>3. CASE m > Len(s)
            <6>1. m - Len(s) \in 1 .. Len(u) /\ Len(s) + (m - Len(s)) = m
              BY <4>5, <5>3
            <6>2. t[Len(s) + (m - Len(s))] = u[m - Len(s)]
              BY <4>4, <6>1
            <6> QED BY <4>5, <5>1, <6>1, <6>2 DEF ToSet
          <5> QED BY <4>5, <5>2, <5>3
        <4>7. ASSUME NEW x, x \in ToSet(s) PROVE x \in ToSet(t)
          <5>1. PICK m \in 1 .. Len(s) : s[m] = x
            BY <4>5, <4>7 DEF ToSet
          <5>2. m \in DOMAIN t /\ t[m] = x
            BY <4>2, <4>3, <4>5, <5>1
          <5> QED BY <5>2 DEF ToSet
        <4>8. ASSUME NEW x, x \in ToSet(u) PROVE x \in ToSet(t)
          <5>1. PICK m \in 1 .. Len(u) : u[m] = x
            BY <4>5, <4>8 DEF ToSet
          <5>2. Len(s) + m \in DOMAIN t /\ t[Len(s) + m] = x
            BY <4>2, <4>4, <4>5, <5>1
          <5> QED BY <5>2 DEF ToSet
        <4> QED BY <4>2, <4>6, <4>7, <4>8
      <3>8. \A x : (\E i \in 1 .. (j + 1) : x \in ToSet(seqs[i]))
                     <=> (\E i \in 1 .. j : x \in ToSet(seqs[i])) \/ x \in ToSet(u)
        <4>1. 1 .. (j + 1) = 1 .. j \union {j + 1}
          BY <3>1
        <4> QED BY <4>1 DEF u
      <3>9. \A x : x \in ToSet(t) <=> \E i \in 1 .. (j + 1) : x \in ToSet(seqs[i])
        <4> HIDE DEF Good
        <4> QED BY <3>5, <3>7, <3>8
      <3> QED BY <3>7, <3>9 DEF j, t
    <2>4. Good(n)
      <3>1. n - 1 \in Nat /\ (n - 1) + 1 = n /\ n \in 1 .. n
        BY <1>1, <2>0
      <3> HIDE DEF T
      <3>2. n - 1 \in T
        BY <2>2, <2>3, <3>1, Throughout
      <3> HIDE DEF Good
      <3> QED BY <3>1, <3>2 DEF T
    <2> DEFINE f == FlattenSeq(seqs)
    <2>5. f = Joined(seqs, n)[2]
      BY <1>3, FlattenJoins
    <2> HIDE DEF f
    <2>6. f \in Seq(S) /\ \A x : x \in ToSet(f) <=> \E k \in 1 .. n : x \in ToSet(seqs[k])
      <3> HIDE DEF S
      <3> QED BY <2>4, <2>5
    <2>7. ToSet(f) = S
      BY <1>1, <2>6
    <2> HIDE DEF S
    <2> QED BY <2>6, <2>7 DEF f, S, IsList
  <1> QED BY <1>2, <1>3

-----------------------------------------------------------------------------
(* Addresses.                                                              *)

(* Powers of two.                                                          *)
Doubled == LET f[n \in Nat] == IF n = 0 THEN 1 ELSE 2 * f[n - 1] IN f

LEMMA DoubledGoes ==
  /\ Doubled[0] = 1
  /\ \A n \in Nat : Doubled[n + 1] = 2 * Doubled[n]
  <1> DEFINE p == <<"double", 1>>
             Is(f) == f = [n \in Nat |-> IF n = 0 THEN 1 ELSE 2 * f[n - 1]]
  <1>1. \A y : Step(p, y) = 2 * y
    BY DEF Step
  <1> HIDE DEF p
  <1>2. PICK g : IsIteration(p, 1, g)
    BY IterationExists
  <1>3. Is(g)
    BY <1>1, <1>2 DEF IsIteration
  <1>4. Doubled = CHOOSE f : Is(f)
    BY DEF Doubled
  <1> DEFINE it == Doubled
  <1>5. Is(it)
    <2> HIDE DEF Is
    <2> QED BY <1>3, <1>4
  <1> HIDE DEF it
  <1>6. it[0] = 1
    BY <1>5
  <1>7. ASSUME NEW n \in Nat PROVE it[n + 1] = 2 * it[n]
    <2>1. n + 1 \in Nat /\ n + 1 # 0 /\ (n + 1) - 1 = n
      OBVIOUS
    <2> HIDE DEF p
    <2>2. it[n + 1] = IF n + 1 = 0 THEN 1 ELSE 2 * it[(n + 1) - 1]
      BY <1>5, <2>1
    <2> QED BY <2>1, <2>2
  <1> QED BY <1>6, <1>7 DEF it

LEMMA Pow2Doubles == Pow2(0) = 1 /\ \A n \in Nat : Pow2(n + 1) = 2 * Pow2(n)
  <1>1. \A n \in Nat : Pow2(n) = Doubled[n]
    BY DEF Pow2, Doubled
  <1>2. Doubled[0] = 1 /\ \A n \in Nat : Doubled[n + 1] = 2 * Doubled[n]
    BY DoubledGoes
  <1> QED BY <1>1, <1>2

LEMMA Pow2IsPositive == ASSUME NEW n \in Nat PROVE Pow2(n) \in Nat \ {0}
  <1> DEFINE T == {k \in Nat : Pow2(k) \in Nat \ {0}}
  <1>1. 0 \in T /\ \A k \in Nat : k \in T => k + 1 \in T
    BY Pow2Doubles
  <1> HIDE DEF T
  <1>2. n \in T
    BY <1>1, Throughout
  <1> QED BY <1>2 DEF T

LEMMA Pow2Multiplies ==
  ASSUME NEW m \in Nat, NEW n \in Nat
  PROVE  Pow2(m + n) = Pow2(m) * Pow2(n)
  <1> DEFINE T == {k \in Nat : Pow2(m + k) = Pow2(m) * Pow2(k)}
  <1>1. 0 \in T
    BY Pow2Doubles, Pow2IsPositive
  <1>2. ASSUME NEW k \in Nat, k \in T PROVE k + 1 \in T
    <2>1. m + k \in Nat /\ m + (k + 1) = (m + k) + 1
      OBVIOUS
    <2>2. Pow2(m + (k + 1)) = 2 * Pow2(m + k)
      BY <2>1, Pow2Doubles
    <2>3. Pow2(k + 1) = 2 * Pow2(k) /\ Pow2(m + k) = Pow2(m) * Pow2(k)
      BY <1>2, Pow2Doubles
    <2>4. \A a, b \in Nat : 2 * (a * b) = a * (2 * b)
      OBVIOUS
    <2>5. Pow2(m) \in Nat /\ Pow2(k) \in Nat
      BY Pow2IsPositive
    <2> QED BY <2>2, <2>3, <2>4, <2>5
  <1> HIDE DEF T
  <1>3. n \in T
    BY <1>1, <1>2, Throughout
  <1> QED BY <1>3 DEF T

(* A number lies in one block of every size.                               *)
LEMMA InItsBlock ==
  ASSUME NEW h \in Nat \ {0}, NEW x \in Nat
  PROVE  /\ x \div h \in Nat
         /\ (x \div h) * h <= x /\ x < (x \div h) * h + h
  OBVIOUS

LEMMA BlocksAreApart ==
  ASSUME NEW h \in Nat \ {0}, NEW q \in Nat, NEW r \in Nat, NEW x \in Nat,
         q * h <= x, x < q * h + h, r * h <= x, x < r * h + h
  PROVE  q = r
  <1>1. ASSUME NEW a \in Nat, NEW b \in Nat, a < b PROVE a * h + h <= b * h
    <2>1. a + 1 <= b /\ (a + 1) * h = a * h + h
      BY <1>1
    <2>2. \A c, d \in Nat : c <= d => c * h <= d * h
      OBVIOUS
    <2> QED BY <2>1, <2>2
  <1>2. q * h \in Nat /\ r * h \in Nat
    OBVIOUS
  <1>3. ~(q < r)
    BY <1>1, <1>2
  <1>4. ~(r < q)
    BY <1>1, <1>2
  <1> QED BY <1>3, <1>4

(* Addresses.                                                              *)
Space(f) == 0 .. (Pow2(Bits[f]) - 1)

LEMMA AddressIs ==
  /\ \A a \in Addresses : /\ a = <<a[1], a[2]>> /\ a[1] \in Families /\ a[2] \in Space(a[1])
                          /\ Pow2(Bits[a[1]]) \in Nat \ {0}
  /\ \A f \in Families : \A n \in Space(f) : <<f, n>> \in Addresses
  <1>1. \A f \in Families : Bits[f] \in Nat
    BY TargetsAssumption
  <1>2. \A f \in Families : Pow2(Bits[f]) \in Nat \ {0}
    BY <1>1, Pow2IsPositive
  <1> QED BY <1>2 DEF Addresses, Space

LEMMA AddressesAreFinite == IsFiniteSet(Addresses)
  <1> DEFINE m(f) == Pow2(Bits[f])
             N == (0 .. m(4)) \union (0 .. m(6))
  <1>1. \A f \in Families : Bits[f] \in Nat
    BY TargetsAssumption
  <1>2. m(4) \in Nat /\ m(6) \in Nat
    <2>1. Bits[4] \in Nat /\ Bits[6] \in Nat
      BY <1>1 DEF Families
    <2> QED BY <2>1, Pow2IsPositive
  <1>3. IsFiniteSet(N)
    <2>1. IsFiniteSet(0 .. m(4)) /\ IsFiniteSet(0 .. m(6))
      BY <1>2, FS_Interval
    <2> HIDE DEF m
    <2> QED BY <2>1, FS_Union
  <1>4. IsFiniteSet(4 .. 6)
    <2>1. \A a, b \in Int : IsFiniteSet(a .. b)
      BY FS_Interval
    <2> QED BY <2>1, 4 \in Int, 6 \in Int
  <1>5. Addresses \in SUBSET ((4 .. 6) \X N)
    <2>1. ASSUME NEW a \in Addresses PROVE a \in (4 .. 6) \X N
      <3>1. a = <<a[1], a[2]>> /\ a[1] \in Families /\ a[2] \in Space(a[1])
        BY AddressIs
      <3>2. a[2] \in N
        BY <1>2, <3>1 DEF Families, Space
      <3> QED BY <3>1, <3>2 DEF Families
    <2> QED BY <2>1
  <1> HIDE DEF N
  <1>6. IsFiniteSet((4 .. 6) \X N)
    BY <1>3, <1>4, FS_Product
  <1> QED BY <1>5, <1>6, FS_Subset

(* Sorted, they are listed each once.                                      *)
LEMMA SortedEnumerates ==
  ASSUME NEW S \in SUBSET Addresses
  PROVE  Enumerates(Sorted(S), S)
  <1> DEFINE Before(b, a) == b[1] < a[1] \/ (b[1] = a[1] /\ b[2] < a[2])
             below == [a \in S |-> {b \in S : b[1] < a[1] \/ (b[1] = a[1] /\ b[2] < a[2])}]
  <1>1. \A a \in S : below[a] = {b \in S : Before(b, a)}
    OBVIOUS
  <1>2. \A a \in S : a = <<a[1], a[2]>> /\ a[1] \in Int /\ a[2] \in Int
    <2>1. \A a \in Addresses : a = <<a[1], a[2]>> /\ a[1] \in Int /\ a[2] \in Int
      BY AddressIs DEF Families, Space
    <2> QED BY <2>1
  <1>3. Orders(below, S)
    <2>1. \A a \in S : ~Before(a, a)
      BY <1>2
    <2>2. ASSUME NEW a \in S, NEW b \in S, NEW c \in S, Before(a, b), Before(b, c)
          PROVE  Before(a, c)
      BY <1>2, <2>2
    <2>3. ASSUME NEW a \in S, NEW b \in S, a # b PROVE Before(a, b) \/ Before(b, a)
      <3>1. a[1] # b[1] \/ a[2] # b[2]
        BY <1>2, <2>3
      <3> QED BY <1>2, <3>1
    <2> HIDE DEF below, Before
    <2>4. \A a \in S : below[a] \subseteq S /\ a \notin below[a]
      BY <1>1, <2>1
    <2>5. ASSUME NEW a \in S, NEW b \in S, Before(a, b)
          PROVE  a \in below[b] /\ below[a] \subseteq below[b]
      BY <1>1, <2>2, <2>5
    <2> QED BY <2>3, <2>4, <2>5 DEF Orders
  <1>4. IsFiniteSet(S)
    BY AddressesAreFinite, FS_Subset
  <1> HIDE DEF below
  <1>5. Enumerates(InOrder(S, below), S)
    BY <1>3, <1>4, InOrderEnumerates
  <1> QED BY <1>5 DEF Sorted, below

(* A name resolves to addresses, each once.                                *)
LEMMA ResolvedIs ==
  ASSUME NEW h
  PROVE  IsList(ResolveHost(h)) /\ ToSet(ResolveHost(h)) \subseteq Addresses
  <1>1. CASE h \in DOMAIN Resolver
    <2>1. Resolver[h] \in SUBSET Addresses
      BY <1>1, TargetsAssumption
    <2>2. Enumerates(Sorted(Resolver[h]), Resolver[h])
      BY <2>1, SortedEnumerates
    <2> QED BY <1>1, <2>1, <2>2 DEF ResolveHost, Enumerates
  <1>2. CASE h \notin DOMAIN Resolver
    <2>1. IsList(<< >>) /\ ToSet(<< >>) = {}
      BY DEF IsList, ToSet
    <2> QED BY <1>2, <2>1 DEF ResolveHost
  <1> QED BY <1>1, <1>2

-----------------------------------------------------------------------------
(* What specs expand to.                                                   *)

(* What a spec covers is an interval of its family's numbers, and what it  *)
(* matches is that interval.                                               *)
LEMMA IntervalIs ==
  ASSUME NEW s, IsSpec(s), ~Malformed(s), s.kind # "host"
  PROVE  /\ s.first[1] \in Families
         /\ Interval(s) \subseteq Space(s.first[1])
         /\ \A a \in Addresses : Matches(s, a) <=> a[1] = s.first[1] /\ a[2] \in Interval(s)
  <1> DEFINE f == s.first[1]
             x == s.first[2]
  <1>1. s.kind \in {"addr", "cidr", "range"}
    BY DEF IsSpec, Malformed
  <1>2. f \in Families /\ x \in Space(f) /\ x \in Nat /\ Pow2(Bits[f]) \in Nat \ {0}
    <2>1. s.first \in Addresses
      BY <1>1 DEF IsSpec
    <2>2. f \in Families /\ x \in Space(f) /\ Pow2(Bits[f]) \in Nat \ {0}
      BY <2>1, AddressIs
    <2> HIDE DEF f, x
    <2>3. x \in Nat
      BY <2>2 DEF Space
    <2> QED BY <2>2, <2>3
  <1>3. \A a \in Addresses : a[2] \in Nat
    <2>1. ASSUME NEW a \in Addresses PROVE a[2] \in Nat
      <3>1. a[2] \in Space(a[1]) /\ Pow2(Bits[a[1]]) \in Nat
        BY AddressIs
      <3> QED BY <3>1 DEF Space
    <2> QED BY <2>1
  <1>4. CASE s.kind = "cidr"
    <2> DEFINE b == Bits[f]
               p == Prefix(s)
               h == HostSize(s)
               q == x \div h
               top == Pow2(p)
    <2>1. b \in Nat /\ p \in Nat /\ p <= b
      <3>1. b \in Nat /\ p \in Nat
        BY <1>2, <1>4, TargetsAssumption DEF IsSpec
      <3>2. ~(p > b)
        BY <1>4 DEF Malformed
      <3> QED BY <3>1, <3>2
    <2> HIDE DEF p, b
    <2>2. h = Pow2(b - p) /\ b - p \in Nat /\ (b - p) + p = b
      BY <2>1 DEF HostSize, p, b
    <2>3. h \in Nat \ {0} /\ top \in Nat \ {0} /\ Pow2(b) = h * top
      BY <2>1, <2>2, Pow2IsPositive, Pow2Multiplies
    <2>4. Interval(s) = (q * h) .. (q * h + h - 1)
      BY <1>4 DEF Interval, Base
    <2>5. \A a \in Addresses : Matches(s, a) <=> a[1] = f /\ (a[2] \div h) * h = q * h
      BY <1>4 DEF Matches, Base
    <2> HIDE DEF h, top
    <2>6. q \in Nat /\ q * h <= x /\ x < q * h + h /\ q * h \in Nat
      <3>1. x \in Nat
        BY <1>2
      <3> HIDE DEF x
      <3>2. q \in Nat /\ q * h <= x /\ x < q * h + h
        BY <2>3, <3>1, InItsBlock
      <3> HIDE DEF q
      <3> QED BY <2>3, <3>2
    <2>7. x < h * top
      BY <1>2, <2>3 DEF Space, b
    <2> HIDE DEF q, x
    <2>8. q < top
      <3>1. SUFFICES ASSUME top <= q PROVE FALSE
        BY <2>3, <2>6
      <3>2. \A c, d \in Nat : c <= d => c * h <= d * h
        BY <2>3
      <3>3. top * h <= q * h /\ top * h = h * top
        BY <2>3, <2>6, <3>1, <3>2
      <3>4. h * top \in Nat /\ x \in Nat
        BY <1>2, <2>3
      <3> QED BY <2>6, <2>7, <3>3, <3>4
    <2>9. q * h + h <= Pow2(b)
      <3>1. q + 1 <= top /\ (q + 1) * h = q * h + h
        BY <2>3, <2>6, <2>8
      <3>2. \A c, d \in Nat : c <= d => c * h <= d * h
        BY <2>3
      <3>3. (q + 1) * h <= top * h /\ top * h = h * top
        BY <2>3, <2>6, <3>1, <3>2
      <3> QED BY <2>3, <3>1, <3>3
    <2>10. Interval(s) \subseteq Space(f)
      <3>1. Pow2(b) \in Nat
        BY <1>2 DEF b
      <3>2. \A n \in Interval(s) : n \in 0 .. (Pow2(b) - 1)
        BY <2>3, <2>4, <2>6, <2>9, <3>1
      <3> QED BY <3>2 DEF Space, b
    <2>11. ASSUME NEW n \in Nat PROVE (n \div h) * h = q * h <=> n \in Interval(s)
      <3> DEFINE r == n \div h
      <3>1. r \in Nat /\ r * h <= n /\ n < r * h + h /\ r * h \in Nat
        BY <2>3, InItsBlock
      <3> HIDE DEF r
      <3>2. n \in Interval(s) <=> q * h <= n /\ n < q * h + h
        BY <2>3, <2>4, <2>6
      <3>3. r * h = q * h => n \in Interval(s)
        BY <3>1, <3>2
      <3>4. n \in Interval(s) => r = q
        BY <2>3, <2>6, <3>1, <3>2, BlocksAreApart
      <3> QED BY <3>3, <3>4 DEF r
    <2> QED BY <1>2, <1>3, <2>5, <2>10, <2>11
  <1>5. CASE s.kind \in {"addr", "range"}
    <2> DEFINE y == s.last[2]
    <2>1. s.last[1] = f /\ y \in Space(f) /\ y \in Nat
      <3>1. s.last \in Addresses /\ s.last[1] = f
        BY <1>5 DEF IsSpec, Malformed
      <3> QED BY <3>1, AddressIs DEF Space
    <2>2. Interval(s) = x .. y
      BY <1>5 DEF Interval
    <2>3. \A a \in Addresses : Matches(s, a) <=> a[1] = f /\ x <= a[2] /\ a[2] <= y
      BY <1>5 DEF Matches
    <2> HIDE DEF x, y
    <2>4. Interval(s) \subseteq Space(f)
      BY <1>2, <2>1, <2>2 DEF Space
    <2>5. \A n \in Nat : n \in Interval(s) <=> x <= n /\ n <= y
      BY <1>2, <2>1, <2>2
    <2> QED BY <1>2, <1>3, <2>3, <2>4, <2>5
  <1> QED BY <1>1, <1>4, <1>5

(* What specs say by membership: names, and addresses that match.          *)
HostsOf(specs) == {s.host : s \in {q \in ToSet(specs) : q.kind = "host"}}
Matched(specs) == {a \in Addresses : \E s \in ToSet(specs) : Matches(s, a)}

(* What one of them expands to.                                            *)
LEMMA ExpandIntoIs ==
  ASSUME NEW s, IsSpec(s), ~Malformed(s)
  PROVE  /\ IsList(ExpandInto(s))
         /\ s.kind = "host" => ToSet(ExpandInto(s)) = {HostTarget(s.host)}
         /\ s.kind # "host" =>
              ToSet(ExpandInto(s)) = {AddrTarget(a) : a \in {b \in Addresses : Matches(s, b)}}
  <1>1. CASE s.kind = "host"
    <2> DEFINE t == HostTarget(s.host)
    <2>1. ExpandInto(s) = <<t>>
      BY <1>1 DEF ExpandInto
    <2>2. IsList(<<t>>) /\ ToSet(<<t>>) = {t}
      <3> HIDE DEF t
      <3> QED BY DEF IsList, ToSet
    <2> QED BY <1>1, <2>1, <2>2
  <1>2. CASE s.kind # "host"
    <2> DEFINE f == s.first[1]
               numbers == Ascending(Interval(s))
               e == ExpandInto(s)
               n == Len(numbers)
    <2>1. /\ f \in Families /\ Interval(s) \subseteq Space(f)
          /\ \A a \in Addresses : Matches(s, a) <=> a[1] = f /\ a[2] \in Interval(s)
      BY <1>2, IntervalIs
    <2>2. IsFiniteSet(Interval(s)) /\ Interval(s) \in SUBSET Int
      <3>1. Pow2(Bits[f]) - 1 \in Int
        BY <2>1, TargetsAssumption, Pow2IsPositive
      <3> DEFINE top == Pow2(Bits[f]) - 1
      <3>2. \A a, b \in Int : IsFiniteSet(a .. b) /\ a .. b \subseteq Int
        BY FS_Interval
      <3>3. Space(f) = 0 .. top /\ top \in Int /\ 0 \in Int
        BY <3>1 DEF Space
      <3> HIDE DEF top
      <3>4. IsFiniteSet(Space(f)) /\ Space(f) \subseteq Int
        BY <3>2, <3>3
      <3> QED BY <2>1, <3>4, FS_Subset
    <2>3. Enumerates(numbers, Interval(s))
      BY <2>2, AscendingEnumerates
    <2>4. e = [k \in DOMAIN numbers |-> AddrTarget(<<f, numbers[k]>>)]
      BY <1>2 DEF ExpandInto
    <2> HIDE DEF e, numbers
    <2>5. n \in Nat /\ DOMAIN numbers = 1 .. n
      BY <2>3 DEF Enumerates, IsList
    <2>6. IsList(e) /\ DOMAIN e = 1 .. n
      <3>1. e = [k \in 1 .. n |-> e[k]]
        BY <2>4, <2>5
      <3> QED BY <2>5, <3>1, ListIsFunction
    <2>7. ASSUME NEW t, t \in ToSet(e)
          PROVE  \E a \in Addresses : Matches(s, a) /\ t = AddrTarget(a)
      <3>1. PICK k \in 1 .. n : t = AddrTarget(<<f, numbers[k]>>)
        BY <2>4, <2>5, <2>6, <2>7 DEF ToSet
      <3>2. numbers[k] \in Interval(s)
        BY <2>3, <2>5 DEF Enumerates, ToSet
      <3>3. <<f, numbers[k]>> \in Addresses
        BY <2>1, <3>2, AddressIs
      <3> QED BY <2>1, <3>1, <3>2, <3>3
    <2>8. ASSUME NEW a \in Addresses, Matches(s, a) PROVE AddrTarget(a) \in ToSet(e)
      <3>1. a = <<f, a[2]>> /\ a[2] \in Interval(s)
        BY <2>1, <2>8, AddressIs
      <3>2. PICK k \in 1 .. n : numbers[k] = a[2]
        BY <2>3, <2>5, <3>1 DEF Enumerates, ToSet
      <3>3. e[k] = AddrTarget(a)
        BY <2>4, <2>5, <3>1, <3>2
      <3> QED BY <2>6, <3>3 DEF ToSet
    <2>9. ToSet(e) = {AddrTarget(a) : a \in {b \in Addresses : Matches(s, b)}}
      BY <2>7, <2>8
    <2> QED BY <1>2, <2>6, <2>9 DEF e
  <1> QED BY <1>1, <1>2

(* What all of them do.                                                    *)
LEMMA ExpansionIs ==
  ASSUME NEW specs, AreSpecs(specs), \A s \in ToSet(specs) : ~Malformed(s)
  PROVE  /\ IsList(Expansion(specs))
         /\ ToSet(Expansion(specs)) =
              {AddrTarget(a) : a \in Matched(specs)} \union {HostTarget(h) : h \in HostsOf(specs)}
  <1> DEFINE lists == [k \in DOMAIN specs |-> ExpandInto(specs[k])]
             e == Expansion(specs)
  <1>1. DOMAIN specs = 1 .. Len(specs) /\ Len(specs) \in Nat
    BY DEF AreSpecs, IsList
  <1>2. \A k \in DOMAIN specs : specs[k] \in ToSet(specs)
    BY DEF ToSet
  <1>3. \A s \in ToSet(specs) : IsSpec(s) /\ ~Malformed(s)
    BY DEF AreSpecs
  <1>4. IsList(lists) /\ DOMAIN lists = DOMAIN specs
    <2>1. lists = [k \in 1 .. Len(specs) |-> lists[k]]
      BY <1>1
    <2> HIDE DEF lists
    <2> QED BY <1>1, <2>1, ListIsFunction
  <1>5. \A k \in DOMAIN lists : lists[k] = ExpandInto(specs[k]) /\ IsList(lists[k])
    BY <1>2, <1>3, <1>4, ExpandIntoIs
  <1>6. e = FlattenSeq(lists)
    BY DEF Expansion
  <1> HIDE DEF lists, e
  <1>7. IsList(e) /\ ToSet(e) = UNION {ToSet(lists[k]) : k \in DOMAIN lists}
    BY <1>4, <1>5, <1>6, FlattenedIs
  <1>8. ASSUME NEW t, t \in ToSet(e)
        PROVE  t \in {AddrTarget(a) : a \in Matched(specs)}
                       \union {HostTarget(h) : h \in HostsOf(specs)}
    <2>1. PICK k \in DOMAIN specs : t \in ToSet(ExpandInto(specs[k]))
      BY <1>4, <1>5, <1>7, <1>8
    <2> DEFINE s == specs[k]
    <2>2. s \in ToSet(specs) /\ IsSpec(s) /\ ~Malformed(s)
      BY <1>2, <1>3
    <2> HIDE DEF s
    <2>3. CASE s.kind = "host"
      <3>1. t = HostTarget(s.host)
        BY <2>1, <2>2, <2>3, ExpandIntoIs DEF s
      <3> QED BY <2>2, <2>3, <3>1 DEF HostsOf
    <2>4. CASE s.kind # "host"
      <3>1. t \in {AddrTarget(a) : a \in {b \in Addresses : Matches(s, b)}}
        BY <2>1, <2>2, <2>4, ExpandIntoIs DEF s
      <3> QED BY <2>2, <3>1 DEF Matched
    <2> QED BY <2>3, <2>4
  <1>9. ASSUME NEW s \in ToSet(specs) PROVE ToSet(ExpandInto(s)) \subseteq ToSet(e)
    <2>1. PICK k \in DOMAIN specs : s = specs[k]
      BY DEF ToSet
    <2> QED BY <1>4, <1>5, <1>7, <2>1
  <1>10. ASSUME NEW a \in Matched(specs) PROVE AddrTarget(a) \in ToSet(e)
    <2>1. PICK s \in ToSet(specs) : Matches(s, a)
      BY DEF Matched
    <2>2. s.kind # "host" /\ a \in Addresses
      BY <2>1 DEF Matches, Matched
    <2> QED BY <1>3, <1>9, <2>1, <2>2, ExpandIntoIs
  <1>11. ASSUME NEW h \in HostsOf(specs) PROVE HostTarget(h) \in ToSet(e)
    <2>1. PICK s \in ToSet(specs) : s.kind = "host" /\ h = s.host
      BY DEF HostsOf
    <2> QED BY <1>3, <1>9, <2>1, ExpandIntoIs
  <1>12. ToSet(e) = {AddrTarget(a) : a \in Matched(specs)}
                      \union {HostTarget(h) : h \in HostsOf(specs)}
    BY <1>8, <1>10, <1>11
  <1> QED BY <1>7, <1>12 DEF e

(* An address and a name are different targets; names are not empty.       *)
LEMMA TargetsDiffer ==
  /\ \A a, b : AddrTarget(a) = AddrTarget(b) => a = b
  /\ \A g, h : HostTarget(g) = HostTarget(h) => g = h
  /\ \A a : ~IsName(AddrTarget(a)) /\ AddrTarget(a).addr = a
  /\ \A h : HostTarget(h).host = h /\ (IsName(HostTarget(h)) <=> h # "")
  <1>1. \A a : AddrTarget(a).addr = a /\ AddrTarget(a).host = ""
    BY DEF AddrTarget
  <1>2. \A h : HostTarget(h).host = h
    BY DEF HostTarget
  <1>3. ASSUME NEW a, NEW b, AddrTarget(a) = AddrTarget(b) PROVE a = b
    <2>1. AddrTarget(a).addr = a /\ AddrTarget(b).addr = b
      BY <1>1
    <2> QED BY <1>3, <2>1
  <1>4. \A g, h : HostTarget(g) = HostTarget(h) => g = h
    BY <1>2
  <1>5. \A a : ~IsName(AddrTarget(a))
    BY <1>1 DEF IsName
  <1>6. \A h : IsName(HostTarget(h)) <=> h # ""
    BY <1>2 DEF IsName
  <1> QED BY <1>1, <1>2, <1>3, <1>4, <1>5, <1>6

LEMMA HostsAreNames ==
  ASSUME NEW specs, AreSpecs(specs), NEW h \in HostsOf(specs)
  PROVE  IsName(HostTarget(h))
  <1>1. h # ""
    BY DEF HostsOf, AreSpecs, IsSpec
  <1> QED BY <1>1, TargetsDiffer

(* Expanding and excluding keeps what is included and not excluded.        *)
LEMMA ExpandIs ==
  ASSUME NEW include, NEW exclude, AreSpecs(include), AreSpecs(exclude),
         \A s \in ToSet(include) \union ToSet(exclude) : ~Malformed(s)
  PROVE  /\ IsList(Expand(include, exclude)) /\ OneToOne(Expand(include, exclude))
         /\ ToSet(Expand(include, exclude)) =
              {AddrTarget(a) : a \in Matched(include) \ Matched(exclude)}
                \union {HostTarget(h) : h \in HostsOf(include) \ HostsOf(exclude)}
  <1> DEFINE all == Expansion(include)
             excluded == ToSet(Expansion(exclude))
             kept == {k \in DOMAIN all : all[k] \notin excluded}
             some == Picked(all, kept)
             e == Expand(include, exclude)
  <1>1. /\ IsList(all)
        /\ ToSet(all) = {AddrTarget(a) : a \in Matched(include)}
                          \union {HostTarget(h) : h \in HostsOf(include)}
    BY ExpansionIs
  <1>2. excluded = {AddrTarget(a) : a \in Matched(exclude)}
                     \union {HostTarget(h) : h \in HostsOf(exclude)}
    BY ExpansionIs
  <1>3. e = Distinct(some)
    BY DEF Expand
  <1> HIDE DEF all, excluded, e
  <1>4. IsList(some) /\ ToSet(some) = {all[k] : k \in kept}
    <2>1. kept \in SUBSET DOMAIN all
      OBVIOUS
    <2> QED BY <1>1, <2>1, PickedIs
  <1>5. {all[k] : k \in kept} = ToSet(all) \ excluded
    BY DEF ToSet
  <1> HIDE DEF some, kept
  <1>6. IsList(e) /\ OneToOne(e) /\ ToSet(e) = ToSet(some)
    BY <1>3, <1>4, DistinctIs
  <1>7. ASSUME NEW a, NEW h, AddrTarget(a) = HostTarget(h) PROVE ~IsName(HostTarget(h))
    <2>1. ~IsName(AddrTarget(a))
      BY TargetsDiffer
    <2> QED BY <1>7, <2>1
  <1>8. \A h \in HostsOf(include) \union HostsOf(exclude) : IsName(HostTarget(h))
    BY HostsAreNames
  <1>9. \A a : a \in Matched(include) =>
               (AddrTarget(a) \in excluded <=> a \in Matched(exclude))
    BY <1>2, <1>7, <1>8, TargetsDiffer
  <1>10. \A h : h \in HostsOf(include) =>
                (HostTarget(h) \in excluded <=> h \in HostsOf(exclude))
    BY <1>2, <1>7, <1>8, TargetsDiffer
  <1>11. ToSet(all) \ excluded = {AddrTarget(a) : a \in Matched(include) \ Matched(exclude)}
                \union {HostTarget(h) : h \in HostsOf(include) \ HostsOf(exclude)}
    BY <1>1, <1>9, <1>10
  <1> QED BY <1>4, <1>5, <1>6, <1>11 DEF e

-----------------------------------------------------------------------------
(* What the resolution of names makes of targets.                          *)

Named(targets) == {t.host : t \in {u \in ToSet(targets) : IsName(u)}}

(* The names among targets.                                                *)
LEMMA NamesOfIs ==
  ASSUME NEW targets, IsList(targets)
  PROVE  /\ IsList(NamesOf(targets)) /\ ToSet(NamesOf(targets)) = Named(targets)
         /\ NamesOf(targets) = << >> <=> \A t \in ToSet(targets) : ~IsName(t)
  <1> DEFINE K == {k \in DOMAIN targets : IsName(targets[k])}
             named == Picked(targets, K)
             names == NamesOf(targets)
             n == Len(named)
  <1>1. IsList(named) /\ ToSet(named) = {targets[k] : k \in K}
    <2>1. K \in SUBSET DOMAIN targets
      OBVIOUS
    <2> HIDE DEF K
    <2> QED BY <2>1, PickedIs
  <1>2. {targets[k] : k \in K} = {t \in ToSet(targets) : IsName(t)}
    BY DEF ToSet
  <1>3. names = [k \in DOMAIN named |-> named[k].host]
    BY DEF NamesOf
  <1> HIDE DEF named, names, K
  <1>4. n \in Nat /\ DOMAIN named = 1 .. n
    BY <1>1 DEF IsList
  <1>5. IsList(names) /\ DOMAIN names = 1 .. n /\ Len(names) = n
    <2>1. names = [k \in 1 .. n |-> names[k]]
      BY <1>3, <1>4
    <2> HIDE DEF n
    <2> QED BY <1>4, <2>1, ListIsFunction
  <1>6. ToSet(names) = {t.host : t \in ToSet(named)}
    <2>1. ToSet(names) = {names[k] : k \in 1 .. n} /\ ToSet(named) = {named[k] : k \in 1 .. n}
      BY <1>4, <1>5 DEF ToSet
    <2>2. \A k \in 1 .. n : names[k] = named[k].host
      BY <1>3, <1>4
    <2> HIDE DEF n
    <2> QED BY <2>1, <2>2
  <1>7. names = << >> <=> ToSet(named) = {}
    <2>1. names = << >> <=> n = 0
      BY <1>5 DEF IsList
    <2>2. ToSet(named) = {} <=> n = 0
      <3>1. ToSet(named) = {named[k] : k \in 1 .. n}
        BY <1>4 DEF ToSet
      <3>2. n # 0 => 1 \in 1 .. n
        BY <1>4
      <3>3. n = 0 => 1 .. n = {}
        OBVIOUS
      <3> HIDE DEF n
      <3> QED BY <3>1, <3>2, <3>3
    <2> QED BY <2>1, <2>2
  <1>8. ToSet(named) = {t \in ToSet(targets) : IsName(t)}
    BY <1>1, <1>2
  <1> QED BY <1>5, <1>6, <1>7, <1>8 DEF names, Named

(* Resolved locally, targets are addresses: those that were, and those the *)
(* names lead to.                                                          *)
LEMMA LocallyIs ==
  ASSUME NEW targets, IsList(targets)
  PROVE  /\ IsList(ResolveLocally(targets)) /\ OneToOne(ResolveLocally(targets))
         /\ ToSet(ResolveLocally(targets)) =
              {t \in ToSet(targets) : ~IsName(t)}
                \union {AddrTarget(a) : a \in UNION {ToSet(ResolveHost(h)) : h \in Named(targets)}}
  <1> DEFINE led(h) == [j \in DOMAIN ResolveHost(h) |-> AddrTarget(ResolveHost(h)[j])]
             found(t) == IF ~IsName(t) THEN <<t>> ELSE led(t.host)
             lists == [k \in DOMAIN targets |-> found(targets[k])]
             flat == FlattenSeq(lists)
             r == ResolveLocally(targets)
             known(h) == {AddrTarget(a) : a \in ToSet(ResolveHost(h))}
  <1>1. DOMAIN targets = 1 .. Len(targets) /\ Len(targets) \in Nat
    BY DEF IsList
  <1>2. ASSUME NEW h PROVE IsList(led(h)) /\ ToSet(led(h)) = known(h)
    <2> DEFINE s == ResolveHost(h)
               l == led(h)
    <2>1. IsList(s)
      BY ResolvedIs
    <2> HIDE DEF s
    <2>2. DOMAIN s = 1 .. Len(s) /\ Len(s) \in Nat
      BY <2>1 DEF IsList
    <2>3. l = [j \in 1 .. Len(s) |-> AddrTarget(s[j])]
      BY <2>2 DEF s
    <2> HIDE DEF l
    <2>4. IsList(l) /\ DOMAIN l = 1 .. Len(s)
      <3>1. l = [j \in 1 .. Len(s) |-> l[j]]
        BY <2>3
      <3> QED BY <2>2, <3>1, ListIsFunction
    <2>5. ToSet(l) = {AddrTarget(s[j]) : j \in 1 .. Len(s)}
      BY <2>3, <2>4 DEF ToSet
    <2>6. ToSet(s) = {s[j] : j \in 1 .. Len(s)}
      BY <2>2 DEF ToSet
    <2>7. ToSet(l) = {AddrTarget(a) : a \in ToSet(s)}
      BY <2>5, <2>6
    <2> QED BY <2>4, <2>7 DEF l, s
  <1>3. ASSUME NEW t
        PROVE  /\ IsList(found(t))
               /\ ToSet(found(t)) = IF IsName(t) THEN known(t.host) ELSE {t}
    <2>1. IsList(<<t>>) /\ ToSet(<<t>>) = {t}
      BY DEF IsList, ToSet
    <2> HIDE DEF led, known
    <2> QED BY <1>2, <2>1
  <1> HIDE DEF found
  <1>4. IsList(lists) /\ DOMAIN lists = DOMAIN targets
    <2>1. lists = [k \in 1 .. Len(targets) |-> lists[k]]
      BY <1>1
    <2> HIDE DEF lists
    <2> QED BY <1>1, <2>1, ListIsFunction
  <1>5. \A k \in DOMAIN lists : lists[k] = found(targets[k]) /\ IsList(lists[k])
    BY <1>3, <1>4
  <1>6. r = Distinct(flat)
    BY DEF ResolveLocally, found, led
  <1> HIDE DEF lists, r
  <1>7. IsList(flat) /\ ToSet(flat) = UNION {ToSet(lists[k]) : k \in DOMAIN lists}
    BY <1>4, <1>5, FlattenedIs
  <1> HIDE DEF flat
  <1>8. IsList(r) /\ OneToOne(r) /\ ToSet(r) = ToSet(flat)
    BY <1>6, <1>7, DistinctIs
  <1>9. UNION {ToSet(lists[k]) : k \in DOMAIN lists}
          = UNION {ToSet(found(t)) : t \in ToSet(targets)}
    <2>1. {ToSet(lists[k]) : k \in DOMAIN lists} = {ToSet(found(t)) : t \in ToSet(targets)}
      BY <1>4, <1>5 DEF ToSet
    <2> QED BY <2>1
  <1> HIDE DEF known
  <1>10. UNION {ToSet(found(t)) : t \in ToSet(targets)}
           = {t \in ToSet(targets) : ~IsName(t)} \union UNION {known(h) : h \in Named(targets)}
    BY <1>3 DEF Named
  <1>11. UNION {known(h) : h \in Named(targets)}
           = {AddrTarget(a) : a \in UNION {ToSet(ResolveHost(h)) : h \in Named(targets)}}
    BY DEF known
  <1> QED BY <1>7, <1>8, <1>9, <1>10, <1>11 DEF r

(* What the resolution of names makes of targets, when it refuses nothing. *)
LEMMA AppliedIs ==
  ASSUME NEW targets, IsList(targets), OneToOne(targets), NEW mode,
         mode \in {"local", "transport", "disabled"},
         NEW applied, applied = ApplyDns(targets, mode)
  PROVE  /\ mode # "local" => applied.resolved = << >>
         /\ ToSet(applied.resolved) \subseteq Named(targets)
         /\ applied.problem = {} =>
              /\ IsList(applied.targets) /\ OneToOne(applied.targets)
              /\ ToSet(applied.targets) =
                   {t \in ToSet(targets) : ~IsName(t)}
                     \union (IF mode = "local"
                               THEN {AddrTarget(a) : a \in
                                       UNION {ToSet(ResolveHost(h)) : h \in Named(targets)}}
                               ELSE {t \in ToSet(targets) : IsName(t)})
              /\ mode = "disabled" => \A t \in ToSet(targets) : ~IsName(t)
  <1>1. ToSet(<< >>) = {}
    BY DEF ToSet
  <1>2. CASE NamesOf(targets) = << >>
    <2>1. \A t \in ToSet(targets) : ~IsName(t)
      BY <1>2, NamesOfIs
    <2>2. Named(targets) = {} /\ {t \in ToSet(targets) : ~IsName(t)} = ToSet(targets)
      BY <2>1 DEF Named
    <2>3. applied = [targets |-> targets, resolved |-> << >>, problem |-> {}]
      BY <1>2 DEF ApplyDns
    <2>4. applied.targets = targets /\ applied.resolved = << >>
      BY <2>3
    <2> QED BY <1>1, <2>1, <2>2, <2>4
  <1>3. CASE NamesOf(targets) # << >> /\ mode = "disabled"
    <2>1. applied = [targets |-> << >>, resolved |-> << >>, problem |-> {"dns_disabled"}]
      BY <1>3 DEF ApplyDns
    <2>2. applied.resolved = << >> /\ applied.problem # {}
      BY <2>1
    <2> QED BY <1>1, <2>2
  <1>4. CASE NamesOf(targets) # << >> /\ mode = "transport"
    <2>1. applied = [targets |-> targets, resolved |-> << >>, problem |-> {}]
      BY <1>4 DEF ApplyDns
    <2>2. applied.resolved = << >> /\ applied.targets = targets
      BY <2>1
    <2>3. ToSet(targets) = {t \in ToSet(targets) : ~IsName(t)}
                             \union {t \in ToSet(targets) : IsName(t)}
      OBVIOUS
    <2> QED BY <1>1, <1>4, <2>2, <2>3
  <1>5. CASE NamesOf(targets) # << >> /\ mode = "local"
    <2>1. applied = [targets |-> ResolveLocally(targets), resolved |-> NamesOf(targets),
                     problem |-> {}]
      BY <1>5 DEF ApplyDns
    <2>2. applied.resolved = NamesOf(targets) /\ applied.targets = ResolveLocally(targets)
      BY <2>1
    <2>3. ToSet(NamesOf(targets)) = Named(targets)
      BY NamesOfIs
    <2> QED BY <1>5, <2>2, <2>3, LocallyIs
  <1> QED BY <1>2, <1>3, <1>4, <1>5

-----------------------------------------------------------------------------
(* The specs a request names.                                              *)

(* Short lists, and two joined.                                            *)
LEMMA ShortLists ==
  /\ IsList(<< >>) /\ ToSet(<< >>) = {}
  /\ \A x : IsList(<<x>>) /\ ToSet(<<x>>) = {x}
  <1>1. ToSet(<< >>) = {}
    BY DEF ToSet
  <1>2. << >> \in Seq({})
    OBVIOUS
  <1>3. ASSUME NEW x PROVE ToSet(<<x>>) = {x} /\ <<x>> \in Seq({x})
    <2>1. DOMAIN <<x>> = {1} /\ <<x>>[1] = x
      OBVIOUS
    <2>2. ToSet(<<x>>) = {x}
      BY <2>1 DEF ToSet
    <2> QED BY <2>2
  <1> QED BY <1>1, <1>2, <1>3 DEF IsList

LEMMA JoinedLists ==
  ASSUME NEW s, NEW t, IsList(s), IsList(t)
  PROVE  IsList(s \o t) /\ ToSet(s \o t) = ToSet(s) \union ToSet(t)
  <1> DEFINE S == ToSet(s) \union ToSet(t)
             u == s \o t
  <1>1. s \in Seq(S) /\ t \in Seq(S)
    <2>1. s \in Seq(ToSet(s)) /\ t \in Seq(ToSet(t))
      BY DEF IsList
    <2>2. ToSet(s) \subseteq S /\ ToSet(t) \subseteq S
      OBVIOUS
    <2> HIDE DEF S
    <2> QED BY <2>1, <2>2
  <1> HIDE DEF S
  <1>2. /\ u \in Seq(S) /\ Len(u) = Len(s) + Len(t)
        /\ \A i \in 1 .. (Len(s) + Len(t)) : u[i] = IF i <= Len(s) THEN s[i] ELSE t[i - Len(s)]
    BY <1>1
  <1>3. Len(s) \in Nat /\ Len(t) \in Nat /\ DOMAIN s = 1 .. Len(s) /\ DOMAIN t = 1 .. Len(t)
        /\ DOMAIN u = 1 .. (Len(s) + Len(t))
    BY <1>1, <1>2
  <1> HIDE DEF u
  <1>4. ASSUME NEW i \in DOMAIN u PROVE u[i] \in ToSet(s) \union ToSet(t)
    <2>1. CASE i <= Len(s)
      <3>1. i \in DOMAIN s /\ u[i] = s[i]
        BY <1>2, <1>3, <2>1
      <3> QED BY <3>1 DEF ToSet
    <2>2. CASE ~(i <= Len(s))
      <3>1. i - Len(s) \in DOMAIN t /\ u[i] = t[i - Len(s)]
        BY <1>2, <1>3, <2>2
      <3> QED BY <3>1 DEF ToSet
    <2> QED BY <2>1, <2>2
  <1>5. ASSUME NEW i \in DOMAIN s PROVE s[i] \in ToSet(u)
    <2>1. i \in DOMAIN u /\ u[i] = s[i]
      BY <1>2, <1>3
    <2> QED BY <2>1 DEF ToSet
  <1>6. ASSUME NEW i \in DOMAIN t PROVE t[i] \in ToSet(u)
    <2>1. i + Len(s) \in DOMAIN u /\ u[i + Len(s)] = t[i]
      BY <1>2, <1>3
    <2> QED BY <2>1 DEF ToSet
  <1>7. ToSet(u) = ToSet(s) \union ToSet(t)
    BY <1>4, <1>5, <1>6 DEF ToSet
  <1>8. IsList(u)
    BY <1>2, <1>7 DEF IsList, S
  <1> QED BY <1>7, <1>8 DEF u

(* Specs stay specs in a longer list, and in a list made of their lists.   *)
LEMMA JoinedSpecs ==
  ASSUME NEW s, NEW t, AreSpecs(s), AreSpecs(t)
  PROVE  AreSpecs(s \o t)
  BY JoinedLists DEF AreSpecs

LEMMA EmptySpecs == AreSpecs(<< >>)
  BY ShortLists DEF AreSpecs

LEMMA FlatSpecs ==
  ASSUME NEW n \in Nat, NEW lists, lists = [k \in 1 .. n |-> lists[k]],
         \A k \in 1 .. n : AreSpecs(lists[k])
  PROVE  AreSpecs(FlattenSeq(lists))
  <1>1. IsList(lists) /\ DOMAIN lists = 1 .. n
    BY ListIsFunction
  <1>2. \A k \in DOMAIN lists : IsList(lists[k])
    BY <1>1 DEF AreSpecs
  <1>3. /\ IsList(FlattenSeq(lists))
        /\ ToSet(FlattenSeq(lists)) = UNION {ToSet(lists[k]) : k \in DOMAIN lists}
    BY <1>1, <1>2, FlattenedIs
  <1> QED BY <1>1, <1>3 DEF AreSpecs

LEMMA FlatLists ==
  ASSUME NEW n \in Nat, NEW lists, lists = [k \in 1 .. n |-> lists[k]],
         \A k \in 1 .. n : IsList(lists[k])
  PROVE  IsList(FlattenSeq(lists))
  <1>1. IsList(lists) /\ DOMAIN lists = 1 .. n
    BY ListIsFunction
  <1> QED BY <1>1, FlattenedIs

(* The lines of an option.                                                 *)
LEMMA LinesAre ==
  ASSUME NEW arguments, ListsIn(arguments), NEW k, Key(arguments, k) # {}
  PROVE  /\ k \in {"targets", "exclude"} => AreSpecs(Lines(Key(arguments, k)))
         /\ k \in {"targets", "exclude", "ports", "pairs"} => IsList(Lines(Key(arguments, k)))
  <1>1. PICK option : option = The(Key(arguments, k))
    OBVIOUS
  <1>2. option \in Key(arguments, k)
    BY <1>1, TheMember
  <1> DEFINE n == Len(option)
             lists == [j \in DOMAIN option |-> option[j].lines]
  <1>3. Lines(Key(arguments, k)) = FlattenSeq(lists)
    BY <1>1 DEF Lines
  <1>4. ASSUME k \in {"targets", "exclude", "ports", "pairs"}
        PROVE  /\ n \in Nat /\ DOMAIN option = 1 .. n
               /\ lists = [j \in 1 .. n |-> lists[j]]
               /\ \A j \in 1 .. n : option[j] \in ToSet(option) /\ lists[j] = option[j].lines
               /\ \A j \in 1 .. n : IsList(lists[j])
    <2>1. IsList(option) /\ \A a \in ToSet(option) : IsList(a.lines)
      BY <1>2, <1>4 DEF ListsIn
    <2>2. n \in Nat /\ DOMAIN option = 1 .. n
      BY <2>1 DEF IsList
    <2>3. \A j \in 1 .. n : option[j] \in ToSet(option)
      BY <2>2 DEF ToSet
    <2> HIDE DEF n
    <2> QED BY <2>1, <2>2, <2>3
  <1>5. ASSUME k \in {"targets", "exclude"} PROVE \A j \in 1 .. n : AreSpecs(lists[j])
    <2>1. \A a \in ToSet(option) : AreSpecs(a.lines)
      BY <1>2, <1>5 DEF ListsIn
    <2> HIDE DEF n, lists
    <2> QED BY <1>4, <1>5, <2>1
  <1> HIDE DEF n, lists
  <1>6. k \in {"targets", "exclude"} => AreSpecs(FlattenSeq(lists))
    BY <1>4, <1>5, FlatSpecs
  <1>7. k \in {"targets", "exclude", "ports", "pairs"} => IsList(FlattenSeq(lists))
    BY <1>4, FlatLists
  <1> QED BY <1>3, <1>6, <1>7

(* The list a key of a table has.                                          *)
LEMMA ListOfSpecs ==
  ASSUME NEW table, NEW k, \A list \in Key(table, k) : AreSpecs(list)
  PROVE  AreSpecs(ListOf(table, k))
  <1> DEFINE found == Or(Key(table, k), {<< >>})
  <1>1. found # {} /\ \A list \in found : AreSpecs(list)
    BY EmptySpecs DEF Or
  <1> HIDE DEF found
  <1>2. The(found) \in found
    BY <1>1, TheMember
  <1> QED BY <1>1, <1>2 DEF ListOf, found

LEMMA ListOfItems ==
  ASSUME NEW table, NEW k, \A list \in Key(table, k) : IsList(list)
  PROVE  IsList(ListOf(table, k))
  <1> DEFINE found == Or(Key(table, k), {<< >>})
  <1>1. found # {} /\ \A list \in found : IsList(list)
    BY ShortLists DEF Or
  <1> HIDE DEF found
  <1>2. The(found) \in found
    BY <1>1, TheMember
  <1> QED BY <1>1, <1>2 DEF ListOf, found

(* The lists of a set that is defined.                                     *)
LEMMA SetLists ==
  ASSUME NEW fs, GoodFiles(fs), NEW name, name \in TargetSetNames(fs),
         NEW k \in {"include", "file", "exclude"}
  PROVE  AreSpecs(ListOf(The(TargetSetDef(fs, name)).value, k))
  <1> DEFINE having == {j \in DOMAIN fs : Key(fs[j].targets, name) # {}}
             top == Max(having)
             found == [value |-> The(Key(fs[top].targets, name)), layer |-> top]
  <1>1. PICK j \in DOMAIN fs : name \in DOMAIN fs[j].targets
    BY DEF TargetSetNames, Names
  <1>2. having # {}
    BY <1>1 DEF Key
  <1>3. PICK n \in Nat : DOMAIN fs = 1 .. n
    BY DEF GoodFiles
  <1>4. top \in having
    BY <1>2, <1>3, HighestIsIn
  <1>5. TargetSetDef(fs, name) = {found}
    BY <1>2 DEF TargetSetDef, Pick
  <1>6. The({found}) = found
    <2> HIDE DEF found
    <2> QED BY TheMember
  <1>7. found.value = The(Key(fs[top].targets, name))
    OBVIOUS
  <1>8. top \in DOMAIN fs /\ Key(fs[top].targets, name) # {}
    BY <1>4
  <1> HIDE DEF found, top, having
  <1>9. name \in DOMAIN fs[top].targets /\ Key(fs[top].targets, name) = {fs[top].targets[name]}
    BY <1>8 DEF Key
  <1>10. The(Key(fs[top].targets, name)) = fs[top].targets[name]
    BY <1>9, TheMember
  <1>11. IsTargetSet(fs[top].targets[name])
    BY <1>8, <1>9 DEF GoodFiles, IsDocument
  <1>12. The(TargetSetDef(fs, name)).value = fs[top].targets[name]
    BY <1>5, <1>6, <1>7, <1>10
  <1> QED BY <1>11, <1>12, ListOfSpecs DEF IsTargetSet

LEMMA PortSetLists ==
  ASSUME NEW fs, GoodFiles(fs), NEW name, name \in PortSetNames(fs)
  PROVE  IsList(ListOf(The(PortSetDef(fs, name)).value, "ports"))
  <1> DEFINE having == {j \in DOMAIN fs : Key(fs[j].ports, name) # {}}
             top == Max(having)
             found == [value |-> The(Key(fs[top].ports, name)), layer |-> top]
  <1>1. PICK j \in DOMAIN fs : name \in DOMAIN fs[j].ports
    BY DEF PortSetNames, Names
  <1>2. having # {}
    BY <1>1 DEF Key
  <1>3. PICK n \in Nat : DOMAIN fs = 1 .. n
    BY DEF GoodFiles
  <1>4. top \in having
    BY <1>2, <1>3, HighestIsIn
  <1>5. PortSetDef(fs, name) = {found}
    BY <1>2 DEF PortSetDef, Pick
  <1>6. The({found}) = found
    <2> HIDE DEF found
    <2> QED BY TheMember
  <1>7. found.value = The(Key(fs[top].ports, name))
    OBVIOUS
  <1>8. top \in DOMAIN fs /\ Key(fs[top].ports, name) # {}
    BY <1>4
  <1> HIDE DEF found, top, having
  <1>9. name \in DOMAIN fs[top].ports /\ Key(fs[top].ports, name) = {fs[top].ports[name]}
    BY <1>8 DEF Key
  <1>10. The(Key(fs[top].ports, name)) = fs[top].ports[name]
    BY <1>9, TheMember
  <1>11. IsPortSet(fs[top].ports[name])
    BY <1>8, <1>9 DEF GoodFiles, IsDocument
  <1>12. The(PortSetDef(fs, name)).value = fs[top].ports[name]
    BY <1>5, <1>6, <1>7, <1>10
  <1> QED BY <1>11, <1>12, ListOfItems DEF IsPortSet

(* What a scan has under a key is of some scan of some file.               *)
LEMMA OfSomeScan ==
  ASSUME NEW fs, GoodFiles(fs), NEW names, NEW k, NEW p \in InScan(fs, names, k)
  PROVE  \E j \in DOMAIN fs : \E n \in DOMAIN fs[j].scans : p.value \in Key(fs[j].scans[n], k)
  <1> DEFINE get(d) == UNION {KeyIn(d.scans, n, k) : n \in names}
             having == {j \in DOMAIN fs : get(fs[j]) # {}}
             top == Max(having)
  <1>1. PICK m \in Nat : DOMAIN fs = 1 .. m
    BY DEF GoodFiles
  <1>2. having # {} /\ p = [value |-> The(get(fs[top])), layer |-> top]
    BY DEF InScan, Pick
  <1>3. top \in having
    BY <1>1, <1>2, HighestIsIn
  <1>4. top \in DOMAIN fs /\ get(fs[top]) # {} /\ p.value = The(get(fs[top]))
    BY <1>2, <1>3
  <1> HIDE DEF top, having
  <1>5. p.value \in get(fs[top])
    <2> HIDE DEF get
    <2> QED BY <1>4, TheMember
  <1>6. PICK n \in names : p.value \in KeyIn(fs[top].scans, n, k)
    BY <1>5
  <1>7. n \in DOMAIN fs[top].scans /\ p.value \in Key(fs[top].scans[n], k)
    BY <1>6 DEF KeyIn
  <1> QED BY <1>4, <1>7

(* The list of a scan, if it has one.                                      *)
ScanList(k) == The(Or({p.value : p \in InScan(files, scan, k)}, {<< >>}))

LEMMA ScanLists ==
  ASSUME GoodFiles(files), NEW k
  PROVE  /\ k \in {"targets", "exclude"} => AreSpecs(ScanList(k))
         /\ k = "ports" => IsList(ScanList(k))
  <1> DEFINE values == {p.value : p \in InScan(files, scan, k)}
             found == Or(values, {<< >>})
  <1>1. found # {}
    BY DEF Or
  <1>2. The(found) \in found /\ ScanList(k) = The(found)
    <2> HIDE DEF found
    <2> QED BY <1>1, TheMember DEF ScanList, found
  <1>3. \A x \in found : x = << >> \/ \E p \in InScan(files, scan, k) : x = p.value
    BY DEF Or
  <1> HIDE DEF found, values
  <1>4. CASE ScanList(k) = << >>
    BY <1>4, EmptySpecs, ShortLists
  <1>5. ASSUME NEW p \in InScan(files, scan, k), ScanList(k) = p.value
        PROVE  /\ k \in {"targets", "exclude"} => AreSpecs(ScanList(k))
               /\ k = "ports" => IsList(ScanList(k))
    <2>1. PICK j \in DOMAIN files : \E n \in DOMAIN files[j].scans :
                                      p.value \in Key(files[j].scans[n], k)
      BY OfSomeScan
    <2>2. PICK n \in DOMAIN files[j].scans : p.value \in Key(files[j].scans[n], k)
      BY <2>1
    <2>3. IsScan(files[j].scans[n])
      BY DEF GoodFiles, IsDocument
    <2> QED BY <1>5, <2>2, <2>3 DEF IsScan
  <1> QED BY <1>2, <1>3, <1>4, <1>5

(* What the request includes, excludes and pairs are lists; of specs, where*)
(* they are read as targets.                                               *)
LEMMA RequestLists ==
  ASSUME IInv
  PROVE  /\ AreSpecs(TargetItems) /\ AreSpecs(IncludedSpecs) /\ AreSpecs(ExcludedSpecs)
         /\ IsList(PortSpecs)
         /\ ByPairs => IsList(Lines(Key(cli, "pairs")))
  <1>1. GoodFiles(files) /\ ListsIn(cli)
    BY DEF IInv, RequestStands, cli
  <1>2. AreSpecs(TargetItems)
    <2>1. CASE Key(cli, "targets") # {}
      BY <1>1, <2>1, LinesAre DEF TargetItems, Items
    <2>2. CASE Key(cli, "targets") = {}
      <3>1. TargetItems = ScanList("targets")
        BY <2>2 DEF TargetItems, Items, ScanList
      <3> QED BY <1>1, <3>1, ScanLists
    <2> QED BY <2>1, <2>2
  <1>3. PICK n \in Nat : n = Len(TargetItems) /\ DOMAIN TargetItems = 1 .. n
    BY <1>2 DEF AreSpecs, IsList
  <1>4. ASSUME NEW j \in 1 .. n
        PROVE  AreSpecs(Included(TargetItems[j])) /\ AreSpecs(Excluded(TargetItems[j]))
    <2>1. PICK item : item = TargetItems[j]
      OBVIOUS
    <2>2. item \in ToSet(TargetItems)
      BY <1>3, <2>1 DEF ToSet
    <2>3. IsSpec(item)
      BY <1>2, <2>2 DEF AreSpecs
    <2>4. CASE IsNameIn(item, TargetSetNames(files))
      <3>1. item.host \in TargetSetNames(files)
        BY <2>4 DEF IsNameIn
      <3>2. \A k \in {"include", "file", "exclude"} : AreSpecs(ListOf(NamedSet(item), k))
        BY <1>1, <3>1, SetLists DEF NamedSet
      <3>3. AreSpecs(ListOf(NamedSet(item), "include") \o ListOf(NamedSet(item), "file"))
        BY <3>2, JoinedSpecs
      <3> QED BY <2>1, <2>4, <3>2, <3>3 DEF Included, Excluded
    <2>5. CASE ~IsNameIn(item, TargetSetNames(files))
      <3>1. AreSpecs(<<item>>)
        BY <2>3, ShortLists DEF AreSpecs
      <3> QED BY <2>1, <2>5, <3>1, EmptySpecs DEF Included, Excluded
    <2> QED BY <2>4, <2>5
  <1>5. AreSpecs(IncludedSpecs)
    <2> DEFINE lists == [j \in DOMAIN TargetItems |-> Included(TargetItems[j])]
    <2>1. lists = [j \in 1 .. n |-> lists[j]] /\ \A j \in 1 .. n : AreSpecs(lists[j])
      BY <1>3, <1>4
    <2>2. IncludedSpecs = FlattenSeq(lists)
      BY DEF IncludedSpecs
    <2> HIDE DEF lists
    <2> QED BY <2>1, <2>2, FlatSpecs
  <1>6. AreSpecs(ExcludedSpecs)
    <2> DEFINE lists == [j \in DOMAIN TargetItems |-> Excluded(TargetItems[j])]
               more == IF Key(cli, "exclude") = {} THEN << >> ELSE Lines(Key(cli, "exclude"))
    <2>1. lists = [j \in 1 .. n |-> lists[j]] /\ \A j \in 1 .. n : AreSpecs(lists[j])
      BY <1>3, <1>4
    <2>2. ExcludedSpecs = FlattenSeq(lists) \o ScanList("exclude") \o more
      BY DEF ExcludedSpecs, ScanList
    <2>3. AreSpecs(more)
      BY <1>1, EmptySpecs, LinesAre
    <2> HIDE DEF lists, more
    <2>4. AreSpecs(FlattenSeq(lists))
      BY <2>1, FlatSpecs
    <2>5. AreSpecs(ScanList("exclude"))
      BY <1>1, ScanLists
    <2>6. AreSpecs(FlattenSeq(lists) \o ScanList("exclude"))
      BY <2>4, <2>5, JoinedSpecs
    <2>7. AreSpecs(FlattenSeq(lists) \o ScanList("exclude") \o more)
      BY <2>3, <2>6, JoinedSpecs
    <2> QED BY <2>2, <2>7
  <1>7. IsList(PortSpecs)
    <2>1. IsList(PortItems)
      <3>1. CASE Key(cli, "ports") # {}
        BY <1>1, <3>1, LinesAre DEF PortItems, Items
      <3>2. CASE Key(cli, "ports") = {}
        <4>1. PortItems = ScanList("ports")
          BY <3>2 DEF PortItems, Items, ScanList
        <4> QED BY <1>1, <4>1, ScanLists
      <3> QED BY <3>1, <3>2
    <2>2. PICK m \in Nat : m = Len(PortItems) /\ DOMAIN PortItems = 1 .. m
      BY <2>1 DEF IsList
    <2> DEFINE stands(item) == IF IsNameIn(item, PortSetNames(files))
                                 THEN ListOf(The(PortSetDef(files, item.host)).value, "ports")
                                 ELSE <<item>>
               lists == [j \in DOMAIN PortItems |-> stands(PortItems[j])]
    <2>3. ASSUME NEW item PROVE IsList(stands(item))
      BY <1>1, PortSetLists, ShortLists DEF IsNameIn
    <2>4. PortSpecs = FlattenSeq(lists)
      BY DEF PortSpecs
    <2> HIDE DEF stands
    <2>5. lists = [j \in 1 .. m |-> lists[j]] /\ \A j \in 1 .. m : IsList(lists[j])
      BY <2>2, <2>3
    <2> HIDE DEF lists
    <2> QED BY <2>2, <2>4, <2>5, FlatLists
  <1>8. ByPairs => IsList(Lines(Key(cli, "pairs")))
    BY <1>1, LinesAre DEF ByPairs
  <1> QED BY <1>2, <1>5, <1>6, <1>7, <1>8

-----------------------------------------------------------------------------
(* The endpoints of a plan.                                                *)

(* What resolving the names makes of the targets, as the files are.        *)
AppliedNow == ApplyDns(TargetsNow, DnsNow)

(* What the stages before s have put into a plan p of its endpoints.       *)
Has(p, k, v) == k \in DOMAIN p /\ p[k] = v
PlanHas(s, p) ==
  /\ s \in AfterDns => Has(p, "dns", DnsNow)
  /\ s \in AfterTargets =>
       /\ Has(p, "pairs", IF ByPairs THEN {Pairs} ELSE {})
       /\ Has(p, "include", IF ByPairs THEN << >> ELSE IncludedSpecs)
       /\ Has(p, "exclude", IF ByPairs THEN << >> ELSE ExcludedSpecs)
  /\ s \in AfterPorts /\ ~ByPairs =>
       Has(p, "ports", ParsePorts(PortSpecs)) /\ Has(p, "port_specs", PortSpecs)
  /\ s \in AfterNames =>
       Has(p, "targets", AppliedNow.targets) /\ Has(p, "resolved", AppliedNow.resolved)

(* Only what is resolved locally has been looked up, and nothing before    *)
(* there are files.                                                        *)
LookupsStand ==
  /\ lookups \subseteq ToSet(AppliedNow.resolved)
  /\ stage = "load" => lookups = {}

EndpointsInv == AdviceInv /\ PlanHas(stage, plan) /\ LookupsStand

(* It stays so while the command line and the files stay.                  *)
LEMMA EndpointsUnmoved ==
  ASSUME IInv, UNCHANGED Settings, NEW s, NEW p
  PROVE  AppliedNow' = AppliedNow /\ (PlanHas(s, p) => PlanHas(s, p)')
  <1>1. UNCHANGED <<DnsNow, ByPairs, TargetsNow, IncludedSpecs, ExcludedSpecs, PortSpecs, Pairs>>
    BY DEF Settings
  <1>2. UNCHANGED AppliedNow
    BY <1>1 DEF AppliedNow
  <1> QED BY <1>1, <1>2 DEF PlanHas

LEMMA HasAdded ==
  ASSUME NEW f, NEW g, NEW k \in DOMAIN f
  PROVE  Has(With(g, f), k, f[k])
  BY AddedFirst DEF Has

LEMMA HasKept ==
  ASSUME NEW f, NEW g, NEW k, NEW v, Has(g, k, v), k \notin DOMAIN f
  PROVE  Has(With(g, f), k, v)
  BY AddingKeeps DEF Has

(* A stage that resolves what the endpoints are to have keeps them.        *)
LEMMA StageHas ==
  ASSUME EndpointsInv, AdviceInv', NEW from, NEW to, NEW refusal, NEW resolved, NEW origins,
         Stage(from, to, refusal, resolved, origins), UNCHANGED files,
         lookups' \subseteq lookups \union ToSet(AppliedNow.resolved),
         refusal = {} => PlanHas(to, With(plan, resolved)),
         to # "load"
  PROVE  EndpointsInv'
  <1>1. UNCHANGED <<request, files>>
    BY DEF Stage
  <1>2. UNCHANGED Settings
    BY <1>1, SettingsUnmoved DEF EndpointsInv, AdviceInv
  <1>3. IInv
    BY DEF EndpointsInv, AdviceInv
  <1>4. UNCHANGED AppliedNow /\ \A s, p : PlanHas(s, p) => PlanHas(s, p)'
    BY <1>2, <1>3, EndpointsUnmoved
  <1>5. CASE refusal # {}
    <2>1. stage' = "refused"
      BY <1>5 DEF Stage
    <2>2. PlanHas(stage, plan)'
      BY <2>1 DEF PlanHas, AfterDns, AfterTargets, AfterPorts, AfterNames, AfterScalars, AfterAll
    <2>3. LookupsStand'
      BY <1>4, <2>1 DEF LookupsStand, EndpointsInv
    <2> QED BY <2>2, <2>3 DEF EndpointsInv
  <1>6. CASE refusal = {}
    <2>1. stage' = to /\ plan' = With(plan, resolved)
      BY <1>6 DEF Stage
    <2>2. PlanHas(stage', plan')
      BY <1>6, <2>1
    <2>3. PlanHas(stage, plan)'
      BY <1>4, <2>2
    <2>4. LookupsStand'
      BY <1>4, <2>1 DEF LookupsStand, EndpointsInv
    <2> QED BY <2>3, <2>4 DEF EndpointsInv
  <1> QED BY <1>5, <1>6

(* A stage that resolves something else, and so do what "transport test"   *)
(* does with a plan.                                                       *)
EndpointKeys ==
  {"dns", "pairs", "include", "exclude", "ports", "port_specs", "targets", "resolved"}
Alike(from, to) ==
  /\ from \in AfterDns <=> to \in AfterDns
  /\ from \in AfterTargets <=> to \in AfterTargets
  /\ from \in AfterPorts <=> to \in AfterPorts
  /\ from \in AfterNames <=> to \in AfterNames

LEMMA OtherStage ==
  ASSUME EndpointsInv, AdviceInv', NEW from, NEW to, NEW refusal, NEW resolved, NEW origins,
         Stage(from, to, refusal, resolved, origins), UNCHANGED <<files, lookups>>,
         EndpointKeys \cap DOMAIN resolved = {}, Alike(from, to), to # "load"
  PROVE  EndpointsInv'
  <1>1. PlanHas(from, plan)
    BY DEF EndpointsInv, Stage
  <1>2. PICK new : new = With(plan, resolved)
    OBVIOUS
  <1>3. \A k \in EndpointKeys : \A v : Has(plan, k, v) => Has(new, k, v)
    BY <1>2, HasKept
  <1>4. PlanHas(to, new)
    BY <1>1, <1>3 DEF PlanHas, Alike, EndpointKeys
  <1> QED BY <1>2, <1>4, StageHas

(* Before the endpoints and after them: every other stage.                 *)
LEMMA OtherStages ==
  ASSUME EndpointsInv, AdviceInv',
         ValidateFiles \/ CheckScanExists \/ ChooseTransport \/ ChooseProfile \/ ResolveTiming
           \/ ResolveScalars \/ AddWarnings
  PROVE  EndpointsInv'
  <1> USE DEF Alike, AfterDns, AfterTargets, AfterPorts, AfterNames, AfterScalars, AfterAll
  <1>1. CASE ValidateFiles
    <2>1. PICK refusal : Stage("validate", "scan", refusal, << >>, << >>)
                         /\ UNCHANGED <<files, lookups>>
      BY <1>1 DEF ValidateFiles
    <2>2. EndpointKeys \cap DOMAIN << >> = {} /\ Alike("validate", "scan")
      OBVIOUS
    <2> QED BY <2>1, <2>2, OtherStage
  <1>2. CASE CheckScanExists
    <2>1. PICK refusal : Stage("scan", "transport", refusal, << >>, << >>)
                         /\ UNCHANGED <<files, lookups>>
      BY <1>2 DEF CheckScanExists
    <2>2. EndpointKeys \cap DOMAIN << >> = {} /\ Alike("scan", "transport")
      OBVIOUS
    <2> QED BY <2>1, <2>2, OtherStage
  <1>3. CASE ChooseTransport
    <2>1. PICK refusal, r, origins :
            Stage("transport", "profile", refusal, [transport |-> r], origins)
            /\ UNCHANGED <<files, lookups>>
      BY <1>3 DEF ChooseTransport
    <2>2. EndpointKeys \cap DOMAIN [transport |-> r] = {} /\ Alike("transport", "profile")
      BY DEF EndpointKeys
    <2> QED BY <2>1, <2>2, OtherStage
  <1>4. CASE ChooseProfile
    <2>1. PICK refusal, name, base, origins :
            Stage("profile", "timing", refusal, [profile |-> name, base |-> base], origins)
            /\ UNCHANGED <<files, lookups>>
      BY <1>4 DEF ChooseProfile
    <2>2. EndpointKeys \cap DOMAIN [profile |-> name, base |-> base] = {}
          /\ Alike("profile", "timing")
      BY DEF EndpointKeys
    <2> QED BY <2>1, <2>2, OtherStage
  <1>5. CASE ResolveTiming
    <2>1. PICK refusal, timing, flags, origins :
            Stage("timing", "dns", refusal, [timing |-> timing, flags |-> flags], origins)
            /\ UNCHANGED <<files, lookups>>
      BY <1>5 DEF ResolveTiming
    <2>2. EndpointKeys \cap DOMAIN [timing |-> timing, flags |-> flags] = {}
          /\ Alike("timing", "dns")
      BY DEF EndpointKeys
    <2> QED BY <2>1, <2>2, OtherStage
  <1>6. CASE ResolveScalars
    <2>1. PICK refusal, scalars, services, origins :
            Stage("scalars", "warnings", refusal,
                  [scalars |-> scalars, services |-> services], origins)
            /\ UNCHANGED <<files, lookups>>
      BY <1>6 DEF ResolveScalars
    <2>2. EndpointKeys \cap DOMAIN [scalars |-> scalars, services |-> services] = {}
          /\ Alike("scalars", "warnings")
      BY DEF EndpointKeys
    <2> QED BY <2>1, <2>2, OtherStage
  <1>7. CASE AddWarnings
    <2> DEFINE to == IF request.test THEN "measure" ELSE "planned"
               resolved == [warnings |-> Warnings]
    <2>1. Stage("warnings", to, {}, resolved, << >>) /\ UNCHANGED <<files, lookups>>
      BY <1>7 DEF AddWarnings
    <2>2. EndpointKeys \cap DOMAIN resolved = {} /\ to \in {"measure", "planned"}
      BY DEF EndpointKeys
    <2> HIDE DEF to, resolved
    <2>3. Alike("warnings", to) /\ to # "load"
      BY <2>2
    <2> QED BY <2>1, <2>2, <2>3, OtherStage
  <1> QED BY <1>1, <1>2, <1>3, <1>4, <1>5, <1>6, <1>7

(* The stages that resolve the endpoints.                                  *)
LEMMA DnsHas == ASSUME EndpointsInv, AdviceInv', ResolveDns PROVE EndpointsInv'
  <1> DEFINE refusal == DnsProblem(ModeNow, TransportNow)
             resolved == [requested |-> ModeNow, dns |-> DnsNow]
             origins == [dns |-> DnsMode(TransportNow)]
             to == IF ByPairs THEN "pairs" ELSE "targets"
  <1>1. stage = "dns" /\ PlanAt("dns", plan)
    BY DEF ResolveDns, Stage, EndpointsInv, AdviceInv
  <1>2. plan.transport = TransportNow
    BY <1>1 DEF PlanAt, AfterTransport, AfterProfile, AfterTiming
  <1>3. Stage("dns", to, refusal, resolved, origins) /\ UNCHANGED <<files, lookups>>
    <2>1. to = IF Key(cli, "pairs") = {} THEN "targets" ELSE "pairs"
      BY DEF ByPairs
    <2> HIDE DEF to
    <2> QED BY <1>2, <2>1 DEF ResolveDns, ModeNow, DnsNow
  <1>4. "dns" \in DOMAIN resolved /\ resolved["dns"] = DnsNow
    OBVIOUS
  <1>5. to \in {"targets", "pairs"}
    OBVIOUS
  <1> HIDE DEF refusal, resolved, origins, to
  <1> DEFINE new == With(plan, resolved)
  <1>6. Has(new, "dns", DnsNow)
    BY <1>4, HasAdded
  <1> HIDE DEF new
  <1>7. PlanHas(to, new)
    BY <1>5, <1>6 DEF PlanHas, AfterTargets, AfterPorts, AfterNames, AfterScalars, AfterAll
  <1> QED BY <1>3, <1>5, <1>7, StageHas DEF new

LEMMA TargetsHave == ASSUME EndpointsInv, AdviceInv', ResolveTargets PROVE EndpointsInv'
  <1> DEFINE resolved == [targets |-> Expand(IncludedSpecs, ExcludedSpecs), pairs |-> {},
                          include |-> IncludedSpecs, exclude |-> ExcludedSpecs,
                          resumed_from |-> Key(cli, "resumed_from")]
  <1>1. stage = "targets" /\ PassedBy("targets") /\ PlanHas("targets", plan)
    BY DEF ResolveTargets, Stage, EndpointsInv, AdviceInv
  <1>2. ~ByPairs /\ Has(plan, "dns", DnsNow)
    BY <1>1 DEF PassedBy, PlanHas, AfterDns
  <1>3. Stage("targets", "ports", TargetsProblem, resolved, << >>)
        /\ UNCHANGED <<files, lookups>>
    BY DEF ResolveTargets
  <1>4. /\ {"pairs", "include", "exclude"} \subseteq DOMAIN resolved
        /\ resolved["pairs"] = {} /\ resolved["include"] = IncludedSpecs
        /\ resolved["exclude"] = ExcludedSpecs /\ "dns" \notin DOMAIN resolved
    OBVIOUS
  <1> HIDE DEF resolved
  <1> DEFINE new == With(plan, resolved)
  <1>5. Has(new, "dns", DnsNow)
    BY <1>2, <1>4, HasKept
  <1>6. /\ Has(new, "pairs", {}) /\ Has(new, "include", IncludedSpecs)
        /\ Has(new, "exclude", ExcludedSpecs)
    BY <1>4, HasAdded
  <1> HIDE DEF new
  <1>7. PlanHas("ports", new)
    BY <1>2, <1>5, <1>6 DEF PlanHas, AfterPorts, AfterNames, AfterScalars, AfterAll
  <1> QED BY <1>3, <1>7, StageHas DEF new

LEMMA PortsHave == ASSUME EndpointsInv, AdviceInv', ResolvePorts PROVE EndpointsInv'
  <1> DEFINE resolved == [ports |-> ParsePorts(PortSpecs), port_specs |-> PortSpecs]
  <1>1. stage = "ports" /\ PassedBy("ports") /\ PlanHas("ports", plan)
    BY DEF ResolvePorts, Stage, EndpointsInv, AdviceInv
  <1>2. ~ByPairs
    BY <1>1 DEF PassedBy
  <1>3. /\ Has(plan, "dns", DnsNow) /\ Has(plan, "pairs", {})
        /\ Has(plan, "include", IncludedSpecs) /\ Has(plan, "exclude", ExcludedSpecs)
    BY <1>1, <1>2 DEF PlanHas, AfterDns, AfterTargets
  <1>4. Stage("ports", "names", PortsProblem, resolved, << >>) /\ UNCHANGED <<files, lookups>>
    BY DEF ResolvePorts
  <1>5. /\ {"ports", "port_specs"} = DOMAIN resolved
        /\ resolved["ports"] = ParsePorts(PortSpecs) /\ resolved["port_specs"] = PortSpecs
    OBVIOUS
  <1> HIDE DEF resolved
  <1> DEFINE new == With(plan, resolved)
  <1>6. /\ Has(new, "dns", DnsNow) /\ Has(new, "pairs", {})
        /\ Has(new, "include", IncludedSpecs) /\ Has(new, "exclude", ExcludedSpecs)
    BY <1>3, <1>5, HasKept
  <1>7. Has(new, "ports", ParsePorts(PortSpecs)) /\ Has(new, "port_specs", PortSpecs)
    BY <1>5, HasAdded
  <1> HIDE DEF new
  <1>8. PlanHas("names", new)
    BY <1>2, <1>6, <1>7 DEF PlanHas, AfterNames, AfterScalars, AfterAll
  <1> QED BY <1>4, <1>8, StageHas DEF new

LEMMA PairsHave == ASSUME EndpointsInv, AdviceInv', ResolvePairs PROVE EndpointsInv'
  <1>1. stage = "pairs" /\ PassedBy("pairs") /\ PlanHas("pairs", plan)
    BY DEF ResolvePairs, Stage, EndpointsInv, AdviceInv
  <1>2. ByPairs /\ Has(plan, "dns", DnsNow)
    BY <1>1 DEF PassedBy, PlanHas, AfterDns
  <1>3. PICK p, f :
          Stage("pairs", "names", PairsProblem,
                [targets |-> PairTargets, ports |-> p, pairs |-> {Pairs}, include |-> << >>,
                 exclude |-> << >>, resumed_from |-> f], << >>)
          /\ UNCHANGED <<files, lookups>>
    BY DEF ResolvePairs
  <1> DEFINE resolved == [targets |-> PairTargets, ports |-> p, pairs |-> {Pairs},
                          include |-> << >>, exclude |-> << >>, resumed_from |-> f]
  <1>4. /\ {"pairs", "include", "exclude"} \subseteq DOMAIN resolved
        /\ resolved["pairs"] = {Pairs} /\ resolved["include"] = << >>
        /\ resolved["exclude"] = << >> /\ "dns" \notin DOMAIN resolved
    OBVIOUS
  <1>5. Stage("pairs", "names", PairsProblem, resolved, << >>) /\ UNCHANGED <<files, lookups>>
    BY <1>3
  <1> HIDE DEF resolved
  <1> DEFINE new == With(plan, resolved)
  <1>6. Has(new, "dns", DnsNow)
    BY <1>2, <1>4, HasKept
  <1>7. Has(new, "pairs", {Pairs}) /\ Has(new, "include", << >>) /\ Has(new, "exclude", << >>)
    BY <1>4, HasAdded
  <1> HIDE DEF new
  <1>8. PlanHas("names", new)
    BY <1>2, <1>6, <1>7 DEF PlanHas, AfterNames, AfterScalars, AfterAll
  <1> QED BY <1>5, <1>8, StageHas DEF new

LEMMA NamesHave == ASSUME EndpointsInv, AdviceInv', ResolveNames PROVE EndpointsInv'
  <1> DEFINE resolved == [targets |-> AppliedNow.targets, resolved |-> AppliedNow.resolved]
  <1>1. stage = "names" /\ PlanHas("names", plan) /\ PlanAt("names", plan)
    BY DEF ResolveNames, Stage, EndpointsInv, AdviceInv
  <1>2. plan.dns = DnsNow /\ plan.targets = TargetsNow
    BY <1>1 DEF PlanAt
  <1>3. ApplyDns(plan.targets, plan.dns) = AppliedNow
    BY <1>2 DEF AppliedNow
  <1>4. /\ Stage("names", "scalars", NamesProblem(AppliedNow), resolved, << >>)
        /\ lookups' = lookups \union ToSet(AppliedNow.resolved) /\ UNCHANGED files
    BY <1>3 DEF ResolveNames
  <1>5. /\ DOMAIN resolved = {"targets", "resolved"}
        /\ resolved["targets"] = AppliedNow.targets /\ resolved["resolved"] = AppliedNow.resolved
    OBVIOUS
  <1> HIDE DEF resolved
  <1> DEFINE new == With(plan, resolved)
  <1>6. \A k \in {"dns", "pairs", "include", "exclude", "ports", "port_specs"} :
          \A v : Has(plan, k, v) => Has(new, k, v)
    BY <1>5, HasKept
  <1>7. Has(new, "targets", AppliedNow.targets) /\ Has(new, "resolved", AppliedNow.resolved)
    BY <1>5, HasAdded
  <1> HIDE DEF new
  <1>8. PlanHas("scalars", new)
    BY <1>1, <1>6, <1>7
       DEF PlanHas, AfterDns, AfterTargets, AfterPorts, AfterNames, AfterScalars, AfterAll
  <1> QED BY <1>4, <1>8, StageHas DEF new

(* What "transport test" does with a plan, and the load of the files.      *)
LEMMA TestsHave ==
  ASSUME EndpointsInv, AdviceInv', Measure \/ Check \/ Conclude \/ CalibrateLevel
  PROVE  EndpointsInv'
  <1>1. /\ UNCHANGED <<request, files, plan, lookups>> /\ stage \in AfterAll
        /\ stage' \in AfterAll \union {"refused"}
    BY DEF Measure, Measurable, Check, Conclude, CalibrateLevel, AfterAll
  <1>2. UNCHANGED Settings /\ IInv
    BY <1>1, SettingsUnmoved DEF EndpointsInv, AdviceInv
  <1>3. UNCHANGED AppliedNow /\ \A s, p : PlanHas(s, p) => PlanHas(s, p)'
    BY <1>2, EndpointsUnmoved
  <1>4. PlanHas(stage', plan)
    BY <1>1
       DEF EndpointsInv, PlanHas, AfterDns, AfterTargets, AfterPorts, AfterNames, AfterScalars,
           AfterAll
  <1>5. PlanHas(stage, plan)'
    BY <1>1, <1>3, <1>4
  <1>6. LookupsStand'
    BY <1>1, <1>3 DEF EndpointsInv, LookupsStand, AfterAll
  <1> QED BY <1>5, <1>6 DEF EndpointsInv

LEMMA LoadHas == ASSUME EndpointsInv, AdviceInv', Load PROVE EndpointsInv'
  <1>1. stage = "load" /\ stage' \in {"refused", "validate"} /\ lookups' = lookups
    BY DEF Load
  <1>2. lookups = {}
    BY <1>1 DEF EndpointsInv, LookupsStand
  <1>3. LookupsStand' /\ PlanHas(stage, plan)'
    BY <1>1, <1>2 DEF LookupsStand, PlanHas, AfterDns, AfterTargets, AfterPorts, AfterNames,
                      AfterScalars, AfterAll
  <1> QED BY <1>3 DEF EndpointsInv

(* Following the advice resolves the same endpoints again.                 *)
LEMMA FollowAdviceHas == ASSUME EndpointsInv, AdviceInv', FollowAdvice PROVE EndpointsInv'
  <1>1. UNCHANGED Settings /\ IInv
    BY FollowAdviceStep DEF EndpointsInv, AdviceInv
  <1>2. UNCHANGED AppliedNow
    BY <1>1, EndpointsUnmoved
  <1>3. stage' = "validate" /\ lookups' = lookups
    BY DEF FollowAdvice
  <1>4. LookupsStand' /\ PlanHas(stage, plan)'
    BY <1>2, <1>3 DEF EndpointsInv, LookupsStand, PlanHas, AfterDns, AfterTargets, AfterPorts,
                      AfterNames, AfterScalars, AfterAll
  <1> QED BY <1>4 DEF EndpointsInv

LEMMA EndpointsInit == Init => EndpointsInv
  <1> SUFFICES ASSUME Init PROVE EndpointsInv
    OBVIOUS
  <1>1. PlanHas(stage, plan) /\ LookupsStand
    BY DEF Init, PlanHas, LookupsStand, AfterDns, AfterTargets, AfterPorts, AfterNames,
           AfterScalars, AfterAll
  <1> QED BY <1>1, AdviceInit DEF EndpointsInv

LEMMA EndpointsNext == EndpointsInv /\ [Next]_vars => EndpointsInv'
  <1> SUFFICES ASSUME EndpointsInv, [Next]_vars PROVE EndpointsInv'
    OBVIOUS
  <1>1. AdviceInv'
    BY AdviceNext DEF EndpointsInv
  <1>2. CASE UNCHANGED vars
    <2>1. UNCHANGED <<request, files, stage, plan, lookups>>
      BY <1>2 DEF vars
    <2>2. UNCHANGED Settings /\ IInv
      BY <2>1, SettingsUnmoved DEF EndpointsInv, AdviceInv
    <2>3. UNCHANGED AppliedNow /\ \A s, p : PlanHas(s, p) => PlanHas(s, p)'
      BY <2>2, EndpointsUnmoved
    <2>4. PlanHas(stage, plan)'
      BY <2>1, <2>3 DEF EndpointsInv
    <2>5. LookupsStand'
      BY <2>1, <2>3 DEF EndpointsInv, LookupsStand
    <2> QED BY <1>1, <2>4, <2>5 DEF EndpointsInv
  <1>3. CASE ValidateFiles \/ CheckScanExists \/ ChooseTransport \/ ChooseProfile
               \/ ResolveTiming \/ ResolveScalars \/ AddWarnings
    BY <1>1, <1>3, OtherStages
  <1>4. CASE ResolveDns \/ ResolveTargets \/ ResolvePorts \/ ResolvePairs \/ ResolveNames
    BY <1>1, <1>4, DnsHas, TargetsHave, PortsHave, PairsHave, NamesHave
  <1>5. CASE Measure \/ Check \/ Conclude \/ CalibrateLevel
    BY <1>1, <1>5, TestsHave
  <1>6. CASE Load \/ FollowAdvice
    BY <1>1, <1>6, LoadHas, FollowAdviceHas
  <1> QED BY <1>2, <1>3, <1>4, <1>5, <1>6 DEF Next, Over

-----------------------------------------------------------------------------
(* What is resolved when no stage refuses.                                 *)

(* No problem of two, or of three.                                         *)
LEMMA NoneOfTwo ==
  ASSUME NEW a1, NEW a2, NEW b1 \in BOOLEAN, NEW b2 \in BOOLEAN,
         FirstProblem(<<<<a1, b1>>, <<a2, b2>>>>) = {}
  PROVE  ~b1 /\ ~b2
  <1> DEFINE checks == <<<<a1, b1>>, <<a2, b2>>>>
  <1>1. DOMAIN checks = 1 .. 2 /\ checks[1][2] = b1 /\ checks[2][2] = b2
    OBVIOUS
  <1>2. FirstProblem(checks) = {}
    OBVIOUS
  <1> HIDE DEF checks
  <1>3. {k \in DOMAIN checks : checks[k][2]} = {}
    BY <1>2 DEF FirstProblem
  <1> QED BY <1>1, <1>3

LEMMA NoneOfThree ==
  ASSUME NEW a1, NEW a2, NEW a3, NEW b1 \in BOOLEAN, NEW b2 \in BOOLEAN, NEW b3 \in BOOLEAN,
         FirstProblem(<<<<a1, b1>>, <<a2, b2>>, <<a3, b3>>>>) = {}
  PROVE  ~b1 /\ ~b2 /\ ~b3
  <1> DEFINE checks == <<<<a1, b1>>, <<a2, b2>>, <<a3, b3>>>>
  <1>1. DOMAIN checks = 1 .. 3 /\ checks[1][2] = b1 /\ checks[2][2] = b2 /\ checks[3][2] = b3
    OBVIOUS
  <1>2. FirstProblem(checks) = {}
    OBVIOUS
  <1> HIDE DEF checks
  <1>3. {k \in DOMAIN checks : checks[k][2]} = {}
    BY <1>2 DEF FirstProblem
  <1> QED BY <1>1, <1>3

(* How names are resolved, when the planner does not refuse it.            *)
LEMMA DnsIs ==
  ASSUME DnsPasses
  PROVE  /\ DnsNow \in {"local", "transport", "disabled"}
         /\ DnsNow = "transport" => SupportsRemoteDns(TransportNow)
  <1>1. PICK b1 \in BOOLEAN : b1 = (ModeNow \notin DnsModes)
    OBVIOUS
  <1>2. PICK b2 \in BOOLEAN : b2 = (ModeNow = "transport" /\ ~SupportsRemoteDns(TransportNow))
    OBVIOUS
  <1>3. FirstProblem(<<<<"dns", b1>>, <<"dns_not_remote", b2>>>>) = {}
    BY <1>1, <1>2 DEF DnsPasses, DnsProblem
  <1>4. ~b1 /\ ~b2
    BY <1>3, NoneOfTwo
  <1> QED BY <1>1, <1>2, <1>4 DEF DnsNow, AppliedDns, DnsModes

(* The targets of a request: what is included and not excluded, each once. *)
LEMMA TargetsAre ==
  ASSUME IInv, ~ByPairs, TargetsPass
  PROVE  /\ IsList(TargetsNow) /\ OneToOne(TargetsNow)
         /\ ToSet(TargetsNow) =
              {AddrTarget(a) : a \in Matched(IncludedSpecs) \ Matched(ExcludedSpecs)}
                \union {HostTarget(h) : h \in HostsOf(IncludedSpecs) \ HostsOf(ExcludedSpecs)}
  <1>1. TargetsProblem = {} /\ TargetsNow = Expand(IncludedSpecs, ExcludedSpecs)
    BY DEF TargetsPass, TargetsNow
  <1>2. \A s \in ToSet(IncludedSpecs) \union ToSet(ExcludedSpecs) : ~Malformed(s)
    BY <1>1 DEF TargetsProblem
  <1> QED BY <1>1, <1>2, RequestLists, ExpandIs

(* Its ports.                                                              *)
AskedOf(items) == UNION {s.first .. s.last : s \in ToSet(items)}

LEMMA PortsAre ==
  ASSUME IInv, ~ByPairs, PortsPass
  PROVE  /\ IsList(ParsePorts(PortSpecs)) /\ OneToOne(ParsePorts(PortSpecs))
         /\ ToSet(ParsePorts(PortSpecs)) = AskedOf(PortSpecs)
  <1>0. MaxPort \in Int
    BY DEF MaxPort
  <1>1. PICK b1 \in BOOLEAN : b1 = (PortItems = << >>)
    OBVIOUS
  <1>2. PICK b2 \in BOOLEAN : b2 = (\E s \in ToSet(PortSpecs) : MalformedPorts(s))
    OBVIOUS
  <1>3. PICK b3 \in BOOLEAN : b3 = (PortSpecs = << >>)
    OBVIOUS
  <1>4. FirstProblem(<<<<"no_ports", b1>>, <<"port", b2>>, <<"no_ports", b3>>>>) = {}
    BY <1>1, <1>2, <1>3 DEF PortsPass, PortsProblem
  <1>5. ~b2
    BY <1>4, NoneOfThree
  <1>6. \A s \in ToSet(PortSpecs) : ~MalformedPorts(s)
    BY <1>2, <1>5
  <1>7. \A s \in ToSet(PortSpecs) : s.first .. s.last \subseteq 1 .. MaxPort
    <2>1. TAKE s \in ToSet(PortSpecs)
    <2>2. s.first \in 1 .. MaxPort /\ s.last \in 1 .. MaxPort
      BY <1>6 DEF MalformedPorts
    <2>3. PICK a \in 1 .. MaxPort : a = s.first
      BY <2>2
    <2>4. PICK b \in 1 .. MaxPort : b = s.last
      BY <2>2
    <2>5. ASSUME NEW x \in a .. b PROVE x \in 1 .. MaxPort
      BY <1>0
    <2> QED BY <2>3, <2>4, <2>5
  <1>8. AskedOf(PortSpecs) \subseteq 1 .. MaxPort
    BY <1>7 DEF AskedOf
  <1>9. IsFiniteSet(1 .. MaxPort)
    BY <1>0, FS_Interval
  <1>10. IsFiniteSet(AskedOf(PortSpecs)) /\ AskedOf(PortSpecs) \in SUBSET Int
    <2>1. 1 .. MaxPort \subseteq Int
      OBVIOUS
    <2> QED BY <1>8, <1>9, <2>1, FS_Subset
  <1>11. UNION {PortSpecs[k].first .. PortSpecs[k].last : k \in DOMAIN PortSpecs}
           = AskedOf(PortSpecs)
    BY DEF AskedOf, ToSet
  <1>12. ParsePorts(PortSpecs) = Ascending(AskedOf(PortSpecs))
    BY <1>11 DEF ParsePorts
  <1> QED BY <1>10, <1>12, AscendingEnumerates DEF Enumerates

(* And endpoints given one by one, with their targets.                     *)
LEMMA PairsAre ==
  ASSUME IInv, ByPairs
  PROVE  /\ IsList(Pairs) /\ OneToOne(Pairs) /\ ToSet(Pairs) = ToSet(Lines(Key(cli, "pairs")))
         /\ IsList(TargetsNow) /\ OneToOne(TargetsNow)
  <1>1. /\ IsList(Pairs) /\ OneToOne(Pairs)
        /\ ToSet(Pairs) = ToSet(Lines(Key(cli, "pairs")))
    BY RequestLists, DistinctIs DEF Pairs
  <1>2. PICK n \in Nat : n = Len(Pairs) /\ DOMAIN Pairs = 1 .. n
    BY <1>1 DEF IsList
  <1> DEFINE aims == [k \in DOMAIN Pairs |-> Pairs[k].target]
  <1>3. aims = [k \in 1 .. n |-> aims[k]]
    BY <1>2
  <1>4. TargetsNow = Distinct(aims)
    BY DEF TargetsNow, PairTargets
  <1> HIDE DEF aims
  <1>5. IsList(aims)
    BY <1>2, <1>3, ListIsFunction
  <1> QED BY <1>1, <1>4, <1>5, DistinctIs

(* What the resolution of names leaves of the request.                     *)
LEMMA AppliedNowIs ==
  ASSUME IInv, DnsPasses, TargetsPass
  PROVE  /\ DnsNow # "local" => AppliedNow.resolved = << >>
         /\ IsList(AppliedNow.resolved)
         /\ ToSet(AppliedNow.resolved) \subseteq Named(TargetsNow)
         /\ AppliedNow.problem = {} =>
              /\ IsList(AppliedNow.targets) /\ OneToOne(AppliedNow.targets)
              /\ ToSet(AppliedNow.targets) =
                   {t \in ToSet(TargetsNow) : ~IsName(t)}
                     \union (IF DnsNow = "local"
                               THEN {AddrTarget(a) : a \in
                                       UNION {ToSet(ResolveHost(h)) : h \in Named(TargetsNow)}}
                               ELSE {t \in ToSet(TargetsNow) : IsName(t)})
              /\ DnsNow = "disabled" => \A t \in ToSet(TargetsNow) : ~IsName(t)
  <1>1. IsList(TargetsNow) /\ OneToOne(TargetsNow)
    BY TargetsAre, PairsAre
  <1>2. IsList(AppliedNow.resolved)
    <2>1. AppliedNow.resolved \in {<< >>, NamesOf(TargetsNow)}
      BY DEF AppliedNow, ApplyDns
    <2> QED BY <1>1, <2>1, NamesOfIs, ShortLists
  <1> QED BY <1>1, <1>2, DnsIs, AppliedIs DEF AppliedNow

-----------------------------------------------------------------------------
(* A matrix of targets and ports.                                          *)

(* The targets and ports of a matrix, probe by probe.                      *)
Endpoint(t, p) == [target |-> t, port |-> p]
AimAt(targets, ports, i) ==
  Endpoint(targets[(i \div Len(ports)) + 1], ports[(i % Len(ports)) + 1])
Aims(targets, ports, n) == {AimAt(targets, ports, i) : i \in 0 .. (n - 1)}
Grid(targets, ports) == {Endpoint(t, p) : t \in targets, p \in ports}

LEMMA RowAndColumn ==
  ASSUME NEW a \in Nat, NEW b \in Nat, NEW i \in 0 .. (a * b - 1)
  PROVE  /\ b > 0 /\ i \div b \in 0 .. (a - 1) /\ i % b \in 0 .. (b - 1)
         /\ i = (i \div b) * b + (i % b)
  <1>1. b # 0
    OBVIOUS
  <1>2. b > 0 /\ i % b \in 0 .. (b - 1) /\ i = (i \div b) * b + (i % b)
    BY <1>1
  <1>3. i \div b \in 0 .. (a - 1)
    BY <1>1
  <1> QED BY <1>2, <1>3

LEMMA CellIsAProbe ==
  ASSUME NEW a \in Nat, NEW b \in Nat, NEW j \in 0 .. (a - 1), NEW k \in 0 .. (b - 1)
  PROVE  /\ j * b + k \in 0 .. (a * b - 1)
         /\ (j * b + k) \div b = j /\ (j * b + k) % b = k
  <1>1. b > 0 /\ j * b \in Nat /\ a * b \in Nat
    OBVIOUS
  <1>2. j * b + b <= a * b
    <2>1. (j + 1) * b <= a * b
      OBVIOUS
    <2>2. (j + 1) * b = j * b + b
      OBVIOUS
    <2> QED BY <1>1, <2>1, <2>2
  <1>3. j * b + k \in 0 .. (a * b - 1)
    BY <1>1, <1>2
  <1>4. PICK i \in Nat : i = j * b + k
    BY <1>1
  <1>5. i = (i \div b) * b + (i % b) /\ i % b \in 0 .. (b - 1) /\ i \div b \in Nat
    BY <1>1
  <1>6. i \div b = j
    <2>1. PICK q \in Nat : q = i \div b
      BY <1>5
    <2>2. b \in Nat \ {0} /\ q * b <= i /\ i < q * b + b /\ j * b <= i /\ i < j * b + b
      BY <1>1, <1>4, <1>5, <2>1
    <2> QED BY <2>1, <2>2, BlocksAreApart
  <1>7. i % b = k
    BY <1>1, <1>4, <1>5, <1>6
  <1> QED BY <1>3, <1>4, <1>6, <1>7

(* Numbered endpoints that are each different are as many as their numbers.*)
LEMMA CountedOnce ==
  ASSUME NEW n \in Nat, NEW f, DOMAIN f = 0 .. (n - 1), f = [i \in 0 .. (n - 1) |-> f[i]],
         \A i, j \in 0 .. (n - 1) : f[i] = f[j] => i = j
  PROVE  Cardinality({f[i] : i \in 0 .. (n - 1)}) = n
  <1> DEFINE S == 0 .. (n - 1)
             T == {f[i] : i \in S}
  <1>1. IsFiniteSet(S) /\ Cardinality(S) = n
    <2>1. 0 \in Int /\ n - 1 \in Int
      OBVIOUS
    <2>2. IsFiniteSet(S) /\ Cardinality(S) = IF 0 > n - 1 THEN 0 ELSE (n - 1) - 0 + 1
      BY <2>1, FS_Interval
    <2> QED BY <2>2
  <1>2. f \in [S -> T] /\ \A t \in T : \E i \in S : f[i] = t
    OBVIOUS
  <1>3. f \in Bijection(S, T)
    <2> HIDE DEF T
    <2>1. f \in Injection(S, T)
      BY <1>2 DEF Injection, IsInjective
    <2>2. f \in Surjection(S, T)
      BY <1>2 DEF Surjection
    <2> QED BY <2>1, <2>2 DEF Bijection
  <1> HIDE DEF S, T
  <1>4. Cardinality(T) = Cardinality(S)
    BY <1>1, <1>3, FS_Bijection DEF ExistsBijection
  <1> QED BY <1>1, <1>4 DEF S, T

(* A matrix has every target at every port, each once.                     *)
LEMMA MatrixIs ==
  ASSUME NEW targets, NEW ports, IsList(targets), IsList(ports),
         OneToOne(targets), OneToOne(ports), NEW n, n = Len(targets) * Len(ports)
  PROVE  /\ Aims(targets, ports, n) = Grid(ToSet(targets), ToSet(ports))
         /\ Cardinality(Aims(targets, ports, n)) = n
         /\ \A i \in 0 .. (n - 1) : AimAt(targets, ports, i).target \in ToSet(targets)
  <1>1. PICK a \in Nat : a = Len(targets) /\ DOMAIN targets = 1 .. a
    BY DEF IsList
  <1>2. PICK b \in Nat : b = Len(ports) /\ DOMAIN ports = 1 .. b
    BY DEF IsList
  <1>3. n = a * b /\ n \in Nat
    BY <1>1, <1>2
  <1>4. ASSUME NEW i \in 0 .. (n - 1)
        PROVE  /\ (i \div b) + 1 \in DOMAIN targets /\ (i % b) + 1 \in DOMAIN ports
               /\ i \div b \in Int /\ i % b \in Int
               /\ i = (i \div b) * b + (i % b)
    <2>1. /\ b > 0 /\ i \div b \in 0 .. (a - 1) /\ i % b \in 0 .. (b - 1)
          /\ i = (i \div b) * b + (i % b)
      BY <1>3, RowAndColumn
    <2> QED BY <1>1, <1>2, <2>1
  <1>5. \A i : AimAt(targets, ports, i) = Endpoint(targets[(i \div b) + 1], ports[(i % b) + 1])
    BY <1>2 DEF AimAt
  <1>6. \A s, t, p, q : Endpoint(s, p) = Endpoint(t, q) => s = t /\ p = q
    <2>1. \A s, p : Endpoint(s, p).target = s /\ Endpoint(s, p).port = p
      BY DEF Endpoint
    <2> QED BY <2>1
  <1>7. ASSUME NEW i \in 0 .. (n - 1)
        PROVE  \E t \in ToSet(targets), p \in ToSet(ports) :
                 AimAt(targets, ports, i) = Endpoint(t, p)
    BY <1>4, <1>5 DEF ToSet
  <1>8. ASSUME NEW t \in ToSet(targets), NEW p \in ToSet(ports)
        PROVE  \E i \in 0 .. (n - 1) : AimAt(targets, ports, i) = Endpoint(t, p)
    <2>1. PICK j \in 1 .. a : targets[j] = t
      BY <1>1 DEF ToSet
    <2>2. PICK k \in 1 .. b : ports[k] = p
      BY <1>2 DEF ToSet
    <2>3. j - 1 \in 0 .. (a - 1) /\ k - 1 \in 0 .. (b - 1)
      OBVIOUS
    <2>4. PICK i : i = (j - 1) * b + (k - 1)
      OBVIOUS
    <2>5. i \in 0 .. (a * b - 1) /\ i \div b = j - 1 /\ i % b = k - 1
      BY <2>3, <2>4, CellIsAProbe
    <2>6. (i \div b) + 1 = j /\ (i % b) + 1 = k
      BY <2>5
    <2> QED BY <1>3, <1>5, <2>1, <2>2, <2>5, <2>6
  <1>9. ASSUME NEW i \in 0 .. (n - 1), NEW j \in 0 .. (n - 1),
               AimAt(targets, ports, i) = AimAt(targets, ports, j)
        PROVE  i = j
    <2>1. /\ targets[(i \div b) + 1] = targets[(j \div b) + 1]
          /\ ports[(i % b) + 1] = ports[(j % b) + 1]
      BY <1>5, <1>6, <1>9
    <2>2. (i \div b) + 1 = (j \div b) + 1 /\ (i % b) + 1 = (j % b) + 1
      BY <1>4, <2>1 DEF OneToOne
    <2>3. i \div b = j \div b /\ i % b = j % b
      BY <1>4, <2>2
    <2> QED BY <1>4, <2>3
  <1>10. Cardinality(Aims(targets, ports, n)) = n
    <2> DEFINE f == [i \in 0 .. (n - 1) |-> AimAt(targets, ports, i)]
    <2>1. DOMAIN f = 0 .. (n - 1) /\ f = [i \in 0 .. (n - 1) |-> f[i]]
          /\ \A i \in 0 .. (n - 1) : f[i] = AimAt(targets, ports, i)
      OBVIOUS
    <2> HIDE DEF f
    <2>2. \A i, j \in 0 .. (n - 1) : f[i] = f[j] => i = j
      BY <1>9, <2>1
    <2>3. Cardinality({f[i] : i \in 0 .. (n - 1)}) = n
      BY <1>3, <2>1, <2>2, CountedOnce
    <2>4. {f[i] : i \in 0 .. (n - 1)} = Aims(targets, ports, n)
      BY <2>1 DEF Aims
    <2> QED BY <2>3, <2>4
  <1>11. \A i \in 0 .. (n - 1) : AimAt(targets, ports, i).target \in ToSet(targets)
    <2>1. \A s, p : Endpoint(s, p).target = s
      BY DEF Endpoint
    <2> QED BY <1>7, <2>1
  <1>12. Aims(targets, ports, n) = Grid(ToSet(targets), ToSet(ports))
    BY <1>7, <1>8 DEF Aims, Grid
  <1> QED BY <1>10, <1>11, <1>12

-----------------------------------------------------------------------------
(* What a plan says of its endpoints.                                      *)

(* The lowest of a set of places is one of them.                           *)
LEMMA FirstPlace ==
  ASSUME NEW n \in Nat, NEW K \in SUBSET (1 .. n), K # {}
  PROVE  Min(K) \in K
  <1>1. K \in SUBSET Nat
    OBVIOUS
  <1>2. PICK m \in K : \A y \in K : m <= y
    BY <1>1, LeastIsIn
  <1> QED BY <1>2 DEF Min

(* What a plan that exists says of its endpoints.                          *)
LEMMA PlannedHas ==
  ASSUME EndpointsInv, Planned
  PROVE  /\ IInv /\ DnsPasses /\ TargetsPass /\ PortsPass /\ AppliedNow.problem = {}
         /\ plan.transport = TransportNow /\ plan.dns = DnsNow
         /\ plan.pairs = IF ByPairs THEN {Pairs} ELSE {}
         /\ ~ByPairs => /\ plan.include = IncludedSpecs /\ plan.exclude = ExcludedSpecs
                        /\ plan.ports = ParsePorts(PortSpecs) /\ plan.port_specs = PortSpecs
         /\ plan.targets = AppliedNow.targets /\ plan.resolved = AppliedNow.resolved
  <1>1. PassedBy("planned") /\ PlanAt("planned", plan) /\ PlanHas("planned", plan) /\ IInv
    BY DEF EndpointsInv, AdviceInv, Planned
  <1>2. DnsPasses /\ TargetsPass /\ PortsPass /\ NamesPass
    BY <1>1 DEF PassedBy, AfterAll, AfterScalars, AfterNames, AfterPorts, AfterTargets, AfterDns
  <1>3. plan.transport = TransportNow
    BY <1>1 DEF PlanAt, AfterAll, AfterScalars, AfterNames, AfterPorts, AfterTargets, AfterDns,
                AfterTiming, AfterProfile, AfterTransport
  <1>4. AppliedNow.problem = {}
    BY <1>2 DEF NamesPass, NamesProblem, AppliedNow, Or
  <1>5. /\ Has(plan, "dns", DnsNow)
        /\ Has(plan, "pairs", IF ByPairs THEN {Pairs} ELSE {})
        /\ Has(plan, "include", IF ByPairs THEN << >> ELSE IncludedSpecs)
        /\ Has(plan, "exclude", IF ByPairs THEN << >> ELSE ExcludedSpecs)
        /\ ~ByPairs =>
             Has(plan, "ports", ParsePorts(PortSpecs)) /\ Has(plan, "port_specs", PortSpecs)
        /\ Has(plan, "targets", AppliedNow.targets) /\ Has(plan, "resolved", AppliedNow.resolved)
    BY <1>1 DEF PlanHas, AfterAll, AfterScalars, AfterNames, AfterPorts, AfterTargets, AfterDns
  <1> QED BY <1>1, <1>2, <1>3, <1>4, <1>5 DEF Has

(* What a matrix probes.                                                   *)
LEMMA MatrixProbes ==
  ASSUME EndpointsInv, Planned, ~ByPairs
  PROVE  /\ plan.pairs = {} /\ ProbeCount = Len(plan.targets) * Len(plan.ports)
         /\ \A i : ProbeAt(i) = AimAt(plan.targets, plan.ports, i)
         /\ IsList(plan.targets) /\ OneToOne(plan.targets)
         /\ IsList(plan.ports) /\ OneToOne(plan.ports)
         /\ ToSet(plan.ports) = AskedPorts
  <1>1. plan.pairs = {}
    BY PlannedHas
  <1>2. ProbeCount = Len(plan.targets) * Len(plan.ports)
    BY <1>1 DEF ProbeCount
  <1>3. \A i : ProbeAt(i) = AimAt(plan.targets, plan.ports, i)
    BY <1>1 DEF ProbeAt, AimAt, Endpoint
  <1>4. IsList(plan.targets) /\ OneToOne(plan.targets)
    BY PlannedHas, AppliedNowIs
  <1>5. /\ IsList(plan.ports) /\ OneToOne(plan.ports) /\ ToSet(plan.ports) = AskedOf(PortSpecs)
        /\ plan.port_specs = PortSpecs
    BY PlannedHas, PortsAre
  <1>6. ToSet(plan.ports) = AskedPorts
    BY <1>5 DEF AskedPorts, AskedOf
  <1> QED BY <1>1, <1>2, <1>3, <1>4, <1>5, <1>6

(* The targets of the request, and its names.                              *)
LEMMA MatrixTargets ==
  ASSUME EndpointsInv, Planned, ~ByPairs
  PROVE  /\ AskedNames = HostsOf(IncludedSpecs) \ HostsOf(ExcludedSpecs)
         /\ AskedAddresses = Matched(IncludedSpecs) \ Matched(ExcludedSpecs)
         /\ {t \in ToSet(TargetsNow) : ~IsName(t)} = {AddrTarget(a) : a \in AskedAddresses}
         /\ {t \in ToSet(TargetsNow) : IsName(t)} = {HostTarget(h) : h \in AskedNames}
         /\ Named(TargetsNow) = AskedNames
  <1>1. plan.include = IncludedSpecs /\ plan.exclude = ExcludedSpecs
    BY PlannedHas
  <1>2. AskedNames = HostsOf(IncludedSpecs) \ HostsOf(ExcludedSpecs)
    BY <1>1 DEF AskedNames, HostsOf
  <1>3. AskedAddresses = Matched(IncludedSpecs) \ Matched(ExcludedSpecs)
    BY <1>1 DEF AskedAddresses, IsExcluded, Matched
  <1>4. ToSet(TargetsNow) = {AddrTarget(a) : a \in AskedAddresses}
                              \union {HostTarget(h) : h \in AskedNames}
    BY <1>2, <1>3, PlannedHas, TargetsAre
  <1>5. \A a : ~IsName(AddrTarget(a))
    BY TargetsDiffer
  <1>6. \A h \in AskedNames : IsName(HostTarget(h)) /\ HostTarget(h).host = h
    <2>1. \A h \in HostsOf(IncludedSpecs) : IsName(HostTarget(h))
      BY PlannedHas, RequestLists, HostsAreNames
    <2> QED BY <1>2, <2>1, TargetsDiffer
  <1>7. {t \in ToSet(TargetsNow) : ~IsName(t)} = {AddrTarget(a) : a \in AskedAddresses}
    BY <1>4, <1>5, <1>6
  <1>8. {t \in ToSet(TargetsNow) : IsName(t)} = {HostTarget(h) : h \in AskedNames}
    BY <1>4, <1>5, <1>6
  <1>9. Named(TargetsNow) = AskedNames
    <2>1. Named(TargetsNow) = {t.host : t \in {HostTarget(h) : h \in AskedNames}}
      BY <1>8 DEF Named
    <2> QED BY <1>6, <2>1
  <1> QED BY <1>2, <1>3, <1>7, <1>8, <1>9

(* A name of the plan is asked of the local resolver only where the plan   *)
(* says local, for every configuration and every set of names: with a      *)
(* transport that resolves, and with resolution off, nothing has been      *)
(* looked up by the time the plan exists; a name left among the targets of *)
(* a matrix goes to a transport that resolves it; and a name an address is *)
(* greeted by is one the request includes (resolve_dns, apply_dns,         *)
(* sni_names).                                                             *)
THEOREM NamesStay == Spec => []NamesStayWithTheProxy
  <1>1. EndpointsInv => NamesStayWithTheProxy
    <2> SUFFICES ASSUME EndpointsInv, Planned
                 PROVE  /\ plan.dns # "local" => lookups = {}
                        /\ lookups \subseteq ToSet(plan.resolved)
                        /\ plan.pairs = {} =>
                             \A d \in Destinations :
                               /\ IsName(d.to) => /\ plan.dns = "transport"
                                                  /\ SupportsRemoteDns(plan.transport)
                               /\ d.sni # "" => d.sni \in AskedNames
      BY DEF NamesStayWithTheProxy
    <2>1. /\ IInv /\ DnsPasses /\ TargetsPass /\ AppliedNow.problem = {}
          /\ plan.transport = TransportNow /\ plan.dns = DnsNow
          /\ plan.pairs = IF ByPairs THEN {Pairs} ELSE {}
          /\ plan.targets = AppliedNow.targets /\ plan.resolved = AppliedNow.resolved
      BY PlannedHas
    <2>2. lookups \subseteq ToSet(plan.resolved)
      BY <2>1 DEF EndpointsInv, LookupsStand
    <2>3. plan.dns # "local" => lookups = {}
      <3>1. SUFFICES ASSUME plan.dns # "local" PROVE lookups = {}
        OBVIOUS
      <3>2. plan.resolved = << >>
        BY <2>1, <3>1, AppliedNowIs
      <3> QED BY <2>2, <3>2, ShortLists
    <2>4. ASSUME plan.pairs = {}, NEW d \in Destinations
          PROVE  /\ IsName(d.to) => /\ plan.dns = "transport"
                                    /\ SupportsRemoteDns(plan.transport)
                 /\ d.sni # "" => d.sni \in AskedNames
      <3>1. ~ByPairs
        BY <2>1, <2>4
      <3>2. PICK i \in 0 .. (ProbeCount - 1) : d = Destination(i)
        BY DEF Destinations
      <3>3. PICK t : t = ProbeAt(i).target
        OBVIOUS
      <3>4. t \in ToSet(plan.targets)
        <4>1. /\ ProbeCount = Len(plan.targets) * Len(plan.ports)
              /\ ProbeAt(i) = AimAt(plan.targets, plan.ports, i)
              /\ IsList(plan.targets) /\ OneToOne(plan.targets)
              /\ IsList(plan.ports) /\ OneToOne(plan.ports)
          BY <3>1, MatrixProbes
        <4>2. PICK targets, ports : targets = plan.targets /\ ports = plan.ports
          OBVIOUS
        <4>3. PICK n : n = ProbeCount
          OBVIOUS
        <4>4. \A j \in 0 .. (n - 1) : AimAt(targets, ports, j).target \in ToSet(targets)
          BY <4>1, <4>2, <4>3, MatrixIs
        <4> QED BY <3>2, <3>3, <4>1, <4>2, <4>3, <4>4
      <3>5. /\ d.to = t
            /\ d.sni = IF IsName(t) THEN t.host ELSE SniName(t.addr)
        BY <3>2, <3>3 DEF Destination
      <3>6. \A a : ~IsName(AddrTarget(a))
        BY TargetsDiffer
      <3>7. /\ ToSet(plan.targets) =
                 {u \in ToSet(TargetsNow) : ~IsName(u)}
                   \union (IF DnsNow = "local"
                             THEN {AddrTarget(a) : a \in
                                     UNION {ToSet(ResolveHost(h)) : h \in Named(TargetsNow)}}
                             ELSE {u \in ToSet(TargetsNow) : IsName(u)})
            /\ DnsNow = "disabled" => \A u \in ToSet(TargetsNow) : ~IsName(u)
            /\ IsList(plan.resolved) /\ ToSet(plan.resolved) \subseteq Named(TargetsNow)
        BY <2>1, AppliedNowIs
      <3>8. Named(TargetsNow) = AskedNames
        BY <3>1, MatrixTargets
      <3>9. CASE IsName(t)
        <4>1. t \in ToSet(TargetsNow) /\ DnsNow # "local" /\ DnsNow # "disabled"
          BY <3>4, <3>6, <3>7, <3>9
        <4>2. DnsNow = "transport" /\ SupportsRemoteDns(TransportNow)
          BY <2>1, <4>1, DnsIs
        <4>3. t.host \in Named(TargetsNow)
          BY <3>9, <4>1 DEF Named
        <4> QED BY <2>1, <3>5, <3>8, <3>9, <4>2, <4>3
      <3>10. CASE ~IsName(t)
        <4> DEFINE named == {k \in DOMAIN plan.resolved :
                               t.addr \in ToSet(ResolveHost(plan.resolved[k]))}
        <4>1. d.sni = IF named = {} THEN "" ELSE plan.resolved[Min(named)]
          BY <3>5, <3>10 DEF SniName
        <4>2. ASSUME d.sni # "" PROVE d.sni \in AskedNames
          <5>1. named # {} /\ d.sni = plan.resolved[Min(named)]
            BY <4>1, <4>2
          <5>2. PICK n \in Nat : DOMAIN plan.resolved = 1 .. n
            BY <3>7 DEF IsList
          <5>3. Min(named) \in named
            BY <5>1, <5>2, FirstPlace
          <5>4. Min(named) \in DOMAIN plan.resolved
            BY <5>3
          <5> HIDE DEF named
          <5>5. d.sni \in ToSet(plan.resolved)
            BY <5>1, <5>4 DEF ToSet
          <5> QED BY <3>7, <3>8, <5>5
        <4> HIDE DEF named
        <4> QED BY <3>5, <3>10, <4>2
      <3> QED BY <3>9, <3>10
    <2> QED BY <2>2, <2>3, <2>4
  <1> QED BY <1>1, EndpointsInit, EndpointsNext, PTL DEF Spec

(* The targets a matrix has are those asked for and those in dispute.      *)
LEMMA ApplyingDnsLeaves ==
  ASSUME EndpointsInv, Planned, ~ByPairs
  PROVE  ToSet(plan.targets) = AskedTargets \union DisputedTargets
  <1>1. /\ plan.dns = DnsNow /\ plan.targets = AppliedNow.targets /\ AppliedNow.problem = {}
        /\ DnsPasses /\ TargetsPass /\ IInv
    BY PlannedHas
  <1>2. ToSet(plan.targets) =
          {u \in ToSet(TargetsNow) : ~IsName(u)}
            \union (IF DnsNow = "local"
                      THEN {AddrTarget(a) : a \in
                              UNION {ToSet(ResolveHost(h)) : h \in Named(TargetsNow)}}
                      ELSE {u \in ToSet(TargetsNow) : IsName(u)})
    BY <1>1, AppliedNowIs
  <1>3. /\ {t \in ToSet(TargetsNow) : ~IsName(t)} = {AddrTarget(a) : a \in AskedAddresses}
        /\ {t \in ToSet(TargetsNow) : IsName(t)} = {HostTarget(h) : h \in AskedNames}
        /\ Named(TargetsNow) = AskedNames
    BY MatrixTargets
  <1>4. ToSet(plan.targets) =
          {AddrTarget(a) : a \in AskedAddresses}
            \union (IF plan.dns = "local"
                      THEN {AddrTarget(a) : a \in UNION {ToSet(ResolveHost(h)) : h \in AskedNames}}
                      ELSE {HostTarget(h) : h \in AskedNames})
    BY <1>1, <1>2, <1>3
  <1>5. CASE plan.dns = "local"
    <2>1. LedTo = UNION {ToSet(ResolveHost(h)) : h \in AskedNames}
      BY <1>5 DEF LedTo
    <2>2. ToSet(plan.targets) = {AddrTarget(a) : a \in AskedAddresses \union LedTo}
      BY <1>4, <1>5, <2>1
    <2>3. AskedTargets = {AddrTarget(a) : a \in AskedAddresses \union {q \in LedTo : ~IsExcluded(q)}}
      BY <1>5 DEF AskedTargets
    <2> QED BY <2>2, <2>3 DEF DisputedTargets
  <1>6. CASE plan.dns # "local"
    <2>1. LedTo = {}
      BY <1>6 DEF LedTo
    <2>2. AskedTargets = {AddrTarget(a) : a \in AskedAddresses}
                           \union {HostTarget(h) : h \in AskedNames}
      BY <1>6, <2>1 DEF AskedTargets
    <2>3. DisputedTargets = {}
      BY <2>1 DEF DisputedTargets
    <2> QED BY <1>4, <1>6, <2>2, <2>3
  <1> QED BY <1>5, <1>6

(* The probes of a plan are the endpoints the request means, each once,    *)
(* whatever the specs, sets, exclusions and names: overlaps, masks with    *)
(* host bits set, exclusions narrower or wider than what they exclude and  *)
(* names that share an address neither lose an endpoint nor probe one      *)
(* twice (TargetSet::expand, apply_dns, parse_ports, ScanPlan::probe_at).  *)
(* Of an excluded address that a name asked for leads to nothing is said.  *)
THEOREM RequestIsProbed == Spec => []RequestIsWhatIsProbed
  <1>1. EndpointsInv => RequestIsWhatIsProbed
    <2> SUFFICES ASSUME EndpointsInv, Planned
                 PROVE  /\ {ProbeAt(i) : i \in 0 .. (ProbeCount - 1)} =
                             AskedEndpoints \union DisputedEndpoints
                        /\ Cardinality({ProbeAt(i) : i \in 0 .. (ProbeCount - 1)}) = ProbeCount
      <3> DEFINE probes == {ProbeAt(i) : i \in 0 .. (ProbeCount - 1)}
      <3>1. /\ probes = AskedEndpoints \union DisputedEndpoints =>
                 AskedEndpoints \subseteq probes /\ probes \subseteq AskedEndpoints \union DisputedEndpoints
        <4> HIDE DEF probes
        <4> QED OBVIOUS
      <3> QED BY <3>1, Zenon DEF RequestIsWhatIsProbed
    <2>1. /\ IInv /\ DnsPasses /\ TargetsPass /\ PortsPass /\ AppliedNow.problem = {}
          /\ plan.dns = DnsNow /\ plan.targets = AppliedNow.targets
          /\ plan.pairs = IF ByPairs THEN {Pairs} ELSE {}
      BY PlannedHas
    <2>2. CASE ByPairs
      <3>1. /\ IsList(Pairs) /\ OneToOne(Pairs)
            /\ ToSet(Pairs) = ToSet(Lines(Key(cli, "pairs")))
        BY <2>1, <2>2, PairsAre
      <3>2. PICK pairs : pairs = Pairs
        OBVIOUS
      <3>3. plan.pairs = {pairs} /\ The(plan.pairs) = pairs
        <4>1. The({pairs}) = pairs
          BY TheMember
        <4> QED BY <2>1, <2>2, <3>2, <4>1
      <3>4. PICK n \in Nat : n = Len(pairs) /\ DOMAIN pairs = 1 .. n
        BY <3>1, <3>2 DEF IsList
      <3>5. ProbeCount = n /\ \A i : ProbeAt(i) = pairs[i + 1]
        BY <3>3, <3>4 DEF ProbeCount, ProbeAt
      <3> DEFINE f == [i \in 0 .. (n - 1) |-> pairs[i + 1]]
                 probes == {ProbeAt(i) : i \in 0 .. (ProbeCount - 1)}
      <3>6. /\ DOMAIN f = 0 .. (n - 1) /\ f = [i \in 0 .. (n - 1) |-> f[i]]
            /\ \A i \in 0 .. (n - 1) : f[i] = pairs[i + 1]
        OBVIOUS
      <3> HIDE DEF f
      <3>7. probes = {f[i] : i \in 0 .. (n - 1)}
        BY <3>5, <3>6
      <3>8. \A i, j \in 0 .. (n - 1) : f[i] = f[j] => i = j
        <4>1. TAKE i, j \in 0 .. (n - 1)
        <4>2. i + 1 \in DOMAIN pairs /\ j + 1 \in DOMAIN pairs
          BY <3>4
        <4>3. pairs[i + 1] = pairs[j + 1] => i + 1 = j + 1
          BY <3>1, <3>2, <4>2 DEF OneToOne
        <4> QED BY <3>6, <4>3
      <3>9. Cardinality(probes) = n
        <4>1. Cardinality({f[i] : i \in 0 .. (n - 1)}) = n
          BY <3>6, <3>8, CountedOnce
        <4> HIDE DEF probes
        <4> QED BY <3>7, <4>1
      <3>10. probes = ToSet(pairs)
        <4>1. \A x : x \in probes <=> \E i \in 0 .. (n - 1) : x = pairs[i + 1]
          BY <3>6, <3>7
        <4>2. \A k \in 1 .. n : k - 1 \in 0 .. (n - 1) /\ (k - 1) + 1 = k
          OBVIOUS
        <4>3. \A i \in 0 .. (n - 1) : i + 1 \in 1 .. n
          OBVIOUS
        <4>4. \A x : x \in ToSet(pairs) <=> \E k \in 1 .. n : x = pairs[k]
          BY <3>4 DEF ToSet
        <4> HIDE DEF probes
        <4>5. \A x : x \in probes <=> x \in ToSet(pairs)
          BY <4>1, <4>2, <4>3, <4>4
        <4> QED BY <4>5
      <3>11. AskedEndpoints \union DisputedEndpoints = ToSet(pairs)
        <4>1. AskedEndpoints = ToSet(pairs)
          BY <3>1, <3>2, <3>3 DEF AskedEndpoints
        <4>2. DisputedEndpoints = {}
          BY <3>3 DEF DisputedEndpoints
        <4> QED BY <4>1, <4>2
      <3> QED BY <3>5, <3>9, <3>10, <3>11
    <2>3. CASE ~ByPairs
      <3>1. /\ plan.pairs = {} /\ ProbeCount = Len(plan.targets) * Len(plan.ports)
            /\ \A i : ProbeAt(i) = AimAt(plan.targets, plan.ports, i)
            /\ IsList(plan.targets) /\ OneToOne(plan.targets)
            /\ IsList(plan.ports) /\ OneToOne(plan.ports)
            /\ ToSet(plan.ports) = AskedPorts
        BY <2>3, MatrixProbes
      <3> DEFINE probes == {ProbeAt(i) : i \in 0 .. (ProbeCount - 1)}
      <3>2. PICK targets, ports : targets = plan.targets /\ ports = plan.ports
        OBVIOUS
      <3>3. PICK n : n = ProbeCount
        OBVIOUS
      <3>4. probes = Aims(targets, ports, n)
        BY <3>1, <3>2, <3>3 DEF Aims
      <3> HIDE DEF probes
      <3>5. probes = Grid(ToSet(targets), ToSet(ports)) /\ Cardinality(probes) = n
        BY <3>1, <3>2, <3>3, <3>4, MatrixIs
      <3>6. ToSet(plan.targets) = AskedTargets \union DisputedTargets
        BY <2>3, ApplyingDnsLeaves
      <3>7. AskedEndpoints \union DisputedEndpoints =
              Grid(AskedTargets \union DisputedTargets, AskedPorts)
        <4>1. AskedEndpoints = Grid(AskedTargets, AskedPorts)
          BY <3>1 DEF AskedEndpoints, Endpoints, Grid, Endpoint
        <4>2. DisputedEndpoints = Grid(DisputedTargets, AskedPorts)
          BY <3>1 DEF DisputedEndpoints, Endpoints, Grid, Endpoint
        <4>3. \A S, T, P : Grid(S, P) \union Grid(T, P) = Grid(S \union T, P)
          BY DEF Grid
        <4> QED BY <4>1, <4>2, <4>3
      <3>8. probes = AskedEndpoints \union DisputedEndpoints /\ Cardinality(probes) = ProbeCount
        BY <3>1, <3>2, <3>3, <3>5, <3>6, <3>7
      <3> QED BY <3>8 DEF probes
    <2> QED BY <2>2, <2>3
  <1> QED BY <1>1, EndpointsInit, EndpointsNext, PTL DEF Spec

-----------------------------------------------------------------------------
(* Settings: a cascade takes of the highest place.                         *)

(* A list of places a setting may be read from, for each of n files, with  *)
(* the highest file first.                                                 *)
Reversed(g, n) == [k \in 1 .. n |-> g[n + 1 - k]]

(* What Pick takes of them.                                                *)
PickOf(g) ==
  LET having == {k \in DOMAIN g : g[k] # {}}
  IN  IF having = {} THEN {} ELSE {[value |-> The(g[Max(having)]), layer |-> Max(having)]}

(* What HighestRungWins says of a setting s whose places are rungs.        *)
Wins(rungs, n, s) ==
  LET having == {j \in DOMAIN rungs : rungs[j] # {}}
  IN  IF having = {} THEN s.layer = 0 /\ s.rung \in {"default", "builtin_profile"}
      ELSE /\ {s.value} = rungs[Min(having)]
           /\ IF Min(having) = 1 THEN s.rung = "cli"
              ELSE s.layer = n - ((Min(having) - 2) % n)

Options(g, n) == DOMAIN g = 1 .. n /\ \A k \in 1 .. n : IsOption(g[k])

LEMMA LowestIs ==
  ASSUME NEW S \in SUBSET Int, NEW m \in S, \A j \in S : m <= j
  PROVE  Min(S) = m
  <1>0. \E x \in S : \A y \in S : x <= y
    OBVIOUS
  <1>1. Min(S) \in S /\ \A y \in S : Min(S) <= y
    <2>1. Min(S) \in S
      BY <1>0 DEF Min
    <2>2. \A y \in S : Min(S) <= y
      BY <1>0 DEF Min
    <2> QED BY <2>1, <2>2
  <1>2. PICK low : low = Min(S)
    OBVIOUS
  <1>3. low \in Int /\ m \in Int /\ low <= m /\ m <= low
    BY <1>1, <1>2
  <1>4. low = m
    BY <1>3
  <1> QED BY <1>2, <1>4

(* The first place that has something is what the setting must be read of. *)
LEMMA WinsAt ==
  ASSUME NEW m \in Nat, NEW rungs, DOMAIN rungs = 1 .. m, NEW j \in 1 .. m, rungs[j] # {},
         \A i \in 1 .. (j - 1) : rungs[i] = {}, NEW n, NEW s,
         {s.value} = rungs[j],
         IF j = 1 THEN s.rung = "cli" ELSE s.layer = n - ((j - 2) % n)
  PROVE  Wins(rungs, n, s)
  <1> DEFINE having == {i \in DOMAIN rungs : rungs[i] # {}}
  <1>1. having \in SUBSET Int /\ j \in having
    OBVIOUS
  <1>2. \A i \in having : j <= i
    OBVIOUS
  <1>3. Min(having) = j
    <2> HIDE DEF having
    <2> QED BY <1>1, <1>2, LowestIs
  <1>4. having # {}
    BY <1>1
  <1> QED BY <1>3, <1>4 DEF Wins

LEMMA WinsNowhere ==
  ASSUME NEW rungs, \A i \in DOMAIN rungs : rungs[i] = {}, NEW n, NEW s,
         s.layer = 0, s.rung \in {"default", "builtin_profile"}
  PROVE  Wins(rungs, n, s)
  BY DEF Wins

(* What is picked is of the highest file that has something.               *)
TakenFrom(g, n, m, p) ==
  /\ m \in 1 .. n /\ g[m] # {} /\ \A i \in 1 .. n : i > m => g[i] = {}
  /\ g[m] = {p.value} /\ p.layer = m

LEMMA PickOfIs ==
  ASSUME NEW n \in Nat, NEW g, Options(g, n)
  PROVE  IF \A i \in 1 .. n : g[i] = {} THEN PickOf(g) = {}
         ELSE \E m, p : PickOf(g) = {p} /\ TakenFrom(g, n, m, p)
  <1> DEFINE having == {k \in DOMAIN g : g[k] # {}}
  <1>1. CASE \A i \in 1 .. n : g[i] = {}
    <2>1. having = {}
      BY <1>1 DEF Options
    <2> QED BY <1>1, <2>1 DEF PickOf
  <1>2. CASE ~ \A i \in 1 .. n : g[i] = {}
    <2>1. having # {} /\ having \in SUBSET (1 .. n)
      BY <1>2 DEF Options
    <2> DEFINE m == Max(having)
               p == [value |-> The(g[m]), layer |-> m]
    <2>2. m \in having /\ \A j \in having : m >= j
      <3> HIDE DEF having
      <3> QED BY <2>1, HighestIsIn
    <2>3. PickOf(g) = {p}
      BY <2>1 DEF PickOf
    <2> HIDE DEF m
    <2>4. m \in 1 .. n /\ g[m] # {} /\ \A i \in 1 .. n : i > m => g[i] = {}
      BY <2>1, <2>2 DEF Options
    <2>5. g[m] = {The(g[m])}
      <3>1. PICK x : g[m] = {x}
        BY <2>4 DEF Options, IsOption
      <3>2. The(g[m]) \in g[m]
        BY <2>4, TheMember
      <3> QED BY <3>1, <3>2
    <2>6. TakenFrom(g, n, m, p)
      BY <2>4, <2>5 DEF TakenFrom
    <2> HIDE DEF p
    <2> QED BY <1>2, <2>3, <2>6
  <1> QED BY <1>1, <1>2

(* What a cascade answers: of the command line, of one list of places or   *)
(* of another, or its fallback.                                            *)
Answers(c, x, y, r, q, f, s) ==
  /\ c # {} => \E v : c = {v} /\ s = Found(v, "cli", 0)
  /\ c = {} /\ x # {} => \E p : x = {p} /\ s = Found(p.value, r, p.layer)
  /\ c = {} /\ x = {} /\ y # {} => \E p : y = {p} /\ s = Found(p.value, q, p.layer)
  /\ c = {} /\ x = {} /\ y = {} => s = f

LEMMA CascadeAnswers ==
  ASSUME NEW c, IsOption(c), NEW x, IsOption(x), NEW y, IsOption(y), NEW r, NEW q, NEW f
  PROVE  Answers(c, x, y, r, q, f,
                 The(Or(FromCli(c), Or(FromFile(x, r), Or(FromFile(y, q), {f})))))
  <1> DEFINE s == The(Or(FromCli(c), Or(FromFile(x, r), Or(FromFile(y, q), {f}))))
  <1>0. \A v : The({v}) = v
    <2>1. TAKE v
    <2>2. The({v}) \in {v}
      BY TheMember
    <2> QED BY <2>2
  <1>1. c # {} => \E v : c = {v} /\ s = Found(v, "cli", 0)
    <2> SUFFICES ASSUME c # {} PROVE \E v : c = {v} /\ s = Found(v, "cli", 0)
      OBVIOUS
    <2>1. PICK v : c = {v}
      BY DEF IsOption
    <2>2. FromCli(c) = {Found(v, "cli", 0)}
      BY <2>1 DEF FromCli
    <2> QED BY <1>0, <2>1, <2>2 DEF Or
  <1>2. c = {} => FromCli(c) = {}
    BY DEF FromCli
  <1>3. \A z, t : z = {} => FromFile(z, t) = {}
    BY DEF FromFile
  <1>4. \A t, p : FromFile({p}, t) = {Found(p.value, t, p.layer)}
    BY DEF FromFile
  <1>5. c = {} /\ x # {} => \E p : x = {p} /\ s = Found(p.value, r, p.layer)
    <2> SUFFICES ASSUME c = {}, x # {} PROVE \E p : x = {p} /\ s = Found(p.value, r, p.layer)
      OBVIOUS
    <2>1. PICK p : x = {p}
      BY DEF IsOption
    <2>2. FromFile(x, r) = {Found(p.value, r, p.layer)}
      BY <1>4, <2>1
    <2> QED BY <1>0, <1>2, <2>1, <2>2 DEF Or
  <1>6. c = {} /\ x = {} /\ y # {} => \E p : y = {p} /\ s = Found(p.value, q, p.layer)
    <2> SUFFICES ASSUME c = {}, x = {}, y # {}
                 PROVE \E p : y = {p} /\ s = Found(p.value, q, p.layer)
      OBVIOUS
    <2>1. PICK p : y = {p}
      BY DEF IsOption
    <2>2. FromFile(y, q) = {Found(p.value, q, p.layer)}
      BY <1>4, <2>1
    <2> QED BY <1>0, <1>2, <1>3, <2>1, <2>2 DEF Or
  <1>7. c = {} /\ x = {} /\ y = {} => s = f
    <2> SUFFICES ASSUME c = {}, x = {}, y = {} PROVE s = f
      OBVIOUS
    <2> QED BY <1>0, <1>2, <1>3 DEF Or
  <1> QED BY <1>1, <1>5, <1>6, <1>7 DEF Answers

-----------------------------------------------------------------------------
TwoLists(c, a, b, n) == <<c>> \o (Reversed(a, n) \o Reversed(b, n))
OneList(c, a, n) == <<c>> \o Reversed(a, n)

LEMMA ListsAre ==
  ASSUME NEW n \in Nat, NEW a, NEW b, DOMAIN a = 1 .. n, DOMAIN b = 1 .. n, NEW c
  PROVE  /\ DOMAIN TwoLists(c, a, b, n) = 1 .. (2 * n + 1)
         /\ TwoLists(c, a, b, n)[1] = c
         /\ \A k \in 1 .. n : TwoLists(c, a, b, n)[n + 2 - k] = a[k]
         /\ \A k \in 1 .. n : TwoLists(c, a, b, n)[2 * n + 2 - k] = b[k]
         /\ DOMAIN OneList(c, a, n) = 1 .. (n + 1)
         /\ OneList(c, a, n)[1] = c
         /\ \A k \in 1 .. n : OneList(c, a, n)[n + 2 - k] = a[k]
  <1> DEFINE S == {c} \union {a[k] : k \in 1 .. n} \union {b[k] : k \in 1 .. n}
             x == Reversed(a, n)
             y == Reversed(b, n)
  <1>1. \A k \in 1 .. n : n + 1 - k \in 1 .. n /\ n + 1 - (n + 1 - k) = k
    OBVIOUS
  <1>2. x \in [1 .. n -> S] /\ y \in [1 .. n -> S]
    <2>1. \A k \in 1 .. n : a[n + 1 - k] \in S /\ b[n + 1 - k] \in S
      BY <1>1
    <2> HIDE DEF S
    <2> QED BY <2>1 DEF Reversed
  <1>3. \A k \in 1 .. n : x[k] = a[n + 1 - k] /\ y[k] = b[n + 1 - k]
    BY DEF Reversed
  <1>4. c \in S
    OBVIOUS
  <1> HIDE DEF S, x, y
  <1>5. x \in Seq(S) /\ y \in Seq(S) /\ Len(x) = n /\ Len(y) = n
    BY <1>2
  <1>6. /\ x \o y \in Seq(S) /\ Len(x \o y) = 2 * n
        /\ \A k \in 1 .. n : (x \o y)[k] = x[k] /\ (x \o y)[n + k] = y[k]
    BY <1>5
  <1> DEFINE z == x \o y
  <1>7. z \in Seq(S) /\ Len(z) = 2 * n
        /\ \A k \in 1 .. n : z[k] = x[k] /\ z[n + k] = y[k]
    BY <1>6
  <1> HIDE DEF z
  <1>8. /\ <<c>> \o z \in Seq(S) /\ Len(<<c>> \o z) = 2 * n + 1
        /\ (<<c>> \o z)[1] = c
        /\ \A k \in 1 .. (2 * n) : (<<c>> \o z)[k + 1] = z[k]
    <2>1. z \in Seq(S) /\ Len(z) = 2 * n /\ <<c>> \in Seq(S) /\ Len(<<c>>) = 1 /\ <<c>>[1] = c
      BY <1>4, <1>7
    <2> DEFINE one == <<c>>
               m == 2 * n
    <2>2. one \in Seq(S) /\ Len(one) = 1 /\ one[1] = c /\ Len(z) = m /\ m \in Nat
      BY <2>1
    <2> HIDE DEF one, m
    <2>3. /\ one \o z \in Seq(S) /\ Len(one \o z) = Len(one) + Len(z)
          /\ \A k \in 1 .. (Len(one) + Len(z)) :
               (one \o z)[k] = IF k <= Len(one) THEN one[k] ELSE z[k - Len(one)]
      BY <2>1, <2>2, ConcatProperties
    <2>4. Len(one \o z) = m + 1
      BY <2>2, <2>3
    <2>5. (one \o z)[1] = one[1]
      BY <2>2, <2>3
    <2>6. \A k \in 1 .. m : (one \o z)[k + 1] = z[k]
      <3>1. TAKE k \in 1 .. m
      <3>2. k + 1 \in 1 .. (1 + m) /\ ~ (k + 1 <= 1) /\ (k + 1) - 1 = k
        BY <2>2
      <3> QED BY <2>2, <2>3, <3>2
    <2> QED BY <2>2, <2>3, <2>4, <2>5, <2>6 DEF one, m
  <1>9. /\ <<c>> \o x \in Seq(S) /\ Len(<<c>> \o x) = n + 1
        /\ (<<c>> \o x)[1] = c
        /\ \A k \in 1 .. n : (<<c>> \o x)[k + 1] = x[k]
    BY <1>4, <1>5
  <1>10. TwoLists(c, a, b, n) = <<c>> \o z /\ OneList(c, a, n) = <<c>> \o x
    BY DEF TwoLists, OneList, x, y, z
  <1> DEFINE w == <<c>> \o z
             u == <<c>> \o x
  <1>11. /\ w \in Seq(S) /\ Len(w) = 2 * n + 1 /\ w[1] = c
         /\ \A k \in 1 .. (2 * n) : w[k + 1] = z[k]
    BY <1>8
  <1>12. /\ u \in Seq(S) /\ Len(u) = n + 1 /\ u[1] = c
         /\ \A k \in 1 .. n : u[k + 1] = x[k]
    BY <1>9
  <1> HIDE DEF w, u
  <1>13. DOMAIN w = 1 .. (2 * n + 1) /\ DOMAIN u = 1 .. (n + 1)
    BY <1>11, <1>12
  <1>14. ASSUME NEW k \in 1 .. n
         PROVE  w[n + 2 - k] = a[k] /\ w[2 * n + 2 - k] = b[k] /\ u[n + 2 - k] = a[k]
    <2> DEFINE i == n + 1 - k
    <2>1. i \in 1 .. n /\ n + 1 - i = k
      BY <1>1
    <2>2. n + 2 - k = i + 1 /\ 2 * n + 2 - k = (n + i) + 1 /\ n + i \in 1 .. (2 * n)
          /\ i \in 1 .. (2 * n)
      OBVIOUS
    <2> HIDE DEF i
    <2>3. w[i + 1] = z[i] /\ w[(n + i) + 1] = z[n + i] /\ u[i + 1] = x[i]
      BY <1>11, <1>12, <2>1, <2>2
    <2>4. z[i] = x[i] /\ z[n + i] = y[i]
      BY <1>7, <2>1
    <2>5. x[i] = a[k] /\ y[i] = b[k]
      BY <1>3, <2>1
    <2> QED BY <2>2, <2>3, <2>4, <2>5
  <1> QED BY <1>10, <1>11, <1>12, <1>13, <1>14 DEF w, u

(* A cascade of the command line and two lists of places, the first of     *)
(* which outranks the second whatever the files: a scan of the user's file *)
(* is before a default of the project's.                                   *)
LEMMA CascadeOfTwo ==
  ASSUME NEW n \in Nat, NEW a, NEW b, Options(a, n), Options(b, n), NEW c, IsOption(c),
         NEW r, NEW q, NEW f, f.layer = 0, f.rung \in {"default", "builtin_profile"}, NEW s,
         Answers(c, PickOf(a), PickOf(b), r, q, f, s)
  PROVE  Wins(TwoLists(c, a, b, n), n, s)
  <1> DEFINE R == TwoLists(c, a, b, n)
  <1>1. /\ DOMAIN R = 1 .. (2 * n + 1) /\ R[1] = c
        /\ \A k \in 1 .. n : R[n + 2 - k] = a[k]
        /\ \A k \in 1 .. n : R[2 * n + 2 - k] = b[k]
    BY ListsAre DEF Options
  <1> HIDE DEF R
  <1>2. CASE c # {}
    <2>1. PICK v : c = {v} /\ s = Found(v, "cli", 0)
      BY <1>2 DEF Answers
    <2>2. s.value = v /\ s.rung = "cli"
      BY <2>1 DEF Found
    <2>3. 2 * n + 1 \in Nat /\ 1 \in 1 .. (2 * n + 1) /\ \A i \in 1 .. (1 - 1) : R[i] = {}
      OBVIOUS
    <2>4. {s.value} = R[1] /\ R[1] # {}
      BY <1>1, <2>1, <2>2
    <2> QED BY <1>1, <2>2, <2>3, <2>4, WinsAt DEF R
  <1>3. ASSUME c = {}, NEW i \in 1 .. (n + 1), \A k \in 1 .. n : n + 2 - k <= i => a[k] = {}
        PROVE  R[i] = {}
    <2>1. CASE i = 1
      BY <1>1, <1>3, <2>1
    <2>2. CASE i # 1
      <3>1. n + 2 - i \in 1 .. n /\ n + 2 - (n + 2 - i) = i
        BY <2>2
      <3>2. R[n + 2 - (n + 2 - i)] = a[n + 2 - i] /\ a[n + 2 - i] = {}
        BY <1>1, <1>3, <3>1
      <3> QED BY <3>1, <3>2
    <2> QED BY <2>1, <2>2
  <1>4. CASE c = {} /\ ~ \A k \in 1 .. n : a[k] = {}
    <2>1. PICK m, p : PickOf(a) = {p} /\ TakenFrom(a, n, m, p)
      BY <1>4, PickOfIs
    <2>2. s = Found(p.value, r, p.layer)
      BY <1>4, <2>1 DEF Answers
    <2>3. s.value = p.value /\ s.layer = m /\ m \in 1 .. n /\ a[m] = {p.value}
          /\ \A k \in 1 .. n : k > m => a[k] = {}
      BY <2>1, <2>2 DEF Found, TakenFrom
    <2> DEFINE j == n + 2 - m
    <2>4. j \in 1 .. (2 * n + 1) /\ j # 1 /\ 2 * n + 1 \in Nat
      BY <2>3
    <2>5. R[j] = a[m]
      BY <1>1, <2>3
    <2>6. \A i \in 1 .. (j - 1) : R[i] = {}
      <3>1. TAKE i \in 1 .. (j - 1)
      <3>2. i \in 1 .. (n + 1)
        BY <2>3
      <3>3. \A k \in 1 .. n : n + 2 - k <= i => k > m
        BY <2>3, <3>1
      <3> QED BY <1>3, <1>4, <2>3, <3>2, <3>3
    <2>7. s.layer = n - ((j - 2) % n)
      <3>1. j - 2 = n - m /\ n - m \in 0 .. (n - 1) /\ n > 0
        BY <2>3
      <3>2. (n - m) % n = n - m
        BY <3>1
      <3>3. n - (n - m) = m
        BY <2>3
      <3> QED BY <2>3, <3>1, <3>2, <3>3
    <2> HIDE DEF j
    <2>8. {s.value} = R[j] /\ R[j] # {}
      BY <2>3, <2>5
    <2> QED BY <1>1, <2>4, <2>6, <2>7, <2>8, WinsAt DEF R
  <1>5. CASE c = {} /\ (\A k \in 1 .. n : a[k] = {}) /\ ~ \A k \in 1 .. n : b[k] = {}
    <2>0. PickOf(a) = {}
      BY <1>5, PickOfIs
    <2>1. PICK m, p : PickOf(b) = {p} /\ TakenFrom(b, n, m, p)
      BY <1>5, PickOfIs
    <2>2. s = Found(p.value, q, p.layer)
      BY <1>5, <2>0, <2>1 DEF Answers
    <2>3. s.value = p.value /\ s.layer = m /\ m \in 1 .. n /\ b[m] = {p.value}
          /\ \A k \in 1 .. n : k > m => b[k] = {}
      BY <2>1, <2>2 DEF Found, TakenFrom
    <2> DEFINE j == 2 * n + 2 - m
    <2>4. j \in 1 .. (2 * n + 1) /\ j # 1 /\ 2 * n + 1 \in Nat
      BY <2>3
    <2>5. R[j] = b[m]
      BY <1>1, <2>3
    <2>6. \A i \in 1 .. (j - 1) : R[i] = {}
      <3>1. TAKE i \in 1 .. (j - 1)
      <3>2. CASE i \in 1 .. (n + 1)
        BY <1>3, <1>5, <3>2
      <3>3. CASE i \notin 1 .. (n + 1)
        <4>1. 2 * n + 2 - i \in 1 .. n /\ 2 * n + 2 - i > m /\ 2 * n + 2 - (2 * n + 2 - i) = i
          BY <2>3, <3>1, <3>3
        <4>2. R[2 * n + 2 - (2 * n + 2 - i)] = b[2 * n + 2 - i] /\ b[2 * n + 2 - i] = {}
          BY <1>1, <2>3, <4>1
        <4> QED BY <4>1, <4>2
      <3> QED BY <3>2, <3>3
    <2>7. s.layer = n - ((j - 2) % n)
      <3>1. j - 2 = n + (n - m) /\ n - m \in 0 .. (n - 1) /\ n > 0
        BY <2>3
      <3>2. (n + (n - m)) % n = n - m
        <4> DEFINE d == n - m
        <4>1. d \in 0 .. (n - 1) /\ n \in Nat \ {0}
          BY <3>1
        <4> HIDE DEF d
        <4>2. (n + d) % n = d
          BY <4>1
        <4> QED BY <4>2 DEF d
      <3>3. n - (n - m) = m
        BY <2>3
      <3> QED BY <2>3, <3>1, <3>2, <3>3
    <2> HIDE DEF j
    <2>8. {s.value} = R[j] /\ R[j] # {}
      BY <2>3, <2>5
    <2> QED BY <1>1, <2>4, <2>6, <2>7, <2>8, WinsAt DEF R
  <1>6. CASE c = {} /\ (\A k \in 1 .. n : a[k] = {}) /\ (\A k \in 1 .. n : b[k] = {})
    <2>1. PickOf(a) = {} /\ PickOf(b) = {}
      BY <1>6, PickOfIs
    <2>2. s = f
      BY <1>6, <2>1 DEF Answers
    <2>3. \A i \in DOMAIN R : R[i] = {}
      <3>1. TAKE i \in DOMAIN R
      <3>2. CASE i \in 1 .. (n + 1)
        BY <1>3, <1>6, <3>2
      <3>3. CASE i \notin 1 .. (n + 1)
        <4>1. 2 * n + 2 - i \in 1 .. n /\ 2 * n + 2 - (2 * n + 2 - i) = i
          BY <1>1, <3>1, <3>3
        <4>2. R[2 * n + 2 - (2 * n + 2 - i)] = b[2 * n + 2 - i] /\ b[2 * n + 2 - i] = {}
          BY <1>1, <1>6, <4>1
        <4> QED BY <4>1, <4>2
      <3> QED BY <3>2, <3>3
    <2> QED BY <2>2, <2>3, WinsNowhere DEF R
  <1> QED BY <1>2, <1>4, <1>5, <1>6

(* A cascade of one list of places.                                        *)
LEMMA CascadeOfOne ==
  ASSUME NEW n \in Nat, NEW a, Options(a, n), NEW c, IsOption(c),
         NEW r, NEW q, NEW f, f.layer = 0, f.rung \in {"default", "builtin_profile"}, NEW s,
         Answers(c, PickOf(a), {}, r, q, f, s)
  PROVE  Wins(OneList(c, a, n), n, s)
  <1> DEFINE R == OneList(c, a, n)
  <1>1. /\ DOMAIN R = 1 .. (n + 1) /\ R[1] = c
        /\ \A k \in 1 .. n : R[n + 2 - k] = a[k]
    BY ListsAre DEF Options
  <1> HIDE DEF R
  <1>2. CASE c # {}
    <2>1. PICK v : c = {v} /\ s = Found(v, "cli", 0)
      BY <1>2 DEF Answers
    <2>2. s.value = v /\ s.rung = "cli"
      BY <2>1 DEF Found
    <2>3. n + 1 \in Nat /\ 1 \in 1 .. (n + 1) /\ \A i \in 1 .. (1 - 1) : R[i] = {}
      OBVIOUS
    <2>4. {s.value} = R[1] /\ R[1] # {}
      BY <1>1, <2>1, <2>2
    <2> QED BY <1>1, <2>2, <2>3, <2>4, WinsAt DEF R
  <1>3. ASSUME c = {}, NEW i \in 1 .. (n + 1), \A k \in 1 .. n : n + 2 - k <= i => a[k] = {}
        PROVE  R[i] = {}
    <2>1. CASE i = 1
      BY <1>1, <1>3, <2>1
    <2>2. CASE i # 1
      <3>1. n + 2 - i \in 1 .. n /\ n + 2 - (n + 2 - i) = i
        BY <2>2
      <3>2. R[n + 2 - (n + 2 - i)] = a[n + 2 - i] /\ a[n + 2 - i] = {}
        BY <1>1, <1>3, <3>1
      <3> QED BY <3>1, <3>2
    <2> QED BY <2>1, <2>2
  <1>4. CASE c = {} /\ ~ \A k \in 1 .. n : a[k] = {}
    <2>1. PICK m, p : PickOf(a) = {p} /\ TakenFrom(a, n, m, p)
      BY <1>4, PickOfIs
    <2>2. s = Found(p.value, r, p.layer)
      BY <1>4, <2>1 DEF Answers
    <2>3. s.value = p.value /\ s.layer = m /\ m \in 1 .. n /\ a[m] = {p.value}
          /\ \A k \in 1 .. n : k > m => a[k] = {}
      BY <2>1, <2>2 DEF Found, TakenFrom
    <2> DEFINE j == n + 2 - m
    <2>4. j \in 1 .. (n + 1) /\ j # 1 /\ n + 1 \in Nat
      BY <2>3
    <2>5. R[j] = a[m]
      BY <1>1, <2>3
    <2>6. \A i \in 1 .. (j - 1) : R[i] = {}
      <3>1. TAKE i \in 1 .. (j - 1)
      <3>2. i \in 1 .. (n + 1)
        BY <2>3
      <3>3. \A k \in 1 .. n : n + 2 - k <= i => k > m
        BY <2>3, <3>1
      <3> QED BY <1>3, <1>4, <2>3, <3>2, <3>3
    <2>7. s.layer = n - ((j - 2) % n)
      <3>1. j - 2 = n - m /\ n - m \in 0 .. (n - 1) /\ n > 0
        BY <2>3
      <3>2. (n - m) % n = n - m
        BY <3>1
      <3>3. n - (n - m) = m
        BY <2>3
      <3> QED BY <2>3, <3>1, <3>2, <3>3
    <2> HIDE DEF j
    <2>8. {s.value} = R[j] /\ R[j] # {}
      BY <2>3, <2>5
    <2> QED BY <1>1, <2>4, <2>6, <2>7, <2>8, WinsAt DEF R
  <1>5. CASE c = {} /\ \A k \in 1 .. n : a[k] = {}
    <2>1. PickOf(a) = {}
      BY <1>5, PickOfIs
    <2>2. s = f
      BY <1>5, <2>1 DEF Answers
    <2>3. \A i \in DOMAIN R : R[i] = {}
      BY <1>1, <1>3, <1>5
    <2> QED BY <2>2, <2>3, WinsNowhere DEF R
  <1> QED BY <1>2, <1>4, <1>5

-----------------------------------------------------------------------------
(* The places of a key, in the file of each layer.                         *)
ScanPlaces(k) == [i \in DOMAIN files |-> UNION {KeyIn(files[i].scans, n, k) : n \in scan}]
DefaultPlaces(k) == [i \in DOMAIN files |-> Key(files[i].defaults, k)]
ProfilePlaces(name, k) == [i \in DOMAIN files |-> KeyIn(files[i].profiles, name, k)]
TransportPlaces(name, k) == [i \in DOMAIN files |-> KeyIn(files[i].transports, name, k)]

LEMMA KeyIsOption ==
  ASSUME NEW table, NEW k
  PROVE  IsOption(Key(table, k)) /\ \A name : IsOption(KeyIn(table, name, k))
  <1>1. \A t : IsOption(Key(t, k))
    BY DEF Key, IsOption
  <1> QED BY <1>1 DEF KeyIn, IsOption

(* A lookup in the files is a pick of its places, and its places in the    *)
(* order of HighestRungWins are the same, reversed.                        *)
LEMMA PlacesOfScan ==
  ASSUME IInv, NEW k
  PROVE  /\ Len(files) \in Nat /\ Options(ScanPlaces(k), Len(files))
         /\ InScan(files, scan, k) = PickOf(ScanPlaces(k))
         /\ ScanHas(k) = Reversed(ScanPlaces(k), Len(files))
  <1>1. PICK n \in Nat : DOMAIN files = 1 .. n
    BY DEF IInv, GoodFiles
  <1>2. Len(files) = n
    BY <1>1
  <1> DEFINE g == ScanPlaces(k)
             get(d) == UNION {KeyIn(d.scans, s, k) : s \in scan}
  <1>3. DOMAIN g = 1 .. n /\ \A i \in 1 .. n : g[i] = get(files[i])
    BY <1>1 DEF ScanPlaces
  <1>4. \A i \in 1 .. n : IsOption(g[i])
    <2>1. TAKE i \in 1 .. n
    <2>2. IsOption(scan)
      BY DEF IInv, RequestStands, scan
    <2>3. CASE scan = {}
      <3>1. get(files[i]) = {}
        BY <2>3
      <3> QED BY <1>3, <3>1 DEF IsOption
    <2>4. CASE scan # {}
      <3>1. PICK s : scan = {s}
        BY <2>2, <2>4 DEF IsOption
      <3>2. get(files[i]) = KeyIn(files[i].scans, s, k)
        <4> DEFINE of(x) == KeyIn(files[i].scans, x, k)
        <4>1. {of(x) : x \in scan} = {of(s)}
          <5> HIDE DEF of
          <5> QED BY <3>1
        <4>2. UNION {of(s)} = of(s)
          <5> HIDE DEF of
          <5> QED OBVIOUS
        <4>3. get(files[i]) = UNION {of(x) : x \in scan}
          OBVIOUS
        <4>4. of(s) = KeyIn(files[i].scans, s, k)
          OBVIOUS
        <4> HIDE DEF of, get
        <4> QED BY <4>1, <4>2, <4>3, <4>4
      <3>3. PICK option : option = KeyIn(files[i].scans, s, k)
        OBVIOUS
      <3>4. IsOption(option)
        BY <3>3, KeyIsOption
      <3>5. g[i] = option
        <4> HIDE DEF g, get
        <4> QED BY <1>3, <3>2, <3>3
      <3> QED BY <3>4, <3>5
    <2> QED BY <2>3, <2>4
  <1>5. InScan(files, scan, k) = PickOf(g)
    <2> DEFINE having == {i \in DOMAIN files : get(files[i]) # {}}
               hers == {i \in DOMAIN g : g[i] # {}}
    <2>1. InScan(files, scan, k) = IF having = {} THEN {}
            ELSE {[value |-> The(get(files[Max(having)])), layer |-> Max(having)]}
      BY DEF InScan, Pick
    <2>2. PickOf(g) = IF hers = {} THEN {}
            ELSE {[value |-> The(g[Max(hers)]), layer |-> Max(hers)]}
      BY DEF PickOf
    <2> HIDE DEF get, g
    <2>3. having = hers
      BY <1>1, <1>3
    <2>4. having # {} => Max(having) \in 1 .. n
      <3>1. having \in SUBSET (1 .. n)
        BY <1>1
      <3> HIDE DEF having
      <3> QED BY <3>1, HighestIsIn
    <2> HIDE DEF having, hers
    <2> QED BY <1>3, <2>1, <2>2, <2>3, <2>4
  <1>6. ScanHas(k) = Reversed(g, n)
    <2>1. ScanHas(k) = [i \in 1 .. n |-> get(files[n + 1 - i])]
      BY <1>1, <1>2 DEF ScanHas, InFiles
    <2>2. \A i \in 1 .. n : n + 1 - i \in 1 .. n
      OBVIOUS
    <2> HIDE DEF get, g
    <2> QED BY <1>3, <2>1, <2>2 DEF Reversed
  <1> QED BY <1>2, <1>3, <1>4, <1>5, <1>6 DEF Options

LEMMA PlacesOfDefaults ==
  ASSUME IInv, NEW k
  PROVE  /\ Len(files) \in Nat /\ Options(DefaultPlaces(k), Len(files))
         /\ InDefaults(files, k) = PickOf(DefaultPlaces(k))
         /\ DefaultsHave(k) = Reversed(DefaultPlaces(k), Len(files))
  <1>1. PICK n \in Nat : DOMAIN files = 1 .. n
    BY DEF IInv, GoodFiles
  <1>2. Len(files) = n
    BY <1>1
  <1> DEFINE g == DefaultPlaces(k)
             get(d) == Key(d.defaults, k)
  <1>3. DOMAIN g = 1 .. n /\ \A i \in 1 .. n : g[i] = get(files[i])
    BY <1>1 DEF DefaultPlaces
  <1>4. \A i \in 1 .. n : IsOption(g[i])
    BY <1>3, KeyIsOption
  <1>5. InDefaults(files, k) = PickOf(g)
    <2> DEFINE having == {i \in DOMAIN files : get(files[i]) # {}}
               hers == {i \in DOMAIN g : g[i] # {}}
    <2>1. InDefaults(files, k) = IF having = {} THEN {}
            ELSE {[value |-> The(get(files[Max(having)])), layer |-> Max(having)]}
      BY DEF InDefaults, Pick
    <2>2. PickOf(g) = IF hers = {} THEN {}
            ELSE {[value |-> The(g[Max(hers)]), layer |-> Max(hers)]}
      BY DEF PickOf
    <2> HIDE DEF get, g
    <2>3. having = hers
      BY <1>1, <1>3
    <2>4. having # {} => Max(having) \in 1 .. n
      <3>1. having \in SUBSET (1 .. n)
        BY <1>1
      <3> HIDE DEF having
      <3> QED BY <3>1, HighestIsIn
    <2> HIDE DEF having, hers
    <2> QED BY <1>3, <2>1, <2>2, <2>3, <2>4
  <1>6. DefaultsHave(k) = Reversed(g, n)
    <2>1. DefaultsHave(k) = [i \in 1 .. n |-> get(files[n + 1 - i])]
      BY <1>1, <1>2 DEF DefaultsHave, InFiles
    <2>2. \A i \in 1 .. n : n + 1 - i \in 1 .. n
      OBVIOUS
    <2> HIDE DEF get, g
    <2> QED BY <1>3, <2>1, <2>2 DEF Reversed
  <1> QED BY <1>2, <1>3, <1>4, <1>5, <1>6 DEF Options

LEMMA PlacesOfProfile ==
  ASSUME IInv, NEW name, NEW k
  PROVE  /\ Len(files) \in Nat /\ Options(ProfilePlaces(name, k), Len(files))
         /\ InProfile(files, name, k) = PickOf(ProfilePlaces(name, k))
         /\ ProfilesHave(name, k)
              = Reversed(ProfilePlaces(name, k), Len(files))
  <1>1. PICK n \in Nat : DOMAIN files = 1 .. n
    BY DEF IInv, GoodFiles
  <1>2. Len(files) = n
    BY <1>1
  <1> DEFINE g == ProfilePlaces(name, k)
             get(d) == KeyIn(d.profiles, name, k)
  <1>3. DOMAIN g = 1 .. n /\ \A i \in 1 .. n : g[i] = get(files[i])
    BY <1>1 DEF ProfilePlaces
  <1>4. \A i \in 1 .. n : IsOption(g[i])
    BY <1>3, KeyIsOption
  <1>5. InProfile(files, name, k) = PickOf(g)
    <2> DEFINE having == {i \in DOMAIN files : get(files[i]) # {}}
               hers == {i \in DOMAIN g : g[i] # {}}
    <2>1. InProfile(files, name, k) = IF having = {} THEN {}
            ELSE {[value |-> The(get(files[Max(having)])), layer |-> Max(having)]}
      BY DEF InProfile, Pick
    <2>2. PickOf(g) = IF hers = {} THEN {}
            ELSE {[value |-> The(g[Max(hers)]), layer |-> Max(hers)]}
      BY DEF PickOf
    <2> HIDE DEF get, g
    <2>3. having = hers
      BY <1>1, <1>3
    <2>4. having # {} => Max(having) \in 1 .. n
      <3>1. having \in SUBSET (1 .. n)
        BY <1>1
      <3> HIDE DEF having
      <3> QED BY <3>1, HighestIsIn
    <2> HIDE DEF having, hers
    <2> QED BY <1>3, <2>1, <2>2, <2>3, <2>4
  <1>6. ProfilesHave(name, k) = Reversed(g, n)
    <2>1. ProfilesHave(name, k)
            = [i \in 1 .. n |-> get(files[n + 1 - i])]
      BY <1>1, <1>2 DEF InFiles, ProfilesHave, TransportsHave
    <2>2. \A i \in 1 .. n : n + 1 - i \in 1 .. n
      OBVIOUS
    <2>3. Reversed(g, n) = [i \in 1 .. n |-> get(files[n + 1 - i])]
      <3> HIDE DEF get, g
      <3> QED BY <1>3, <2>2 DEF Reversed
    <2> QED BY <2>1, <2>3
  <1> QED BY <1>2, <1>3, <1>4, <1>5, <1>6 DEF Options

LEMMA PlacesOfTransport ==
  ASSUME IInv, NEW name, NEW k
  PROVE  /\ Len(files) \in Nat /\ Options(TransportPlaces(name, k), Len(files))
         /\ InTransport(files, name, k) = PickOf(TransportPlaces(name, k))
         /\ TransportsHave(name, k)
              = Reversed(TransportPlaces(name, k), Len(files))
  <1>1. PICK n \in Nat : DOMAIN files = 1 .. n
    BY DEF IInv, GoodFiles
  <1>2. Len(files) = n
    BY <1>1
  <1> DEFINE g == TransportPlaces(name, k)
             get(d) == KeyIn(d.transports, name, k)
  <1>3. DOMAIN g = 1 .. n /\ \A i \in 1 .. n : g[i] = get(files[i])
    BY <1>1 DEF TransportPlaces
  <1>4. \A i \in 1 .. n : IsOption(g[i])
    BY <1>3, KeyIsOption
  <1>5. InTransport(files, name, k) = PickOf(g)
    <2> DEFINE having == {i \in DOMAIN files : get(files[i]) # {}}
               hers == {i \in DOMAIN g : g[i] # {}}
    <2>1. InTransport(files, name, k) = IF having = {} THEN {}
            ELSE {[value |-> The(get(files[Max(having)])), layer |-> Max(having)]}
      BY DEF InTransport, Pick
    <2>2. PickOf(g) = IF hers = {} THEN {}
            ELSE {[value |-> The(g[Max(hers)]), layer |-> Max(hers)]}
      BY DEF PickOf
    <2> HIDE DEF get, g
    <2>3. having = hers
      BY <1>1, <1>3
    <2>4. having # {} => Max(having) \in 1 .. n
      <3>1. having \in SUBSET (1 .. n)
        BY <1>1
      <3> HIDE DEF having
      <3> QED BY <3>1, HighestIsIn
    <2> HIDE DEF having, hers
    <2> QED BY <1>3, <2>1, <2>2, <2>3, <2>4
  <1>6. TransportsHave(name, k) = Reversed(g, n)
    <2>1. TransportsHave(name, k)
            = [i \in 1 .. n |-> get(files[n + 1 - i])]
      BY <1>1, <1>2 DEF InFiles, ProfilesHave, TransportsHave
    <2>2. \A i \in 1 .. n : n + 1 - i \in 1 .. n
      OBVIOUS
    <2>3. Reversed(g, n) = [i \in 1 .. n |-> get(files[n + 1 - i])]
      <3> HIDE DEF get, g
      <3> QED BY <1>3, <2>2 DEF Reversed
    <2> QED BY <2>1, <2>3
  <1> QED BY <1>2, <1>3, <1>4, <1>5, <1>6 DEF Options

(* What a cascade takes of several files is at most one value.             *)
LEMMA PickedIsOption ==
  ASSUME NEW n \in Nat, NEW g, Options(g, n)
  PROVE  IsOption(PickOf(g))
  BY PickOfIs DEF IsOption

-----------------------------------------------------------------------------
(* A setting looked up in one list of places and in two.                   *)
OneLookup(c, z, r, f) == The(Or(FromCli(c), Or(FromFile(z, r), {f})))
TwoLookups(c, x, r, y, q, f) ==
  The(Or(FromCli(c), Or(FromFile(x, r), Or(FromFile(y, q), {f}))))

(* Two lists of places read by one lookup.                                 *)
LEMMA FromEither ==
  ASSUME NEW c, NEW x, NEW y, NEW r, NEW f
  PROVE  OneLookup(c, Or(x, y), r, f) = TwoLookups(c, x, r, y, r, f)
  <1>1. \A z : z = {} => FromFile(z, r) = {}
    BY DEF FromFile
  <1>2. \A z : z # {} => FromFile(z, r) # {}
    BY DEF FromFile
  <1>3. ASSUME x = {}
        PROVE  Or(FromCli(c), Or(FromFile(Or(x, y), r), {f}))
                 = Or(FromCli(c), Or(FromFile(x, r), Or(FromFile(y, r), {f})))
    <2>1. Or(x, y) = y /\ FromFile(x, r) = {}
      BY <1>1, <1>3 DEF Or
    <2>2. Or(FromFile(x, r), Or(FromFile(y, r), {f})) = Or(FromFile(y, r), {f})
      BY <2>1 DEF Or
    <2> QED BY <2>1, <2>2
  <1>4. ASSUME x # {}
        PROVE  Or(FromCli(c), Or(FromFile(Or(x, y), r), {f}))
                 = Or(FromCli(c), Or(FromFile(x, r), Or(FromFile(y, r), {f})))
    <2>1. Or(x, y) = x /\ FromFile(x, r) # {}
      BY <1>2, <1>4 DEF Or
    <2>2. Or(FromFile(x, r), Or(FromFile(y, r), {f})) = FromFile(x, r)
      BY <2>1 DEF Or
    <2>3. Or(FromFile(x, r), {f}) = FromFile(x, r)
      BY <2>1 DEF Or
    <2> QED BY <2>1, <2>2, <2>3
  <1>5. Or(FromCli(c), Or(FromFile(Or(x, y), r), {f}))
          = Or(FromCli(c), Or(FromFile(x, r), Or(FromFile(y, r), {f})))
    BY <1>3, <1>4
  <1> QED BY <1>5 DEF OneLookup, TwoLookups

LEMMA FromNothing ==
  /\ FromCli({}) = {} /\ \A r : FromFile({}, r) = {}
  /\ \A z : Or({}, z) = z
  BY DEF FromCli, FromFile, Or

(* A fallback is of no file.                                               *)
IsFallback(f) == f.layer = 0 /\ f.rung \in {"default", "builtin_profile"}
LEMMA Fallbacks ==
  \A v : IsFallback(Found(v, "default", 0)) /\ IsFallback(Found(v, "builtin_profile", 0))
  BY DEF Found, IsFallback

(* What a setting is taken of, as the stages take it.                      *)
FlagKeys == {"banner", "tls", "tls_versions", "open_only", "compress", "spans", "output_dir"}
TimingKeys ==
  {"concurrency", "rate", "retries", "connect_timeout", "banner_bytes", "banner_timeout",
   "tls_timeout"}
SettingKeys ==
  {"transport", "profile", "dns", "seed", "services_file", "use_etc_services"}
    \union FlagKeys \union TimingKeys
NoLabelFile == Found("", "default", 0)
IsSetting(k, s) ==
  /\ k \in SettingKeys
  /\ k = "transport" => s = TransportName
  /\ k = "profile" => s = ProfileName(TransportNow)
  /\ k = "dns" => s = DnsMode(TransportNow)
  /\ k \in FlagKeys => \E f : s = Flag(k, f)
  /\ k \in TimingKeys => s = Field(ProfileNow, BaseNow, k)
  /\ k = "seed" => s = Seed
  /\ k = "services_file" => s = The(Or(ServicesFile, {NoLabelFile}))
  /\ k = "use_etc_services" => s = UseEtcServices

(* A setting of a scan or of [defaults].                                   *)
LEMMA ScanOrDefaultWins ==
  ASSUME IInv, NEW k, NEW r, NEW q, NEW f, IsFallback(f), NEW s,
         s = TwoLookups(Key(cli, k), InScan(files, scan, k), r,
                        InDefaults(files, k), q, f)
  PROVE  Wins(<<Key(cli, k)>> \o (ScanHas(k) \o DefaultsHave(k)), Len(files), s)
  <1> DEFINE n == Len(files)
             a == ScanPlaces(k)
             b == DefaultPlaces(k)
             c == Key(cli, k)
  <1>1. n \in Nat /\ Options(a, n) /\ Options(b, n) /\ IsOption(c)
    BY PlacesOfScan, PlacesOfDefaults, KeyIsOption
  <1>2. InScan(files, scan, k) = PickOf(a) /\ InDefaults(files, k) = PickOf(b)
    BY PlacesOfScan, PlacesOfDefaults
  <1>3. <<c>> \o (ScanHas(k) \o DefaultsHave(k)) = TwoLists(c, a, b, n)
    BY PlacesOfScan, PlacesOfDefaults DEF TwoLists
  <1> HIDE DEF n, a, b, c
  <1>4. s = The(Or(FromCli(c), Or(FromFile(PickOf(a), r), Or(FromFile(PickOf(b), q), {f}))))
    BY <1>2 DEF c, TwoLookups
  <1>5. IsOption(PickOf(a)) /\ IsOption(PickOf(b))
    BY <1>1, PickedIsOption
  <1>6. Answers(c, PickOf(a), PickOf(b), r, q, f, s)
    BY <1>1, <1>4, <1>5, CascadeAnswers
  <1>7. Wins(TwoLists(c, a, b, n), n, s)
    BY <1>1, <1>6, CascadeOfTwo DEF IsFallback
  <1> QED BY <1>3, <1>7 DEF c, n

(* A setting of a scan or of its profile.                                  *)
LEMMA ScanOrProfileWins ==
  ASSUME IInv, NEW name, NEW k, NEW r, NEW q, NEW f, IsFallback(f), NEW s,
         s = TwoLookups(Key(cli, k), InScan(files, scan, k), r,
                        InProfile(files, name, k), q, f)
  PROVE  Wins(<<Key(cli, k)>> \o
                (ScanHas(k) \o ProfilesHave(name, k)),
              Len(files), s)
  <1> DEFINE n == Len(files)
             a == ScanPlaces(k)
             b == ProfilePlaces(name, k)
             c == Key(cli, k)
             places == ProfilesHave(name, k)
  <1>1. n \in Nat /\ Options(a, n) /\ Options(b, n) /\ IsOption(c)
    BY PlacesOfScan, PlacesOfProfile, KeyIsOption
  <1>2. InScan(files, scan, k) = PickOf(a) /\ InProfile(files, name, k) = PickOf(b)
    BY PlacesOfScan, PlacesOfProfile
  <1>3. places = Reversed(b, n) /\ ScanHas(k) = Reversed(a, n)
    BY PlacesOfScan, PlacesOfProfile
  <1> HIDE DEF n, a, b, c, places
  <1>4. s = The(Or(FromCli(c), Or(FromFile(PickOf(a), r), Or(FromFile(PickOf(b), q), {f}))))
    BY <1>2 DEF c, TwoLookups
  <1>5. IsOption(PickOf(a)) /\ IsOption(PickOf(b))
    BY <1>1, PickedIsOption
  <1>6. Answers(c, PickOf(a), PickOf(b), r, q, f, s)
    BY <1>1, <1>4, <1>5, CascadeAnswers
  <1>7. Wins(TwoLists(c, a, b, n), n, s)
    BY <1>1, <1>6, CascadeOfTwo DEF IsFallback
  <1>8. Wins(<<c>> \o (ScanHas(k) \o places), n, s)
    BY <1>3, <1>7 DEF TwoLists
  <1> QED BY <1>8 DEF c, n, places

(* A setting of a scan or of a transport.                                  *)
LEMMA ScanOrTransportWins ==
  ASSUME IInv, NEW name, NEW k, NEW r, NEW q, NEW f, IsFallback(f), NEW s,
         s = TwoLookups(Key(cli, k), InScan(files, scan, k), r,
                        InTransport(files, name, k), q, f)
  PROVE  Wins(<<Key(cli, k)>> \o
                (ScanHas(k) \o TransportsHave(name, k)),
              Len(files), s)
  <1> DEFINE n == Len(files)
             a == ScanPlaces(k)
             b == TransportPlaces(name, k)
             c == Key(cli, k)
             places == TransportsHave(name, k)
  <1>1. n \in Nat /\ Options(a, n) /\ Options(b, n) /\ IsOption(c)
    BY PlacesOfScan, PlacesOfTransport, KeyIsOption
  <1>2. InScan(files, scan, k) = PickOf(a) /\ InTransport(files, name, k) = PickOf(b)
    BY PlacesOfScan, PlacesOfTransport
  <1>3. places = Reversed(b, n) /\ ScanHas(k) = Reversed(a, n)
    BY PlacesOfScan, PlacesOfTransport
  <1> HIDE DEF n, a, b, c, places
  <1>4. s = The(Or(FromCli(c), Or(FromFile(PickOf(a), r), Or(FromFile(PickOf(b), q), {f}))))
    BY <1>2 DEF c, TwoLookups
  <1>5. IsOption(PickOf(a)) /\ IsOption(PickOf(b))
    BY <1>1, PickedIsOption
  <1>6. Answers(c, PickOf(a), PickOf(b), r, q, f, s)
    BY <1>1, <1>4, <1>5, CascadeAnswers
  <1>7. Wins(TwoLists(c, a, b, n), n, s)
    BY <1>1, <1>6, CascadeOfTwo DEF IsFallback
  <1>8. Wins(<<c>> \o (ScanHas(k) \o places), n, s)
    BY <1>3, <1>7 DEF TwoLists
  <1> QED BY <1>8 DEF c, n, places

(* A setting of [defaults] alone, for which the command line has no option.*)
LEMMA DefaultWins ==
  ASSUME IInv, NEW k, Key(cli, k) = {}, NEW f, IsFallback(f), NEW s,
         s = The(Or(FromFile(InDefaults(files, k), "defaults"), {f}))
  PROVE  Wins(<<Key(cli, k)>> \o DefaultsHave(k), Len(files), s)
  <1> DEFINE n == Len(files)
             a == DefaultPlaces(k)
             c == Key(cli, k)
             none == {}
  <1>1. n \in Nat /\ Options(a, n) /\ IsOption(c) /\ IsOption(none)
    BY PlacesOfDefaults, KeyIsOption DEF IsOption
  <1>2. InDefaults(files, k) = PickOf(a)
    BY PlacesOfDefaults
  <1>3. <<c>> \o DefaultsHave(k) = OneList(c, a, n)
    BY PlacesOfDefaults DEF OneList
  <1>4. c = {} /\ none = {}
    OBVIOUS
  <1> HIDE DEF n, a, c, none
  <1>5. s = The(Or(FromCli(c), Or(FromFile(PickOf(a), "defaults"),
                                  Or(FromFile(none, "defaults"), {f}))))
    BY <1>2, <1>4, FromNothing
  <1>6. IsOption(PickOf(a))
    BY <1>1, PickedIsOption
  <1>7. Answers(c, PickOf(a), none, "defaults", "defaults", f, s)
    BY <1>1, <1>5, <1>6, CascadeAnswers
  <1>8. Wins(OneList(c, a, n), n, s)
    BY <1>1, <1>4, <1>7, CascadeOfOne DEF IsFallback
  <1> QED BY <1>3, <1>8 DEF c, n

(* The seed is asked of the command line alone.                            *)
LEMMA SeedWins ==
  ASSUME NEW c, IsOption(c), NEW f, IsFallback(f), NEW n, NEW s,
         s = The(Or(FromCli(c), {f}))
  PROVE  Wins(<<c>> \o << >>, n, s)
  <1>0. \A v : The({v}) = v
    <2>1. TAKE v
    <2>2. The({v}) \in {v}
      BY TheMember
    <2> QED BY <2>2
  <1>1. PICK R : R = <<c>>
    OBVIOUS
  <1>2. DOMAIN R = 1 .. 1 /\ R[1] = c /\ <<c>> \o << >> = R
    <2>1. <<c>> \in Seq({c})
      OBVIOUS
    <2> QED BY <1>1, <2>1, ConcatEmptySeq
  <1>3. CASE c = {}
    <2>1. s = f
      BY <1>0, <1>3, FromNothing
    <2>2. \A i \in DOMAIN R : R[i] = {}
      BY <1>2, <1>3
    <2> QED BY <1>2, <2>1, <2>2, WinsNowhere DEF IsFallback
  <1>4. CASE c # {}
    <2>1. PICK v : c = {v}
      BY <1>4 DEF IsOption
    <2>2. FromCli(c) = {Found(v, "cli", 0)}
      BY <2>1 DEF FromCli
    <2>3. s = Found(v, "cli", 0)
      BY <1>0, <2>2 DEF Or
    <2>4. {s.value} = R[1] /\ R[1] # {} /\ s.rung = "cli"
      BY <1>2, <1>4, <2>1, <2>3 DEF Found
    <2>5. PICK m \in Nat : m = 1
      OBVIOUS
    <2>6. DOMAIN R = 1 .. m /\ m \in 1 .. m /\ R[m] # {} /\ {s.value} = R[m]
          /\ \A i \in 1 .. (m - 1) : R[i] = {}
      BY <1>2, <2>4, <2>5
    <2>7. IF m = 1 THEN s.rung = "cli" ELSE s.layer = n - ((m - 2) % n)
      BY <2>4, <2>5
    <2>8. Wins(R, n, s)
      BY <2>6, <2>7, WinsAt
    <2> QED BY <1>2, <2>8
  <1> QED BY <1>3, <1>4

-----------------------------------------------------------------------------
(* Every setting is that of its highest place.                             *)
LEMMA SettingWins ==
  ASSUME IInv, NEW k, NEW s, IsSetting(k, s),
         plan.transport = TransportNow, plan.profile = ProfileNow
  PROVE  Wins(Rungs(k), Len(files), s)
  <1>0. Key(cli, "services_file") = {} /\ Key(cli, "use_etc_services") = {}
    BY DEF IInv, RequestStands, cli, Key
  <1>1. k \in SettingKeys
    BY DEF IsSetting
  <1>2. CASE k \in {"transport", "profile"}
    <2>1. PICK v : s = PickName(files, scan, Key(cli, k), k, v)
      BY <1>2 DEF IsSetting, TransportName, ProfileName
    <2>2. s = TwoLookups(Key(cli, k), InScan(files, scan, k), "scan",
                         InDefaults(files, k), "defaults", Found(v, "default", 0))
      BY <2>1 DEF PickName, TwoLookups
    <2>3. Rungs(k) = <<Key(cli, k)>> \o (ScanHas(k) \o DefaultsHave(k))
      BY <1>2 DEF Rungs
    <2> QED BY <2>2, <2>3, Fallbacks, ScanOrDefaultWins
  <1>3. CASE k \in FlagKeys
    <2>1. PICK v : s = Flag(k, v)
      BY <1>3 DEF IsSetting
    <2>2. s = OneLookup(Key(cli, k), Or(InScan(files, scan, k), InDefaults(files, k)),
                        "defaults", Found(v, "default", 0))
      BY <2>1 DEF Flag, ResolveFlag, OneLookup
    <2>3. s = TwoLookups(Key(cli, k), InScan(files, scan, k), "defaults",
                         InDefaults(files, k), "defaults", Found(v, "default", 0))
      BY <2>2, FromEither
    <2>4. Rungs(k) = <<Key(cli, k)>> \o (ScanHas(k) \o DefaultsHave(k))
      BY <1>3 DEF Rungs, FlagKeys
    <2> QED BY <2>3, <2>4, Fallbacks, ScanOrDefaultWins
  <1>4. CASE k = "dns"
    <2> DEFINE name == TransportNow.name
    <2>1. s = ResolveDnsMode(files, scan, name, Key(cli, "dns"))
      BY <1>4 DEF IsSetting, DnsMode
    <2>2. s = OneLookup(Key(cli, k), Or(InScan(files, scan, k), InTransport(files, name, k)),
                        "transport", Found("auto", "default", 0))
      BY <1>4, <2>1 DEF ResolveDnsMode, OneLookup
    <2>3. s = TwoLookups(Key(cli, k), InScan(files, scan, k), "transport",
                         InTransport(files, name, k), "transport", Found("auto", "default", 0))
      BY <2>2, FromEither
    <2>4. Rungs(k) = <<Key(cli, k)>> \o (ScanHas(k) \o TransportsHave(plan.transport.name, k))
      BY <1>4 DEF Rungs
    <2>5. IsFallback(Found("auto", "default", 0))
      BY Fallbacks
    <2>6. name = plan.transport.name
      OBVIOUS
    <2> HIDE DEF name
    <2>8. Wins(<<Key(cli, k)>> \o
                 (ScanHas(k) \o TransportsHave(name, k)),
               Len(files), s)
      BY <2>3, <2>5, ScanOrTransportWins
    <2> QED BY <2>4, <2>6, <2>8
  <1>5. CASE k \in TimingKeys
    <2> DEFINE name == ProfileNow
    <2>1. PICK v : s = ResolveField(files, scan, name, Key(cli, k), k, v)
      BY <1>5 DEF IsSetting, Field
    <2>2. s = TwoLookups(Key(cli, k), InScan(files, scan, k), "scan",
                         InProfile(files, name, k), "profile", Found(v, "builtin_profile", 0))
      BY <2>1 DEF ResolveField, TwoLookups
    <2>3. Rungs(k) = <<Key(cli, k)>> \o (ScanHas(k) \o ProfilesHave(plan.profile, k))
      BY <1>5 DEF Rungs, TimingKeys
    <2>4. IsFallback(Found(v, "builtin_profile", 0))
      BY Fallbacks
    <2>5. name = plan.profile
      OBVIOUS
    <2> HIDE DEF name
    <2>7. Wins(<<Key(cli, k)>> \o
                 (ScanHas(k) \o ProfilesHave(name, k)),
               Len(files), s)
      BY <2>2, <2>4, ScanOrProfileWins
    <2> QED BY <2>3, <2>5, <2>7
  <1>6. CASE k = "seed"
    <2>1. s = The(Or(FromCli(Key(cli, k)), {Found(0, "default", 0)}))
      BY <1>6 DEF IsSetting, Seed
    <2>2. Rungs(k) = <<Key(cli, k)>> \o << >>
      BY <1>6 DEF Rungs
    <2>3. IsOption(Key(cli, k))
      BY KeyIsOption
    <2> QED BY <2>1, <2>2, <2>3, Fallbacks, SeedWins
  <1>7. CASE k \in {"services_file", "use_etc_services"}
    <2>1. PICK f : /\ IsFallback(f)
                   /\ s = The(Or(FromFile(InDefaults(files, k), "defaults"), {f}))
      <3>1. CASE k = "services_file"
        BY <3>1, Fallbacks DEF IsSetting, ServicesFile, NoLabelFile
      <3>2. CASE k = "use_etc_services"
        BY <3>2, Fallbacks DEF IsSetting, UseEtcServices
      <3> QED BY <1>7, <3>1, <3>2
    <2>2. Rungs(k) = <<Key(cli, k)>> \o DefaultsHave(k)
      BY <1>7 DEF Rungs
    <2>3. Key(cli, k) = {}
      BY <1>0, <1>7
    <2> QED BY <2>1, <2>2, <2>3, DefaultWins
  <1> QED BY <1>1, <1>2, <1>3, <1>4, <1>5, <1>6, <1>7 DEF SettingKeys

-----------------------------------------------------------------------------
(* What each stage has said of its settings.                               *)

ServicesNow ==
  ServiceTable(IF ServicesFile = {} THEN << >> ELSE <<The(ServicesFile).value.lines>>,
               UseEtcServices.value)
SettingsStandIn(s, p, o) ==
  /\ s = "load" => o = << >>
  /\ s \in AfterProfile => Has(p, "profile", ProfileNow)
  /\ s \in AfterScalars => Has(p, "services", ServicesNow)
  /\ \A k \in DOMAIN o : IsSetting(k, o[k])

SettingsInv == AdviceInv /\ SettingsStandIn(stage, plan, prov)

(* The cascades find what they found while the command line and the files  *)
(* stay.                                                                   *)
LEMMA SaidUnmoved ==
  ASSUME IInv, UNCHANGED <<request, files>>, NEW s, NEW p, NEW o,
         SettingsStandIn(s, p, o)
  PROVE  SettingsStandIn(s, p, o)'
  <1>1. UNCHANGED <<cli, scan>>
    BY DEF cli, scan
  <1>2. UNCHANGED <<TransportNow, ProfileNow, BaseNow>>
    BY SettingsUnmoved DEF Settings
  <1>3. UNCHANGED <<TransportName, ServicesFile, UseEtcServices, Seed>>
    BY <1>1 DEF TransportName, ServicesFile, UseEtcServices, Seed
  <1>4. UNCHANGED ServicesNow
    BY <1>3 DEF ServicesNow
  <1>5. UNCHANGED ProfileName(TransportNow)
    BY <1>1, <1>2 DEF ProfileName
  <1>6. UNCHANGED DnsMode(TransportNow)
    BY <1>1, <1>2 DEF DnsMode
  <1>7. \A k, f : UNCHANGED Flag(k, f)
    BY <1>1 DEF Flag
  <1>8. \A k : UNCHANGED Field(ProfileNow, BaseNow, k)
    BY <1>1, <1>2 DEF Field
  <1>9. ASSUME NEW k, NEW v, IsSetting(k, v) PROVE IsSetting(k, v)'
    <2>1. k \in FlagKeys => \E f : v = Flag(k, f)'
      BY <1>7, <1>9 DEF IsSetting
    <2>2. k \in TimingKeys => v = Field(ProfileNow, BaseNow, k)'
      BY <1>8, <1>9 DEF IsSetting
    <2>3. k = "profile" => v = ProfileName(TransportNow)'
      BY <1>5, <1>9 DEF IsSetting
    <2>4. k = "dns" => v = DnsMode(TransportNow)'
      BY <1>6, <1>9 DEF IsSetting
    <2> QED BY <1>3, <1>9, <2>1, <2>2, <2>3, <2>4 DEF IsSetting
  <1> QED BY <1>2, <1>4, <1>9 DEF SettingsStandIn

-----------------------------------------------------------------------------
(* What a stage adds to a plan and to the origins of its settings.         *)
Adds(to, resolved, origins) ==
  /\ to \in AfterProfile => Has(With(plan, resolved), "profile", ProfileNow)
  /\ to \in AfterScalars => Has(With(plan, resolved), "services", ServicesNow)
  /\ \A k \in DOMAIN origins : IsSetting(k, origins[k])

LEMMA StageSays ==
  ASSUME SettingsInv, AdviceInv', NEW from, NEW to, NEW refusal, NEW resolved, NEW origins,
         Stage(from, to, refusal, resolved, origins), UNCHANGED files,
         to # "load", refusal = {} => Adds(to, resolved, origins)
  PROVE  SettingsInv'
  <1>1. UNCHANGED <<request, files>> /\ IInv
    BY DEF Stage, SettingsInv, AdviceInv
  <1>2. PICK s, p, o : s = stage' /\ p = plan' /\ o = prov'
    OBVIOUS
  <1>3. SettingsStandIn(s, p, o)
    <2>1. CASE refusal # {}
      <3>1. s = "refused" /\ p = plan /\ o = prov
        BY <1>2, <2>1 DEF Stage
      <3>2. \A k \in DOMAIN prov : IsSetting(k, prov[k])
        BY DEF SettingsInv, SettingsStandIn
      <3> QED BY <3>1, <3>2
            DEF SettingsStandIn, AfterAll, AfterScalars, AfterNames, AfterPorts, AfterTargets,
                AfterDns, AfterTiming, AfterProfile
    <2>2. CASE refusal = {}
      <3>1. s = to /\ p = With(plan, resolved) /\ o = With(prov, origins)
        BY <1>2, <2>2 DEF Stage
      <3>2. \A k \in DOMAIN prov : IsSetting(k, prov[k])
        BY DEF SettingsInv, SettingsStandIn
      <3>3. \A k \in DOMAIN origins : IsSetting(k, origins[k])
        BY <2>2 DEF Adds
      <3>4. DOMAIN o = DOMAIN origins \union DOMAIN prov
            /\ \A k \in DOMAIN o : o[k] = IF k \in DOMAIN origins THEN origins[k] ELSE prov[k]
        BY <3>1 DEF With
      <3>5. \A k \in DOMAIN o : IsSetting(k, o[k])
        BY <3>2, <3>3, <3>4
      <3> QED BY <2>2, <3>1, <3>5 DEF SettingsStandIn, Adds
    <2> QED BY <2>1, <2>2
  <1>4. SettingsStandIn(s, p, o)'
    BY <1>1, <1>3, SaidUnmoved
  <1>5. SettingsStandIn(stage, plan, prov)'
    BY <1>2, <1>4
  <1> QED BY <1>5 DEF SettingsInv

(* A stage that has no settings of its own.                                *)
LEMMA SilentStage ==
  ASSUME SettingsInv, AdviceInv', NEW from, NEW to, NEW refusal, NEW resolved,
         Stage(from, to, refusal, resolved, << >>), UNCHANGED files, to # "load",
         {"profile", "services"} \cap DOMAIN resolved = {},
         to \in AfterProfile => from \in AfterProfile,
         to \in AfterScalars => from \in AfterScalars
  PROVE  SettingsInv'
  <1>1. SettingsStandIn(from, plan, prov)
    BY DEF SettingsInv, Stage
  <1>2. to \in AfterProfile => Has(With(plan, resolved), "profile", ProfileNow)
    <2>1. from \in AfterProfile => Has(plan, "profile", ProfileNow)
      BY <1>1 DEF SettingsStandIn
    <2>2. "profile" \notin DOMAIN resolved
      OBVIOUS
    <2> QED BY <2>1, <2>2, HasKept
  <1>3. to \in AfterScalars => Has(With(plan, resolved), "services", ServicesNow)
    <2>1. from \in AfterScalars => Has(plan, "services", ServicesNow)
      BY <1>1 DEF SettingsStandIn
    <2>2. "services" \notin DOMAIN resolved
      OBVIOUS
    <2> QED BY <2>1, <2>2, HasKept
  <1>4. PICK none : none = << >>
    OBVIOUS
  <1>5. Adds(to, resolved, none)
    BY <1>2, <1>3, <1>4 DEF Adds
  <1> QED BY <1>4, <1>5, StageSays

LEMMA SilentStages ==
  ASSUME SettingsInv, AdviceInv',
         ValidateFiles \/ CheckScanExists \/ ResolveTargets \/ ResolvePorts \/ ResolvePairs
           \/ ResolveNames \/ AddWarnings
  PROVE  SettingsInv'
  <1> USE DEF AfterProfile, AfterTiming, AfterDns, AfterTargets, AfterPorts, AfterNames,
              AfterScalars, AfterAll
  <1> DEFINE ours == {"profile", "services"}
  <1>1. CASE ValidateFiles
    <2>1. PICK refusal : Stage("validate", "scan", refusal, << >>, << >>) /\ UNCHANGED files
      BY <1>1 DEF ValidateFiles
    <2>2. ours \cap DOMAIN << >> = {}
      OBVIOUS
    <2> QED BY <2>1, <2>2, SilentStage
  <1>2. CASE CheckScanExists
    <2>1. PICK refusal : Stage("scan", "transport", refusal, << >>, << >>) /\ UNCHANGED files
      BY <1>2 DEF CheckScanExists
    <2>2. ours \cap DOMAIN << >> = {}
      OBVIOUS
    <2> QED BY <2>1, <2>2, SilentStage
  <1>3. CASE ResolveTargets
    <2>1. PICK refusal, a, b, c, d, e :
            Stage("targets", "ports", refusal,
                  [targets |-> a, pairs |-> b, include |-> c, exclude |-> d, resumed_from |-> e],
                  << >>) /\ UNCHANGED files
      BY <1>3 DEF ResolveTargets
    <2>2. ours \cap DOMAIN [targets |-> a, pairs |-> b, include |-> c, exclude |-> d,
                            resumed_from |-> e] = {}
      OBVIOUS
    <2> QED BY <2>1, <2>2, SilentStage
  <1>4. CASE ResolvePorts
    <2>1. PICK refusal, a, b :
            Stage("ports", "names", refusal, [ports |-> a, port_specs |-> b], << >>)
            /\ UNCHANGED files
      BY <1>4 DEF ResolvePorts
    <2>2. ours \cap DOMAIN [ports |-> a, port_specs |-> b] = {}
      OBVIOUS
    <2> QED BY <2>1, <2>2, SilentStage
  <1>5. CASE ResolvePairs
    <2>1. PICK refusal, a, b, c, d, e, f :
            Stage("pairs", "names", refusal,
                  [targets |-> a, ports |-> b, pairs |-> c, include |-> d, exclude |-> e,
                   resumed_from |-> f], << >>) /\ UNCHANGED files
      BY <1>5 DEF ResolvePairs
    <2>2. ours \cap DOMAIN [targets |-> a, ports |-> b, pairs |-> c, include |-> d,
                            exclude |-> e, resumed_from |-> f] = {}
      OBVIOUS
    <2> QED BY <2>1, <2>2, SilentStage
  <1>6. CASE ResolveNames
    <2>1. PICK refusal, a, b :
            Stage("names", "scalars", refusal, [targets |-> a, resolved |-> b], << >>)
            /\ UNCHANGED files
      BY <1>6 DEF ResolveNames
    <2>2. ours \cap DOMAIN [targets |-> a, resolved |-> b] = {}
      OBVIOUS
    <2> QED BY <2>1, <2>2, SilentStage
  <1>7. CASE AddWarnings
    <2> DEFINE to == IF request.test THEN "measure" ELSE "planned"
               resolved == [warnings |-> Warnings]
    <2>1. Stage("warnings", to, {}, resolved, << >>) /\ UNCHANGED files
      BY <1>7 DEF AddWarnings
    <2>2. ours \cap DOMAIN resolved = {} /\ to \in {"measure", "planned"}
      OBVIOUS
    <2> HIDE DEF to, resolved
    <2> QED BY <2>1, <2>2, SilentStage
  <1> QED BY <1>1, <1>2, <1>3, <1>4, <1>5, <1>6, <1>7

-----------------------------------------------------------------------------
(* A flag, and a field of the timing, as settings.                         *)
LEMMA AFlag ==
  ASSUME NEW k \in FlagKeys, NEW f
  PROVE  IsSetting(k, Flag(k, f))
  BY DEF IsSetting, SettingKeys, FlagKeys, TimingKeys

LEMMA AField ==
  ASSUME NEW k \in TimingKeys
  PROVE  IsSetting(k, Field(ProfileNow, BaseNow, k))
  BY DEF IsSetting, SettingKeys, FlagKeys, TimingKeys

(* The stages that resolve settings.                                       *)
LEMMA TransportSays == ASSUME SettingsInv, AdviceInv', ChooseTransport PROVE SettingsInv'
  <1>1. PICK refusal, r :
          Stage("transport", "profile", refusal, [transport |-> r],
                [transport |-> TransportName]) /\ UNCHANGED files
    BY DEF ChooseTransport
  <1> DEFINE origins == [transport |-> TransportName]
  <1>2. DOMAIN origins = {"transport"} /\ origins["transport"] = TransportName
    OBVIOUS
  <1> HIDE DEF origins
  <1>3. \A k \in DOMAIN origins : IsSetting(k, origins[k])
    BY <1>2 DEF IsSetting, SettingKeys, FlagKeys, TimingKeys
  <1>4. Adds("profile", [transport |-> r], origins)
    BY <1>3 DEF Adds, AfterProfile, AfterTiming, AfterDns, AfterTargets, AfterPorts, AfterNames,
                AfterScalars, AfterAll
  <1> QED BY <1>1, <1>4, StageSays DEF origins

LEMMA ProfileSays == ASSUME SettingsInv, AdviceInv', ChooseProfile PROVE SettingsInv'
  <1> DEFINE resolved == [profile |-> ProfileNow, base |-> BaseNow]
             origins == [profile |-> ProfileName(TransportNow)]
  <1>1. stage = "profile" /\ PlanAt("profile", plan)
    BY DEF ChooseProfile, Stage, SettingsInv, AdviceInv
  <1>2. plan.transport = TransportNow
    BY <1>1 DEF PlanAt, AfterTransport
  <1>3. Stage("profile", "timing", ProfileProblem(ProfileNow), resolved, origins)
        /\ UNCHANGED files
    BY <1>2 DEF ChooseProfile, ProfileNow, BaseNow
  <1>4. /\ "profile" \in DOMAIN resolved /\ resolved["profile"] = ProfileNow
        /\ DOMAIN origins = {"profile"} /\ origins["profile"] = ProfileName(TransportNow)
    OBVIOUS
  <1> HIDE DEF origins, resolved
  <1>5. \A k \in DOMAIN origins : IsSetting(k, origins[k])
    BY <1>4 DEF IsSetting, SettingKeys, FlagKeys, TimingKeys
  <1>6. Has(With(plan, resolved), "profile", ProfileNow)
    BY <1>4, HasAdded
  <1>7. Adds("timing", resolved, origins)
    BY <1>5, <1>6 DEF Adds, AfterScalars, AfterAll
  <1> QED BY <1>3, <1>7, StageSays

LEMMA TimingSays == ASSUME SettingsInv, AdviceInv', ResolveTiming PROVE SettingsInv'
  <1> DEFINE found == Timings(ProfileNow, BaseNow)
             origins == With(Flags, found)
  <1>1. stage = "timing" /\ PlanAt("timing", plan) /\ SettingsStandIn("timing", plan, prov)
    BY DEF ResolveTiming, Stage, SettingsInv, AdviceInv
  <1>2. plan.profile = ProfileNow /\ plan.base = BaseNow /\ Has(plan, "profile", ProfileNow)
    BY <1>1 DEF PlanAt, SettingsStandIn, AfterProfile
  <1>3. PICK refusal, x, y :
          Stage("timing", "dns", refusal, [timing |-> x, flags |-> y], origins)
          /\ UNCHANGED files
    BY <1>2 DEF ResolveTiming
  <1> DEFINE resolved == [timing |-> x, flags |-> y]
  <1>4. "profile" \notin DOMAIN resolved
    OBVIOUS
  <1>5. /\ DOMAIN found \subseteq TimingKeys
        /\ \A k \in DOMAIN found : found[k] = Field(ProfileNow, BaseNow, k)
    BY DEF Timings, TimingKeys
  <1>6. /\ DOMAIN Flags = {"banner", "tls", "tls_versions"}
        /\ Flags["banner"] = Flag("banner", TRUE)
        /\ Flags["tls"] = Flag("tls", FALSE)
        /\ Flags["tls_versions"] = Flag("tls_versions", FALSE)
    BY DEF Flags
  <1> HIDE DEF found, resolved
  <1>7. \A k \in DOMAIN found : IsSetting(k, found[k])
    BY <1>5, AField
  <1>8. \A k \in DOMAIN Flags : IsSetting(k, Flags[k])
    <2>1. IsSetting("banner", Flags["banner"]) /\ IsSetting("tls", Flags["tls"])
          /\ IsSetting("tls_versions", Flags["tls_versions"])
      BY <1>6, AFlag DEF FlagKeys
    <2> QED BY <1>6, <2>1
  <1>9. \A k \in DOMAIN origins : IsSetting(k, origins[k])
    BY <1>7, <1>8 DEF With
  <1> HIDE DEF origins
  <1>10. Has(With(plan, resolved), "profile", ProfileNow)
    BY <1>2, <1>4, HasKept
  <1>11. Adds("dns", resolved, origins)
    BY <1>9, <1>10 DEF Adds, AfterScalars, AfterAll
  <1> QED BY <1>3, <1>11, StageSays DEF resolved

LEMMA DnsSays == ASSUME SettingsInv, AdviceInv', ResolveDns PROVE SettingsInv'
  <1> DEFINE origins == [dns |-> DnsMode(TransportNow)]
             to == IF Key(cli, "pairs") = {} THEN "targets" ELSE "pairs"
  <1>1. stage = "dns" /\ PlanAt("dns", plan) /\ SettingsStandIn("dns", plan, prov)
    BY DEF ResolveDns, Stage, SettingsInv, AdviceInv
  <1>2. plan.transport = TransportNow /\ Has(plan, "profile", ProfileNow)
    BY <1>1 DEF PlanAt, SettingsStandIn, AfterTransport, AfterProfile, AfterTiming
  <1>3. PICK refusal, x, y :
          Stage("dns", to, refusal, [requested |-> x, dns |-> y], origins) /\ UNCHANGED files
    BY <1>2 DEF ResolveDns
  <1> DEFINE resolved == [requested |-> x, dns |-> y]
  <1>4. /\ "profile" \notin DOMAIN resolved
        /\ DOMAIN origins = {"dns"} /\ origins["dns"] = DnsMode(TransportNow)
    OBVIOUS
  <1>5. to \in {"targets", "pairs"}
    OBVIOUS
  <1> HIDE DEF resolved, origins, to
  <1>6. \A k \in DOMAIN origins : IsSetting(k, origins[k])
    BY <1>4 DEF IsSetting, SettingKeys, FlagKeys, TimingKeys
  <1>7. Has(With(plan, resolved), "profile", ProfileNow)
    BY <1>2, <1>4, HasKept
  <1>8. Adds(to, resolved, origins)
    BY <1>5, <1>6, <1>7 DEF Adds, AfterScalars, AfterAll
  <1> QED BY <1>3, <1>5, <1>8, StageSays DEF resolved

LEMMA ScalarsSay == ASSUME SettingsInv, AdviceInv', ResolveScalars PROVE SettingsInv'
  <1> DEFINE others == [output_dir |-> Flag("output_dir", "./scanr-results"), seed |-> Seed,
                        services_file |-> The(Or(ServicesFile, {Found("", "default", 0)})),
                        use_etc_services |-> UseEtcServices]
             origins == With(Toggles, others)
  <1>1. stage = "scalars" /\ SettingsStandIn("scalars", plan, prov)
    BY DEF ResolveScalars, Stage, SettingsInv, AdviceInv
  <1>2. Has(plan, "profile", ProfileNow)
    BY <1>1 DEF SettingsStandIn, AfterProfile, AfterTiming, AfterDns, AfterTargets, AfterPorts,
                AfterNames
  <1>3. PICK x :
          Stage("scalars", "warnings", ServicesProblem,
                [scalars |-> x, services |-> ServicesNow], origins) /\ UNCHANGED files
    BY DEF ResolveScalars, ServicesNow
  <1> DEFINE resolved == [scalars |-> x, services |-> ServicesNow]
  <1>4. /\ "profile" \notin DOMAIN resolved
        /\ "services" \in DOMAIN resolved /\ resolved["services"] = ServicesNow
    OBVIOUS
  <1>5. \A k \in DOMAIN others : IsSetting(k, others[k])
    <2>1. IsSetting("output_dir", others["output_dir"])
      BY AFlag DEF FlagKeys
    <2>2. IsSetting("seed", others["seed"])
      BY DEF IsSetting, SettingKeys, FlagKeys, TimingKeys
    <2>3. IsSetting("services_file", others["services_file"])
      BY DEF IsSetting, SettingKeys, FlagKeys, TimingKeys, NoLabelFile
    <2>4. IsSetting("use_etc_services", others["use_etc_services"])
      BY DEF IsSetting, SettingKeys, FlagKeys, TimingKeys
    <2>5. DOMAIN others = {"output_dir", "seed", "services_file", "use_etc_services"}
      OBVIOUS
    <2> HIDE DEF others
    <2> QED BY <2>1, <2>2, <2>3, <2>4, <2>5
  <1>6. \A k \in DOMAIN Toggles : IsSetting(k, Toggles[k])
    <2>1. /\ DOMAIN Toggles \subseteq FlagKeys
          /\ \A k \in DOMAIN Toggles : Toggles[k] = Flag(k, TRUE)
      BY DEF Toggles, FlagKeys
    <2> QED BY <2>1, AFlag
  <1> HIDE DEF others, resolved
  <1>7. \A k \in DOMAIN origins : IsSetting(k, origins[k])
    BY <1>5, <1>6 DEF With
  <1> HIDE DEF origins
  <1>8. Has(With(plan, resolved), "profile", ProfileNow)
        /\ Has(With(plan, resolved), "services", ServicesNow)
    BY <1>2, <1>4, HasKept, HasAdded
  <1>9. Adds("warnings", resolved, origins)
    BY <1>7, <1>8 DEF Adds
  <1> QED BY <1>3, <1>9, StageSays DEF resolved

(* Nothing is said before there are files, and all again once the advice   *)
(* is followed.                                                            *)
LEMMA NothingSaid ==
  ASSUME AdviceInv', stage' \in {"load", "validate", "refused"}, prov' = << >>
  PROVE  SettingsInv'
  <1>1. DOMAIN prov' = {}
    OBVIOUS
  <1> QED BY <1>1 DEF SettingsInv, SettingsStandIn, AfterAll, AfterScalars, AfterNames, AfterPorts,
                      AfterTargets, AfterDns, AfterTiming, AfterProfile

LEMMA TestsSay ==
  ASSUME SettingsInv, AdviceInv', Measure \/ Check \/ Conclude \/ CalibrateLevel
  PROVE  SettingsInv'
  <1>1. /\ UNCHANGED <<request, files, plan, prov>> /\ stage \in AfterAll
        /\ stage' \in AfterAll \union {"refused"}
    BY DEF Measure, Measurable, Check, Conclude, CalibrateLevel, AfterAll
  <1>2. IInv
    BY DEF SettingsInv, AdviceInv
  <1>3. PICK s, p, o : s = stage' /\ p = plan' /\ o = prov'
    OBVIOUS
  <1>4. SettingsStandIn(s, p, o)
    BY <1>1, <1>3
       DEF SettingsInv, SettingsStandIn, AfterProfile, AfterTiming, AfterDns, AfterTargets,
           AfterPorts, AfterNames, AfterScalars, AfterAll
  <1>5. SettingsStandIn(s, p, o)'
    BY <1>1, <1>2, <1>4, SaidUnmoved
  <1>6. SettingsStandIn(stage, plan, prov)'
    BY <1>3, <1>5
  <1> QED BY <1>6 DEF SettingsInv

LEMMA SettingsInit == Init => SettingsInv
  <1> SUFFICES ASSUME Init PROVE SettingsInv
    OBVIOUS
  <1>1. stage = "load" /\ prov = << >> /\ DOMAIN prov = {}
    BY DEF Init
  <1>2. SettingsStandIn(stage, plan, prov)
    BY <1>1 DEF SettingsStandIn, AfterAll, AfterScalars, AfterNames, AfterPorts,
                AfterTargets, AfterDns, AfterTiming, AfterProfile
  <1> QED BY <1>2, AdviceInit DEF SettingsInv

LEMMA SettingsNext == SettingsInv /\ [Next]_vars => SettingsInv'
  <1> SUFFICES ASSUME SettingsInv, [Next]_vars PROVE SettingsInv'
    OBVIOUS
  <1>1. AdviceInv'
    BY AdviceNext DEF SettingsInv
  <1>2. CASE UNCHANGED vars
    <2>1. UNCHANGED <<request, files, stage, plan, prov>> /\ IInv
      BY <1>2 DEF vars, SettingsInv, AdviceInv
    <2>2. PICK s, p, o : s = stage' /\ p = plan' /\ o = prov'
      OBVIOUS
    <2>3. SettingsStandIn(s, p, o)
      BY <2>1, <2>2 DEF SettingsInv
    <2>4. SettingsStandIn(s, p, o)'
      BY <2>1, <2>3, SaidUnmoved
    <2>5. SettingsStandIn(stage, plan, prov)'
      BY <2>2, <2>4
    <2> QED BY <1>1, <2>5 DEF SettingsInv
  <1>3. CASE ValidateFiles \/ CheckScanExists \/ ResolveTargets \/ ResolvePorts \/ ResolvePairs
               \/ ResolveNames \/ AddWarnings
    BY <1>1, <1>3, SilentStages
  <1>4. CASE ChooseTransport \/ ChooseProfile \/ ResolveTiming \/ ResolveDns \/ ResolveScalars
    BY <1>1, <1>4, TransportSays, ProfileSays, TimingSays, DnsSays, ScalarsSay
  <1>5. CASE Measure \/ Check \/ Conclude \/ CalibrateLevel
    BY <1>1, <1>5, TestsSay
  <1>6. CASE Load \/ FollowAdvice
    <2>1. stage' \in {"validate", "refused"} /\ prov' = << >>
      <3>1. CASE Load
        BY <3>1 DEF Load, SettingsInv, SettingsStandIn
      <3>2. CASE FollowAdvice
        BY <3>2 DEF FollowAdvice
      <3> QED BY <1>6, <3>1, <3>2
    <2> QED BY <1>1, <2>1, NothingSaid
  <1> QED BY <1>2, <1>3, <1>4, <1>5, <1>6 DEF Next, Over

-----------------------------------------------------------------------------
(* Labels.                                                                 *)

(* The lines of a file that label a port, and the first of them for it.    *)
LabelLines(lines) == {k \in DOMAIN lines : IsLabel(lines[k])}
LabelPorts(lines) == {lines[k].port : k \in LabelLines(lines)}
FirstFor(lines, p) == Min({k \in LabelLines(lines) : lines[k].port = p})

LEMMA FirstForIs ==
  ASSUME NEW n \in Nat, NEW lines, DOMAIN lines = 1 .. n, NEW p \in LabelPorts(lines)
  PROVE  /\ FirstFor(lines, p) \in LabelLines(lines)
         /\ lines[FirstFor(lines, p)].port = p
         /\ \A j \in LabelLines(lines) : lines[j].port = p => FirstFor(lines, p) <= j
  <1> DEFINE K == {k \in LabelLines(lines) : lines[k].port = p}
  <1>1. K \in SUBSET (1 .. n) /\ K # {}
    BY DEF LabelLines, LabelPorts
  <1>2. K \in SUBSET Nat
    BY <1>1
  <1>3. PICK m \in K : \A y \in K : m <= y
    BY <1>1, <1>2, LeastIsIn
  <1>4. Min(K) = m
    <2>1. K \in SUBSET Int
      BY <1>1
    <2> HIDE DEF K
    <2> QED BY <1>3, <2>1, LowestIs
  <1>5. FirstFor(lines, p) = m
    BY <1>4 DEF FirstFor
  <1> QED BY <1>3, <1>5

(* What a file claims.                                                     *)
LEMMA ClaimsAre ==
  ASSUME NEW lines
  PROVE  /\ Labelled(Claims(lines)) = LabelPorts(lines)
         /\ \A p \in LabelPorts(lines) :
              [port |-> p, name |-> lines[FirstFor(lines, p)].name] \in Claims(lines)
  <1> DEFINE claim(p) == [port |-> p, name |-> lines[FirstFor(lines, p)].name]
  <1>1. Claims(lines) = {claim(p) : p \in LabelPorts(lines)}
    BY DEF Claims, LabelPorts, LabelLines, FirstFor
  <1>2. \A p : claim(p).port = p
    OBVIOUS
  <1>3. \A p \in LabelPorts(lines) : claim(p) \in Claims(lines)
    BY <1>1
  <1>4. Labelled(Claims(lines)) = LabelPorts(lines)
    <2> HIDE DEF claim
    <2> QED BY <1>1, <1>2 DEF Labelled
  <1> QED BY <1>3, <1>4

(* The lines absorb takes: the first for each port no layer has claimed.   *)
NewLines(table, lines) ==
  {k \in DOMAIN lines :
     /\ IsLabel(lines[k]) /\ lines[k].port \notin DOMAIN table.learned
     /\ \A j \in 1 .. (k - 1) : IsLabel(lines[j]) => lines[j].port # lines[k].port}

LEMMA TakenLines ==
  ASSUME NEW n \in Nat, NEW lines, DOMAIN lines = 1 .. n, NEW table
  PROVE  \A k : k \in NewLines(table, lines) <=>
           \E p \in LabelPorts(lines) \ DOMAIN table.learned : k = FirstFor(lines, p)
  <1>1. ASSUME NEW k \in NewLines(table, lines)
        PROVE  \E p \in LabelPorts(lines) \ DOMAIN table.learned : k = FirstFor(lines, p)
    <2>1. /\ k \in 1 .. n /\ IsLabel(lines[k]) /\ lines[k].port \notin DOMAIN table.learned
          /\ \A j \in 1 .. (k - 1) : IsLabel(lines[j]) => lines[j].port # lines[k].port
      BY DEF NewLines
    <2>2. PICK p : p = lines[k].port
      OBVIOUS
    <2>3. k \in LabelLines(lines) /\ p \in LabelPorts(lines) \ DOMAIN table.learned
      BY <2>1, <2>2 DEF LabelLines, LabelPorts
    <2>4. PICK f : f = FirstFor(lines, p)
      OBVIOUS
    <2>5. f \in LabelLines(lines) /\ lines[f].port = p /\ f <= k
      BY <2>2, <2>3, <2>4, FirstForIs
    <2>6. f \in 1 .. n /\ IsLabel(lines[f])
      BY <2>5 DEF LabelLines
    <2>7. ~ f \in 1 .. (k - 1)
      BY <2>1, <2>2, <2>5, <2>6
    <2>8. f = k
      BY <2>1, <2>5, <2>6, <2>7
    <2> QED BY <2>3, <2>4, <2>8
  <1>2. ASSUME NEW p \in LabelPorts(lines) \ DOMAIN table.learned
        PROVE  FirstFor(lines, p) \in NewLines(table, lines)
    <2>1. PICK f : f = FirstFor(lines, p)
      OBVIOUS
    <2>2. /\ f \in LabelLines(lines) /\ lines[f].port = p
          /\ \A j \in LabelLines(lines) : lines[j].port = p => f <= j
      BY <2>1, FirstForIs
    <2>3. f \in 1 .. n /\ IsLabel(lines[f])
      BY <2>2 DEF LabelLines
    <2>4. ASSUME NEW j \in 1 .. (f - 1), IsLabel(lines[j]) PROVE lines[j].port # p
      <3>1. j \in 1 .. n /\ ~ (f <= j)
        BY <2>3
      <3> QED BY <2>2, <2>4, <3>1 DEF LabelLines
    <2> QED BY <2>1, <2>2, <2>3, <2>4 DEF NewLines
  <1> QED BY <1>1, <1>2

(* What absorbing a file does to a label table.                            *)
Absorbed(table, t, layer, claims) ==
  LET own == Labelled(claims) \ DOMAIN table.learned
  IN  /\ DOMAIN t.learned = DOMAIN table.learned \union Labelled(claims)
      /\ \A p \in DOMAIN table.learned : t.learned[p] = table.learned[p]
      /\ \A p \in own : [port |-> p, name |-> t.learned[p]] \in claims
      /\ \E m : t.layers = Append(table.layers, [layer |-> layer, entries |-> Cardinality(own),
                                                 malformed |-> m])

LEMMA AbsorbingIs ==
  ASSUME NEW n \in Nat, NEW lines, DOMAIN lines = 1 .. n, NEW table, NEW layer
  PROVE  Absorbed(table, AbsorbServices(table, layer, lines), layer, Claims(lines))
  <1> DEFINE K == NewLines(table, lines)
             ports == {lines[k].port : k \in K}
             first(p) == CHOOSE k \in K : lines[k].port = p
             learned == [p \in DOMAIN table.learned \union ports |->
                           IF p \in ports THEN lines[first(p)].name ELSE table.learned[p]]
             own == LabelPorts(lines) \ DOMAIN table.learned
             malformed == Len(SelectSeq(lines, IsSkipped))
             t == AbsorbServices(table, layer, lines)
  <1>1. t.learned = learned
        /\ t.layers = Append(table.layers, [layer |-> layer, entries |-> Cardinality(K),
                                            malformed |-> malformed])
    BY DEF AbsorbServices, NewLines
  <1>2. \A k : k \in K <=> \E p \in own : k = FirstFor(lines, p)
    BY TakenLines
  <1>3. \A p \in own : lines[FirstFor(lines, p)].port = p
    BY FirstForIs
  <1> HIDE DEF K, malformed, t
  <1>4. ports = own
    BY <1>2, <1>3
  <1>5. \A p \in own : first(p) = FirstFor(lines, p)
    <2>1. TAKE p \in own
    <2>2. FirstFor(lines, p) \in K /\ lines[FirstFor(lines, p)].port = p
      BY <1>2, <1>3
    <2>3. \A k \in K : lines[k].port = p => k = FirstFor(lines, p)
      BY <1>2, <1>3
    <2> QED BY <2>2, <2>3
  <1>6. Cardinality(K) = Cardinality(own)
    <2> DEFINE f == [k \in K |-> lines[k].port]
    <2>1. f \in [K -> own]
      BY <1>4
    <2>2. \A j, k \in K : f[j] = f[k] => j = k
      BY <1>2, <1>3
    <2>3. \A p \in own : \E k \in K : f[k] = p
      BY <1>4
    <2>4. IsFiniteSet(K)
      <3>1. K \in SUBSET (1 .. n)
        BY DEF K, NewLines
      <3>2. IsFiniteSet(1 .. n)
        BY FS_Interval
      <3> QED BY <3>1, <3>2, FS_Subset
    <2> HIDE DEF f, own
    <2>5. f \in Bijection(K, own)
      <3>1. f \in Injection(K, own)
        BY <2>1, <2>2 DEF Injection, IsInjective
      <3>2. f \in Surjection(K, own)
        BY <2>1, <2>3 DEF Surjection
      <3> QED BY <3>1, <3>2 DEF Bijection
    <2> QED BY <2>4, <2>5, FS_Bijection DEF ExistsBijection
  <1>7. Labelled(Claims(lines)) = LabelPorts(lines)
    BY ClaimsAre
  <1>8. DOMAIN learned = DOMAIN table.learned \union LabelPorts(lines)
    BY <1>4
  <1>9. \A p \in DOMAIN table.learned : learned[p] = table.learned[p]
    BY <1>4
  <1>10. \A p \in own : [port |-> p, name |-> learned[p]] \in Claims(lines)
    <2>1. TAKE p \in own
    <2>2. learned[p] = lines[FirstFor(lines, p)].name
      BY <1>4, <1>5
    <2> HIDE DEF learned
    <2> QED BY <2>2, ClaimsAre
  <1> HIDE DEF learned
  <1> QED BY <1>1, <1>6, <1>7, <1>8, <1>9, <1>10 DEF Absorbed, t

-----------------------------------------------------------------------------
OfFile == UNION {Claims(s.value.lines) : s \in ServicesFile}
OfHost ==
  IF UseEtcServices.value THEN UNION {Claims(lines) : lines \in EtcServices} ELSE {}
OfTable == {[port |-> p, name |-> BuiltinServices[p]] : p \in DOMAIN BuiltinServices}

LEMMA LayersAre == LabelLayers = <<OfFile, OfHost, OfTable>>
  BY DEF LabelLayers, OfFile, OfHost, OfTable

LEMMA LinesOfList ==
  ASSUME NEW lines, IsList(lines)
  PROVE  \E n \in Nat : DOMAIN lines = 1 .. n
  <1>1. lines \in Seq(ToSet(lines))
    BY DEF IsList
  <1> QED BY <1>1

(* The label file is one file of a document, or none.                      *)
LEMMA LabelFileIs ==
  ASSUME IInv
  PROVE  ServicesFile = {} \/ \E s : ServicesFile = {s} /\ IsList(s.value.lines)
  <1> DEFINE k == "services_file"
             n == Len(files)
             g == DefaultPlaces(k)
  <1>1. n \in Nat /\ Options(g, n) /\ InDefaults(files, k) = PickOf(g)
    BY PlacesOfDefaults
  <1>2. \A i \in 1 .. n : g[i] = Key(files[i].defaults, "services_file")
    BY <1>1 DEF DefaultPlaces, Options
  <1>3. DOMAIN files = 1 .. n
    BY <1>1 DEF DefaultPlaces, Options
  <1> HIDE DEF g, n
  <1>4. CASE PickOf(g) = {}
    <2>1. ServicesFile = {}
      BY <1>1, <1>4 DEF ServicesFile, FromFile
    <2> QED BY <2>1
  <1>5. CASE PickOf(g) # {}
    <2>1. PICK m, p : PickOf(g) = {p} /\ TakenFrom(g, n, m, p)
      BY <1>1, <1>5, PickOfIs
    <2>2. m \in 1 .. n /\ g[m] = {p.value}
      BY <2>1 DEF TakenFrom
    <2>3. p.value \in Key(files[m].defaults, "services_file")
      BY <1>2, <2>2
    <2>4. IsDocument(files[m])
      BY <1>3, <2>2 DEF IInv, GoodFiles
    <2>5. IsList(p.value.lines)
      BY <2>3, <2>4 DEF IsDocument, IsDefaults
    <2>6. ServicesFile = {Found(p.value, "defaults", p.layer)}
      BY <1>1, <2>1 DEF ServicesFile, FromFile
    <2>7. Found(p.value, "defaults", p.layer).value = p.value
      BY DEF Found
    <2> QED BY <2>5, <2>6, <2>7
  <1> QED BY <1>4, <1>5

(* The label table once the configured file is read.                       *)
FileRead(t) ==
  /\ DOMAIN t.learned = Labelled(OfFile)
  /\ \A p \in Labelled(OfFile) : [port |-> p, name |-> t.learned[p]] \in OfFile
  /\ \/ t.layers = << >> /\ OfFile = {}
     \/ \E m : t.layers = <<[layer |-> "configured", entries |-> Cardinality(Labelled(OfFile)),
                             malformed |-> m]>>
HostHas == UseEtcServices.value /\ EtcServices # {}
HostLines == CHOOSE lines \in EtcServices : TRUE

LEMMA FileLayer ==
  ASSUME IInv
  PROVE  \E t : /\ FileRead(t)
                /\ ServicesNow = IF HostHas THEN AbsorbServices(t, "etc", HostLines) ELSE t
  <1> DEFINE configured == IF ServicesFile = {} THEN << >> ELSE <<The(ServicesFile).value.lines>>
             t == IF configured = << >> THEN NoServices
                  ELSE AbsorbServices(NoServices, "configured", configured[1])
  <1>1. ServicesNow = IF HostHas THEN AbsorbServices(t, "etc", HostLines) ELSE t
    BY DEF ServicesNow, ServiceTable, HostHas, HostLines
  <1>2. CASE ServicesFile = {}
    <2>1. t = NoServices
      BY <1>2
    <2>2. OfFile = {} /\ Labelled(OfFile) = {}
      BY <1>2 DEF OfFile, Labelled
    <2>3. NoServices.learned = << >> /\ DOMAIN NoServices.learned = {}
          /\ NoServices.layers = << >>
      BY DEF NoServices
    <2> HIDE DEF t
    <2>4. FileRead(t)
      BY <2>1, <2>2, <2>3 DEF FileRead
    <2> QED BY <1>1, <2>4
  <1>3. CASE ServicesFile # {}
    <2>1. PICK s : ServicesFile = {s} /\ IsList(s.value.lines)
      BY <1>3, LabelFileIs
    <2>2. PICK lines : lines = s.value.lines
      OBVIOUS
    <2>3. The(ServicesFile) = s
      <3>1. The(ServicesFile) \in {s}
        BY <1>3, <2>1, TheMember
      <3> QED BY <3>1
    <2>4. configured = <<lines>> /\ configured # << >> /\ configured[1] = lines
      BY <1>3, <2>2, <2>3
    <2> HIDE DEF configured
    <2>5. t = AbsorbServices(NoServices, "configured", lines)
      BY <2>4
    <2>6. PICK n \in Nat : DOMAIN lines = 1 .. n
      BY <2>1, <2>2, LinesOfList
    <2>7. Absorbed(NoServices, t, "configured", Claims(lines))
      BY <2>5, <2>6, AbsorbingIs
    <2>8. OfFile = Claims(lines)
      BY <2>1, <2>2 DEF OfFile
    <2>9. DOMAIN NoServices.learned = {} /\ NoServices.layers = << >>
      BY DEF NoServices
    <2> HIDE DEF t
    <2>10. Labelled(OfFile) \ DOMAIN NoServices.learned = Labelled(OfFile)
      BY <2>9
    <2>11. PICK m :
             t.layers = Append(<< >>, [layer |-> "configured",
                                       entries |-> Cardinality(Labelled(OfFile)), malformed |-> m])
      BY <2>7, <2>8, <2>9, <2>10 DEF Absorbed
    <2>12. t.layers = <<[layer |-> "configured", entries |-> Cardinality(Labelled(OfFile)),
                         malformed |-> m]>>
      <3> DEFINE r == [layer |-> "configured", entries |-> Cardinality(Labelled(OfFile)),
                       malformed |-> m]
      <3>1. \A x : Append(<< >>, x) = <<x>>
        OBVIOUS
      <3> HIDE DEF r
      <3>2. t.layers = Append(<< >>, r)
        BY <2>11 DEF r
      <3>3. t.layers = <<r>>
        BY <3>1, <3>2
      <3> QED BY <3>3 DEF r
    <2>13. FileRead(t)
      BY <2>7, <2>8, <2>9, <2>10, <2>12 DEF Absorbed, FileRead
    <2> QED BY <1>1, <2>13
  <1> QED BY <1>2, <1>3

-----------------------------------------------------------------------------
LEMMA CountsOnce ==
  ASSUME NEW layers, NEW name, NEW own, NEW j \in DOMAIN layers, layers[j].layer = name,
         \A k \in DOMAIN layers : layers[k].layer = name => k = j,
         layers[j].entries = Cardinality(own)
  PROVE  CountsOwn(layers, name, own)
  BY DEF CountsOwn

LEMMA CountsNone ==
  ASSUME NEW layers, NEW name, \A k \in DOMAIN layers : layers[k].layer # name
  PROVE  CountsOwn(layers, name, {})
  BY DEF CountsOwn

(* The label table as a whole.                                             *)
TableStands(t) ==
  /\ DOMAIN t.learned = Labelled(OfFile) \union Labelled(OfHost)
  /\ \A p \in Labelled(OfFile) : [port |-> p, name |-> t.learned[p]] \in OfFile
  /\ \A p \in Labelled(OfHost) \ Labelled(OfFile) :
       [port |-> p, name |-> t.learned[p]] \in OfHost
  /\ CountsOwn(t.layers, "configured", Labelled(OfFile))
  /\ CountsOwn(t.layers, "etc", Labelled(OfHost) \ Labelled(OfFile))

ARow(row, layer, own) == row.layer = layer /\ row.entries = Cardinality(own)
LEMMA Rows ==
  ASSUME NEW layer, NEW own, NEW m
  PROVE  ARow([layer |-> layer, entries |-> Cardinality(own), malformed |-> m], layer, own)
  BY DEF ARow

LEMMA TableStandsNow == ASSUME IInv PROVE TableStands(ServicesNow)
  <1>1. PICK f : /\ FileRead(f)
                 /\ ServicesNow = IF HostHas THEN AbsorbServices(f, "etc", HostLines) ELSE f
    BY FileLayer
  <1>2. PICK t : t = ServicesNow
    OBVIOUS
  <1>3. PICK own : own = Labelled(OfHost) \ Labelled(OfFile)
    OBVIOUS
  <1>4. \/ f.layers = << >> /\ OfFile = {} /\ Labelled(OfFile) = {}
        \/ \E r : f.layers = <<r>> /\ ARow(r, "configured", Labelled(OfFile))
    BY <1>1, Rows DEF FileRead, Labelled
  <1>5. CASE ~HostHas
    <2>1. OfHost = {} /\ Labelled(OfHost) = {} /\ own = {}
      BY <1>3, <1>5 DEF OfHost, HostHas, Labelled
    <2>2. t = f
      BY <1>1, <1>2, <1>5
    <2>3. CountsOwn(f.layers, "configured", Labelled(OfFile)) /\ CountsOwn(f.layers, "etc", {})
      <3>1. CASE f.layers = << >> /\ Labelled(OfFile) = {}
        <4>1. DOMAIN f.layers = {}
          BY <3>1
        <4> QED BY <3>1, <4>1, CountsNone
      <3>2. ASSUME NEW r, f.layers = <<r>>, ARow(r, "configured", Labelled(OfFile))
            PROVE  CountsOwn(f.layers, "configured", Labelled(OfFile))
                   /\ CountsOwn(f.layers, "etc", {})
        <4>1. PICK layers : layers = f.layers
          OBVIOUS
        <4>2. DOMAIN layers = {1} /\ layers[1] = r
          BY <3>2, <4>1
        <4>3. r.layer = "configured" /\ r.entries = Cardinality(Labelled(OfFile))
          BY <3>2 DEF ARow
        <4>4. CountsOwn(layers, "configured", Labelled(OfFile))
          BY <4>2, <4>3, CountsOnce
        <4>5. CountsOwn(layers, "etc", {})
          BY <4>2, <4>3, CountsNone
        <4> QED BY <4>1, <4>4, <4>5
      <3> QED BY <1>4, <3>1, <3>2
    <2> QED BY <1>1, <1>2, <1>3, <2>1, <2>2, <2>3 DEF TableStands, FileRead
  <1>6. CASE HostHas
    <2>1. PICK lines : EtcServices = {lines} /\ IsList(lines)
      BY <1>6, PlanningAssumption DEF HostHas, IsOption
    <2>2. HostLines = lines
      BY <2>1 DEF HostLines
    <2>3. OfHost = Claims(lines)
      BY <1>6, <2>1 DEF OfHost, HostHas
    <2>4. t = AbsorbServices(f, "etc", lines)
      BY <1>1, <1>2, <1>6, <2>2
    <2>5. PICK n \in Nat : DOMAIN lines = 1 .. n
      BY <2>1, LinesOfList
    <2>6. Absorbed(f, t, "etc", OfHost)
      BY <2>3, <2>4, <2>5, AbsorbingIs
    <2>7. DOMAIN f.learned = Labelled(OfFile)
      BY <1>1 DEF FileRead
    <2>8. /\ DOMAIN t.learned = Labelled(OfFile) \union Labelled(OfHost)
          /\ \A p \in Labelled(OfFile) : t.learned[p] = f.learned[p]
          /\ \A p \in own : [port |-> p, name |-> t.learned[p]] \in OfHost
      BY <1>3, <2>6, <2>7 DEF Absorbed
    <2>9. PICK last : t.layers = Append(f.layers, last) /\ ARow(last, "etc", own)
      BY <1>3, <2>6, <2>7, Rows DEF Absorbed
    <2>10. last.layer = "etc" /\ last.entries = Cardinality(own)
      BY <2>9 DEF ARow
    <2>11. CountsOwn(t.layers, "configured", Labelled(OfFile)) /\ CountsOwn(t.layers, "etc", own)
      <3>0. PICK layers : layers = t.layers
        OBVIOUS
      <3>1. CASE f.layers = << >> /\ Labelled(OfFile) = {}
        <4>1. layers = <<last>>
          BY <2>9, <3>0, <3>1
        <4>2. DOMAIN layers = {1} /\ layers[1] = last
          BY <4>1
        <4>3. CountsOwn(layers, "configured", {})
          BY <2>10, <4>2, CountsNone
        <4>4. CountsOwn(layers, "etc", own)
          BY <2>10, <4>2, CountsOnce
        <4> QED BY <3>0, <3>1, <4>3, <4>4
      <3>2. ASSUME NEW r, f.layers = <<r>>, ARow(r, "configured", Labelled(OfFile))
            PROVE  CountsOwn(t.layers, "configured", Labelled(OfFile))
                   /\ CountsOwn(t.layers, "etc", own)
        <4>1. PICK one : one = <<r>>
          OBVIOUS
        <4>2. DOMAIN layers = {1, 2} /\ layers[1] = r /\ layers[2] = last
          <5>1. one \in Seq({r}) /\ Len(one) = 1 /\ one[1] = r
            BY <4>1
          <5>2. layers = Append(one, last)
            BY <2>9, <3>0, <3>2, <4>1
          <5>3. PICK S : one \in Seq(S) /\ last \in S
            <6>1. one \in Seq({r, last})
              BY <5>1
            <6> QED BY <6>1
          <5>4. /\ layers \in Seq(S) /\ Len(layers) = Len(one) + 1
                /\ \A i \in 1 .. Len(one) : layers[i] = one[i]
                /\ layers[Len(one) + 1] = last
            <6>1. PICK list : list = Append(one, last)
              OBVIOUS
            <6>2. /\ list \in Seq(S) /\ Len(list) = Len(one) + 1
                  /\ \A i \in 1 .. Len(one) : list[i] = one[i]
                  /\ list[Len(one) + 1] = last
              BY <5>3, <6>1, AppendProperties
            <6> QED BY <5>2, <6>1, <6>2
          <5>5. DOMAIN layers = 1 .. 2 /\ layers[1] = one[1] /\ layers[2] = last
            BY <5>1, <5>4
          <5> QED BY <5>1, <5>5
        <4>3. r.layer = "configured" /\ r.entries = Cardinality(Labelled(OfFile))
          BY <3>2 DEF ARow
        <4>4. CountsOwn(layers, "configured", Labelled(OfFile))
          BY <2>10, <4>2, <4>3, CountsOnce
        <4>5. CountsOwn(layers, "etc", own)
          BY <2>10, <4>2, <4>3, CountsOnce
        <4> QED BY <3>0, <4>4, <4>5
      <3> QED BY <1>4, <3>1, <3>2
    <2>12. \A p \in Labelled(OfFile) : [port |-> p, name |-> t.learned[p]] \in OfFile
      BY <1>1, <2>8 DEF FileRead
    <2> QED BY <1>2, <1>3, <2>8, <2>11, <2>12 DEF TableStands
  <1> QED BY <1>5, <1>6

(* The ports each layer labels.                                            *)
LEMMA LabelledByIs ==
  /\ LabelledBy(1) = Labelled(OfFile)
  /\ LabelledBy(2) = Labelled(OfHost) \ Labelled(OfFile)
  /\ LabelledBy(3) = DOMAIN BuiltinServices \ (Labelled(OfFile) \union Labelled(OfHost))
  <1>1. PICK a, b, c : a = OfFile /\ b = OfHost /\ c = OfTable
    OBVIOUS
  <1>2. LabelLayers[1] = a /\ LabelLayers[2] = b /\ LabelLayers[3] = c
    BY <1>1, LayersAre
  <1>3. 1 .. (1 - 1) = {} /\ 1 .. (2 - 1) = {1} /\ 1 .. (3 - 1) = {1, 2}
    OBVIOUS
  <1>4. LabelledBy(1) = Labelled(a) \ UNION {Labelled(LabelLayers[k]) : k \in {}}
    BY <1>2, <1>3 DEF LabelledBy
  <1>5. LabelledBy(2) = Labelled(b) \ UNION {Labelled(LabelLayers[k]) : k \in {1}}
    BY <1>2, <1>3 DEF LabelledBy
  <1>6. LabelledBy(3) = Labelled(c) \ UNION {Labelled(LabelLayers[k]) : k \in {1, 2}}
    BY <1>2, <1>3 DEF LabelledBy
  <1>7. Labelled(c) = DOMAIN BuiltinServices
    <2> DEFINE entry(p) == [port |-> p, name |-> BuiltinServices[p]]
    <2>1. c = {entry(p) : p \in DOMAIN BuiltinServices}
      BY <1>1 DEF OfTable
    <2>2. \A p : entry(p).port = p
      OBVIOUS
    <2> HIDE DEF entry
    <2> QED BY <2>1, <2>2 DEF Labelled
  <1> QED BY <1>1, <1>2, <1>4, <1>5, <1>6, <1>7

LEMMA LabelsStand ==
  ASSUME IInv, plan.services = ServicesNow
  PROVE  LabelsAreTheHighest
  <1>1. PICK t : t = ServicesNow /\ t = plan.services
    OBVIOUS
  <1>2. TableStands(t)
    BY <1>1, TableStandsNow
  <1>3. LabelLayers[1] = OfFile /\ LabelLayers[2] = OfHost /\ LabelLayers[3] = OfTable
        /\ DOMAIN LabelLayers = {1, 2, 3}
    <2>1. PICK a, b, c : a = OfFile /\ b = OfHost /\ c = OfTable
      OBVIOUS
    <2>2. LabelLayers = <<a, b, c>>
      BY <2>1, LayersAre
    <2> QED BY <2>1, <2>2
  <1>4. ASSUME NEW p \in LabelledBy(1)
        PROVE  [port |-> p, name |-> LookupService(t, p)] \in OfFile
    <2>1. p \in Labelled(OfFile)
      BY LabelledByIs
    <2>2. LookupService(t, p) = t.learned[p]
      BY <1>2, <2>1 DEF LookupService, TableStands
    <2> QED BY <1>2, <2>1, <2>2 DEF TableStands
  <1>5. ASSUME NEW p \in LabelledBy(2)
        PROVE  [port |-> p, name |-> LookupService(t, p)] \in OfHost
    <2>1. p \in Labelled(OfHost) \ Labelled(OfFile)
      BY LabelledByIs
    <2>2. LookupService(t, p) = t.learned[p]
      BY <1>2, <2>1 DEF LookupService, TableStands
    <2> QED BY <1>2, <2>1, <2>2 DEF TableStands
  <1>6. ASSUME NEW p \in LabelledBy(3)
        PROVE  [port |-> p, name |-> LookupService(t, p)] \in OfTable
    <2>1. p \in DOMAIN BuiltinServices /\ p \notin DOMAIN t.learned
      BY <1>2, LabelledByIs DEF TableStands
    <2>2. LookupService(t, p) = BuiltinServices[p]
      BY <2>1 DEF LookupService
    <2> QED BY <2>1, <2>2 DEF OfTable
  <1>7. CountsOwn(t.layers, "configured", LabelledBy(1))
        /\ CountsOwn(t.layers, "etc", LabelledBy(2))
    BY <1>2, LabelledByIs DEF TableStands
  <1>8. BuiltinContribution(t) = Cardinality(LabelledBy(3))
    <2>1. DOMAIN BuiltinServices \ DOMAIN t.learned = LabelledBy(3)
      BY <1>2, LabelledByIs DEF TableStands
    <2> QED BY <2>1 DEF BuiltinContribution
  <1>9. \A j \in DOMAIN LabelLayers : \A p \in LabelledBy(j) :
          [port |-> p, name |-> LookupService(t, p)] \in LabelLayers[j]
    BY <1>3, <1>4, <1>5, <1>6
  <1> QED BY <1>1, <1>7, <1>8, <1>9 DEF LabelsAreTheHighest

(* Every setting of a plan is the one of the highest place that has it,    *)
(* whatever files and options there are, and its origin names the file it  *)
(* was read from; and every label is that of the highest layer that has    *)
(* the port, which the record counts (resolve and its pick_name,           *)
(* resolve_flag, timing_source, resolve_dns; ServiceTable::resolve).       *)
THEOREM HighestPlaceWins == Spec => []HighestRungWins
  <1>1. SettingsInv => HighestRungWins
    <2> SUFFICES ASSUME SettingsInv, Planned
                 PROVE  /\ LabelsAreTheHighest
                        /\ \A k \in DOMAIN prov : Wins(Rungs(k), Len(files), prov[k])
      BY DEF HighestRungWins, Wins
    <2>1. SettingsStandIn("planned", plan, prov) /\ PlanAt("planned", plan) /\ IInv
      BY DEF SettingsInv, AdviceInv, Planned
    <2>2. plan.transport = TransportNow
      BY <2>1 DEF PlanAt, AfterAll, AfterScalars, AfterNames, AfterPorts, AfterTargets, AfterDns,
                  AfterTiming, AfterProfile, AfterTransport
    <2>3. plan.profile = ProfileNow /\ plan.services = ServicesNow
      BY <2>1 DEF SettingsStandIn, Has, AfterAll, AfterScalars, AfterNames, AfterPorts,
                  AfterTargets, AfterDns, AfterTiming, AfterProfile
    <2>4. \A k \in DOMAIN prov : IsSetting(k, prov[k])
      BY <2>1 DEF SettingsStandIn
    <2>5. ASSUME NEW k \in DOMAIN prov PROVE Wins(Rungs(k), Len(files), prov[k])
      <3>1. PICK s : s = prov[k]
        OBVIOUS
      <3>2. IsSetting(k, s)
        BY <2>4, <3>1
      <3> QED BY <2>1, <2>2, <2>3, <3>1, <3>2, SettingWins
    <2> QED BY <2>1, <2>3, <2>5, LabelsStand
  <1> QED BY <1>1, SettingsInit, SettingsNext, PTL DEF Spec

=============================================================================
