--------------------------- MODULE SignalsProofs ---------------------------
(***************************************************************************)
(* Proofs about Signals, for any finite set of signals: no counted signal  *)
(* is lost, and the flag implements StopFlag.                              *)
(***************************************************************************)
EXTENDS Signals, FiniteSetTheorems, TLAPS

(* A handler that is about to exchange has seen fewer than two.            *)
SeenIsLow == \A h \in Handlers : pc[h] = "exchange" => seen[h] < 2

(* The count is of handlers that have returned: none counts and goes on.   *)
CountIsOfReturned ==
  /\ count <= Cardinality(Returned)
  /\ Smaller(2, Cardinality(Returned)) <= count

Inv == TypeOK /\ SeenIsLow /\ CountIsOfReturned

-----------------------------------------------------------------------------
(* Sets of handlers.                                                       *)

(* Both sets a count is compared with are finite.                          *)
LEMMA HandlersAreFinite ==
  /\ IsFiniteSet(Returned) /\ IsFiniteSet(Arrived)
  /\ Cardinality(Returned) \in Nat /\ Cardinality(Arrived) \in Nat
  /\ Cardinality(Returned) <= Cardinality(Arrived)
<1>1. Returned \subseteq Arrived /\ Arrived \subseteq Handlers
  BY DEF Returned, Arrived
<1>2. IsFiniteSet(Arrived)
  BY <1>1, HandlersAssumption, FS_Subset
<1>3. IsFiniteSet(Returned) /\ Cardinality(Returned) <= Cardinality(Arrived)
  BY <1>1, <1>2, FS_Subset
<1>4. Cardinality(Returned) \in Nat /\ Cardinality(Arrived) \in Nat
  BY <1>2, <1>3, FS_CardinalityType
<1> QED
  BY <1>2, <1>3, <1>4

(* A handler that returns is one more that has.                            *)
LEMMA ReturnAddsOne ==
  ASSUME NEW h \in Handlers, pc \in [Handlers -> {"idle", "exchange", "done"}],
         pc[h] # "done", pc' = [pc EXCEPT ![h] = "done"]
  PROVE  /\ Cardinality(Returned') = Cardinality(Returned) + 1
         /\ Cardinality(Returned) \in Nat
<1>1. Returned' = Returned \union {h} /\ h \notin Returned
  BY DEF Returned
<1> QED
  BY <1>1, HandlersAreFinite, FS_AddElement

(* One that does not, is not.                                              *)
LEMMA OthersDoNot ==
  ASSUME NEW h \in Handlers, NEW s \in {"idle", "exchange"},
         pc \in [Handlers -> {"idle", "exchange", "done"}],
         pc[h] # "done", pc' = [pc EXCEPT ![h] = s]
  PROVE  Returned' = Returned
  BY DEF Returned

-----------------------------------------------------------------------------
(* The invariant.                                                          *)

LEMMA InvInit == Init => Inv
<1> SUFFICES ASSUME Init PROVE Inv
  OBVIOUS
<1>1. Returned = {}
  BY DEF Init, Returned
<1>2. Cardinality(Returned) = 0
  BY <1>1, FS_EmptySet
<1>3. CountIsOfReturned
  BY <1>2 DEF Init, CountIsOfReturned, Smaller
<1>4. pc \in [Handlers -> {"idle", "exchange", "done"}] /\ seen \in [Handlers -> 0 .. 2]
  BY DEF Init
<1>5. TypeOK
  <2>1. asked \in BOOLEAN /\ flag \in {"running", "graceful", "forced"}
    BY DEF Init
  <2>2. watcher \in {"poll", "request", "returned", "absent"}
    BY DEF Init
  <2>3. count \in 0 .. 2 /\ sample \in 0 .. 2
    BY DEF Init
  <2> QED
    BY <1>4, <2>1, <2>2, <2>3 DEF TypeOK
<1>6. SeenIsLow
  BY DEF Init, SeenIsLow
<1> QED
  BY <1>3, <1>5, <1>6 DEF Inv

(* Each handler's step, each of the watcher's, and the engine's.           *)
LEMMA InvStep == Inv /\ [Next]_vars => Inv'
<1> SUFFICES ASSUME Inv, [Next]_vars PROVE Inv'
  OBVIOUS
<1> USE DEF Inv
<1>1. ASSUME NEW h \in Handlers, Arrive(h) PROVE Inv'
  <2>1. CASE count < 2
    <3>1. pc' = [pc EXCEPT ![h] = "exchange"] /\ count' = count
      BY <1>1, <2>1 DEF Arrive
    <3>2. Returned' = Returned
      BY <1>1, <3>1, OthersDoNot DEF Arrive, TypeOK
    <3>3. TypeOK' /\ SeenIsLow'
      BY <1>1, <2>1 DEF Arrive, TypeOK, SeenIsLow
    <3>4. CountIsOfReturned'
      BY <3>1, <3>2 DEF CountIsOfReturned, Smaller
    <3> QED
      BY <3>3, <3>4
  <2>2. CASE ~(count < 2)
    <3>1. pc' = [pc EXCEPT ![h] = "done"] /\ count' = count /\ count = 2
      BY <1>1, <2>2 DEF Arrive, TypeOK
    <3>2. Cardinality(Returned') = Cardinality(Returned) + 1 /\ Cardinality(Returned) \in Nat
      BY <1>1, <3>1, ReturnAddsOne DEF Arrive, TypeOK
    <3>3. TypeOK' /\ SeenIsLow'
      BY <1>1, <3>1 DEF Arrive, TypeOK, SeenIsLow
    <3>4. CountIsOfReturned'
      BY <3>1, <3>2 DEF CountIsOfReturned, Smaller
    <3> QED
      BY <3>3, <3>4
  <2> QED
    BY <2>1, <2>2
<1>2. ASSUME NEW h \in Handlers, Exchange(h) PROVE Inv'
  <2>1. count < 2 /\ count' = count + 1 /\ pc[h] = "exchange" /\ pc' = [pc EXCEPT ![h] = "done"]
    BY <1>2 DEF Exchange, SeenIsLow
  <2>2. Cardinality(Returned') = Cardinality(Returned) + 1 /\ Cardinality(Returned) \in Nat
    BY <2>1, ReturnAddsOne DEF TypeOK
  <2>3. TypeOK' /\ SeenIsLow'
    BY <1>2, <2>1 DEF Exchange, TypeOK, SeenIsLow
  <2>4. CountIsOfReturned'
    BY <2>1, <2>2 DEF CountIsOfReturned, Smaller, TypeOK
  <2> QED
    BY <2>3, <2>4
<1>3. ASSUME NEW h \in Handlers, ExchangeFails(h) PROVE Inv'
  <2>1. CASE count < 2
    <3>1. pc' = [pc EXCEPT ![h] = "exchange"] /\ count' = count
      BY <1>3, <2>1 DEF ExchangeFails
    <3>2. Returned' = Returned
      BY <1>3, <3>1, OthersDoNot DEF ExchangeFails, TypeOK
    <3>3. TypeOK' /\ SeenIsLow'
      BY <1>3, <2>1 DEF ExchangeFails, TypeOK, SeenIsLow
    <3>4. CountIsOfReturned'
      BY <3>1, <3>2 DEF CountIsOfReturned, Smaller
    <3> QED
      BY <3>3, <3>4
  <2>2. CASE ~(count < 2)
    <3>1. pc' = [pc EXCEPT ![h] = "done"] /\ count' = count /\ count = 2
      BY <1>3, <2>2 DEF ExchangeFails, TypeOK
    <3>2. Cardinality(Returned') = Cardinality(Returned) + 1 /\ Cardinality(Returned) \in Nat
      BY <1>3, <3>1, ReturnAddsOne DEF ExchangeFails, TypeOK
    <3>3. TypeOK' /\ SeenIsLow'
      BY <1>3, <3>1 DEF ExchangeFails, TypeOK, SeenIsLow
    <3>4. CountIsOfReturned'
      BY <3>1, <3>2 DEF CountIsOfReturned, Smaller
    <3> QED
      BY <3>3, <3>4
  <2> QED
    BY <2>1, <2>2
<1>4. ASSUME UNCHANGED <<count, pc, seen>>, TypeOK' PROVE Inv'
  <2>1. Returned' = Returned
    BY <1>4 DEF Returned
  <2> QED
    BY <1>4, <2>1 DEF SeenIsLow, CountIsOfReturned, Smaller
<1>5. CASE Poll
  <2>1. TypeOK' /\ UNCHANGED <<count, pc, seen>>
    BY <1>5 DEF Poll, TypeOK
  <2> QED
    BY <1>4, <2>1
<1>6. CASE Request
  <2>1. TypeOK' /\ UNCHANGED <<count, pc, seen>>
    BY <1>6 DEF Request, Graceful, TypeOK
  <2> QED
    BY <1>4, <2>1
<1>7. CASE EngineAsks
  <2>1. TypeOK' /\ UNCHANGED <<count, pc, seen>>
    BY <1>7 DEF EngineAsks, Graceful, TypeOK
  <2> QED
    BY <1>4, <2>1
<1>8. CASE UNCHANGED vars
  <2>1. TypeOK' /\ UNCHANGED <<count, pc, seen>>
    BY <1>8 DEF vars, TypeOK
  <2> QED
    BY <1>4, <2>1
<1> QED
  BY <1>1, <1>2, <1>3, <1>5, <1>6, <1>7, <1>8 DEF Next

LEMMA InvHolds == Spec => []Inv
<1> QED
  BY InvInit, InvStep, PTL DEF Spec

(* However many signals arrive and however their handlers interleave, each *)
(* that has returned is counted, up to two, and nothing else is.           *)
THEOREM SignalsAreCounted == Spec => []NoSignalIsLost
<1>1. Inv => NoSignalIsLost
  BY HandlersAreFinite DEF Inv, TypeOK, CountIsOfReturned, NoSignalIsLost
<1> QED
  BY <1>1, InvHolds, PTL

-----------------------------------------------------------------------------
(* The flag.                                                               *)

(* Whatever the watcher has read and whenever the engine asks, the flag    *)
(* starts as running and only escalates: Signals implements StopFlag.      *)
THEOREM FlagImplementsStopFlag == Spec => FlagEscalates
<1>1. Init => Stop!Init
  BY DEF Init, Stop!Init
<1>2. [Next]_vars => [Stop!Next]_flag
  <2> SUFFICES ASSUME [Next]_vars PROVE [Stop!Next]_flag
    OBVIOUS
  <2> USE DEF Stop!Next, Stop!Graceful, Stop!Forced
  <2>1. CASE \E h \in Handlers : Arrive(h) \/ Exchange(h) \/ ExchangeFails(h)
    BY <2>1 DEF Arrive, Exchange, ExchangeFails
  <2>2. CASE Poll
    BY <2>2 DEF Poll
  <2>3. CASE Request
    BY <2>3 DEF Request, Graceful
  <2>4. CASE EngineAsks
    BY <2>4 DEF EngineAsks, Graceful
  <2>5. CASE UNCHANGED vars
    BY <2>5 DEF vars
  <2> QED
    BY <2>1, <2>2, <2>3, <2>4, <2>5 DEF Next
<1> QED
  BY <1>1, <1>2, PTL DEF Spec, FlagEscalates, Stop!Spec

=============================================================================
