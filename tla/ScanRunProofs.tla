---------------------------- MODULE ScanRunProofs ----------------------------
(***************************************************************************)
(* Theorems about ScanRun, for every plan size, pool size, channel depth,  *)
(* batch size and number of retries, and with every failure allowed.       *)
(***************************************************************************)
EXTENDS ScanRun, TLAPS, FiniteSetTheorems, SequenceTheorems

-----------------------------------------------------------------------------
(* The parts of the first inductive invariant.                             *)

Holding == {"taken", "acquired", "probing", "retry", "slept", "report"}

(* A worker holds an index exactly between taking it and reporting it.     *)
HoldsIndex ==
  \A w \in Workers :
    IF pc[w] \in Holding
      THEN index[w] \in Index /\ index[w] < next
      ELSE index[w] = NoIndex

NotYetSpawned == \A w \in Workers : w > spawned => pc[w] = "unspawned"

(* The label is chosen by Decide and nothing is in the terminal event      *)
(* before.                                                                 *)
TerminalPhase ==
  /\ main \notin {"terminal", "exited"} => terminal = NoTerminal
  /\ main = "terminal" => terminal.label \in Labels

TouchedWasIssued == \A i \in touched : i < next

(* The drain runs only after the interrupt was stamped, which happens only *)
(* when there is one.                                                      *)
DrainFollowsStop == (drained => interruptAt) /\ (interruptAt => Cancelled)

(* The collection loop ends for one of two reasons: a stop was requested,  *)
(* or every worker is finished.  Both are stable.                          *)
PastLoop == {"drop", "issued", "join", "decide", "terminal"}
AllGone == \A w \in Workers : pc[w] = "gone"
LoopEndedForCause == main \in PastLoop => Cancelled \/ AllGone

Inv1 ==
  /\ TypeOK
  /\ HoldsIndex
  /\ NotYetSpawned
  /\ TerminalPhase
  /\ TouchedWasIssued
  /\ DrainFollowsStop
  /\ LoopEndedForCause
  /\ NotStartedIsUntouched

-----------------------------------------------------------------------------
(* Helpers.                                                                *)

LEMMA WorkerCountType == WorkerCount \in Nat \ {0}
  BY PlannedAssumption, ConcurrencyAssumption DEF WorkerCount

(* Writing rows never records more than the rows.                          *)
LEMMA EmittedType ==
  ASSUME NEW rows, NEW other, NEW e \in Emitted(rows, other)
  PROVE  e[1] \subseteq rows /\ e[2] \in BOOLEAN
  <1> DEFINE parts == IF ~WriterMayFail THEN {}
                      ELSE ((SUBSET rows) \ {rows})
                             \union (IF other THEN {{}} ELSE {})
  <1>1. CASE e = <<{}, TRUE>>
    BY <1>1
  <1>2. CASE e = <<rows, FALSE>>
    BY <1>2
  <1>3. CASE \E part \in parts : e = <<part, TRUE>>
    <2>1. PICK part \in parts : e = <<part, TRUE>>
      BY <1>3
    <2>2. part \subseteq rows
      OBVIOUS
    <2>3. QED
      BY <2>1, <2>2
  <1>4. QED
    BY <1>1, <1>2, <1>3 DEF Emitted

LEMMA IndexFinite ==
  ASSUME NEW S \in SUBSET Index
  PROVE  IsFiniteSet(S) /\ Cardinality(S) \in Nat
  <1>1. IsFiniteSet(Index)
    BY PlannedAssumption, FS_Interval DEF Index
  <1>2. QED
    BY <1>1, FS_Subset, FS_CardinalityType

LEMMA LabelType ==
  ASSUME NEW failed \in BOOLEAN
  PROVE  LabelFor(failed) \in Labels
  BY DEF LabelFor, Labels, Cancelled, CountedPanic

LEMMA ExitCodeType ==
  ASSUME NEW label \in Labels, NEW failed \in BOOLEAN
  PROVE  ExitCode(label, failed) \in {0, 2, 3, 130}
  BY DEF ExitCode, Labels

LEMMA NoTerminalType == NoTerminal \in TerminalEvent
  BY PlannedAssumption DEF NoTerminal, TerminalEvent

-----------------------------------------------------------------------------
(* Type correctness.                                                       *)

LEMMA InitType == Init => TypeOK
  <1> SUFFICES ASSUME Init PROVE TypeOK
    OBVIOUS
  <1>1. chan \in Seq(SUBSET Index)
    BY EmptySeq DEF Init
  <1>2. spawned \in 0 .. WorkerCount /\ started \in 0 .. Planned
    BY WorkerCountType, PlannedAssumption DEF Init
  <1>3. terminal \in TerminalEvent
    BY NoTerminalType DEF Init
  <1>4. QED
    BY <1>1, <1>2, <1>3 DEF Init, TypeOK

LEMMA WorkerType ==
  ASSUME TypeOK, HoldsIndex, NEW w \in Workers, Worker(w)
  PROVE  TypeOK'
  <1> USE DEF Step, workerVars, collectorVars, finishVars
  <1>1. CASE Take(w)
    BY <1>1, PlannedAssumption DEF Take, TypeOK, Index
  <1>2. CASE Withdraw(w)
    BY <1>2 DEF Withdraw, TypeOK
  <1>3. CASE Acquire(w)
    BY <1>3 DEF Acquire, TypeOK
  <1>4. CASE StartProbe(w)
    BY <1>4 DEF StartProbe, TypeOK, HoldsIndex, Holding
  <1>5. CASE ProbeReturns(w)
    BY <1>5, AnswersAssumption DEF ProbeReturns, TypeOK
  <1>6. CASE GiveUpRetry(w)
    BY <1>6 DEF GiveUpRetry, TypeOK
  <1>7. CASE RetryProbe(w)
    BY <1>7 DEF RetryProbe, TypeOK
  <1>8. CASE Report(w)
    BY <1>8 DEF Report, TypeOK, HoldsIndex, Holding
  <1>9. CASE SendBatch(w)
    <2>1. chan' \in Seq(SUBSET Index)
      BY <1>9, AppendProperties DEF SendBatch, Deliver, TypeOK
    <2>2. QED
      BY <1>9, <2>1 DEF SendBatch, TypeOK
  <1>10. CASE Leave(w)
    <2>1. chan' \in Seq(SUBSET Index)
      <3>1. CASE batch[w] = {}
        BY <1>10, <3>1 DEF Leave, TypeOK
      <3>2. CASE batch[w] # {}
        <4>1. batch[w] \in SUBSET Index /\ chan \in Seq(SUBSET Index)
          BY DEF TypeOK
        <4>2. chan' = IF rxOpen THEN Append(chan, batch[w]) ELSE chan
          BY <1>10, <3>2 DEF Leave, Deliver
        <4>3. QED
          BY <4>1, <4>2, AppendProperties
      <3>3. QED
        BY <3>1, <3>2
    <2>2. QED
      BY <1>10, <2>1 DEF Leave, TypeOK
  <1>11. CASE Panic(w)
    BY <1>11 DEF Panic, TypeOK
  <1>12. QED
    BY <1>1, <1>2, <1>3, <1>4, <1>5, <1>6, <1>7, <1>8, <1>9, <1>10, <1>11 DEF Worker

LEMMA MainType ==
  ASSUME TypeOK, TerminalPhase, Main
  PROVE  TypeOK'
  <1> USE DEF MainStep, workerVars, collectorVars, finishVars
  <1>1. CASE HeaderFails
    BY <1>1 DEF HeaderFails, TypeOK
  <1>2. CASE WriteHeader
    <2>1. writerFailed' \in BOOLEAN
      <3>1. PICK e \in Emitted({}, TRUE) : writerFailed' = e[2]
        BY <1>2 DEF WriteHeader
      <3>2. QED
        BY <3>1, EmittedType
    <2>2. QED
      BY <1>2, <2>1 DEF WriteHeader, TypeOK
  <1>3. CASE SpawnWorker
    <2>1. spawned' \in 0 .. WorkerCount
      BY <1>3, WorkerCountType DEF SpawnWorker, TypeOK
    <2>2. pc' \in [Workers -> {"unspawned", "take", "taken", "acquired",
                               "probing", "retry", "slept", "report",
                               "sending", "leaving", "gone"}]
      BY <1>3 DEF SpawnWorker, TypeOK
    <2>3. QED
      BY <1>3, <2>1, <2>2 DEF SpawnWorker, TypeOK
  <1>4. CASE SpawnFails
    <2>1. chan' \in Seq(SUBSET Index)
      BY <1>4, EmptySeq DEF SpawnFails
    <2>2. QED
      BY <1>4, <2>1 DEF SpawnFails, GracefulFrom, TypeOK
  <1>5. CASE Abort
    BY <1>5 DEF Abort, TypeOK
  <1>6. CASE Spawned
    BY <1>6 DEF Spawned, TypeOK
  <1>7. CASE Receive
    <2>1. Head(chan) \in SUBSET Index /\ Tail(chan) \in Seq(SUBSET Index)
      BY <1>7, HeadTailProperties DEF Receive, TypeOK
    <2>2. Cardinality(Head(chan)) \in Nat
      BY <2>1, IndexFinite
    <2>3. pending' \subseteq Index /\ recorded' \subseteq Index /\ writerFailed' \in BOOLEAN
      <3>1. PICK absorbed \in SUBSET Head(chan) :
              \E e \in Emitted(Head(chan) \ absorbed, FALSE) :
                /\ pending' = pending \union absorbed
                /\ recorded' = recorded \union e[1]
                /\ writerFailed' = e[2]
        BY <1>7 DEF Receive
      <3>2. PICK e \in Emitted(Head(chan) \ absorbed, FALSE) :
              /\ pending' = pending \union absorbed
              /\ recorded' = recorded \union e[1]
              /\ writerFailed' = e[2]
        BY <3>1
      <3>3. e[1] \subseteq Head(chan) \ absorbed /\ e[2] \in BOOLEAN
        BY EmittedType
      <3>4. QED
        BY <2>1, <3>2, <3>3 DEF TypeOK
    <2>4. outcome' \in [Index -> Answer \union {"none"}]
      BY <1>7 DEF Receive, TypeOK
    <2>5. QED
      BY <1>7, <2>1, <2>2, <2>3, <2>4 DEF Receive, TypeOK
  <1>8. CASE ReceiveTimesOut
    BY <1>8 DEF ReceiveTimesOut, TypeOK
  <1>9. CASE Disconnected
    BY <1>9 DEF Disconnected, TypeOK
  <1>10. CASE NoticeInterrupt
    BY <1>10 DEF NoticeInterrupt, TypeOK
  <1>11. CASE StopCollecting
    BY <1>11 DEF StopCollecting, TypeOK
  <1>12. CASE KeepCollecting
    BY <1>12 DEF KeepCollecting, TypeOK
  <1>13. CASE Tick
    <2>1. recorded' \subseteq Index /\ writerFailed' \in BOOLEAN
      <3>1. PICK e \in Emitted(pending, TRUE) :
              recorded' = recorded \union e[1] /\ writerFailed' = e[2]
        BY <1>13 DEF Tick
      <3>2. e[1] \subseteq pending /\ e[2] \in BOOLEAN
        BY EmittedType
      <3>3. QED
        BY <3>1, <3>2 DEF TypeOK
    <2>2. QED
      BY <1>13, <2>1 DEF Tick, TypeOK
  <1>14. CASE DropReceiver
    <2>1. chan' \in Seq(SUBSET Index)
      BY <1>14, EmptySeq DEF DropReceiver
    <2>2. QED
      BY <1>14, <2>1 DEF DropReceiver, TypeOK
  <1>15. CASE CaptureStarted
    <2>1. started' \in 0 .. Planned
      BY <1>15, PlannedAssumption DEF CaptureStarted, Issued, TypeOK
    <2>2. QED
      BY <1>15, <2>1 DEF CaptureStarted, TypeOK
  <1>16. CASE Join
    BY <1>16 DEF Join, TypeOK
  <1>17. CASE SkipJoin
    BY <1>17 DEF SkipJoin, TypeOK
  <1>18. CASE Decide
    <2>1. recorded' \subseteq Index /\ writerFailed' \in BOOLEAN
      BY <1>18, EmittedType DEF Decide, TypeOK
    <2>2. PICK failed \in BOOLEAN :
            terminal' = [terminal EXCEPT !.label = LabelFor(failed)]
      BY <1>18, EmittedType DEF Decide
    <2>3. LabelFor(failed) \in Labels
      BY LabelType
    <2>4. terminal'.label \in Labels /\ terminal' \in TerminalEvent
      BY <2>2, <2>3 DEF TypeOK, TerminalEvent
    <2>5. QED
      BY <1>18, <2>1, <2>4 DEF Decide, TypeOK
  <1>19. CASE WriteTerminal
    <2>1. terminal.label \in Labels
      BY <1>19 DEF WriteTerminal, TerminalPhase
    <2>2. ExitCode(terminal.label, writerFailed) \in {0, 2, 3, 130}
      BY <2>1, ExitCodeType DEF TypeOK
    <2>3. TerminalBody \in TerminalEvent
      BY <2>1, <2>2, PlannedAssumption
         DEF TerminalBody, TerminalEvent, TypeOK, NotStarted, Abandoned
    <2>4. QED
      BY <1>19, <2>2, <2>3 DEF WriteTerminal, TypeOK
  <1>20. CASE TerminalFails
    <2>1. ExitCode(terminal.label, TRUE) = 3
      BY DEF ExitCode
    <2>2. QED
      BY <1>20, <2>1, NoTerminalType DEF TerminalFails, TypeOK
  <1>21. QED
    BY <1>1, <1>2, <1>3, <1>4, <1>5, <1>6, <1>7, <1>8, <1>9, <1>10, <1>11, <1>12, <1>13, <1>14, <1>15, <1>16, <1>17, <1>18, <1>19, <1>20 DEF Main

-----------------------------------------------------------------------------
(* What the steps of the two kinds of thread leave alone.                  *)

(* A worker changes nothing the collector owns, and moves only itself.     *)
LEMMA WorkerFrame ==
  ASSUME NEW w \in Workers, Worker(w)
  PROVE  /\ UNCHANGED <<cancel, rxOpen, main, spawned, collectorVars,
                        writerFailed, finishVars>>
         /\ main # "exited"
         /\ pc[w] \notin {"unspawned", "gone"}
         /\ \E to : pc' = [pc EXCEPT ![w] = to]
  BY DEF Worker, Step, Running, workerVars, collectorVars, finishVars, Take,
         Withdraw, Acquire, StartProbe, ProbeReturns, GiveUpRetry, RetryProbe,
         Report, SendBatch, Leave, Panic

(* The main thread moves a worker only by spawning it.                     *)
LEMMA MainFrame ==
  ASSUME Main
  PROVE  /\ UNCHANGED <<next, index, answer, attempts, batch, touched, panicked>>
         /\ (pc' = pc /\ spawned' = spawned) \/ SpawnWorker
         /\ cancel' = cancel \/ (SpawnFails /\ cancel' = GracefulFrom(cancel))
         /\ main # "exited"
  BY DEF Main, MainStep, workerVars, collectorVars, finishVars, HeaderFails,
         WriteHeader, SpawnWorker, SpawnFails, Abort, Spawned, Receive,
         ReceiveTimesOut, Disconnected, NoticeInterrupt, StopCollecting,
         KeepCollecting, Tick, DropReceiver, CaptureStarted, Join, SkipJoin,
         Decide, WriteTerminal, TerminalFails

(* The two requests and the drain timer.                                   *)
Environment == RequestGraceful \/ RequestForced \/ DrainElapses

LEMMA EnvironmentFrame ==
  ASSUME Environment
  PROVE  /\ UNCHANGED <<next, chan, rxOpen, pc, index, answer, attempts, batch,
                        main, spawned, interruptAt, completed, marked, pending,
                        recorded, writerFailed, started, reaped, terminal, exit,
                        touched, panicked, outcome>>
         /\ Cancelled => Cancelled'
         /\ main # "exited"
  BY DEF Environment, RequestGraceful, RequestForced, DrainElapses, Running,
         GracefulFrom, Cancelled, workerVars, collectorVars, finishVars

LEMMA EnvironmentType ==
  ASSUME TypeOK, Environment
  PROVE  TypeOK'
  <1> USE DEF workerVars, collectorVars, finishVars
  <1>1. CASE RequestGraceful
    BY <1>1 DEF TypeOK, RequestGraceful, GracefulFrom
  <1>2. CASE RequestForced
    BY <1>2 DEF TypeOK, RequestForced
  <1>3. CASE DrainElapses
    BY <1>3 DEF TypeOK, DrainElapses
  <1>4. QED
    BY <1>1, <1>2, <1>3 DEF Environment

(* A stop is never taken back.                                             *)
LEMMA StopIsStable ==
  ASSUME Cancelled,
         Environment \/ Main \/ \E w \in Workers : Worker(w)
  PROVE  Cancelled'
  BY EnvironmentFrame, MainFrame, WorkerFrame DEF Cancelled, GracefulFrom

AnyStep == Environment \/ Main \/ \E w \in Workers : Worker(w)

LEMMA NextCases ==
  ASSUME [Next]_vars
  PROVE  AnyStep \/ UNCHANGED vars
  BY DEF Next, AnyStep, Environment, Over

-----------------------------------------------------------------------------
(* The other parts, one by one.                                            *)

LEMMA HoldsIndexStep ==
  ASSUME TypeOK, TypeOK', HoldsIndex, NotYetSpawned, AnyStep
  PROVE  HoldsIndex'
  <1>1. CASE Environment
    BY <1>1, EnvironmentFrame DEF HoldsIndex
  <1>2. CASE Main
    <2>1. CASE SpawnWorker
      <3>1. spawned + 1 \in Workers /\ spawned + 1 > spawned
        BY <2>1, WorkerCountType DEF SpawnWorker, TypeOK, Workers
      <3>2. pc[spawned + 1] = "unspawned"
        BY <3>1 DEF NotYetSpawned
      <3>3. pc' = [pc EXCEPT ![spawned + 1] = "take"] /\ UNCHANGED <<index, next>>
        BY <2>1 DEF SpawnWorker
      <3>4. QED
        BY <3>1, <3>2, <3>3 DEF HoldsIndex, Holding, TypeOK
    <2>2. CASE pc' = pc
      BY <1>2, <2>2, MainFrame DEF HoldsIndex
    <2>3. QED
      BY <1>2, <2>1, <2>2, MainFrame
  <1>3. ASSUME NEW w \in Workers, Worker(w)
        PROVE  HoldsIndex'
    <2> USE DEF Step, HoldsIndex, Holding, TypeOK
    <2>1. CASE Take(w)
      BY <2>1, PlannedAssumption DEF Take, Index, NoIndex
    <2>2. CASE Withdraw(w)
      BY <2>2 DEF Withdraw
    <2>3. CASE Acquire(w)
      BY <2>3 DEF Acquire
    <2>4. CASE StartProbe(w)
      BY <2>4 DEF StartProbe
    <2>5. CASE ProbeReturns(w)
      BY <2>5 DEF ProbeReturns
    <2>6. CASE GiveUpRetry(w)
      BY <2>6 DEF GiveUpRetry
    <2>7. CASE RetryProbe(w)
      BY <2>7 DEF RetryProbe
    <2>8. CASE Report(w)
      BY <2>8 DEF Report
    <2>9. CASE SendBatch(w)
      BY <2>9 DEF SendBatch
    <2>10. CASE Leave(w)
      BY <2>10 DEF Leave
    <2>11. CASE Panic(w)
      BY <2>11 DEF Panic
    <2>12. QED
      BY <1>3, <2>1, <2>2, <2>3, <2>4, <2>5, <2>6, <2>7, <2>8, <2>9, <2>10,
         <2>11 DEF Worker
  <1>4. QED
    BY <1>1, <1>2, <1>3 DEF AnyStep

LEMMA NotYetSpawnedStep ==
  ASSUME TypeOK, NotYetSpawned, AnyStep
  PROVE  NotYetSpawned'
  <1>1. CASE Environment
    BY <1>1, EnvironmentFrame DEF NotYetSpawned
  <1>2. CASE Main
    <2>1. CASE SpawnWorker
      <3>1. pc' = [pc EXCEPT ![spawned + 1] = "take"] /\ spawned' = spawned + 1
        BY <2>1 DEF SpawnWorker
      <3>2. \A w \in Workers : w > spawned + 1 => w > spawned /\ w # spawned + 1
        BY WorkerCountType DEF Workers, TypeOK
      <3>3. QED
        BY <3>1, <3>2 DEF NotYetSpawned, TypeOK
    <2>2. CASE pc' = pc /\ spawned' = spawned
      BY <2>2 DEF NotYetSpawned
    <2>3. QED
      BY <1>2, <2>1, <2>2, MainFrame
  <1>3. ASSUME NEW w \in Workers, Worker(w)
        PROVE  NotYetSpawned'
    <2>1. pc[w] # "unspawned" /\ spawned' = spawned
      BY <1>3, WorkerFrame
    <2>2. \A v \in Workers : v # w => pc'[v] = pc[v]
      BY <1>3, WorkerFrame DEF TypeOK
    <2>3. QED
      BY <2>1, <2>2 DEF NotYetSpawned
  <1>4. QED
    BY <1>1, <1>2, <1>3 DEF AnyStep

LEMMA TerminalPhaseStep ==
  ASSUME TypeOK, TerminalPhase, AnyStep
  PROVE  TerminalPhase'
  <1>1. CASE Environment
    BY <1>1, EnvironmentFrame DEF TerminalPhase
  <1>2. CASE Main
    <2> USE DEF TerminalPhase, MainStep, finishVars
    <2>1. CASE Decide
      <3>1. PICK e \in Emitted(pending, CountedPanic) :
              terminal' = [terminal EXCEPT !.label = LabelFor(e[2])]
        BY <2>1 DEF Decide
      <3>2. LabelFor(e[2]) \in Labels
        BY EmittedType, LabelType
      <3>3. QED
        BY <2>1, <3>1, <3>2 DEF Decide, TypeOK, TerminalEvent
    <2>2. CASE ~Decide
      BY <1>2, <2>2
         DEF Main, HeaderFails, WriteHeader, SpawnWorker, SpawnFails, Abort,
             Spawned, Receive, ReceiveTimesOut, Disconnected, NoticeInterrupt,
             StopCollecting, KeepCollecting, Tick, DropReceiver,
             CaptureStarted, Join, SkipJoin, WriteTerminal, TerminalFails
    <2>3. QED
      BY <2>1, <2>2
  <1>3. CASE \E w \in Workers : Worker(w)
    BY <1>3, WorkerFrame DEF TerminalPhase, finishVars
  <1>4. QED
    BY <1>1, <1>2, <1>3 DEF AnyStep

(* The counter never goes back.                                            *)
LEMMA CounterGrows ==
  ASSUME TypeOK, AnyStep
  PROVE  next' \in Nat /\ next <= next'
  <1>1. CASE Environment \/ Main
    BY <1>1, EnvironmentFrame, MainFrame DEF TypeOK
  <1>2. ASSUME NEW w \in Workers, Worker(w)
        PROVE  next' = next \/ next' = next + 1
    BY <1>2 DEF Worker, Take, Withdraw, Acquire, StartProbe, ProbeReturns,
                GiveUpRetry, RetryProbe, Report, SendBatch, Leave, Panic
  <1>3. QED
    BY <1>1, <1>2 DEF AnyStep, TypeOK

(* Only StartProbe touches an index, and only while nothing is stopped.    *)
LEMMA TouchedFrame ==
  ASSUME AnyStep
  PROVE  \/ touched' = touched
         \/ \E w \in Workers :
              /\ pc[w] = "acquired" /\ ~Cancelled /\ main # "exited"
              /\ touched' = touched \union {index[w]}
  <1>1. CASE Environment \/ Main
    BY <1>1, EnvironmentFrame, MainFrame
  <1>2. ASSUME NEW w \in Workers, Worker(w)
        PROVE  touched' = touched \/ StartProbe(w)
    BY <1>2 DEF Worker, Take, Withdraw, Acquire, ProbeReturns, GiveUpRetry,
                RetryProbe, Report, SendBatch, Leave, Panic
  <1>3. ASSUME NEW w \in Workers, StartProbe(w)
        PROVE  /\ pc[w] = "acquired" /\ ~Cancelled /\ main # "exited"
               /\ touched' = touched \union {index[w]}
    BY <1>3 DEF StartProbe, Step, Running
  <1>4. QED
    BY <1>1, <1>2, <1>3 DEF AnyStep

LEMMA TouchedWasIssuedStep ==
  ASSUME TypeOK, HoldsIndex, TouchedWasIssued, AnyStep
  PROVE  TouchedWasIssued'
  <1>1. \A i \in touched' : i \in Index /\ i < next
    BY TouchedFrame DEF TouchedWasIssued, HoldsIndex, Holding, TypeOK
  <1>2. QED
    BY <1>1, CounterGrows DEF TouchedWasIssued, TypeOK, Index

LEMMA DrainFollowsStopStep ==
  ASSUME TypeOK, DrainFollowsStop, AnyStep
  PROVE  DrainFollowsStop'
  <1>1. Cancelled => Cancelled'
    BY StopIsStable DEF AnyStep
  <1>2. CASE interruptAt' = interruptAt /\ drained' = drained
    BY <1>1, <1>2 DEF DrainFollowsStop
  <1>3. CASE NoticeInterrupt
    BY <1>1, <1>3 DEF NoticeInterrupt, DrainFollowsStop, TypeOK
  <1>4. CASE DrainElapses
    BY <1>1, <1>4 DEF DrainElapses, DrainFollowsStop
  <1>5. QED
    <2>1. CASE Environment
      BY <1>2, <1>4, <2>1
         DEF Environment, RequestGraceful, RequestForced, collectorVars
    <2>2. CASE Main
      BY <1>2, <1>3, <2>2
         DEF Main, collectorVars, HeaderFails, WriteHeader, SpawnWorker,
             SpawnFails, Abort, Spawned, Receive, ReceiveTimesOut,
             Disconnected, StopCollecting, KeepCollecting, Tick, DropReceiver,
             CaptureStarted, Join, SkipJoin, Decide, WriteTerminal,
             TerminalFails
    <2>3. CASE \E w \in Workers : Worker(w)
      BY <1>2, <2>3, WorkerFrame DEF collectorVars
    <2>4. QED
      BY <2>1, <2>2, <2>3 DEF AnyStep

(* Once every worker is gone the pool stays so.                            *)
LEMMA GoneIsStable ==
  ASSUME TypeOK, NotYetSpawned, AllGone, AnyStep, main # "spawn"
  PROVE  AllGone'
  <1>1. CASE Environment
    BY <1>1, EnvironmentFrame DEF AllGone
  <1>2. CASE Main
    BY <1>2, MainFrame DEF AllGone, SpawnWorker, MainStep
  <1>3. ASSUME NEW w \in Workers, Worker(w)
        PROVE  FALSE
    BY <1>3, WorkerFrame DEF AllGone
  <1>4. QED
    BY <1>1, <1>2, <1>3 DEF AnyStep

LEMMA LoopEndedForCauseStep ==
  ASSUME TypeOK, NotYetSpawned, DrainFollowsStop, LoopEndedForCause, AnyStep
  PROVE  LoopEndedForCause'
  <1>1. CASE main \in PastLoop
    <2>1. Cancelled \/ AllGone
      BY <1>1 DEF LoopEndedForCause
    <2>2. QED
      BY <1>1, <2>1, StopIsStable, GoneIsStable
         DEF LoopEndedForCause, AnyStep, PastLoop
  <1>2. CASE main \notin PastLoop
    <2>1. CASE Disconnected
      BY <2>1 DEF Disconnected, SenderAlive, AllGone, LoopEndedForCause,
                  workerVars
    <2>2. CASE StopCollecting
      BY <2>2 DEF StopCollecting, DrainFollowsStop, LoopEndedForCause,
                  Cancelled, Forced
    <2>3. CASE main' \notin PastLoop
      BY <2>3 DEF LoopEndedForCause
    <2>4. main' \notin PastLoop \/ Disconnected \/ StopCollecting
      <3>1. CASE Environment \/ \E w \in Workers : Worker(w)
        BY <1>2, <3>1, EnvironmentFrame, WorkerFrame
      <3>2. CASE Main
        BY <1>2, <3>2
           DEF Main, MainStep, PastLoop, HeaderFails, WriteHeader,
               SpawnWorker, SpawnFails, Abort, Spawned, Receive,
               ReceiveTimesOut, NoticeInterrupt, KeepCollecting, Tick,
               DropReceiver, CaptureStarted, Join, SkipJoin, Decide,
               WriteTerminal, TerminalFails
      <3>3. QED
        BY <3>1, <3>2 DEF AnyStep
    <2>5. QED
      BY <2>1, <2>2, <2>3, <2>4
  <1>3. QED
    BY <1>1, <1>2

(* The states in which the bound of the unstarted range has been read.     *)
BoundRead == main \in {"join", "decide", "terminal"} \/ Finalized

(* A step after which the bound has been read either read it now or found  *)
(* it read and left it alone: the other ways to exit leave no record.      *)
LEMMA BoundReadStep ==
  ASSUME TypeOK, TerminalPhase, AnyStep, BoundRead'
  PROVE  \/ CaptureStarted
         \/ BoundRead /\ started' = started
  <1>1. CASE Environment
    BY <1>1, EnvironmentFrame DEF BoundRead, Finalized
  <1>2. CASE Main
    <2>1. main \notin {"terminal", "exited"} => terminal = NoTerminal
      BY DEF TerminalPhase
    <2>2. NoTerminal.label = "none"
      BY DEF NoTerminal
    <2>3. QED
      BY <1>2, <2>1, <2>2
         DEF BoundRead, Finalized, Main, MainStep, finishVars, HeaderFails,
             WriteHeader, SpawnWorker, SpawnFails, Abort, Spawned, Receive,
             ReceiveTimesOut, Disconnected, NoticeInterrupt, StopCollecting,
             KeepCollecting, Tick, DropReceiver, Join, SkipJoin, Decide,
             WriteTerminal, TerminalFails
  <1>3. CASE \E w \in Workers : Worker(w)
    BY <1>3, WorkerFrame DEF BoundRead, Finalized, finishVars
  <1>4. QED
    BY <1>1, <1>2, <1>3 DEF AnyStep

LEMMA NotStartedStep ==
  ASSUME Inv1, AnyStep
  PROVE  NotStartedIsUntouched'
  <1> SUFFICES ASSUME BoundRead', NEW i \in touched'
               PROVE  i < started'
    BY DEF NotStartedIsUntouched, BoundRead, Finalized
  <1>1. CASE CaptureStarted
    <2>1. i \in touched /\ started' = Issued
      BY <1>1, MainFrame DEF CaptureStarted, Main
    <2>2. i \in Index /\ i < next
      BY <2>1 DEF Inv1, TypeOK, TouchedWasIssued
    <2>3. QED
      BY <2>1, <2>2, PlannedAssumption DEF Issued, Index, Inv1, TypeOK
  <1>2. CASE BoundRead /\ started' = started
    <2>1. CASE touched' = touched
      BY <1>2, <2>1 DEF Inv1, NotStartedIsUntouched, BoundRead
    <2>2. ASSUME NEW w \in Workers, pc[w] = "acquired", ~Cancelled,
                 main # "exited"
          PROVE  FALSE
      <3>1. main \in PastLoop
        BY <1>2, <2>2 DEF BoundRead, Finalized, PastLoop
      <3>2. AllGone
        BY <2>2, <3>1 DEF Inv1, LoopEndedForCause
      <3>3. QED
        BY <2>2, <3>2 DEF AllGone
    <2>3. QED
      BY <2>1, <2>2, TouchedFrame
  <1>3. QED
    BY <1>1, <1>2, BoundReadStep DEF Inv1

-----------------------------------------------------------------------------
(* The inductive invariant and what follows from it.                       *)

LEMMA Inv1Init == Init => Inv1
  <1> SUFFICES ASSUME Init PROVE Inv1
    OBVIOUS
  <1>1. TypeOK
    BY InitType
  <1>2. HoldsIndex /\ NotYetSpawned
    BY DEF Init, HoldsIndex, NotYetSpawned, Holding
  <1>3. TerminalPhase /\ TouchedWasIssued /\ DrainFollowsStop
    BY DEF Init, TerminalPhase, TouchedWasIssued, DrainFollowsStop
  <1>4. LoopEndedForCause /\ NotStartedIsUntouched
    BY DEF Init, LoopEndedForCause, PastLoop, NotStartedIsUntouched, Finalized
  <1>5. QED
    BY <1>1, <1>2, <1>3, <1>4 DEF Inv1

LEMMA Inv1Step == Inv1 /\ [Next]_vars => Inv1'
  <1> SUFFICES ASSUME Inv1, [Next]_vars PROVE Inv1'
    OBVIOUS
  <1>1. CASE AnyStep
    <2>1. TypeOK'
      BY <1>1, WorkerType, MainType, EnvironmentType DEF AnyStep, Inv1
    <2>2. HoldsIndex' /\ NotYetSpawned'
      BY <1>1, <2>1, HoldsIndexStep, NotYetSpawnedStep DEF Inv1
    <2>3. TerminalPhase' /\ TouchedWasIssued' /\ DrainFollowsStop'
      BY <1>1, TerminalPhaseStep, TouchedWasIssuedStep, DrainFollowsStopStep
         DEF Inv1
    <2>4. LoopEndedForCause' /\ NotStartedIsUntouched'
      BY <1>1, LoopEndedForCauseStep, NotStartedStep DEF Inv1
    <2>5. QED
      BY <2>1, <2>2, <2>3, <2>4 DEF Inv1
  <1>2. CASE UNCHANGED vars
    BY <1>2 DEF vars, workerVars, collectorVars, finishVars, Inv1, TypeOK,
                HoldsIndex, NotYetSpawned, TerminalPhase, TouchedWasIssued,
                DrainFollowsStop, LoopEndedForCause, AllGone, Cancelled,
                NotStartedIsUntouched, Finalized
  <1>3. QED
    BY <1>1, <1>2, NextCases

LEMMA Inv1Always == Spec => []Inv1
  BY Inv1Init, Inv1Step, PTL DEF Spec

(* Whatever the plan, the pool, the channel and the failures, every        *)
(* variable of execute_with and its threads stays in its range; in         *)
(* particular the counter, which workers push past the end of the plan, is *)
(* never reported beyond it (WorkCounter::issued).                         *)
THEOREM TypeCorrect == Spec => []TypeOK
  BY Inv1Always, PTL DEF Inv1

(* The range the terminal event calls never started holds no probe that    *)
(* was sent, from the moment its bound is read to the end of the process,  *)
(* for every schedule of the workers (execute_with reads counter.issued()  *)
(* before it joins them).                                                  *)
THEOREM NotStartedUntouched == Spec => []NotStartedIsUntouched
  BY Inv1Always, PTL DEF Inv1

-----------------------------------------------------------------------------
(***************************************************************************)
(* Where every index is, from the counter to the record.                   *)
(*                                                                         *)
(* The second inductive invariant adds to Inv1 where results may be lost   *)
(* and why: the collection loop ends early only for a forced stop or a     *)
(* spent drain budget, and short of that it ends because every worker is   *)
(* finished and the channel is empty.                                      *)
(*                                                                         *)
(* The last part shows that the engine keeps the ledger: ScanRun           *)
(* implements ScanLedger.                                                  *)
(***************************************************************************)

(* The parts of the second inductive invariant.                            *)

(* A worker that is not running holds no results.                          *)
IdleIsEmpty == \A w \in Workers : pc[w] \in {"unspawned", "gone"} => batch[w] = {}

(* The receiver lives until the loop is over.                              *)
BeforeDrop == {"header", "spawn", "receive", "notice", "check", "drop"}
ReceiverLives == main \in BeforeDrop => rxOpen

(* The whole pool exists once the spawning is done, and only then is there *)
(* a collection loop; a spawn that failed left the pool incomplete.        *)
PoolIsWhole ==
  /\ main \in {"receive", "notice", "check"} \union PastLoop => spawned = WorkerCount
  /\ main \in {"header", "abort"} => spawned < WorkerCount
  /\ Finalized => spawned = WorkerCount

(* A refused thread stops the workers that run.                            *)
AbortIsStop == main = "abort" => Cancelled

(* Results may be discarded only for a forced stop or a spent drain        *)
(* budget: otherwise the loop ended with nothing left to receive.          *)
NothingLeft == AllGone /\ chan = << >>
EndedClean == main \in PastLoop \/ Finalized => Forced \/ drained \/ NothingLeft

(* Short of a forced stop every worker is joined before the label.         *)
JoinedAll ==
  /\ main = "decide" => Forced \/ (AllGone /\ reaped = Workers)
  /\ main = "terminal" \/ Finalized => Forced \/ AllGone
Reaped == \A w \in reaped : pc[w] = "gone"

(* The count is the size of the Reported bitset.                           *)
CountIsTheMarks == completed = Cardinality(marked)

(* Every counted result lies below the bound of the unstarted range.       *)
MarkedBelowBound == BoundRead => \A i \in marked : i < started

RecordedOnce ==
  ~writerFailed => recorded \union pending = marked /\ recorded \intersect pending = {}
SpansFlushed == main = "terminal" \/ Finalized => pending = {}

(* What the terminal event says is what the counters held.                 *)
TerminalIsTheBody ==
  Finalized =>
    /\ terminal.label \in Labels
    /\ terminal.completed = completed
    /\ terminal.notStarted = NotStarted
    /\ terminal.from = started
    /\ terminal.abandoned = Abandoned(started)
    /\ terminal.code = exit

(* Where the result of index i may still be.                               *)
InHand(i) == \E w \in Workers : index[w] = i
InBatch(i) == \E w \in Workers : i \in batch[w]
Located(i) == InHand(i) \/ InBatch(i) \/ i \in InChannel \/ i \in marked

(* Without a stop and without a panic no index is lost, and a worker       *)
(* leaves only when the counter is past the end of the plan.               *)
Undisturbed == ~Cancelled /\ panicked = {}
NothingIsLost ==
  Undisturbed =>
    /\ \A i \in Index : i < next => Located(i)
    /\ \A w \in Workers : pc[w] \in {"leaving", "gone"} => Planned <= next

(* Short of a forced stop and a spent drain budget, a finished result is   *)
(* on its way to the collector.                                            *)
FinishedIsOnItsWay ==
  (main \notin {"abort", "exited"} \/ Finalized) /\ ~drained /\ ~Forced =>
    \A i \in Index : outcome[i] # "none" => InBatch(i) \/ i \in InChannel

(* The two halves of LabelIsEarned, from the moment the label is chosen.   *)
Labelled == main = "terminal" \/ Finalized
CompletedIsWhole ==
  Labelled /\ terminal.label = "completed" =>
    /\ AllGone
    /\ marked = Index /\ recorded = Index
    /\ panicked = {} /\ ~writerFailed
PanicIsLabelled ==
  Labelled /\ panicked # {} /\ ~Forced => terminal.label = "failed"

Inv2 ==
  /\ Inv1
  /\ OneHome
  /\ IdleIsEmpty
  /\ ReceiverLives
  /\ PoolIsWhole
  /\ AbortIsStop
  /\ EndedClean
  /\ JoinedAll
  /\ Reaped
  /\ CountIsTheMarks
  /\ MarkedBelowBound
  /\ RecordedOnce
  /\ SpansFlushed
  /\ TerminalIsTheBody
  /\ NothingIsLost
  /\ FinishedIsOnItsWay
  /\ CompletedIsWhole
  /\ PanicIsLabelled

-----------------------------------------------------------------------------
(* What a worker's step does to the result it carries.                     *)

Taking(w) ==
  /\ index[w] = NoIndex
  /\ next' = next + 1
  /\ index' = [index EXCEPT ![w] = IF next < Planned THEN next ELSE NoIndex]
  /\ UNCHANGED <<chan, batch, outcome>>

Losing(w) ==
  /\ Cancelled \/ panicked' # {}
  /\ index' = [index EXCEPT ![w] = NoIndex]
  /\ UNCHANGED <<next, chan, batch, outcome>>

Keeping == UNCHANGED <<next, chan, index, batch, outcome>>

Batching(w) ==
  /\ index[w] \in Index
  /\ index' = [index EXCEPT ![w] = NoIndex]
  /\ batch' = [batch EXCEPT ![w] = batch[w] \union {index[w]}]
  /\ outcome' = [outcome EXCEPT ![index[w]] = answer[w]]
  /\ UNCHANGED <<next, chan>>

Passing(w) ==
  /\ batch' = [batch EXCEPT ![w] = {}]
  /\ \/ rxOpen /\ chan' = Append(chan, batch[w])
     \/ (~rxOpen \/ batch[w] = {}) /\ chan' = chan
  /\ UNCHANGED <<next, index, outcome>>

LEMMA WorkerMoves ==
  ASSUME TypeOK, HoldsIndex, NEW w \in Workers, Worker(w)
  PROVE  Taking(w) \/ Losing(w) \/ Keeping \/ Batching(w) \/ Passing(w)
  <1> USE DEF Step
  <1>1. CASE Take(w)
    BY <1>1 DEF Take, Taking, HoldsIndex, Holding
  <1>2. CASE Withdraw(w) \/ Panic(w)
    BY <1>2 DEF Withdraw, Panic, Losing
  <1>3. CASE Acquire(w) \/ StartProbe(w) \/ ProbeReturns(w) \/ GiveUpRetry(w)
               \/ RetryProbe(w)
    BY <1>3 DEF Acquire, StartProbe, ProbeReturns, GiveUpRetry, RetryProbe, Keeping
  <1>4. CASE Report(w)
    BY <1>4 DEF Report, Batching, HoldsIndex, Holding
  <1>5. CASE SendBatch(w)
    BY <1>5 DEF SendBatch, Deliver, Passing
  <1>6. CASE Leave(w)
    BY <1>6 DEF Leave, Deliver, Passing
  <1>7. QED
    BY <1>1, <1>2, <1>3, <1>4, <1>5, <1>6 DEF Worker

(* What a step of the main thread does to the channel and the count.       *)
LEMMA MainMoves ==
  ASSUME Main
  PROVE  \/ Receive
         \/ /\ SpawnFails \/ DropReceiver
            /\ chan' = << >> /\ UNCHANGED <<completed, marked, outcome>>
         \/ UNCHANGED <<chan, rxOpen, completed, marked, outcome>>
  BY DEF Main, collectorVars, HeaderFails, WriteHeader, SpawnWorker,
         SpawnFails, Abort, Spawned, ReceiveTimesOut, Disconnected,
         NoticeInterrupt, StopCollecting, KeepCollecting, Tick, DropReceiver,
         CaptureStarted, Join, SkipJoin, Decide, WriteTerminal, TerminalFails

-----------------------------------------------------------------------------
(* The channel as a set of results.                                        *)

LEMMA InChannelIs ==
  \A i : i \in InChannel <=> \E k \in DOMAIN chan : i \in chan[k]
  BY DEF InChannel

LEMMA ChannelGrows ==
  ASSUME TypeOK, NEW b \in SUBSET Index, chan' = Append(chan, b)
  PROVE  /\ \A k \in DOMAIN chan : k \in DOMAIN chan' /\ chan'[k] = chan[k]
         /\ \E last \in DOMAIN chan' \ DOMAIN chan :
              DOMAIN chan' = DOMAIN chan \union {last} /\ chan'[last] = b
         /\ InChannel' = InChannel \union b
  <1> DEFINE last == Len(chan) + 1
  <1>1. chan \in Seq(SUBSET Index) /\ Len(chan) \in Nat
    BY LenProperties DEF TypeOK
  <1>2. DOMAIN chan = 1 .. Len(chan) /\ DOMAIN chan' = 1 .. last
    BY <1>1, AppendProperties, LenProperties
  <1>3. \A k \in DOMAIN chan : chan'[k] = chan[k]
    BY <1>1, <1>2, AppendProperties
  <1>4. chan'[last] = b
    BY <1>1, AppendProperties
  <1>5. last \in DOMAIN chan' \ DOMAIN chan /\ DOMAIN chan' = DOMAIN chan \union {last}
    BY <1>1, <1>2
  <1> HIDE DEF last
  <1>6. InChannel' = InChannel \union b
    <2>1. \A i : i \in InChannel' <=> \E k \in DOMAIN chan' : i \in chan'[k]
      BY DEF InChannel
    <2>2. \A i : i \in InChannel' <=> i \in InChannel \/ i \in b
      BY <1>3, <1>4, <1>5, <2>1, InChannelIs
    <2>3. QED
      BY <2>2
  <1>7. QED
    BY <1>3, <1>4, <1>5, <1>6

LEMMA ChannelShrinks ==
  ASSUME TypeOK, chan # << >>, chan' = Tail(chan)
  PROVE  /\ Head(chan) = chan[1] /\ 1 \in DOMAIN chan
         /\ Head(chan) \subseteq Index
         /\ \A k \in DOMAIN chan' : /\ k \in Int
                                    /\ k + 1 \in DOMAIN chan \ {1}
                                    /\ chan'[k] = chan[k + 1]
         /\ InChannel = InChannel' \union Head(chan)
  <1>1. chan \in Seq(SUBSET Index) /\ Len(chan) \in Nat /\ Len(chan) # 0
    BY LenProperties, EmptySeq DEF TypeOK
  <1>2. DOMAIN chan = 1 .. Len(chan) /\ Head(chan) = chan[1]
    BY <1>1, LenProperties
  <1>3. chan' \in Seq(SUBSET Index) /\ Len(chan') = Len(chan) - 1
    BY <1>1, HeadTailProperties
  <1>4. DOMAIN chan' = 1 .. (Len(chan) - 1)
    BY <1>1, <1>3, LenProperties
  <1>5. \A k \in DOMAIN chan' : chan'[k] = chan[k + 1]
    BY <1>1, <1>4, HeadTailProperties
  <1>6. \A k \in DOMAIN chan' : k \in Int /\ k + 1 \in DOMAIN chan \ {1}
    BY <1>1, <1>2, <1>4
  <1>7. \A k \in DOMAIN chan : k # 1 => k - 1 \in DOMAIN chan' /\ (k - 1) + 1 = k
    BY <1>1, <1>2, <1>4
  <1>8. 1 \in DOMAIN chan /\ chan[1] \subseteq Index
    BY <1>1, <1>2, ElementOfSeq
  <1>9. InChannel = InChannel' \union Head(chan)
    <2>1. \A i : i \in InChannel' <=> \E k \in DOMAIN chan' : i \in chan'[k]
      BY DEF InChannel
    <2>2. ASSUME NEW i, i \in InChannel PROVE i \in InChannel' \/ i \in Head(chan)
      <3>1. PICK k \in DOMAIN chan : i \in chan[k]
        BY <2>2, InChannelIs
      <3>2. CASE k = 1
        BY <1>2, <3>1, <3>2
      <3>3. CASE k # 1
        <4>1. k - 1 \in DOMAIN chan' /\ chan'[k - 1] = chan[k]
          BY <1>5, <1>7, <3>3
        <4>2. QED
          BY <2>1, <3>1, <4>1
      <3>4. QED
        BY <3>2, <3>3
    <2>3. \A i : i \in InChannel' => i \in InChannel
      BY <1>5, <1>6, <2>1, InChannelIs
    <2>4. \A i : i \in Head(chan) => i \in InChannel
      BY <1>2, <1>8, InChannelIs
    <2>5. QED
      BY <2>2, <2>3, <2>4
  <1>10. QED
    BY <1>2, <1>5, <1>6, <1>8, <1>9

LEMMA ChannelEmpty ==
  ASSUME chan' = << >>
  PROVE  InChannel' = {} /\ DOMAIN chan' = {}
  <1>1. DOMAIN chan' = {}
    BY EmptySeq
  <1>2. QED
    BY <1>1 DEF InChannel

-----------------------------------------------------------------------------
(* One index, one home.                                                    *)

HandApart ==
  \A w \in Workers : index[w] # NoIndex =>
    /\ index[w] < next
    /\ index[w] \notin InChannel \union marked
    /\ \A v \in Workers : index[w] \notin batch[v] /\ (v # w => index[v] # index[w])
BatchApart ==
  \A w \in Workers : \A i \in batch[w] :
    /\ i < next
    /\ i \notin InChannel \union marked
    /\ \A v \in Workers \ {w} : i \notin batch[v]
QueueApart ==
  \A k \in DOMAIN chan : \A i \in chan[k] :
    /\ i < next
    /\ i \notin marked
    /\ \A j \in DOMAIN chan \ {k} : i \notin chan[j]
MarkedIssued == \A i \in marked : i < next

LEMMA OneHomeParts == OneHome <=> HandApart /\ BatchApart /\ QueueApart /\ MarkedIssued
  BY DEF OneHome, HandApart, BatchApart, QueueApart, MarkedIssued

LEMMA OneHomeWorker ==
  ASSUME TypeOK, HoldsIndex, OneHome, NEW u \in Workers, Worker(u)
  PROVE  OneHome'
  <1>1. marked' = marked /\ next \in Nat
    BY WorkerFrame DEF collectorVars, TypeOK
  <1>2. HandApart /\ BatchApart /\ QueueApart /\ MarkedIssued
    BY OneHomeParts
  <1> SUFFICES HandApart' /\ BatchApart' /\ QueueApart' /\ MarkedIssued'
    BY OneHomeParts, PTL
  <1>3. CASE Taking(u)
    <2>1. InChannel' = InChannel
      BY <1>3 DEF Taking, InChannel
    <2>2. \A w \in Workers : w # u => index'[w] = index[w]
      BY <1>3 DEF Taking, TypeOK
    <2>3. index'[u] = IF next < Planned THEN next ELSE NoIndex
      BY <1>3 DEF Taking, TypeOK
    <2>4. \A w \in Workers : index[w] # next
      BY <1>1, <1>2 DEF HandApart, NoIndex
    <2>5. \A w \in Workers : next \notin batch[w]
      BY <1>1, <1>2 DEF BatchApart
    <2>6. next \notin InChannel /\ next \notin marked
      BY <1>1, <1>2, InChannelIs DEF QueueApart, MarkedIssued
    <2>7. \A i \in Index : i < next => i < next + 1
      BY <1>1 DEF Index
    <2>8. next' = next + 1 /\ chan' = chan /\ batch' = batch /\ next < next + 1
      BY <1>1, <1>3 DEF Taking
    <2>9. \A k \in DOMAIN chan : chan[k] \subseteq Index
      BY ElementOfSeq, LenProperties DEF TypeOK
    <2>10. HandApart'
      <3>1. \A w \in Workers : index[w] # NoIndex => index[w] < next + 1
        BY <1>2, <2>7 DEF HandApart, TypeOK
      <3>2. QED
        BY <1>1, <1>2, <2>1, <2>2, <2>3, <2>4, <2>5, <2>6, <2>8, <3>1 DEF HandApart
    <2>11. BatchApart'
      BY <1>1, <1>2, <2>1, <2>7, <2>8 DEF BatchApart, TypeOK
    <2>12. QueueApart'
      BY <1>1, <1>2, <2>7, <2>8, <2>9 DEF QueueApart
    <2>13. MarkedIssued'
      BY <1>1, <1>2, <2>7, <2>8 DEF MarkedIssued, TypeOK
    <2>14. QED
      BY <2>10, <2>11, <2>12, <2>13
  <1>4. CASE Losing(u) \/ Keeping
    <2>1. InChannel' = InChannel
      BY <1>4 DEF Losing, Keeping, InChannel
    <2>2. \A w \in Workers : index'[w] # NoIndex => index'[w] = index[w]
      BY <1>4 DEF Losing, Keeping, TypeOK
    <2>3. UNCHANGED <<next, chan, batch>>
      BY <1>4 DEF Losing, Keeping
    <2>4. HandApart'
      BY <1>1, <1>2, <2>1, <2>2, <2>3 DEF HandApart
    <2>5. BatchApart' /\ QueueApart' /\ MarkedIssued'
      BY <1>1, <1>2, <2>1, <2>3 DEF BatchApart, QueueApart, MarkedIssued
    <2>6. QED
      BY <2>4, <2>5
  <1>5. CASE Batching(u)
    <2>1. InChannel' = InChannel
      BY <1>5 DEF Batching, InChannel
    <2>2. \A w \in Workers : w # u => index'[w] = index[w]
      BY <1>5 DEF Batching, TypeOK
    <2>3. index'[u] = NoIndex
      BY <1>5 DEF Batching, TypeOK
    <2>4. \A w \in Workers : batch'[w] = IF w = u THEN batch[w] \union {index[u]} ELSE batch[w]
      <3>1. batch' = [batch EXCEPT ![u] = batch[u] \union {index[u]}]
        BY <1>5 DEF Batching
      <3>2. batch \in [Workers -> SUBSET Index]
        BY DEF TypeOK
      <3>3. QED
        BY <3>1, <3>2
    <2>5. index[u] # NoIndex
      BY <1>5 DEF Batching, Index, NoIndex
    <2>6. UNCHANGED <<next, chan>>
      BY <1>5 DEF Batching
    <2>7. HandApart'
      BY <1>1, <1>2, <2>1, <2>2, <2>3, <2>4, <2>5, <2>6 DEF HandApart
    <2>8. BatchApart'
      <3> SUFFICES ASSUME NEW w \in Workers, NEW i \in batch'[w]
                   PROVE  /\ i < next
                          /\ i \notin InChannel \union marked
                          /\ \A v \in Workers \ {w} : i \notin batch'[v]
        BY <1>1, <2>1, <2>6 DEF BatchApart
      <3>1. CASE i \in batch[w]
        <4>1. i # index[u]
          BY <1>2, <2>5, <3>1 DEF HandApart
        <4>2. QED
          BY <1>2, <2>4, <3>1, <4>1 DEF BatchApart
      <3>2. CASE i \notin batch[w]
        <4>1. w = u /\ i = index[u]
          BY <2>4, <3>2
        <4>2. QED
          BY <1>2, <2>4, <2>5, <4>1 DEF HandApart
      <3>3. QED
        BY <3>1, <3>2
    <2>9. QueueApart' /\ MarkedIssued'
      BY <1>1, <1>2, <2>6 DEF QueueApart, MarkedIssued
    <2>10. QED
      BY <2>7, <2>8, <2>9
  <1>6. CASE Passing(u)
    <2>1. \A w \in Workers : batch'[w] = IF w = u THEN {} ELSE batch[w]
      BY <1>6 DEF Passing, TypeOK
    <2>2. UNCHANGED <<next, index>>
      BY <1>6 DEF Passing
    <2>3. CASE chan' = chan
      <3>1. InChannel' = InChannel
        BY <2>3 DEF InChannel
      <3>2. HandApart' /\ BatchApart'
        BY <1>1, <1>2, <2>1, <2>2, <3>1 DEF HandApart, BatchApart
      <3>3. QueueApart' /\ MarkedIssued'
        BY <1>1, <1>2, <2>2, <2>3 DEF QueueApart, MarkedIssued
      <3>4. QED
        BY <3>2, <3>3
    <2>4. CASE chan' = Append(chan, batch[u])
      <3>1. batch[u] \in SUBSET Index
        BY DEF TypeOK
      <3>2. /\ \A k \in DOMAIN chan : k \in DOMAIN chan' /\ chan'[k] = chan[k]
            /\ InChannel' = InChannel \union batch[u]
        BY <2>4, <3>1, ChannelGrows
      <3>3. PICK last \in DOMAIN chan' \ DOMAIN chan :
              DOMAIN chan' = DOMAIN chan \union {last} /\ chan'[last] = batch[u]
        BY <2>4, <3>1, ChannelGrows
      <3>4. HandApart'
        BY <1>1, <1>2, <2>1, <2>2, <3>2 DEF HandApart
      <3>5. BatchApart'
        BY <1>1, <1>2, <2>1, <2>2, <3>2 DEF BatchApart
      <3>6. \A k \in DOMAIN chan : \A i \in chan[k] : i \notin batch[u]
        BY <1>2, InChannelIs DEF BatchApart
      <3>7. QueueApart'
        BY <1>1, <1>2, <2>2, <3>2, <3>3, <3>6 DEF QueueApart, BatchApart
      <3>8. MarkedIssued'
        BY <1>1, <1>2, <2>2 DEF MarkedIssued
      <3>9. QED
        BY <3>4, <3>5, <3>7, <3>8
    <2>5. QED
      BY <1>6, <2>3, <2>4 DEF Passing
  <1>7. QED
    BY <1>3, <1>4, <1>5, <1>6, WorkerMoves

LEMMA OneHomeMain ==
  ASSUME TypeOK, OneHome, Main
  PROVE  OneHome'
  <1>1. UNCHANGED <<next, index, batch>>
    BY MainFrame
  <1>2. HandApart /\ BatchApart /\ QueueApart /\ MarkedIssued
    BY OneHomeParts
  <1> SUFFICES HandApart' /\ BatchApart' /\ QueueApart' /\ MarkedIssued'
    BY OneHomeParts, PTL
  <1>3. CASE Receive
    <2>1. chan # << >> /\ chan' = Tail(chan) /\ marked' = marked \union Head(chan)
      BY <1>3 DEF Receive
    <2>2. Head(chan) = chan[1] /\ 1 \in DOMAIN chan
      BY <2>1, ChannelShrinks
    <2>3. \A k \in DOMAIN chan' : /\ k \in Int
                                  /\ k + 1 \in DOMAIN chan \ {1}
                                  /\ chan'[k] = chan[k + 1]
      BY <2>1, ChannelShrinks
    <2>4. InChannel = InChannel' \union Head(chan)
      BY <2>1, ChannelShrinks
    <2>5. \A j, k \in DOMAIN chan' : j # k => j + 1 # k + 1
      BY <2>3
    <2>6. HandApart'
      BY <1>1, <1>2, <2>1, <2>4 DEF HandApart
    <2>7. BatchApart'
      BY <1>1, <1>2, <2>1, <2>4 DEF BatchApart
    <2>8. QueueApart'
      BY <1>1, <1>2, <2>1, <2>2, <2>3, <2>5 DEF QueueApart
    <2>9. MarkedIssued'
      BY <1>1, <1>2, <2>1, <2>2 DEF MarkedIssued, QueueApart
    <2>10. QED
      BY <2>6, <2>7, <2>8, <2>9
  <1>4. CASE chan' = << >> /\ marked' = marked
    <2>1. InChannel' = {} /\ DOMAIN chan' = {}
      BY <1>4, ChannelEmpty
    <2>2. QED
      BY <1>1, <1>2, <1>4, <2>1 DEF HandApart, BatchApart, QueueApart, MarkedIssued
  <1>5. CASE chan' = chan /\ marked' = marked
    BY <1>1, <1>2, <1>5 DEF HandApart, BatchApart, QueueApart, MarkedIssued, InChannel
  <1>6. QED
    BY <1>3, <1>4, <1>5, MainMoves

LEMMA OneHomeStep ==
  ASSUME TypeOK, HoldsIndex, OneHome, AnyStep
  PROVE  OneHome'
  <1>1. CASE Environment
    BY <1>1, EnvironmentFrame DEF OneHome, InChannel
  <1>2. QED
    BY <1>1, OneHomeWorker, OneHomeMain DEF AnyStep

-----------------------------------------------------------------------------
(* Where the threads stand.                                                *)

(* How the main thread moves, by its program counter.                      *)
LEMMA MainMovesOn ==
  ASSUME Main
  PROVE  \/ HeaderFails
         \/ main = "header" /\ main' = "spawn" /\ rxOpen' = rxOpen
         \/ SpawnWorker
         \/ SpawnFails
         \/ Abort
         \/ Spawned
         \/ /\ main \in {"receive", "notice", "check"}
            /\ main' \in {"receive", "notice", "check"}
            /\ UNCHANGED <<rxOpen, reaped>>
         \/ Disconnected
         \/ StopCollecting
         \/ DropReceiver
         \/ CaptureStarted
         \/ Join
         \/ SkipJoin
         \/ Decide
         \/ WriteTerminal
         \/ TerminalFails
  BY DEF Main, MainStep, collectorVars, finishVars, WriteHeader, Receive,
         ReceiveTimesOut, NoticeInterrupt, KeepCollecting, Tick

LEMMA IdleIsEmptyStep ==
  ASSUME TypeOK, NotYetSpawned, IdleIsEmpty, AnyStep
  PROVE  IdleIsEmpty'
  <1>1. CASE Environment
    BY <1>1, EnvironmentFrame DEF IdleIsEmpty
  <1>2. CASE Main
    <2>1. batch' = batch
      BY <1>2, MainFrame
    <2>2. \A w \in Workers : pc'[w] \in {"unspawned", "gone"} => pc[w] = pc'[w]
      BY <1>2, MainFrame DEF SpawnWorker, TypeOK
    <2>3. QED
      BY <2>1, <2>2 DEF IdleIsEmpty
  <1>3. ASSUME NEW u \in Workers, Worker(u)
        PROVE  IdleIsEmpty'
    <2> USE DEF Step, TypeOK, IdleIsEmpty
    <2>1. CASE Leave(u)
      BY <2>1 DEF Leave
    <2>2. CASE Report(u)
      BY <2>2 DEF Report
    <2>3. CASE SendBatch(u)
      BY <2>3 DEF SendBatch
    <2>4. CASE Take(u) \/ Withdraw(u) \/ Acquire(u) \/ StartProbe(u)
                 \/ ProbeReturns(u) \/ GiveUpRetry(u) \/ RetryProbe(u) \/ Panic(u)
      <3>1. batch' = batch
        BY <2>4 DEF Take, Withdraw, Acquire, StartProbe, ProbeReturns,
                    GiveUpRetry, RetryProbe, Panic
      <3>2. \A w \in Workers : pc'[w] \in {"unspawned", "gone"} => pc[w] = pc'[w]
        BY <2>4 DEF Take, Withdraw, Acquire, StartProbe, ProbeReturns,
                    GiveUpRetry, RetryProbe, Panic
      <3>3. QED
        BY <3>1, <3>2
    <2>5. QED
      BY <1>3, <2>1, <2>2, <2>3, <2>4 DEF Worker
  <1>4. QED
    BY <1>1, <1>2, <1>3 DEF AnyStep

LEMMA ReceiverLivesStep ==
  ASSUME ReceiverLives, AnyStep
  PROVE  ReceiverLives'
  <1>1. CASE Environment \/ \E w \in Workers : Worker(w)
    BY <1>1, EnvironmentFrame, WorkerFrame DEF ReceiverLives
  <1>2. CASE Main
    BY <1>2, MainMovesOn
       DEF ReceiverLives, BeforeDrop, MainStep, HeaderFails, SpawnWorker,
           SpawnFails, Abort, Spawned, Disconnected, StopCollecting,
           DropReceiver, CaptureStarted, Join, SkipJoin, Decide,
           WriteTerminal, TerminalFails
  <1>3. QED
    BY <1>1, <1>2 DEF AnyStep

LEMMA PoolIsWholeStep ==
  ASSUME TypeOK, TerminalPhase, PoolIsWhole, AnyStep
  PROVE  PoolIsWhole'
  <1>1. CASE Environment \/ \E w \in Workers : Worker(w)
    BY <1>1, EnvironmentFrame, WorkerFrame
       DEF PoolIsWhole, Finalized, finishVars
  <1>2. CASE Main
    <2> USE DEF PoolIsWhole, PastLoop, MainStep, Finalized, finishVars
    <2>1. CASE SpawnWorker
      BY <2>1 DEF SpawnWorker
    <2>2. CASE spawned' = spawned
      <3>1. main = "terminal" => terminal.label \in Labels
        BY DEF TerminalPhase
      <3>2. main # "terminal" /\ main # "exited" => terminal = NoTerminal
        BY DEF TerminalPhase
      <3>3. NoTerminal.label = "none"
        BY DEF NoTerminal
      <3>4. QED
        BY <1>2, <2>2, <3>1, <3>2, <3>3, MainMovesOn
           DEF HeaderFails, SpawnWorker, SpawnFails, Abort, Spawned,
               Disconnected, StopCollecting, DropReceiver, CaptureStarted,
               Join, SkipJoin, Decide, WriteTerminal, TerminalFails
    <2>3. QED
      BY <1>2, <2>1, <2>2, MainFrame
  <1>3. QED
    BY <1>1, <1>2 DEF AnyStep

(* The drain budget stays spent and a forced stop stays forced.            *)
LEMMA CauseIsStable ==
  ASSUME Forced \/ drained, AnyStep
  PROVE  Forced' \/ drained'
  <1>1. CASE Environment
    BY <1>1 DEF Environment, RequestGraceful, RequestForced, DrainElapses,
                GracefulFrom, Forced, collectorVars
  <1>2. CASE Main
    <2>1. Forced => Forced'
      BY <1>2, MainFrame DEF Forced, GracefulFrom
    <2>2. drained' = drained
      BY <1>2 DEF Main, collectorVars, HeaderFails, WriteHeader, SpawnWorker,
                  SpawnFails, Abort, Spawned, Receive, ReceiveTimesOut,
                  Disconnected, NoticeInterrupt, StopCollecting,
                  KeepCollecting, Tick, DropReceiver, CaptureStarted, Join,
                  SkipJoin, Decide, WriteTerminal, TerminalFails
    <2>3. QED
      BY <2>1, <2>2
  <1>3. CASE \E w \in Workers : Worker(w)
    BY <1>3, WorkerFrame DEF Forced, collectorVars
  <1>4. QED
    BY <1>1, <1>2, <1>3 DEF AnyStep

LEMMA ForcedIsStable ==
  ASSUME Forced, AnyStep
  PROVE  Forced'
  <1>1. CASE Environment
    BY <1>1 DEF Environment, RequestGraceful, RequestForced, DrainElapses,
                GracefulFrom, Forced
  <1>2. CASE Main
    BY <1>2, MainFrame DEF Forced, GracefulFrom
  <1>3. CASE \E w \in Workers : Worker(w)
    BY <1>3, WorkerFrame DEF Forced
  <1>4. QED
    BY <1>1, <1>2, <1>3 DEF AnyStep

(* With every worker gone, only Receive and the drop touch the channel.    *)
LEMMA NothingLeftIsStable ==
  ASSUME TypeOK, NotYetSpawned, NothingLeft, AnyStep, main # "spawn"
  PROVE  NothingLeft'
  <1>1. AllGone'
    BY GoneIsStable DEF NothingLeft
  <1>2. chan' = << >>
    <2>1. CASE Environment
      BY <2>1, EnvironmentFrame DEF NothingLeft
    <2>2. CASE Main
      BY <2>2, MainMoves DEF NothingLeft, Receive
    <2>3. ASSUME NEW w \in Workers, Worker(w)
          PROVE  FALSE
      BY <2>3, WorkerFrame DEF NothingLeft, AllGone
    <2>4. QED
      BY <2>1, <2>2, <2>3 DEF AnyStep
  <1>3. QED
    BY <1>1, <1>2 DEF NothingLeft

(* The record is finished only from "terminal".                            *)
LEMMA FinalizedFrom ==
  ASSUME TerminalPhase, AnyStep, Finalized'
  PROVE  WriteTerminal
  <1>1. CASE Environment \/ \E w \in Workers : Worker(w)
    BY <1>1, EnvironmentFrame, WorkerFrame DEF Finalized
  <1>2. CASE Main
    <2>1. HeaderFails \/ Abort \/ WriteTerminal \/ TerminalFails
      BY <1>2, MainMovesOn
         DEF Finalized, MainStep, SpawnWorker, SpawnFails, Spawned,
             Disconnected, StopCollecting, DropReceiver, CaptureStarted, Join,
             SkipJoin, Decide
    <2>2. NoTerminal.label = "none"
      BY DEF NoTerminal
    <2>3. CASE HeaderFails \/ Abort
      <3>1. terminal' = terminal /\ terminal = NoTerminal
        BY <2>3 DEF HeaderFails, Abort, MainStep, TerminalPhase
      <3>2. QED
        BY <2>2, <3>1 DEF Finalized
    <2>4. CASE TerminalFails
      BY <2>2, <2>4 DEF TerminalFails, Finalized
    <2>5. QED
      BY <2>1, <2>3, <2>4
  <1>3. QED
    BY <1>1, <1>2 DEF AnyStep

LEMMA EndedCleanStep ==
  ASSUME TypeOK, NotYetSpawned, TerminalPhase, EndedClean, AnyStep
  PROVE  EndedClean'
  <1> SUFFICES ASSUME main' \in PastLoop \/ Finalized'
               PROVE  Forced' \/ drained' \/ NothingLeft'
    BY DEF EndedClean
  <1>1. CASE main \in PastLoop
    <2>1. Forced \/ drained \/ NothingLeft
      BY <1>1 DEF EndedClean
    <2>2. main # "spawn"
      BY <1>1 DEF PastLoop
    <2>3. QED
      BY <2>1, <2>2, CauseIsStable, NothingLeftIsStable
  <1>2. CASE main \notin PastLoop
    <2>1. main' \in PastLoop
      BY <1>2, FinalizedFrom DEF WriteTerminal, MainStep, PastLoop
    <2>2. CASE Environment \/ \E w \in Workers : Worker(w)
      BY <1>2, <2>1, <2>2, EnvironmentFrame, WorkerFrame
    <2>3. CASE Main
      <3>1. Disconnected \/ StopCollecting
        BY <1>2, <2>1, <2>3, MainMovesOn
           DEF PastLoop, MainStep, HeaderFails, SpawnWorker, SpawnFails, Abort,
               Spawned, DropReceiver, CaptureStarted, Join, SkipJoin, Decide,
               WriteTerminal, TerminalFails
      <3>2. CASE Disconnected
        BY <3>2 DEF Disconnected, SenderAlive, NothingLeft, AllGone, workerVars
      <3>3. CASE StopCollecting
        BY <3>3 DEF StopCollecting, Forced, collectorVars
      <3>4. QED
        BY <3>1, <3>2, <3>3
    <2>4. QED
      BY <2>2, <2>3 DEF AnyStep
  <1>3. QED
    BY <1>1, <1>2

LEMMA ReapedStep ==
  ASSUME TypeOK, Reaped, NotYetSpawned, PoolIsWhole, AnyStep
  PROVE  Reaped'
  <1>1. CASE Environment
    BY <1>1, EnvironmentFrame DEF Reaped
  <1>2. CASE Main
    <2>1. CASE Join
      BY <2>1 DEF Join, Reaped, workerVars
    <2>2. CASE ~Join
      <3>1. reaped' = reaped
        BY <1>2, <2>2
           DEF Main, finishVars, HeaderFails, WriteHeader, SpawnWorker,
               SpawnFails, Abort, Spawned, Receive, ReceiveTimesOut,
               Disconnected, NoticeInterrupt, StopCollecting, KeepCollecting,
               Tick, DropReceiver, CaptureStarted, SkipJoin, Decide,
               WriteTerminal, TerminalFails
      <3>2. \A w \in Workers : pc[w] = "gone" => pc'[w] = "gone"
        <4>1. CASE pc' = pc
          BY <4>1
        <4>2. CASE SpawnWorker
          <5>1. spawned + 1 \in Workers /\ spawned + 1 > spawned
            BY <4>2, WorkerCountType DEF SpawnWorker, TypeOK, Workers
          <5>2. pc[spawned + 1] = "unspawned"
            BY <5>1 DEF NotYetSpawned
          <5>3. QED
            BY <4>2, <5>1, <5>2 DEF SpawnWorker, TypeOK
        <4>3. QED
          BY <1>2, <4>1, <4>2, MainFrame
      <3>3. QED
        BY <3>1, <3>2 DEF Reaped, TypeOK
    <2>3. QED
      BY <2>1, <2>2
  <1>3. ASSUME NEW u \in Workers, Worker(u)
        PROVE  Reaped'
    <2>1. reaped' = reaped /\ pc[u] # "gone"
      BY <1>3, WorkerFrame DEF finishVars
    <2>2. \A w \in Workers : w # u => pc'[w] = pc[w]
      BY <1>3, WorkerFrame DEF TypeOK
    <2>3. QED
      BY <2>1, <2>2 DEF Reaped, TypeOK
  <1>4. QED
    BY <1>1, <1>2, <1>3 DEF AnyStep

LEMMA JoinedAllStep ==
  ASSUME TypeOK, Reaped, NotYetSpawned, TerminalPhase, JoinedAll, AnyStep
  PROVE  JoinedAll'
  <1>1. CASE Environment \/ \E w \in Workers : Worker(w)
    <2>1. UNCHANGED <<main, terminal, reaped>>
      BY <1>1, EnvironmentFrame, WorkerFrame DEF finishVars
    <2>2. main # "exited"
      BY <1>1, EnvironmentFrame, WorkerFrame
    <2>3. CASE main \in {"decide", "terminal"}
      BY <2>1, <2>2, <2>3, ForcedIsStable, GoneIsStable DEF JoinedAll, Finalized
    <2>4. CASE main \notin {"decide", "terminal"}
      BY <2>1, <2>2, <2>4 DEF JoinedAll, Finalized
    <2>5. QED
      BY <2>3, <2>4
  <1>2. CASE Main
    <2>1. CASE Join
      BY <2>1 DEF Join, MainStep, JoinedAll, AllGone, workerVars, Finalized
    <2>2. CASE SkipJoin
      BY <2>2 DEF SkipJoin, MainStep, JoinedAll, Forced, Finalized
    <2>3. CASE Decide \/ WriteTerminal
      <3>1. main \in {"decide", "terminal"}
        BY <2>3 DEF Decide, WriteTerminal, MainStep
      <3>2. Forced \/ AllGone
        BY <3>1 DEF JoinedAll
      <3>3. Forced' \/ AllGone'
        BY <3>1, <3>2, ForcedIsStable, GoneIsStable
      <3>4. main' # "decide"
        BY <2>3 DEF Decide, WriteTerminal, MainStep
      <3>5. QED
        BY <3>3, <3>4 DEF JoinedAll
    <2>4. CASE ~Join /\ ~SkipJoin /\ ~Decide /\ ~WriteTerminal
      <3>1. ~Finalized'
        BY <2>4, FinalizedFrom
      <3>2. main' # "decide" /\ main' # "terminal"
        BY <1>2, <2>4, MainMovesOn
           DEF MainStep, HeaderFails, SpawnWorker, SpawnFails, Abort, Spawned,
               Disconnected, StopCollecting, DropReceiver, CaptureStarted,
               TerminalFails
      <3>3. QED
        BY <3>1, <3>2 DEF JoinedAll
    <2>5. QED
      BY <2>1, <2>2, <2>3, <2>4
  <1>3. QED
    BY <1>1, <1>2 DEF AnyStep

-----------------------------------------------------------------------------
(* The counts, the marks and the record.                                   *)

LEMMA EmittedWhole ==
  ASSUME NEW rows, NEW other, NEW e \in Emitted(rows, other), e[2] = FALSE
  PROVE  ~writerFailed /\ e[1] = rows
  <1>1. e = <<rows, FALSE>> \/ \E part : e = <<part, TRUE>>
    BY DEF Emitted
  <1>2. ~\E part : e = <<part, TRUE>>
    <2>1. SUFFICES ASSUME NEW part, e = <<part, TRUE>> PROVE FALSE
      OBVIOUS
    <2>2. e[2] = TRUE
      BY <2>1
    <2>3. QED
      BY <2>2
  <1>3. ~writerFailed
    <2>1. writerFailed => e = <<{}, TRUE>>
      BY DEF Emitted
    <2>2. QED
      BY <1>2, <2>1
  <1>4. e = <<rows, FALSE>>
    BY <1>1, <1>2
  <1>5. e[1] = rows
    BY <1>4
  <1>6. QED
    BY <1>3, <1>5

LEMMA CountIsTheMarksStep ==
  ASSUME TypeOK, OneHome, CountIsTheMarks, AnyStep
  PROVE  CountIsTheMarks'
  <1>1. CASE Environment \/ \E w \in Workers : Worker(w)
    BY <1>1, EnvironmentFrame, WorkerFrame DEF CountIsTheMarks, collectorVars
  <1>2. CASE Receive
    <2>1. Head(chan) \subseteq Index /\ Head(chan) = chan[1] /\ 1 \in DOMAIN chan
      BY <1>2, ChannelShrinks DEF Receive
    <2>2. marked \intersect Head(chan) = {}
      BY <2>1 DEF OneHome
    <2>3. IsFiniteSet(marked) /\ IsFiniteSet(Head(chan))
      BY <2>1, IndexFinite DEF TypeOK
    <2>4. Cardinality(marked \union Head(chan))
            = Cardinality(marked) + Cardinality(Head(chan))
            - Cardinality(marked \intersect Head(chan))
      BY <2>3, FS_Union
    <2>5. Cardinality(marked \intersect Head(chan)) = 0
      BY <2>2, FS_EmptySet
    <2>6. Cardinality(marked) \in Nat /\ Cardinality(Head(chan)) \in Nat
      BY <2>3, FS_CardinalityType
    <2>7. QED
      BY <1>2, <2>4, <2>5, <2>6 DEF Receive, CountIsTheMarks
  <1>3. CASE Main /\ ~Receive
    BY <1>3, MainMoves DEF CountIsTheMarks
  <1>4. QED
    BY <1>1, <1>2, <1>3 DEF AnyStep

LEMMA MarkedBelowBoundStep ==
  ASSUME TypeOK, TerminalPhase, OneHome, MarkedBelowBound, AnyStep
  PROVE  MarkedBelowBound'
  <1> SUFFICES ASSUME BoundRead', NEW i \in marked'
               PROVE  i < started'
    BY DEF MarkedBelowBound
  <1>1. CASE CaptureStarted
    <2>1. i \in marked /\ started' = Issued
      BY <1>1 DEF CaptureStarted, collectorVars
    <2>2. i \in Index /\ i < next
      BY <2>1 DEF OneHome, TypeOK
    <2>3. QED
      BY <2>1, <2>2, PlannedAssumption DEF Issued, Index, TypeOK
  <1>2. CASE BoundRead /\ started' = started
    <2>1. ~Receive
      BY <1>2 DEF BoundRead, Finalized, Receive, MainStep
    <2>2. marked' = marked
      BY <2>1, EnvironmentFrame, WorkerFrame, MainMoves DEF AnyStep, collectorVars
    <2>3. QED
      BY <1>2, <2>2 DEF MarkedBelowBound
  <1>3. QED
    BY <1>1, <1>2, BoundReadStep

LEMMA RecordedOnceStep ==
  ASSUME TypeOK, OneHome, RecordedOnce, AnyStep
  PROVE  RecordedOnce'
  <1>1. CASE Environment \/ \E w \in Workers : Worker(w)
    BY <1>1, EnvironmentFrame, WorkerFrame DEF RecordedOnce, collectorVars
  <1>2. CASE Receive
    <2> DEFINE batch0 == Head(chan)
    <2>1. PICK absorbed \in SUBSET batch0 :
            \E e \in Emitted(batch0 \ absorbed, FALSE) :
              /\ pending' = pending \union absorbed
              /\ recorded' = recorded \union e[1]
              /\ writerFailed' = e[2]
      BY <1>2 DEF Receive
    <2>2. PICK e \in Emitted(batch0 \ absorbed, FALSE) :
            /\ pending' = pending \union absorbed
            /\ recorded' = recorded \union e[1]
            /\ writerFailed' = e[2]
      BY <2>1
    <2>3. batch0 \intersect marked = {} /\ marked' = marked \union batch0
      <3>1. batch0 = chan[1] /\ 1 \in DOMAIN chan
        BY <1>2, ChannelShrinks DEF Receive
      <3>2. QED
        BY <1>2, <3>1 DEF OneHome, Receive
    <2>4. e[2] \in BOOLEAN
      BY EmittedType
    <2>5. CASE writerFailed'
      BY <2>5 DEF RecordedOnce
    <2>6. CASE e[2] = FALSE
      <3>1. ~writerFailed /\ e[1] = batch0 \ absorbed
        BY <2>6, EmittedWhole
      <3>2. recorded \union pending = marked /\ recorded \intersect pending = {}
        BY <3>1 DEF RecordedOnce
      <3>3. recorded' \union pending' = marked'
        BY <2>2, <2>3, <3>1, <3>2
      <3>4. recorded' \intersect pending' = {}
        BY <2>2, <2>3, <3>1, <3>2
      <3>5. QED
        BY <3>3, <3>4 DEF RecordedOnce
    <2>7. QED
      BY <2>2, <2>4, <2>5, <2>6
  <1>3. ASSUME NEW other \in BOOLEAN, NEW e \in Emitted(pending, other),
               recorded' = recorded \union e[1], writerFailed' = e[2],
               pending' = {}, marked' = marked
        PROVE  RecordedOnce'
    <2>1. e[2] \in BOOLEAN
      BY EmittedType
    <2>2. CASE e[2] = FALSE
      <3>1. ~writerFailed /\ e[1] = pending
        BY <2>2, EmittedWhole
      <3>2. QED
        BY <1>3, <3>1 DEF RecordedOnce
    <2>3. QED
      BY <1>3, <2>1, <2>2 DEF RecordedOnce
  <1>4. CASE Tick
    BY <1>3, <1>4 DEF Tick
  <1>5. CASE Decide
    BY <1>3, <1>5 DEF Decide, CountedPanic
  <1>6. CASE WriteHeader
    <2>1. PICK e \in Emitted({}, TRUE) : writerFailed' = e[2]
      BY <1>6 DEF WriteHeader
    <2>2. UNCHANGED <<recorded, pending, marked>>
      BY <1>6 DEF WriteHeader, collectorVars
    <2>3. e[2] \in BOOLEAN /\ (e[2] = FALSE => ~writerFailed)
      BY EmittedType, EmittedWhole
    <2>4. QED
      BY <2>1, <2>2, <2>3 DEF RecordedOnce
  <1>7. CASE Main /\ ~Receive /\ ~Tick /\ ~Decide /\ ~WriteHeader
    <2>1. UNCHANGED <<recorded, pending, marked, writerFailed>>
      BY <1>7 DEF Main, collectorVars, HeaderFails, SpawnWorker, SpawnFails,
                  Abort, Spawned, ReceiveTimesOut, Disconnected,
                  NoticeInterrupt, StopCollecting, KeepCollecting,
                  DropReceiver, CaptureStarted, Join, SkipJoin,
                  WriteTerminal, TerminalFails
    <2>2. QED
      BY <2>1 DEF RecordedOnce
  <1>8. QED
    BY <1>1, <1>2, <1>4, <1>5, <1>6, <1>7 DEF AnyStep

LEMMA SpansFlushedStep ==
  ASSUME TypeOK, TerminalPhase, SpansFlushed, AnyStep
  PROVE  SpansFlushed'
  <1>1. CASE Environment \/ \E w \in Workers : Worker(w)
    BY <1>1, EnvironmentFrame, WorkerFrame
       DEF SpansFlushed, collectorVars, finishVars, Finalized
  <1>2. CASE Main
    <2>1. CASE Decide
      BY <2>1 DEF Decide, SpansFlushed
    <2>2. CASE WriteTerminal
      BY <2>2 DEF WriteTerminal, SpansFlushed, MainStep, collectorVars
    <2>3. CASE ~Decide /\ ~WriteTerminal
      <3>1. ~Finalized'
        BY <2>3, FinalizedFrom DEF AnyStep, Main
      <3>2. main' # "terminal"
        BY <1>2, <2>3, MainMovesOn
           DEF MainStep, HeaderFails, SpawnWorker, SpawnFails, Abort, Spawned,
               Disconnected, StopCollecting, DropReceiver, CaptureStarted,
               Join, SkipJoin, TerminalFails
      <3>3. QED
        BY <3>1, <3>2 DEF SpansFlushed
    <2>4. QED
      BY <2>1, <2>2, <2>3
  <1>3. QED
    BY <1>1, <1>2 DEF AnyStep

LEMMA TerminalIsTheBodyStep ==
  ASSUME TypeOK, TerminalPhase, AnyStep
  PROVE  TerminalIsTheBody'
  <1> SUFFICES ASSUME Finalized' PROVE TerminalIsTheBody'
    BY DEF TerminalIsTheBody
  <1>1. WriteTerminal
    BY FinalizedFrom
  <1>2. terminal.label \in Labels
    BY <1>1 DEF WriteTerminal, MainStep, TerminalPhase
  <1>3. UNCHANGED <<completed, marked, started>> /\ terminal' = TerminalBody
          /\ exit' = ExitCode(terminal.label, writerFailed)
    BY <1>1 DEF WriteTerminal, collectorVars
  <1>4. /\ terminal'.label = terminal.label
        /\ terminal'.completed = completed
        /\ terminal'.notStarted = NotStarted
        /\ terminal'.from = started
        /\ terminal'.abandoned = Abandoned(started)
        /\ terminal'.code = ExitCode(terminal.label, writerFailed)
    BY <1>3 DEF TerminalBody
  <1>5. NotStarted' = NotStarted /\ Abandoned(started)' = Abandoned(started)
    BY <1>3 DEF NotStarted, Abandoned
  <1>6. QED
    BY <1>2, <1>3, <1>4, <1>5 DEF TerminalIsTheBody

-----------------------------------------------------------------------------
(* Nothing is lost without a cause.                                        *)

LEMMA AbortIsStopStep ==
  ASSUME AbortIsStop, AnyStep
  PROVE  AbortIsStop'
  <1>1. Cancelled => Cancelled'
    BY StopIsStable DEF AnyStep
  <1>2. CASE Environment \/ \E w \in Workers : Worker(w)
    BY <1>1, <1>2, EnvironmentFrame, WorkerFrame DEF AbortIsStop
  <1>3. CASE SpawnFails
    BY <1>3 DEF SpawnFails, GracefulFrom, Cancelled, AbortIsStop
  <1>4. CASE Main /\ ~SpawnFails
    <2>1. main' # "abort"
      BY <1>4, MainMovesOn
         DEF MainStep, HeaderFails, SpawnWorker, Abort, Spawned, Disconnected,
             StopCollecting, DropReceiver, CaptureStarted, Join, SkipJoin,
             Decide, WriteTerminal, TerminalFails
    <2>2. QED
      BY <2>1 DEF AbortIsStop
  <1>5. QED
    BY <1>2, <1>3, <1>4 DEF AnyStep

(* A panic is not forgotten.                                               *)
LEMMA PanicIsStable ==
  ASSUME AnyStep
  PROVE  panicked \subseteq panicked'
  <1>1. CASE Environment \/ Main
    BY <1>1, EnvironmentFrame, MainFrame
  <1>2. ASSUME NEW w \in Workers, Worker(w)
        PROVE  panicked \subseteq panicked'
    BY <1>2 DEF Worker, Take, Withdraw, Acquire, StartProbe, ProbeReturns,
                GiveUpRetry, RetryProbe, Report, SendBatch, Leave, Panic
  <1>3. QED
    BY <1>1, <1>2 DEF AnyStep

LEMMA UndisturbedBefore ==
  ASSUME AnyStep, Undisturbed'
  PROVE  Undisturbed
  BY StopIsStable, PanicIsStable DEF Undisturbed, AnyStep

(* A worker that still runs finds the receiver gone only after a stop or   *)
(* an abort, and without an abort only after a forced stop or a drain.     *)
LEMMA ReceiverGone ==
  ASSUME TypeOK, ReceiverLives, EndedClean, NEW w \in Workers,
         pc[w] # "gone", ~rxOpen, main # "exited"
  PROVE  main = "abort" \/ Forced \/ drained
  BY DEF TypeOK, ReceiverLives, BeforeDrop, EndedClean, PastLoop, NothingLeft,
         AllGone

LEMMA CausesAreStops ==
  ASSUME DrainFollowsStop, Forced \/ drained
  PROVE  Cancelled
  BY DEF DrainFollowsStop, Cancelled, Forced

LEMMA NothingIsLostStep ==
  ASSUME TypeOK, HoldsIndex, DrainFollowsStop, OneHome, ReceiverLives,
         EndedClean, AbortIsStop, NothingIsLost, AnyStep
  PROVE  NothingIsLost'
  <1> SUFFICES ASSUME Undisturbed' PROVE NothingIsLost'
    BY DEF NothingIsLost
  <1>1. Undisturbed
    BY UndisturbedBefore
  <1>2. \A i \in Index : i < next => Located(i)
    BY <1>1 DEF NothingIsLost
  <1>3. \A w \in Workers : pc[w] \in {"leaving", "gone"} => Planned <= next
    BY <1>1 DEF NothingIsLost
  <1>4. next \in Nat /\ next' \in Nat /\ next <= next'
    BY CounterGrows DEF TypeOK
  <1>5. CASE Environment
    <2>1. InChannel' = InChannel
      BY <1>5, EnvironmentFrame DEF InChannel
    <2>2. QED
      BY <1>2, <1>3, <1>5, <2>1, EnvironmentFrame
         DEF NothingIsLost, Located, InHand, InBatch
  <1>6. CASE Main
    <2>1. UNCHANGED <<next, index, batch>>
      BY <1>6, MainFrame
    <2>2. \A w \in Workers : pc'[w] \in {"leaving", "gone"} => pc[w] = pc'[w]
      BY <1>6, MainFrame DEF SpawnWorker, TypeOK
    <2>3. \A i : i \in InChannel \/ i \in marked => i \in InChannel' \/ i \in marked'
      <3>1. CASE Receive
        BY <3>1, ChannelShrinks DEF Receive
      <3>2. CASE SpawnFails
        BY <3>2 DEF SpawnFails, GracefulFrom, Undisturbed, Cancelled
      <3>3. CASE DropReceiver /\ marked' = marked
        <4>1. NothingLeft
          BY <1>1, <3>3, CausesAreStops
             DEF DropReceiver, MainStep, EndedClean, PastLoop, Undisturbed
        <4>2. InChannel = {}
          BY <4>1, EmptySeq DEF NothingLeft, InChannel
        <4>3. QED
          BY <3>3, <4>2
      <3>4. CASE chan' = chan /\ marked' = marked
        BY <3>4 DEF InChannel
      <3>5. QED
        BY <1>6, <3>1, <3>2, <3>3, <3>4, MainMoves
    <2>4. QED
      BY <1>2, <1>3, <2>1, <2>2, <2>3 DEF NothingIsLost, Located, InHand, InBatch
  <1>7. ASSUME NEW u \in Workers, Worker(u)
        PROVE  NothingIsLost'
    <2>1. marked' = marked /\ cancel' = cancel /\ main # "exited" /\ pc[u] # "gone"
      BY <1>7, WorkerFrame DEF collectorVars
    <2>2. rxOpen
      BY <1>1, <2>1, ReceiverGone, CausesAreStops DEF AbortIsStop, Undisturbed
    <2>3. \A w \in Workers : pc'[w] \in {"leaving", "gone"} => Planned <= next'
      <3>1. \A w \in Workers : w # u => pc'[w] = pc[w]
        BY <1>7, WorkerFrame DEF TypeOK
      <3>2. Planned <= next => Planned <= next'
        BY <1>4, PlannedAssumption
      <3>3. pc'[u] \in {"leaving", "gone"} => Planned <= next
        <4> USE DEF Step, TypeOK
        <4>1. CASE Take(u)
          BY <1>4, <4>1, PlannedAssumption DEF Take
        <4>2. CASE Withdraw(u) \/ Panic(u)
          BY <1>1, <4>2 DEF Withdraw, Panic, Undisturbed
        <4>3. CASE SendBatch(u)
          BY <2>2, <4>3 DEF SendBatch
        <4>4. CASE Leave(u)
          BY <1>3, <4>4 DEF Leave
        <4>5. CASE Acquire(u) \/ StartProbe(u) \/ ProbeReturns(u)
                     \/ GiveUpRetry(u) \/ RetryProbe(u) \/ Report(u)
          BY <4>5 DEF Acquire, StartProbe, ProbeReturns, GiveUpRetry,
                      RetryProbe, Report
        <4>6. QED
          BY <1>7, <4>1, <4>2, <4>3, <4>4, <4>5 DEF Worker
      <3>4. QED
        BY <1>3, <3>1, <3>2, <3>3
    <2>4. \A i \in Index : i < next' => Located(i)'
      <3> USE DEF Located, InHand, InBatch
      <3>1. CASE Taking(u)
        <4>1. InChannel' = InChannel /\ batch' = batch
          BY <3>1 DEF Taking, InChannel
        <4>2. \A i \in Index : InHand(i) => InHand(i)'
          BY <3>1 DEF Taking, TypeOK, NoIndex, Index
        <4>3. \A i \in Index : i = next => InHand(i)'
          <5>1. next \in Index => next < Planned
            BY PlannedAssumption DEF Index
          <5>2. index'[u] = IF next < Planned THEN next ELSE NoIndex
            BY <3>1 DEF Taking, TypeOK
          <5>3. QED
            BY <5>1, <5>2
        <4>4. next' = next + 1
          BY <3>1 DEF Taking
        <4>5. \A i \in Index : i < next' => i < next \/ i = next
          BY <1>4, <4>4 DEF Index
        <4>6. QED
          BY <1>2, <2>1, <4>1, <4>2, <4>3, <4>5
      <3>2. CASE Losing(u)
        BY <1>1, <2>1, <3>2 DEF Losing, Undisturbed, Cancelled
      <3>3. CASE Keeping
        BY <1>2, <2>1, <3>3 DEF Keeping, InChannel
      <3>4. CASE Batching(u)
        <4>1. InChannel' = InChannel /\ next' = next
          BY <3>4 DEF Batching, InChannel
        <4>2. \A i : InHand(i) => InHand(i)' \/ i = index[u]
          BY <3>4 DEF Batching, TypeOK
        <4>3. batch' = [batch EXCEPT ![u] = batch[u] \union {index[u]}]
          BY <3>4 DEF Batching
        <4>4. batch \in [Workers -> SUBSET Index]
          BY DEF TypeOK
        <4>5. \A i : i = index[u] => InBatch(i)'
          BY <4>3, <4>4
        <4>6. \A i : InBatch(i) => InBatch(i)'
          BY <4>3, <4>4
        <4>7. QED
          BY <1>2, <2>1, <4>1, <4>2, <4>5, <4>6
      <3>5. CASE Passing(u)
        <4>1. \A i : InBatch(i) => InBatch(i)' \/ i \in batch[u]
          BY <3>5 DEF Passing, TypeOK
        <4>2. \A i : i \in InChannel \/ i \in batch[u] => i \in InChannel'
          <5>1. CASE chan' = Append(chan, batch[u])
            <6>1. batch[u] \in SUBSET Index
              BY DEF TypeOK
            <6>2. QED
              BY <5>1, <6>1, ChannelGrows
          <5>2. CASE batch[u] = {} /\ chan' = chan
            BY <5>2 DEF InChannel
          <5>3. QED
            BY <2>2, <3>5, <5>1, <5>2 DEF Passing
        <4>3. UNCHANGED <<next, index>>
          BY <3>5 DEF Passing
        <4>4. QED
          BY <1>2, <2>1, <4>1, <4>2, <4>3
      <3>6. QED
        BY <1>7, <3>1, <3>2, <3>3, <3>4, <3>5, WorkerMoves
    <2>5. QED
      BY <2>3, <2>4 DEF NothingIsLost
  <1>8. QED
    BY <1>5, <1>6, <1>7 DEF AnyStep

LEMMA FinishedIsOnItsWayStep ==
  ASSUME TypeOK, HoldsIndex, TerminalPhase, OneHome, ReceiverLives, EndedClean,
         FinishedIsOnItsWay, AnyStep
  PROVE  FinishedIsOnItsWay'
  <1> SUFFICES ASSUME main' \notin {"abort", "exited"} \/ Finalized',
                      ~drained', ~Forced',
                      NEW i \in Index, outcome'[i] # "none"
               PROVE  InBatch(i)' \/ i \in InChannel'
    BY DEF FinishedIsOnItsWay
  <1>1. ~drained /\ ~Forced
    BY CauseIsStable
  <1>2. main \notin {"abort", "exited"}
    <2>1. CASE Finalized'
      BY <2>1, FinalizedFrom DEF WriteTerminal, MainStep
    <2>2. CASE ~Finalized'
      <3>1. main # "exited"
        BY EnvironmentFrame, MainFrame, WorkerFrame DEF AnyStep
      <3>2. main = "abort" => main' \in {"abort", "exited"}
        <4>1. CASE Environment \/ \E w \in Workers : Worker(w)
          BY <4>1, EnvironmentFrame, WorkerFrame
        <4>2. CASE Main
          BY <4>2, MainMovesOn
             DEF MainStep, HeaderFails, SpawnWorker, SpawnFails, Abort,
                 Spawned, Disconnected, StopCollecting, DropReceiver,
                 CaptureStarted, Join, SkipJoin, Decide, WriteTerminal,
                 TerminalFails
        <4>3. QED
          BY <4>1, <4>2 DEF AnyStep
      <3>3. QED
        BY <2>2, <3>1, <3>2
    <2>3. QED
      BY <2>1, <2>2
  <1>3. \A j \in Index : outcome[j] # "none" => InBatch(j) \/ j \in InChannel
    BY <1>1, <1>2 DEF FinishedIsOnItsWay
  <1> USE DEF InBatch
  <1>4. CASE Environment
    BY <1>3, <1>4, EnvironmentFrame DEF InChannel
  <1>5. CASE Main
    <2>1. batch' = batch
      BY <1>5, MainFrame
    <2>2. CASE Receive
      <3>1. outcome' = [j \in Index |-> IF j \in Head(chan) THEN "none" ELSE outcome[j]]
        BY <2>2 DEF Receive
      <3>2. i \notin Head(chan) /\ outcome[i] # "none"
        BY <3>1
      <3>3. QED
        BY <1>3, <2>1, <2>2, <3>2, ChannelShrinks DEF Receive
    <2>3. CASE SpawnFails
      BY <2>3 DEF SpawnFails, MainStep, Finalized
    <2>4. CASE DropReceiver /\ outcome' = outcome
      <3>1. NothingLeft
        BY <1>1, <2>4 DEF DropReceiver, MainStep, EndedClean, PastLoop
      <3>2. InChannel = {}
        BY <3>1, EmptySeq DEF NothingLeft, InChannel
      <3>3. QED
        BY <1>3, <2>1, <2>4, <3>2
    <2>5. CASE chan' = chan /\ outcome' = outcome
      BY <1>3, <2>1, <2>5 DEF InChannel
    <2>6. QED
      BY <1>5, <2>2, <2>3, <2>4, <2>5, MainMoves
  <1>6. ASSUME NEW u \in Workers, Worker(u)
        PROVE  InBatch(i)' \/ i \in InChannel'
    <2>1. rxOpen
      BY <1>1, <1>2, <1>6, WorkerFrame, ReceiverGone
    <2>2. CASE Taking(u) \/ Losing(u) \/ Keeping
      BY <1>3, <2>2 DEF Taking, Losing, Keeping, InChannel
    <2>3. CASE Batching(u)
      <3>1. InChannel' = InChannel
        BY <2>3 DEF Batching, InChannel
      <3>2. batch' = [batch EXCEPT ![u] = batch[u] \union {index[u]}]
        BY <2>3 DEF Batching
      <3>3. batch \in [Workers -> SUBSET Index] /\ outcome \in [Index -> Answer \union {"none"}]
        BY DEF TypeOK
      <3>4. CASE i = index[u]
        BY <3>2, <3>3, <3>4
      <3>5. CASE i # index[u]
        <4>1. outcome'[i] = outcome[i]
          BY <2>3, <3>3, <3>5 DEF Batching
        <4>2. InBatch(i) => InBatch(i)'
          BY <3>2, <3>3
        <4>3. QED
          BY <1>3, <3>1, <4>1, <4>2
      <3>6. QED
        BY <3>4, <3>5
    <2>4. CASE Passing(u)
      <3>1. InBatch(i) => InBatch(i)' \/ i \in batch[u]
        BY <2>4 DEF Passing, TypeOK
      <3>2. i \in InChannel \/ i \in batch[u] => i \in InChannel'
        <4>1. CASE chan' = Append(chan, batch[u])
          <5>1. batch[u] \in SUBSET Index
            BY DEF TypeOK
          <5>2. QED
            BY <4>1, <5>1, ChannelGrows
        <4>2. CASE batch[u] = {} /\ chan' = chan
          BY <4>2 DEF InChannel
        <4>3. QED
          BY <2>1, <2>4, <4>1, <4>2 DEF Passing
      <3>3. outcome' = outcome
        BY <2>4 DEF Passing
      <3>4. QED
        BY <1>3, <3>1, <3>2, <3>3
    <2>5. QED
      BY <1>6, <2>2, <2>3, <2>4, WorkerMoves
  <1>7. QED
    BY <1>4, <1>5, <1>6 DEF AnyStep

-----------------------------------------------------------------------------
(* The label.                                                              *)

(* The last step before the record is finished leaves the accounts alone.  *)
LEMMA LabelledStep ==
  ASSUME TypeOK, TerminalPhase, AnyStep, Labelled'
  PROVE  \/ Decide
         \/ /\ main = "terminal" /\ terminal'.label = terminal.label
            /\ UNCHANGED <<completed, marked, pending, recorded, writerFailed>>
            /\ Environment \/ WriteTerminal \/ \E w \in Workers : Worker(w)
  <1>1. CASE Finalized'
    <2>1. WriteTerminal
      BY <1>1, FinalizedFrom
    <2>2. QED
      BY <2>1 DEF WriteTerminal, TerminalBody, MainStep, collectorVars
  <1>2. CASE main' = "terminal"
    <2>1. CASE Environment \/ \E w \in Workers : Worker(w)
      BY <1>2, <2>1, EnvironmentFrame, WorkerFrame DEF collectorVars, finishVars
    <2>2. CASE Main
      BY <1>2, <2>2, MainMovesOn
         DEF MainStep, HeaderFails, SpawnWorker, SpawnFails, Abort, Spawned,
             Disconnected, StopCollecting, DropReceiver, CaptureStarted, Join,
             SkipJoin, WriteTerminal, TerminalFails
    <2>3. QED
      BY <2>1, <2>2 DEF AnyStep
  <1>3. QED
    BY <1>1, <1>2 DEF Labelled

LEMMA CompletedIsWholeStep ==
  ASSUME Inv1, OneHome, IdleIsEmpty, EndedClean, JoinedAll, RecordedOnce,
         NothingIsLost, CompletedIsWhole, AnyStep
  PROVE  CompletedIsWhole'
  <1> SUFFICES ASSUME Labelled', terminal'.label = "completed"
               PROVE  CompletedIsWhole'
    BY DEF CompletedIsWhole
  <1>1. TypeOK /\ HoldsIndex /\ TerminalPhase /\ DrainFollowsStop
    BY DEF Inv1
  <1>2. CASE Decide
    <2>1. PICK e \in Emitted(pending, CountedPanic) :
            /\ recorded' = recorded \union e[1]
            /\ writerFailed' = e[2]
            /\ terminal' = [terminal EXCEPT !.label = LabelFor(e[2])]
      BY <1>2 DEF Decide
    <2>2. LabelFor(e[2]) = "completed"
      BY <1>1, <2>1 DEF TypeOK, TerminalEvent
    <2>3. e[2] \in BOOLEAN
      BY EmittedType
    <2>4. ~e[2] /\ ~CountedPanic /\ ~Cancelled
      BY <2>2, <2>3 DEF LabelFor
    <2>5. AllGone /\ reaped = Workers
      BY <1>2, <2>4 DEF Decide, MainStep, JoinedAll, Forced, Cancelled
    <2>6. panicked = {}
      BY <1>1, <2>4, <2>5 DEF CountedPanic, TypeOK
    <2>7. chan = << >>
      BY <1>1, <1>2, <2>4, CausesAreStops
         DEF Decide, MainStep, EndedClean, PastLoop, NothingLeft
    <2>8. InChannel = {}
      BY <2>7, EmptySeq DEF InChannel
    <2>9. \A w \in Workers : index[w] = NoIndex /\ batch[w] = {}
      BY <1>1, <2>5 DEF AllGone, HoldsIndex, Holding, IdleIsEmpty
    <2>10. Planned <= next
      <3>1. 1 \in Workers
        BY WorkerCountType DEF Workers
      <3>2. QED
        BY <2>4, <2>5, <2>6, <3>1 DEF NothingIsLost, Undisturbed, AllGone
    <2>11. \A i \in Index : i < next /\ i # NoIndex
      BY <1>1, <2>10, PlannedAssumption DEF Index, NoIndex, TypeOK
    <2>12. marked = Index
      <3>1. \A i \in Index : Located(i)
        BY <2>4, <2>6, <2>11 DEF NothingIsLost, Undisturbed
      <3>2. \A i \in Index : ~InHand(i) /\ ~InBatch(i)
        BY <2>9, <2>11 DEF InHand, InBatch
      <3>3. \A i \in Index : i \in marked
        BY <2>8, <3>1, <3>2 DEF Located
      <3>4. marked \subseteq Index
        BY <1>1 DEF TypeOK
      <3>5. QED
        BY <3>3, <3>4
    <2>13. e[2] = FALSE
      BY <2>3, <2>4
    <2>14. ~writerFailed /\ e[1] = pending
      BY <2>13, EmittedWhole
    <2>15. recorded' = Index
      BY <2>1, <2>12, <2>14 DEF RecordedOnce
    <2>16. UNCHANGED <<pc, marked, panicked>>
      BY <1>2 DEF Decide, workerVars
    <2>17. QED
      BY <2>1, <2>5, <2>6, <2>12, <2>13, <2>15, <2>16 DEF CompletedIsWhole, AllGone
  <1>3. CASE ~Decide
    <2>1. /\ main = "terminal" /\ terminal'.label = terminal.label
          /\ UNCHANGED <<marked, recorded, writerFailed>>
          /\ Environment \/ WriteTerminal \/ \E w \in Workers : Worker(w)
      BY <1>1, <1>3, LabelledStep
    <2>2. AllGone /\ marked = Index /\ recorded = Index /\ panicked = {} /\ ~writerFailed
      BY <2>1 DEF CompletedIsWhole, Labelled
    <2>3. ~\E w \in Workers : Worker(w)
      BY <2>2, WorkerFrame DEF AllGone
    <2>4. UNCHANGED <<pc, panicked>>
      BY <2>1, <2>3, EnvironmentFrame DEF WriteTerminal, workerVars
    <2>5. QED
      BY <2>1, <2>2, <2>4 DEF CompletedIsWhole, AllGone
  <1>4. QED
    BY <1>2, <1>3

LEMMA PanicIsLabelledStep ==
  ASSUME TypeOK, TerminalPhase, JoinedAll, PanicIsLabelled, AnyStep
  PROVE  PanicIsLabelled'
  <1> SUFFICES ASSUME Labelled', panicked' # {}, ~Forced'
               PROVE  terminal'.label = "failed"
    BY DEF PanicIsLabelled
  <1>1. ~Forced
    BY ForcedIsStable
  <1>2. CASE Decide
    <2>1. PICK e \in Emitted(pending, CountedPanic) :
            terminal' = [terminal EXCEPT !.label = LabelFor(e[2])]
      BY <1>2 DEF Decide
    <2>2. reaped = Workers /\ panicked' = panicked
      BY <1>1, <1>2 DEF Decide, MainStep, JoinedAll
    <2>3. CountedPanic
      BY <2>2 DEF CountedPanic, TypeOK
    <2>4. LabelFor(e[2]) = "failed"
      BY <2>3 DEF LabelFor
    <2>5. QED
      BY <2>1, <2>4 DEF TypeOK, TerminalEvent
  <1>3. CASE ~Decide
    <2>1. /\ main = "terminal" /\ terminal'.label = terminal.label
          /\ Environment \/ WriteTerminal \/ \E w \in Workers : Worker(w)
      BY <1>3, LabelledStep
    <2>2. AllGone
      BY <1>1, <2>1 DEF JoinedAll
    <2>3. ~\E w \in Workers : Worker(w)
      BY <2>2, WorkerFrame DEF AllGone
    <2>4. panicked' = panicked
      BY <2>1, <2>3, EnvironmentFrame DEF WriteTerminal
    <2>5. QED
      BY <1>1, <2>1, <2>4 DEF PanicIsLabelled, Labelled
  <1>4. QED
    BY <1>2, <1>3

-----------------------------------------------------------------------------
(* The inductive invariant and what follows from it.                       *)

LEMMA Inv2Init == Init => Inv2
  <1> SUFFICES ASSUME Init PROVE Inv2
    OBVIOUS
  <1>1. Inv1
    BY Inv1Init
  <1>2. InChannel = {} /\ DOMAIN chan = {}
    BY EmptySeq DEF Init, InChannel
  <1>3. ~Finalized
    BY DEF Init, Finalized
  <1>4. OneHome
    BY <1>2 DEF Init, OneHome
  <1>5. IdleIsEmpty /\ ReceiverLives /\ AbortIsStop /\ Reaped
    BY DEF Init, IdleIsEmpty, ReceiverLives, AbortIsStop, Reaped
  <1>6. PoolIsWhole
    BY <1>3, WorkerCountType DEF Init, PoolIsWhole, PastLoop
  <1>7. EndedClean /\ JoinedAll
    BY <1>3 DEF Init, EndedClean, JoinedAll, PastLoop
  <1>8. CountIsTheMarks
    BY FS_EmptySet DEF Init, CountIsTheMarks
  <1>9. MarkedBelowBound /\ RecordedOnce /\ SpansFlushed /\ TerminalIsTheBody
    BY <1>3 DEF Init, MarkedBelowBound, RecordedOnce, SpansFlushed, TerminalIsTheBody
  <1>10. NothingIsLost
    BY DEF Init, NothingIsLost, Index
  <1>11. FinishedIsOnItsWay
    BY DEF Init, FinishedIsOnItsWay
  <1>12. CompletedIsWhole /\ PanicIsLabelled
    BY <1>3 DEF Init, CompletedIsWhole, PanicIsLabelled, Labelled
  <1>13. QED
    BY <1>1, <1>4, <1>5, <1>6, <1>7, <1>8, <1>9, <1>10, <1>11, <1>12 DEF Inv2

LEMMA Inv2Stutters ==
  ASSUME Inv2, UNCHANGED vars
  PROVE  Inv2'
  <1> USE DEF vars, workerVars, collectorVars, finishVars, Inv2
  <1>1. Inv1'
    BY Inv1Step
  <1>2. OneHome' /\ IdleIsEmpty' /\ ReceiverLives' /\ AbortIsStop' /\ Reaped'
    BY DEF OneHome, InChannel, IdleIsEmpty, ReceiverLives, AbortIsStop, Cancelled,
           Reaped
  <1>3. Finalized' <=> Finalized
    BY DEF Finalized
  <1>4. PoolIsWhole' /\ EndedClean' /\ JoinedAll'
    BY <1>3 DEF PoolIsWhole, EndedClean, JoinedAll, NothingLeft, AllGone, Forced
  <1>5. CountIsTheMarks' /\ MarkedBelowBound' /\ RecordedOnce' /\ SpansFlushed'
    BY <1>3 DEF CountIsTheMarks, MarkedBelowBound, BoundRead, RecordedOnce, SpansFlushed
  <1>6. TerminalIsTheBody'
    BY <1>3 DEF TerminalIsTheBody, NotStarted, Abandoned
  <1>7. NothingIsLost'
    BY DEF NothingIsLost, Undisturbed, Cancelled, Located, InHand, InBatch, InChannel
  <1>8. FinishedIsOnItsWay'
    BY <1>3 DEF FinishedIsOnItsWay, Forced, InBatch, InChannel
  <1>9. CompletedIsWhole' /\ PanicIsLabelled'
    BY <1>3 DEF CompletedIsWhole, PanicIsLabelled, Labelled, AllGone, Forced
  <1>10. QED
    BY <1>1, <1>2, <1>4, <1>5, <1>6, <1>7, <1>8, <1>9

LEMMA Inv2Step == Inv2 /\ [Next]_vars => Inv2'
  <1> SUFFICES ASSUME Inv2, [Next]_vars PROVE Inv2'
    OBVIOUS
  <1>1. CASE AnyStep
    <2>1. TypeOK /\ HoldsIndex /\ NotYetSpawned /\ TerminalPhase /\ DrainFollowsStop
      BY DEF Inv2, Inv1
    <2>2. Inv1'
      BY Inv1Step DEF Inv2
    <2>3. OneHome' /\ IdleIsEmpty' /\ ReceiverLives'
      BY <1>1, <2>1, OneHomeStep, IdleIsEmptyStep, ReceiverLivesStep DEF Inv2
    <2>4. PoolIsWhole' /\ AbortIsStop' /\ EndedClean' /\ JoinedAll' /\ Reaped'
      BY <1>1, <2>1, PoolIsWholeStep, AbortIsStopStep, EndedCleanStep,
         JoinedAllStep, ReapedStep DEF Inv2
    <2>5. CountIsTheMarks' /\ MarkedBelowBound' /\ RecordedOnce'
      BY <1>1, <2>1, CountIsTheMarksStep, MarkedBelowBoundStep, RecordedOnceStep
         DEF Inv2
    <2>6. SpansFlushed' /\ TerminalIsTheBody'
      BY <1>1, <2>1, SpansFlushedStep, TerminalIsTheBodyStep DEF Inv2
    <2>7. NothingIsLost' /\ FinishedIsOnItsWay'
      BY <1>1, <2>1, NothingIsLostStep, FinishedIsOnItsWayStep DEF Inv2
    <2>8. CompletedIsWhole' /\ PanicIsLabelled'
      BY <1>1, <2>1, CompletedIsWholeStep, PanicIsLabelledStep DEF Inv2
    <2>9. QED
      BY <2>2, <2>3, <2>4, <2>5, <2>6, <2>7, <2>8 DEF Inv2
  <1>2. CASE UNCHANGED vars
    BY <1>2, Inv2Stutters
  <1>3. QED
    BY <1>1, <1>2, NextCases

LEMMA Inv2Always == Spec => []Inv2
  BY Inv2Init, Inv2Step, PTL DEF Spec

(* Every index has one home: a probe is issued to one worker, and its      *)
(* result is in one worker's batch, in one batch of the channel, or        *)
(* counted, never in two of these, whatever the schedule, the stop and the *)
(* panics (WorkCounter::take, Batch and the collector's loop).             *)
THEOREM IndexHasOneHome == Spec => []OneHome
  BY Inv2Always, PTL DEF Inv2

(* What is below the bound of the unstarted range is either marked or      *)
(* abandoned, and their numbers add up to it.                              *)
LEMMA BoundIsCounted ==
  ASSUME TypeOK, \A i \in marked : i < started
  PROVE  /\ Abandoned(started) = (0 .. (started - 1)) \ marked
         /\ Cardinality(marked) + Cardinality(Abandoned(started)) = started
         /\ Cardinality(marked) \in Nat /\ Cardinality(Abandoned(started)) \in Nat
  <1> DEFINE below == 0 .. (started - 1)
  <1>1. started \in Nat /\ started <= Planned
    BY PlannedAssumption DEF TypeOK
  <1>2. below \subseteq Index
    BY <1>1, PlannedAssumption DEF Index
  <1>3. marked \subseteq below
    BY <1>1, PlannedAssumption DEF TypeOK, Index
  <1>4. Abandoned(started) = below \ marked
    BY <1>2 DEF Abandoned
  <1>5. IsFiniteSet(below) /\ Cardinality(below) = started
    BY <1>1, FS_Interval
  <1>6. Cardinality(below \ marked) = Cardinality(below) - Cardinality(below \intersect marked)
    BY <1>5, FS_Difference
  <1>7. below \intersect marked = marked
    BY <1>3
  <1>8. Cardinality(marked) \in Nat /\ Cardinality(below \ marked) \in Nat
    BY <1>3, <1>5, FS_Subset, FS_Difference, FS_CardinalityType
  <1>9. Cardinality(below \ marked) = started - Cardinality(marked)
    BY <1>5, <1>6, <1>7
  <1>10. Cardinality(marked) + Cardinality(below \ marked) = started
    BY <1>1, <1>8, <1>9
  <1>11. QED
    BY <1>4, <1>8, <1>10

LEMMA Inv2Accounts == Inv2 => EveryIndexIsAccounted
  <1> SUFFICES ASSUME Inv2, Finalized PROVE EveryIndexIsAccounted
    BY DEF EveryIndexIsAccounted
  <1>1. TypeOK
    BY DEF Inv2, Inv1
  <1>2. /\ terminal.completed = completed /\ terminal.notStarted = Planned - started
        /\ terminal.from = started /\ terminal.abandoned = Abandoned(started)
    BY DEF Inv2, TerminalIsTheBody, NotStarted
  <1>3. completed = Cardinality(marked) /\ \A i \in marked : i < started
    BY DEF Inv2, CountIsTheMarks, MarkedBelowBound, BoundRead
  <1>4. /\ Abandoned(started) = (0 .. (started - 1)) \ marked
        /\ Cardinality(marked) + Cardinality(Abandoned(started)) = started
        /\ Cardinality(marked) \in Nat /\ Cardinality(Abandoned(started)) \in Nat
    BY <1>1, <1>3, BoundIsCounted
  <1>5. started \in Nat /\ started <= Planned /\ Planned \in Nat
    BY <1>1, PlannedAssumption DEF TypeOK
  <1>6. terminal.completed + Cardinality(terminal.abandoned) + terminal.notStarted = Planned
    BY <1>2, <1>3, <1>4, <1>5
  <1>7. marked \union terminal.abandoned \union (terminal.from .. (Planned - 1)) = Index
    <2>1. marked \subseteq Index
      BY <1>1 DEF TypeOK
    <2>2. \A i : i \in Index <=> i \in 0 .. (started - 1) \/ i \in started .. (Planned - 1)
      BY <1>5 DEF Index
    <2>3. QED
      BY <1>2, <1>4, <2>1, <2>2
  <1>8. marked \intersect terminal.abandoned = {}
    BY <1>2, <1>4
  <1>9. \A i \in marked \union terminal.abandoned : i < terminal.from
    BY <1>2, <1>3, <1>4, <1>5
  <1>10. QED
    BY <1>2, <1>3, <1>6, <1>7, <1>8, <1>9 DEF EveryIndexIsAccounted

(* The terminal event of every finished record partitions the plan: each   *)
(* planned index was counted, is named as abandoned, or lies in the range  *)
(* never started, and the three numbers add up (finish, terminal_body).    *)
THEOREM IndicesAreAccounted == Spec => []EveryIndexIsAccounted
  BY Inv2Always, Inv2Accounts, PTL

(* As long as no write failed, the rows and spans of the record and the    *)
(* span accumulator together are exactly the counted results, and a        *)
(* finished record has them all (the collector's absorb, record and flush).*)
THEOREM RecordBacksCounts == Spec => []RecordBacksTheCounts
  <1>1. Inv2 => RecordBacksTheCounts
    BY DEF Inv2, RecordedOnce, SpansFlushed, RecordBacksTheCounts
  <1>2. QED
    BY <1>1, Inv2Always, PTL

LEMMA Inv2Collects == Inv2 => NoFinishedProbeIsAbandoned
  <1> SUFFICES ASSUME Inv2, Finalized, ~drained, ~Forced, NEW i \in Index
               PROVE  outcome[i] = "none"
    BY DEF NoFinishedProbeIsAbandoned
  <1>1. AllGone /\ chan = << >>
    BY DEF Inv2, EndedClean, NothingLeft
  <1>2. ~InBatch(i) /\ i \notin InChannel
    BY <1>1, EmptySeq DEF Inv2, IdleIsEmpty, AllGone, InBatch, InChannel
  <1>3. QED
    BY <1>2 DEF Inv2, FinishedIsOnItsWay

(* Unless the stop was forced or the drain budget ran out, no result a     *)
(* worker finished is missing from a finished record, whichever worker     *)
(* withdrew or died (Batch and its Drop).                                  *)
THEOREM FinishedProbesAreKept == Spec => []NoFinishedProbeIsAbandoned
  BY Inv2Always, Inv2Collects, PTL

LEMMA Inv2Labels == Inv2 => LabelIsEarned
  <1> SUFFICES ASSUME Inv2, Finalized PROVE LabelIsEarned
    BY DEF LabelIsEarned
  <1>1. ASSUME terminal.label = "completed"
        PROVE  /\ marked = Index /\ recorded = Index /\ panicked = {}
               /\ ~writerFailed
               /\ terminal.notStarted = 0 /\ terminal.abandoned = {}
    <2>1. marked = Index /\ recorded = Index /\ panicked = {} /\ ~writerFailed
      BY <1>1 DEF Inv2, CompletedIsWhole, Labelled
    <2>2. started \in 0 .. Planned
      BY DEF Inv2, Inv1, TypeOK
    <2>3. \A i \in Index : i < started
      BY <2>1 DEF Inv2, MarkedBelowBound, BoundRead
    <2>4. started = Planned
      BY <2>2, <2>3, PlannedAssumption DEF Index
    <2>5. terminal.notStarted = Planned - started /\ terminal.abandoned = Abandoned(started)
      BY DEF Inv2, TerminalIsTheBody, NotStarted
    <2>6. Abandoned(started) = {}
      BY <2>1 DEF Abandoned
    <2>7. QED
      BY <2>1, <2>4, <2>5, <2>6, PlannedAssumption
  <1>2. panicked # {} /\ ~Forced => terminal.label = "failed"
    BY DEF Inv2, PanicIsLabelled, Labelled
  <1>3. QED
    BY <1>1, <1>2 DEF LabelIsEarned

(* A record labelled scan_completed is whole, with every planned probe     *)
(* counted and recorded, and a crashed worker outranks an interrupt unless *)
(* the stop was forced (execute_with's label, finish).                     *)
THEOREM LabelEarned == Spec => []LabelIsEarned
  BY Inv2Always, Inv2Labels, PTL

-----------------------------------------------------------------------------
(* What the mapping needs besides Inv2: results come from probes that were *)
(* sent, and a probe about to be sent was not sent before.                 *)

Underway == {"probing", "retry", "slept", "report"}

SentFirst ==
  /\ \A w \in Workers : pc[w] \in Underway => index[w] \in touched
  /\ \A w \in Workers : batch[w] \subseteq touched
  /\ InChannel \subseteq touched
  /\ marked \subseteq touched
SentOnce == \A w \in Workers : pc[w] \in {"taken", "acquired"} => index[w] \notin touched

(* The exit code is what the process ends with.                            *)
ExitIsLast == Running => exit = NoIndex

Inv3 == Inv2 /\ SentFirst /\ SentOnce /\ ExitIsLast

LEMMA SentStep ==
  ASSUME TypeOK, HoldsIndex, TouchedWasIssued, OneHome, SentFirst, SentOnce, AnyStep
  PROVE  SentFirst' /\ SentOnce'
  <1>1. CASE Environment
    BY <1>1, EnvironmentFrame DEF SentFirst, SentOnce, InChannel
  <1>2. CASE Main
    <2>1. UNCHANGED <<index, batch, touched>>
      BY <1>2, MainFrame
    <2>2. \A w \in Workers : pc'[w] \in Underway \union {"taken", "acquired"} => pc[w] = pc'[w]
      BY <1>2, MainFrame DEF SpawnWorker, TypeOK, Underway
    <2>3. \A i : i \in InChannel' \/ i \in marked' => i \in InChannel \/ i \in marked
      <3>1. CASE Receive
        BY <3>1, ChannelShrinks DEF Receive
      <3>2. CASE chan' = << >> /\ marked' = marked
        BY <3>2, ChannelEmpty
      <3>3. CASE chan' = chan /\ marked' = marked
        BY <3>3 DEF InChannel
      <3>4. QED
        BY <1>2, <3>1, <3>2, <3>3, MainMoves
    <2>4. QED
      BY <2>1, <2>2, <2>3 DEF SentFirst, SentOnce
  <1>3. ASSUME NEW u \in Workers, Worker(u)
        PROVE  SentFirst' /\ SentOnce'
    <2>1. marked' = marked /\ \A w \in Workers : w # u => pc'[w] = pc[w]
      BY <1>3, WorkerFrame DEF collectorVars, TypeOK
    <2> USE DEF Step, TypeOK
    <2>2. CASE Take(u)
      <3>1. UNCHANGED <<chan, batch, touched>> /\ pc'[u] \notin Underway
        BY <2>2 DEF Take, Underway
      <3>2. \A w \in Workers : w # u => index'[w] = index[w]
        BY <2>2 DEF Take
      <3>3. pc'[u] = "taken" => index'[u] = next
        BY <2>2 DEF Take
      <3>4. pc'[u] # "acquired"
        BY <2>2 DEF Take
      <3>5. next \notin touched
        BY DEF TouchedWasIssued
      <3>6. InChannel' = InChannel
        BY <3>1 DEF InChannel
      <3>7. SentFirst'
        BY <2>1, <3>1, <3>2, <3>6 DEF SentFirst
      <3>8. SentOnce'
        BY <2>1, <3>1, <3>2, <3>3, <3>4, <3>5 DEF SentOnce
      <3>9. QED
        BY <3>7, <3>8
    <2>3. CASE Withdraw(u) \/ Panic(u)
      <3>1. UNCHANGED <<chan, batch, touched>> /\ pc'[u] = "leaving"
        BY <2>3 DEF Withdraw, Panic
      <3>2. \A w \in Workers : w # u => index'[w] = index[w]
        BY <2>3 DEF Withdraw, Panic
      <3>3. InChannel' = InChannel
        BY <3>1 DEF InChannel
      <3>4. QED
        BY <2>1, <3>1, <3>2, <3>3 DEF SentFirst, SentOnce, Underway
    <2>4. CASE StartProbe(u)
      <3>1. UNCHANGED <<chan, batch, index>> /\ pc'[u] = "probing"
        BY <2>4 DEF StartProbe
      <3>2. touched' = touched \union {index[u]} /\ pc[u] = "acquired"
        BY <2>4 DEF StartProbe
      <3>3. index[u] # NoIndex
        BY <3>2 DEF HoldsIndex, Holding, Index, NoIndex
      <3>4. \A w \in Workers : w # u => index[w] # index[u]
        BY <3>3 DEF OneHome
      <3>5. InChannel' = InChannel
        BY <3>1 DEF InChannel
      <3>6. SentFirst'
        BY <2>1, <3>1, <3>2, <3>5 DEF SentFirst
      <3>7. SentOnce'
        BY <2>1, <3>1, <3>2, <3>4 DEF SentOnce
      <3>8. QED
        BY <3>6, <3>7
    <2>5. CASE Acquire(u) \/ ProbeReturns(u) \/ GiveUpRetry(u) \/ RetryProbe(u)
      <3>1. UNCHANGED <<chan, batch, index, touched>>
        BY <2>5 DEF Acquire, ProbeReturns, GiveUpRetry, RetryProbe
      <3>2. pc'[u] \in Underway => pc[u] \in Underway
        BY <2>5 DEF Acquire, ProbeReturns, GiveUpRetry, RetryProbe, Underway
      <3>3. pc'[u] \in {"taken", "acquired"} => pc[u] \in {"taken", "acquired"}
        BY <2>5 DEF Acquire, ProbeReturns, GiveUpRetry, RetryProbe
      <3>4. InChannel' = InChannel
        BY <3>1 DEF InChannel
      <3>5. QED
        BY <2>1, <3>1, <3>2, <3>3, <3>4 DEF SentFirst, SentOnce
    <2>6. CASE Report(u)
      <3>1. UNCHANGED <<chan, touched>> /\ pc[u] = "report" /\ pc'[u] \in {"sending", "take"}
        BY <2>6 DEF Report
      <3>2. \A w \in Workers : w # u => index'[w] = index[w]
        BY <2>6 DEF Report
      <3>3. \A w \in Workers : batch'[w] \subseteq batch[w] \union {index[u]}
                                 /\ (w # u => batch'[w] = batch[w])
        BY <2>6 DEF Report
      <3>4. index[u] \in touched
        BY <3>1 DEF SentFirst, Underway
      <3>5. InChannel' = InChannel
        BY <3>1 DEF InChannel
      <3>6. SentFirst'
        BY <2>1, <3>1, <3>2, <3>3, <3>4, <3>5 DEF SentFirst, Underway
      <3>7. SentOnce'
        BY <2>1, <3>1, <3>2 DEF SentOnce
      <3>8. QED
        BY <3>6, <3>7
    <2>7. CASE SendBatch(u) \/ Leave(u)
      <3>1. UNCHANGED <<index, touched>> /\ pc'[u] \in {"take", "leaving", "gone"}
        BY <2>7 DEF SendBatch, Leave
      <3>2. \A w \in Workers : batch'[w] \subseteq batch[w]
        <4>1. batch' = [batch EXCEPT ![u] = {}] /\ batch \in [Workers -> SUBSET Index]
          BY <2>7 DEF SendBatch, Leave
        <4>2. QED
          BY <4>1
      <3>3. InChannel' \subseteq InChannel \union batch[u]
        <4>1. CASE chan' = Append(chan, batch[u])
          <5>1. batch[u] \in SUBSET Index
            OBVIOUS
          <5>2. QED
            BY <4>1, <5>1, ChannelGrows
        <4>2. CASE chan' = chan
          BY <4>2 DEF InChannel
        <4>3. chan' = chan \/ chan' = Append(chan, batch[u])
          BY <2>7 DEF SendBatch, Leave, Deliver
        <4>4. QED
          BY <4>1, <4>2, <4>3
      <3>4. SentFirst'
        BY <2>1, <3>1, <3>2, <3>3 DEF SentFirst, Underway
      <3>5. SentOnce'
        BY <2>1, <3>1 DEF SentOnce
      <3>6. QED
        BY <3>4, <3>5
    <2>8. QED
      BY <1>3, <2>2, <2>3, <2>4, <2>5, <2>6, <2>7 DEF Worker
  <1>4. QED
    BY <1>1, <1>2, <1>3 DEF AnyStep

LEMMA ExitIsLastStep ==
  ASSUME ExitIsLast, AnyStep
  PROVE  ExitIsLast'
  <1>1. CASE Environment \/ \E w \in Workers : Worker(w)
    BY <1>1, EnvironmentFrame, WorkerFrame DEF ExitIsLast, Running, finishVars
  <1>2. CASE Main
    <2>1. main' = "exited" \/ exit' = exit
      BY <1>2
         DEF Main, MainStep, finishVars, HeaderFails, WriteHeader, SpawnWorker,
             SpawnFails, Abort, Spawned, Receive, ReceiveTimesOut,
             Disconnected, NoticeInterrupt, StopCollecting, KeepCollecting,
             Tick, DropReceiver, CaptureStarted, Join, SkipJoin, Decide,
             WriteTerminal, TerminalFails
    <2>2. QED
      BY <1>2, <2>1, MainFrame DEF ExitIsLast, Running
  <1>3. QED
    BY <1>1, <1>2 DEF AnyStep

LEMMA Inv3Init == Init => Inv3
  <1> SUFFICES ASSUME Init PROVE Inv3
    OBVIOUS
  <1>1. InChannel = {}
    BY EmptySeq DEF Init, InChannel
  <1>2. SentFirst /\ SentOnce /\ ExitIsLast
    BY <1>1 DEF Init, SentFirst, SentOnce, ExitIsLast, Underway
  <1>3. QED
    BY <1>2, Inv2Init DEF Inv3

LEMMA Inv3Step == Inv3 /\ [Next]_vars => Inv3'
  <1> SUFFICES ASSUME Inv3, [Next]_vars PROVE Inv3'
    OBVIOUS
  <1>1. Inv2'
    BY Inv2Step DEF Inv3
  <1>2. CASE AnyStep
    BY <1>1, <1>2, SentStep, ExitIsLastStep DEF Inv3, Inv2, Inv1
  <1>3. CASE UNCHANGED vars
    BY <1>1, <1>3 DEF Inv3, SentFirst, SentOnce, ExitIsLast, Running, InChannel,
                      vars, workerVars, finishVars, collectorVars
  <1>4. QED
    BY <1>2, <1>3, NextCases

-----------------------------------------------------------------------------
(* The steps of the engine as steps of the ledger.                         *)

(* The environment and every worker step but StartProbe write nothing in   *)
(* the ledger.                                                             *)
LEMMA LedgerStutters ==
  ASSUME UNCHANGED <<main, spawned, started, terminal, touched, marked, exit>>
  PROVE  UNCHANGED Ledger!ledger
  BY DEF Ledger!ledger, Closed, FinalReport, Finalized, Running

LEMMA WorkerKeepsLedger ==
  ASSUME Inv3, NEW w \in Workers, Worker(w)
  PROVE  [Ledger!Next]_Ledger!ledger
  <1>1. UNCHANGED <<main, spawned, started, terminal, marked, exit>> /\ main # "exited"
    BY WorkerFrame DEF collectorVars, finishVars
  <1>2. CASE touched' = touched
    BY <1>1, <1>2, LedgerStutters
  <1>3. CASE touched' # touched
    <2>1. PICK v \in Workers : /\ pc[v] = "acquired" /\ ~Cancelled
                               /\ touched' = touched \union {index[v]}
      BY <1>3, TouchedFrame DEF AnyStep
    <2>2. index[v] \in Index /\ index[v] \notin touched
      BY <2>1 DEF Inv3, Inv2, Inv1, HoldsIndex, Holding, SentOnce
    <2>3. ~Closed
      <3>1. main \notin PastLoop
        BY <2>1 DEF Inv3, Inv2, Inv1, LoopEndedForCause, AllGone
      <3>2. QED
        BY <1>1, <3>1 DEF Closed, Running, PastLoop
    <2>4. exit = NoIndex
      BY <1>1 DEF Inv3, ExitIsLast, Running
    <2>5. Closed' = Closed /\ FinalReport' = FinalReport
      BY <1>1 DEF Closed, Running, FinalReport, Finalized
    <2>6. Ledger!Send
      BY <1>1, <2>1, <2>2, <2>3, <2>4, <2>5
         DEF Ledger!Send, Ledger!Open, Ledger!Indices, NoIndex, Index
    <2>7. QED
      BY <2>6 DEF Ledger!Next
  <1>4. QED
    BY <1>2, <1>3

(* The two ways to end before there is a record.                           *)
LEMMA EarlyEndKeepsLedger ==
  ASSUME Inv3, HeaderFails \/ Abort
  PROVE  Ledger!Fail
  <1>1. exit = NoIndex
    BY DEF Inv3, ExitIsLast, Running, HeaderFails, Abort, MainStep
  <1>2. exit' \in {2, 3} /\ UNCHANGED <<touched, marked>>
    BY DEF HeaderFails, Abort, collectorVars
  <1>3. ~Closed /\ ~Closed'
    <2>1. spawned < WorkerCount /\ spawned' = spawned /\ main' = "exited"
      BY DEF Inv3, Inv2, PoolIsWhole, HeaderFails, Abort, MainStep
    <2>2. main \notin {"join", "decide", "terminal", "exited"}
      BY DEF HeaderFails, Abort, MainStep
    <2>3. spawned # WorkerCount /\ WorkerCount' = WorkerCount
      BY <2>1, WorkerCountType DEF Inv3, Inv2, Inv1, TypeOK, WorkerCount
    <2>4. QED
      BY <2>1, <2>2, <2>3 DEF Closed, Running
  <1>4. FinalReport = {} /\ FinalReport' = {}
    <2>1. terminal' = terminal /\ terminal = NoTerminal
      BY DEF Inv3, Inv2, Inv1, TerminalPhase, HeaderFails, Abort, MainStep
    <2>2. NoTerminal.label = "none"
      BY DEF NoTerminal
    <2>3. QED
      BY <2>1, <2>2 DEF FinalReport, Finalized
  <1>5. QED
    BY <1>1, <1>2, <1>3, <1>4 DEF Ledger!Fail, Ledger!Open, NoIndex

LEMMA ReceiveKeepsLedger ==
  ASSUME Inv3, Receive
  PROVE  Ledger!Count
  <1>1. main = "receive" /\ main' = "notice" /\ UNCHANGED <<touched, exit>>
    BY DEF Receive, MainStep, finishVars
  <1>2. exit = NoIndex
    BY <1>1 DEF Inv3, ExitIsLast, Running
  <1>3. ~Closed /\ ~Closed' /\ FinalReport = {} /\ FinalReport' = {}
    BY <1>1 DEF Closed, Running, FinalReport, Finalized
  <1>4. marked' = marked \union Head(chan)
    BY DEF Receive
  <1>5. Head(chan) \in SUBSET (touched \ marked)
    <2>1. Head(chan) = chan[1] /\ 1 \in DOMAIN chan
      BY ChannelShrinks DEF Receive, Inv3, Inv2, Inv1
    <2>2. \A i \in Head(chan) : i \in InChannel /\ i \notin marked
      BY <2>1, InChannelIs DEF Inv3, Inv2, OneHome
    <2>3. QED
      BY <2>2 DEF Inv3, SentFirst
  <1>6. QED
    BY <1>1, <1>2, <1>3, <1>4, <1>5 DEF Ledger!Count, Ledger!Open, NoIndex

LEMMA CaptureKeepsLedger ==
  ASSUME Inv3, CaptureStarted
  PROVE  Ledger!Close
  <1>1. main = "issued" /\ main' = "join" /\ UNCHANGED <<touched, marked, exit>>
    BY DEF CaptureStarted, MainStep, collectorVars
  <1>2. exit = NoIndex
    BY <1>1 DEF Inv3, ExitIsLast, Running
  <1>3. ~Closed /\ Closed' /\ FinalReport = {} /\ FinalReport' = {}
    BY <1>1 DEF Closed, Running, FinalReport, Finalized
  <1>4. TypeOK /\ TouchedWasIssued
    BY DEF Inv3, Inv2, Inv1
  <1>5. started' = Issued /\ Issued \in 0 .. Planned
    BY <1>4, PlannedAssumption DEF CaptureStarted, Issued, TypeOK
  <1>6. touched \subseteq 0 .. (Issued - 1)
    <2>1. \A i \in touched : i \in Index /\ i < next /\ next \in Nat
      BY <1>4 DEF TypeOK, TouchedWasIssued
    <2>2. QED
      BY <2>1, PlannedAssumption DEF Issued, Index
  <1>7. QED
    BY <1>1, <1>2, <1>3, <1>5, <1>6 DEF Ledger!Close, Ledger!Open, NoIndex

(* The ledger counts with the same operator.                               *)
LEMMA LedgerCounts == \A S : Ledger!Cardinality(S) = Cardinality(S)
  BY DEF Ledger!Cardinality, Cardinality

LEMMA TerminalKeepsLedger ==
  ASSUME Inv3, WriteTerminal
  PROVE  Ledger!Finish
  <1>1. main = "terminal" /\ main' = "exited" /\ UNCHANGED <<touched, marked, started, spawned>>
    BY DEF WriteTerminal, MainStep, collectorVars
  <1>2. exit = NoIndex
    BY <1>1 DEF Inv3, ExitIsLast, Running
  <1>3. spawned = WorkerCount
    BY <1>1 DEF Inv3, Inv2, PoolIsWhole, PastLoop
  <1>4. Closed /\ Closed'
    BY <1>1, <1>3 DEF Closed, Running, WorkerCount
  <1>5. TypeOK /\ TerminalPhase /\ TypeOK'
    BY MainType DEF Inv3, Inv2, Inv1, Main
  <1>6. terminal.label \in Labels
    BY <1>1, <1>5 DEF TerminalPhase
  <1>7. terminal' = TerminalBody /\ exit' = ExitCode(terminal.label, writerFailed)
    BY DEF WriteTerminal
  <1>8. exit' \in {0, 2, 3, 130}
    BY <1>5, <1>6, <1>7, ExitCodeType DEF TypeOK
  <1>9. Finalized'
    BY <1>1, <1>6, <1>7 DEF Finalized, TerminalBody, Labels
  <1>10. completed = Cardinality(marked) /\ \A i \in marked : i < started
    BY <1>1 DEF Inv3, Inv2, CountIsTheMarks, MarkedBelowBound, BoundRead
  <1>11. Abandoned(started) = (0 .. (started - 1)) \ marked
    BY <1>5, <1>10, BoundIsCounted
  <1>12. /\ terminal'.completed = Cardinality(marked)
         /\ terminal'.abandoned = (0 .. (started - 1)) \ marked
         /\ terminal'.from = started /\ terminal'.code = exit'
    BY <1>7, <1>10, <1>11 DEF TerminalBody
  <1>13. FinalReport' = {[completed |-> Ledger!Cardinality(marked),
                          abandoned |-> (0 .. (started - 1)) \ marked,
                          notStarted |-> started .. (Planned - 1),
                          code |-> exit']}
    BY <1>9, <1>12, LedgerCounts DEF FinalReport
  <1>14. started # NoIndex
    BY <1>5 DEF TypeOK, NoIndex
  <1>15. /\ (IF Closed THEN started ELSE NoIndex) = started
         /\ (IF Closed THEN started ELSE NoIndex)' = started
    BY <1>1, <1>4
  <1>16. exit = Ledger!Open /\ started # Ledger!Open
    BY <1>2, <1>14 DEF Ledger!Open, NoIndex
  <1>17. UNCHANGED <<touched, marked, IF Closed THEN started ELSE NoIndex>>
    BY <1>1, <1>15
  <1>18. QED
    BY <1>8, <1>13, <1>15, <1>16, <1>17 DEF Ledger!Finish

LEMMA FailureKeepsLedger ==
  ASSUME Inv3, TerminalFails
  PROVE  Ledger!Fail
  <1>1. main = "terminal" /\ main' = "exited" /\ UNCHANGED <<touched, marked, started, spawned>>
    BY DEF TerminalFails, MainStep, collectorVars
  <1>2. exit = NoIndex
    BY <1>1 DEF Inv3, ExitIsLast, Running
  <1>3. spawned = WorkerCount
    BY <1>1 DEF Inv3, Inv2, PoolIsWhole, PastLoop
  <1>4. Closed /\ Closed'
    BY <1>1, <1>3 DEF Closed, Running, WorkerCount
  <1>5. exit' = 3 /\ terminal' = NoTerminal
    BY DEF TerminalFails, ExitCode
  <1>6. NoTerminal.label = "none"
    BY DEF NoTerminal
  <1>7. FinalReport = {} /\ FinalReport' = {}
    BY <1>1, <1>5, <1>6 DEF FinalReport, Finalized
  <1>8. QED
    BY <1>1, <1>2, <1>4, <1>5, <1>7 DEF Ledger!Fail, Ledger!Open, NoIndex

(* Every other step of the main thread leaves the ledger as it is.         *)
LEMMA MainStutters ==
  ASSUME Main, ~HeaderFails, ~Abort, ~Receive, ~CaptureStarted,
         ~WriteTerminal, ~TerminalFails
  PROVE  UNCHANGED Ledger!ledger
  <1>1. UNCHANGED <<started, marked, exit, touched>>
    BY DEF Main, collectorVars, finishVars, WriteHeader, SpawnWorker,
           SpawnFails, Spawned, ReceiveTimesOut, Disconnected,
           NoticeInterrupt, StopCollecting, KeepCollecting, Tick,
           DropReceiver, Join, SkipJoin, Decide
  <1>2. main # "exited" /\ main' # "exited"
    BY DEF Main, MainStep, WriteHeader, SpawnWorker, SpawnFails, Spawned,
           ReceiveTimesOut, Disconnected, NoticeInterrupt, StopCollecting,
           KeepCollecting, Tick, DropReceiver, Join, SkipJoin, Decide
  <1>3. main \in {"join", "decide", "terminal"} <=> main' \in {"join", "decide", "terminal"}
    BY DEF Main, MainStep, WriteHeader, SpawnWorker, SpawnFails, Spawned,
           ReceiveTimesOut, Disconnected, NoticeInterrupt, StopCollecting,
           KeepCollecting, Tick, DropReceiver, Join, SkipJoin, Decide
  <1>4. (Closed <=> Closed') /\ FinalReport = {} /\ FinalReport' = {}
    BY <1>2, <1>3 DEF Closed, Running, FinalReport, Finalized
  <1>5. QED
    BY <1>1, <1>4 DEF Ledger!ledger

LEMMA StepKeepsLedger ==
  ASSUME Inv3, [Next]_vars
  PROVE  [Ledger!Next]_Ledger!ledger
  <1>1. CASE Environment
    <2>1. UNCHANGED <<main, spawned, started, terminal, touched, marked, exit>>
      BY <1>1, EnvironmentFrame
    <2>2. QED
      BY <2>1, LedgerStutters
  <1>2. CASE Main
    BY <1>2, EarlyEndKeepsLedger, ReceiveKeepsLedger, CaptureKeepsLedger,
       TerminalKeepsLedger, FailureKeepsLedger, MainStutters DEF Ledger!Next
  <1>3. CASE \E w \in Workers : Worker(w)
    BY <1>3, WorkerKeepsLedger
  <1>4. CASE UNCHANGED vars
    BY <1>4, LedgerStutters DEF vars, finishVars, collectorVars
  <1>5. QED
    BY <1>1, <1>2, <1>3, <1>4, NextCases DEF AnyStep

LEMMA InitKeepsLedger == Init => Ledger!Init
  BY DEF Init, Ledger!Init, Ledger!Open, NoIndex, Closed, Running, FinalReport,
         Finalized

(* Seen through the mapping of ScanRun every behaviour of the engine is    *)
(* one of the ledger: a probe is sent once, only results of sent probes    *)
(* are counted, both stop at the bound when the work counter is read, and  *)
(* the report states exactly the sets and the exit code of the process.    *)
THEOREM EngineKeepsLedger == Spec => LedgerIsKept
  <1>1. Inv3 /\ [Next]_vars => [Ledger!Next]_Ledger!ledger
    BY StepKeepsLedger
  <1>2. QED
    BY <1>1, Inv3Init, Inv3Step, InitKeepsLedger, PTL
       DEF Spec, LedgerIsKept, Ledger!Spec

=============================================================================
