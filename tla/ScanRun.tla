------------------------------- MODULE ScanRun -------------------------------
(***************************************************************************)
(* One run of the scan engine: execute_with and everything it starts       *)
(* (src/run.rs, src/sched.rs).                                             *)
(*                                                                         *)
(* The main thread writes the header, spawns a pool of worker threads and  *)
(* then is the collector: it receives batches of results from a bounded    *)
(* channel, counts and records them, and stops when every sender is gone,  *)
(* when the stop is forced, or when the drain budget of a graceful stop is *)
(* spent.  It then drops the receiver, reads the work counter, joins the   *)
(* workers and writes the terminal event.  Workers pull indices from the   *)
(* counter, probe, retry timeouts, and hand results over in batches.       *)
(*                                                                         *)
(* Indices are counter indices (0, 1, 2, ... in the order the counter      *)
(* issues them); the permutation that maps them to endpoints is a          *)
(* bijection and plays no role in what this module states.                 *)
(*                                                                         *)
(* Abstracted: what a probe does on the network (an answer is one of four  *)
(* classes), clocks (a deadline may pass at any moment), printing, and the *)
(* text of events.  The rate limiter is a wait of arbitrary length.        *)
(***************************************************************************)
EXTENDS Integers, Sequences, FiniteSets

CONSTANTS
  Planned,         (* Probes in the plan: plan.probe_count().              *)
  Concurrency,     (* The configured concurrency.                          *)
  ChannelDepth,    (* Batches the channel holds: CHANNEL_DEPTH.            *)
  BatchMax,        (* Results a batch holds before it is sent: BATCH_MAX.  *)
  Retries,         (* plan.timing.retries.                                 *)
  Answers,         (* The answers the network may give in this model.      *)
  MaxPanics,       (* Bound: workers that may panic in one behaviour.      *)
  SpawnMayFail,    (* Whether the system may refuse a thread.              *)
  WriterMayFail,   (* Whether writing the record may fail.                 *)
  SpansEnabled     (* Whether the plan collapses bulk results into spans.  *)

Answer == {"open", "closed", "timeout", "pressure"}

ASSUME PlannedAssumption == Planned \in Nat
ASSUME ConcurrencyAssumption == Concurrency \in Nat
ASSUME ChannelAssumption == ChannelDepth \in Nat \ {0} /\ BatchMax \in Nat \ {0}
ASSUME RetriesAssumption == Retries \in Nat /\ MaxPanics \in Nat
ASSUME AnswersAssumption == Answers \subseteq Answer
ASSUME SwitchAssumption ==
  {SpawnMayFail, WriterMayFail, SpansEnabled} \subseteq BOOLEAN

Index == 0 .. (Planned - 1)
NoIndex == -1

(* Never more threads than there is work to do, and always one.            *)
WorkerCount ==
  LET needed == IF Concurrency < Planned THEN Concurrency ELSE Planned
  IN  IF needed < 1 THEN 1 ELSE needed

Workers == 1 .. WorkerCount

(* An open port and resource pressure are what the operator watches for:   *)
(* they are sent at once, and never collapsed into a span.                 *)
Urgent == {"open", "pressure"}
Retryable == {"timeout"}

VARIABLES
  cancel,      (* The shared stop flag: running, graceful or forced.       *)
  next,        (* The work counter.                                        *)
  chan,        (* Batches in flight, oldest first.                         *)
  rxOpen,      (* Whether the receiver still exists.                       *)
  pc,          (* Where each worker is.                                    *)
  index,       (* The index each worker took, or NoIndex.                  *)
  answer,      (* The latest answer to the probe a worker holds.           *)
  attempts,    (* How often the worker has sent the probe it holds.        *)
  batch,       (* Results a worker has not sent yet.                       *)
  main,        (* Where the main thread is.                                *)
  spawned,     (* Workers spawned so far.                                  *)
  interruptAt, (* Whether the collector has stamped the interrupt.         *)
  drained,     (* Whether the drain budget has elapsed.                    *)
  completed,   (* counts.completed.                                        *)
  marked,      (* The Reported bitset.                                     *)
  pending,     (* Results absorbed into spans that are not written yet.    *)
  recorded,    (* Results the record accounts for, as a row or in a span.  *)
  writerFailed,(* Whether writer_error has been set.                       *)
  started,     (* counts.started, read when the collector is done.         *)
  reaped,      (* Workers whose join result has been read.                 *)
  terminal,    (* The terminal event.                                      *)
  exit,        (* The exit code of the process, NoIndex while it runs.     *)
  touched,     (* History: indices whose probe has been sent.              *)
  panicked,    (* History: workers that died.                              *)
  outcome      (* History: results finished and not collected yet.         *)

workerVars == <<pc, index, answer, attempts, batch>>
collectorVars == <<interruptAt, drained, completed, marked, pending, recorded>>
finishVars == <<started, reaped, terminal, exit>>
vars == <<cancel, next, chan, rxOpen, workerVars, main, spawned, collectorVars,
          writerFailed, finishVars, touched, panicked, outcome>>

-----------------------------------------------------------------------------
Cancelled == cancel # "running"
Forced == cancel = "forced"

(* Cancel::request_graceful never turns a forced stop back.                *)
GracefulFrom(flag) == IF flag = "running" THEN "graceful" ELSE flag

(* Faulty variant: the counter is reported as it is, past the end of the   *)
(* plan.  (The faulty variants in this module are slips the code could     *)
(* have; the properties are checked to tell them from the definitions that *)
(* follow them.  Nothing uses them.)                                       *)
IssuedUnsaturated == next

(* How many indices have been handed out, saturated at the total.          *)
Issued == IF next < Planned THEN next ELSE Planned

(* A sender lives until its worker has returned and dropped it.            *)
SenderAlive == \E w \in Workers : pc[w] # "gone"

(* Faulty variant: the range includes its end.                             *)
AbandonedInclusive(issued) == {i \in 0 .. issued : i \in Index \ marked}

(* Issued but never reported.                                              *)
Abandoned(issued) == {i \in 0 .. (issued - 1) : i \in Index \ marked}

NotStarted == Planned - started

(* What writing "rows" can come to: the rows the writer accepted, and      *)
(* whether it has failed.  After the first failure nothing is written;     *)
(* "other" tells that another event is written before the rows.            *)
Emitted(rows, other) ==
  IF writerFailed THEN {<<{}, TRUE>>}
  ELSE {<<rows, FALSE>>}
         \union {<<part, TRUE>> : part \in
                   IF ~WriterMayFail THEN {}
                   ELSE ((SUBSET rows) \ {rows})
                          \union (IF other THEN {{}} ELSE {})}

Labels == {"completed", "interrupted", "failed"}

ExitCode(label, failed) ==
  CASE failed                          -> 3
    [] ~failed /\ label = "completed"   -> 0
    [] ~failed /\ label = "failed"      -> 2
    [] ~failed /\ label = "interrupted" -> 130

TerminalEvent ==
  [label : Labels \union {"none"}, completed : Nat, notStarted : 0 .. Planned,
   from : 0 .. Planned, abandoned : SUBSET Index, signal : BOOLEAN,
   stamped : BOOLEAN, code : {0, 2, 3, 130}]

NoTerminal ==
  [label |-> "none", completed |-> 0, notStarted |-> 0, from |-> 0,
   abandoned |-> {}, signal |-> FALSE, stamped |-> FALSE, code |-> 0]

Init ==
  /\ cancel = "running"
  /\ next = 0
  /\ chan = << >>
  /\ rxOpen = TRUE
  /\ pc = [w \in Workers |-> "unspawned"]
  /\ index = [w \in Workers |-> NoIndex]
  /\ answer = [w \in Workers |-> "none"]
  /\ attempts = [w \in Workers |-> 0]
  /\ batch = [w \in Workers |-> {}]
  /\ main = "header"
  /\ spawned = 0
  /\ interruptAt = FALSE
  /\ drained = FALSE
  /\ completed = 0
  /\ marked = {}
  /\ pending = {}
  /\ recorded = {}
  /\ writerFailed = FALSE
  /\ started = 0
  /\ reaped = {}
  /\ terminal = NoTerminal
  /\ exit = NoIndex
  /\ touched = {}
  /\ panicked = {}
  /\ outcome = [i \in Index |-> "none"]

-----------------------------------------------------------------------------
(* The stop flag, set from outside the engine at any moment.               *)

Running == main # "exited"

RequestGraceful ==
  /\ Running
  /\ cancel = "running"
  /\ cancel' = GracefulFrom(cancel)
  /\ UNCHANGED <<next, chan, rxOpen, workerVars, main, spawned, collectorVars,
                 writerFailed, finishVars, touched, panicked, outcome>>

RequestForced ==
  /\ Running
  /\ cancel # "forced"
  /\ cancel' = "forced"
  /\ UNCHANGED <<next, chan, rxOpen, workerVars, main, spawned, collectorVars,
                 writerFailed, finishVars, touched, panicked, outcome>>

-----------------------------------------------------------------------------
(* A worker thread.                                                        *)

Step(w, from, to) ==
  /\ Running
  /\ pc[w] = from
  /\ pc' = [pc EXCEPT ![w] = to]

(* counter.take(): an index, or the end of the matrix.                     *)
Take(w) ==
  /\ Step(w, "take", IF next < Planned THEN "taken" ELSE "leaving")
  /\ next' = next + 1
  /\ index' = [index EXCEPT ![w] = IF next < Planned THEN next ELSE NoIndex]
  /\ UNCHANGED <<cancel, chan, rxOpen, answer, attempts, batch, main, spawned,
                 collectorVars, writerFailed, finishVars, touched, panicked,
                 outcome>>

(* A stop seen before the probe starts makes the worker return.  The index *)
(* it took is never probed.                                                *)
Withdraw(w) ==
  /\ pc[w] \in {"taken", "acquired"}
  /\ Cancelled
  /\ Step(w, pc[w], "leaving")
  /\ index' = [index EXCEPT ![w] = NoIndex]
  /\ UNCHANGED <<cancel, next, chan, rxOpen, answer, attempts, batch, main,
                 spawned, collectorVars, writerFailed, finishVars, touched,
                 panicked, outcome>>

(* The first check passed and the rate limiter has let the worker go: a    *)
(* token was there, or a stop ended the wait.                              *)
Acquire(w) ==
  /\ ~Cancelled
  /\ Step(w, "taken", "acquired")
  /\ UNCHANGED <<cancel, next, chan, rxOpen, index, answer, attempts, batch,
                 main, spawned, collectorVars, writerFailed, finishVars,
                 touched, panicked, outcome>>

(* The second check passed: the probe goes out.                            *)
StartProbe(w) ==
  /\ ~Cancelled
  /\ Step(w, "acquired", "probing")
  /\ touched' = touched \union {index[w]}
  /\ UNCHANGED <<cancel, next, chan, rxOpen, index, answer, attempts, batch,
                 main, spawned, collectorVars, writerFailed, finishVars,
                 panicked, outcome>>

(* transport.probe returns.  Only a timeout is retried, and only while     *)
(* attempts are left.                                                      *)
ProbeReturns(w) ==
  \E a \in Answers :
    /\ Step(w, "probing",
            IF a \in Retryable /\ attempts[w] < Retries THEN "retry" ELSE "report")
    /\ answer' = [answer EXCEPT ![w] = a]
    /\ attempts' = [attempts EXCEPT ![w] = @ + 1]
    /\ UNCHANGED <<cancel, next, chan, rxOpen, index, batch, main, spawned,
                   collectorVars, writerFailed, finishVars, touched, panicked,
                   outcome>>

(* The check before the retry delay ("retry") and the one after it         *)
(* ("slept"): a stop keeps the answer the worker already has.              *)
GiveUpRetry(w) ==
  /\ pc[w] \in {"retry", "slept"}
  /\ Cancelled
  /\ Step(w, pc[w], "report")
  /\ UNCHANGED <<cancel, next, chan, rxOpen, index, answer, attempts, batch,
                 main, spawned, collectorVars, writerFailed, finishVars,
                 touched, panicked, outcome>>

RetryProbe(w) ==
  /\ pc[w] \in {"retry", "slept"}
  /\ ~Cancelled
  /\ Step(w, pc[w], IF pc[w] = "retry" THEN "slept" ELSE "probing")
  /\ UNCHANGED <<cancel, next, chan, rxOpen, index, answer, attempts, batch,
                 main, spawned, collectorVars, writerFailed, finishVars,
                 touched, panicked, outcome>>

(* Batch::push: an urgent result or a full batch is sent at once, and so   *)
(* is a batch that has become old, which may be so at any push.            *)
Report(w) ==
  LET grown == batch[w] \union {index[w]}
      must  == answer[w] \in Urgent \/ Cardinality(grown) >= BatchMax
  IN  \E old \in BOOLEAN :
        /\ Step(w, "report", IF must \/ old THEN "sending" ELSE "take")
        /\ batch' = [batch EXCEPT ![w] = grown]
        /\ outcome' = [outcome EXCEPT ![index[w]] = answer[w]]
        /\ index' = [index EXCEPT ![w] = NoIndex]
        /\ answer' = [answer EXCEPT ![w] = "none"]
        /\ attempts' = [attempts EXCEPT ![w] = 0]
        /\ UNCHANGED <<cancel, next, chan, rxOpen, main, spawned,
                       collectorVars, writerFailed, finishVars, touched,
                       panicked>>

(* Batch::flush: the send blocks while the channel is full and fails once  *)
(* the receiver is gone, in which case the batch is lost.                  *)
CanSend == ~rxOpen \/ Len(chan) < ChannelDepth
Deliver(results) == chan' = IF rxOpen THEN Append(chan, results) ELSE chan

(* Faulty variant: the batch is copied into the channel and kept.          *)
SendBatchKeeping(w) ==
  /\ CanSend
  /\ Step(w, "sending", IF rxOpen THEN "take" ELSE "leaving")
  /\ Deliver(batch[w])
  /\ UNCHANGED <<cancel, next, rxOpen, index, answer, attempts, batch, main,
                 spawned, collectorVars, writerFailed, finishVars, touched,
                 panicked, outcome>>

SendBatch(w) ==
  /\ CanSend
  /\ Step(w, "sending", IF rxOpen THEN "take" ELSE "leaving")
  /\ Deliver(batch[w])
  /\ batch' = [batch EXCEPT ![w] = {}]
  /\ UNCHANGED <<cancel, next, rxOpen, index, answer, attempts, main, spawned,
                 collectorVars, writerFailed, finishVars, touched, panicked,
                 outcome>>

(* Faulty variant: a Batch without its Drop.                               *)
LeaveWithoutFlush(w) ==
  /\ Step(w, "leaving", "gone")
  /\ batch' = [batch EXCEPT ![w] = {}]
  /\ UNCHANGED <<cancel, next, chan, rxOpen, index, answer, attempts, main,
                 spawned, collectorVars, writerFailed, finishVars, touched,
                 panicked, outcome>>

(* The worker returns: dropping its batch sends what is left, then its     *)
(* sender is dropped and the thread is finished.                           *)
Leave(w) ==
  /\ CanSend \/ batch[w] = {}
  /\ Step(w, "leaving", "gone")
  /\ IF batch[w] = {} THEN UNCHANGED chan ELSE Deliver(batch[w])
  /\ batch' = [batch EXCEPT ![w] = {}]
  /\ UNCHANGED <<cancel, next, rxOpen, index, answer, attempts, main, spawned,
                 collectorVars, writerFailed, finishVars, touched, panicked,
                 outcome>>

(* The probe panics.  Unwinding drops the batch, which sends it.           *)
Panic(w) ==
  /\ Cardinality(panicked) < MaxPanics
  /\ Step(w, "probing", "leaving")
  /\ panicked' = panicked \union {w}
  /\ index' = [index EXCEPT ![w] = NoIndex]
  /\ answer' = [answer EXCEPT ![w] = "none"]
  /\ attempts' = [attempts EXCEPT ![w] = 0]
  /\ UNCHANGED <<cancel, next, chan, rxOpen, batch, main, spawned,
                 collectorVars, writerFailed, finishVars, touched, outcome>>

Worker(w) ==
  \/ Take(w)
  \/ Withdraw(w)
  \/ Acquire(w)
  \/ StartProbe(w)
  \/ ProbeReturns(w)
  \/ GiveUpRetry(w)
  \/ RetryProbe(w)
  \/ Report(w)
  \/ SendBatch(w)
  \/ Leave(w)
  \/ Panic(w)

-----------------------------------------------------------------------------
(* The main thread before the collection loop.                             *)

MainStep(from, to) ==
  /\ main = from
  /\ main' = to

(* Creating the record or writing one of its two header events fails: the  *)
(* run ends with 2 or 3 before any worker exists.                          *)
HeaderFails ==
  /\ WriterMayFail
  /\ MainStep("header", "exited")
  /\ exit' \in {2, 3}
  /\ UNCHANGED <<cancel, next, chan, rxOpen, workerVars, spawned,
                 collectorVars, writerFailed, started, reaped, terminal,
                 touched, panicked, outcome>>

(* The header is written; the plan's diagnostics may set writer_error.     *)
WriteHeader ==
  /\ MainStep("header", "spawn")
  /\ \E e \in Emitted({}, TRUE) : writerFailed' = e[2]
  /\ UNCHANGED <<cancel, next, chan, rxOpen, workerVars, spawned,
                 collectorVars, finishVars, touched, panicked, outcome>>

SpawnWorker ==
  /\ spawned < WorkerCount
  /\ MainStep("spawn", "spawn")
  /\ spawned' = spawned + 1
  /\ pc' = [pc EXCEPT ![spawned + 1] = "take"]
  /\ UNCHANGED <<cancel, next, chan, rxOpen, index, answer, attempts, batch,
                 collectorVars, writerFailed, finishVars, touched, panicked,
                 outcome>>

(* The system refuses a thread: the workers that run are told to stop and  *)
(* whatever waits in send is released.                                     *)
SpawnFails ==
  /\ SpawnMayFail
  /\ spawned < WorkerCount
  /\ MainStep("spawn", "abort")
  /\ cancel' = GracefulFrom(cancel)
  /\ rxOpen' = FALSE
  /\ chan' = << >>
  /\ UNCHANGED <<next, workerVars, spawned, collectorVars, writerFailed,
                 finishVars, touched, panicked, outcome>>

(* Every worker that was spawned is joined before the error is returned.   *)
Abort ==
  /\ \A w \in 1 .. spawned : pc[w] = "gone"
  /\ MainStep("abort", "exited")
  /\ exit' = 2
  /\ UNCHANGED <<cancel, next, chan, rxOpen, workerVars, spawned,
                 collectorVars, writerFailed, started, reaped, terminal,
                 touched, panicked, outcome>>

Spawned ==
  /\ spawned = WorkerCount
  /\ MainStep("spawn", "receive")
  /\ UNCHANGED <<cancel, next, chan, rxOpen, workerVars, spawned,
                 collectorVars, writerFailed, finishVars, touched, panicked,
                 outcome>>

-----------------------------------------------------------------------------
(* The collection loop.                                                    *)

(* One batch: every result is counted and marked; a quiet one may be       *)
(* absorbed into the spans, every other one gets a row.                    *)
Receive ==
  /\ chan # << >>
  /\ MainStep("receive", "notice")
  /\ chan' = Tail(chan)
  /\ completed' = completed + Cardinality(Head(chan))
  /\ marked' = marked \union Head(chan)
  /\ outcome' = [i \in Index |-> IF i \in Head(chan) THEN "none" ELSE outcome[i]]
  /\ \E absorbed \in SUBSET {i \in Head(chan) :
                               SpansEnabled /\ outcome[i] \notin Urgent} :
       \E e \in Emitted(Head(chan) \ absorbed, FALSE) :
         /\ pending' = pending \union absorbed
         /\ recorded' = recorded \union e[1]
         /\ writerFailed' = e[2]
  /\ UNCHANGED <<cancel, next, rxOpen, workerVars, spawned, interruptAt,
                 drained, finishVars, touched, panicked>>

ReceiveTimesOut ==
  /\ chan = << >>
  /\ SenderAlive
  /\ MainStep("receive", "notice")
  /\ UNCHANGED <<cancel, next, chan, rxOpen, workerVars, spawned,
                 collectorVars, writerFailed, finishVars, touched, panicked,
                 outcome>>

Disconnected ==
  /\ chan = << >>
  /\ ~SenderAlive
  /\ MainStep("receive", "drop")
  /\ UNCHANGED <<cancel, next, chan, rxOpen, workerVars, spawned,
                 collectorVars, writerFailed, finishVars, touched, panicked,
                 outcome>>

(* Faulty variant: only a forced stop is noticed, so no drain ever starts. *)
NoticeForcedOnly ==
  /\ MainStep("notice", "check")
  /\ interruptAt' = (interruptAt \/ Forced)
  /\ UNCHANGED <<cancel, next, chan, rxOpen, workerVars, spawned, drained,
                 completed, marked, pending, recorded, writerFailed,
                 finishVars, touched, panicked, outcome>>

(* The first time the loop sees a stop it stamps it and starts the drain.  *)
NoticeInterrupt ==
  /\ MainStep("notice", "check")
  /\ interruptAt' = (interruptAt \/ Cancelled)
  /\ UNCHANGED <<cancel, next, chan, rxOpen, workerVars, spawned, drained,
                 completed, marked, pending, recorded, writerFailed,
                 finishVars, touched, panicked, outcome>>

DrainElapses ==
  /\ Running
  /\ interruptAt /\ ~drained
  /\ main \in {"receive", "notice", "check"}
  /\ drained' = TRUE
  /\ UNCHANGED <<cancel, next, chan, rxOpen, workerVars, main, spawned,
                 interruptAt, completed, marked, pending, recorded,
                 writerFailed, finishVars, touched, panicked, outcome>>

StopCollecting ==
  /\ Forced \/ drained
  /\ MainStep("check", "drop")
  /\ UNCHANGED <<cancel, next, chan, rxOpen, workerVars, spawned,
                 collectorVars, writerFailed, finishVars, touched, panicked,
                 outcome>>

KeepCollecting ==
  /\ ~Forced /\ ~drained
  /\ MainStep("check", "receive")
  /\ UNCHANGED <<cancel, next, chan, rxOpen, workerVars, spawned,
                 collectorVars, writerFailed, finishVars, touched, panicked,
                 outcome>>

(* The same, with the progress interval over: a progress event, then every *)
(* span accumulated since the last one.                                    *)
Tick ==
  /\ ~Forced /\ ~drained
  /\ MainStep("check", "receive")
  /\ \E e \in Emitted(pending, TRUE) :
       /\ recorded' = recorded \union e[1]
       /\ writerFailed' = e[2]
  /\ pending' = {}
  /\ UNCHANGED <<cancel, next, chan, rxOpen, workerVars, spawned, interruptAt,
                 drained, completed, marked, finishVars, touched, panicked,
                 outcome>>

-----------------------------------------------------------------------------
(* The main thread after the collection loop.                              *)

(* Faulty variant: the receiver lives until execute_with returns.          *)
KeepReceiver ==
  /\ MainStep("drop", "issued")
  /\ UNCHANGED <<cancel, next, chan, rxOpen, workerVars, spawned,
                 collectorVars, writerFailed, finishVars, touched, panicked,
                 outcome>>

(* drop(rx): buffered batches are discarded and blocked senders fail.      *)
DropReceiver ==
  /\ MainStep("drop", "issued")
  /\ rxOpen' = FALSE
  /\ chan' = << >>
  /\ UNCHANGED <<cancel, next, workerVars, spawned, collectorVars,
                 writerFailed, finishVars, touched, panicked, outcome>>

(* Faulty variant: the results are counted instead of the indices issued.  *)
CaptureCompleted ==
  /\ MainStep("issued", "join")
  /\ started' = completed
  /\ UNCHANGED <<cancel, next, chan, rxOpen, workerVars, spawned,
                 collectorVars, writerFailed, reaped, terminal, exit, touched,
                 panicked, outcome>>

(* counter.issued(), read before the workers are joined.                   *)
CaptureStarted ==
  /\ MainStep("issued", "join")
  /\ started' = Issued
  /\ UNCHANGED <<cancel, next, chan, rxOpen, workerVars, spawned,
                 collectorVars, writerFailed, reaped, terminal, exit, touched,
                 panicked, outcome>>

(* join_workers: reap what has finished, and wait for the rest unless the  *)
(* stop is forced, which is read again on every round.                     *)
Join ==
  /\ ~Forced
  /\ reaped' = {w \in Workers : pc[w] = "gone"}
  /\ MainStep("join", IF reaped' = Workers THEN "decide" ELSE "join")
  /\ UNCHANGED <<cancel, next, chan, rxOpen, workerVars, spawned,
                 collectorVars, writerFailed, started, terminal, exit,
                 touched, panicked, outcome>>

(* Faulty variant: the flag is sampled once, before the first round.       *)
SkipJoinSampledOnce ==
  /\ Forced /\ reaped = {}
  /\ MainStep("join", "decide")
  /\ UNCHANGED <<cancel, next, chan, rxOpen, workerVars, spawned,
                 collectorVars, writerFailed, finishVars, touched, panicked,
                 outcome>>

SkipJoin ==
  /\ Forced
  /\ MainStep("join", "decide")
  /\ UNCHANGED <<cancel, next, chan, rxOpen, workerVars, spawned,
                 collectorVars, writerFailed, finishVars, touched, panicked,
                 outcome>>

(* The panic warning, the last spans, and the label: a failure outranks an *)
(* interrupt.                                                              *)
CountedPanic == reaped \intersect panicked # {}

(* Faulty variant: the interrupt is looked at first.                       *)
LabelInterruptFirst(failed) ==
  CASE Cancelled                                -> "interrupted"
    [] ~Cancelled /\ (failed \/ CountedPanic)    -> "failed"
    [] ~Cancelled /\ ~failed /\ ~CountedPanic   -> "completed"

LabelFor(failed) ==
  CASE failed \/ CountedPanic                  -> "failed"
    [] ~failed /\ ~CountedPanic /\ Cancelled   -> "interrupted"
    [] ~failed /\ ~CountedPanic /\ ~Cancelled  -> "completed"

(* Faulty variant: only the ticks write spans.                             *)
DecideWithoutDrain ==
  /\ MainStep("decide", "terminal")
  /\ \E e \in Emitted({}, CountedPanic) :
       /\ writerFailed' = e[2]
       /\ terminal' = [terminal EXCEPT !.label = LabelFor(e[2])]
  /\ UNCHANGED <<cancel, next, chan, rxOpen, workerVars, spawned,
                 collectorVars, started, reaped, exit, touched, panicked,
                 outcome>>

Decide ==
  /\ MainStep("decide", "terminal")
  /\ \E e \in Emitted(pending, CountedPanic) :
       /\ recorded' = recorded \union e[1]
       /\ writerFailed' = e[2]
       /\ terminal' = [terminal EXCEPT !.label = LabelFor(e[2])]
  /\ pending' = {}
  /\ UNCHANGED <<cancel, next, chan, rxOpen, workerVars, spawned, interruptAt,
                 drained, completed, marked, started, reaped, exit, touched,
                 panicked, outcome>>

(* Faulty variant: the record's exit code forgets the writer's failure.    *)
TerminalBodyWithoutWriter ==
  [label      |-> terminal.label,
   completed  |-> completed,
   notStarted |-> NotStarted,
   from       |-> started,
   abandoned  |-> Abandoned(started),
   signal     |-> interruptAt \/ Cancelled,
   stamped    |-> interruptAt,
   code       |-> ExitCode(terminal.label, FALSE)]

(* terminal_body reads the stop flag again.                                *)
TerminalBody ==
  [label      |-> terminal.label,
   completed  |-> completed,
   notStarted |-> NotStarted,
   from       |-> started,
   abandoned  |-> Abandoned(started),
   signal     |-> interruptAt \/ Cancelled,
   stamped    |-> interruptAt,
   code       |-> ExitCode(terminal.label, writerFailed)]

(* The terminal event is written, or its write fails; the process returns  *)
(* the exit code and takes the workers that still run with it.             *)
WriteTerminal ==
  /\ MainStep("terminal", "exited")
  /\ terminal' = TerminalBody
  /\ exit' = ExitCode(terminal.label, writerFailed)
  /\ UNCHANGED <<cancel, next, chan, rxOpen, workerVars, spawned,
                 collectorVars, writerFailed, started, reaped, touched,
                 panicked, outcome>>

TerminalFails ==
  /\ WriterMayFail
  /\ MainStep("terminal", "exited")
  /\ terminal' = NoTerminal
  /\ exit' = ExitCode(terminal.label, TRUE)
  /\ UNCHANGED <<cancel, next, chan, rxOpen, workerVars, spawned,
                 collectorVars, writerFailed, started, reaped, touched,
                 panicked, outcome>>

-----------------------------------------------------------------------------
Main ==
  \/ HeaderFails
  \/ WriteHeader
  \/ SpawnWorker
  \/ SpawnFails
  \/ Abort
  \/ Spawned
  \/ Receive
  \/ ReceiveTimesOut
  \/ Disconnected
  \/ NoticeInterrupt
  \/ StopCollecting
  \/ KeepCollecting
  \/ Tick
  \/ DropReceiver
  \/ CaptureStarted
  \/ Join
  \/ SkipJoin
  \/ Decide
  \/ WriteTerminal
  \/ TerminalFails

(* The process is over.                                                    *)
Over == ~Running /\ UNCHANGED vars

Next ==
  \/ RequestGraceful
  \/ RequestForced
  \/ DrainElapses
  \/ Main
  \/ \E w \in Workers : Worker(w)
  \/ Over

(* The main thread is scheduled, and time passes.  Nothing is assumed of   *)
(* the workers: a blocking connect may take arbitrarily long.              *)
Spec == Init /\ [][Next]_vars /\ WF_vars(Main) /\ WF_vars(DrainElapses)

-----------------------------------------------------------------------------
(* Properties.                                                             *)

Finalized == main = "exited" /\ terminal.label # "none"

InChannel == UNION {chan[k] : k \in DOMAIN chan}

(* The type invariant: every variable stays in the range the code gives it *)
(* and the counter read for the terminal event never exceeds the plan.     *)
TypeOK ==
  /\ cancel \in {"running", "graceful", "forced"}
  /\ next \in Nat
  /\ chan \in Seq(SUBSET Index)
  /\ rxOpen \in BOOLEAN
  /\ pc \in [Workers -> {"unspawned", "take", "taken", "acquired", "probing",
                         "retry", "slept", "report", "sending", "leaving",
                         "gone"}]
  /\ index \in [Workers -> Index \union {NoIndex}]
  /\ answer \in [Workers -> Answer \union {"none"}]
  /\ attempts \in [Workers -> Nat]
  /\ batch \in [Workers -> SUBSET Index]
  /\ main \in {"header", "spawn", "abort", "receive", "notice", "check", "drop",
               "issued", "join", "decide", "terminal", "exited"}
  /\ spawned \in 0 .. WorkerCount
  /\ interruptAt \in BOOLEAN
  /\ drained \in BOOLEAN
  /\ completed \in Nat
  /\ marked \subseteq Index
  /\ pending \subseteq Index
  /\ recorded \subseteq Index
  /\ writerFailed \in BOOLEAN
  /\ started \in 0 .. Planned
  /\ reaped \subseteq Workers
  /\ terminal \in TerminalEvent
  /\ exit \in {NoIndex, 0, 2, 3, 130}
  /\ touched \subseteq Index
  /\ panicked \subseteq Workers
  /\ outcome \in [Index -> Answer \union {"none"}]

(* A probe is issued to one worker, and its result is in one place: a      *)
(* worker's batch, one batch of the channel, or the collector's count.     *)
(* Nothing is reported twice and nothing that was not issued is reported.  *)
(* (WorkCounter::take, Batch and the collector's loop.)                    *)
OneHome ==
  /\ \A w \in Workers : index[w] # NoIndex =>
       /\ index[w] < next
       /\ index[w] \notin InChannel \union marked
       /\ \A v \in Workers : index[w] \notin batch[v] /\ (v # w => index[v] # index[w])
  /\ \A w \in Workers : \A i \in batch[w] :
       /\ i < next
       /\ i \notin InChannel \union marked
       /\ \A v \in Workers \ {w} : i \notin batch[v]
  /\ \A k \in DOMAIN chan : \A i \in chan[k] :
       /\ i < next
       /\ i \notin marked
       /\ \A j \in DOMAIN chan \ {k} : i \notin chan[j]
  /\ \A i \in marked : i < next

(* The record says that [not_started_from, planned) was never started.     *)
(* From the moment that bound is read no probe at or beyond it has been    *)
(* sent, nor is one sent later, although workers may still be running.     *)
(* (counts.started = counter.issued() is read before the workers are       *)
(* joined; a worker that takes a later index must see the stop.)           *)
NotStartedIsUntouched ==
  main \in {"join", "decide", "terminal"} \/ Finalized =>
    \A i \in touched : i < started

(* completed + abandoned + not_started = planned, and as sets: a planned   *)
(* index was reported, or the terminal event names it as abandoned, or it  *)
(* lies in the range that was never started, and never two of these.       *)
EveryIndexIsAccounted ==
  Finalized =>
    /\ terminal.completed = Cardinality(marked)
    /\ terminal.completed + Cardinality(terminal.abandoned)
         + terminal.notStarted = Planned
    /\ marked \union terminal.abandoned
         \union (terminal.from .. (Planned - 1)) = Index
    /\ marked \intersect terminal.abandoned = {}
    /\ \A i \in marked \union terminal.abandoned : i < terminal.from

(* "Losing them would make a finished probe read as abandoned" (Batch):    *)
(* unless the stop was forced or the drain budget ran out, every result a  *)
(* worker finished reached the collector, also when the worker withdrew    *)
(* or died.                                                                *)
NoFinishedProbeIsAbandoned ==
  Finalized /\ ~drained /\ ~Forced => \A i \in Index : outcome[i] = "none"

(* A record labelled scan_completed is whole: every planned probe was      *)
(* counted and is in the record, no worker died and no write failed.  And  *)
(* "a crashed worker outranks an interrupt": short of a forced stop, which *)
(* skips the join, a scan in which a worker died is labelled scan_failed.  *)
LabelIsEarned ==
  Finalized =>
    /\ terminal.label = "completed" =>
         /\ marked = Index
         /\ recorded = Index
         /\ panicked = {}
         /\ ~writerFailed
         /\ terminal.notStarted = 0 /\ terminal.abandoned = {}
    /\ panicked # {} /\ ~Forced => terminal.label = "failed"

(* While no write has failed every counted result is in the record or in   *)
(* the span accumulator, once; when the record is finished the accumulator *)
(* is empty.  This is what lets a reader compare the rows with the counts. *)
RecordBacksTheCounts ==
  ~writerFailed =>
    /\ recorded \union pending = marked
    /\ recorded \intersect pending = {}
    /\ Finalized => pending = {}

(* What a reader of the record may rely on, as a refinement: seen through  *)
(* this mapping every behaviour of the engine is one of ScanLedger.  The   *)
(* books close when the work counter is read, and from then on nothing at  *)
(* or beyond the bound is sent and no result is counted, whatever workers  *)
(* still do; the terminal event that is written states the sets and the    *)
(* exit code the process then ends with (finish, terminal_body, cmd_run).  *)
Closed == main \in {"join", "decide", "terminal"} \/ (~Running /\ spawned = WorkerCount)
FinalReport ==
  IF ~Finalized THEN {}
  ELSE {[completed |-> terminal.completed, abandoned |-> terminal.abandoned,
         notStarted |-> terminal.from .. (Planned - 1), code |-> terminal.code]}

Ledger == INSTANCE ScanLedger WITH
  sent <- touched, reported <- marked, exit <- exit,
  bound <- IF Closed THEN started ELSE NoIndex, report <- FinalReport

LedgerIsKept == Ledger!Spec

(* After the second interrupt the process ends although a probe may never  *)
(* return, wherever the engine was; only the joins of a failed spawn are   *)
(* not interruptible.                                                      *)
ForcedStopEnds ==
  (Forced /\ main # "abort") ~> (main \in {"exited", "abort"})

(* After the first interrupt the collection loop ends although a probe may *)
(* never return.                                                           *)
Collecting == main \in {"receive", "notice", "check"}
InterruptEndsCollection == (Cancelled /\ Collecting) ~> ~Collecting

(* If the workers are scheduled and every probe returns, the run ends:     *)
(* nobody waits for ever, in particular not a worker in send on a channel  *)
(* the collector no longer reads.                                          *)
WorkersAreFair == \A w \in Workers : WF_vars(Worker(w))
RunEnds == WorkersAreFair => <>(main = "exited")

-----------------------------------------------------------------------------
(* What the documentation says and the engine does not do.                 *)

(* docs/evidence.md: a worker panic forces scan_failed.                    *)
PanicForcesFailed == Finalized /\ panicked # {} => terminal.label = "failed"

=============================================================================
