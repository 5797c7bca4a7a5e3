------------------------------ MODULE Signals ------------------------------
(***************************************************************************)
(* From a signal to the stop flag (src/cli.rs, src/cancel.rs).             *)
(*                                                                         *)
(* One handler serves SIGINT and SIGTERM.  It counts the signal in an      *)
(* atomic with a compare-exchange loop and does nothing else; a watcher    *)
(* thread polls the count and escalates the stop flag.  Handlers may nest  *)
(* on one thread or run on several, so their steps interleave.  The engine *)
(* asks for a graceful stop too, when it cannot spawn a thread.            *)
(*                                                                         *)
(* Abstracted: the watcher's sleep.  An atomic access is one step.         *)
(***************************************************************************)
EXTENDS Integers, FiniteSets

CONSTANT Handlers   (* Bound: the signals that arrive, each with a handler.*)

ASSUME HandlersAssumption == IsFiniteSet(Handlers)

VARIABLES
  count,     (* SIGINT_COUNT.                                              *)
  pc,        (* Where each handler is.                                     *)
  seen,      (* The count a handler has read.                              *)
  watcher,   (* Where the watcher is; "absent" if it was not spawned.      *)
  sample,    (* The count the watcher has read.                            *)
  flag,      (* The stop flag.                                             *)
  asked      (* Whether the engine has asked for a stop.                   *)

vars == <<count, pc, seen, watcher, sample, flag, asked>>

Init ==
  /\ count = 0
  /\ pc = [h \in Handlers |-> "idle"]
  /\ seen = [h \in Handlers |-> 0]
  /\ watcher \in {"poll", "absent"}
  /\ sample = 0
  /\ flag = "running"
  /\ asked = FALSE

-----------------------------------------------------------------------------
(* on_sigint.                                                              *)

(* A signal arrives: its handler reads the count, and returns at once when *)
(* two have been counted.                                                  *)
Arrive(h) ==
  /\ pc[h] = "idle"
  /\ seen' = [seen EXCEPT ![h] = count]
  /\ pc' = [pc EXCEPT ![h] = IF count < 2 THEN "exchange" ELSE "done"]
  /\ UNCHANGED <<count, watcher, sample, flag, asked>>

(* Faulty variant: a load and a separate store.                            *)
StoreSeen(h) ==
  /\ pc[h] = "exchange"
  /\ count' = seen[h] + 1
  /\ pc' = [pc EXCEPT ![h] = "done"]
  /\ UNCHANGED <<seen, watcher, sample, flag, asked>>

(* compare_exchange_weak succeeds.                                         *)
Exchange(h) ==
  /\ pc[h] = "exchange"
  /\ count = seen[h]
  /\ count' = seen[h] + 1
  /\ pc' = [pc EXCEPT ![h] = "done"]
  /\ UNCHANGED <<seen, watcher, sample, flag, asked>>

(* It fails, because the count has changed or for no reason: the handler   *)
(* takes what is there, and stops when two have been counted.              *)
ExchangeFails(h) ==
  /\ pc[h] = "exchange"
  /\ seen' = [seen EXCEPT ![h] = count]
  /\ pc' = [pc EXCEPT ![h] = IF count < 2 THEN "exchange" ELSE "done"]
  /\ UNCHANGED <<count, watcher, sample, flag, asked>>

-----------------------------------------------------------------------------
(* spawn_signal_watcher.                                                   *)

Poll ==
  /\ watcher = "poll"
  /\ sample' = count
  /\ watcher' = IF count = 0 THEN "poll" ELSE "request"
  /\ UNCHANGED <<count, pc, seen, flag, asked>>

(* Faulty variant: the flag is stored whatever it holds.                   *)
GracefulAlways(current) == "graceful"

(* Cancel::request_graceful: a compare-exchange from running.              *)
Graceful(current) == IF current = "running" THEN "graceful" ELSE current

(* Faulty variant: the watcher's work is done after the first signal.      *)
RequestOnce ==
  /\ watcher = "request"
  /\ flag' = IF sample = 1 THEN Graceful(flag) ELSE "forced"
  /\ watcher' = "returned"
  /\ UNCHANGED <<count, pc, seen, sample, asked>>

(* One counted signal asks for a graceful stop, again at every poll; two   *)
(* force it, and the watcher returns.                                      *)
Request ==
  /\ watcher = "request"
  /\ flag' = IF sample = 1 THEN Graceful(flag) ELSE "forced"
  /\ watcher' = IF sample = 1 THEN "poll" ELSE "returned"
  /\ UNCHANGED <<count, pc, seen, sample, asked>>

(* spawn_workers, on the main thread: a thread was refused.                *)
EngineAsks ==
  /\ ~asked
  /\ asked' = TRUE
  /\ flag' = Graceful(flag)
  /\ UNCHANGED <<count, pc, seen, watcher, sample>>

Next ==
  \/ \E h \in Handlers : Arrive(h) \/ Exchange(h) \/ ExchangeFails(h)
  \/ Poll
  \/ Request
  \/ EngineAsks

(* A handler that has been entered runs on, and a compare-exchange that    *)
(* can succeed is not refused for ever; the watcher thread is scheduled.   *)
(* Nothing makes a signal arrive.                                          *)
Fairness ==
  /\ \A h \in Handlers : WF_vars(Exchange(h)) /\ WF_vars(ExchangeFails(h))
  /\ WF_vars(Poll)
  /\ WF_vars(Request)

Spec == Init /\ [][Next]_vars /\ Fairness

-----------------------------------------------------------------------------
(* Properties.                                                             *)

Arrived == {h \in Handlers : pc[h] # "idle"}
Returned == {h \in Handlers : pc[h] = "done"}

(* The type invariant.                                                     *)
TypeOK ==
  /\ count \in 0 .. 2 /\ sample \in 0 .. 2
  /\ pc \in [Handlers -> {"idle", "exchange", "done"}]
  /\ seen \in [Handlers -> 0 .. 2]
  /\ watcher \in {"poll", "request", "returned", "absent"}
  /\ flag \in {"running", "graceful", "forced"}
  /\ asked \in BOOLEAN

(* "Both read 0, both store 1, and the escalation to forced is lost" must  *)
(* not happen: whatever handlers interleave, each that has returned has    *)
(* been counted, up to two, and nothing else has (on_sigint).              *)
Smaller(a, b) == IF a < b THEN a ELSE b
NoSignalIsLost ==
  /\ Smaller(2, Cardinality(Returned)) <= count
  /\ count <= Cardinality(Arrived)

(* The flag escalates and never goes back, although two threads write it   *)
(* and one of them may act on an old count (Cancel).                       *)
Stop == INSTANCE StopFlag WITH flag <- flag
FlagEscalates == Stop!Spec

(* One signal stops the scan and two force it, if there is a watcher.      *)
SignalsAreObeyed ==
  /\ (watcher # "absent" /\ Returned # {}) ~> flag # "running"
  /\ (watcher # "absent" /\ Cardinality(Returned) >= 2) ~> flag = "forced"

=============================================================================
