----------------------------- MODULE ScanLedger -----------------------------
(***************************************************************************)
(* What a reader of a finished record may rely on, without workers, a      *)
(* channel or a collector: probes are sent, some results are reported, at  *)
(* one moment the books are closed at a bound, and the report says of each *)
(* planned index where it stands.  (The terminal event of docs/evidence.md *)
(* as terminal_body, src/run.rs, writes it.)                               *)
(***************************************************************************)
EXTENDS Integers, FiniteSets

CONSTANT
  Planned    (* Probes in the plan.                                        *)

VARIABLES
  sent,      (* Indices whose probe went out.                              *)
  reported,  (* Indices whose result was counted.                          *)
  bound,     (* The books are closed at this index, or Open.               *)
  report,    (* What the record says at its end, as {report}.              *)
  exit       (* The exit code of the process, or Open.                     *)

ledger == <<sent, reported, bound, report, exit>>

Open == -1
Indices == 0 .. (Planned - 1)

Init ==
  /\ sent = {} /\ reported = {}
  /\ bound = Open /\ report = {} /\ exit = Open

(* A probe goes out, once; with the books closed only one already issued.  *)
Send ==
  /\ exit = Open
  /\ \E i \in Indices \ sent :
       /\ bound # Open => i < bound
       /\ sent' = sent \union {i}
  /\ UNCHANGED <<reported, bound, report, exit>>

(* Results of probes that were sent are counted, while the books are open. *)
Count ==
  /\ exit = Open /\ bound = Open
  /\ \E results \in SUBSET (sent \ reported) : reported' = reported \union results
  /\ UNCHANGED <<sent, bound, report, exit>>

(* The books are closed past everything that was sent.                     *)
Close ==
  /\ exit = Open /\ bound = Open
  /\ \E n \in 0 .. Planned : sent \subseteq 0 .. (n - 1) /\ bound' = n
  /\ UNCHANGED <<sent, reported, report, exit>>

(* The report, which states the exit code the process then has.            *)
Finish ==
  /\ exit = Open /\ bound # Open
  /\ exit' \in {0, 2, 3, 130}
  /\ report' = {[completed |-> Cardinality(reported),
                 abandoned |-> (0 .. (bound - 1)) \ reported,
                 notStarted |-> bound .. (Planned - 1),
                 code |-> exit']}
  /\ UNCHANGED <<sent, reported, bound>>

(* The process ends without a report.                                      *)
Fail ==
  /\ exit = Open
  /\ exit' \in {2, 3}
  /\ UNCHANGED <<sent, reported, bound, report>>

Next == Send \/ Count \/ Close \/ Finish \/ Fail

Spec == Init /\ [][Next]_ledger

=============================================================================
