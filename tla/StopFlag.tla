------------------------------ MODULE StopFlag ------------------------------
(***************************************************************************)
(* What the engine may rely on of the shared stop flag (src/cancel.rs): it *)
(* starts as running and only escalates.                                   *)
(***************************************************************************)

VARIABLE flag

Init == flag = "running"

Graceful == flag = "running" /\ flag' = "graceful"
Forced == flag # "forced" /\ flag' = "forced"

Next == Graceful \/ Forced

Spec == Init /\ [][Next]_flag

=============================================================================
