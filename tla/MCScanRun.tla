----------------------------- MODULE MCScanRun -----------------------------
(* Model-checking instances of ScanRun.                                    *)
EXTENDS ScanRun

=============================================================================
