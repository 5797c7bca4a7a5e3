------------------------------ MODULE MCResume ------------------------------
(* Model-checking instances of Resume: plans of at most four probes, so    *)
(* that a half is one bit wide.                                            *)
EXTENDS Resume

OneBitXor(a, b) == (a + b) % 2

=============================================================================
