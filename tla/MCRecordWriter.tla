--------------------------- MODULE MCRecordWriter ---------------------------
(* Model-checking instances of RecordWriter.                               *)
EXTENDS RecordWriter

=============================================================================
