---------------------------- MODULE RecordWriter ----------------------------
(***************************************************************************)
(* The scan record on its way to the disk (src/output/jsonl.rs), driven as *)
(* execute_with drives it (src/run.rs): two header events, any number of   *)
(* events through the helper emit, one terminal event, finalize.           *)
(*                                                                         *)
(* An event passes through the BufWriter ("buffer") and, in a compressed   *)
(* record, through the accumulator of GzFrames ("frame") before it is on   *)
(* the disk.  The disk may refuse any write, and the process may be killed *)
(* between any two calls.                                                  *)
(*                                                                         *)
(* Abstracted: the bytes of an event and the sizes at which the buffers    *)
(* spill (a spill may happen at any write), and the instant of the last    *)
(* flush (the interval may be over at any event).  An event is one unit: a *)
(* line is never split between two writes.                                 *)
(***************************************************************************)
EXTENDS Integers, Sequences, SequencesExt

CONSTANT
  MaxEvents      (* Bound: events before the terminal one, header included.*)

ASSUME MaxEventsAssumption == MaxEvents \in Nat /\ MaxEvents >= 2

BodyKinds == {"probe_result", "probe_span"}
TerminalKinds == {"scan_completed", "scan_interrupted", "scan_failed"}
Kinds == {"scan_started", "scan_config"} \union BodyKinds \union TerminalKinds

(* Faulty variant: spans wait for the flush interval as rows do.           *)
CriticalWithoutSpans == Kinds \ BodyKinds

(* is_critical: these are flushed at once.                                 *)
Critical == Kinds \ {"probe_result"}

(* What the record must not lose: everything but single rows.              *)
Essential == Kinds \ {"probe_result"}

(* The end of a gzip member that was cut short: a decoder stops there.     *)
Torn == [seq |-> -1, kind |-> "torn"]

VARIABLES
  compress,        (* plan.compress: whether the record is gzip members.   *)
  phase,           (* Where execute_with is.                               *)
  seq,             (* JsonlWriter.seq.                                     *)
  buffer,          (* Events in the BufWriter.                             *)
  frame,           (* Events in GzFrames.buf.                              *)
  disk,            (* What the file holds.                                 *)
  terminalWritten, (* JsonlWriter.terminal_written.                        *)
  writerError,     (* Whether execute_with's writer_error is set.          *)
  termination,     (* The terminal event's kind, once it is chosen.        *)
  terminalOk,      (* terminal_ok.                                         *)
  name,            (* The name the file has.                               *)
  exit,            (* The exit code, or -1.                                *)
  acked            (* History: the events that must survive whose emit     *)
                   (* returned Ok before any failed.                       *)

vars == <<compress, phase, seq, buffer, frame, disk, terminalWritten, writerError,
          termination, terminalOk, name, exit, acked>>

Init ==
  /\ compress \in BOOLEAN
  /\ phase = "header"
  /\ seq = 0
  /\ buffer = << >>
  /\ frame = << >>
  /\ disk = << >>
  /\ terminalWritten = FALSE
  /\ writerError = FALSE
  /\ termination = "none"
  /\ terminalOk = FALSE
  /\ name = "partial"
  /\ exit = -1
  /\ acked = {}

-----------------------------------------------------------------------------
(* The layers below JsonlWriter.  The state of the file is a triple of     *)
(* buffer, frame and disk; each operation is the set of what it can come   *)
(* to, with the result it returns.                                         *)

Held(inBuffer, inFrame, onDisk) ==
  [buffer |-> inBuffer, frame |-> inFrame, disk |-> onDisk]
File == Held(buffer, frame, disk)

Ok(file) == [file |-> file, ok |-> TRUE]
Failed(file) == [file |-> file, ok |-> FALSE]

(* Faulty variant: the accumulator is cleared after the write.             *)
EmitFrameClearingLast(file) ==
  IF file.frame = << >> THEN {Ok(file)}
  ELSE {Ok(Held(file.buffer, << >>, file.disk \o file.frame)),
        Failed(file),
        Failed(Held(file.buffer, file.frame, Append(file.disk, Torn)))}

(* GzFrames::emit_frame: the accumulator is cleared before the write, so a *)
(* failed write loses what it held, and may leave a member cut short.      *)
EmitFrame(file) ==
  IF file.frame = << >> THEN {Ok(file)}
  ELSE {Ok(Held(file.buffer, << >>, file.disk \o file.frame)),
        Failed(Held(file.buffer, << >>, file.disk)),
        Failed(Held(file.buffer, << >>, Append(file.disk, Torn)))}

(* What the BufWriter does with its bytes: in a plain record they go to    *)
(* the file, and a write that fails keeps those it did not write; in a     *)
(* compressed one they join the accumulator, which becomes a member when   *)
(* it is large enough, and are kept if that fails.                         *)
Spill(file) ==
  IF file.buffer = << >> THEN {Ok(file)}
  ELSE IF ~compress
    THEN {Ok(Held(<< >>, file.frame, file.disk \o file.buffer))}
           \union {Failed(Held(SubSeq(file.buffer, n + 1, Len(file.buffer)), file.frame,
                               file.disk \o SubSeq(file.buffer, 1, n))) :
                     n \in 0 .. (Len(file.buffer) - 1)}
    ELSE LET joined == file.frame \o file.buffer
         IN  {Ok(Held(<< >>, joined, file.disk))}
               \union {IF r.ok THEN Ok(Held(<< >>, r.file.frame, r.file.disk)) ELSE r :
                         r \in EmitFrame(Held(file.buffer, joined, file.disk))}

(* BufWriter::flush over GzFrames::flush or the file.                      *)
Flush(file) ==
  UNION {IF r.ok /\ compress THEN EmitFrame(r.file) ELSE {r} : r \in Spill(file)}

(* write_all of a line: the buffer may have to spill first.                *)
WriteLine(file, event) ==
  {IF r.ok THEN Ok(Held(Append(r.file.buffer, event), r.file.frame, r.file.disk)) ELSE r :
     r \in Spill(file) \union {Ok(file)}}

(* JsonlWriter::emit of an event of this kind; the interval since the last *)
(* flush may be over.                                                      *)
EmitLine(file, event) ==
  UNION {IF ~r.ok THEN {r}
         ELSE IF event.kind \in Critical THEN Flush(r.file)
         ELSE {r} \union Flush(r.file) : r \in WriteLine(file, event)}

(* Dropping the writer: the BufWriter tries once more and ignores a        *)
(* failure, then GzFrames does.                                            *)
DropFile(file) ==
  UNION {IF compress THEN EmitFrame(r.file) ELSE {r} : r \in Spill(file)}

SetFile(file) ==
  /\ buffer' = file.buffer
  /\ frame' = file.frame
  /\ disk' = file.disk

-----------------------------------------------------------------------------
(* execute_with.                                                           *)

(* The envelope of an event, and what its emit returned.                   *)
Event(kind) == [seq |-> seq, kind |-> kind]
Acknowledge(event, ok) ==
  acked' = IF ok /\ ~writerError /\ event.kind \in Essential
             THEN acked \union {event} ELSE acked

(* A header event that fails ends the run: the writer is dropped, the      *)
(* process exits with 3.                                                   *)
EmitHeader ==
  /\ phase = "header"
  /\ LET event == Event(IF seq = 0 THEN "scan_started" ELSE "scan_config")
     IN  \E r \in EmitLine(File, event) :
           /\ Acknowledge(event, r.ok)
           /\ IF r.ok
                THEN /\ SetFile(r.file)
                     /\ phase' = IF seq = 0 THEN "header" ELSE "body"
                     /\ UNCHANGED exit
                ELSE /\ \E d \in DropFile(r.file) :
                          SetFile(Held(<< >>, << >>, d.file.disk))
                     /\ phase' = "exited"
                     /\ exit' = 3
  /\ seq' = seq + 1
  /\ UNCHANGED <<compress, terminalWritten, writerError, termination, terminalOk, name>>

(* Faulty variant: the first failure is not remembered.                    *)
EmitBodyForgetting ==
  /\ phase = "body"
  /\ seq < MaxEvents
  /\ \E kind \in BodyKinds :
       \E r \in EmitLine(File, Event(kind)) :
         /\ SetFile(r.file)
         /\ Acknowledge(Event(kind), r.ok)
  /\ seq' = seq + 1
  /\ UNCHANGED <<compress, phase, terminalWritten, writerError, termination, terminalOk,
                 name, exit>>

(* The helper emit: nothing is written after the first failure, which is   *)
(* remembered.                                                             *)
EmitBody ==
  /\ phase = "body"
  /\ ~writerError
  /\ seq < MaxEvents
  /\ \E kind \in BodyKinds :
       \E r \in EmitLine(File, Event(kind)) :
         /\ SetFile(r.file)
         /\ writerError' = ~r.ok
         /\ Acknowledge(Event(kind), r.ok)
  /\ seq' = seq + 1
  /\ UNCHANGED <<compress, phase, terminalWritten, termination, terminalOk, name, exit>>

(* The label: a failed write makes it scan_failed; otherwise the scan      *)
(* completed, was interrupted, or lost a worker.                           *)
ChooseTermination ==
  /\ phase = "body"
  /\ termination' \in IF writerError THEN {"scan_failed"} ELSE TerminalKinds
  /\ phase' = "terminal"
  /\ UNCHANGED <<compress, seq, buffer, frame, disk, terminalWritten, writerError,
                 terminalOk, name, exit, acked>>

(* JsonlWriter::emit_terminal, called also after a failure.  Its own flush *)
(* finds nothing left to write.                                            *)
EmitTerminal ==
  /\ phase = "terminal"
  /\ \E r \in EmitLine(File, Event(termination)) :
       /\ SetFile(r.file)
       /\ terminalOk' = r.ok
       /\ terminalWritten' = r.ok
       /\ Acknowledge(Event(termination), r.ok)
  /\ seq' = seq + 1
  /\ phase' = "finalize"
  /\ UNCHANGED <<compress, writerError, termination, name, exit>>

ExitCode ==
  CASE writerError \/ ~terminalOk -> 3
    [] ~writerError /\ terminalOk /\ termination = "scan_completed"   -> 0
    [] ~writerError /\ terminalOk /\ termination = "scan_failed"      -> 2
    [] ~writerError /\ terminalOk /\ termination = "scan_interrupted" -> 130

(* Faulty variant: the rename does not wait for a terminal event.          *)
FinalizeAlways ==
  /\ phase = "finalize"
  /\ \E r \in Flush(File) :
       \E d \in DropFile(r.file) :
         /\ SetFile(Held(<< >>, << >>, d.file.disk))
         /\ name' \in IF r.ok THEN {"final", "partial"} ELSE {"partial"}
  /\ exit' = ExitCode
  /\ phase' = "exited"
  /\ UNCHANGED <<compress, seq, terminalWritten, writerError, termination, terminalOk,
                 acked>>

(* JsonlWriter::finalize: a last flush, then the rename, which may fail.   *)
(* execute_with ignores what it returns.                                   *)
Finalize ==
  /\ phase = "finalize"
  /\ \E r \in Flush(File) :
       \E d \in DropFile(r.file) :
         /\ SetFile(Held(<< >>, << >>, d.file.disk))
         /\ name' \in IF r.ok /\ terminalWritten
                        THEN {"final", "partial"} ELSE {"partial"}
  /\ exit' = ExitCode
  /\ phase' = "exited"
  /\ UNCHANGED <<compress, seq, terminalWritten, writerError, termination, terminalOk,
                 acked>>

(* The process is killed: what is in memory is gone.  A kill inside a      *)
(* flush leaves what a kill after an earlier spill leaves, or a member cut *)
(* short at the end of the file.                                           *)
Kill ==
  /\ phase \notin {"exited", "killed"}
  /\ phase' = "killed"
  /\ disk' \in {disk} \union (IF frame = << >> THEN {} ELSE {Append(disk, Torn)})
  /\ buffer' = << >>
  /\ frame' = << >>
  /\ UNCHANGED <<compress, seq, terminalWritten, writerError, termination, terminalOk,
                 name, exit, acked>>

Over == phase \in {"exited", "killed"} /\ UNCHANGED vars

Next ==
  \/ EmitHeader
  \/ EmitBody
  \/ ChooseTermination
  \/ EmitTerminal
  \/ Finalize
  \/ Kill
  \/ Over

Spec == Init /\ [][Next]_vars

-----------------------------------------------------------------------------
(* Properties.                                                             *)

(* What a reader of the file gets: everything up to a member cut short.    *)
Readable ==
  LET cut == SelectInSeq(disk, LAMBDA event : event = Torn)
  IN  IF cut = 0 THEN disk ELSE SubSeq(disk, 1, cut - 1)

Numbers(events) == [k \in DOMAIN events |-> events[k].seq]
Whole(events) == Numbers(events) = [k \in 1 .. seq |-> k - 1]

(* The type invariant; an event anywhere has a number below the next one.  *)
TypeOK ==
  /\ compress \in BOOLEAN
  /\ phase \in {"header", "body", "terminal", "finalize", "exited", "killed"}
  /\ seq \in 0 .. (MaxEvents + 1)
  /\ LET Events == [seq : 0 .. (seq - 1), kind : Kinds]
     IN  /\ buffer \in Seq(Events)
         /\ frame \in Seq(Events)
         /\ disk \in Seq(Events \union {Torn})
         /\ acked \subseteq Events
  /\ terminalWritten \in BOOLEAN
  /\ writerError \in BOOLEAN
  /\ termination \in TerminalKinds \union {"none"}
  /\ terminalOk \in BOOLEAN
  /\ name \in {"partial", "final"}
  /\ exit \in {-1, 0, 2, 3, 130}

(* An event whose loss would make the record uninterpretable, and a span,  *)
(* which is the only trace of many probes, is readable from the file from  *)
(* the moment its emit returned Ok: a kill does not lose it (is_critical). *)
CriticalIsDurable ==
  \A event \in acked : \E k \in DOMAIN Readable : Readable[k] = event

(* "seq strictly increasing" and "one terminal event, last": whatever      *)
(* failed, was written again or was lost on the way, a reader meets no     *)
(* event twice, none out of order, and nothing after the terminal event    *)
(* (GzFrames::emit_frame, BufWriter, JsonlWriter::emit).                   *)
OrderedAndOnce ==
  \A k \in DOMAIN Readable :
    \A j \in 1 .. (k - 1) :
      /\ Readable[j].seq < Readable[k].seq
      /\ Readable[j].kind \notin TerminalKinds

(* Every event is in one of the buffers or on the disk until a write       *)
(* fails, and a process that exits with any code but 3 leaves a file with  *)
(* every event it emitted.                                                 *)
NothingIsLostSilently ==
  /\ phase \in {"header", "body", "terminal"} /\ ~writerError =>
       Whole(disk \o frame \o buffer)
  /\ phase = "exited" /\ exit # 3 => Whole(Readable)

(* The final name is given to a file whose last event is its terminal one. *)
FinalHasTerminal ==
  name = "final" =>
    /\ phase = "exited"
    /\ disk # << >>
    /\ Last(disk) = [seq |-> seq - 1, kind |-> termination]

=============================================================================
