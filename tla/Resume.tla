------------------------------- MODULE Resume -------------------------------
(***************************************************************************)
(* What a record says was not probed: the collector's spans and terminal   *)
(* event (src/output/span.rs, src/run.rs) on the writing side, and         *)
(* "scanr output remainder" (src/verify.rs) on the reading side.           *)
(*                                                                         *)
(* A probe has a counter index, the order in which the counter issued it,  *)
(* and a position, the place of its endpoint in the plan; the permutation  *)
(* maps the one to the other.  A row names its endpoint, so a position; a  *)
(* span and the terminal event name counter indices.                       *)
(*                                                                         *)
(* The scan may finish, be interrupted or be killed, and a finished record *)
(* may lose events before it is read.                                      *)
(*                                                                         *)
(* Abstracted: the endpoint at a position (a bijection, Expected::at), the *)
(* timings in a span, the order of a drain's spans, and workers and        *)
(* batches (ScanRun): here a probe is issued, and later collected.         *)
(***************************************************************************)
EXTENDS Permutation, Sequences, FiniteSets, SequencesExt, FiniteSetsExt

CONSTANTS
  Planned,         (* Probes in the plan.                                  *)
  Classes,         (* The outcome classes a bulk result may have: GroupKey.*)
  MaxGroups        (* MAX_GROUPS.                                          *)

ASSUME ResumeAssumption ==
  /\ Planned \in Nat \ {0}
  /\ MaxGroups \in Nat \ {0}
  /\ IsFiniteSet(Classes)

(* The plan's size is a u64, and Xor is an exclusive or.                   *)
ASSUME OrderAssumption == Fits(Planned) /\ XorIsInvertible(Planned)

Index == 0 .. (Planned - 1)
Position == Index

(* A result that is never bulk: an open port, an error, pressure, or a     *)
(* probe whose attempts disagreed.                                         *)
Single == "single"
ASSUME SingleAssumption == Single \notin Classes

VARIABLES
  perm,      (* The permutation of this scan.                              *)
  collapse,  (* Whether the plan has spans.                                *)
  tracked,   (* Whether the plan is small enough for the Reported bitset.  *)
  next,      (* The work counter.                                          *)
  marked,    (* Counter indices the collector has counted.                 *)
  groups,    (* Spans.groups: the indices absorbed, by class.              *)
  exhausted, (* Spans.exhausted.                                           *)
  record,    (* The events after the header, oldest first.                 *)
  phase,     (* Where the scan and its record are.                         *)
  result     (* What the remainder command answered.                       *)

vars == <<perm, collapse, tracked, next, marked, groups, exhausted, record, phase, result>>
planVars == <<perm, collapse, tracked>>

NoResult == [of |-> "none", path |-> "none", outstanding |-> {}]

Init ==
  /\ \E F \in RoundFunctions(Planned) : perm = Apply(Planned, F)
  /\ collapse \in BOOLEAN
  /\ tracked \in BOOLEAN
  /\ next = 0
  /\ marked = {}
  /\ groups = << >>
  /\ exhausted = FALSE
  /\ record = << >>
  /\ phase = "scanning"
  /\ result = NoResult

-----------------------------------------------------------------------------
(* Writing.                                                                *)

Row(i) == [type |-> "row", at |-> perm[i]]

(* Faulty variant: a gap of one does not end a range.                      *)
RangesOverGaps(indices) ==
  {r \in indices \X indices :
     /\ r[1] <= r[2]
     /\ \A i \in r[1] .. (r[2] - 1) : {i, i + 1} \intersect indices # {}
     /\ {r[1] - 1, r[1] - 2, r[2] + 1, r[2] + 2} \intersect indices = {}}

(* Group::ranges: the maximal runs of the sorted indices.                  *)
Ranges(indices) ==
  {r \in indices \X indices :
     /\ r[1] <= r[2] /\ r[1] .. r[2] \subseteq indices
     /\ {r[1] - 1, r[2] + 1} \intersect indices = {}}

Span(indices) ==
  [type |-> "span", ranges |-> Ranges(indices), count |-> Cardinality(indices)]

(* Spans::drain_events.                                                    *)
DrainedEvents == SetToSeq({Span(groups[c]) : c \in DOMAIN groups})

Take ==
  /\ phase = "scanning"
  /\ next < Planned
  /\ next' = next + 1
  /\ UNCHANGED <<planVars, marked, groups, exhausted, record, phase, result>>

(* A class that has a group keeps it; a new one needs a free one.          *)
HasRoom(c) == c \in DOMAIN groups \/ Cardinality(DOMAIN groups) < MaxGroups

(* Spans::absorb.                                                          *)
Absorb(c, i) ==
  /\ collapse /\ ~exhausted /\ c \in Classes /\ HasRoom(c)
  /\ groups' = [k \in DOMAIN groups \union {c} |->
                  (IF k \in DOMAIN groups THEN groups[k] ELSE {})
                    \union (IF k = c THEN {i} ELSE {})]
  /\ UNCHANGED <<exhausted, record>>

(* A refused result gets a row.  A new class without a free group ends     *)
(* absorption until the next drain.                                        *)
Refuse(c, i) ==
  /\ ~(collapse /\ ~exhausted /\ c \in Classes /\ HasRoom(c))
  /\ exhausted' = (exhausted \/ (collapse /\ c \in Classes))
  /\ record' = Append(record, Row(i))
  /\ UNCHANGED groups

(* One result is collected.                                                *)
Collect ==
  /\ phase = "scanning"
  /\ \E i \in 0 .. (next - 1), c \in Classes \union {Single} :
       /\ i \notin marked
       /\ marked' = marked \union {i}
       /\ Absorb(c, i) \/ Refuse(c, i)
  /\ UNCHANGED <<planVars, next, phase, result>>

(* A progress tick with something to drain.                                *)
Drain ==
  /\ phase = "scanning"
  /\ groups # << >>
  /\ record' = record \o DrainedEvents
  /\ groups' = << >>
  /\ exhausted' = FALSE
  /\ UNCHANGED <<planVars, next, marked, phase, result>>

(* terminal_body and the counts; a scan too large to track has no hint.    *)
Terminal ==
  LET abandoned == (0 .. (next - 1)) \ marked
  IN  [type |-> "terminal", hint |-> tracked, from |-> next,
       indices |-> IF tracked THEN abandoned ELSE {},
       completed |-> Cardinality(marked), abandoned |-> Cardinality(abandoned),
       notStarted |-> Planned - next]

(* The scan ends, by itself or by an interrupt: the last spans, then the   *)
(* terminal event.                                                         *)
Finish ==
  /\ phase = "scanning"
  /\ record' = Append(record \o DrainedEvents, Terminal)
  /\ groups' = << >>
  /\ exhausted' = FALSE
  /\ phase' = "finished"
  /\ UNCHANGED <<planVars, next, marked, result>>

(* The process is killed: rows behind the last span may not have reached   *)
(* the disk, spans have.                                                   *)
Kill ==
  /\ phase = "scanning"
  /\ \E kept \in 0 .. Len(record) :
       /\ \A k \in DOMAIN record : record[k].type = "span" => k <= kept
       /\ record' = SubSeq(record, 1, kept)
  /\ phase' = "killed"
  /\ UNCHANGED <<planVars, next, marked, groups, exhausted, result>>

(* A finished record loses an event: truncated, corrupted or edited.       *)
Damage ==
  /\ phase \in {"finished", "damaged"}
  /\ \E k \in DOMAIN record : record' = RemoveAt(record, k)
  /\ phase' = "damaged"
  /\ UNCHANGED <<planVars, next, marked, groups, exhausted, result>>

-----------------------------------------------------------------------------
(* Reading.                                                                *)

(* Faulty variant: a span counts for nothing.                              *)
DigestOfRows(events) == Cardinality({k \in DOMAIN events : events[k].type = "row"})

(* The probes an event accounts for.                                       *)
Accounted(event) ==
  CASE event.type = "row"      -> 1
    [] event.type = "span"     -> event.count
    [] event.type = "terminal" -> 0

(* Digest::read: the probes the record accounts for.                       *)
Digest(events) ==
  LET probes[k \in 0 .. Len(events)] ==
        IF k = 0 THEN 0 ELSE probes[k - 1] + Accounted(events[k])
  IN  probes[Len(events)]

(* Faulty variant: the hint is believed although the rows are gone.        *)
HintIsTrusted(events) ==
  /\ events # << >>
  /\ Last(events).type = "terminal"
  /\ Last(events).hint
  /\ Planned - Last(events).from = Last(events).notStarted
  /\ Cardinality(Last(events).indices) = Last(events).abandoned

(* The last event is a terminal one with a hint, the hint agrees with the  *)
(* counts, and the counts agree with the rows and spans that are there.    *)
HintIsUsable(events) ==
  /\ events # << >>
  /\ Last(events).type = "terminal"
  /\ Last(events).hint
  /\ Planned - Last(events).from = Last(events).notStarted
  /\ Cardinality(Last(events).indices) = Last(events).abandoned
  /\ Digest(events) = Last(events).completed

(* remainder_from_hint: counter space through the permutation.             *)
FromHint(terminal) ==
  {perm[i] : i \in (terminal.from .. (Planned - 1)) \union terminal.indices}

RowPositions(events) ==
  {events[k].at : k \in {j \in DOMAIN events : events[j].type = "row"}}

(* The indices a span's ranges name.                                       *)
Covered(span) == UNION {r[1] .. r[2] : r \in span.ranges}

SpanIndices(events) ==
  UNION {Covered(events[k]) : k \in {j \in DOMAIN events : events[j].type = "span"}}

(* remainder_by_scanning: the rows' endpoints, and every index a span      *)
(* covers taken for a position.                                            *)
ByScanning(events) == Position \ (RowPositions(events) \union SpanIndices(events))

Remainder ==
  /\ phase \in {"finished", "damaged", "killed"}
  /\ result' = IF HintIsUsable(record)
                 THEN [of |-> phase, path |-> "hint",
                       outstanding |-> FromHint(Last(record))]
                 ELSE [of |-> phase, path |-> "scan",
                       outstanding |-> ByScanning(record)]
  /\ phase' = "read"
  /\ UNCHANGED <<planVars, next, marked, groups, exhausted, record>>

Over == phase = "read" /\ UNCHANGED vars

Next ==
  \/ Take
  \/ Collect
  \/ Drain
  \/ Finish
  \/ Kill
  \/ Damage
  \/ Remainder
  \/ Over

Spec == Init /\ [][Next]_vars

-----------------------------------------------------------------------------
(* Properties.                                                             *)

(* The positions the record still holds a result for.                      *)
Backed(events) == RowPositions(events) \union {perm[i] : i \in SpanIndices(events)}

(* The type invariant, with the order of the events.                       *)
TypeOK ==
  /\ perm \in [Index -> Position]
  /\ collapse \in BOOLEAN /\ tracked \in BOOLEAN /\ exhausted \in BOOLEAN
  /\ next \in 0 .. Planned
  /\ marked \subseteq 0 .. (next - 1)
  /\ DOMAIN groups \subseteq Classes
  /\ \A c \in DOMAIN groups : groups[c] \subseteq marked
  /\ \A k \in DOMAIN record :
       /\ record[k].type \in {"row", "span", "terminal"}
       /\ record[k].type = "terminal" => k = Len(record)
  /\ phase \in {"scanning", "finished", "damaged", "killed", "read"}
  /\ result.path \in {"none", "hint", "scan"} /\ result.outstanding \subseteq Position

(* "A genuine bijection over [0, N)": every endpoint is visited once, also *)
(* where the network is larger than the plan and must be walked.           *)
OrderIsABijection == {perm[i] : i \in Index} = Position

(* The accumulator is bounded (MAX_GROUPS), and a result it does not take  *)
(* is in the record: each counted result is in one row, one span or one    *)
(* group, and a span's count is the number of indices its ranges cover, no *)
(* two ranges covering one index.                                          *)
ResultsAreInOnePlace ==
  LET spans == {k \in DOMAIN record : record[k].type = "span"}
      held  == UNION {groups[c] : c \in DOMAIN groups}
  IN  /\ phase \in {"scanning", "finished"} =>
           /\ Digest(record) + Cardinality(held) = Cardinality(marked)
           /\ Backed(record) \union {perm[i] : i \in held} = {perm[i] : i \in marked}
      /\ \A c, d \in DOMAIN groups : c # d => groups[c] \intersect groups[d] = {}
      /\ Cardinality(DOMAIN groups) <= MaxGroups
      /\ \A k \in spans :
           /\ record[k].count = Cardinality(Covered(record[k]))
           /\ \A r, s \in record[k].ranges :
                r # s => (r[1] .. r[2]) \intersect (s[1] .. s[2]) = {}

(* A finished record that is whole is resumed from its hint, and exactly:  *)
(* what the scan did not report, and nothing else, is probed again.        *)
(* (remainder_from_hint, Digest::read.)                                    *)
WholeRecordIsResumedExactly ==
  result.of = "finished" /\ tracked =>
    result.outstanding = Position \ {perm[i] : i \in marked}

(* "Silently under-reporting a resume set is the failure this tool exists  *)
(* to prevent": a hint is not believed when the rows behind it are gone,   *)
(* and rows alone are enough.  An endpoint is skipped only if the record   *)
(* that was read still holds its result.                                   *)
NothingUnbackedIsSkipped ==
  phase = "read" /\ (result.path = "hint" \/ SpanIndices(record) = {}) =>
    Position \ result.outstanding \subseteq Backed(record)

-----------------------------------------------------------------------------
(* What the source says and the reader does not do: the same, for a record *)
(* with spans and no usable hint.                                          *)
ScanningSkipsOnlyBacked ==
  phase = "read" => Position \ result.outstanding \subseteq Backed(record)

=============================================================================
