------------------------------- MODULE Verify -------------------------------
(***************************************************************************)
(* "scanr output verify" and its fellow readers over a record that may     *)
(* have been damaged on the way (src/verify.rs): the line reader (stream), *)
(* the single-pass Verifier, and one walk by which "output summarize" and  *)
(* "output results" read the same file.                                    *)
(*                                                                         *)
(* The scan of Init is any the engine can have run: its outcomes, its      *)
(* order, where it was stopped, with or without spans, in either version   *)
(* of the schema and every mode of plan.  Harm is one edit of the file.    *)
(*                                                                         *)
(* Abstracted: a timestamp's and a credential's text (TRUE when well       *)
(* formed, TRUE when exposed), and the number and wording of the problems  *)
(* of one kind (ValueProblems keeps one line per kind).                    *)
(***************************************************************************)
EXTENDS Records

CONSTANTS
  Orders,     (* The permutations a seed may give.                         *)
  Outcomes,   (* The states a probe may end in.                            *)
  Versions    (* The schema versions a record may have.                    *)

ASSUME VerifyAssumption ==
  /\ \A order \in Orders : order \in [Index -> Index] /\ IsInjective(order)
  /\ Outcomes \subseteq States
  /\ Versions \subseteq SupportedVersions

VARIABLES
  scan,      (* What really happened: the truth the record stands for.     *)
  lines,     (* The lines of the file.                                     *)
  partial,   (* Whether the file is still named .partial.                  *)
  harm,      (* What was done to it.                                       *)
  phase,     (* What is being done with it.                                *)
  pos,       (* Lines consumed by the Verifier.                            *)
  v,         (* The Verifier.                                              *)
  report,    (* The problems reported.                                     *)
  walk       (* What the walk answered.                                    *)

vars == <<scan, lines, partial, harm, phase, pos, v, report, walk>>
file == <<scan, lines, partial, harm>>

Bulk == {"closed", "filtered"}

-----------------------------------------------------------------------------
(* The record.                                                             *)

(* Lines that are not events: text that does not parse, and text that      *)
(* cannot be read (a gzip frame cut short).                                *)
Garbled == [type |-> "garbled"]
Torn == [type |-> "torn"]

(* The envelope JsonlWriter::emit puts around each body.                   *)
Envelope(k) == [seq |-> k - 1, id |-> "scan", ts |-> TRUE, secret |-> FALSE]

Enveloped(bodies) ==
  [k \in DOMAIN bodies |->
     [field \in DOMAIN Envelope(k) \union DOMAIN bodies[k] |->
        IF field \in DOMAIN Envelope(k) THEN Envelope(k)[field] ELSE bodies[k][field]]]

(* Issued probes that reported.                                            *)
Reported(s) == {i \in 0 .. (s.next - 1) : s.outcome[i] # "abandoned"}
InState(s, state) == {i \in Reported(s) : s.outcome[i] = state}

Counts(s) ==
  LET in == [state \in States |-> Cardinality(InState(s, state))]
  IN  [planned |-> Planned, completed |-> Cardinality(Reported(s)),
       abandoned |-> s.next - Cardinality(Reported(s)), not_started |-> Planned - s.next,
       open |-> in["open"], closed |-> in["closed"],
       filtered |-> in["filtered"], error |-> in["error"]]

Terminal(s) ==
  [type |-> IF s.next = Planned /\ Cardinality(Reported(s)) = Planned
              THEN "scan_completed" ELSE "scan_interrupted",
   counts |-> Counts(s)]

(* Rows in some order, one progress event, and the spans in the end.       *)
Spanned(s) == {state \in Bulk : s.collapse /\ InState(s, state) # {}}
Rows(s) == SetToSeq({i \in Reported(s) : s.outcome[i] \notin Spanned(s)})
Spans(s) == SetToSeq(Spanned(s))

Bodies(s) ==
  <<Started(s.version), Config(s.mode)>>
    \o [k \in DOMAIN Rows(s) |-> Row(s.mode, s.order, Rows(s)[k], s.outcome[Rows(s)[k]])]
    \o <<[type |-> "scan_progress"]>>
    \o [k \in DOMAIN Spans(s) |->
          Span(s.version, s.order, Spans(s)[k], InState(s, Spans(s)[k]))]

(* A finished record; a killed one has no terminal event.                  *)
Whole(s) == Enveloped(Append(Bodies(s), Terminal(s)))
Unfinished(s) == Enveloped(Bodies(s))

Scans ==
  {s \in [outcome : [Index -> Outcomes \union {"abandoned"}], next : 0 .. Planned,
          order : Orders, version : Versions, mode : Modes, collapse : BOOLEAN] :
     \A i \in Index : i >= s.next => s.outcome[i] = "abandoned"}

NewVerifier ==
  [events |-> 0, bad |-> 0, first |-> "", second |-> "", id |-> "", version |-> None,
   lastSeq |-> None, sequenceDone |-> FALSE, terminals |-> 0, terminalAt |-> 0,
   counts |-> << >>, sawConfig |-> FALSE, planned |-> None, seed |-> FALSE,
   probes |-> 0, spans |-> 0, spanProbes |-> 0, problems |-> {}]

NoWalk == [ok |-> FALSE, results |-> << >>, unreadable |-> 0]

Init ==
  /\ scan \in Scans
  /\ lines = Whole(scan)
  /\ partial = FALSE
  /\ harm = "none"
  /\ phase = "file"
  /\ pos = 0
  /\ v = NewVerifier
  /\ report = {}
  /\ walk = NoWalk

-----------------------------------------------------------------------------
(* Harm.                                                                   *)

(* The values an event may have been given instead of its own: in what is  *)
(* its own, by the kind of the event, and in the envelope.                 *)
MisvaluedRow(e) ==
  {[e EXCEPT !.port = p] : p \in {None, 0, 65616}}
    \union {[e EXCEPT !.state = "banana"], [e EXCEPT !.source = "guess"],
            [e EXCEPT !.protocol = "udp"], [e EXCEPT !.attempts = 0],
            [e EXCEPT !.attempts = 2], [e EXCEPT !.attemptStates = <<"banana">>],
            [e EXCEPT !.index = Planned], [e EXCEPT !.timing = [connect |-> 1]],
            [e EXCEPT !.timing = [total |-> -2]]}

MisvaluedSpan(e) ==
  {[e EXCEPT !.count = c] : c \in {None, 0, e.count + 1}}
    \union {[e EXCEPT !.state = "banana"], [e EXCEPT !.source = "guess"],
            [e EXCEPT !.timing = [min |-> 3, mean |-> 2, max |-> 1]]}
    \union {[e EXCEPT !.ranges = ranges] :
              ranges \in {Append(e.ranges, Last(e.ranges)),
                          Append(e.ranges, <<Planned, Planned>>), <<<<1, 0>>>>}}

Misvalued(e) ==
  CASE e.type = "probe_result" -> MisvaluedRow(e)
    [] e.type = "probe_span"   -> MisvaluedSpan(e)
    [] e.type = "scan_config"  -> {[e EXCEPT !.seed = FALSE]}
    [] e.type = "scan_started" -> {[e EXCEPT !.version = 9]}
    [] e.type \in Terminals    -> {[e EXCEPT !.counts[c] = @ + 1] : c \in DOMAIN e.counts}
    [] OTHER -> {}

Malformed(e) ==
  {[e EXCEPT !.id = "other"], [e EXCEPT !.seq = None], [e EXCEPT !.ts = FALSE],
   [e EXCEPT !.secret = TRUE]} \union Misvalued(e)

(* One edit: a line lost, repeated, exchanged with the next, made          *)
(* unreadable, taken from another scan or given a malformed value.         *)
Edits(whole) ==
  LET Put(k, e) == [whole EXCEPT ![k] = e]
  IN  {RemoveAt(whole, k) : k \in DOMAIN whole}
        \union {InsertAt(whole, k, whole[k]) : k \in DOMAIN whole}
        \union {[whole EXCEPT ![k] = whole[k + 1], ![k + 1] = whole[k]] :
                  k \in 1 .. (Len(whole) - 1)}
        \union {Put(k, Garbled) : k \in DOMAIN whole}
        \union {Put(k, Torn) : k \in DOMAIN whole}
        \union UNION {{Put(k, e) : e \in Malformed(whole[k])} : k \in DOMAIN whole}

Damage ==
  /\ phase = "file" /\ harm = "none"
  /\ lines' \in Edits(lines)
  /\ harm' = "edited"
  /\ UNCHANGED <<scan, partial, phase, pos, v, report, walk>>

(* The process was killed: the file keeps its .partial name and ends in    *)
(* the middle, at a line's end or within a frame.                          *)
Kill ==
  /\ phase = "file" /\ harm = "none"
  /\ \E n \in 0 .. Len(Unfinished(scan)), tail \in {<< >>, <<Torn>>} :
       lines' = SubSeq(Unfinished(scan), 1, n) \o tail
  /\ partial' = TRUE
  /\ harm' = "killed"
  /\ UNCHANGED <<scan, phase, pos, v, report, walk>>

-----------------------------------------------------------------------------
(* Verifier::observe.                                                      *)

Problem(w, kinds) == [w EXCEPT !.problems = @ \union kinds]

(* The first two events and the number of all.                             *)
Counted(w, e) ==
  [w EXCEPT !.events = @ + 1,
            !.first   = IF w.events = 0 THEN e.type ELSE @,
            !.second  = IF w.events = 1 THEN e.type ELSE @,
            !.id      = IF w.events = 0 THEN e.id ELSE @,
            !.version = IF w.events = 0 /\ e.type = "scan_started" THEN e.version ELSE @]

(* check_identity: the walk ends at the first event of another scan.       *)
CheckIdentity(w, e) ==
  CASE w.sequenceDone -> w
    [] ~w.sequenceDone /\ e.id # w.id ->
         Problem([w EXCEPT !.sequenceDone = TRUE], {"scan_id"})
    [] ~w.sequenceDone /\ e.id = w.id /\ e.seq = None -> Problem(w, {"no seq"})
    [] OTHER -> Problem([w EXCEPT !.lastSeq = e.seq],
                        IF e.seq <= w.lastSeq THEN {"seq order"} ELSE {})

(* What a later rule needs of the singleton events, and the sums.          *)
Lifted(w, e) ==
  CASE e.type \in Terminals ->
         [w EXCEPT !.terminals = @ + 1,
                   !.terminalAt = IF w.terminals = 0 THEN w.events ELSE @,
                   !.counts = IF w.terminals = 0 THEN e.counts ELSE @]
    [] e.type = "scan_config" /\ ~w.sawConfig ->
         [w EXCEPT !.sawConfig = TRUE, !.planned = e.planned, !.seed = e.seed]
    [] e.type = "probe_result" -> [w EXCEPT !.probes = @ + 1]
    [] e.type = "probe_span" ->
         [w EXCEPT !.spans = @ + 1, !.spanProbes = @ + (IF e.count = None THEN 0 ELSE e.count)]
    [] OTHER -> w

Failed(bad) == {kind \in DOMAIN bad : bad[kind]}

CheckTimings(timing) ==
  (DOMAIN timing \intersect {"total"} = {}) \/ \E t \in DOMAIN timing : timing[t] < 0

CheckProbeRow(planned, e) ==
  Failed([port |-> e.port \notin 1 .. MaxPort, state |-> e.state \notin States,
          source |-> e.source \notin Sources, protocol |-> e.protocol # "tcp",
          attempts |-> e.attempts \in {None, 0} \/ Len(e.attemptStates) # e.attempts,
          attempt_states |-> \E k \in DOMAIN e.attemptStates : e.attemptStates[k] \notin States,
          probe_index |-> planned # None /\ e.index >= planned,
          timing |-> CheckTimings(e.timing)])

(* Faulty variant: a range of one index is taken for a reversed one.       *)
BadRangeStrict(planned, ranges, k) ==
  \/ ranges[k][1] >= ranges[k][2]
  \/ k > 1 /\ ranges[k][1] <= ranges[k - 1][2]
  \/ planned # None /\ ranges[k][2] >= planned

(* A range that is reversed, not after the last one, or beyond the plan.   *)
BadRange(planned, ranges, k) ==
  \/ ranges[k][1] > ranges[k][2]
  \/ k > 1 /\ ranges[k][1] <= ranges[k - 1][2]
  \/ planned # None /\ ranges[k][2] >= planned

(* check_span_row returns at a missing count and at the first bad range.   *)
CheckSpanRow(planned, e) ==
  LET bad == \E k \in DOMAIN e.ranges : BadRange(planned, e.ranges, k)
      covered == Cardinality(Expansion(e.ranges))
  IN  Failed([state |-> e.state \notin States, source |-> e.source \notin Sources,
              count |-> e.count \in {None, 0},
              ranges |-> e.count # None /\ bad,
              coverage |-> e.count # None /\ ~bad /\ covered # e.count,
              timing |-> e.count # None /\ ~bad
                           /\ ~(e.timing.min <= e.timing.mean /\ e.timing.mean <= e.timing.max)])

CheckValues(w, e) ==
  Problem(w, Failed([ts |-> ~e.ts, credential |-> e.secret])
               \union CASE e.type = "probe_result" -> CheckProbeRow(w.planned, e)
                        [] e.type = "probe_span"   -> CheckSpanRow(w.planned, e)
                        [] OTHER -> {})

Observed(w, e) ==
  IF e.type = "garbled" THEN [w EXCEPT !.bad = @ + 1]
  ELSE CheckValues(Lifted(CheckIdentity(Counted(w, e), e), e), e)

-----------------------------------------------------------------------------
(* Verifier::finish.                                                       *)

ReportHeader(w) ==
  Failed([first |-> w.first # "scan_started",
          second |-> w.events > 1 /\ w.second # "scan_config",
          version |-> w.version # None /\ w.version \notin SupportedVersions,
          seed |-> w.spans > 0 /\ w.sawConfig /\ ~w.seed /\ w.version >= 2])

ReportTerminal(w) ==
  Failed([no_terminal |-> w.terminals = 0, terminals |-> w.terminals > 1,
          follow |-> w.terminals = 1 /\ w.terminalAt # w.events])

Answers(counts) == counts.open + counts.closed + counts.filtered + counts.error

(* Faulty variant: the rows are not held against the counts.               *)
ReportCountsAlone(w) ==
  IF w.terminals = 0 THEN {}
  ELSE Failed([parts |-> Answers(w.counts) # w.counts.completed,
               planned |-> w.counts.planned # w.counts.completed + w.counts.abandoned
                                                + w.counts.not_started])

ReportCounts(w) ==
  IF w.terminals = 0 THEN {}
  ELSE Failed([completed |-> w.counts.completed # w.probes + w.spanProbes,
               parts |-> Answers(w.counts) # w.counts.completed,
               planned |-> w.counts.planned # w.counts.completed + w.counts.abandoned
                                                + w.counts.not_started])

Problems(w) ==
  IF w.events = 0 THEN {"no events"} \union Failed([line |-> w.bad > 0])
  ELSE Failed([line |-> w.bad > 0, suffix |-> partial])
         \union ReportHeader(w) \union w.problems \union ReportTerminal(w) \union ReportCounts(w)

-----------------------------------------------------------------------------
(* The commands.                                                           *)

(* The events the line reader gives before it stops.  A file that was      *)
(* finalized must be readable to its end; a .partial one may stop anywhere *)
(* after its first event.                                                  *)
TornAt == {k \in DOMAIN lines : lines[k].type = "torn"}
Readable == IF TornAt = {} THEN lines ELSE SubSeq(lines, 1, Min(TornAt) - 1)
Events ==
  [k \in {j \in DOMAIN Readable : Readable[j].type # "garbled"} |-> Readable[k]]

(* Faulty variant: a file cut short is refused whatever its name.          *)
StreamRefusesTorn == TornAt # {}

StreamRefuses == TornAt # {} /\ ~(partial /\ DOMAIN Events # {})

StartVerify ==
  /\ phase = "file"
  /\ phase' = "verifying"
  /\ UNCHANGED <<file, pos, v, report, walk>>

Observe ==
  /\ phase = "verifying"
  /\ pos < Len(Readable)
  /\ pos' = pos + 1
  /\ v' = Observed(v, lines[pos + 1])
  /\ UNCHANGED <<file, phase, report, walk>>

Finish ==
  /\ phase = "verifying"
  /\ pos = Len(Readable)
  /\ report' = IF StreamRefuses THEN {"cannot read"} ELSE Problems(v)
  /\ phase' = "verified"
  /\ UNCHANGED <<file, pos, v, walk>>

Strayed(order, stray) == [i \in 0 .. Planned |-> IF i = Planned THEN stray ELSE order[i]]
Walked(w) == [ok |-> TRUE, results |-> w.results, unreadable |-> w.unreadable]

(* walk_results, under summarize and get.  Permutation::apply asserts that *)
(* its argument is in the plan; in a build without assertions a span that  *)
(* is not (Malformed's Planned) leads to some endpoint, or to no end.      *)
ReadResults ==
  /\ phase = "verified"
  /\ IF ~StreamRefuses /\ DOMAIN Events # {} /\ CanWalk(Events)
       THEN \/ \E stray \in Index : walk' = Walked(Walk(Events, Strayed(scan.order, stray)))
            \/ "ranges" \in report /\ walk' = NoWalk
       ELSE walk' = NoWalk
  /\ phase' = "read"
  /\ UNCHANGED <<file, pos, v, report>>

Over == phase = "read" /\ UNCHANGED vars

Next ==
  \/ Damage
  \/ Kill
  \/ StartVerify
  \/ Observe
  \/ Finish
  \/ ReadResults
  \/ Over

Spec == Init /\ [][Next]_vars

-----------------------------------------------------------------------------
(* Properties.                                                             *)

(* The results of the scan, as a reader is to see them.                    *)
Truth == {<<At(scan.mode, scan.order[i]), scan.outcome[i]>> : i \in Reported(scan)}
Seen ==
  {<<<<walk.results[p].host, walk.results[p].port>>, walk.results[p].state>> :
     p \in DOMAIN walk.results}

TypeOK ==
  /\ scan \in Scans
  /\ partial \in BOOLEAN /\ walk.ok \in BOOLEAN
  /\ harm \in {"none", "edited", "killed"}
  /\ phase \in {"file", "verifying", "verified", "read"}
  /\ pos \in 0 .. Len(lines) /\ v.events + v.bad = pos

(* verify passes every record the engine writes and finalizes, of either   *)
(* version, interrupted or complete, with rows, spans or both.             *)
WholeRecordVerifies ==
  harm = "none" /\ phase \in {"verified", "read"} => report = {}

(* "A record that has lost a result cannot pass as complete": when verify  *)
(* finds nothing, the file was finalized, and the results every reader     *)
(* takes from it are those of the scan, each once, at their own endpoints  *)
(* and in the numbers the terminal event claims.  (Verifier, walk_results, *)
(* span_permutation.)                                                      *)
VerifiedIsTheScan ==
  phase = "read" /\ report = {} =>
    /\ ~partial
    /\ walk.ok =>
         /\ Seen = Truth
         /\ Cardinality(DOMAIN walk.results) = Cardinality(Truth)
         /\ walk.unreadable = 0
         /\ \A s \in States : v.counts[s] = Cardinality({t \in Truth : t[2] = s})
    /\ ~walk.ok => ~Expandable(scan.mode) /\ v.spans > 0

(* A killed scan is read up to its last complete line, never refused for   *)
(* where it stops, and never passes for a finished one.  (stream.)         *)
KilledRecordIsRead ==
  phase = "read" /\ harm = "killed" =>
    /\ report # {}
    /\ DOMAIN Events # {} /\ (Expandable(scan.mode) \/ v.spans = 0) =>
         /\ walk.ok
         /\ Seen \subseteq Truth
         /\ Cardinality(DOMAIN walk.results) = v.probes + v.spanProbes

(* The results of a walk in a state, a state of no known name apart.       *)
Total(b) ==
  Cardinality({k \in DOMAIN walk.results :
                 IF b = "other" THEN walk.results[k].state \notin States
                                ELSE walk.results[k].state = b})

(* A table cut to its first rows hides none that answered while it shows   *)
(* one that did not.                                                       *)
AnsweredFirst(rank, open) ==
  (\E hidden \in DOMAIN rank \ Shown(rank) : open[hidden] > 0)
    => \A row \in Shown(rank) : open[row] > 0

(* "Anything that would make the tables disagree with the totals" is       *)
(* counted apart: the host, port, network and service sections hold the    *)
(* same results in each state, a state of no known name in none of the     *)
(* four; when verify found nothing there is no caveat and the tables are   *)
(* the totals; and each table shows what answered first.  (summarize,      *)
(* Summary.)                                                               *)
SectionsAgree ==
  phase = "read" /\ walk.ok =>
    LET hosts == ByHost(walk.results)
        ports == ByPort(walk.results)
        nets  == ByNetwork(walk.results)
        svcs  == ByService(walk.results)
    IN  /\ \A b \in Buckets :
             /\ SumFunction([h \in DOMAIN hosts |-> hosts[h][b]]) = Total(b)
             /\ SumFunction([p \in DOMAIN ports |-> ports[p][b]]) = Total(b)
             /\ SumFunction([n \in DOMAIN nets |-> nets[n].states[b]]) = Total(b)
             /\ SumFunction([s \in DOMAIN svcs |-> svcs[s].states[b]]) = Total(b)
        /\ SumFunction([n \in DOMAIN nets |-> nets[n].hosts]) = Cardinality(DOMAIN hosts)
        /\ report = {} =>
             /\ Caveats(walk) = [unusablePort |-> 0, unknownState |-> 0]
             /\ \A s \in States : Total(s) = v.counts[s]
        /\ AnsweredFirst(HostRank(hosts), [h \in DOMAIN hosts |-> hosts[h].open])
        /\ AnsweredFirst(NetworkRank(nets), [n \in DOMAIN nets |-> nets[n].withOpen])
        /\ AnsweredFirst(PortRank(ports), [p \in DOMAIN ports |-> ports[p].open])
        /\ AnsweredFirst(ServiceRank(svcs), [s \in DOMAIN svcs |-> svcs[s].states.open])

(* What is handed to another scanner is what was found open: over all the  *)
(* commands each host is offered exactly the ports found open on it, in    *)
(* one command.  (get, handoff.)                                           *)
HandoffIsWhatIsOpen ==
  phase = "read" /\ walk.ok /\ report = {} =>
    LET open == Hits(walk.results, [hosts |-> {}, ports |-> {}, states |-> {"open"}])
        commands == Commands(open)
    IN  /\ UNION {c.hosts \X c.ports : c \in commands}
             = {t[1] : t \in {u \in Truth : u[2] = "open"}}
        /\ \A c, d \in commands : c # d => c.hosts \intersect d.hosts = {}

=============================================================================
