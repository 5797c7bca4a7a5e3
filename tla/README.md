# scanr in TLA+

`scanr` is a TCP connect scanner: it resolves a plan (targets × ports, a transport, timing), probes
every endpoint with a pool of blocking threads, and writes a JSON-lines record that is meant to be
evidence: what was probed, what was not, and why. The record is what a later `scanr output verify`
or `scanr output remainder | scanr run --pairs -` relies on. The properties here are about that
promise: nothing is lost, counted twice, or said to be complete when it is not.

## The system

| Part (source) | State | Operations | Interacts with | Hard behaviour | What makes it correct |
|---|---|---|---|---|---|
| Scan engine (`src/run.rs`) | channel of batches, `Reported` bitset, counts, spans, `writer_error`, join results | spawn, worker loop, collect, drain, join, terminal event | counter, stop flag, transports, writer | threads against collector, two kinds of stop, a refused thread, a panic, a failed write | the accounting of the terminal event, the label, the exit code, and that it ends |
| Work counter, rate limiter, pool size (`src/sched.rs`) | one atomic, one token bucket | `take`, `issued`, `acquire`, `worker_count` | workers, main thread | `fetch_add` past the end, waiting while stopped | an index is issued once; the bound read from it is true |
| Stop flag and signals (`src/cancel.rs`, `src/cli.rs`) | one atomic each | `request_graceful`, `request_forced`, `on_sigint`, watcher loop | everything that waits | a handler nested in a handler, watcher polling | monotone; two signals force |
| Record writer (`src/output/jsonl.rs`) | `seq`, BufWriter, gzip accumulator, file | `emit`, `emit_terminal`, `finalize` | engine, file system | failing writes, kills, rename | order, durability, the meaning of the file's name |
| Spans (`src/output/span.rs`) | groups of indices per outcome class | `absorb`, `drain_events` | collector, writer | class budget, drains between results | a result is in one row or one span |
| Permutation (`src/plan/permute.rs`) | keys from the seed | `apply` | workers, reader | widths, cycle walk | a bijection, the same in writer and reader |
| Record reader (`src/verify.rs`) | the accumulators of one pass | `verify`, `results`, `summarize`, handoff, `remainder` | record, permutation, target expansion | truncated, damaged and unfinished files | never reports as probed what was not |
| Transports (`src/transport/`, `src/probe.rs`) | a socket | `probe`, `connect_again` | workers, TLS probe | stalls, trickled bytes, chains | a verdict only on a port that was reached |
| Fidelity (`src/fidelity.rs`) | measured replies | `measure`, `judge`, calibration | transports | unreliable proxies | never claims more than was observed |
| Plan (`src/plan/`, `src/net/`, `src/config/`) | layered files, overrides | `resolve`, `expand`, `validate` | command line | precedence, overlaps, exclusions | every endpoint once, provenance true |
| TLS probe, certificates, arithmetic (`src/tls.rs`, `src/x509.rs`, `src/crypto.rs`) | a handshake buffer | first-flight reader, survey | transports | fragmentation | bounded, no verdict from garbage |
| Service labels (`src/services.rs`) | a table of three layers, built once | `resolve`, `lookup`, `provenance` | plan, reader | which layer claims a port | the highest layer's first line names it; every labelled port counted once |
| Output, diagnostics (`src/output/human.rs`, `src/diag.rs`, `src/units.rs`, `src/timefmt.rs`) | none that changes | formatting, limits of the host | all | none | text |

`PROJECT.json` lists the same parts with their status, the hazards of this code at the lines where
they bite, and the line ranges each definition stands for.

## The modules

### `ScanRun`: one run of the engine

The state is what the threads of `execute_with` share or keep: the stop flag, the counter, the channel
and its receiver, each worker's place in `worker` with the index, the answer and the attempts it holds
and its unsent batch, and on the main thread the collector's counts, bitset, spans and drain
clock, the writer's failure, the counter read for the terminal event, the reaped joins, the
terminal event and the exit code. `touched`, `panicked` and `outcome` are history used by properties.

A worker's actions are the steps between which another thread may run: `Take` (`counter.take`),
`Withdraw` (either of the two checks of the flag), `Acquire` (the rate limiter), `StartProbe`,
`ProbeReturns`, `GiveUpRetry` and `RetryProbe` (the checks around the retry delay), `Report`
(`Batch::push`), `SendBatch` (`Batch::flush`, which blocks on a full channel and fails without a
receiver), `Leave` (`Batch::drop` and the end of the thread) and `Panic`. The main thread's actions follow
`execute_with` from top to bottom: header, spawning (with `SpawnFails` and `Abort`), one round of
`Collector::run` as `Receive`/`ReceiveTimesOut`/`Disconnected`, `NoticeInterrupt`,
`StopCollecting`/`KeepCollecting`/`Tick`, then `DropReceiver`, `CaptureStarted`, `Join`/`SkipJoin`,
`Decide`, `WriteTerminal`/`TerminalFails`.

Abstractions: an answer is one of the classes the engine tells apart (`open`, `closed`, `timeout`,
`pressure`), a deadline may pass whenever the clock could have reached it, a batch is a set, a failed
write leaves any strict subset of the rows of its batch, and `terminal_body`'s reads of the flag
are one step. Atomic accesses interleave: the model assumes sequential consistency, while the
counter is `Relaxed` (see the hazard at `src/sched.rs:98`).

### `RecordWriter`: the record on its way to the disk

An event goes through the `BufWriter` and, in a compressed record, `GzFrames`, before it is on the disk.
Each layer is an operator from the state of the file to the set of (state, result) pairs it may come to,
so a failure may happen in any write, keep or lose what that layer keeps or loses, and leave a gzip
member cut short. The actions are `execute_with`'s calls: two header events, events through `emit`
(silent after the first failure), the label, the terminal event, `finalize`; and a kill at any point.

### `Signals` and `StopFlag`: from a signal to the stop flag

`Signals` has the steps of `on_sigint` for each signal that arrives (`Arrive`: the load and its early return,
`Exchange` and `ExchangeFails`: the two outcomes of the weak compare-exchange), the two halves of the watcher's round (`Poll`
reads the count, `Request` acts on what it read) and `EngineAsks`, the graceful stop `spawn_workers` requests on the
main thread. A handler may run inside another or beside it, so their steps interleave; the watcher may be absent, since
`spawn_signal_watcher` ignores a refused thread. `StopFlag` is what everything that waits relies on, a flag that starts as
`running` and only escalates; `ScanRun` treats the flag that way, and `Signals` is checked to implement it.
`Cancel::escalate` is not modelled: nothing outside its own tests calls it.

### `Permutation` and `Resume`: what a record says was not probed

`Permutation` has no state: the Feistel network and the cycle walk of `src/plan/permute.rs` as functions, with the exclusive
or as a parameter and a round being any function on halves, as a key may select any. `Walk` feeds the network's output back into it, `Steps`
is the number of the first output in the plan, and `Apply` that output. `Resume` assumes of its plan that the size is a 64-bit number
(`Fits`) and of the parameter that it undoes itself on halves (`XorIsInvertible`), which an exclusive or does. `Resume` writes a record with it and reads it back. Writing: `Take`
issues an index, `Collect` counts a result and absorbs it into a span (`Absorb`) or gives it a row (`Refuse`), `Drain` is a progress
tick, `Finish` the last drain followed by the terminal event with its hint, `Kill` the death of the process (rows behind the
last drained span may be gone). Reading: `Damage` removes any event of a finished record,
and `Remainder` is `scanr output remainder`: the hint if `Digest::read` finds it backed by the rows and spans (`HintIsUsable`),
the scan of the rows otherwise (`ByScanning`).

The two spaces are kept apart: a row names a position of the plan, a span and the hint
name counter indices, and only the permutation leads from one to the other. What the threads and batches do
between issue and collection is `ScanRun`'s subject and left out here.

### `ProxyPath`: one probe along its path

`DirectTransport::probe` is the path of no hops, `ProxyTransport` the others. `Dial` and `DialFails` are the first connection,
`Send` writes whatever the current step writes (SOCKS5 greeting, credentials, CONNECT to the next hop or to the destination),
`SendFails` and `SocketRefusesTimeout` are its errors. `ReadSome`, `ReadFails` and `DeadlinePasses` are the iterations of `read_exact`, one
call of `read` each, under the two clocks of the code: the socket's timeout, which starts anew at each read, and the deadline
of the exchange. `Misunderstood`, `Selected`, `Authenticated`, `Extended` and `Answered` are what follows a message; `Listen` and `Hello` are
the banner and the ClientHello. `Failure` says where an I/O failure is blamed on the hop and where it is a verdict.

The environment is the other end. `peer` is who is really there: it moves when a hop accepts a CONNECT, while `at` is whom the
probe believes it speaks to. `wire` is what that end has sent, in tokens: the parsers decide how many they take, so the boundary between a
hop's last answer and the service's first word is where the code puts it.

A SOCKS5 hop that never speaks is blamed at the greeting; an HTTP hop has no greeting, so one that never speaks is only noticed by the
CONNECT for the destination and makes it `filtered`. The comment at `src/transport/socks5.rs:430-434` reads as if that were excluded
for every single proxy, while a test of the HTTP hop expects it (`src/transport/http.rs:613`); `VerdictIsAboutTheDestination` states what holds
for both, that the exit hop was being asked for the destination.

### `ScanLedger`: what a reader may rely on

The engine without workers, channel and collector: probes go out, once each; results are counted while the books are open; the
books are closed once, past everything sent; the report says of each index where it stands and states the exit code the
process then has. `ScanRun` maps onto it (`Ledger == INSTANCE ScanLedger WITH ...`): `sent` is `touched`, `reported` is the
collector's bitset, the bound is `not_started_from`, the report is the terminal event. Every step of the engine is one of the
ledger's or none (`LedgerIsKept`), so what was reported never shrinks or changes after the books are closed, a report is made
only once, and no probe that the report calls abandoned or never started is counted.

### `Records` and `Verify`: the readers of a record

`Records` has no state: the events `execute_with` writes, the plan expanded again from `scan_config`
(`Expected`, `span_permutation`), the walk over rows and spans that `output results` and `output summarize` share, the four
sections of a summary with their ranks and cuts, and the commands a handoff groups. A result of the walk has a key, its line and its place in that
line, so that two equal results of a repeated line are two; the callbacks of `walk_results` come in the order of the keys (`InWalkOrder`). A scan can be
by matrix and by pairs in one instance, so the two lists of its constants have the same number of endpoints.

`Verify` starts from any scan the engine can have
run (outcomes, order, stopped or not, spans, both versions of the schema, plans by matrix, by pairs, by files that are named, and by pairs the config cut
short), writes its record, and harms it: one edit of one line
(`Damage`: a line lost, repeated, swapped, garbled, torn, or a field altered) or a death of the writer (`Kill`). Then `Observe` is `Verifier::observe`,
line by line with everything it accumulates, `Finish` its report, and `ReadResults` the other readers on the same file. Nothing asks them to wait for
`verify`: they read what it refused too. An index outside the plan, which `Permutation::apply` only asserts against, leads them to some endpoint or to no end
(`Strayed`), and a seed that does not parse makes them take the index for the place.

`remainder` is `Resume`'s, where the order of probes and the loss of events matter more than the kinds of damage.

### `Planning`: from a command line to endpoints

`Planning` follows `load_config` and `resolve` stage by stage (`Load`, `ValidateFiles`, `CheckScanExists`, `ChooseTransport`, ... ,
`AddWarnings`); a stage refuses or adds what it resolved and, in `prov`, where it was read. What a stage computes is in modules of pure
definitions: `Config` (documents, layered lookup, validation, the cascades), `Targets` (specs, expansion, exclusion, local resolution),
`Transports` (references between transports, fidelity of chains and pools, the pool's choice, `judge` and the
advice of a report) and `Services` (the layers of labels). `Destination` is what a worker aims at. `resolve_transport_at` calls itself; `ResolveLast` is
one call of it, given what the calls below return, and `ResolveTransport` stacks `Depth` levels of it.

The same request may be `transport test`: `Measure`, `Check` for each of the three destinations, `Conclude`, `CalibrateLevel`. `FollowAdvice` is
the operator, who writes what the report says where it says it and plans again: the advice meets the validation it has to pass.

Addresses have four and five bits in place of 32 and 128, and the bounds of an expansion shrink with them. A document is
its tables; its text, spans and suggestions are not modelled.

### `TlsProbe`: a first flight, and a survey of versions

`read_server_flight` record by record: a header that does not come, a body that does not, a record that would pass the bound,
handshake bytes drained message by message (`Drain`), sealed records before and after there are keys, alerts and
records of other types. A server that negotiates is its set of versions, whether it steps down, and its manner with a hello it
cannot take; how its flight is cut into records is left open, and so is an end at any point when it `breaks`. A server that does not may
send any of the messages in any records. `survey_versions` is `AnswerFromMain`, `Reopen`/`ReopenFails`, `VersionEnds`,
`AskSsl2`, `SurveyEnds`, and `LegacyOnly` and `Advice` are what its answers add up to. An SSLv2 reply has a certificate of the server's choosing (`ssl2`), the one of its
TLS flights, another one, or none. `before` is a history variable: what the main probe had learned when the survey began. No action reads it.

## The runs

| Run | Bounds | Shows |
|---|---|---|
| `ScanRun` | 3 probes, 2 workers, channel of 1, batches of 2, 1 retry, 1 panic, spans on; threads and writes may fail | the type invariant, six invariants below, and that the engine implements `ScanLedger` |
| `ScanRunLive` | 2 probes, 2 workers, channel and batch of 1 | the three liveness properties |
| `RecordWriter` | 5 events before the terminal one, plain and compressed | the file's properties below |
| `Signals` | 3 signals, watcher present or absent, the engine asks once or never | no signal is lost, the flag refines `StopFlag`, one signal stops and two force |
| `Resume` | 3 probes, 2 classes, 1 group, every order a network with halves of one bit gives; tracked or not, with spans or not | the bijection, the accounting of spans, the two promises of the remainder |
| `Verify` | 2 hosts of 2 networks, 2 ports, so 4 probes in one order; 2 outcomes and abandonment; versions 1 and 2; one edit or a kill; tables of 1 row | what `verify`, `results`, `summarize` and a handoff may be trusted for |
| `Planning` | some eight thousand requests over one or two files (see `MCPlanning`): 3 transports, 6 settings in every combination of 5 places, specs in a space of 16 and 32 addresses, pairs, label files of up to 2 lines, a document for each refusal | the plan is what was asked for |
| `TlsProbe` | every set of the 6 versions, 4 manners, an SSLv2 certificate that is the leaf, another or none, any cut into records of up to 2 units in a flight of 11; scripts of up to 3 of 11 messages | the bounds of a flight, and the truth of a survey |
| `ProxyPath` | paths of 0 to 3 hops of either kind, with and without credentials; budgets of 2 and 4 ticks, headers of 3 tokens | the five properties of a probe below |
| `PanicForcesFailed` | as `ScanRun`, no failing writes or spawns | the documentation's claim is refuted |
| `ScanningRemainder` | as `Resume`, 1 class | the reader's promise is refuted for a record with spans and no usable hint |
| `PairHostsAreResolved` | as `Planning` | the promise that no transport is handed a name it does not resolve is refuted for pair lists |

Three probes for two workers are the smallest plan in which a worker still takes an index while the other one is
stuck, one index is in a batch, one in the channel and one in a worker's hands, and a bound of the never
started range lies strictly inside the plan. A channel of one batch is full as soon as one batch waits, which is the
case that blocks a sender; a batch of two can be sent full, by age, by urgency and by drop. One panic
meets one surviving worker. `Planned = 3` with `BatchMax = 2` leaves a partial batch. Liveness uses a smaller
instance because nothing it says depends on a third probe.

Three signals are one more than the count distinguishes, so a handler is met in every state of the loop by another that
overtakes it and by one that arrives late. Three probes in a network over four values are the smallest plan
whose walk leaves the plan and returns (`OrderIsABijection` is false when an output is folded instead). One group for two
classes exhausts the accumulator and empties it again; three indices of one class have a gap.

Three hops give a middle one, which is reached through a tunnel and opens another; the budgets differ so
that a deadline taken from the wrong one shows, and each message has more parts than its budget has ticks.

Four probes in a fixed order that is not the plan's and is not its own inverse keep the two spaces of indices apart; two networks, two labels and tables of one
row make a summary cut each of its sections. One edit is enough for every rule of `verify`, each of which is about one
line or one sum. Two files are enough for precedence, since a third repeats a rung; five places of a setting in all
32 combinations decide every pair of rungs, and a spec of every kind with every exclusion meets overlap in both directions. Records of one or two units carry one message, two, or a part of a certificate list, and a flight of eleven
holds the longest negotiated flight but not every way of cutting it.

Safety of the engine: `OneHome` (a result is in one place), `NotStartedIsUntouched` (nothing at or beyond
`not_started_from` is ever probed), `EveryIndexIsAccounted` (completed, abandoned and never started
partition the plan), `NoFinishedProbeIsAbandoned`, `LabelIsEarned` (a completed scan left nothing out, and a crash outranks an interrupt),
`RecordBacksTheCounts`, `LedgerIsKept`. Liveness: `ForcedStopEnds`, `InterruptEndsCollection`,
`RunEnds`. The file: `CriticalIsDurable`, `OrderedAndOnce`, `NothingIsLostSilently`,
`FinalHasTerminal`. Signals: `NoSignalIsLost`, `FlagEscalates` (every
step of the handlers, the watcher and the engine is a step or a stutter of `StopFlag`), `SignalsAreObeyed`. Resumption: `OrderIsABijection`,
`ResultsAreInOnePlace`, `WholeRecordIsResumedExactly`, `NothingUnbackedIsSkipped`. A probe:
`VerdictIsAboutTheDestination`, `OnlySilenceIsRetried` (no hop was reached, or the answer about the destination is not whole), `ExchangeIsBounded` (the deadline is looked at before a read, so an exchange
may outlive it by one read; nothing is claimed before the first message of an exchange was sent, for its clock has not been started), `GreetingIsTheDestinations`, `EveryoneHearsTheirOwn`. Readers: `WholeRecordVerifies` (no whole record is
accused), `VerifiedIsTheScan` (a record without problems is read back as what happened), `KilledRecordIsRead`, `SectionsAgree`, `HandoffIsWhatIsOpen`. Plans:
`TransportIsHonest` (no transport promises more than the proxy that will answer), `HighestRungWins` (every setting and label is that of the highest place that has
one, and its origin names that file), `RequestIsWhatIsProbed` (each endpoint asked for, once, and no other; of an excluded address that a name leads to it says nothing, because the documentation and the code differ there, see below), `NamesStayWithTheProxy`, `AdviceIsSound`. TLS: `FlightIsBounded`,
`LearnedStands` (with a leaf in hand an early end is no error, and after a survey everything is as the main flight had it, an SSLv2 certificate filling in only where it had none), `SurveyIsTruthful` (for a server that negotiates: nothing accepted that it does not speak, and on lasting connections nothing missed, with the verdict
and the advice its versions call for). The type invariants of `RecordWriter`, `Resume`, `Signals`, `Verify`, `ProxyPath` and `TlsProbe` are stated in their modules and
proved; the runs spend their time on the other invariants.

Fairness: the specification assumes only that the main thread is scheduled (weak fairness of `Main`;
its receive has a timeout and its joins poll, so it is never blocked) and that time passes
(`DrainElapses`). It assumes nothing of workers, because a blocking connect may take arbitrarily
long; `RunEnds`, which needs them, states that assumption itself (`WorkersAreFair`). `Signals` assumes that a handler that
was entered runs on, that a compare-exchange which can succeed is not refused for ever, and that the watcher thread is scheduled; nothing
makes a signal arrive. Its run switches the deadlock check off because the system rests there once every signal is
handled and the watcher has returned.

## What is proved

Each theorem holds for every value of the constants, under the assumptions the modules state on them (positive bounds, finite sets,
for the order of a scan the two assumptions of `Resume`, for a TLS server that the versions it speaks are among the six,
that one which speaks any has a certificate and that its SSLv2 reply shows at most one, and for the planner that the names in a document are names, its lists are lists, the specs in them what
the parser can have read, its transports can be counted, a name leads to addresses, at most one scan is asked for, the command
line carries no service file and no `use_etc_services` (it has no such option), /etc/services is at most one list of lines, and the built-in labels can be counted,
and for the readers of a record that its plan has an endpoint and none twice (`RequestIsWhatIsProbed` is why), its ports fit 16 bits, a host and a network have a place among the addresses,
an order is a permutation of the plan (`OrderIsBijective` is why) and the versions are supported ones), and nothing else. Each proof rests on an inductive invariant;
its parts are named for what they say, and its step lemma has one case per action.

**The engine**, for every plan, pool, channel, batch size and retry budget.

`ScanRunProofs`: `TypeCorrect` (`Spec => []TypeOK`) and `NotStartedUntouched` (`Spec => []NotStartedIsUntouched`).
Neither is inductive alone. A probe sent after the bound was read would have an index at or beyond it; it cannot,
because (1) an index that was sent had been issued (`TouchedWasIssued`, which needs `HoldsIndex`: a worker past `Take`
holds an issued index), and (2) once the main thread is past the collection loop either a stop is set, and
then no worker passes the check in front of a probe, or every worker is gone (`LoopEndedForCause`, with
`DrainFollowsStop` for the drain budget and `NotYetSpawned` for workers the pool never got). The conjunction `Inv1` of these with
`TypeOK` is inductive (`Inv1Init`, `Inv1Step`).

The second part of the module strengthens it to `Inv2`: `IndexHasOneHome` (`OneHome`), `IndicesAreAccounted`
(`EveryIndexIsAccounted`), `RecordBacksCounts`, `FinishedProbesAreKept` and `LabelEarned`. A step moves results in one of
few ways (taken, lost, batched, sent, received), so the accounting is proved once per way and not per action. That what was counted lies below the bound
(`MarkedBelowBound`) makes the three sets of the terminal event disjoint, and `CountIsTheMarks` lets its numbers add up. That a finished result is
counted needs where results may wait (`FinishedIsOnItsWay`), that a worker outside the pool holds none (`IdleIsEmpty`), and that the loop ends with
nothing left to receive unless the stop was forced or the drain budget spent (`EndedClean`). A completed label is whole because no
index is lost without a stop or a panic (`NothingIsLost`), and both show in the label.

The end of the module: `EngineKeepsLedger` (`Spec => LedgerIsKept`). The engine implements `ScanLedger`: the initial states map to the ledger's, and
each of the engine's steps is one of the ledger's or leaves it alone. `NotStartedIsUntouched` and `Inv2` are what the mapping needs: a probe
still sent after the books close lies below the bound, and the report states what the collector counted.

**The stop flag**, for any finite set of signals. `SignalsProofs`:

- `SignalsAreCounted`: `Spec => []NoSignalIsLost`. Inductive once the count is bounded by the handlers that have returned
  (`CountIsOfReturned`; no handler counts and goes on) and a handler about to exchange is known to have seen fewer than two (`SeenIsLow`).
- `FlagImplementsStopFlag`: `Spec => FlagEscalates`, step by step; it needs no invariant, because `Graceful` looks at the flag
  it changes and not at the count.

**The file**, for any number of events, plain or compressed. `RecordWriterProofs`: `WriterTypeCorrect`, `CriticalSurvives`
(`CriticalIsDurable`), `RecordIsOrdered` (`OrderedAndOnce`), `FailureIsReported` (`NothingIsLostSilently`) and `FinalNameIsEarned`
(`FinalHasTerminal`). First each layer is shown, from every state of the file and for each of its failures, to keep what lies on the disk,
frame and buffer in order and to add nothing of its own (`Sound`, `Extends`). The invariant `WInv` then says of each phase what the layers hold: an
acknowledged event is on the disk with no torn member before it (`AckedIsFirm`), which survives because the disk only grows; until a write fails nothing is missing or torn
(`WholeUntilFailure`); once the terminal event was written nothing waits in memory (`ClosedWhole`), which is what makes the exit code and the name true.

**A probe**, for paths of any length, answers of any of the kinds a hop has, and any budgets. `ProxyPathProofs`: `ProbeTypeCorrect`,
`VerdictsAreEarned` (`VerdictIsAboutTheDestination`), `RetriesAreOfSilence` (`OnlySilenceIsRetried`), `BudgetsHold` (`ExchangeIsBounded`),
`GreetingIsWhole` (`GreetingIsTheDestinations`) and `CredentialsStayHome` (`EveryoneHearsTheirOwn`). All of them hang on one fact, `Stream`: what was read
and what is still on the wire are together one whole reply of the hop, followed by what the next party says if and only if the reply opened the tunnel. So
a reader that takes exactly its reply (`Progress`) leaves the next party's bytes alone, and the probe believes to be speaking to the party
that is there (`Standing`). `Clocks` bounds an exchange per step. The proof is also why `ExchangeIsBounded` says nothing before the first
message of an exchange: its clock is then the one of the exchange before, and the bound used to hold for the budgets of the run alone.

**The order of a scan**, for every plan whose size is a 64-bit number, any exclusive or and all round functions. `ResumeProofs` begins with `OrderIsBijective`. A round is injective whatever its
function is, so the network is (`FeistelIsInjective`). That the walk comes back to the plan needs no induction over its outputs: a walk in a finite domain meets itself, and
injectivity carries the meeting back step by step to the start, so it returns to the plan (`WalkReturns`). Of two walks that end in one place the longer would have passed the
start of the shorter, which is in the plan, and would have ended there (`ApplyIsInjective`). On a finite set an injection is a bijection.

**Resumption**, for every plan, set of classes and group budget. `ResumeProofs`: `RecordTypeCorrect`, `EveryEndpointIsVisited` (`OrderIsABijection`),
`ResultsHaveOnePlace` (`ResultsAreInOnePlace`), `WholeRecordsResume` (`WholeRecordIsResumedExactly`) and `NoEndpointIsSkippedUnbacked`
(`NothingUnbackedIsSkipped`). In `RInv` no two events of the record cover one index (`Recorded`), groups are disjoint (`Grouped`), and what the record covers
and the groups hold are together what was counted (`Homes`). The reader's check is a sum over the events that are left (`Digest`); `DigestCounts` shows that it is the number of indices
they cover, however many were lost. When that is the number the terminal event states, nothing was lost that the hint relies on, whatever was removed.

**A TLS probe**, for any servers, flights of any length in any records, certificates of any size, and any bounds that leave room for one record. `TlsProbeProofs`: `ProbeTyped`,
`FlightBounded` (`FlightIsBounded`), `LearnedStandsAlways` (`LearnedStands`) and `SurveyTruthful` (`SurveyIsTruthful`). What the parser makes of a flight depends on how many of its
messages were handled and on nothing else (`Observed`): not on the records they came in. `MessageHandled` shows that one message keeps this, and `MessagesHandled` that any number
behind it does. The survey needs that a server which negotiates has its hello in its first record, so a flight that ends on a lasting connection was
at least that far (`Answering`), and that what the main answer settles of a version is what a hello of its own would have shown (`SettledIsTrue`); the
versions are then asked in order, and `Surveyed` adds up. `Remembered` ties what the main probe ends with to `before`, and `GapFilled` to the one step that may add to it. A recursion over messages is reasoned about by its unfolding: a function built
from its predecessor exists (`Unfolding`), by a least length for which it would not, and what holds at 0 and is kept by each step holds throughout (`KeptByEach`).

**A plan's transport, and the advice about it**, for any number of files, any tables in them, any command line, any answers of the proxy that is
measured, and any hash. `PlanningProofs`:

- `ResolutionEnds`: what a name resolves to at the depth where `ResolveTransport` ends is what it resolves to at any greater depth, so the bound of the definition
  cuts nothing off and resolution needs none. A path without a repeated name is shorter than the depth (`FreshIsShort`), and a repeated name is
  refused as a cycle before its table is read; so the levels from there on agree (`EveryLevelIsSettled`).
- `TransportsAreHonest` (`TransportIsHonest`): a transport promises no more than the proxy that will answer. `WhatANameIs` says once what a name can resolve to: one of
  the built-in transports, a proxy, a chain of what can be a hop, or a pool of members. Each pool the hash opens leaves a transport whose fidelity is at least the pool's
  (`OpeningKeeps`), and opening ends at one that holds no pool (`OpenedToTheEnd`). `TransportIsResolved` is the inductive part: a plan's transport is what its files
  say it is, also after the operator has rewritten them.
- `AdviceCanBeFollowed` (`AdviceIsSound`): when the operator follows the advice of `transport test`, the files still validate, no stage refuses what it had not refused
  before, and the transport has exactly the fidelity that was measured. The invariant `AdviceInv` carries the first resolution through the second: what each stage
  passed by (`PassedBy`, `AllPass`) and that the plan at a stage is a function of the files and the command line (`PlanAt`). The rewritten file differs
  in one key of one table (`AdvisedFiles`); so the cascades read what they read before (`SameCascades`, `SettingsStand`), the table still validates
  (`TransportStaysValid`), and the planner reads the measured exit from that table and no other, through any chain (`WhoIsAdvised`, `AdviceIsTaken`).

**The endpoints of a plan**, for addresses of any width, lists of specs of any length, any sets, exclusions, ports, pairs and names. Also in `PlanningProofs`:

- `RequestIsProbed` (`RequestIsWhatIsProbed`): the probes are the endpoints asked for, each once, and besides them at most addresses that are excluded and that a name leads to (`ApplyingDnsLeaves`: a
  lookup adds what names lead to, and loses nothing that was an address). `EndpointsInv` says what each stage has put into the plan and that the
  later stages, a measurement and advice that was followed leave it. The rest is about the lists: a list that enumerates a set has each element at one place
  (`AscendingEnumerates`), so taking duplicates out of a list loses none; the interval of a spec is the set of addresses that `matches` would accept, whatever bits the
  mask leaves set (`Pow2Multiplies`, `BlocksAreApart`), which is why exclusion by expanding and the test by membership agree; flattening lists of lists keeps what is in them (a fold, reasoned
  about by its steps); and position and remainder give each pair of a target and a port one index.
- `NamesStay` (`NamesStayWithTheProxy`): what was looked up is what the plan says was resolved, which is nothing unless it says local; a name is left in a matrix only under a
  transport that resolves, because `resolve_dns` refuses the mode otherwise; and the name an address is greeted by is one the request includes and does not exclude.

**The settings and labels of a plan**, for any number of files, any keys in them and on the command line, and any label lines. Also in `PlanningProofs`:

- `HighestPlaceWins` (`HighestRungWins`): every setting is that of the highest place that has it, and its origin names the file. All cascades are one of two forms: the command
  line, one list of places or two, and a fallback (`CascadeOfTwo`, `CascadeOfOne`); that the lookups of `Config` are of these forms is `PlacesOfScan`, `PlacesOfDefaults`,
  `PlacesOfProfile` and `PlacesOfTransport`. `SettingsInv` says that what a stage recorded as a setting is what its cascade finds in the files as they
  are (`IsSetting`), and that the profile and the label table in the plan are those the files give; a stage that resolves something else leaves it (`SilentStages`), and the operator who rewrites a
  file starts over with no settings. For the labels, `TakenLines` shows that `absorb` takes of each port that no layer has claimed the first line that labels it, so the lines it counts and the ports that
  are the layer's own are in bijection (`AbsorbingIs`); `TableStandsNow` puts the layers together.

The section "Recursion" of `PlanningProofs` holds what these need: a function built level by level from a step exists and has the levels it should (`IterationExists`).

**The readers of a record**, for a plan of any size by matrix or by pairs, every order, any outcomes and place to stop, both versions, with spans or without, any number of rows a
table may show, any networks, labels and addresses, and every edit and kill of `Verify`. `VerifyProofs`: `VerifierTyped`, `WholeRecordsPass` (`WholeRecordVerifies`),
`VerifiedRecordIsTheScan` (`VerifiedIsTheScan`), `KilledRecordsAreRead` (`KilledRecordIsRead`), `SectionsAgreeAlways` (`SectionsAgree`) and `HandoffNamesTheOpen`
(`HandoffIsWhatIsOpen`). The inductive invariant `Inv` (`Invariance`) has three parts: the file is the record of the scan, one edit of it, or a beginning of it (`FileStands`); the
Verifier holds what the lines it was given say (`ReadingStands`); and the walk is the walk over what can be read (`WalkStands`). None of the five properties says how far a
Verifier has come, so none is inductive.

- `Tracks` says what the single pass keeps of the first n lines, as facts about those lines: the header and the second event, a terminal event and its place,
  sums that are the number of results the lines hold, and no problem if and only if each line is sound on its own and after the one before it (`Sound`). It is claimed only as far as the
  lines are events (`Clean`) and begin as a record does (`Headed`), because the accumulators of a file that does not are already a problem. `OneMore` is its step.
- `Fits` is the shape of a record: which line is what, in terms of lines alone. `WholeFits` shows it of what the engine writes. Of each kind of edit it is then shown that verify reports it, or
  that the file still fits (`EditedPasses`): that is so for the progress event lost, for the seed lost in a record that needs none, and for no other. Here the rules of `verify` prove
  to be complete for single edits: a lost or repeated row is found by the sum, an exchange and a repetition by `seq`, each altered value by the rule that is about it.
- Over a file that fits, each probe that reported has one key (`HeldTells`, `EntriesOfScan`), and the place a span's index leads to is the probe's own, in version 2 through the
  permutation and in version 1 as it stands. So the results are in bijection with the scan's, which gives `VerifiedIsTheScan`, and over a beginning, `KilledRecordIsRead`.
- A section partitions the results by a key and a roll-up partitions the rows of a section, and the sizes of the parts of a partition add up to the size of the whole, for sums
  that are folds; so the four tables agree whatever the walk has answered. A table that ranks what answered first shows it first (`RankedFirst`): what is hidden is behind `SectionRows` others, and those
  cannot all be ahead of a row that did not answer and yet is shown.

The proof changed the model. The walk's results used to be a sequence concatenated line by line, about which nothing can be said without induction over its length; keyed by line and
place they are a function, and the order of the callbacks is the order of the keys. A stray index and a missing seed were left out of the walk before, and are now in it.

**Only model-checked.** `RunEnds`, `ForcedStopEnds`, `InterruptEndsCollection` and `SignalsAreObeyed`, because liveness under fairness and `ENABLED` are out of the proof
system's reach. Every invariant and every step property of the passing runs is a theorem.

## What the documentation says and the code does not do

- `PanicForcesFailed`: `docs/evidence.md:14` says a worker panic forces `scan_failed`; after a second interrupt
  `join_workers` (`src/run.rs:475`) returns without reading the join result, and the record says `scan_interrupted`.
- `PairHostsAreResolved`: `src/transport/mod.rs:79` says the planner enforces that a hostname reaches only a transport that resolves; `resolve`
  (`src/plan/resolve.rs:105-130`) looks the names of a pair list up and probes the list as it was given.
- `ScanningRemainder`: `src/verify.rs:2039-2041` says the remainder is never under-reported. `remainder_by_scanning`
  (`src/verify.rs:2208`) subtracts the index of a span as if it were a position of the plan, while `span_permutation` (`src/verify.rs:1707-1728`)
  translates it first: with a permuted order, a killed scan that had drained a span has endpoints skipped that were never probed.

Met while modelling, and no run spent on them:

- `src/output/jsonl.rs:8-9` says a `.partial` name means the process died without finalizing; `execute_with` (`src/run.rs:337`) ignores a failing rename and exits with 0.
- `docs/troubleshooting.md:121-122` says that with exit code 3 the record stays `.partial`; `finalize` renames it when the terminal event could be written after an earlier failure.
- `docs/output-schema.md:33-36` says an unknown version is refused; `verify` refuses it, `walk_results` (`src/verify.rs:1739`) reads it.
- `docs/cli.md:72` says `auto` picks `local` for HTTP CONNECT; `resolve_dns` picks `transport`, because an HTTP proxy resolves names (`supports_remote_dns`).
- `docs/configuration.md:105` says exclusions are applied after expansion, and on line 159 that a multi-address hostname expands; `src/cli.rs:259` says it of `--exclude`.
  `TargetSet::expand` applies them before `apply_dns` (`src/plan/resolve.rs:148`) looks names up, so a name may lead to an excluded address, and it is probed. `RequestIsWhatIsProbed`
  claims neither that it is nor that it is not; stated as an invariant of `Planning`'s instance, that no excluded address is probed is violated.
- The warning of `apply_dns` says an unresolvable host "will not be probed"; in a pair list it is.
- `src/tls.rs:219` says an answer of `None` means the server could not be asked or did not answer in time; an alert to the main hello leaves 1.3 `None` (`src/tls.rs:1166-1182`).
- `docs/output-schema.md:366` says `requested_at` appears whenever an interrupt happened, but a stop set after the collector's last look has none; the comment at
  `src/run.rs:591-592` says `not_started` where the code leaves the probes abandoned.

## Plan

The modules of the plan are written, and their invariants are proved: those of the engine, the signals, the file, the probe's path, resumption, the TLS probe, the planner and
the readers of a record. What would come next: edits in sequence instead of one, for which `verify` has to be asked again which losses hide each other in a sum (a row lost and another
repeated under a new `seq`), and `scanr output remainder` on the same damaged files, which `Resume` now reads only after losses.

## Not modelled

- Formatting, tables, argument and TOML parsing, error rendering: text, without state or interleaving.
- Certificate parsing and cryptographic arithmetic: sequential computations on byte strings at widths no model checker reaches; their tests and fuzz
  target fit them better.
- The rate limiter's tokens: how long `acquire` waits is a matter of real time. The models let it wait any time and end at a stop, so no property
  here depends on it, and none says that the rate is kept.
- `connect_again`: the walk of `ProxyPath` once more; `TlsProbe` takes its success or failure as given.
- A process whose watcher thread could not be spawned (`src/cli.rs:535`) swallows every signal, and one whose spawn failed cannot be hurried by a second
  interrupt while it joins (`src/run.rs:444`): the models have both states, and the properties exempt them.
- The sockets a process holds: `fd_budget` (`src/plan/resolve.rs:1468`) counts one per worker, while a survey holds two.
- The length of SOCKS5 credentials: a user name or password over 255 bytes is refused before it is sent (`src/transport/socks5.rs:542`); in `ProxyPath` they are tokens.
- The secret scan of `verify` beyond whether a line has one, and the sums of timings.
