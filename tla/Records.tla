------------------------------ MODULE Records ------------------------------
(***************************************************************************)
(* What a scan record holds and what its readers make of it: the events    *)
(* execute_with writes (src/run.rs), the plan re-expanded from scan_config *)
(* (Expected), the walk over rows and spans that "output results" and      *)
(* "output summarize" share (walk_results), the sections of a summary and  *)
(* the shapes a result is handed on in (src/verify.rs).                    *)
(*                                                                         *)
(* Abstracted: names, addresses and labels are values that are only        *)
(* compared; layout, colours and JSON are left out; a timing is a small    *)
(* number; banners and TLS evidence travel with a row unchanged.           *)
(***************************************************************************)
EXTENDS Integers, Sequences, FiniteSets, SequencesExt, FiniteSetsExt

CONSTANTS
  Hosts,      (* The targets of a matrix scan, in order.                   *)
  Ports,      (* Its ports, in order.                                      *)
  Pairs,      (* The <<host, port>> list of a pair scan, in order.         *)
  NetOf,      (* The network of a host: network_of.                        *)
  HostKey,    (* The place of a host or a network among the addresses.     *)
  ScanLabel,  (* The label of a port in the scan's service table.          *)
  LabelOf,    (* The same in the reader's, which a span's results take.    *)
  SectionRows (* SECTION_ROWS.                                             *)

NoLabel == "-"
MaxPort == 65535

ASSUME RecordsAssumption ==
  /\ Hosts \in Seq(STRING) /\ Ports \in Seq(1 .. MaxPort)
  /\ Pairs \in Seq(STRING \X (1 .. MaxPort))
  /\ Len(Pairs) = Len(Hosts) * Len(Ports) /\ Len(Pairs) > 0
  /\ IsInjective(Hosts) /\ IsInjective(Ports) /\ IsInjective(Pairs)
  /\ \A h \in ToSet(Hosts) \union {pair[1] : pair \in ToSet(Pairs)} :
       HostKey[h] \in Nat /\ HostKey[NetOf[h]] \in Nat
  /\ SectionRows \in Nat \ {0}

Planned == Len(Pairs)
Index == 0 .. (Planned - 1)

(* A field that is missing or of another type: what as_u64 answers None to.*)
None == -1

States == {"open", "closed", "filtered", "error"}
Sources == {"local_stack", "proxy_reply", "timeout", "internal"}
SourceOf ==
  [open |-> "local_stack", closed |-> "local_stack", filtered |-> "timeout",
   error |-> "internal"]

Terminals == {"scan_completed", "scan_interrupted", "scan_failed"}
SupportedVersions == {1, 2}

-----------------------------------------------------------------------------
(* The plan of a record.                                                   *)

Modes == {"matrix", "pairs", "file", "truncated"}

(* Specs that name a file, and a pair list too long to embed, cannot be    *)
(* expanded again from the record alone.                                   *)
Expandable(mode) == mode \in {"matrix", "pairs"}

(* Expected::at.                                                           *)
At(mode, i) ==
  IF mode \in {"matrix", "file"}
    THEN <<Hosts[(i \div Len(Ports)) + 1], Ports[(i % Len(Ports)) + 1]>>
    ELSE Pairs[i + 1]

-----------------------------------------------------------------------------
(* Writing.                                                                *)

(* Maximal runs of a set of indices, as <<first, last>>.                   *)
MaximalRuns(indices) ==
  {r \in indices \X indices :
     /\ r[1] <= r[2] /\ r[1] .. r[2] \subseteq indices
     /\ {r[1] - 1, r[2] + 1} \intersect indices = {}}

(* The runs in order: Group::ranges.                                       *)
Runs(indices) ==
  CHOOSE ranges \in [1 .. Cardinality(MaximalRuns(indices)) -> MaximalRuns(indices)] :
    \A j, k \in DOMAIN ranges : j < k => ranges[j][1] < ranges[k][1]

Started(version) == [type |-> "scan_started", version |-> version]

Config(mode) ==
  [type |-> "scan_config", planned |-> Planned, mode |-> mode, seed |-> TRUE]

(* A probe's own row.  One attempt: retries are merged before (ScanRun).   *)
Row(mode, order, i, state) ==
  LET e == At(mode, order[i])
  IN  [type |-> "probe_result", host |-> e[1], port |-> e[2], state |-> state,
       source |-> SourceOf[state], protocol |-> "tcp", attempts |-> 1,
       attemptStates |-> <<state>>, index |-> order[i],
       timing |-> [total |-> 1], label |-> ScanLabel[e[2]]]

(* Counter indices from version 2 on, places in the plan before.           *)
Span(version, order, state, indices) ==
  [type |-> "probe_span", state |-> state, source |-> SourceOf[state],
   count |-> Cardinality(indices),
   ranges |-> Runs(IF version >= 2 THEN indices ELSE {order[i] : i \in indices}),
   timing |-> [min |-> 1, mean |-> 2, max |-> 3]]

-----------------------------------------------------------------------------
(* The walk.                                                               *)

(* span_permutation: counter index in, place in the plan out.  Without a   *)
(* seed, and before version 2, the index is the place.                     *)
PlaceOf(version, config, order, raw) ==
  IF version >= 2 /\ config.seed THEN order[raw] ELSE raw

(* The indices of a span, each under its range.                            *)
Expansion(ranges) ==
  UNION {{r} \X (ranges[r][1] .. ranges[r][2]) : r \in DOMAIN ranges}

(* The results of an event, each at its place in the event.                *)
Entries(e) ==
  CASE e.type = "probe_result" -> {<<0, 0>>}
    [] e.type = "probe_span"   -> Expansion(e.ranges)
    [] OTHER -> {}

(* The results of a file: a line, and a place in that line.                *)
Held(events) == UNION {{k} \X Entries(events[k]) : k \in DOMAIN events}

(* Whether a is before b: of two tuples, the first difference decides.     *)
Less(a, b) ==
  \E k \in DOMAIN a : a[k] < b[k] /\ \A j \in 1 .. (k - 1) : a[j] = b[j]

InWalkOrder(p, q) == p[1] < q[1] \/ (p[1] = q[1] /\ Less(p[2], q[2]))

Result(endpoint, state, label, collapsed) ==
  [host |-> endpoint[1], port |-> endpoint[2], state |-> state, label |-> label,
   collapsed |-> collapsed]

(* The first scan_config, if there is one yet.                             *)
ConfigsBefore(events, k) == {j \in DOMAIN events : j < k /\ events[j].type = "scan_config"}

(* A port that does not fit sixteen bits has no result, and is counted.    *)
IsReadable(e) == e.port \in 0 .. MaxPort

(* The place in the plan of a span's entry.                                *)
PlaceIn(events, order, k, raw) ==
  LET first == events[Min(DOMAIN events)]
  IN  PlaceOf(IF first.type = "scan_started" THEN first.version ELSE 1,
              events[Min(ConfigsBefore(events, k))], order, raw)

(* A place outside the plan has no endpoint and is passed over.            *)
HasResult(events, order, p) ==
  LET e == events[p[1]]
  IN  IF e.type = "probe_result" THEN IsReadable(e)
                                 ELSE PlaceIn(events, order, p[1], p[2][2]) \in Index

ResultOf(events, order, p) ==
  LET e == events[p[1]]
      config == events[Min(ConfigsBefore(events, p[1]))]
      endpoint == At(config.mode, PlaceIn(events, order, p[1], p[2][2]))
  IN  IF e.type = "probe_result"
        THEN Result(<<e.host, e.port>>, e.state, e.label, FALSE)
        ELSE Result(endpoint, e.state, LabelOf[endpoint[2]], TRUE)

(* A span needs the plan, so a config before it that can be expanded.      *)
CanWalk(events) ==
  \A k \in DOMAIN events :
    events[k].type = "probe_span" =>
      /\ ConfigsBefore(events, k) # {}
      /\ Expandable(events[Min(ConfigsBefore(events, k))].mode)

(* walk_results, for the events that parsed.                               *)
Walk(events, order) ==
  [results |-> [p \in {q \in Held(events) : HasResult(events, order, q)} |->
                  ResultOf(events, order, p)],
   unreadable |-> Cardinality({k \in DOMAIN events :
     events[k].type = "probe_result" /\ ~IsReadable(events[k])})]

-----------------------------------------------------------------------------
(* The summary.                                                            *)

(* States::add: a state of no known name is kept apart.                    *)
Buckets == States \union {"other"}
Bucket(state) == IF state \in States THEN state ELSE "other"

(* Faulty variant: an unrecognised state is counted as an error.           *)
TallyAsError(results, keep) ==
  [b \in Buckets |->
     Cardinality({k \in keep :
       b = (IF results[k].state \in States THEN results[k].state ELSE "error")})]

(* The results of a section's row, by state.                               *)
Tally(results, keep) ==
  [b \in Buckets |-> Cardinality({k \in keep : Bucket(results[k].state) = b})]

(* A section: the results of each key.                                     *)
Section(results, key) ==
  [x \in {key[k] : k \in DOMAIN results} |->
     Tally(results, {k \in DOMAIN results : key[k] = x})]

ByHost(results) == Section(results, [k \in DOMAIN results |-> results[k].host])
ByPort(results) == Section(results, [k \in DOMAIN results |-> results[k].port])

(* States::merge, over the rows that are rolled up.                        *)
Merged(section, rows) ==
  [b \in Buckets |-> SumFunctionOnSet([x \in DOMAIN section |-> section[x][b]], rows)]

(* Summary::networks rolls the host section up, a host in one network.     *)
ByNetwork(results) ==
  LET hosts == ByHost(results)
      in(n) == {h \in DOMAIN hosts : NetOf[h] = n}
  IN  [n \in {NetOf[h] : h \in DOMAIN hosts} |->
         [hosts |-> Cardinality(in(n)),
          withOpen |-> Cardinality({h \in in(n) : hosts[h].open > 0}),
          states |-> Merged(hosts, in(n))]]

(* A port's label is the first one a result gave it; a port without one is *)
(* a service of its own.                                                   *)
PortLabel(results, p) ==
  LET labelled == {k \in DOMAIN results : results[k].port = p /\ results[k].label # NoLabel}
      first == CHOOSE k \in labelled : \A j \in labelled \ {k} : InWalkOrder(k, j)
  IN  IF labelled = {} THEN <<p, NoLabel>> ELSE <<0, results[first].label>>

(* Summary::services rolls the port section up.                            *)
ByService(results) ==
  LET ports == ByPort(results)
      under(s) == {p \in DOMAIN ports : PortLabel(results, p) = s}
  IN  [s \in {PortLabel(results, p) : p \in DOMAIN ports} |->
         [ports |-> under(s), states |-> Merged(ports, under(s))]]

(* render_caveats: what is in a section under no state, or in none.        *)
Caveats(w) ==
  [unusablePort |-> w.unreadable,
   unknownState |-> Cardinality({k \in DOMAIN w.results : w.results[k].state \notin States})]

(* The rank of each row of a table, smallest first.  Hosts and networks    *)
(* that answered, then in the order of their addresses; ports and services *)
(* by how many answered.  A name stands where its first port does.         *)
Silent(open) == IF open = 0 THEN 1 ELSE 0

HostRank(hosts) == [h \in DOMAIN hosts |-> <<Silent(hosts[h].open), HostKey[h]>>]

NetworkRank(nets) == [n \in DOMAIN nets |-> <<Silent(nets[n].withOpen), HostKey[n]>>]

PortRank(ports) ==
  [p \in DOMAIN ports |-> <<-ports[p].open, -ports[p].filtered, -ports[p].error, p>>]

ServiceRank(services) ==
  [s \in DOMAIN services |->
     <<-services[s].states.open, -services[s].states.filtered, Min(services[s].ports)>>]

(* The rows a bounded table shows; the others are only counted.            *)
Shown(rank) ==
  {a \in DOMAIN rank :
     Cardinality({b \in DOMAIN rank : Less(rank[b], rank[a])}) < SectionRows}

-----------------------------------------------------------------------------
(* Queries and handing on.                                                 *)

(* Query::wants: an empty field matches everything.                        *)
Wants(query, r) ==
  /\ query.hosts = {} \/ r.host \in query.hosts
  /\ query.ports = {} \/ r.port \in query.ports
  /\ query.states = {} \/ r.state \in query.states

(* get.                                                                    *)
Hits(results, query) == {results[k] : k \in {j \in DOMAIN results : Wants(query, results[j])}}

(* Faulty variant: one command for all hosts.                              *)
OneCommand(hits) == {[ports |-> {h.port : h \in hits}, hosts |-> {h.host : h \in hits}]}

(* handoff, for nmap: one command for each distinct set of ports.          *)
Commands(hits) ==
  LET ports == [host \in {h.host : h \in hits} |->
                  {h.port : h \in {g \in hits : g.host = host}}]
  IN  {[ports |-> ports[host],
        hosts |-> {other \in DOMAIN ports : ports[other] = ports[host]}] :
         host \in DOMAIN ports}

=============================================================================
