------------------------------ MODULE Planning ------------------------------
(***************************************************************************)
(* From a command line and configuration files to the endpoints a scan     *)
(* probes: load_config and build_plan (src/cli.rs), config::load, resolve  *)
(* (src/plan/resolve.rs) stage by stage, each stage able to refuse, and    *)
(* what the workers aim at (probe_at, src/plan/types.rs; worker,           *)
(* src/run.rs).  The same command line may be "transport test": measure    *)
(* (src/fidelity.rs), its advice, and the operator who follows it and      *)
(* plans again.                                                            *)
(*                                                                         *)
(* Abstracted: what one setting's value is beyond its number, name or flag;*)
(* the timing fields no property tells apart from connect_timeout; the     *)
(* clock and the threads of a calibration, whose losses are chosen.        *)
(***************************************************************************)
EXTENDS Transports, Services

CONSTANTS
  Requests,     (* Configurations with a command line: see MCPlanning.     *)
  Facts         (* HostFacts: what this host allows.                       *)

VARIABLES
  request,      (* The command line and the files that were found.         *)
  files,        (* Layered: the documents loaded, lowest precedence first. *)
  stage,        (* The stage resolution is at.                             *)
  plan,         (* What has been resolved.                                 *)
  prov,         (* Provenance: the origin of each setting resolved.        *)
  problem,      (* Why resolution stopped, as {kind}.                      *)
  lookups,      (* Names the local resolver has been asked for.            *)
  report        (* The measurement of a transport.                         *)

(* What a document has: every table, in which names are names and lists of *)
(* them are lists, and of which the transports can be counted.             *)
NamesIn(table, k) == \A n \in Key(table, k) : n \in Name
IsScan(t) ==
  /\ NamesIn(t, "transport")
  /\ \A k \in {"targets", "exclude"} : \A list \in Key(t, k) : AreSpecs(list)
  /\ \A list \in Key(t, "ports") : IsList(list)
IsTargetSet(t) ==
  \A k \in {"include", "file", "exclude"} : \A list \in Key(t, k) : AreSpecs(list)
IsDefaults(t) ==
  /\ NamesIn(t, "transport")
  /\ \A file \in Key(t, "services_file") : IsList(file.lines)
IsPortSet(t) == \A list \in Key(t, "ports") : IsList(list)
IsDocument(d) ==
  /\ {"version", "defaults", "profiles", "transports", "targets", "ports", "scans"}
       \subseteq DOMAIN d
  /\ IsFiniteSet(DOMAIN d.transports)
  /\ \A n \in DOMAIN d.transports : \A k \in {"hops", "members"} :
       \A list \in Key(d.transports[n], k) : list \in Seq(Name)
  /\ IsDefaults(d.defaults)
  /\ \A n \in DOMAIN d.scans : IsScan(d.scans[n])
  /\ \A n \in DOMAIN d.targets : IsTargetSet(d.targets[n])
  /\ \A n \in DOMAIN d.ports : IsPortSet(d.ports[n])

(* The arguments of an option are lists of lines; those of targets, specs. *)
ListsIn(arguments) ==
  /\ \A k \in {"targets", "exclude", "ports", "pairs"} : \A option \in Key(arguments, k) :
       IsList(option) /\ \A a \in ToSet(option) : IsList(a.lines)
  /\ \A k \in {"targets", "exclude"} : \A option \in Key(arguments, k) :
       \A a \in ToSet(option) : AreSpecs(a.lines)

IsOption(S) == S = {} \/ \E x \in S : S = {x}

(* That DefaultTransport is a name is so, and said for the provers' sake.  *)
ASSUME PlanningAssumption ==
  /\ DefaultTransport \in Name
  /\ IsFiniteSet(DOMAIN BuiltinServices)
  /\ IsOption(EtcServices) /\ \A lines \in EtcServices : IsList(lines)
  /\ \A r \in Requests :
       /\ {"paths", "cli", "scan", "test"} \subseteq DOMAIN r
       /\ \A path \in r.paths.explicit \union {r.paths.user, r.paths.project} :
            IsDocument(path.document)
       /\ NamesIn(r.cli, "transport") /\ ListsIn(r.cli) /\ IsOption(r.scan)
       /\ {"services_file", "use_etc_services"} \cap DOMAIN r.cli = {}

vars == <<request, files, stage, plan, prov, problem, lookups, report>>

NoReport == [checks |-> << >>, levels |-> << >>, fidelity |-> {}, advice |-> {}]

Init ==
  /\ request \in Requests
  /\ files = << >> /\ stage = "load"
  /\ plan = << >> /\ prov = << >> /\ problem = {}
  /\ lookups = {} /\ report = NoReport

cli == request.cli
scan == request.scan

(* A stage refuses, or adds what it resolved and its origins.              *)
Stage(from, to, refusal, resolved, origins) ==
  /\ stage = from
  /\ IF refusal # {}
       THEN stage' = "refused" /\ problem' = refusal /\ UNCHANGED <<plan, prov>>
       ELSE stage' = to /\ plan' = With(plan, resolved) /\ prov' = With(prov, origins)
            /\ UNCHANGED problem
  /\ UNCHANGED <<request, report>>

-----------------------------------------------------------------------------
(* Files.                                                                  *)

(* load: every discovered file, lowest precedence first.                   *)
Load ==
  /\ stage = "load"
  /\ IF NotFound(request.paths)
       THEN stage' = "refused" /\ problem' = {"no_config"} /\ UNCHANGED files
       ELSE stage' = "validate" /\ files' = Discover(request.paths) /\ UNCHANGED problem
  /\ UNCHANGED <<request, plan, prov, lookups, report>>

(* load_config: the first problem of the files ends every command.         *)
ValidateFiles ==
  /\ Stage("validate", "scan", IF Validate(files) = {} THEN {} ELSE {"invalid"}, << >>, << >>)
  /\ UNCHANGED <<files, lookups>>

CheckScanExists ==
  /\ Stage("scan", "transport",
           IF scan \subseteq ScanNames(files) THEN {} ELSE {"no_scan"}, << >>, << >>)
  /\ UNCHANGED <<files, lookups>>

-----------------------------------------------------------------------------
(* Transport, profile, timing and name resolution.                         *)

TransportName ==
  PickName(files, scan, Key(cli, "transport"), "transport", DefaultTransport)

ChooseTransport ==
  LET r == ResolveTransport(files, TransportName.value)
  IN  /\ Stage("transport", "profile",
               IF r.ok THEN {} ELSE {r.problem},
               [transport |-> r], [transport |-> TransportName])
      /\ UNCHANGED <<files, lookups>>

(* resolve_profile: with nothing chosen the profile follows the transport; *)
(* a profile of the user's own rests on that built-in one.                 *)
DefaultProfile(transport) ==
  IF SupportsRemoteDns(transport) THEN DefaultProxyProfile ELSE DefaultDirectProfile
ProfileName(transport) ==
  PickName(files, scan, Key(cli, "profile"), "profile", DefaultProfile(transport))
ProfileProblem(name) ==
  IF name \in DOMAIN BuiltinProfiles \union ProfileNames(files) THEN {} ELSE {"no_profile"}
BaseProfile(name, transport) ==
  BuiltinProfiles[IF name \in DOMAIN BuiltinProfiles THEN name ELSE DefaultProfile(transport)]

ChooseProfile ==
  LET name == ProfileName(plan.transport)
  IN  /\ Stage("profile", "timing", ProfileProblem(name.value),
               [profile |-> name.value, base |-> BaseProfile(name.value, plan.transport)],
               [profile |-> name])
      /\ UNCHANGED <<files, lookups>>

Field(profile, base, k) ==
  ResolveField(files, scan, profile, Key(cli, k), k,
               IF k \in DOMAIN base THEN base[k] ELSE FieldDefaults[k])
Flag(k, fallback) == ResolveFlag(files, scan, Key(cli, k), k, fallback)

(* The flags and fields of a timing; a limit is read only when what it     *)
(* limits is on (resolve_banner, resolve_tls).                             *)
Flags ==
  [banner |-> Flag("banner", TRUE), tls |-> Flag("tls", FALSE),
   tls_versions |-> Flag("tls_versions", FALSE)]
Timings(profile, base) ==
  LET fields == {"concurrency", "rate", "retries", "connect_timeout"}
        \union (IF Flags.banner.value THEN {"banner_bytes", "banner_timeout"} ELSE {})
        \union (IF Flags.tls.value THEN {"tls_timeout"} ELSE {})
  IN  [k \in fields |-> Field(profile, base, k)]

BannerProblem(on, found) ==
  on /\ (\/ found["banner_timeout"].value \in {BadDuration, 0}
         \/ found["banner_bytes"].value \notin 1 .. 4096)
TlsProblem(on, found) == on /\ found["tls_timeout"].value \in {BadDuration, 0}
TimingProblem(found) ==
  FirstProblem(<<
    <<"connect_timeout", found["connect_timeout"].value = BadDuration>>,
    <<"banner", BannerProblem(Flags.banner.value, found)>>,
    <<"versions_without_tls", Flags.tls_versions.value /\ ~Flags.tls.value>>,
    <<"tls", TlsProblem(Flags.tls.value, found)>>>>)

(* resolve_timing.                                                         *)
ResolveTiming ==
  LET found == Timings(plan.profile, plan.base)
  IN  /\ Stage("timing", "dns", TimingProblem(found),
               [timing |-> [k \in DOMAIN found |-> found[k].value],
                flags |-> [k \in DOMAIN Flags |-> Flags[k].value]],
               With(Flags, found))
      /\ UNCHANGED <<files, lookups>>

(* resolve_dns.                                                            *)
DnsMode(transport) == ResolveDnsMode(files, scan, transport.name, Key(cli, "dns"))
DnsProblem(mode, transport) ==
  FirstProblem(<<<<"dns", mode \notin DnsModes>>,
                 <<"dns_not_remote", mode = "transport" /\ ~SupportsRemoteDns(transport)>>>>)
AppliedDns(mode, transport) ==
  IF mode # "auto" THEN mode
  ELSE IF SupportsRemoteDns(transport) THEN "transport" ELSE "local"

ResolveDns ==
  LET mode == DnsMode(plan.transport)
  IN  /\ Stage("dns", IF Key(cli, "pairs") = {} THEN "targets" ELSE "pairs",
               DnsProblem(mode.value, plan.transport),
               [requested |-> mode.value, dns |-> AppliedDns(mode.value, plan.transport)],
               [dns |-> mode])
      /\ UNCHANGED <<files, lookups>>

-----------------------------------------------------------------------------
(* Endpoints.                                                              *)

(* expand_target_argument, over all the arguments of an option.            *)
Lines(option) ==
  FlattenSeq([k \in DOMAIN The(option) |-> The(option)[k].lines])

ListOf(table, k) == The(Or(Key(table, k), {<< >>}))

(* The target set an item names, from the highest file that has it.        *)
NamedSet(item) == The(TargetSetDef(files, item.host)).value

(* What an item of a target list stands for: a named set, or a spec.       *)
Included(item) ==
  IF IsNameIn(item, TargetSetNames(files))
    THEN ListOf(NamedSet(item), "include") \o ListOf(NamedSet(item), "file")
    ELSE <<item>>
Excluded(item) ==
  IF IsNameIn(item, TargetSetNames(files)) THEN ListOf(NamedSet(item), "exclude") ELSE << >>

Items(k, option) ==
  IF option # {} THEN Lines(option)
  ELSE The(Or({p.value : p \in InScan(files, scan, k)}, {<< >>}))

(* resolve_targets and TargetSet::expand.  Exclusions of the sets, of the  *)
(* scan and of the command line add up.                                    *)
TargetItems == Items("targets", Key(cli, "targets"))
IncludedSpecs == FlattenSeq([j \in DOMAIN TargetItems |-> Included(TargetItems[j])])
ExcludedSpecs ==
  FlattenSeq([j \in DOMAIN TargetItems |-> Excluded(TargetItems[j])])
    \o The(Or({p.value : p \in InScan(files, scan, "exclude")}, {<< >>}))
    \o (IF Key(cli, "exclude") = {} THEN << >> ELSE Lines(Key(cli, "exclude")))
TargetsProblem ==
  IF TargetItems = << >> THEN {"no_targets"}
  ELSE IF \E s \in ToSet(IncludedSpecs) \union ToSet(ExcludedSpecs) : Malformed(s)
    THEN {"target"}
  ELSE ExpandProblem(IncludedSpecs, ExcludedSpecs, Key(cli, "allow_large_range") = {TRUE})

ResolveTargets ==
  /\ Stage("targets", "ports", TargetsProblem,
           [targets |-> Expand(IncludedSpecs, ExcludedSpecs), pairs |-> {},
            include |-> IncludedSpecs, exclude |-> ExcludedSpecs,
            resumed_from |-> Key(cli, "resumed_from")],
           << >>)
  /\ UNCHANGED <<files, lookups>>

(* resolve_ports.                                                          *)
PortItems == Items("ports", Key(cli, "ports"))
PortSpecs ==
  FlattenSeq([j \in DOMAIN PortItems |->
    IF IsNameIn(PortItems[j], PortSetNames(files))
      THEN ListOf(The(PortSetDef(files, PortItems[j].host)).value, "ports")
      ELSE <<PortItems[j]>>])
PortsProblem ==
  FirstProblem(<<<<"no_ports", PortItems = << >>>>,
                 <<"port", \E s \in ToSet(PortSpecs) : MalformedPorts(s)>>,
                 <<"no_ports", PortSpecs = << >>>>>>)

ResolvePorts ==
  /\ Stage("ports", "names", PortsProblem,
           [ports |-> ParsePorts(PortSpecs), port_specs |-> PortSpecs], << >>)
  /\ UNCHANGED <<files, lookups>>

(* resolve_pairs: endpoints instead of a matrix, each once; the scan they  *)
(* came from is the option's, or the first argument's that names one.      *)
Pairs == Distinct(Lines(Key(cli, "pairs")))
PairTargets == Distinct([k \in DOMAIN Pairs |-> Pairs[k].target])
PairsProblem ==
  FirstProblem(<<
    <<"pairs_and_matrix", Key(cli, "targets") \union Key(cli, "ports") # {}>>,
    <<"pair", \E k \in DOMAIN Pairs : Pairs[k].port \notin 1 .. MaxPort>>,
    <<"no_pairs", Pairs = << >>>>>>)

ResolvePairs ==
  LET arguments == The(Key(cli, "pairs"))
      from == {k \in DOMAIN arguments : arguments[k].resumed # {}}
  IN  /\ Stage("pairs", "names", PairsProblem,
               [targets |-> PairTargets,
                ports |-> Ascending({Pairs[k].port : k \in DOMAIN Pairs}),
                pairs |-> {Pairs}, include |-> << >>, exclude |-> << >>,
                resumed_from |-> Or(Key(cli, "resumed_from"),
                                    IF from = {} THEN {} ELSE arguments[Min(from)].resumed)],
               << >>)
      /\ UNCHANGED <<files, lookups>>

(* apply_dns.                                                              *)
NamesProblem(applied) ==
  Or(applied.problem, IF applied.targets = << >> THEN {"no_targets"} ELSE {})

ResolveNames ==
  LET applied == ApplyDns(plan.targets, plan.dns)
  IN  /\ Stage("names", "scalars", NamesProblem(applied),
               [targets |-> applied.targets, resolved |-> applied.resolved], << >>)
      /\ lookups' = lookups \union ToSet(applied.resolved)
      /\ UNCHANGED files

-----------------------------------------------------------------------------
(* The rest of the plan.                                                   *)

(* resolve_open_only, resolve_compress and resolve_spans; resolve_seed,    *)
(* for which only the command line is asked.                               *)
Toggles == [k \in {"open_only", "compress", "spans"} |-> Flag(k, TRUE)]
Seed == The(Or(FromCli(Key(cli, "seed")), {Found(0, "default", 0)}))

(* resolve_services: where the label table is read from.                   *)
ServicesFile == FromFile(InDefaults(files, "services_file"), "defaults")
UseEtcServices ==
  The(Or(FromFile(InDefaults(files, "use_etc_services"), "defaults"), {Found(TRUE, "default", 0)}))

(* The directory, the flags, the seed and the label table; only a file     *)
(* that was asked for must be readable.                                    *)
ServicesProblem == IF \E s \in ServicesFile : ~s.value.readable THEN {"services_file"} ELSE {}

ResolveScalars ==
  LET configured == IF ServicesFile = {} THEN << >> ELSE <<The(ServicesFile).value.lines>>
  IN  /\ Stage("scalars", "warnings", ServicesProblem,
               [scalars |-> [k \in DOMAIN Toggles |-> Toggles[k].value],
                services |-> ServiceTable(configured, UseEtcServices.value)],
               With(Toggles,
                    [output_dir |-> Flag("output_dir", "./scanr-results"), seed |-> Seed,
                     services_file |-> The(Or(ServicesFile, {Found("", "default", 0)})),
                     use_etc_services |-> UseEtcServices]))
      /\ UNCHANGED <<files, lookups>>

(* HostFacts::sustained_rate_ceiling.                                      *)
RateCeiling(remote) ==
  IF Facts.tw_reuse = 1 \/ (Facts.tw_reuse = 2 /\ ~remote) THEN {}
  ELSE {Facts.ports \div 60}

Warnings ==
  LET t == plan.transport
      first == t.kind \in {"socks5", "http", "chain"}
  IN  Failing(
    [fidelity_unknown   |-> t.kind # "direct" /\ t.fidelity = "unknown",
     fidelity_open_only |-> t.kind # "direct" /\ t.fidelity = "open_only",
     ephemeral_budget   |-> first /\ \E c \in RateCeiling(TRUE) :
                              plan.timing.rate = 0 \/ plan.timing.rate > c,
     dns_failure        |-> \E k \in DOMAIN plan.resolved : ResolveHost(plan.resolved[k]) = << >>,
     dns_mode_auto      |-> plan.requested = "auto"
                              /\ (\/ plan.resolved # << >>
                                  \/ plan.dns = "transport" /\ NamesOf(plan.targets) # << >>),
     services_skipped   |-> \E j \in DOMAIN plan.services.layers :
                              plan.services.layers[j].malformed > 0,
     fd_budget          |-> plan.timing.concurrency + 64 > Facts.nofile])

(* add_operational_warnings.                                               *)
AddWarnings ==
  /\ Stage("warnings", IF request.test THEN "measure" ELSE "planned", {},
           [warnings |-> Warnings], << >>)
  /\ UNCHANGED <<files, lookups>>

-----------------------------------------------------------------------------
(* What is probed: ScanPlan::probe_count, probe_at, and the worker's       *)
(* destination.  An address some name resolved to carries the name.        *)

ProbeCount ==
  IF plan.pairs # {} THEN Len(The(plan.pairs)) ELSE Len(plan.targets) * Len(plan.ports)

ProbeAt(i) ==
  IF plan.pairs # {} THEN The(plan.pairs)[i + 1]
  ELSE [target |-> plan.targets[(i \div Len(plan.ports)) + 1],
        port |-> plan.ports[(i % Len(plan.ports)) + 1]]

SniName(a) ==
  LET named == {k \in DOMAIN plan.resolved : a \in ToSet(ResolveHost(plan.resolved[k]))}
  IN  IF named = {} THEN "" ELSE plan.resolved[Min(named)]

Destination(i) ==
  LET e == ProbeAt(i)
  IN  IF IsName(e.target) THEN [to |-> e.target, sni |-> e.target.host, port |-> e.port]
      ELSE [to |-> e.target, sni |-> SniName(e.target.addr), port |-> e.port]

Destinations == {Destination(i) : i \in 0 .. (ProbeCount - 1)}

-----------------------------------------------------------------------------
(* "transport test".                                                       *)

Exit == Path(plan.transport)[Len(Path(plan.transport))]

(* measure: a pool is refused, a direct transport needs no measurement.    *)
Measurable ==
  CASE plan.transport.kind = "pool"   -> "refused"
    [] plan.transport.kind = "direct" -> "reported"
    [] OTHER -> "checks"

Measure ==
  /\ stage = "measure"
  /\ stage' = Measurable
  /\ problem' = IF Measurable = "refused" THEN {"pool"} ELSE {}
  /\ report' = IF Measurable = "reported" THEN [report EXCEPT !.fidelity = {"full"}] ELSE report
  /\ UNCHANGED <<request, files, plan, prov, lookups>>

(* run_checks, one destination at a time.                                  *)
Check ==
  /\ stage = "checks"
  /\ Len(report.checks) < Len(Labels)
  /\ \E answer \in CheckAnswers(Exit) :
       report' = [report EXCEPT !.checks = Append(@, answer)]
  /\ UNCHANGED <<request, files, stage, plan, prov, problem, lookups>>

Conclude ==
  /\ stage = "checks"
  /\ Len(report.checks) = Len(Labels)
  /\ LET fidelity == Judge(Exit, report.checks)
     IN  report' = [report EXCEPT !.fidelity = {fidelity},
                                  !.advice = AdviceFor(plan.transport, fidelity)]
  /\ stage' = IF request.calibrate /\ Reachable(report.checks)
                   /\ report.checks[1].state = "open"
                THEN "calibrate" ELSE "reported"
  /\ UNCHANGED <<request, files, plan, prov, problem, lookups>>

(* calibrate_concurrency: levels rise until one loses probes.              *)
CalibrateLevel ==
  /\ stage = "calibrate"
  /\ \E refused \in {0, 1} :
       /\ report' = [report EXCEPT !.levels = Append(@, refused)]
       /\ stage' = IF refused > 0 \/ Len(report.levels) + 1 = Len(CalibrationLevels)
                     THEN "reported" ELSE "calibrate"
  /\ UNCHANGED <<request, files, plan, prov, problem, lookups>>

(* The operator writes what was measured where the report says, and plans. *)
FollowAdvice ==
  /\ stage = "reported"
  /\ report.advice # {}
  /\ LET a == The(report.advice)
         k == The(TransportDef(files, a.transport)).layer
     IN  files' = [files EXCEPT ![k].transports[a.transport] =
                      With(@, [fidelity |-> a.fidelity])]
  /\ stage' = "validate"
  /\ request' = [request EXCEPT !.test = FALSE]
  /\ plan' = << >> /\ prov' = << >>
  /\ UNCHANGED <<problem, lookups, report>>

Over ==
  /\ stage \in {"refused", "planned"} \/ (stage = "reported" /\ report.advice = {})
  /\ UNCHANGED vars

Next ==
  \/ Load \/ ValidateFiles \/ CheckScanExists
  \/ ChooseTransport \/ ChooseProfile \/ ResolveTiming \/ ResolveDns
  \/ ResolveTargets \/ ResolvePorts \/ ResolvePairs \/ ResolveNames
  \/ ResolveScalars \/ AddWarnings
  \/ Measure \/ Check \/ Conclude \/ CalibrateLevel \/ FollowAdvice
  \/ Over

Spec == Init /\ [][Next]_vars

-----------------------------------------------------------------------------
(* Properties.                                                             *)

Planned == stage = "planned"

(* What decides a verdict about the destination: the exit of a leaf.       *)
Decider(leaf) == IF Path(leaf) = << >> THEN leaf ELSE Path(leaf)[Len(Path(leaf))]

(* A transport promises no more than the proxy that will answer: when it   *)
(* is called full, every exit a probe may be sent out of was declared      *)
(* full; when it is called open_only, none is unmeasured.  Whatever the    *)
(* nesting of pools and chains, a probe through a transport that is not    *)
(* direct leaves by a path of proxies, and the pool's choice is one of     *)
(* those paths (resolve_transport_inner, PoolTransport::probe).            *)
TransportIsHonest ==
  Planned =>
    LET leaves == Leaves(files, plan.transport)
        claims == {Decider(q).fidelity : q \in leaves}
    IN  /\ plan.transport.fidelity = "full" => claims = {"full"}
        /\ plan.transport.fidelity = "open_only" => "unknown" \notin claims
        /\ \A q \in leaves :
             /\ Path(q) = << >> => plan.transport.kind = "direct"
             /\ \A hop \in ToSet(Path(q)) : hop.kind \in {"socks5", "http"}
             /\ Decider(q).kind = "http" => Decider(q).fidelity # "full"
        /\ \A e \in DOMAIN Hash : Taken(files, plan.transport, e) \in leaves

(* The places a setting may be read from, highest first: rungs before      *)
(* files, so that a scan of the user's file outranks a default of the      *)
(* project's.                                                              *)
InFiles(Get(_)) == [k \in DOMAIN files |-> Get(files[Len(files) + 1 - k])]
ScanHas(k) == InFiles(LAMBDA d : UNION {KeyIn(d.scans, n, k) : n \in scan})
DefaultsHave(k) == InFiles(LAMBDA d : Key(d.defaults, k))
TransportsHave(name, k) == InFiles(LAMBDA d : KeyIn(d.transports, name, k))
ProfilesHave(name, k) == InFiles(LAMBDA d : KeyIn(d.profiles, name, k))
Rungs(k) ==
  <<Key(cli, k)>> \o
  CASE k \in {"transport", "profile", "banner", "tls", "tls_versions", "open_only",
              "compress", "spans", "output_dir"} -> ScanHas(k) \o DefaultsHave(k)
    [] k = "dns" -> ScanHas(k) \o TransportsHave(plan.transport.name, k)
    [] k \in {"services_file", "use_etc_services"} -> DefaultsHave(k)
    [] k = "seed" -> << >>
    [] OTHER -> ScanHas(k) \o ProfilesHave(plan.profile, k)

(* The places a label may be read from, highest first; in a file, a port   *)
(* is labelled by the first line that does.                                *)
Claims(lines) ==
  LET labels == {k \in DOMAIN lines : IsLabel(lines[k])}
  IN  {[port |-> p, name |-> lines[Min({k \in labels : lines[k].port = p})].name] :
         p \in {lines[k].port : k \in labels}}
LabelLayers ==
  <<UNION {Claims(s.value.lines) : s \in ServicesFile},
    IF UseEtcServices.value THEN UNION {Claims(lines) : lines \in EtcServices} ELSE {},
    {[port |-> p, name |-> BuiltinServices[p]] : p \in DOMAIN BuiltinServices}>>
Labelled(layer) == {c.port : c \in layer}

(* The ports whose label is that of the layer.                             *)
LabelledBy(j) ==
  Labelled(LabelLayers[j]) \ UNION {Labelled(LabelLayers[k]) : k \in 1 .. (j - 1)}

(* What a record says of a layer it has, and that it has every layer that  *)
(* labelled something.                                                     *)
CountsOwn(layers, name, own) ==
  LET said == {k \in DOMAIN layers : layers[k].layer = name}
  IN  IF said = {} THEN own = {}
      ELSE \E k \in said : said = {k} /\ layers[k].entries = Cardinality(own)

(* The label of a port is that of the highest layer that claims it, by the *)
(* first line to do so, and each layer that is in the record is there once *)
(* and counts the labels that are its own.                                 *)
LabelsAreTheHighest ==
  LET labels == plan.services
  IN  /\ \A j \in DOMAIN LabelLayers : \A p \in LabelledBy(j) :
           [port |-> p, name |-> LookupService(labels, p)] \in LabelLayers[j]
      /\ CountsOwn(labels.layers, "configured", LabelledBy(1))
      /\ CountsOwn(labels.layers, "etc", LabelledBy(2))
      /\ BuiltinContribution(labels) = Cardinality(LabelledBy(3))

(* Every setting of a plan is the one of the highest place that has it,    *)
(* and its origin names the file of that place, or none when no place has  *)
(* it; and so it is for the labels (pick_name, resolve_flag,               *)
(* timing_source, resolve_dns, ServiceTable::resolve).                     *)
HighestRungWins ==
  Planned =>
    /\ LabelsAreTheHighest
    /\ \A k \in DOMAIN prov :
         LET rungs == Rungs(k)
             having == {j \in DOMAIN rungs : rungs[j] # {}}
         IN  IF having = {} THEN prov[k].layer = 0 /\ prov[k].rung \in {"default", "builtin_profile"}
             ELSE /\ {prov[k].value} = rungs[Min(having)]
                  /\ IF Min(having) = 1 THEN prov[k].rung = "cli"
                     ELSE prov[k].layer = Len(files) - ((Min(having) - 2) % Len(files))

(* What was asked for, by membership instead of by expansion.              *)
IsExcluded(a) == \E s \in ToSet(plan.exclude) : Matches(s, a)
AskedAddresses ==
  {a \in Addresses : (\E s \in ToSet(plan.include) : Matches(s, a)) /\ ~IsExcluded(a)}
AskedNames ==
  {s.host : s \in {q \in ToSet(plan.include) : q.kind = "host"}}
    \ {s.host : s \in {q \in ToSet(plan.exclude) : q.kind = "host"}}
LedTo == IF plan.dns = "local" THEN UNION {ToSet(ResolveHost(h)) : h \in AskedNames} ELSE {}
AskedTargets ==
  {AddrTarget(a) : a \in AskedAddresses \union {q \in LedTo : ~IsExcluded(q)}}
    \union IF plan.dns = "local" THEN {} ELSE {HostTarget(h) : h \in AskedNames}

(* The targets that one part of the request asks for, by a name that leads *)
(* to them, and another excludes, by their address.                        *)
DisputedTargets == {AddrTarget(a) : a \in {q \in LedTo : IsExcluded(q)}}

AskedPorts == UNION {s.first .. s.last : s \in ToSet(plan.port_specs)}
Endpoints(targets, ports) == {[target |-> t, port |-> p] : t \in targets, p \in ports}
AskedEndpoints ==
  IF plan.pairs # {} THEN ToSet(Lines(Key(cli, "pairs"))) ELSE Endpoints(AskedTargets, AskedPorts)
DisputedEndpoints ==
  IF plan.pairs # {} THEN {} ELSE Endpoints(DisputedTargets, AskedPorts)

(* The probes of a plan are the endpoints the request means, each once:    *)
(* overlapping specs, sets of two files, masks with host bits set,         *)
(* exclusions narrower or wider than what they exclude and names that      *)
(* share an address neither lose one nor probe one twice                   *)
(* (TargetSet::expand, apply_dns, parse_ports, ScanPlan::probe_at).        *)
(* Nothing is said of an excluded address that a name asked for leads to:  *)
(* apply_dns looks names up after TargetSet::expand has excluded, so it is *)
(* probed, while src/docs/configuration.md:105 says that exclusions are    *)
(* "applied after expansion".                                              *)
RequestIsWhatIsProbed ==
  Planned =>
    LET probes == {ProbeAt(i) : i \in 0 .. (ProbeCount - 1)}
    IN  /\ AskedEndpoints \subseteq probes
        /\ probes \subseteq AskedEndpoints \union DisputedEndpoints
        /\ Cardinality(probes) = ProbeCount

(* A name is asked of the local resolver only where the plan says local:   *)
(* with a transport that resolves, or with resolution off, no lookup has   *)
(* been made by the time the plan exists; a name that is left for the      *)
(* scheduler goes to a transport that resolves it; and an address that a   *)
(* name led to is greeted by a name of this plan (resolve_dns, apply_dns,  *)
(* sni_names).                                                             *)
NamesStayWithTheProxy ==
  Planned =>
    /\ plan.dns # "local" => lookups = {}
    /\ lookups \subseteq ToSet(plan.resolved)
    /\ plan.pairs = {} =>
         \A d \in Destinations :
           /\ IsName(d.to) => plan.dns = "transport" /\ SupportsRemoteDns(plan.transport)
           /\ d.sni # "" => d.sni \in AskedNames

(* What "transport test" tells the operator to write can be written: the   *)
(* files still validate, the plan resolves, and the transport then has     *)
(* exactly the fidelity that was measured (judge, render).                 *)
AdviceIsSound ==
  report.advice # {} =>
    /\ stage # "refused"
    /\ Planned => {plan.transport.fidelity} = report.fidelity

(* src/src/transport/mod.rs:79: "A hostname is only permitted when the     *)
(* transport resolves remotely; the planner enforces that before the       *)
(* scheduler ever sees one."                                               *)
PairHostsAreResolved ==
  Planned => \A d \in Destinations : IsName(d.to) => SupportsRemoteDns(plan.transport)

=============================================================================
