------------------------------- MODULE Config -------------------------------
(***************************************************************************)
(* Configuration: the documents (RawConfig, src/config/raw.rs), the        *)
(* layered lookup every value is taken by (Layered), the built-in profiles *)
(* (src/config/builtin.rs) and "config validate" (src/config/mod.rs).      *)
(*                                                                         *)
(* Abstracted: a document's text, spans, carets and suggestions; names are *)
(* compared only; a duration is a number of milliseconds or BadDuration;   *)
(* an address of a proxy is "ok" or "bad"; a credential's source is "ok"   *)
(* or "bad" (unset, unreadable, or readable by others).                    *)
(***************************************************************************)
EXTENDS Integers, Sequences, FiniteSets, SequencesExt, FiniteSetsExt, Targets

(* Of a transport, a profile, a scan or a set.                             *)
Name == STRING

BadDuration == -1

(* The part of a built-in profile that timing properties tell apart.       *)
BuiltinProfiles ==
  [direct |-> [concurrency |-> 512, rate |-> 0, retries |-> 1, connect_timeout |-> 2000],
   proxy  |-> [concurrency |-> 512, rate |-> 400, retries |-> 1, connect_timeout |-> 5000],
   ssh    |-> [concurrency |-> 96, rate |-> 0, retries |-> 1, connect_timeout |-> 6000]]
DefaultProxyProfile == "proxy"
DefaultDirectProfile == "direct"
DefaultTransport == "direct"

(* What a field falls back to when no profile has it (plan/types.rs).      *)
FieldDefaults ==
  [banner_bytes |-> 1024, banner_timeout |-> 500, tls_timeout |-> 1000]

DnsModes == {"auto", "transport", "local", "disabled"}
Fidelities == {"full", "open_only", "unknown"}

-----------------------------------------------------------------------------
(* Documents.  A table is a function on the keys that are present, so an   *)
(* option is the set of the values a key has: empty, or one.               *)

EmptyDocument ==
  [version |-> {1}, defaults |-> << >>, profiles |-> << >>, transports |-> << >>,
   targets |-> << >>, ports |-> << >>, scans |-> << >>]

Key(table, k) == IF k \in DOMAIN table THEN {table[k]} ELSE {}
KeyIn(tables, name, k) == IF name \in DOMAIN tables THEN Key(tables[name], k) ELSE {}
Or(first, second) == IF first # {} THEN first ELSE second
The(option) == CHOOSE x \in option : TRUE

(* A table with the keys of another put over its own.                      *)
With(table, new) ==
  [k \in DOMAIN new \union DOMAIN table |->
     IF k \in DOMAIN new THEN new[k] ELSE table[k]]

(* discover: an explicit path replaces the user's file and the project's,  *)
(* and must exist.  A path is whether it does, and the document there.     *)
FoundAt(path) == IF path.exists THEN <<path.document>> ELSE << >>
Discover(paths) ==
  IF paths.explicit # {} THEN FoundAt(The(paths.explicit))
  ELSE FoundAt(paths.user) \o FoundAt(paths.project)

NotFound(paths) == \E p \in paths.explicit : ~p.exists

(* Layered::pick: the highest file that has the key, and which file.       *)
Pick(files, Get(_)) ==
  LET having == {k \in DOMAIN files : Get(files[k]) # {}}
  IN  IF having = {} THEN {}
      ELSE {[value |-> The(Get(files[Max(having)])), layer |-> Max(having)]}

(* What is defined under a name.                                           *)
TransportDef(files, name) == Pick(files, LAMBDA d : Key(d.transports, name))
TargetSetDef(files, name) == Pick(files, LAMBDA d : Key(d.targets, name))
PortSetDef(files, name) == Pick(files, LAMBDA d : Key(d.ports, name))

(* Layered::names.                                                         *)
Names(files, Table(_)) == UNION {DOMAIN Table(files[k]) : k \in DOMAIN files}

ScanNames(files) == Names(files, LAMBDA d : d.scans)
ProfileNames(files) == Names(files, LAMBDA d : d.profiles)
TransportNames(files) == Names(files, LAMBDA d : d.transports)
TargetSetNames(files) == Names(files, LAMBDA d : d.targets)
PortSetNames(files) == Names(files, LAMBDA d : d.ports)

-----------------------------------------------------------------------------
(* Validation.  Every rule of a section reports; a problem is its kind.    *)

Failing(bad) == {kind \in DOMAIN bad : bad[kind]}

ValidateVersion(d) == Failing([version |-> d.version # {1}])

ValidateTiming(t) ==
  Failing(
    [concurrency |-> \E c \in Key(t, "concurrency") : c \notin 1 .. 65535,
     retries     |-> \E r \in Key(t, "retries") : r > 10,
     rate        |-> \E r \in Key(t, "rate") : r > 1000000,
     timeout     |-> BadDuration \in Key(t, "connect_timeout")])

ValidateTransportKind(t) ==
  LET kind == Key(t, "type")
      count(k) == IF Key(t, k) = {} THEN 0 ELSE Len(t[k])
  IN  Failing(
    [direct_address |-> kind = {"direct"} /\ Key(t, "address") # {},
     address  |-> kind \subseteq {"socks5", "http"} /\ kind # {} /\ Key(t, "address") # {"ok"},
     derived  |-> kind \subseteq {"chain", "pool"} /\ kind # {} /\ Key(t, "fidelity") # {},
     hops     |-> kind = {"chain"} /\ count("hops") = 0,
     members  |-> kind = {"pool"} /\ count("members") = 0,
     type     |-> kind = {} \/ ~(kind \subseteq {"direct", "socks5", "http", "chain", "pool"})])

(* read_secret_file refuses it: unreadable, or readable by others.         *)
SecretIsExposed(t) == Key(t, "password_file") = {"bad"}

ValidateTransportCredentials(t) ==
  Failing(
    [inline      |-> Key(t, "password") # {},
     both        |-> Key(t, "password_env") # {} /\ Key(t, "password_file") # {},
     secret_file |-> SecretIsExposed(t)])

ValidateTransportModes(t) ==
  Failing(
    [fidelity  |-> ~(Key(t, "fidelity") \subseteq Fidelities),
     http_full |-> Key(t, "type") = {"http"} /\ Key(t, "fidelity") = {"full"},
     dns       |-> ~(Key(t, "dns") \subseteq DnsModes)])

ValidateTransport(t) ==
  ValidateTransportKind(t) \union ValidateTransportCredentials(t)
    \union ValidateTransportModes(t)

Specs(t, k) == UNION {ToSet(list) : list \in Key(t, k)}

ValidateTargetSet(t) ==
  Failing(
    [empty_set |-> Key(t, "include") = {} /\ Key(t, "file") = {},
     target    |-> \E s \in Specs(t, "include") \union Specs(t, "exclude") : Malformed(s)])

ValidatePortSet(t) ==
  Failing(
    [no_ports |-> Key(t, "ports") = {},
     port     |-> \E s \in Specs(t, "ports") : MalformedPorts(s)])

ValidateScan(t) ==
  ValidateTiming(t)
    \union Failing([dns |-> ~(Key(t, "dns") \subseteq DnsModes),
                    no_targets |-> Key(t, "targets") = {},
                    no_ports |-> Key(t, "ports") = {}])

(* validate_references: names must be defined in some file; what names no  *)
(* set must be a spec.                                                     *)
ValidateReferences(files, d) ==
  LET tables == {d.defaults} \union {d.scans[s] : s \in DOMAIN d.scans}
      scans  == {d.scans[s] : s \in DOMAIN d.scans}
      known(k, names) == \A t \in tables : Key(t, k) \subseteq names
  IN  Failing(
    [ref_profile   |-> ~known("profile", ProfileNames(files) \union DOMAIN BuiltinProfiles),
     ref_transport |-> ~known("transport", TransportNames(files) \union {DefaultTransport}),
     ref_target    |-> \E t \in scans : \E s \in Specs(t, "targets") :
                         ~IsNameIn(s, TargetSetNames(files)) /\ Malformed(s),
     ref_port      |-> \E t \in scans : \E s \in Specs(t, "ports") :
                         ~IsNameIn(s, PortSetNames(files)) /\ MalformedPorts(s)])

ValidateDocument(d) ==
  LET all(table, Rule(_)) == UNION {Rule(table[n]) : n \in DOMAIN table}
  IN  ValidateVersion(d)
        \union all(d.profiles, ValidateTiming)
        \union all(d.transports, ValidateTransport)
        \union all(d.targets, ValidateTargetSet)
        \union all(d.ports, ValidatePortSet)
        \union all(d.scans, ValidateScan)

Validate(files) ==
  UNION {ValidateDocument(files[k]) \union ValidateReferences(files, files[k]) :
           k \in DOMAIN files}

-----------------------------------------------------------------------------
(* The cascades by which a setting is resolved.  Each answers the value    *)
(* and its Origin: the rung that had it and the file it was read from.     *)

Found(value, rung, layer) == [value |-> value, rung |-> rung, layer |-> layer]
FromFile(picked, rung) == {Found(p.value, rung, p.layer) : p \in picked}
FromCli(option) == {Found(v, "cli", 0) : v \in option}

InScan(files, scan, k) ==
  Pick(files, LAMBDA d : UNION {KeyIn(d.scans, n, k) : n \in scan})
InDefaults(files, k) == Pick(files, LAMBDA d : Key(d.defaults, k))
InProfile(files, profile, k) == Pick(files, LAMBDA d : KeyIn(d.profiles, profile, k))
InTransport(files, name, k) == Pick(files, LAMBDA d : KeyIn(d.transports, name, k))

(* pick_name: a setting whose value is a name.                             *)
PickName(files, scan, cli, k, fallback) ==
  The(Or(FromCli(cli),
      Or(FromFile(InScan(files, scan, k), "scan"),
      Or(FromFile(InDefaults(files, k), "defaults"),
         {Found(fallback, "default", 0)}))))

(* Faulty variant: [defaults] before the scan.                             *)
ResolveFlagDefaultsFirst(files, scan, cli, k, fallback) ==
  The(Or(FromCli(cli),
      Or(FromFile(InDefaults(files, k), "defaults"),
      Or(FromFile(InScan(files, scan, k), "defaults"),
         {Found(fallback, "default", 0)}))))

(* resolve_flag: whichever table had it, the origin says [defaults].       *)
ResolveFlag(files, scan, cli, k, fallback) ==
  The(Or(FromCli(cli),
      Or(FromFile(Or(InScan(files, scan, k), InDefaults(files, k)), "defaults"),
         {Found(fallback, "default", 0)})))

(* timing_source, field and duration_field.                                *)
ResolveField(files, scan, profile, cli, k, builtin) ==
  The(Or(FromCli(cli),
      Or(FromFile(InScan(files, scan, k), "scan"),
      Or(FromFile(InProfile(files, profile, k), "profile"),
         {Found(builtin, "builtin_profile", 0)}))))

(* resolve_dns: the scan's key or the transport's, either said to be the   *)
(* transport's.                                                            *)
ResolveDnsMode(files, scan, transport, cli) ==
  The(Or(FromCli(cli),
      Or(FromFile(Or(InScan(files, scan, "dns"), InTransport(files, transport, "dns")),
                  "transport"),
         {Found("auto", "default", 0)})))

=============================================================================
