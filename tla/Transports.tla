----------------------------- MODULE Transports -----------------------------
(***************************************************************************)
(* Transports: how a configured name becomes a path of proxies             *)
(* (resolve_transport, src/plan/resolve.rs; ResolvedTransport,             *)
(* src/plan/types.rs; build, src/transport/mod.rs; the pool's choice,      *)
(* src/transport/pool.rs) and how the fidelity of one is measured          *)
(* (src/fidelity.rs).                                                      *)
(*                                                                         *)
(* Abstracted: addresses and user names are not told apart, so a proxy is  *)
(* its name; the pool's hash is a CONSTANT of the endpoint; the wording of *)
(* a report.                                                               *)
(***************************************************************************)
EXTENDS Config

CONSTANT Hash   (* Of an endpoint: PoolTransport::pick's FNV-1a.           *)

ASSUME TransportsAssumption == \A e \in DOMAIN Hash : Hash[e] \in Nat

(* Fidelity::weakest, of any number.                                       *)
Weakest(fs) ==
  IF "unknown" \in fs THEN "unknown"
  ELSE IF "open_only" \in fs THEN "open_only" ELSE "full"

Resolved(name, kind, fidelity, parts) ==
  [ok |-> TRUE, name |-> name, kind |-> kind, fidelity |-> fidelity, parts |-> parts]
Unresolved(problem) == [ok |-> FALSE, problem |-> problem]

DirectTransport(name) == Resolved(name, "direct", "full", << >>)

(* load_password: the environment is asked first.                          *)
PasswordSource(t) == Or(Key(t, "password_env"), Key(t, "password_file"))

ResolveProxy(name, kind, t) ==
  LET problem == FirstProblem(<<
        <<"address", Key(t, "address") # {"ok"}>>,
        <<"password", PasswordSource(t) = {"bad"}>>,
        <<"no_username", PasswordSource(t) # {} /\ Key(t, "username") = {}>>,
        <<"fidelity", ~(Key(t, "fidelity") \subseteq Fidelities)>>,
        <<"http_full", kind = "http" /\ Key(t, "fidelity") = {"full"}>>>>)
  IN  IF problem # {} THEN Unresolved(The(problem))
      ELSE Resolved(name, kind,
                    IF kind = "http" THEN "open_only"
                    ELSE The(Or(Key(t, "fidelity"), {"unknown"})), << >>)

(* The first of a transport's parts that cannot be used, in order.         *)
FirstUnfit(parts, Fit(_)) ==
  {k \in DOMAIN parts :
     /\ ~parts[k].ok \/ ~Fit(parts[k])
     /\ \A j \in 1 .. (k - 1) : parts[j].ok /\ Fit(parts[j])}

IsProxy(r) == r.kind \in {"socks5", "http"}
IsNotDirect(r) == r.kind # "direct"

(* Faulty variant: a pool is what its first member is.                     *)
PoolFidelityOfFirst(parts) == parts[1].fidelity

(* A chain claims what its exit can tell, which alone is asked about a     *)
(* destination; a pool what every member can.                              *)
ChainFidelity(parts) == parts[Len(parts)].fidelity
PoolFidelity(parts) == Weakest({parts[k].fidelity : k \in DOMAIN parts})

Compose(name, kind, parts, Fit(_), fidelity) ==
  LET unfit == FirstUnfit(parts, Fit)
  IN  IF parts = << >> THEN Unresolved("empty")
      ELSE IF unfit = {} THEN Resolved(name, kind, fidelity, parts)
      ELSE IF parts[The(unfit)].ok THEN Unresolved("part_kind") ELSE parts[The(unfit)]

(* resolve_transport_at: what the last name of a path resolves to, when    *)
(* below gives what the longer paths do.  The path is the names being      *)
(* resolved, so a name met again is a cycle.                               *)
ResolveLast(files, below, path) ==
  LET name == path[Len(path)]
      visiting == {path[k] : k \in 1 .. (Len(path) - 1)}
      defined == TransportDef(files, name)
      t == The(defined).value
      kind == The(Or(Key(t, "type"), {"direct"}))
      names(k) == The(Or(Key(t, k), {<< >>}))
      parts(k) == [j \in DOMAIN names(k) |-> below[Append(path, names(k)[j])]]
      hops == parts("hops")
      members == parts("members")
  IN  CASE name \in visiting -> Unresolved("cycle")
        [] name \notin visiting /\ defined = {} ->
             IF name = DefaultTransport THEN DirectTransport(name)
             ELSE Unresolved("no_transport")
        [] name \notin visiting /\ defined # {} ->
             CASE kind = "direct" -> DirectTransport(name)
               [] kind \in {"socks5", "http"} -> ResolveProxy(name, kind, t)
               [] kind = "chain" -> Compose(name, kind, hops, IsProxy, ChainFidelity(hops))
               [] kind = "pool" ->
                    Compose(name, kind, members, IsNotDirect, PoolFidelity(members))
               [] OTHER -> Unresolved("type")

(* A path of distinct names ends before it is longer than this.            *)
Depth(files) == Cardinality(TransportNames(files)) + 2

(* resolve_transport.                                                      *)
ResolveTransport(files, name) ==
  LET at[n \in Nat] ==
        IF n = 0 THEN [path \in Seq(Name) |-> Unresolved("cycle")]
        ELSE [path \in Seq(Name) |-> ResolveLast(files, at[n - 1], path)]
  IN  at[Depth(files)][<<name>>]

(* ResolvedTransport::supports_remote_dns; a chain of proxies, a pool of   *)
(* transports of which each does.                                          *)
SupportsRemoteDns(r) == r.kind # "direct"

-----------------------------------------------------------------------------
(* What is built of it: build.  A pool's probe goes to the member its      *)
(* endpoint hashes to, so a transport answers from one of its leaves.      *)

Pick1(r, endpoint) == r.parts[(Hash[endpoint] % Len(r.parts)) + 1]

(* PoolTransport::probe, down nested pools: no deeper than the names.      *)
Taken(files, r, endpoint) ==
  LET down[n \in Nat] ==
        IF n = 0 THEN r
        ELSE IF down[n - 1].kind = "pool" THEN Pick1(down[n - 1], endpoint) ELSE down[n - 1]
  IN  down[Depth(files)]

(* Every transport that may answer for r.                                  *)
Opened(transports) == UNION {IF q.kind = "pool" THEN ToSet(q.parts) ELSE {q} : q \in transports}
Leaves(files, r) ==
  LET down[n \in Nat] == IF n = 0 THEN {r} ELSE Opened(down[n - 1])
  IN  down[Depth(files)]

(* The proxies a leaf passes, in order; none when it is direct.            *)
Path(r) ==
  CASE r.kind = "direct" -> << >>
    [] r.kind = "chain"  -> r.parts
    [] OTHER             -> <<r>>

-----------------------------------------------------------------------------
(* Measuring: src/fidelity.rs.                                             *)

Labels == <<"known-open", "known-closed", "blackholed">>

(* What a probe through a path can come to: no handshake at all, or a      *)
(* verdict with the reply it was read from.                                *)
NoHandshake == [handshake |-> FALSE, credentials |-> FALSE, state |-> "error", reply |-> "none"]
Rejected == [NoHandshake EXCEPT !.credentials = TRUE]
Verdict(state, reply) ==
  [handshake |-> TRUE, credentials |-> FALSE, state |-> state, reply |-> reply]

CheckAnswers(exit) ==
  {NoHandshake, Rejected, Verdict("open", "granted"), Verdict("filtered", "none")}
    \union IF exit.kind = "http" THEN {Verdict("error", "status")}
           ELSE {Verdict("closed", "refused"), Verdict("error", "general"),
                 Verdict("error", "other")}

(* run_checks: a failure to reach the proxy invalidates every conclusion.  *)
Reachable(checks) == \A k \in DOMAIN checks : checks[k].handshake /\ ~checks[k].credentials

(* Faulty variant: the kind of the exit is not looked at.                  *)
JudgeByReply(exit, checks) ==
  IF ~Reachable(checks) \/ checks[1].state # "open" THEN "unknown"
  ELSE IF checks[2].reply \in {"refused", "status"} THEN "full" ELSE "open_only"

(* judge.                                                                  *)
Judge(exit, checks) ==
  IF ~Reachable(checks) \/ checks[1].state # "open" THEN "unknown"
  ELSE IF exit.kind # "http" /\ checks[2].reply = "refused" THEN "full" ELSE "open_only"

CalibrationLevels == <<8, 16, 32, 64, 128, 256>>

(* Calibration::recommended: the last level before the first loss.         *)
Recommended(levels) ==
  LET clean == {k \in DOMAIN levels : \A j \in 1 .. k : levels[j] = 0}
  IN  IF clean = {} THEN {} ELSE {CalibrationLevels[Max(clean)]}

(* render: where the operator is told to write what was measured.          *)
AdviceFor(r, fidelity) ==
  IF fidelity = "unknown" THEN {}
  ELSE CASE r.kind = "socks5" -> {[transport |-> r.name, fidelity |-> fidelity]}
         [] r.kind = "chain"  ->
              {[transport |-> r.parts[Len(r.parts)].name, fidelity |-> fidelity]}
         [] OTHER -> {}

=============================================================================
