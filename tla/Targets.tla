------------------------------- MODULE Targets -------------------------------
(***************************************************************************)
(* Target specs and their expansion (src/net/target.rs), port specs        *)
(* (src/net/ports.rs) and what name resolution makes of a list of targets  *)
(* (apply_dns, src/plan/resolve.rs).                                       *)
(*                                                                         *)
(* Abstracted: an address is its family and its number, and the families   *)
(* have few bits; host names are names; the text of a spec is its parse.   *)
(***************************************************************************)
EXTENDS Integers, Sequences, FiniteSets, SequencesExt, FiniteSetsExt

CONSTANTS
  Bits,           (* The bits of an address of each family: 32 and 128.    *)
  MinIpv6Prefix,  (* MIN_IPV6_PREFIX.                                      *)
  DefaultMaxTargets,
  MaxExpandable,
  Resolver        (* The addresses the local resolver knows of each name.  *)

Families == {4, 6}

(* 1 << n.                                                                 *)
Pow2(n) ==
  LET p[k \in Nat] == IF k = 0 THEN 1 ELSE 2 * p[k - 1]
  IN  p[n]
Addresses == UNION {{<<f, n>> : n \in 0 .. (Pow2(Bits[f]) - 1)} : f \in Families}

ASSUME TargetsAssumption ==
  /\ Bits \in [Families -> Nat \ {0}]
  /\ MinIpv6Prefix \in 0 .. Bits[6]
  /\ DefaultMaxTargets \in Nat /\ MaxExpandable \in Nat
  /\ DefaultMaxTargets <= MaxExpandable
  /\ \A h \in DOMAIN Resolver : Resolver[h] \subseteq Addresses

MaxPort == 65535

(* A scan's target: an address, or a name nobody has resolved yet.         *)
NoAddr == <<0, 0>>
AddrTarget(a) == [host |-> "", addr |-> a]
HostTarget(h) == [host |-> h, addr |-> NoAddr]
IsName(t) == t.host # ""

(* The elements of a set in order; below gives what is before each.        *)
InOrder(S, below) ==
  [k \in 1 .. Cardinality(S) |-> CHOOSE x \in S : Cardinality(below[x]) = k - 1]
Ascending(S) == InOrder(S, [x \in S |-> {y \in S : y < x}])

(* The elements of a list that are at the places K, in their order.        *)
Picked(s, K) ==
  LET places == Ascending(K) IN [j \in DOMAIN places |-> s[places[j]]]

(* The first occurrence of each element, in order.                         *)
Distinct(s) == Picked(s, {k \in DOMAIN s : \A j \in 1 .. (k - 1) : s[j] # s[k]})

(* The first problem of a list of <<kind, whether it occurs>>, as {kind}.  *)
FirstProblem(checks) ==
  LET bad == {k \in DOMAIN checks : checks[k][2]}
  IN  IF bad = {} THEN {} ELSE {checks[Min(bad)][1]}

-----------------------------------------------------------------------------
(* Specs: what parse_target reads.                                         *)

Addr(a) == [kind |-> "addr", first |-> a, last |-> a, host |-> ""]
Cidr(a, prefix) == [kind |-> "cidr", first |-> a, last |-> <<0, prefix>>, host |-> ""]
AddrRange(a, b) == [kind |-> "range", first |-> a, last |-> b, host |-> ""]
Host(h) == [kind |-> "host", first |-> NoAddr, last |-> NoAddr, host |-> h]

Prefix(s) == s.last[2]

(* The text of a host spec may be the name of a set instead.               *)
IsNameIn(s, names) == s.kind = "host" /\ s.host \in names

(* What parse_target may have read.                                        *)
IsSpec(s) ==
  /\ {"kind", "first", "last", "host"} \subseteq DOMAIN s
  /\ s.kind \in {"host", "addr", "cidr", "range", "bad"}
  /\ s.kind \in {"addr", "cidr", "range"} => s.first \in Addresses
  /\ s.kind = "addr" => s.last = s.first
  /\ s.kind = "range" => s.last \in Addresses
  /\ s.kind = "cidr" => Prefix(s) \in Nat
  /\ s.kind = "host" => s.host # ""
IsList(list) == list \in Seq(ToSet(list))
AreSpecs(list) == IsList(list) /\ \A s \in ToSet(list) : IsSpec(s)

(* parse_target refuses it.                                                *)
Malformed(s) ==
  \/ s.kind = "bad"
  \/ s.kind = "cidr" /\ Prefix(s) > Bits[s.first[1]]
  \/ s.kind = "range" /\ (s.first[1] # s.last[1] \/ s.first[2] > s.last[2])

HostSize(s) == Pow2(Bits[s.first[1]] - Prefix(s))

(* mask: parse_cidr clears the host bits.                                  *)
Base(s) == (s.first[2] \div HostSize(s)) * HostSize(s)

(* The numbers a spec of addresses covers, as an interval: TargetSpec.     *)
Interval(s) ==
  IF s.kind = "cidr" THEN Base(s) .. (Base(s) + HostSize(s) - 1)
  ELSE s.first[2] .. s.last[2]

(* TargetSpec::matches, for an address.                                    *)
Matches(s, a) ==
  /\ s.kind # "host" /\ s.first[1] = a[1]
  /\ IF s.kind = "cidr" THEN (a[2] \div HostSize(s)) * HostSize(s) = Base(s)
     ELSE s.first[2] <= a[2] /\ a[2] <= s.last[2]

(* TargetSpec::count.                                                      *)
Count(s) ==
  CASE s.kind = "host"  -> 1
    [] s.kind = "cidr"  -> HostSize(s)
    [] OTHER            -> s.last[2] - s.first[2] + 1

(* check_expandable.                                                       *)
CheckExpandable(s, allowLarge) ==
  FirstProblem(<<
    <<"prefix_too_short",
      ~allowLarge /\ s.kind = "cidr" /\ s.first[1] = 6 /\ Prefix(s) < MinIpv6Prefix>>,
    <<"beyond_expansion", Count(s) > MaxExpandable>>>>)

(* expand_into.                                                            *)
ExpandInto(s) ==
  IF s.kind = "host" THEN <<HostTarget(s.host)>>
  ELSE LET numbers == Ascending(Interval(s))
       IN  [k \in DOMAIN numbers |-> AddrTarget(<<s.first[1], numbers[k]>>)]

Total(specs) == FoldSeq(LAMBDA s, n : n + Count(s), 0, specs)

(* TargetSet::expand refuses.                                              *)
ExpandProblem(include, exclude, allowLarge) ==
  LET check(specs) == [k \in DOMAIN specs |->
        <<CheckExpandable(specs[k], allowLarge), CheckExpandable(specs[k], allowLarge) # {}>>]
      first == FirstProblem(check(include)
                 \o <<<<{"too_large"}, ~allowLarge /\ Total(include) > DefaultMaxTargets>>>>
                 \o check(exclude))
  IN  UNION first

Expansion(include) == FlattenSeq([k \in DOMAIN include |-> ExpandInto(include[k])])

(* Faulty variant: only what is excluded as it is written is left out.     *)
ExpandWithoutMasks(include, exclude) ==
  LET excluded == {AddrTarget(exclude[k].first) : k \in DOMAIN exclude}
      all == Expansion(include)
  IN  Distinct(Picked(all, {k \in DOMAIN all : all[k] \notin excluded}))

(* TargetSet::expand: in the order of the includes, each target once.      *)
Expand(include, exclude) ==
  LET excluded == ToSet(Expansion(exclude))
      all == Expansion(include)
  IN  Distinct(Picked(all, {k \in DOMAIN all : all[k] \notin excluded}))

-----------------------------------------------------------------------------
(* Ports: an item is a range; "all" and a single port are ranges.          *)

PortRange(a, b) == [kind |-> "ports", first |-> a, last |-> b, host |-> ""]
PortSet(name) == Host(name)

MalformedPorts(s) ==
  s.kind # "ports" \/ s.first \notin 1 .. MaxPort \/ s.last \notin 1 .. MaxPort
    \/ s.first > s.last

(* parse_ports, over the items of a scan: sorted, each port once.          *)
ParsePorts(items) ==
  Ascending(UNION {items[k].first .. items[k].last : k \in DOMAIN items})

-----------------------------------------------------------------------------
(* Names.                                                                  *)

(* resolve_host: sorted, each address once.                                *)
Sorted(addresses) ==
  InOrder(addresses, [a \in addresses |->
    {b \in addresses : b[1] < a[1] \/ (b[1] = a[1] /\ b[2] < a[2])}])
ResolveHost(h) == IF h \in DOMAIN Resolver THEN Sorted(Resolver[h]) ELSE << >>

NamesOf(targets) ==
  LET named == Picked(targets, {k \in DOMAIN targets : IsName(targets[k])})
  IN  [k \in DOMAIN named |-> named[k].host]

(* apply_dns under "local" and "auto": every name becomes its addresses.   *)
ResolveLocally(targets) ==
  LET found(t) ==
        IF ~IsName(t) THEN <<t>>
        ELSE LET addresses == ResolveHost(t.host)
             IN  [j \in DOMAIN addresses |-> AddrTarget(addresses[j])]
  IN  Distinct(FlattenSeq([k \in DOMAIN targets |-> found(targets[k])]))

(* Faulty variant: names are looked up before the mode is considered.      *)
ApplyDnsEagerly(targets, mode) ==
  [targets |-> IF mode = "local" THEN ResolveLocally(targets) ELSE targets,
   resolved |-> NamesOf(targets), problem |-> {}]

(* apply_dns: the targets, the names that were asked of the local          *)
(* resolver, and whether names are refused.                                *)
ApplyDns(targets, mode) ==
  IF NamesOf(targets) = << >>
    THEN [targets |-> targets, resolved |-> << >>, problem |-> {}]
  ELSE IF mode = "disabled"
    THEN [targets |-> << >>, resolved |-> << >>, problem |-> {"dns_disabled"}]
  ELSE IF mode = "transport"
    THEN [targets |-> targets, resolved |-> << >>, problem |-> {}]
  ELSE [targets |-> ResolveLocally(targets), resolved |-> NamesOf(targets), problem |-> {}]

=============================================================================
