----------------------------- MODULE MCPlanning -----------------------------
(* Families of requests for TLC, each varying one part of a request.       *)
EXTENDS Planning

MCBits == (4 :> 4) @@ (6 :> 5)
a == <<4, 1>>
b == <<4, 6>>
c == <<6, 9>>
MCResolver == [h1 |-> {a, b}, h2 |-> {b, c}, nowhere |-> {}]
MCHash == [e \in 0 .. 2 |-> e + 7]
MCFacts == [tw_reuse |-> 0, ports |-> 28000, nofile |-> 1024]

Sized(S, sizes) == UNION {[1 .. n -> S] : n \in sizes}
File(d) == [exists |-> TRUE, document |-> d]
Missing == [exists |-> FALSE, document |-> EmptyDocument]
Arg(lines) == [lines |-> lines, resumed |-> {}]
OneHost == [targets |-> <<Arg(<<Addr(a)>>)>>, ports |-> <<Arg(<<PortRange(80, 80)>>)>>]

(* The project's file, and below it the user's.                            *)
Request(found, args, name) ==
  [paths |-> [explicit |-> {},
              user |-> IF Len(found) = 2 THEN found[1] ELSE Missing,
              project |-> IF found = << >> THEN Missing ELSE found[Len(found)]],
   cli |-> args, scan |-> name, test |-> FALSE, calibrate |-> FALSE]
Explicitly(file, request0) == [request0 EXCEPT !.paths.explicit = {file}]

(* Graphs of transports.                                                   *)
Socks(f) == [type |-> "socks5", address |-> "ok"]
              @@ (IF f = "" THEN << >> ELSE [fidelity |-> f])
Http == [type |-> "http", address |-> "ok"]
Chain(hops) == [type |-> "chain", hops |-> hops]
Pool(members) == [type |-> "pool", members |-> members]
Leafs == {Socks("full"), Socks("open_only"), Socks(""), Http, [type |-> "direct"]}
NameLists == Sized({"a", "b"}, {1, 2}) \union {<<"direct">>, <<"a", "direct">>, <<"t">>, <<"b", "t">>}
Graph(t, x, y) == [EmptyDocument EXCEPT !.transports = [t |-> t, a |-> x, b |-> y]]
Tops == Leafs \union {Chain(l) : l \in NameLists} \union {Pool(l) : l \in NameLists}
Mids == Leafs \union {Pool(<<"b">>), Pool(<<"b", "b">>), Chain(<<"b">>), Pool(<<"t">>),
                      Chain(<<"nowhere">>)}
GraphRequests ==
  {Request(<<File(Graph(t, x, y))>>, [transport |-> "t"] @@ OneHost, {}) :
     t \in Tops, x \in Mids, y \in Leafs \union {Pool(<<"a">>)}}

(* "transport test" of a few, with the parts in two files.                 *)
Tested ==
  {<<Graph(Chain(<<"a", "b">>), Http, Socks("")),
     [EmptyDocument EXCEPT !.transports = [b |-> Socks("open_only")]]>>,
   <<Graph(Chain(<<"b", "a">>), Http, Socks("full"))>>,
   <<Graph(Socks(""), Http, Http)>>, <<Graph(Pool(<<"a">>), Http, Http)>>,
   <<Graph([type |-> "direct"], Http, Http)>>}
TestRequests ==
  {[Request([k \in DOMAIN ds |-> File(ds[k])], [transport |-> "t"] @@ OneHost, {})
      EXCEPT !.test = TRUE, !.calibrate = calibrate] : ds \in Tested, calibrate \in BOOLEAN}

(* One setting, in every combination of the places it may be read from.    *)
Opt(k, v, present) == IF present THEN k :> v ELSE << >>
Setting(k, values, Below(_, _), on) ==
  LET doc(lo, scanned) == [Below(k, lo) EXCEPT
        !.scans = [s |-> scanned @@ [targets |-> <<Addr(a)>>, ports |-> <<PortRange(80, 80)>>]]]
      layer(x, y, v) == doc(Opt(k, values[v], x), Opt(k, values[v + 1], y))
  IN  {Request(<<File(layer(on[1], on[2], 1)), File(layer(on[3], on[4], 3))>>,
               Opt(k, values[5], on[5]) @@ Opt("tls", TRUE, k = "tls_versions" /\ on[1]), {"s"})}
InDefaultsTable(k, t) == [EmptyDocument EXCEPT !.defaults = t]
InProfileTable(k, t) == [EmptyDocument EXCEPT !.defaults = [profile |-> "p"], !.profiles = [p |-> t]]
InTransportTable(k, t) == [EmptyDocument EXCEPT !.defaults = [transport |-> "t"],
                             !.transports = [t |-> Socks("full") @@ t]]
On == [1 .. 5 -> BOOLEAN]
SettingRequests ==
  UNION {Setting("retries", <<0, 2, 3, 4, 5>>, InProfileTable, on)
    \union Setting("rate", <<10, 20, 30, 1000000, 50>>, InProfileTable, on)
    \union Setting("spans", <<TRUE, FALSE, FALSE, TRUE, FALSE>>, InDefaultsTable, on)
    \union Setting("tls_versions", <<TRUE, FALSE, FALSE, TRUE, TRUE>>, InDefaultsTable, on)
    \union Setting("profile", <<"ssh", "proxy", "direct", "ssh", "proxy">>, InDefaultsTable, on)
    \union Setting("dns", <<"local", "auto", "transport", "disabled", "auto">>,
                   InTransportTable, on) : on \in On}

(* A matrix of targets and ports.                                          *)
Sets == [EmptyDocument EXCEPT
  !.targets = [web |-> [include |-> <<Cidr(<<4, 5>>, 2), Host("h2")>>, exclude |-> <<Addr(<<4, 4>>)>>],
               list |-> [file |-> <<Addr(a), Host("h1")>>]],
  !.ports = [low |-> [ports |-> <<PortRange(1, 2), PortRange(2, 3)>>]]]
Socksy == [EmptyDocument EXCEPT !.transports = [direct |-> Socks("full")],
  !.targets = [web |-> [include |-> <<Addr(c)>>]]]
IncludeItems == {Addr(b), Cidr(<<4, 5>>, 3), AddrRange(<<4, 3>>, <<4, 6>>), Cidr(<<6, 3>>, 2),
                 Host("h1"), Host("nowhere"), Host("web"), Host("list")}
ExcludeItems == {Addr(b), Cidr(<<4, 7>>, 3), Host("h1"), Cidr(<<6, 0>>, 0)}
MCPortItems == {<<PortRange(2, 2), PortRange(1, 3)>>, <<PortSet("low")>>}
MatrixRequests ==
  {Request(ds, [targets |-> <<Arg(inc)>>, exclude |-> <<Arg(exc)>>, ports |-> <<Arg(prt)>>,
                dns |-> dns], {}) :
     ds \in {<<File(Sets)>>, <<File(Sets), File(Socksy)>>},
     inc \in Sized(IncludeItems, {1, 2}), exc \in Sized(ExcludeItems, {0, 1}),
     prt \in MCPortItems, dns \in {"auto", "local", "disabled"}}

(* Pairs.                                                                  *)
PairItems == {[target |-> AddrTarget(a), port |-> 80], [target |-> AddrTarget(b), port |-> 443],
              [target |-> HostTarget("h1"), port |-> 80], [target |-> HostTarget("nowhere"), port |-> 1],
              [target |-> AddrTarget(a), port |-> 0]}
PairRequests ==
  {Request(ds, [pairs |-> <<Arg(p), [lines |-> q, resumed |-> {"r"}]>>, dns |-> dns], {}) :
     ds \in {<< >>, <<File(Socksy)>>}, p \in Sized(PairItems, {0, 1, 2}),
     q \in Sized(PairItems, {0, 1}), dns \in DnsModes}

(* Requests that are refused, one for each reason.                         *)
Bad(field, table) == [EmptyDocument EXCEPT ![field] = table]
Unfit ==
  {Bad("version", {2}), Bad("profiles", [p |-> [concurrency |-> 0]]),
   Bad("profiles", [p |-> [retries |-> 11]]), Bad("profiles", [p |-> [rate |-> 1000001]]),
   Bad("profiles", [p |-> [connect_timeout |-> BadDuration]]),
   Bad("transports", [t |-> [type |-> "direct", address |-> "ok"]]),
   Bad("transports", [t |-> [type |-> "socks5", address |-> "bad"]]),
   Bad("transports", [t |-> Chain(<<>>)]), Bad("transports", [t |-> Pool(<<>>)]),
   Bad("transports", [t |-> [type |-> "tor"]]),
   Bad("transports", [t |-> Socks("") @@ [password |-> "x"]]),
   Bad("transports", [t |-> Socks("") @@ [password_env |-> "ok", password_file |-> "ok"]]),
   Bad("transports", [t |-> Socks("") @@ [password_file |-> "bad"]]),
   Bad("transports", [t |-> Http @@ [fidelity |-> "full"]]),
   Bad("transports", [t |-> Socks("most")]), Bad("transports", [t |-> Http @@ [dns |-> "no"]]),
   Bad("transports", [t |-> Socks("") @@ [password_env |-> "bad", username |-> "u"]]),
   Bad("transports", [t |-> Socks("") @@ [password_env |-> "ok"]]),
   Bad("targets", [w |-> [exclude |-> <<Addr(a)>>]]),
   Bad("targets", [w |-> [include |-> <<Cidr(a, 9)>>]]),
   Bad("ports", [w |-> << >>]), Bad("ports", [w |-> [ports |-> <<PortRange(0, 3)>>]]),
   Bad("scans", [s |-> [targets |-> <<Addr(a)>>]]), Bad("scans", [s |-> [ports |-> << >>]]),
   Bad("defaults", [profile |-> "none"]), Bad("defaults", [transport |-> "none"]),
   Bad("defaults", [services_file |-> [readable |-> FALSE, lines |-> << >>]]), EmptyDocument}
UnfitArgs ==
  {OneHost, [transport |-> "t"] @@ OneHost, << >>, [profile |-> "none"] @@ OneHost,
   [targets |-> <<Arg(<<Addr(a)>>)>>], [pairs |-> <<Arg(<<>>)>>, ports |-> <<>>],
   [targets |-> <<Arg(<<AddrRange(<<4, 6>>, a)>>)>>], [tls_versions |-> TRUE] @@ OneHost,
   [tls |-> TRUE, tls_timeout |-> 0] @@ OneHost, [banner_bytes |-> 4097] @@ OneHost,
   [dns |-> "transport"] @@ OneHost,
   [targets |-> <<Arg(<<Cidr(c, 1)>>)>>, ports |-> <<Arg(<<PortRange(1, 1)>>)>>],
   [targets |-> <<Arg(<<Cidr(c, 1)>>)>>, ports |-> <<Arg(<<PortRange(1, 1)>>)>>,
    allow_large_range |-> TRUE],
   [targets |-> <<Arg(<<Cidr(a, 0)>>)>>, ports |-> <<Arg(<<PortRange(3, 1)>>)>>]}
RefusedRequests ==
  {Request(<<File(d)>>, args, {}) : d \in Unfit, args \in UnfitArgs}
    \union {Explicitly(Missing, Request(<<File(EmptyDocument)>>, OneHost, {})),
            Request(<< >>, OneHost, {"s"})}

(* Label files of two lines, in one file or the other.                     *)
MCEtcServices == {<<Line("tcp", 22, "ssh"), Line("udp", 80, "quic"), Line("tcp", 22, "again"),
                    Line("bad", 0, ""), Line("tcp", 443, "https"), Line("tcp", 0, "none")>>}
MCBuiltinServices == (22 :> "ssh") @@ (80 :> "http") @@ (443 :> "secure")
ServiceLines == {Line("tcp", 22, "mine"), Line("tcp", 9000, "own"), Line("udp", 22, "other"),
                 Line("tcp", 0, "zero"), Line("bad", 0, "")}
LabelFile(lines) == [services_file |-> [readable |-> TRUE, lines |-> lines]]
Unlike == Bad("defaults", LabelFile(<<Line("tcp", 22, "unlike")>>))
ServiceRequests ==
  {Request(<<File(Bad("defaults", LabelFile(<<Line("tcp", 80, "low")>>))),
             File(Bad("defaults", LabelFile(lines) @@ [use_etc_services |-> etc]))>>, OneHost, {}) :
     lines \in Sized(ServiceLines, {0, 1, 2}), etc \in BOOLEAN}
    \union {Explicitly(File(Bad("defaults", [use_etc_services |-> etc])),
                       Request(<<File(Unlike), File(Unlike)>>, OneHost, {})) : etc \in BOOLEAN}

MCRequests ==
  GraphRequests \union TestRequests \union SettingRequests \union MatrixRequests
    \union PairRequests \union ServiceRequests \union RefusedRequests
=============================================================================
