------------------------------- MODULE Services -------------------------------
(***************************************************************************)
(* Service labels (src/services.rs): the label of a port is taken from the *)
(* first of three layers that has one, a configured file, the host's       *)
(* /etc/services and the compiled-in table; and every layer says how many  *)
(* labels are its own.                                                     *)
(*                                                                         *)
(* Abstracted: a line is what it parses to, comments and blank lines left  *)
(* out: a protocol ("bad" when a field or the slash is missing), a port    *)
(* and a name.                                                             *)
(***************************************************************************)
EXTENDS Integers, Sequences, FiniteSets, SequencesExt

CONSTANTS
  EtcServices,     (* The lines of the host's file, as {lines}, or {}.     *)
  BuiltinServices  (* The compiled-in label of each port that has one.     *)

Line(proto, port, name) == [proto |-> proto, port |-> port, name |-> name]

(* Other protocols are well-formed and not ours.                           *)
PortIsValid(line) == line.port \in 1 .. 65535
IsSkipped(line) == line.proto = "bad" \/ (line.proto = "tcp" /\ ~PortIsValid(line))
IsLabel(line) == line.proto = "tcp" /\ PortIsValid(line)

NoServices == [learned |-> << >>, layers |-> << >>]

(* absorb: the first line to claim a port keeps it, over all the layers.   *)
AbsorbServices(table, layer, lines) ==
  LET claims == {k \in DOMAIN lines :
                   /\ IsLabel(lines[k]) /\ lines[k].port \notin DOMAIN table.learned
                   /\ \A j \in 1 .. (k - 1) : IsLabel(lines[j]) => lines[j].port # lines[k].port}
      claimed == {lines[k].port : k \in claims}
  IN  [learned |-> [p \in DOMAIN table.learned \union claimed |->
                      IF p \in claimed THEN lines[CHOOSE k \in claims : lines[k].port = p].name
                      ELSE table.learned[p]],
       layers |-> Append(table.layers,
                    [layer |-> layer, entries |-> Cardinality(claims),
                     malformed |-> Len(SelectSeq(lines, IsSkipped))])]

(* resolve_from_host: the most specific layer first.                       *)
ServiceTable(configured, useEtc) ==
  LET first == IF configured = << >> THEN NoServices
               ELSE AbsorbServices(NoServices, "configured", configured[1])
  IN  IF useEtc /\ EtcServices # {}
        THEN AbsorbServices(first, "etc", CHOOSE lines \in EtcServices : TRUE)
        ELSE first

LookupService(table, port) ==
  IF port \in DOMAIN table.learned THEN table.learned[port]
  ELSE IF port \in DOMAIN BuiltinServices THEN BuiltinServices[port] ELSE ""

BuiltinContribution(table) == Cardinality(DOMAIN BuiltinServices \ DOMAIN table.learned)

=============================================================================
