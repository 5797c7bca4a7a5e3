----------------------------- MODULE ProxyPath -----------------------------
(***************************************************************************)
(* One probe along its path (src/transport/, src/probe.rs): directly, or   *)
(* through hops that speak SOCKS5 or HTTP CONNECT.  Each hop is reached    *)
(* through the tunnel the one before it has opened, and the last is asked  *)
(* for the destination.                                                    *)
(*                                                                         *)
(* The other end is unreliable: a hop may answer anything its protocol     *)
(* can say and what it cannot, deliver it byte by byte, stall or hang up.  *)
(*                                                                         *)
(* Abstracted: a byte is a token, and a part of a message is as long as it *)
(* needs to be to arrive in pieces (a head is two tokens, an address and a *)
(* port one each); what a reason says beyond the step that failed; the     *)
(* time of the first connection and of the greeting, each bounded by one   *)
(* call; the TLS conversation behind its first message.                    *)
(***************************************************************************)
EXTENDS Integers, Sequences, SequencesExt, FiniteSets

CONSTANTS
  MaxHops,          (* Bound: the length of a path; 0 is the direct one.   *)
  MaxHeader,        (* MAX_RESPONSE_BYTES.                                 *)
  HandshakeBudget,  (* timing.handshake_timeout, in ticks.                 *)
  ConnectBudget     (* timing.connect_timeout, in ticks.                   *)

ASSUME ProxyPathAssumption ==
  /\ MaxHops \in Nat
  /\ MaxHeader \in Nat \ {0}
  /\ HandshakeBudget \in Nat \ {0}
  /\ ConnectBudget \in Nat \ {0}

VARIABLES
  path,     (* The hops: what each speaks, and whether it has credentials. *)
  options,  (* Banner grabbing and the TLS probe, on or off.               *)
  step,     (* What the probe does next.                                   *)
  at,       (* The hop it believes it is speaking to.                      *)
  peer,     (* The party at the other end of the tunnel.                   *)
  wire,     (* What that end has sent and the probe has not read.          *)
  got,      (* What has been read of the message that is awaited.          *)
  spent,    (* Time since the clock of this exchange was started.          *)
  outcome,  (* The verdict.                                                *)
  heard,    (* The banner.                                                 *)
  sent,     (* History: what was sent, for whom, and who received it.      *)
  answer    (* History: what the exit hop, or the stack, has answered.     *)

vars == <<path, options, step, at, peer, wire, got, spent, outcome, heard, sent, answer>>
planVars == <<path, options>>

Hop == [kind : {"socks5", "http"}, auth : BOOLEAN]
Destination == Len(path) + 1
Direct == path = << >>

Verdict(state, source, reason) ==
  [state |-> state, source |-> source, reason |-> reason, pressure |-> "none"]
NoVerdict == Verdict("none", "none", "none")
UnderPressure(o, pressure) == [o EXCEPT !.pressure = pressure]

Init ==
  /\ \E n \in 0 .. MaxHops : path \in [1 .. n -> Hop]
  /\ options \in [banner : BOOLEAN, tls : BOOLEAN]
  /\ step = "dial"
  /\ at = 1
  /\ peer = 0
  /\ wire = << >> /\ got = << >> /\ heard = << >>
  /\ spent = 0
  /\ outcome = NoVerdict
  /\ sent = {}
  /\ answer = "none"

-----------------------------------------------------------------------------
(* The steps.  A hop is greeted only if it speaks SOCKS5, and asked for    *)
(* the next one unless it is the last.                                     *)

Ask(h) == IF h = Len(path) THEN "request" ELSE "extend"
Enter(h) == IF path[h].kind = "socks5" THEN "greet" ELSE Ask(h)

Handshaking == {"greet", "selection", "credentials", "status"}
Connecting == {"extend", "extended", "request", "answer"}
Writing == {"greet", "credentials", "extend", "request"}
Reading == {"selection", "status", "extended", "answer"}

Budget == IF step \in Handshaking THEN HandshakeBudget ELSE ConnectBudget

(* io_failure: written for the exchange with the destination.              *)
IoFailure(kind) ==
  IF kind = "timeout" THEN Verdict("filtered", "timeout", step)
                      ELSE Verdict("error", "proxy_reply", step)

(* Faulty variant: a lone proxy is not blamed.                             *)
BlameHopInChains(o) ==
  IF Len(path) = 1 THEN o ELSE Verdict("error", "proxy_reply", o.reason)

(* blame_hop: a path that could not be built is an error about the path.   *)
BlameHop(o) == Verdict("error", "proxy_reply", o.reason)

Failure(kind) ==
  IF step \in {"request", "answer"} THEN IoFailure(kind) ELSE BlameHop(IoFailure(kind))

EndsWith(o) ==
  /\ outcome' = o
  /\ step' = "done"

-----------------------------------------------------------------------------
(* The first connection.                                                   *)

ConnectErrors == {"refused", "unreachable", "timed out", "ports", "files", "other"}

Pressure(error) ==
  CASE error = "ports" -> "ephemeral_pressure"
    [] error = "files" -> "fd_pressure"
    [] OTHER           -> "none"

(* classify_os_error: the local stack's word on the destination.           *)
ClassifyOsError(error) ==
  CASE error = "refused"            -> Verdict("closed", "local_stack", "dial")
    [] error = "unreachable"        -> Verdict("filtered", "local_stack", "dial")
    [] error = "timed out"          -> Verdict("filtered", "timeout", "dial")
    [] error \in {"ports", "files"} ->
         UnderPressure(Verdict("error", "internal", "dial"), Pressure(error))
    [] error = "other"              -> Verdict("error", "local_stack", "dial")

(* proxy_unreachable: never a word on the destination.                     *)
ProxyUnreachable(error) ==
  LET source == IF error = "timed out" THEN "timeout" ELSE "local_stack"
  IN  UnderPressure(Verdict("error", source, "dial"),
                    IF error \in {"refused", "timed out"} THEN "proxy_saturation"
                                                          ELSE Pressure(error))

DialFails ==
  /\ step = "dial"
  /\ \E error \in ConnectErrors :
       /\ EndsWith(IF Direct THEN ClassifyOsError(error) ELSE ProxyUnreachable(error))
       /\ answer' = IF Direct THEN error ELSE "none"
  /\ UNCHANGED <<planVars, at, peer, wire, got, spent, heard, sent>>

(* A service may greet first.                                              *)
Greetings == {<< >>, <<"greeting">>}

Dial ==
  /\ step = "dial"
  /\ peer' = 1
  /\ IF Direct
       THEN /\ step' = "listen"
            /\ outcome' = Verdict("open", "local_stack", "dial")
            /\ answer' = "connected"
            /\ wire' \in Greetings
       ELSE /\ step' = Enter(1)
            /\ UNCHANGED <<outcome, answer, wire>>
  /\ UNCHANGED <<planVars, at, got, spent, heard, sent>>

-----------------------------------------------------------------------------
(* What a hop may answer.                                                  *)

Selections == {<<"socks", m>> : m \in {"none", "userpass", "unacceptable"}}
                \union {<<"other", "none">>}
Statuses == {<<"auth", "ok">>, <<"auth", "refused">>, <<"other", "ok">>}

SocksReplies ==
  {<<code, "ipv4", "address", "port">> :
     code \in {"succeeded", "refused", "unreachable", "failure", "other"}}
  \union {<<code, "domain", "length", "address", "port">> : code \in {"succeeded", "refused"}}
  \union {<<"succeeded", "unknown">>}

(* A header may not end within what is read of it.                         *)
HttpReplies ==
  {<<line, "blank">> : line \in {"2xx", "5xx", "malformed"}}
  \union {<<"2xx", "header", "blank">>, <<"other">>}
  \union {<<"2xx">> \o [k \in 1 .. MaxHeader |-> "header"]}

Replies(h) == IF path[h].kind = "socks5" THEN SocksReplies ELSE HttpReplies

(* Behind an accepted CONNECT the next party may speak at once: the next   *)
(* hop, which should not, or the destination.                              *)
OpensTunnel(reply) == reply[1] \in {"succeeded", "2xx"}
Following(reply) ==
  IF ~OpensTunnel(reply) THEN {<< >>}
  ELSE IF step = "request" THEN Greetings ELSE {<< >>, <<"early">>}

Answers(reply) ==
  /\ wire' \in {wire \o reply \o next : next \in Following(reply)}
  /\ peer' = IF step \in {"extend", "request"} /\ OpensTunnel(reply) THEN peer + 1 ELSE peer
  /\ answer' = IF step = "request" THEN reply[1] ELSE answer

-----------------------------------------------------------------------------
(* Writing.                                                                *)

Credentials(h) ==
  IF path[h].auth THEN {[what |-> "credentials", for |-> h, to |-> peer]} ELSE {}

(* A greeting, the credentials a hop has asked for, or a CONNECT, which    *)
(* carries them when the hop speaks HTTP.                                  *)
Messages ==
  {[what |-> step, for |-> at, to |-> peer]}
  \union (IF step \in {"extend", "request"} /\ path[at].kind = "http"
            THEN Credentials(at) ELSE {})

(* The clock of the handshake and of the last CONNECT starts before the    *)
(* message is sent, that of an extension behind it.                        *)
Clock(elapsed) ==
  CASE step \in {"greet", "request"} -> elapsed
    [] step = "credentials"          -> spent + elapsed
    [] step = "extend"               -> 0

Awaiting ==
  [greet |-> "selection", credentials |-> "status",
   extend |-> "extended", request |-> "answer"]

Send ==
  /\ step \in Writing
  /\ \E elapsed \in 0 .. (Budget - 1) : spent' = Clock(elapsed)
  /\ sent' = sent \union Messages
  /\ \E reply \in CASE step = "greet"       -> Selections
                    [] step = "credentials" -> Statuses
                    [] OTHER                -> Replies(at) :
       Answers(reply)
  /\ got' = << >>
  /\ step' = Awaiting[step]
  /\ UNCHANGED <<planVars, at, outcome, heard>>

SendFails ==
  /\ step \in Writing
  /\ \E kind \in {"timeout", "broken"} :
       /\ EndsWith(Failure(kind))
       /\ spent' = Clock(IF kind = "timeout" THEN Budget ELSE 0)
  /\ UNCHANGED <<planVars, at, peer, wire, got, heard, sent, answer>>

(* set_timeouts: before a hop is greeted, and before each CONNECT.         *)
SocketRefusesTimeout ==
  /\ step \in Writing \ {"credentials"}
  /\ EndsWith(Verdict("error", "internal", step))
  /\ UNCHANGED <<planVars, at, peer, wire, got, spent, heard, sent, answer>>

-----------------------------------------------------------------------------
(* Reading: read_exact, one call of read at a time, for one part of a      *)
(* message after the other.                                                *)

Http == step \in {"extended", "answer"} /\ path[at].kind = "http"
Socks == step \in {"extended", "answer"} /\ path[at].kind = "socks5"

(* Faulty variant: the port behind the bound address is not read.          *)
SocksPartEndWithoutPort(read) ==
  IF Len(read) < 2 THEN 2
  ELSE IF read[2] # "domain" THEN 3
  ELSE IF Len(read) < 3 THEN 3 ELSE 4

(* read_reply: the head, the length of a domain name, the rest.            *)
SocksPartEnd(read) ==
  IF Len(read) < 2 THEN 2
  ELSE IF read[2] # "domain" THEN 4
  ELSE IF Len(read) < 3 THEN 3 ELSE 5

(* read_response reads one byte at a time.                                 *)
PartEnd ==
  CASE Http  -> Len(got) + 1
    [] Socks -> SocksPartEnd(got)
    [] OTHER -> 2

(* parse: a status line that is none.                                      *)
Unparsed == Last(got) = "blank" /\ got[1] = "malformed"

Malformed ==
  CASE Http  -> /\ got # << >>
                /\ \/ got[1] \notin {"2xx", "5xx", "malformed"}
                   \/ Unparsed
                   \/ Last(got) # "blank" /\ Len(got) >= MaxHeader
    [] Socks -> Len(got) = 2 /\ (got[1] = "other" \/ got[2] = "unknown")
    [] OTHER -> FALSE

WholeResponse(read) == read # << >> /\ Last(read) = "blank"
WholeReply(read) ==
  /\ Len(read) > 2
  /\ read[2] = "domain" => Len(read) > 3
  /\ Len(read) = SocksPartEnd(read)

Whole ==
  CASE Http  -> WholeResponse(got)
    [] Socks -> WholeReply(got)
    [] OTHER -> Len(got) = 2

WantsMore == step \in Reading /\ ~Malformed /\ ~Whole

(* Faulty variant: only the single read is bounded.                        *)
InTimeAlways == TRUE

(* The deadline is looked at before each read.                             *)
InTime == spent < Budget

ReadSome ==
  /\ WantsMore /\ InTime
  /\ \E n \in 1 .. (PartEnd - Len(got)) :
       /\ n <= Len(wire)
       /\ got' = got \o SubSeq(wire, 1, n)
       /\ wire' = SubSeq(wire, n + 1, Len(wire))
  /\ \E elapsed \in 0 .. (Budget - 1) : spent' = spent + elapsed
  /\ UNCHANGED <<planVars, step, at, peer, outcome, heard, sent, answer>>

(* The socket's timeout expires within a read, or the peer hangs up.       *)
ReadFails ==
  /\ WantsMore /\ InTime
  /\ \E kind \in {"timeout", "broken"} :
       /\ EndsWith(Failure(kind))
       /\ spent' = IF kind = "timeout" THEN spent + Budget ELSE spent
  /\ UNCHANGED <<planVars, at, peer, wire, got, heard, sent, answer>>

DeadlinePasses ==
  /\ WantsMore /\ ~InTime
  /\ EndsWith(Failure("timeout"))
  /\ UNCHANGED <<planVars, at, peer, wire, got, spent, heard, sent, answer>>

(* A message that cannot be one is an I/O failure too.                     *)
Misunderstood ==
  /\ step \in Reading /\ Malformed
  /\ EndsWith(Failure("broken"))
  /\ UNCHANGED <<planVars, at, peer, wire, got, spent, heard, sent, answer>>

-----------------------------------------------------------------------------
(* What a message means.                                                   *)

Understood(awaited) == step = awaited /\ Whole /\ ~Malformed

Refused == BlameHop(Verdict("error", "proxy_reply", step))

(* negotiate: the method a hop has selected.                               *)
Selected ==
  /\ Understood("selection")
  /\ \/ /\ got = <<"socks", "none">>
        /\ step' = Ask(at) /\ UNCHANGED outcome
     \/ /\ got = <<"socks", "userpass">> /\ path[at].auth
        /\ step' = "credentials" /\ UNCHANGED outcome
     \/ /\ got # <<"socks", "none">>
        /\ ~(got = <<"socks", "userpass">> /\ path[at].auth)
        /\ EndsWith(Refused)
  /\ UNCHANGED <<planVars, at, peer, wire, got, spent, heard, sent, answer>>

(* authenticate.                                                           *)
Authenticated ==
  /\ Understood("status")
  /\ IF got = <<"auth", "ok">> THEN step' = Ask(at) /\ UNCHANGED outcome
                               ELSE EndsWith(Refused)
  /\ UNCHANGED <<planVars, at, peer, wire, got, spent, heard, sent, answer>>

(* Faulty variant: an answer is taken for a tunnel.                        *)
ExtendedAnyway ==
  /\ Understood("extended")
  /\ at' = at + 1 /\ step' = Enter(at + 1) /\ UNCHANGED outcome
  /\ UNCHANGED <<planVars, peer, wire, got, spent, heard, sent, answer>>

(* open_tunnel: the next hop has been reached, or the path has failed.     *)
Extended ==
  /\ Understood("extended")
  /\ IF OpensTunnel(got)
       THEN at' = at + 1 /\ step' = Enter(at + 1) /\ UNCHANGED outcome
       ELSE EndsWith(Verdict("error", "proxy_reply", step)) /\ UNCHANGED at
  /\ UNCHANGED <<planVars, peer, wire, got, spent, heard, sent, answer>>

(* Faulty variant: a general failure is taken for a refusal.               *)
ClassifyGuessing(code) ==
  CASE code = "succeeded"              -> Verdict("open", "proxy_reply", step)
    [] code \in {"refused", "failure"} -> Verdict("closed", "proxy_reply", step)
    [] code = "unreachable"            -> Verdict("filtered", "proxy_reply", step)
    [] OTHER                           -> Verdict("error", "proxy_reply", step)

(* classify_reply.                                                         *)
ClassifyReply(code) ==
  CASE code = "succeeded"   -> Verdict("open", "proxy_reply", step)
    [] code = "refused"     -> Verdict("closed", "proxy_reply", step)
    [] code = "unreachable" -> Verdict("filtered", "proxy_reply", step)
    [] OTHER                -> Verdict("error", "proxy_reply", step)

(* http::classify: no status says more than success.                       *)
ClassifyStatus(status) ==
  Verdict(IF status = "2xx" THEN "open" ELSE "error", "proxy_reply", step)

Answered ==
  /\ Understood("answer")
  /\ outcome' = IF Http THEN ClassifyStatus(got[1]) ELSE ClassifyReply(got[1])
  /\ step' = IF outcome'.state = "open" THEN "listen" ELSE "done"
  /\ UNCHANGED <<planVars, at, peer, wire, got, spent, heard, sent, answer>>

-----------------------------------------------------------------------------
(* An open port.                                                           *)

(* read_banner: one read, of whatever arrives in time; nothing is sent.    *)
Listen ==
  /\ step = "listen"
  /\ heard' \in {<< >>} \union (IF options.banner /\ wire # << >> THEN {wire} ELSE {})
  /\ wire' = IF heard' = << >> THEN wire ELSE << >>
  /\ step' = "hello"
  /\ UNCHANGED <<planVars, at, peer, got, spent, outcome, sent, answer>>

(* The ClientHello, if nothing was heard.                                  *)
Hello ==
  /\ step = "hello"
  /\ sent' = IF options.tls /\ heard = << >>
               THEN sent \union {[what |-> "hello", for |-> Destination, to |-> peer]}
               ELSE sent
  /\ step' = "done"
  /\ UNCHANGED <<planVars, at, peer, wire, got, spent, outcome, heard, answer>>

Over == step = "done" /\ UNCHANGED vars

Next ==
  \/ Dial
  \/ DialFails
  \/ Send
  \/ SendFails
  \/ SocketRefusesTimeout
  \/ ReadSome
  \/ ReadFails
  \/ DeadlinePasses
  \/ Misunderstood
  \/ Selected
  \/ Authenticated
  \/ Extended
  \/ Answered
  \/ Listen
  \/ Hello
  \/ Over

Spec == Init /\ [][Next]_vars

-----------------------------------------------------------------------------
(* Properties.                                                             *)

(* The type invariant; no part of a message is read beyond its end.        *)
TypeOK ==
  /\ path \in Seq(Hop) /\ Len(path) <= MaxHops
  /\ step \in Writing \union Reading \union {"dial", "listen", "hello", "done"}
  /\ at \in 1 .. (Len(path) + 1) /\ peer \in 0 .. Destination
  /\ spent \in Nat
  /\ WantsMore => Len(got) < PartEnd
  /\ Socks => Len(got) <= SocksPartEnd(got)
  /\ outcome.state \in {"none", "open", "closed", "filtered", "error"}
  /\ outcome.source \in {"none", "local_stack", "proxy_reply", "timeout", "internal"}
  /\ (step = "done") => outcome # NoVerdict

(* "Those verdicts are about a port nothing ever reached" must not come    *)
(* back: a verdict that is not an error was given by the exit hop, or the  *)
(* local stack, about the destination, or the exit hop was being asked for *)
(* it and kept silent.  Whatever failed on the way, and whatever the host  *)
(* ran out of, is an error.                                                *)
VerdictIsAboutTheDestination ==
  LET silence == outcome.state = "filtered" /\ outcome.source = "timeout"
  IN  /\ outcome.state = "open" => peer = Destination
      /\ outcome.state = "closed" => answer = "refused"
      /\ outcome.state = "filtered" /\ ~silence => answer = "unreachable"
      /\ silence => IF Direct THEN answer = "timed out"
                              ELSE at = Len(path) /\ outcome.reason \in {"request", "answer"}
      /\ outcome.pressure # "none" => outcome.state = "error"

(* Only what nobody answered is probed again (is_retryable): no hop was    *)
(* reached, or the answer about the destination is not whole.  A path that *)
(* cannot be built would fail in the same way for every probe of the scan. *)
OnlySilenceIsRetried ==
  outcome.source = "timeout" =>
    \/ peer = 0
    \/ outcome.reason = "request"
    \/ /\ outcome.reason = "answer"
       /\ path[at].kind = "http" => ~WholeResponse(got)
       /\ path[at].kind = "socks5" => ~WholeReply(got)

(* "A peer cannot extend the budget by trickling": the greeting and the    *)
(* authentication of a hop end within three times their budget (the last   *)
(* read before the deadline and the message before it may each take one),  *)
(* a CONNECT within twice its own.  Until the first message of an exchange *)
(* is sent its clock has not been started, and never is if the socket      *)
(* refuses the timeout.  (read_exact.)                                     *)
ExchangeIsBounded ==
  LET last == IF step = "done" THEN outcome.reason ELSE step
  IN  step \notin {"greet", "extend", "request"} /\ outcome.source # "internal" =>
        /\ last \in Handshaking => spent < 3 * HandshakeBudget
        /\ last \in Connecting => spent < 2 * ConnectBudget

(* "Not one byte further", and not one less: what is recorded as the       *)
(* banner was said by the service, and no reader of a hop's answer has     *)
(* taken a byte of it.  (read_reply, read_response, read_banner.)          *)
GreetingIsTheDestinations ==
  /\ \A k \in DOMAIN heard : heard[k] = "greeting"
  /\ \A k \in DOMAIN got : got[k] # "greeting"

(* A hop is spoken to only once the hop before it has opened the tunnel,   *)
(* so each message, and each hop's credentials above all, is received by   *)
(* the party it is meant for; and the service hears nothing but a hello.   *)
EveryoneHearsTheirOwn ==
  \A m \in sent : m.to = m.for /\ (m.to = Destination => m.what = "hello")

=============================================================================
