------------------------------ MODULE TlsProbe ------------------------------
(***************************************************************************)
(* The TLS probe (src/tls.rs): one hello on the connection that was found  *)
(* open, the server's first flight read within a bound of bytes and of     *)
(* time, then, when asked for, a hello for each protocol version on a      *)
(* connection of its own (survey_versions), an SSLv2 one among them.       *)
(*                                                                         *)
(* Abstracted: bytes are counted in units; a handshake message is what the *)
(* probe keeps of it; keys are whether there are any, and a sealed record  *)
(* opens or does not; certificates are names with a size.  A server either *)
(* negotiates, so that only how it cuts its flight into records, whether   *)
(* it is in time and whether the connection lasts are open, or sends any   *)
(* records at all.                                                         *)
(***************************************************************************)
EXTENDS Integers, Sequences, FiniteSets, SequencesExt, FiniteSetsExt

CONSTANTS
  MaxFlight,      (* MAX_FLIGHT_BYTES.                                     *)
  MaxRecord,      (* MAX_RECORD.                                           *)
  HeaderSize,     (* A record header.                                      *)
  MaxLeafDer,     (* MAX_LEAF_DER.                                         *)
  MaxChainKept,   (* MAX_CHAIN_KEPT.                                       *)
  DerSize,        (* The size of each certificate there is.                *)
  Servers         (* See MCTlsProbe.                                       *)

(* A flight may be longer than its first record.                           *)
ASSUME TlsAssumption ==
  /\ {MaxFlight, MaxRecord, HeaderSize, MaxLeafDer, MaxChainKept} \subseteq Nat
  /\ HeaderSize > 0 /\ MaxRecord > 0 /\ HeaderSize + MaxRecord <= MaxFlight
  /\ \A c \in DOMAIN DerSize : DerSize[c] \in Nat

VARIABLES
  server,         (* Who answers.                                          *)
  asked,          (* The hello that is out: Main, a version, none.         *)
  reading,        (* The flight being read.                                *)
  obs,            (* TlsObservation of that flight.                        *)
  main,           (* TlsObservation of the main probe.                     *)
  survey,         (* VersionSurvey.                                        *)
  before          (* History: what the main probe had learned before the   *)
                  (* survey.  No action reads it.                          *)

vars == <<server, asked, reading, obs, main, survey, before>>

-----------------------------------------------------------------------------
(* Versions, oldest first: SURVEY_VERSIONS.                                *)

SSL2 == 2
SSL3 == 3
TLS12 == 6
TLS13 == 7
SurveyVersions == <<SSL2, SSL3, 4, 5, TLS12, TLS13>>
Main == 0
Between == 1
Over == 8

(* The main hello offers 1.3 beside 1.2, and a server without 1.3 may take *)
(* less; the hello of a version offers that one at most: client_hello and  *)
(* survey_hello.                                                           *)
Offers(hello) == IF hello = Main THEN SSL3 .. TLS13 ELSE SSL3 .. hello
Names13(hello) == hello = Main

-----------------------------------------------------------------------------
(* Messages and observations.                                              *)

Message(kind, size) == [kind |-> kind, size |-> size]
ServerHello(legacy, is13, retry, share, ok) ==
  [kind |-> "server_hello", size |-> 1,
   legacy |-> legacy, is13 |-> is13, retry |-> retry, share |-> share, ok |-> ok]
Certificate(certs) == [kind |-> "certificate", size |-> 1 + Len(certs), certs |-> certs]
Done == Message("done", 1)
Verify == Message("verify", 1)
KeyExchange == Message("key_exchange", 1)
EncryptedExtensions == Message("extensions", 1)
Huge == Message("huge", 1)     (* Longer than a flight, by its own header. *)
Unknown == Message("other", 1)

HandshakeMessage ==
  [kind : {"server_hello"}, size : Nat, legacy : Nat, is13 : BOOLEAN, retry : BOOLEAN,
   share : BOOLEAN, ok : BOOLEAN]
    \union [kind : {"certificate"}, size : Nat, certs : Seq(DOMAIN DerSize)]
    \union [kind : {"done", "verify", "key_exchange", "extensions", "huge", "other"}, size : Nat]

(* A server that speaks any version has a certificate; the one it shows in *)
(* SSLv2 may be another, or an empty one.                                  *)
ASSUME ServersAssumption ==
  \A s \in Servers :
    /\ {s.negotiates, s.surveyed, s.stepsDown, s.breaks, s.retry} \subseteq BOOLEAN
    /\ s.speaks \subseteq ToSet(SurveyVersions)
    /\ s.certs \in Seq(DOMAIN DerSize)
    /\ s.negotiates \/ s.speaks # {} => s.certs # << >>
    /\ s.ssl2 \subseteq DOMAIN DerSize /\ \A c, d \in s.ssl2 : c = d
    /\ s.script \in Seq(HandshakeMessage)

NoObs ==
  [negotiated |-> {}, retry |-> FALSE, leaf |-> {}, der |-> {}, chain |-> << >>, certs |-> 0,
   signed |-> FALSE, alert |-> FALSE, error |-> "", total |-> 0]

(* The stream of messages a flight is, how much of it has come, how many   *)
(* messages of it were drained, and whether there are keys (Flight13).     *)
NoFlight == [stream |-> << >>, got |-> 0, drained |-> 0, total |-> 0, keyed |-> FALSE, over |-> TRUE]
NewFlight(stream) == [NoFlight EXCEPT !.stream = stream, !.over = FALSE]

(* Where each message of a stream ends.                                    *)
EndOf(messages) ==
  LET end[k \in 0 .. Len(messages)] == IF k = 0 THEN 0 ELSE end[k - 1] + messages[k].size
  IN  end

SizeOf(messages) == EndOf(messages)[Len(messages)]
Complete(messages, n, got) == EndOf(messages)[n] <= got

-----------------------------------------------------------------------------
(* The parser.  A state is the observation, the keys, and whether the      *)
(* flight is over.                                                         *)

Observe(st, o) == [st EXCEPT !.obs = o]
Stop(st, o, error) == [st EXCEPT !.obs = [o EXCEPT !.error = error], !.over = TRUE]

(* parse_server_hello, and the key schedule of 1.3.                        *)
ParseServerHello(st, m) ==
  LET version == IF m.is13 THEN TLS13 ELSE m.legacy
      seen == [st.obs EXCEPT !.negotiated = {version}]
  IN  IF ~m.ok THEN Stop(st, st.obs, "bad_hello")
      ELSE IF version # TLS13 THEN Observe(st, seen)
      ELSE IF m.retry THEN Stop(st, [seen EXCEPT !.retry = TRUE], "retry")
      ELSE IF ~m.share THEN Stop(st, seen, "no_share")
      ELSE [Observe(st, seen) EXCEPT !.keyed = TRUE]

Kept(c) == IF DerSize[c] <= MaxLeafDer THEN {c} ELSE {}

(* parse_certificate: the leaf, then the chain up to what is kept.         *)
ParseCertificate(st, m) ==
  LET n == Len(m.certs)
      seen == [st.obs EXCEPT !.certs = n]
      room == MaxChainKept - Len(seen.chain)
  IN  IF n = 0 THEN Stop(st, seen, "bad_certificate")
      ELSE Observe(st, [seen EXCEPT
             !.leaf = {m.certs[1]},
             !.der = IF Kept(m.certs[1]) # {} THEN Kept(m.certs[1]) ELSE @,
             !.chain = @ \o SubSeq(m.certs, 2, IF n <= 1 + room THEN n ELSE 1 + room)])

HandleMessage(st, m) ==
  CASE m.kind = "huge"         -> Stop(st, st.obs, "huge_message")
    [] m.kind = "server_hello" -> ParseServerHello(st, m)
    [] m.kind = "certificate"  -> ParseCertificate(st, m)
    [] m.kind = "verify"       -> Observe(st, [st.obs EXCEPT !.signed = TRUE])
    [] m.kind = "key_exchange" ->
         Observe(st, [st.obs EXCEPT !.signed = @ \/ st.obs.negotiated = {TLS12}])
    [] m.kind = "done"         -> [st EXCEPT !.over = TRUE]
    [] OTHER                   -> st

(* The state after each of the messages behind from, until one ends it.    *)
Handled(st, stream, from) ==
  LET after[k \in 0 .. (Len(stream) - from)] ==
        IF k = 0 THEN st
        ELSE IF after[k - 1].over THEN after[k - 1]
        ELSE HandleMessage(after[k - 1], stream[from + k])
  IN  after

(* drain_handshake: every message that is complete.                        *)
Drain(fl, o, k) ==
  LET got == fl.got + k
      upto == Max({n \in fl.drained .. Len(fl.stream) : Complete(fl.stream, n, got)})
      end == Handled([obs |-> o, keyed |-> fl.keyed, over |-> FALSE],
                     fl.stream, fl.drained)[upto - fl.drained]
  IN  [flight |-> [fl EXCEPT !.got = got, !.drained = upto, !.keyed = end.keyed, !.over = end.over],
       obs |-> end.obs]

-----------------------------------------------------------------------------
(* Records, as the peer may cut them.                                      *)

Record(type, units) == [type |-> type, units |-> units]

(* The number of units up to the next change of keys, or to the end.       *)
Run(fl) ==
  LET same == IF fl.stream # << >> /\ fl.stream[1].kind = "server_hello"
                 /\ fl.stream[1].is13 /\ fl.got < fl.stream[1].size
                THEN fl.stream[1].size ELSE SizeOf(fl.stream)
  IN  same - fl.got

NextRecords(fl) ==
  IF server.negotiates
    THEN {Record(IF fl.keyed THEN "sealed" ELSE "handshake", k) :
            k \in 1 .. Min({Run(fl), MaxRecord})}
           \union (IF fl.keyed /\ fl.got = 1 THEN {Record("change_cipher_spec", 1)} ELSE {})
    ELSE {Record(type, k) :
            type \in {"handshake", "sealed"}, k \in 1 .. Min({Run(fl), MaxRecord})}
           \union {Record("change_cipher_spec", 0), Record("unsealable", 1), Record("alert", 2),
                   Record("alert", 1), Record("sealed_alert", 2), Record("sealed_alert", 1),
                   Record("sealed_other", 1), Record("other", 1),
                   Record("handshake", MaxRecord + 1)}

(* How a connection may end where a record was due: late is past the       *)
(* deadline, closed is by the peer or the network.  A server with nothing  *)
(* to negotiate ends it in its own manner.                                 *)
Ends ==
  IF server.breaks THEN {"late", "closed"}
  ELSE IF reading.stream # << >> THEN {}
  ELSE CASE server.manners = "silent" -> {"late"}
         [] server.manners = "closes" -> {"closed"}
         [] OTHER                     -> {}

-----------------------------------------------------------------------------
(* read_server_flight.                                                     *)

Active == ~reading.over

EndFlight(o) ==
  /\ obs' = o
  /\ reading' = [reading EXCEPT !.over = TRUE]
  /\ UNCHANGED <<server, asked, main, survey, before>>

(* Faulty variant: an end that comes early is always an error.             *)
CutShortAlways(o, error) == [o EXCEPT !.error = error]

(* With the leaf in hand the flight ending early is no error.              *)
CutShort(o, error) == IF o.leaf # {} THEN o ELSE [o EXCEPT !.error = error]

(* A header does not come.                                                 *)
HeaderFails ==
  /\ Active
  /\ \E end \in Ends :
       EndFlight(CutShort(obs,
         IF reading.total = 0 /\ end = "late" THEN "no reply" ELSE "header"))

(* Something other than TLS, by its first header.                          *)
NotTls ==
  /\ Active
  /\ ~server.negotiates \/ (server.manners = "http" /\ reading.stream = << >>)
  /\ EndFlight([obs EXCEPT !.error = "not_tls", !.total = reading.total + HeaderSize])

(* A header came, and its body does not.                                   *)
BodyFails ==
  /\ Active
  /\ Ends # {}
  /\ \E r \in NextRecords(reading) :
       /\ r.units \in 1 .. MaxRecord
       /\ reading.total + HeaderSize + r.units <= MaxFlight
       /\ EndFlight([CutShort(obs, "body") EXCEPT
            !.total = IF obs.leaf # {} THEN @ ELSE reading.total + HeaderSize])

(* A header announces more than the flight may still have.                 *)
TooLong ==
  /\ Active
  /\ \E r \in NextRecords(reading) :
       /\ r.units <= MaxRecord
       /\ reading.total + HeaderSize + r.units > MaxFlight
       /\ EndFlight([obs EXCEPT !.error = "too_long", !.total = reading.total + HeaderSize])

(* A header announces a record longer than there are.                      *)
RecordTooLong ==
  /\ Active
  /\ \E r \in NextRecords(reading) :
       /\ r.units > MaxRecord
       /\ EndFlight([obs EXCEPT !.error = "not_tls", !.total = reading.total + HeaderSize])

(* Faulty variant: the length of a record is checked, not of the flight.   *)
FitsAlone(total, r) == r.units <= MaxRecord

Fits(total, r) == r.units <= MaxRecord /\ total + HeaderSize + r.units <= MaxFlight

Read(r) == [obs EXCEPT !.total = reading.total + HeaderSize + r.units]
Counted(r) == [reading EXCEPT !.total = @ + HeaderSize + r.units]

(* A record of handshake bytes, sealed or not.                             *)
ReadHandshake ==
  /\ Active
  /\ \E r \in NextRecords(reading) :
       /\ r.type \in {"handshake", "sealed"} /\ Fits(reading.total, r)
       /\ IF r.type = "sealed" /\ ~reading.keyed
            THEN EndFlight([Read(r) EXCEPT !.error = "early_sealed"])
            ELSE LET drained == Drain(Counted(r), Read(r), r.units)
                 IN  /\ reading' = drained.flight /\ obs' = drained.obs
                     /\ UNCHANGED <<server, asked, main, survey, before>>

(* A record that carries nothing, or a sealed one with nothing of ours.    *)
ReadChangeCipherSpec ==
  /\ Active
  /\ \E r \in NextRecords(reading) :
       /\ \/ r.type = "change_cipher_spec"
          \/ r.type = "sealed_other" /\ reading.keyed
       /\ Fits(reading.total, r)
       /\ reading' = Counted(r) /\ obs' = Read(r)
       /\ UNCHANGED <<server, asked, main, survey, before>>

(* The other records end the flight; an alert also from a server that      *)
(* found nothing to negotiate.  A short alert is an error, unless sealed.  *)
LastRecords ==
  NextRecords(reading)
    \union (IF server.negotiates /\ reading.stream = << >> /\ server.manners = "alerts"
              THEN {Record("alert", 2)} ELSE {})

ReadLast ==
  /\ Active
  /\ \E r \in LastRecords :
       /\ Fits(reading.total, r)
       /\ \/ /\ r.type = "alert"
             /\ EndFlight([Read(r) EXCEPT !.alert = r.units = 2,
                             !.error = IF r.units = 2 THEN @ ELSE "truncated_alert"])
          \/ /\ r.type \in {"unsealable", "sealed_alert", "sealed_other"} /\ ~reading.keyed
             /\ EndFlight([Read(r) EXCEPT !.error = "early_sealed"])
          \/ /\ r.type = "unsealable" /\ reading.keyed
             /\ EndFlight([Read(r) EXCEPT !.error = "unsealable"])
          \/ /\ r.type = "sealed_alert" /\ reading.keyed
             /\ EndFlight([Read(r) EXCEPT !.alert = r.units = 2])
          \/ /\ r.type = "other"
             /\ EndFlight([Read(r) EXCEPT !.error = "record_type"])

-----------------------------------------------------------------------------
(* The server: what it sends for a hello.                                  *)

(* The version it takes, as {version}.                                     *)
Chosen(s, hello) ==
  LET has == s.speaks \intersect (IF TLS13 \in s.speaks /\ Names13(hello)
                                    THEN {TLS13} ELSE Offers(hello) \ {TLS13})
  IN  IF has = {} \/ ~(s.stepsDown \/ Max(has) = Max(Offers(hello))) THEN {} ELSE {Max(has)}

Flight(s, hello) ==
  LET v == Chosen(s, hello)
      is13 == v = {TLS13}
      first == ServerHello(IF is13 THEN TLS12 ELSE Max(v), is13, s.retry, TRUE, TRUE)
  IN  IF ~s.negotiates THEN s.script
      ELSE IF v = {} THEN << >>
      ELSE IF is13 THEN
        IF s.retry THEN <<first>>
        ELSE <<first, EncryptedExtensions, Certificate(s.certs), Verify, Done>>
      ELSE <<first, Certificate(s.certs), KeyExchange, Done>>

NoSurvey == [answers |-> << >>, connections |-> 0, leaf |-> {}]

Init ==
  /\ server \in Servers
  /\ asked = Main
  /\ reading = NewFlight(Flight(server, Main))
  /\ obs = NoObs /\ main = NoObs /\ before = NoObs
  /\ survey = NoSurvey

(* The hello cannot be sent.                                               *)
SendFails ==
  /\ Active /\ reading.total = 0 /\ asked = Main /\ server.breaks
  /\ EndFlight([obs EXCEPT !.error = "send"])

-----------------------------------------------------------------------------
(* survey_versions.                                                        *)

Answer(v, accepted) == [version |-> v, accepted |-> accepted]

(* VersionSurvey::accepted, newest, legacy_only and advice: what the       *)
(* answers add up to.  An unanswered version counts as one not accepted.   *)
Accepted(answers, accepted) ==
  {answers[k].version : k \in {j \in DOMAIN answers : answers[j].accepted = accepted}}
Newest(answers) ==
  {v \in Accepted(answers, "yes") : \A w \in Accepted(answers, "yes") : w <= v}
LegacyOnly(answers) == \E v \in Newest(answers) : v < TLS12
Advice(answers) ==
  {IF v \in {SSL2, SSL3} THEN "ssl_build" ELSE "lower_seclevel" :
     v \in {w \in Newest(answers) : LegacyOnly(answers)}}

(* Faulty variant: an answer of 1.3 is taken to settle 1.2 as well.        *)
SettledBy13(v) ==
  {Answer(v, IF main.negotiated = {v} THEN "yes" ELSE "no") :
     x \in {y \in main.negotiated : v \in {TLS12, TLS13} \/ y = v}}

(* settled: what the answer to the main hello says of a version.           *)
Settled(v) ==
  {Answer(v, IF main.negotiated = {v} THEN "yes" ELSE "no") :
     x \in {y \in main.negotiated : \/ v = TLS13 \/ y = v
                                    \/ v = TLS12 /\ y # TLS13}}

(* The version to ask next: what the main answer settles needs no hello,   *)
(* and 1.3 is asked for by the main hello only.                            *)
Answered(answers) == Len(answers) = Len(SurveyVersions)
NextVersion(answers) == SurveyVersions[Len(answers) + 1]

(* One answer that needs no connection.                                    *)
Unasked13 ==
  Answer(TLS13, IF main.error = "not_tls" THEN "no" ELSE "unknown")

Surveying == asked = Between

Record1(answer) == survey' = [survey EXCEPT !.answers = Append(@, answer)]

(* probe ends: without a survey everything does.                           *)
MainEnds ==
  /\ asked = Main /\ reading.over
  /\ main' = obs /\ before' = obs /\ obs' = NoObs
  /\ asked' = IF server.surveyed THEN Between ELSE Over
  /\ UNCHANGED <<server, reading, survey>>

AnswerFromMain ==
  /\ Surveying /\ ~Answered(survey.answers)
  /\ LET v == NextVersion(survey.answers)
     IN  /\ Settled(v) # {} \/ v = TLS13
         /\ \E x \in IF Settled(v) # {} THEN Settled(v) ELSE {Unasked13} : Record1(x)
  /\ UNCHANGED <<server, asked, reading, obs, main, before>>

Asking(v) ==
  /\ Surveying /\ ~Answered(survey.answers)
  /\ v = NextVersion(survey.answers) /\ v # TLS13 /\ Settled(v) = {}

(* reopen fails, or the hello cannot be sent.                              *)
ReopenFails ==
  /\ server.breaks
  /\ \E v \in ToSet(SurveyVersions), opened \in {0, 1} :
       /\ Asking(v)
       /\ survey' = [survey EXCEPT !.answers = Append(@, Answer(v, "unknown")),
                                   !.connections = @ + opened]
  /\ UNCHANGED <<server, asked, reading, obs, main, before>>

Reopen ==
  \E v \in ToSet(SurveyVersions) \ {SSL2} :
    /\ Asking(v)
    /\ asked' = v
    /\ reading' = NewFlight(Flight(server, v))
    /\ survey' = [survey EXCEPT !.connections = @ + 1]
    /\ UNCHANGED <<server, obs, main, before>>

(* A version's flight is over: what it says of that version.               *)
Judged(v, o) ==
  IF o.negotiated # {} THEN IF o.negotiated = {v} THEN "yes" ELSE "no"
  ELSE IF o.alert THEN "no"
  ELSE IF o.error \in {"no reply", ""} THEN "unknown" ELSE "no"

VersionEnds ==
  /\ asked \in ToSet(SurveyVersions) /\ reading.over
  /\ Record1(Answer(asked, Judged(asked, obs)))
  /\ obs' = NoObs /\ asked' = Between
  /\ UNCHANGED <<server, reading, main, before>>

(* read_ssl2_reply: a SERVER-HELLO, with a certificate or an empty one; an *)
(* error, a record of TLS or the end of the connection; nothing in time.   *)
Ssl2Replies ==
  (IF SSL2 \in server.speaks THEN {"yes"}
   ELSE CASE server.manners \in {"alerts", "closes"} -> {"no"}
          [] server.manners = "silent"               -> {"unknown"}
          [] OTHER                                   -> {"no", "unknown"})
    \union IF server.breaks THEN {"no", "unknown"} ELSE {}

AskSsl2 ==
  /\ Asking(SSL2)
  /\ \E accepted \in Ssl2Replies :
       survey' = [survey EXCEPT
         !.answers = Append(@, Answer(SSL2, accepted)),
         !.connections = @ + 1,
         !.leaf = IF accepted = "yes" THEN server.ssl2 ELSE @]
  /\ UNCHANGED <<server, asked, reading, obs, main, before>>

(* What the observation becomes when the SSLv2 certificate is taken.       *)
WithSsl2Leaf ==
  [main EXCEPT !.leaf = survey.leaf, !.der = UNION {Kept(c) : c \in survey.leaf}]

(* Faulty variant: the SSLv2 certificate is taken whether there is one or  *)
(* not.                                                                    *)
SurveyEndsReplacing ==
  /\ Surveying /\ Answered(survey.answers)
  /\ main' = IF survey.leaf # {} THEN WithSsl2Leaf ELSE main
  /\ asked' = Over
  /\ UNCHANGED <<server, reading, obs, survey, before>>

(* probe_with_survey: an SSLv2 certificate stands in for one that the main *)
(* flight did not have.                                                    *)
SurveyEnds ==
  /\ Surveying /\ Answered(survey.answers)
  /\ main' = IF main.leaf = {} /\ survey.leaf # {} THEN WithSsl2Leaf ELSE main
  /\ asked' = Over
  /\ UNCHANGED <<server, reading, obs, survey, before>>

Finished == asked = Over /\ UNCHANGED vars

Next ==
  \/ SendFails \/ HeaderFails \/ NotTls \/ BodyFails \/ TooLong \/ RecordTooLong
  \/ ReadHandshake \/ ReadChangeCipherSpec \/ ReadLast
  \/ MainEnds \/ AnswerFromMain \/ ReopenFails \/ Reopen \/ VersionEnds \/ AskSsl2
  \/ SurveyEnds \/ Finished

Spec == Init /\ [][Next]_vars

-----------------------------------------------------------------------------
(* Properties.                                                             *)

Errors ==
  {"", "send", "no reply", "header", "body", "not_tls", "too_long", "early_sealed",
   "unsealable", "truncated_alert", "record_type", "bad_hello", "retry", "no_share",
   "bad_certificate", "huge_message"}

Observation ==
  [negotiated : SUBSET Nat, retry : BOOLEAN, leaf : SUBSET DOMAIN DerSize,
   der : SUBSET DOMAIN DerSize, chain : Seq(DOMAIN DerSize), certs : Nat,
   signed : BOOLEAN, alert : BOOLEAN, error : Errors, total : Nat]

(* Every variable stays in its set, and no message is drained that the     *)
(* flight does not have.                                                   *)
TypeOK ==
  /\ server \in Servers
  /\ asked \in {Main, Between, Over} \union (SSL3 .. TLS12)
  /\ reading \in [stream : Seq(HandshakeMessage), got : Nat, drained : Nat, total : Nat,
                   keyed : BOOLEAN, over : BOOLEAN]
  /\ reading.drained <= Len(reading.stream)
  /\ {obs, main, before} \subseteq Observation
  /\ survey \in [answers : Seq([version : ToSet(SurveyVersions),
                                accepted : {"yes", "no", "unknown"}]),
                  connections : Nat, leaf : SUBSET DOMAIN DerSize]

(* However a peer cuts its flight, empty records among them, no more is    *)
(* read of it than the bound and the header that showed it would pass it,  *)
(* and the observation counts what was read up to where it stopped         *)
(* (read_server_flight).                                                   *)
FlightIsBounded ==
  /\ reading.total <= MaxFlight
  /\ obs.total <= MaxFlight + HeaderSize
  /\ reading.got <= reading.total

Certificates(s) == {k \in DOMAIN s : s[k].kind = "certificate"}

(* What was learned stands: with a leaf in hand neither the deadline nor   *)
(* the end of the connection is an error; the certificate kept is the leaf *)
(* whose hash is kept, when the flight had one Certificate message; the    *)
(* chain is bounded; and after the survey all is as the main flight had    *)
(* it, its certificate above all, except that a flight without one has the *)
(* certificate of SSLv2 (read_server_flight, parse_certificate,            *)
(* probe_with_survey).                                                     *)
LearnedStands ==
  /\ obs.leaf # {} => obs.error \notin {"no reply", "header", "body"}
  /\ \A o \in {obs, main} :
       /\ Cardinality(Certificates(server.script)) < 2 /\ o.der # {} => o.der = o.leaf
       /\ Len(o.chain) <= MaxChainKept
       /\ o.certs > 0 /\ server.negotiates => o.leaf = {server.certs[1]}
  /\ asked = Over =>
       /\ before.leaf # {} => main = before
       /\ before.leaf = {} => main = [before EXCEPT !.leaf = survey.leaf, !.der = main.der]

(* The survey of a server that negotiates by the rules: one answer for     *)
(* each version in order, from at most five more connections; a version is *)
(* said to be accepted only if the server speaks it; on connections that   *)
(* last and are in time those accepted are all it speaks, whether it steps *)
(* down or not; and then it is said that no current client can reach it    *)
(* exactly when none can, with the advice its newest version calls for     *)
(* (survey_versions, legacy_only, advice).                                 *)
SurveyIsTruthful ==
  asked = Over /\ server.surveyed =>
    /\ [k \in DOMAIN survey.answers |-> survey.answers[k].version] = SurveyVersions
    /\ survey.connections <= Len(SurveyVersions) - 1
    /\ server.negotiates =>
         /\ Accepted(survey.answers, "yes") \subseteq server.speaks
         /\ ~server.breaks =>
              /\ Accepted(survey.answers, "yes") = server.speaks
              /\ LegacyOnly(survey.answers) <=>
                   server.speaks # {} /\ server.speaks \subseteq SSL2 .. (TLS12 - 1)
              /\ "ssl_build" \in Advice(survey.answers) <=>
                   server.speaks # {} /\ server.speaks \subseteq {SSL2, SSL3}

=============================================================================
