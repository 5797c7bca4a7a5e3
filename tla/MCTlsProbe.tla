----------------------------- MODULE MCTlsProbe -----------------------------
(* Servers for TLC: every set of versions, and peers that send anything.   *)
EXTENDS TlsProbe

MCDerSize == [small |-> 1, big |-> 9]

Broken == {{}, {SSL2, SSL3}, {TLS12}, {5, TLS13}}
Negotiating ==
  {s \in [negotiates : {TRUE}, surveyed : {TRUE}, speaks : SUBSET ToSet(SurveyVersions),
          stepsDown : BOOLEAN, manners : {"alerts", "closes", "silent", "http"},
          breaks : BOOLEAN, retry : BOOLEAN,
          certs : {<<"big">>}, ssl2 : {{}, {"small"}, {"big"}}, script : {<< >>}] :
     /\ SSL2 \notin s.speaks => s.ssl2 = {}
     /\ s.retry => TLS13 \in s.speaks
     /\ s.stepsDown \/ s.manners = "alerts"
     /\ s.breaks => s.manners = "closes" /\ ~s.retry /\ s.speaks \in Broken}

Messages ==
  {ServerHello(TLS12, FALSE, FALSE, FALSE, TRUE), ServerHello(TLS12, TRUE, FALSE, TRUE, TRUE),
   ServerHello(TLS12, TRUE, FALSE, FALSE, TRUE), ServerHello(TLS12, TRUE, TRUE, FALSE, TRUE),
   ServerHello(SSL3, FALSE, FALSE, FALSE, FALSE), Certificate(<<"small", "big", "small">>),
   Certificate(<<"big">>), Certificate(<< >>), Huge, Unknown, Done}

Anything ==
  [negotiates : {FALSE}, surveyed : {FALSE}, speaks : {{}}, stepsDown : {TRUE},
   manners : {"closes"}, breaks : {TRUE}, retry : {FALSE}, certs : {<< >>}, ssl2 : {{}},
   script : UNION {[1 .. n -> Messages] : n \in 1 .. 3}]

MCServers == Negotiating \union Anything
=============================================================================
