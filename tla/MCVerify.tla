------------------------------ MODULE MCVerify ------------------------------
(* Model-checking instances of Verify: two hosts of two networks, two      *)
(* ports, and one of the orders a seed can give four probes.               *)
EXTENDS Verify

TwoHosts == <<"10.0.0.1", "10.0.1.1">>
TwoPorts == <<80, 8080>>
FourPairs ==
  <<<<"10.0.0.1", 80>>, <<"10.0.1.1", 80>>, <<"10.0.1.1", 8080>>, <<"10.0.0.1", 443>>>>
Network == [h \in {"10.0.0.1", "10.0.1.1"} |-> IF h = "10.0.0.1" THEN "a" ELSE "b"]
Addresses ==
  [n \in {"10.0.0.1", "10.0.1.1", "a", "b"} |-> IF n \in {"10.0.0.1", "a"} THEN 1 ELSE 2]
AllPorts == {0, 80, 443, 8080}
Labels == [p \in AllPorts |-> IF p \in {80, 8080} THEN "http" ELSE "-"]
OwnLabels == [Labels EXCEPT ![8080] = "app"]
OneOrder == {(0 :> 2) @@ (1 :> 0) @@ (2 :> 3) @@ (3 :> 1)}

=============================================================================
