---------------------------- MODULE Permutation ----------------------------
(***************************************************************************)
(* The order in which a scan visits its endpoints (src/plan/permute.rs): a *)
(* four-round Feistel network over the smallest power of four that holds   *)
(* the plan, walked until it lands in the plan.                            *)
(*                                                                         *)
(* Abstracted: how a seed becomes keys and how a key and a half become a   *)
(* round's output (mix); a round is any function on halves.  Xor is a      *)
(* parameter, bit by bit exclusive or on numbers.                          *)
(***************************************************************************)
EXTENDS Integers

CONSTANT Xor(_, _)

Rounds == 4

(* A plan's size is a 64-bit number, so the widest network holds it.       *)
Fits(n) == n \in Nat /\ \E h \in 1 .. 32 : 2 ^ h * 2 ^ h >= n

(* Permutation::new: an even width, at least 2 and at most 64, whose half  *)
(* is this.                                                                *)
HalfBits(n) ==
  CHOOSE h \in 1 .. 32 :
    /\ 2 ^ h * 2 ^ h >= n \/ h = 32
    /\ \A g \in 1 .. (h - 1) : 2 ^ g * 2 ^ g < n

Side(n) == 2 ^ HalfBits(n)
Half(n) == 0 .. (Side(n) - 1)
Domain(n) == 0 .. (Side(n) * Side(n) - 1)

(* The exclusive or of two halves is a half, and undoes itself.            *)
XorIsInvertible(n) ==
  \A a, b, c \in Half(n) :
    /\ Xor(a, b) \in Half(n)
    /\ Xor(a, b) = Xor(c, b) => a = c

(* The round functions a seed can stand for.                               *)
RoundFunctions(n) == [1 .. Rounds -> [Half(n) -> Half(n)]]

(* The halves after each round.                                            *)
RoundStates(F, l, r) ==
  LET state[k \in 0 .. Rounds] ==
        IF k = 0 THEN <<l, r>>
        ELSE <<state[k - 1][2], Xor(state[k - 1][1], F[k][state[k - 1][2]])>>
  IN  state

(* Permutation::feistel.                                                   *)
Feistel(n, F, x) ==
  LET last == RoundStates(F, x \div Side(n), x % Side(n))[Rounds]
  IN  last[1] * Side(n) + last[2]

(* Faulty variant: an output outside the plan is folded back into it.      *)
ApplyFolding(n, F) == [i \in 0 .. (n - 1) |-> Feistel(n, F, i) % n]

(* The outputs of the network fed back into it, from an index on.          *)
Walk(n, F, i) ==
  LET walk[k \in 0 .. (Side(n) * Side(n))] ==
        IF k = 0 THEN i ELSE Feistel(n, F, walk[k - 1])
  IN  walk

(* The first output in the plan.                                           *)
Steps(n, walk) ==
  CHOOSE k \in 1 .. (Side(n) * Side(n)) :
    /\ walk[k] < n
    /\ \A j \in 1 .. (k - 1) : walk[j] >= n

(* Permutation::apply: the walk stops at the first output in the plan.     *)
Apply(n, F) ==
  [i \in 0 .. (n - 1) |->
     IF n <= 1 THEN i ELSE LET walk == Walk(n, F, i) IN walk[Steps(n, walk)]]

=============================================================================
