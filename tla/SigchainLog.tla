---------------------------- MODULE SigchainLog ----------------------------
(***************************************************************************)
(* What the sigchain of a key promises: statements are only ever added at  *)
(* its end, each signed over the one before, and what a client has been    *)
(* told is published stays.                                                *)
(***************************************************************************)
EXTENDS Integers, Sequences

CONSTANTS
  Ids,     \* statements
  Nothing  \* before the first statement

VARIABLES
  chain,    \* statements: [id, prev]
  answered  \* places and statements that clients were told are published

vars == <<chain, answered>>

LastId(c) == IF c = <<>> THEN Nothing ELSE c[Len(c)].id

Init == chain = <<>> /\ answered = {}

Publish ==
  /\ \E id \in Ids : chain' = Append(chain, [id |-> id, prev |-> LastId(chain)])
  /\ UNCHANGED answered

Answer ==
  /\ answered' \subseteq answered \cup {<<i, chain[i]>> : i \in 1..Len(chain)}
  /\ answered \subseteq answered'
  /\ UNCHANGED chain

Next == Publish \/ Answer

Spec == Init /\ [][Next]_vars
=============================================================================
