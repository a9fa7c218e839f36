----------------------------- MODULE Membership -----------------------------
(***************************************************************************)
(* What the client promises about the hosts it was told of: a connection   *)
(* that was once asked for is wanted for ever; it is up or being retried,  *)
(* whatever happens to the sockets behind it.                              *)
(***************************************************************************)
EXTENDS Naturals

CONSTANT Host

VARIABLES
  wanted,   \* connections each host should have
  up        \* connections each host has

vars == <<wanted, up>>

Init == wanted = [h \in Host |-> 0] /\ up = [h \in Host |-> 0]

\* createPendingConnection: retry until it works.
Ask(h) == wanted' = [wanted EXCEPT ![h] = @ + 1] /\ UNCHANGED up

Establish(h) == /\ up[h] < wanted[h]
                /\ up' = [up EXCEPT ![h] = @ + 1] /\ UNCHANGED wanted

\* createConnection: wanted once it is up.
AskAndEstablish(h) == /\ wanted' = [wanted EXCEPT ![h] = @ + 1]
                      /\ up' = [up EXCEPT ![h] = @ + 1]

Lose(h) == /\ up[h] > 0
           /\ up' = [up EXCEPT ![h] = @ - 1] /\ UNCHANGED wanted

Next == \E h \in Host : Ask(h) \/ Establish(h) \/ AskAndEstablish(h) \/ Lose(h)

Spec == Init /\ [][Next]_vars
=============================================================================
