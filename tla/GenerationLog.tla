---------------------------- MODULE GenerationLog ----------------------------
(***************************************************************************)
(* What the Hub's replay protection promises, whatever the number of hub   *)
(* replicas, duplicated deliveries and agent restarts: the generations it  *)
(* acknowledges for one cluster form a strictly increasing log that is     *)
(* only ever extended.                                                     *)
(***************************************************************************)
EXTENDS Naturals, Sequences

CONSTANT MaxGen

VARIABLE accepted   \* the acknowledged generations, oldest first

Init == accepted = << >>

Accept(g) ==
    /\ \A i \in 1..Len(accepted) : accepted[i] < g
    /\ accepted' = Append(accepted, g)

Next == \E g \in 1..MaxGen : Accept(g)

Spec == Init /\ [][Next]_accepted
==============================================================================
