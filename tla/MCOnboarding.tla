----------------------------- MODULE MCOnboarding -----------------------------
(* Instances of Onboarding for TLC.                                         *)
EXTENDS Onboarding, TLC

\* Identifiers and requests of one kind are interchangeable.
Symmetry == Permutations(Claims) \cup Permutations(Invitations)
               \cup Permutations(Posts) \cup Permutations(Accepts)
==============================================================================
