--------------------------- MODULE MCControlChannel ---------------------------
(* Instances of ControlChannel for TLC.                                     *)
EXTENDS ControlChannel, TLC

\* Agents and handlers are interchangeable in safety properties.
Symmetry == Permutations(Agents) \cup Permutations(Handlers)
==============================================================================
