-------------------------- MODULE MCStatusProjection --------------------------
(***************************************************************************)
(* Small instances of StatusProjection for TLC.                            *)
(***************************************************************************)
EXTENDS StatusProjection, TLC

\* Replicas are interchangeable, and so are the slots of every replica.
Symmetry == Permutations(Replicas) \cup Permutations(Slots)

=============================================================================
