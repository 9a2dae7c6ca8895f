---------------------------- MODULE MCBackpressure ----------------------------
(* A small instance of Backpressure for TLC. *)
EXTENDS Backpressure, TLC

\* The channels of a worker are interchangeable, and so are its slots.
Symmetry == Permutations(Channels) \cup Permutations(Slots)

=============================================================================
