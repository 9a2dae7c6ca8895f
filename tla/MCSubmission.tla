----------------------------- MODULE MCSubmission -----------------------------
(* Small instances of Submission for TLC. *)
EXTENDS Submission, TLC

\* Requests are interchangeable, and so are keys.
Symmetry == Permutations(Requests) \cup Permutations(Keys)

=============================================================================
