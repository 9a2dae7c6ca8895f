------------------------------ MODULE MCDelivery ------------------------------
(***************************************************************************)
(* Small instances of Delivery for TLC.                                    *)
(***************************************************************************)
EXTENDS DeliveryInvariant, TLC

\* Workers are interchangeable, and so are the slots of every worker.
Symmetry == Permutations(Workers) \cup Permutations(Slots)

=============================================================================
