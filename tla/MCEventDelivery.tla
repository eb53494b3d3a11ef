--------------------------- MODULE MCEventDelivery ---------------------------
(***************************************************************************)
(* Instances of EventDelivery.                                             *)
(***************************************************************************)
EXTENDS EventDelivery, TLC

\* No socket and no producer is special.
Symmetry == Permutations(Conns) \cup Permutations(Emitters)
=============================================================================
