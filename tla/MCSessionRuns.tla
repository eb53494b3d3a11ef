--------------------------- MODULE MCSessionRuns ----------------------------
(***************************************************************************)
(* Instances of SessionRuns.  Events is the environment of a run.          *)
(***************************************************************************)
EXTENDS SessionRuns, TLC

\* Neither a message nor a run is special.
Symmetry == Permutations(Msgs) \cup Permutations(Runs)
=============================================================================
