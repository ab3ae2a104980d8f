------------------------- MODULE MCLeaderElection -------------------------
(* Model-checking instances of LeaderElection.                             *)
EXTENDS LeaderElection, TLC

\* Safety runs only: daemons are interchangeable.
Symmetry == Permutations(Daemons)

=============================================================================
