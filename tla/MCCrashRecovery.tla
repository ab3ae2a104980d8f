-------------------------- MODULE MCCrashRecovery --------------------------
(* Model-checking instances of CrashRecovery.                              *)
EXTENDS CrashRecovery, TLC

\* The boots, and the runs, are interchangeable.
Symmetry == Permutations(Boots) \cup Permutations(Runs)
=============================================================================
