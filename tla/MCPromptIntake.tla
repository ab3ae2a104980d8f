--------------------------- MODULE MCPromptIntake ---------------------------
(* Model-checking instances of PromptIntake.                               *)
EXTENDS PromptIntake, TLC
=============================================================================
