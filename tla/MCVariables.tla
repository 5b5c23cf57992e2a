----------------------------- MODULE MCVariables -----------------------------
(***************************************************************************)
(* Two variables with two values in up to three frames, so that there is a *)
(* frame between the innermost and the outermost.  Names, values and cells *)
(* are not told apart, so they are symmetric.  No action and no property   *)
(* reads the call that was recorded before a step, only the one the step   *)
(* makes, so two states that differ in it alone are explored once.         *)
(***************************************************************************)
EXTENDS Variables

Symmetry == Permutations(Names) \cup Permutations(Values) \cup Permutations(Cells)

State == <<contexts, slots, memory, environ, ub>>
=============================================================================
