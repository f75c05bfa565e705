-------------------------- MODULE MCThreadDispatch --------------------------
(* Model-checking instances of ThreadDispatch. *)
EXTENDS ThreadDispatch, TLC

\* Handlers run the same code and are told apart by nothing.
TaskSymmetry == Permutations(Tasks)
=============================================================================
