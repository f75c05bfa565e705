------------------------ MODULE MCPersistentDispatch ------------------------
(* Model-checking instances of PersistentDispatch. *)
EXTENDS PersistentDispatch, TLC

\* Handlers run the same code and are told apart by nothing.
TaskSymmetry == Permutations(Tasks)
=============================================================================
