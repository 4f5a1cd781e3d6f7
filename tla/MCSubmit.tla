-------------------------------- MODULE MCSubmit --------------------------------
(* Submit on a small cluster: two concurrent calls that may pick the same  *)
(* name, one retry, one kill.                                              *)
EXTENDS Submit, TLC

Symmetric == Permutations(Calls) \cup Permutations(Names)
=============================================================================
