----------------------------- MODULE MCCommands -----------------------------
(* Instances of Commands for TLC: the requests and the names they are about *)
(* are model values of the .cfg files.  No symmetry: liveness is checked.   *)
EXTENDS Commands, TLC
=============================================================================
