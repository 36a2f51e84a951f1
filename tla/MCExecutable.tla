---------------------------- MODULE MCExecutable ----------------------------
(* Every combination of arguments, for TLC. *)
EXTENDS Executable

AllArguments == ArgumentRecord
=============================================================================
