-------------------------- MODULE MC_ProcessMemory --------------------------
(* Two files, each of which may include another. *)
EXTENDS ProcessMemory

MCNumProcs == 2
MCMaxIncludes == 1

=============================================================================
