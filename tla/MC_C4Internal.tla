--------------------------- MODULE MC_C4Internal ---------------------------
(* Two slots; process 0 may create process 2, which may create process 3. *)
EXTENDS C4Internal

MCCalls == {"syscall_init", "syscall_main"}
MCLibs == {"internal"}
MCExports == [l \in MCLibs |-> MCCalls]
MCNoProcess == -1
MCProc == 0 .. 3
MCChildren == {2, 3}
MCParent == [c \in MCChildren |-> IF c = 2 THEN 0 ELSE 2]

=============================================================================
