------------------------------ MODULE MC_C4VM ------------------------------
(* Small instances of C4VM: two libraries, one of which lacks an entry point. *)
EXTENDS C4VM

MCCalls == {"syscall_init", "syscall1", "syscall_main"}
MCLibs == {"scheme", "internal"}
MCExports == [l \in MCLibs |-> IF l = "scheme" THEN MCCalls \ {"syscall_main"}
                                               ELSE {"syscall_init"}]
MCNoProcess == -1
MCProc == 0 .. MaxProcs - 1
MCExitCodes == {0, 2}

=============================================================================
