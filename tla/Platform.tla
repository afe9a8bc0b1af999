------------------------------ MODULE Platform ------------------------------
(***************************************************************************)
(* The platform runtimes of core/syscalls.cpp: shared libraries that give  *)
(* a C4 process its system calls.  ONE global pointer, syscalls_runtime,   *)
(* says which runtime the next system call reaches, whoever makes it; the  *)
(* map runtimes caches the libraries loaded so far and owns them.  The     *)
(* virtual machine keeps one B_platform per process (variable platform)    *)
(* and must move it in and out of the global at every switch.              *)
(*                                                                         *)
(* A platform_runtime object stands for its library; what a system call    *)
(* computes inside the library is outside this model.                      *)
(***************************************************************************)
EXTENDS Integers

CONSTANTS
  Proc,         \* process structures of the virtual machine
  NoProcess,    \* the null process pointer
  Libs,         \* paths of shared libraries that a program may ask for
  Calls,        \* entry points: syscall_init, syscall1 .. syscall6, syscall_main
  Exports,      \* the entry points each library that loads defines
  Zero,         \* the null runtime pointer / null path
  NullRuntime   \* the object null_runtime, whose functions all throw

ASSUME PlatformAssumption ==
  /\ NoProcess \notin Proc
  /\ Zero \notin Libs
  /\ NullRuntime \notin Libs
  /\ Zero # NullRuntime
  /\ {"syscall_init", "syscall_main"} \subseteq Calls
  \* the constructor of platform_runtime fails without syscall_init only
  /\ Exports \in [Libs -> {S \in SUBSET Calls : "syscall_init" \in S}]

VARIABLES
  syscalls_runtime,   \* the runtime the next system call is sent to
  runtimes,           \* keys of the runtime map; key "null" is NullRuntime
  platform,           \* platform[p] is process p's B_platform field
  vm_active_process   \* the process run_cycle is executing, or NoProcess

platformVars == <<syscalls_runtime, runtimes, platform, vm_active_process>>

Runtime == Libs \cup {NullRuntime}

PlatformTypeOK ==
  /\ syscalls_runtime \in Runtime \cup {Zero}
  /\ runtimes \subseteq Runtime
  /\ platform \in [Proc -> Runtime \cup {Zero}]
  /\ vm_active_process \in Proc \cup {NoProcess}

PlatformInit ==
  /\ syscalls_runtime = Zero
  /\ runtimes = {}
  /\ platform = [p \in Proc |-> Zero]
  /\ vm_active_process = NoProcess

-----------------------------------------------------------------------------
\* The runtime process_changed installs for a B_platform field of value v.
RuntimeFor(v) == IF v = Zero THEN NullRuntime ELSE v

\* runtime_map::empty() as it is written: true when the map is NOT empty.
MapEmpty(reg) == reg # {}

\* Mutant: the new runtime is not put in the map.
Emplace_Forgotten(reg, r) == reg

Emplace(reg, r) == reg \cup {r}

LoadFails(r, reg, loads) == r # Zero /\ r \notin reg /\ ~loads

(***************************************************************************)
(* platform_init(r).  rt, reg, plat and p are the values syscalls_runtime, *)
(* runtimes, platform and vm_active_process have when it is called; loads  *)
(* says whether dlopen and dlsym succeed, which matters only for a library *)
(* not in the map.  The block guarded by MapEmpty comes before the load,   *)
(* so it is not undone when the load throws.                               *)
(***************************************************************************)
AfterInit(r, reg, rt, plat, p, loads) ==
  LET failed   == LoadFails(r, reg, loads)
      firstRun == MapEmpty(reg)
      reg1     == IF firstRun THEN Emplace(reg, NullRuntime) ELSE reg
      newRt    == IF failed THEN (IF firstRun THEN NullRuntime ELSE rt)
                            ELSE RuntimeFor(r)
  IN  [runtime  |-> newRt,
       runtimes |-> IF failed \/ r = Zero THEN reg1 ELSE Emplace(reg1, r),
       platform |-> IF failed \/ p = NoProcess THEN plat
                                               ELSE [plat EXCEPT ![p] = newRt]]

\* What a system call through entry point f does when rt is installed: null_*
\* throw, syscall_main tests its pointer first, the others call it unchecked.
Dispatch(f, rt) ==
  IF rt = NullRuntime THEN "throws"
  ELSE IF f \in Exports[rt] \/ f = "syscall_main" THEN "returns"
  ELSE "crashes"

=============================================================================
