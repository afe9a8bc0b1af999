-------------------------------- MODULE C4VM --------------------------------
(***************************************************************************)
(* The C4 virtual machine of core/c4.c: main loads every program named on  *)
(* the command line into a slot of vm_processes and then runs the slots in *)
(* turn, run_cycle giving each process a slice of vm_cycle_count.  It is   *)
(* one thread, so the only interleaving is the one the slices make, and    *)
(* all processes share the globals of Platform.                            *)
(*                                                                         *)
(* A program is nondeterministic: any instruction may come next.  Its      *)
(* registers, memory and stack are left out; what is kept is what one      *)
(* process can do to the machine and to the other processes.  The process  *)
(* loaded in slot s is called s.                                           *)
(***************************************************************************)
EXTENDS Platform, FiniteSets

CONSTANTS
  MaxProcs,    \* vm_proc_max, the number of slots
  CycleCount,  \* vm_cycle_count, set by -c
  ExitCodes    \* the codes programs exit with

Slot == 0 .. MaxProcs - 1

ASSUME VMAssumption ==
  /\ MaxProcs \in Nat \ {0}
  /\ CycleCount \in Nat
  /\ ExitCodes \subseteq Int
  /\ Slot \subseteq Proc

VARIABLES
  phase,          \* where main is: "start", "sched", "exec", "done", "crashed"
  src,            \* -s or -X was given: show the source, run nothing
  i,              \* main's slot index
  vm_processes,   \* per slot: "empty", "name" (a char*, not loaded) or "process"
  vm_proc_count,
  magic,          \* magic[p] : B_magic of p is B_MAGIC
  halted,         \* B_halted
  proc_exitcode,  \* B_exitcode
  process,        \* run_cycle's argument
  rem_cycle,      \* run_cycle's remaining cycles
  exitcode        \* main's result

mainVars == <<phase, src, i, vm_processes, vm_proc_count, exitcode>>
procVars == <<magic, halted, proc_exitcode>>
runVars  == <<process, rem_cycle>>
vars == <<mainVars, procVars, runVars, platformVars>>

Codes == ExitCodes \cup {-1, 0, 1}

TypeOK ==
  /\ PlatformTypeOK
  /\ phase \in {"start", "sched", "exec", "done", "crashed"}
  /\ src \in BOOLEAN
  /\ i \in 0 .. MaxProcs
  /\ phase \in {"sched", "exec"} => i \in Slot
  /\ vm_processes \in [Slot -> {"empty", "name", "process"}]
  /\ vm_proc_count \in 0 .. MaxProcs
  /\ magic \in [Proc -> BOOLEAN]
  /\ halted \in [Proc -> BOOLEAN]
  /\ proc_exitcode \in [Proc -> Codes]
  /\ process \in Proc \cup {NoProcess}
  /\ phase = "exec" => process \in Proc
  /\ rem_cycle \in 0 .. CycleCount
  /\ exitcode \in Codes

\* After the argument loop: the first vm_proc_count slots hold file names.
Init ==
  /\ PlatformInit
  /\ phase = "start"
  /\ src \in BOOLEAN
  /\ i = 0
  /\ vm_proc_count \in 1 .. MaxProcs
  /\ vm_processes = [s \in Slot |-> IF s < vm_proc_count THEN "name" ELSE "empty"]
  /\ magic = [p \in Proc |-> FALSE]
  /\ halted = [p \in Proc |-> FALSE]
  /\ proc_exitcode = [p \in Proc |-> 0]
  /\ process = NoProcess
  /\ rem_cycle = 0
  /\ exitcode = 0

-----------------------------------------------------------------------------
(* main: starting the processes *)

\* process_new: the structure is zeroed, then marked with the magic number.
NewProcess(p) ==
  /\ magic' = [magic EXCEPT ![p] = TRUE]
  /\ halted' = [halted EXCEPT ![p] = FALSE]
  /\ proc_exitcode' = [proc_exitcode EXCEPT ![p] = 0]
  /\ platform' = [platform EXCEPT ![p] = Zero]

StartProcess ==
  /\ phase = "start" /\ i < vm_proc_count
  /\ NewProcess(i)
  /\ vm_processes' = [vm_processes EXCEPT ![i] = "process"]
  /\ i' = i + 1
  /\ UNCHANGED <<phase, src, vm_proc_count, exitcode, runVars,
                 syscalls_runtime, runtimes, vm_active_process>>

\* create_process returns 0 (no memory, no main, a parse error): the loop goes
\* on and the slot keeps pointing to the file's name.
StartFails ==
  /\ phase = "start" /\ i < vm_proc_count
  /\ i' = i + 1
  /\ UNCHANGED <<phase, src, vm_processes, vm_proc_count, exitcode,
                 procVars, runVars, platformVars>>

\* The file cannot be opened or read: main returns -1.  A syntax error that
\* expr or stmt reports calls exit(-1).  Either way the loaded ones never run.
StartAborts ==
  /\ phase = "start" /\ i < vm_proc_count
  /\ phase' = "done"
  /\ exitcode' = -1
  /\ UNCHANGED <<src, i, vm_processes, vm_proc_count,
                 procVars, runVars, platformVars>>

StartDone ==
  /\ phase = "start" /\ i = vm_proc_count
  /\ phase' = IF src THEN "done" ELSE "sched"
  /\ i' = 0
  /\ exitcode' = 0
  /\ UNCHANGED <<src, vm_processes, vm_proc_count,
                 procVars, runVars, platformVars>>

-----------------------------------------------------------------------------
(* main: the scheduling loop *)

\* Mutants: the index stays, is not wrapped, or is wrapped one slot early.
NextSlot_Stays == i
NextSlot_NoWrap == i + 1
NextSlot_Early == IF i + 2 >= MaxProcs THEN 0 ELSE i + 1

NextSlot == IF i + 1 = MaxProcs THEN 0 ELSE i + 1

SkipEmptySlot ==
  /\ phase = "sched" /\ vm_proc_count > 0
  /\ vm_processes[i] = "empty"
  /\ i' = NextSlot
  /\ UNCHANGED <<phase, src, vm_processes, vm_proc_count, exitcode,
                 procVars, runVars, platformVars>>

\* Mutants: the slot keeps pointing to the freed process; it is not counted out.
ReapSlot_Dangling(code) ==
  /\ exitcode' = code
  /\ vm_proc_count' = vm_proc_count - 1
  /\ UNCHANGED vm_processes
ReapSlot_NotCounted(code) ==
  /\ exitcode' = code
  /\ vm_processes' = [vm_processes EXCEPT ![i] = "empty"]
  /\ UNCHANGED vm_proc_count

\* What the loop does once run_cycle returned 1; code is the B_exitcode it read.
ReapSlot(code) ==
  /\ exitcode' = code
  /\ vm_processes' = [vm_processes EXCEPT ![i] = "empty"]
  /\ vm_proc_count' = vm_proc_count - 1

\* A slot that still points to a name: the magic number does not match, so
\* run_cycle writes B_halted and B_exitcode there and returns 1 before it
\* switches to it, and free_process refuses to free it.
RejectName ==
  /\ phase = "sched" /\ vm_proc_count > 0
  /\ vm_processes[i] # "empty" /\ ~magic[i]
  /\ halted' = [halted EXCEPT ![i] = TRUE]
  /\ proc_exitcode' = [proc_exitcode EXCEPT ![i] = -1]
  /\ ReapSlot(-1)
  /\ i' = NextSlot
  /\ UNCHANGED <<phase, src, magic, runVars, platformVars>>

\* Mutant: process_changed is not called.
change_process_KeepsRuntime(p) ==
  /\ vm_active_process' = p
  /\ UNCHANGED syscalls_runtime

\* change_process(p): make p the active process and install its runtime.
change_process(p) ==
  /\ vm_active_process' = p
  /\ syscalls_runtime' = RuntimeFor(platform[p])

\* run_cycle(p, n) up to its loop.
EnterCycle(p, n) ==
  /\ magic[p] /\ ~halted[p]
  /\ change_process(p)
  /\ process' = p
  /\ rem_cycle' = n

BeginSlice ==
  /\ phase = "sched" /\ vm_proc_count > 0
  /\ vm_processes[i] # "empty"
  /\ EnterCycle(i, CycleCount)
  /\ phase' = "exec"
  /\ UNCHANGED <<src, i, vm_processes, vm_proc_count, exitcode,
                 procVars, runtimes, platform>>

\* The slice is over (rem_cycle is decremented before it is tested): the rest
\* of run_cycle, and of the iteration of main's loop.  A process that halted is
\* freed: free_process makes it active, resets the runtime through
\* platform_init(0), and clears the magic number.
SliceOver == phase = "exec" /\ rem_cycle <= 1

\* Mutant: vm_active_process is not cleared.
SaveProcess_StaysActive ==
  /\ platform' = [platform EXCEPT ![process] = syscalls_runtime]
  /\ UNCHANGED vm_active_process

\* The runtime goes back to the process and no process is active.
SaveProcess ==
  /\ platform' = [platform EXCEPT ![process] = syscalls_runtime]
  /\ vm_active_process' = NoProcess

EndSlice ==
  /\ SliceOver
  /\ ~halted[process]
  /\ SaveProcess
  /\ phase' = "sched"
  /\ i' = NextSlot
  /\ UNCHANGED <<src, vm_processes, vm_proc_count, exitcode,
                 procVars, runVars, syscalls_runtime, runtimes>>

EndSliceHalted ==
  /\ SliceOver
  /\ halted[process]
  /\ LET saved == [platform EXCEPT ![process] = syscalls_runtime]
         res   == AfterInit(Zero, runtimes, RuntimeFor(saved[process]),
                            saved, process, TRUE)
     IN  /\ syscalls_runtime' = res.runtime
         /\ runtimes' = res.runtimes
         /\ platform' = res.platform
  /\ vm_active_process' = NoProcess
  /\ magic' = [magic EXCEPT ![process] = FALSE]
  /\ ReapSlot(proc_exitcode[process])
  /\ phase' = "sched"
  /\ i' = NextSlot
  /\ UNCHANGED <<src, halted, proc_exitcode, runVars>>

\* No process is left: early_exit(EE_NONE) and return the last exit code.
AllFinished ==
  /\ phase = "sched" /\ vm_proc_count = 0
  /\ phase' = "done"
  /\ UNCHANGED <<src, i, vm_processes, vm_proc_count, exitcode,
                 procVars, runVars, platformVars>>

-----------------------------------------------------------------------------
(* run_cycle: one instruction of the running process *)

Fetch == phase = "exec" /\ rem_cycle > 1

\* Registers, memory, arithmetic and the C library functions.
Instruction ==
  /\ Fetch
  /\ rem_cycle' = rem_cycle - 1
  /\ UNCHANGED <<mainVars, procVars, process, platformVars>>

\* Mutant: rem_cycle is not cleared, the slice goes on.
Halt_RunsOn(code) ==
  /\ halted' = [halted EXCEPT ![process] = TRUE]
  /\ proc_exitcode' = [proc_exitcode EXCEPT ![process] = code]
  /\ rem_cycle' = rem_cycle - 1
  /\ UNCHANGED <<mainVars, magic, process, platformVars>>

Halt(code) ==
  /\ halted' = [halted EXCEPT ![process] = TRUE]
  /\ proc_exitcode' = [proc_exitcode EXCEPT ![process] = code]
  /\ rem_cycle' = 0
  /\ UNCHANGED <<mainVars, magic, process, platformVars>>

ExitInstruction == Fetch /\ \E code \in ExitCodes : Halt(code)

\* B_sym_iop_handler is never set, so the handler is always missing.
UnknownInstruction == Fetch /\ Halt(-1)

\* SYS1 .. SYS6, SYSI and SYSM.
SystemCall(f) ==
  /\ Fetch
  /\ Dispatch(f, syscalls_runtime) = "returns"
  /\ rem_cycle' = rem_cycle - 1
  /\ UNCHANGED <<mainVars, procVars, process, platformVars>>

\* The exception of null_* leaves run_cycle and main, and main.cpp returns -1.
SystemCallThrows(f) ==
  /\ Fetch
  /\ Dispatch(f, syscalls_runtime) = "throws"
  /\ phase' = "done"
  /\ exitcode' = -1
  /\ UNCHANGED <<src, i, vm_processes, vm_proc_count,
                 procVars, runVars, platformVars>>

\* An entry point the library lacks is a null function pointer.
SystemCallCrashes(f) ==
  /\ Fetch
  /\ Dispatch(f, syscalls_runtime) = "crashes"
  /\ phase' = "crashed"
  /\ UNCHANGED <<src, i, vm_processes, vm_proc_count, exitcode,
                 procVars, runVars, platformVars>>

\* For a signal it does not know, c4-internal calls exit(1), and the Scheme library
\* throws an exception, for which main.cpp returns -1; syscall_init does neither.
LibraryExits(f) ==
  /\ Fetch
  /\ syscalls_runtime \in Libs /\ f \in Exports[syscalls_runtime] \ {"syscall_init"}
  /\ phase' = "done"
  /\ exitcode' \in {-1, 1}
  /\ UNCHANGED <<src, i, vm_processes, vm_proc_count,
                 procVars, runVars, platformVars>>

\* PINI: platform_init of a path, or of a null path.
InitPlatform(r, loads) ==
  /\ Fetch
  /\ LET res == AfterInit(r, runtimes, syscalls_runtime, platform,
                          vm_active_process, loads)
     IN  /\ syscalls_runtime' = res.runtime
         /\ runtimes' = res.runtimes
         /\ platform' = res.platform
  /\ rem_cycle' = rem_cycle - 1
  /\ UNCHANGED <<mainVars, procVars, process, vm_active_process>>

\* PCHG: process_changed on a structure of the program's own, as a C4 that
\* runs inside C4 does; its platform field v is 0 or came from PLGT.
ChangeInnerProcess(v) ==
  /\ Fetch
  /\ syscalls_runtime' = RuntimeFor(v)
  /\ rem_cycle' = rem_cycle - 1
  /\ UNCHANGED <<mainVars, procVars, process, runtimes, platform, vm_active_process>>

-----------------------------------------------------------------------------
Next ==
  \/ StartProcess \/ StartFails \/ StartAborts \/ StartDone
  \/ SkipEmptySlot \/ RejectName \/ BeginSlice
  \/ EndSlice \/ EndSliceHalted \/ AllFinished
  \/ Instruction \/ ExitInstruction \/ UnknownInstruction
  \/ \E f \in Calls : \/ SystemCall(f) \/ SystemCallThrows(f)
                      \/ SystemCallCrashes(f) \/ LibraryExits(f)
  \/ \E r \in Libs \cup {Zero}, loads \in BOOLEAN : InitPlatform(r, loads)
  \/ \E v \in {Zero} \cup (runtimes \cap Libs) : ChangeInnerProcess(v)

Spec == Init /\ [][Next]_vars

\* The machine is one thread that never waits for itself: it takes a step as
\* long as it has one.  (A program blocked in read or getchar stops them all.)
FairSpec == Spec /\ WF_vars(Next)

-----------------------------------------------------------------------------
(* Properties *)

Stopped == phase \in {"done", "crashed"}

\* A process runs only while it is loaded, not freed and in main's current slot,
\* is then the active one, and none is active between slices.  (1526-1540)
RunningIsLoaded ==
  /\ phase = "exec" => /\ process = i /\ vm_active_process = process
                       /\ vm_processes[i] = "process" /\ magic[i]
  /\ phase \in {"start", "sched"} => vm_active_process = NoProcess

\* Exactly the loaded and unfinished processes are valid, so nothing is freed
\* twice and a name is never taken for a process.  (1281-1296)
ValidIffLoaded ==
  \A p \in Proc : magic[p] <=> (p \in Slot /\ vm_processes[p] = "process")

\* An exited process executes no further instruction: it is still in its slot
\* only while the slice it exited in is being finished.  (902-907)
ExitedIsOver ==
  \A s \in Slot : halted[s] /\ vm_processes[s] = "process" =>
     Stopped \/ (phase = "exec" /\ process = s /\ rem_cycle = 0)

\* vm_proc_count, which ends the scheduling loop, is the number of occupied
\* slots: main neither stops early nor spins for ever.  (1526, 1535)
CountIsOccupied ==
  vm_proc_count = Cardinality({s \in Slot : vm_processes[s] # "empty"})

\* Every runtime a system call can reach, now or after a switch, is still owned
\* by the runtime map; the global is set whenever a process runs.  (168-170)
RuntimesOwned ==
  /\ {syscalls_runtime} \cup {platform[p] : p \in Proc}
       \subseteq runtimes \cup {NullRuntime, Zero}
  /\ phase = "exec" => syscalls_runtime # Zero

\* No process is starved: a loaded one gets to execute an instruction, again and
\* again, unless the machine stops.  (1522-1540)
NoStarvation ==
  \A s \in Slot :
    (phase = "sched" /\ vm_processes[s] = "process") ~> (Stopped \/ (Fetch /\ process = s))

\* The machine keeps running only because a program does: when none executes
\* instructions for ever, main returns.  (1526)
Termination == <>Stopped \/ \E s \in Slot : []<>(Fetch /\ process = s)

\* The block commented "First init" runs only on a first platform_init: the null
\* entry joins the map when the map is empty.  (syscalls.cpp:154-159)
FirstRunOnly ==
  [][(NullRuntime \in (runtimes' \ runtimes)) => (runtimes = {})]_vars

(***************************************************************************)
(* Refinement: each slot is a microprocess.  The runtime a process has is  *)
(* the global one while it is active and its B_platform otherwise.         *)
(***************************************************************************)
MachineBar ==
  CASE phase = "start" -> "loading"
    [] phase = "done" -> "down"
    [] phase = "crashed" -> "crashed"
    [] OTHER -> "running"

StatusBar == [s \in Slot |->
  CASE vm_processes[s] = "empty" -> "gone"
    [] vm_processes[s] = "name" -> "waiting"
    [] OTHER -> IF halted[s] THEN "exited" ELSE "ready"]

RuntimeBar == [s \in Slot |->
  IF vm_processes[s] # "process" THEN NullRuntime
  ELSE IF vm_active_process = s THEN syscalls_runtime
  ELSE RuntimeFor(platform[s])]

M == INSTANCE Microprocesses WITH
       Procs <- Slot, Nobody <- NoProcess, Runtimes <- Runtime,
       Null <- NullRuntime, Codes <- Codes,
       machine <- MachineBar, status <- StatusBar, runtime <- RuntimeBar,
       code <- [s \in Slot |-> proc_exitcode[s]],
       current <- vm_active_process, result <- exitcode

\* The machine implements its promise: turns, each process's own runtime, exit
\* codes and collection, whatever the processes do between switches.
ImplementsMicroprocesses == M!Spec

\* ... and the fairness of the promise: strong fairness for every process's turn.
ServesMicroprocesses == M!Fairness

=============================================================================
