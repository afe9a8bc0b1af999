----------------------------- MODULE C4Internal -----------------------------
(***************************************************************************)
(* Processes that run processes: the platform library c4-internal (lib_src *)
(* /libinternal.c) hands the machine's own create_process, run_cycle,      *)
(* change_process and set_process_platform to the programs it runs.  A     *)
(* system call then enters run_cycle again, on the C stack: frames holds   *)
(* the suspended activations, the outermost first, and process/rem_cycle   *)
(* stay those of the innermost one.                                        *)
(*                                                                         *)
(* Child processes are in no slot of vm_processes and are never freed.     *)
(***************************************************************************)
EXTENDS C4VM, Sequences

CONSTANTS
  Internal,     \* the library c4-internal
  Children,     \* process structures that programs may create
  Parent,       \* Parent[c] is the process that may create and run c
  ChildCycles   \* cycle counts a program passes to run_cycle

ASSUME InternalAssumption ==
  /\ Internal \in Libs
  /\ Children \subseteq Proc /\ Children \cap Slot = {}
  /\ Parent \in [Children -> Proc]
  /\ ChildCycles \subseteq Nat
  \* a parent exists before its child does, so no process is its own ancestor
  /\ \E g \in [Proc -> 0 .. Cardinality(Children)] :
       \A c \in Children : g[Parent[c]] < g[c]

VARIABLES
  frames,   \* suspended activations of run_cycle: <<process, rem_cycle>>
  own       \* history: the runtime each process last asked for itself

nestedVars == <<vars, frames, own>>

NestedInit ==
  /\ Init
  /\ frames = <<>>
  /\ own = [p \in Proc |-> NullRuntime]

-----------------------------------------------------------------------------
\* A system call of the running process reaches c4-internal.
InternalCall == Fetch /\ syscalls_runtime = Internal

\* SYS4_C4_PROC_CREATE
CreateChild(c) ==
  /\ InternalCall
  /\ Parent[c] = process /\ ~magic[c]
  /\ NewProcess(c)
  /\ own' = [own EXCEPT ![c] = NullRuntime]
  /\ rem_cycle' = rem_cycle - 1
  /\ UNCHANGED <<mainVars, process, frames, syscalls_runtime, runtimes, vm_active_process>>

\* Mutant: the call does not cost the caller a cycle.
Suspend_Free == frames' = Append(frames, <<process, rem_cycle>>)

\* The caller's activation waits with the cycles it has left.
Suspend == frames' = Append(frames, <<process, rem_cycle - 1>>)

\* SYS3_C4_RUN_CYCLE
RunChild(c, n) ==
  /\ InternalCall
  /\ Parent[c] = process
  /\ EnterCycle(c, n)
  /\ Suspend
  /\ UNCHANGED <<mainVars, procVars, runtimes, platform, own>>

\* ... on a child that has exited: run_cycle returns 1 at once.
RunExitedChild(c) ==
  /\ InternalCall
  /\ Parent[c] = process /\ magic[c] /\ halted[c]
  /\ rem_cycle' = rem_cycle - 1
  /\ UNCHANGED <<mainVars, procVars, process, platformVars, frames, own>>

\* Mutant: the inner activation is resumed in the place of its caller.
Resume_Top ==
  /\ process' = process
  /\ rem_cycle' = frames[Len(frames)][2]
  /\ frames' = SubSeq(frames, 1, Len(frames) - 1)
Resume ==
  /\ process' = frames[Len(frames)][1]
  /\ rem_cycle' = frames[Len(frames)][2]
  /\ frames' = SubSeq(frames, 1, Len(frames) - 1)

\* The inner slice is over: run_cycle saves the child and returns to its
\* caller, leaving the child's runtime installed and no process active.
ReturnToCaller ==
  /\ SliceOver /\ frames # <<>>
  /\ SaveProcess
  /\ Resume
  /\ UNCHANGED <<mainVars, procVars, syscalls_runtime, runtimes, own>>

\* SYS2_C4_PROC_CHANGE: the caller asks for the child's runtime.
ChangeToChild(c) ==
  /\ InternalCall
  /\ Parent[c] = process /\ magic[c]
  /\ change_process(c)
  /\ own' = [own EXCEPT ![process] = RuntimeFor(platform[c])]
  /\ rem_cycle' = rem_cycle - 1
  /\ UNCHANGED <<mainVars, procVars, process, runtimes, platform, frames>>

\* SYS3_C4_PROC_PLATFSET, with a runtime got from platform_get.
SetChildPlatform(c, v) ==
  /\ InternalCall
  /\ Parent[c] = process /\ magic[c]
  /\ platform' = [platform EXCEPT ![c] = v]
  /\ own' = [own EXCEPT ![c] = v]
  /\ rem_cycle' = rem_cycle - 1
  /\ UNCHANGED <<mainVars, procVars, process, syscalls_runtime, runtimes,
                 vm_active_process, frames>>

-----------------------------------------------------------------------------
(* The steps of C4VM, main's only while no activation is suspended. *)

MainStep ==
  \/ StartProcess \/ StartFails \/ StartAborts \/ StartDone
  \/ SkipEmptySlot \/ RejectName \/ BeginSlice
  \/ EndSlice \/ EndSliceHalted \/ AllFinished

PlainInstruction ==
  \/ Instruction \/ ExitInstruction \/ UnknownInstruction
  \/ \E f \in Calls : \/ SystemCall(f) \/ SystemCallThrows(f)
                      \/ SystemCallCrashes(f) \/ LibraryExits(f)

InstallingInstruction ==
  \/ \E r \in Libs \cup {Zero}, loads \in BOOLEAN : InitPlatform(r, loads)
  \/ \E v \in {Zero} \cup (runtimes \cap Libs) : ChangeInnerProcess(v)

NestedNext ==
  \/ MainStep /\ frames = <<>> /\ UNCHANGED <<frames, own>>
  \/ PlainInstruction /\ UNCHANGED <<frames, own>>
  \/ InstallingInstruction /\ UNCHANGED frames
     /\ own' = [own EXCEPT ![process] = syscalls_runtime']
  \/ ReturnToCaller
  \/ \E c \in Children :
       \/ CreateChild(c) \/ RunExitedChild(c) \/ ChangeToChild(c)
       \/ \E n \in ChildCycles : RunChild(c, n)
       \/ \E v \in runtimes \cup {NullRuntime} : SetChildPlatform(c, v)

NestedSpec == NestedInit /\ [][NestedNext]_nestedVars /\ WF_nestedVars(NestedNext)

-----------------------------------------------------------------------------
(* Properties *)

\* The activations nest: the outermost one is that of main's slot, each runs a
\* child of the one below, and those that wait can be resumed: they are valid,
\* have not exited and have some of the cycles left that they were given.
\* (libinternal.c:172, c4.c:822-946)
Activation == Append(frames, <<process, rem_cycle>>)
CallersWait ==
  phase = "exec" =>
    /\ Activation[1][1] = i
    /\ \A k \in 1 .. Len(frames) :
         /\ magic[frames[k][1]] /\ ~halted[frames[k][1]]
         /\ frames[k][2] > 0
         /\ \E given \in {CycleCount} \cup ChildCycles : frames[k][2] < given
         /\ Parent[Activation[k + 1][1]] = frames[k][1]

\* A process that has created no child has, in its slices and between them, the
\* runtime it asked for, whatever the others run inside their own slices.
BystandersKeepRuntime ==
  \A s \in Slot :
    (/\ vm_processes[s] = "process" /\ ~Stopped
     /\ \A c \in Children : Parent[c] = s => ~magic[c])
      => own[s] = IF phase = "exec" /\ process = s THEN syscalls_runtime
                  ELSE RuntimeFor(platform[s])

\* Every process keeps a runtime of its own, those that run others included
\* (README.md: "per-microprocess custom platform libraries").
PerProcessPlatform == Fetch => syscalls_runtime = own[process]

=============================================================================
