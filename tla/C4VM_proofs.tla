----------------------------- MODULE C4VM_proofs -----------------------------
(***************************************************************************)
(* Proofs about C4VM for any number of slots, any cycle count, any set of  *)
(* libraries and of exit codes.  TypeInv and LifeInv are inductive: the    *)
(* first gives the types, the second ties main's index, run_cycle's        *)
(* argument, the active process, the slots and the process fields together.*)
(***************************************************************************)
EXTENDS C4VM, TLAPS, FiniteSetTheorems

\* What platform_init returns has the right types whatever fails.
LEMMA AfterInitType ==
  ASSUME NEW r \in Libs \cup {Zero}, NEW reg \in SUBSET Runtime,
         NEW rt \in Runtime \cup {Zero},
         NEW plat \in [Proc -> Runtime \cup {Zero}],
         NEW p \in Proc \cup {NoProcess}, NEW loads \in BOOLEAN
  PROVE  /\ AfterInit(r, reg, rt, plat, p, loads).runtime \in Runtime \cup {Zero}
         /\ AfterInit(r, reg, rt, plat, p, loads).runtimes \in SUBSET Runtime
         /\ AfterInit(r, reg, rt, plat, p, loads).platform \in [Proc -> Runtime \cup {Zero}]
<1> DEFINE failed == LoadFails(r, reg, loads)
           firstRun == MapEmpty(reg)
           newRt == IF failed THEN (IF firstRun THEN NullRuntime ELSE rt)
                              ELSE RuntimeFor(r)
<1>1. newRt \in Runtime \cup {Zero}
  BY DEF Runtime, RuntimeFor
<1>2. reg \cup {NullRuntime} \in SUBSET Runtime
  BY DEF Runtime
<1>3. r # Zero => r \in Runtime
  BY DEF Runtime
<1> HIDE DEF newRt
<1>4. /\ AfterInit(r, reg, rt, plat, p, loads).runtime = newRt
      /\ AfterInit(r, reg, rt, plat, p, loads).platform
           = IF failed \/ p = NoProcess THEN plat ELSE [plat EXCEPT ![p] = newRt]
  BY DEF AfterInit, newRt
<1>5. AfterInit(r, reg, rt, plat, p, loads).runtimes \in SUBSET Runtime
  BY <1>2, <1>3 DEF AfterInit, Emplace
<1> QED
  BY <1>1, <1>4, <1>5

\* main's index stays on a slot when it is advanced.
LEMMA NextSlotType == i \in Slot => NextSlot \in Slot
BY VMAssumption DEF Slot, NextSlot

\* The inductive form of TypeOK: a slice runs only while slots are occupied.
TypeInv == TypeOK /\ (phase = "exec" => vm_proc_count > 0)

LEMMA TypeInit == Init => TypeInv
BY VMAssumption, PlatformAssumption
   DEF Init, TypeInv, TypeOK, PlatformInit, PlatformTypeOK, Slot, Codes

LEMMA TypeStep == TypeInv /\ [Next]_vars => TypeInv'
<1> SUFFICES ASSUME TypeInv, [Next]_vars PROVE TypeInv'
  OBVIOUS
<1> USE VMAssumption, PlatformAssumption
<1>1. CASE StartProcess
  BY <1>1 DEF StartProcess, NewProcess, TypeInv, TypeOK, PlatformTypeOK,
              Slot, Codes, runVars
<1>2. CASE StartFails
  BY <1>2 DEF StartFails, TypeInv, TypeOK, PlatformTypeOK, procVars, runVars, platformVars
<1>3. CASE StartAborts
  BY <1>3 DEF StartAborts, TypeInv, TypeOK, PlatformTypeOK, procVars, runVars,
              platformVars, Codes
<1>4. CASE StartDone
  BY <1>4 DEF StartDone, TypeInv, TypeOK, PlatformTypeOK, procVars, runVars,
              platformVars, Codes, Slot
<1>5. CASE SkipEmptySlot
  BY <1>5, NextSlotType DEF SkipEmptySlot, TypeInv, TypeOK, PlatformTypeOK,
              procVars, runVars, platformVars, Slot
<1>6. CASE RejectName
  BY <1>6, NextSlotType DEF RejectName, ReapSlot, TypeInv, TypeOK, PlatformTypeOK,
              runVars, platformVars, Slot, Codes
<1>7. CASE BeginSlice
  <2>1. i \in Slot /\ i \in Proc
    BY <1>7 DEF BeginSlice, TypeInv, TypeOK
  <2>2. syscalls_runtime' \in Runtime \cup {Zero}
    BY <1>7, <2>1 DEF BeginSlice, EnterCycle, change_process, RuntimeFor, TypeInv, TypeOK,
              PlatformTypeOK, Runtime
  <2> QED
    BY <1>7, <2>1, <2>2 DEF BeginSlice, EnterCycle, change_process, TypeInv, TypeOK,
              PlatformTypeOK, procVars
<1>8. CASE EndSlice
  BY <1>8, NextSlotType DEF EndSlice, SliceOver, SaveProcess, TypeInv, TypeOK,
              PlatformTypeOK, procVars, runVars, Slot
<1>9. CASE EndSliceHalted
  <2> DEFINE saved == [platform EXCEPT ![process] = syscalls_runtime]
             rt == RuntimeFor(saved[process])
             res == AfterInit(Zero, runtimes, rt, saved, process, TRUE)
  <2>1. /\ i \in Slot /\ process \in Proc /\ vm_proc_count \in 1 .. MaxProcs
        /\ saved \in [Proc -> Runtime \cup {Zero}]
        /\ runtimes \in SUBSET Runtime
    BY <1>9 DEF EndSliceHalted, SliceOver, TypeInv, TypeOK, PlatformTypeOK
  <2>2. rt \in Runtime \cup {Zero}
    BY <2>1 DEF RuntimeFor, Runtime
  <2> HIDE DEF saved, rt
  <2>3. /\ res.runtime \in Runtime \cup {Zero}
        /\ res.runtimes \in SUBSET Runtime
        /\ res.platform \in [Proc -> Runtime \cup {Zero}]
    BY <2>1, <2>2, AfterInitType
  <2> HIDE DEF res
  <2>4. syscalls_runtime' = res.runtime /\ runtimes' = res.runtimes /\ platform' = res.platform
    BY <1>9 DEF EndSliceHalted, saved, rt, res
  <2>5. /\ magic' \in [Proc -> BOOLEAN]
        /\ i' \in Slot /\ exitcode' \in Codes /\ vm_proc_count' \in 0 .. MaxProcs
        /\ vm_processes' \in [Slot -> {"empty", "name", "process"}]
    BY <1>9, <2>1, NextSlotType DEF EndSliceHalted, ReapSlot, TypeInv, TypeOK
  <2>6. /\ vm_active_process' = NoProcess /\ phase' = "sched"
        /\ UNCHANGED <<src, halted, proc_exitcode, process, rem_cycle>>
    BY <1>9 DEF EndSliceHalted, runVars
  <2>7. PlatformTypeOK'
    BY <2>3, <2>4, <2>6 DEF PlatformTypeOK
  <2> QED
    BY <2>5, <2>6, <2>7 DEF TypeInv, TypeOK, Slot
<1>10. CASE AllFinished
  BY <1>10 DEF AllFinished, TypeInv, TypeOK, PlatformTypeOK, procVars, runVars, platformVars
<1>11. CASE Instruction
  BY <1>11 DEF Instruction, Fetch, TypeInv, TypeOK, PlatformTypeOK, mainVars,
              procVars, platformVars
<1>12. CASE ExitInstruction
  BY <1>12 DEF ExitInstruction, Halt, Fetch, TypeInv, TypeOK, PlatformTypeOK,
              mainVars, platformVars, Codes
<1>13. CASE UnknownInstruction
  BY <1>13 DEF UnknownInstruction, Halt, Fetch, TypeInv, TypeOK, PlatformTypeOK,
              mainVars, platformVars, Codes
<1>14. ASSUME NEW f \in Calls, SystemCall(f) PROVE TypeInv'
  BY <1>14 DEF SystemCall, Fetch, TypeInv, TypeOK, PlatformTypeOK, mainVars,
              procVars, platformVars
<1>15. ASSUME NEW f \in Calls, SystemCallThrows(f) PROVE TypeInv'
  BY <1>15 DEF SystemCallThrows, Fetch, TypeInv, TypeOK, PlatformTypeOK, procVars,
              runVars, platformVars, Codes
<1>16. ASSUME NEW f \in Calls, SystemCallCrashes(f) PROVE TypeInv'
  BY <1>16 DEF SystemCallCrashes, Fetch, TypeInv, TypeOK, PlatformTypeOK, procVars,
              runVars, platformVars
<1>17. ASSUME NEW f \in Calls, LibraryExits(f) PROVE TypeInv'
  BY <1>17 DEF LibraryExits, Fetch, TypeInv, TypeOK, PlatformTypeOK, procVars,
              runVars, platformVars, Codes
<1>18. ASSUME NEW r \in Libs \cup {Zero}, NEW loads \in BOOLEAN, InitPlatform(r, loads)
       PROVE  TypeInv'
  <2> DEFINE res == AfterInit(r, runtimes, syscalls_runtime, platform,
                              vm_active_process, loads)
  <2>1. /\ res.runtime \in Runtime \cup {Zero}
        /\ res.runtimes \in SUBSET Runtime
        /\ res.platform \in [Proc -> Runtime \cup {Zero}]
    BY AfterInitType DEF TypeInv, TypeOK, PlatformTypeOK
  <2> HIDE DEF res
  <2>2. syscalls_runtime' = res.runtime /\ runtimes' = res.runtimes /\ platform' = res.platform
    BY <1>18 DEF InitPlatform, res
  <2>3. PlatformTypeOK'
    BY <1>18, <2>1, <2>2 DEF InitPlatform, TypeInv, TypeOK, PlatformTypeOK
  <2> QED
    BY <1>18, <2>3 DEF InitPlatform, Fetch, TypeInv, TypeOK, mainVars, procVars
<1>19. ASSUME NEW v \in {Zero} \cup (runtimes \cap Libs), ChangeInnerProcess(v)
       PROVE  TypeInv'
  BY <1>19 DEF ChangeInnerProcess, RuntimeFor, Fetch, TypeInv, TypeOK, PlatformTypeOK,
              Runtime, mainVars, procVars
<1>20. CASE UNCHANGED vars
  BY <1>20 DEF vars, mainVars, procVars, runVars, platformVars, TypeInv, TypeOK,
              PlatformTypeOK
<1> QED
  BY <1>1, <1>2, <1>3, <1>4, <1>5, <1>6, <1>7, <1>8, <1>9, <1>10, <1>11, <1>12, <1>13,
     <1>14, <1>15, <1>16, <1>17, <1>18, <1>19, <1>20 DEF Next

\* Every variable keeps its type, in every reachable state of every instance.
THEOREM TypeCorrect == Spec => []TypeOK
<1>1. TypeInv => TypeOK
  BY DEF TypeInv
<1> QED
  BY <1>1, TypeInit, TypeStep, PTL DEF Spec

-----------------------------------------------------------------------------
\* While main loads, the slots before its index hold loaded or failed programs,
\* those from it on hold names, and those past vm_proc_count nothing.
StartOrder ==
  phase = "start" =>
    /\ i \in 0 .. vm_proc_count
    /\ \A s \in Slot : /\ vm_processes[s] = "empty" <=> s >= vm_proc_count
                       /\ s >= i => vm_processes[s] # "process"

\* The lifecycle of processes: TypeInv is needed for the fields' domains, and
\* StartOrder for the slots that StartProcess fills.
LifeInv == TypeInv /\ StartOrder /\ RunningIsLoaded /\ ValidIffLoaded /\ ExitedIsOver

LEMMA LifeInit == Init => LifeInv
<1>1. Init => TypeInv
  BY TypeInit
<1>2. Init => StartOrder /\ RunningIsLoaded /\ ValidIffLoaded /\ ExitedIsOver
  BY VMAssumption DEF Init, PlatformInit, StartOrder, RunningIsLoaded, ValidIffLoaded,
     ExitedIsOver, Slot
<1> QED
  BY <1>1, <1>2 DEF LifeInv

\* The instructions that neither halt the process nor stop the machine.
LEMMA LifeKept ==
  ASSUME LifeInv, Fetch, rem_cycle' = rem_cycle - 1,
         UNCHANGED <<mainVars, procVars, process, vm_active_process>>
  PROVE  (StartOrder /\ RunningIsLoaded /\ ValidIffLoaded /\ ExitedIsOver)'
BY DEF LifeInv, TypeInv, TypeOK, Fetch, mainVars, procVars, StartOrder, RunningIsLoaded,
       ValidIffLoaded, ExitedIsOver, Stopped

\* The system calls that stop the machine.
LEMMA LifeStopped ==
  ASSUME LifeInv, Fetch, phase' \in {"done", "crashed"},
         UNCHANGED <<vm_processes, procVars>>
  PROVE  (StartOrder /\ RunningIsLoaded /\ ValidIffLoaded /\ ExitedIsOver)'
BY DEF LifeInv, procVars, StartOrder, RunningIsLoaded, ValidIffLoaded, ExitedIsOver, Stopped

LEMMA LifeHalt ==
  ASSUME LifeInv, Fetch, NEW code, Halt(code)
  PROVE  (StartOrder /\ RunningIsLoaded /\ ValidIffLoaded /\ ExitedIsOver)'
<1>1. /\ phase = "exec" /\ phase' = "exec" /\ process' = process
      /\ rem_cycle' = 0 /\ rem_cycle > 1
      /\ halted' = [halted EXCEPT ![process] = TRUE]
      /\ process \in Proc
      /\ UNCHANGED <<i, vm_processes, magic, vm_active_process>>
  BY DEF LifeInv, TypeInv, TypeOK, Fetch, Halt, mainVars, platformVars
<1>2. \A s \in Slot : halted[s] => vm_processes[s] # "process"
  BY <1>1 DEF LifeInv, ExitedIsOver, Stopped
<1>3. ExitedIsOver'
  BY <1>1, <1>2, VMAssumption DEF LifeInv, TypeInv, TypeOK, ExitedIsOver, Stopped
<1> QED
  BY <1>1, <1>3 DEF LifeInv, StartOrder, RunningIsLoaded, ValidIffLoaded

LEMMA LifeStep == LifeInv /\ [Next]_vars => LifeInv'
<1> SUFFICES ASSUME LifeInv, [Next]_vars PROVE LifeInv'
  OBVIOUS
<1> USE VMAssumption
<1>0. TypeInv'
  BY TypeStep DEF LifeInv
<1>1. CASE StartProcess
  BY <1>0, <1>1 DEF StartProcess, NewProcess, runVars, LifeInv, TypeInv, TypeOK, StartOrder,
     RunningIsLoaded, ValidIffLoaded, ExitedIsOver, Stopped, Slot
<1>2. CASE StartFails
  BY <1>0, <1>2 DEF StartFails, procVars, runVars, platformVars, LifeInv, TypeInv, TypeOK,
     StartOrder, RunningIsLoaded, ValidIffLoaded, ExitedIsOver, Stopped, Slot
<1>3. CASE StartAborts
  BY <1>0, <1>3 DEF StartAborts, procVars, runVars, platformVars, LifeInv, StartOrder,
     RunningIsLoaded, ValidIffLoaded, ExitedIsOver, Stopped
<1>4. CASE StartDone
  BY <1>0, <1>4 DEF StartDone, procVars, runVars, platformVars, LifeInv, TypeInv, TypeOK,
     StartOrder, RunningIsLoaded, ValidIffLoaded, ExitedIsOver, Stopped
<1>5. CASE SkipEmptySlot
  BY <1>0, <1>5 DEF SkipEmptySlot, procVars, runVars, platformVars, LifeInv, StartOrder,
     RunningIsLoaded, ValidIffLoaded, ExitedIsOver, Stopped
<1>6. CASE RejectName
  BY <1>0, <1>6 DEF RejectName, ReapSlot, runVars, platformVars, LifeInv, TypeInv, TypeOK,
     StartOrder, RunningIsLoaded, ValidIffLoaded, ExitedIsOver, Stopped
<1>7. CASE BeginSlice
  BY <1>0, <1>7 DEF BeginSlice, EnterCycle, change_process, procVars, LifeInv, TypeInv, TypeOK,
     StartOrder, RunningIsLoaded, ValidIffLoaded, ExitedIsOver, Stopped
<1>8. CASE EndSlice
  BY <1>0, <1>8 DEF EndSlice, SliceOver, SaveProcess, procVars, runVars, LifeInv, TypeInv, TypeOK,
     StartOrder, RunningIsLoaded, ValidIffLoaded, ExitedIsOver, Stopped
<1>9. CASE EndSliceHalted
  <2>1. /\ phase = "exec" /\ phase' = "sched" /\ vm_active_process' = NoProcess
        /\ magic' = [magic EXCEPT ![process] = FALSE]
        /\ vm_processes' = [vm_processes EXCEPT ![i] = "empty"]
        /\ UNCHANGED halted
    BY <1>9 DEF EndSliceHalted, SliceOver, ReapSlot
  <2>2. process = i /\ i \in Slot
    BY <2>1 DEF LifeInv, TypeInv, TypeOK, RunningIsLoaded
  <2>3. ValidIffLoaded'
    BY <2>1, <2>2 DEF LifeInv, TypeInv, TypeOK, ValidIffLoaded
  <2>4. ExitedIsOver'
    BY <2>1, <2>2 DEF LifeInv, TypeInv, TypeOK, ExitedIsOver, Stopped
  <2> QED
    BY <1>0, <2>1, <2>3, <2>4 DEF LifeInv, StartOrder, RunningIsLoaded
<1>10. CASE AllFinished
  BY <1>0, <1>10 DEF AllFinished, procVars, runVars, platformVars, LifeInv, StartOrder,
     RunningIsLoaded, ValidIffLoaded, ExitedIsOver, Stopped
<1>11. CASE Instruction
  BY <1>0, <1>11, LifeKept DEF Instruction, platformVars, LifeInv
<1>12. CASE ExitInstruction \/ UnknownInstruction
  BY <1>0, <1>12, LifeHalt DEF ExitInstruction, UnknownInstruction, LifeInv
<1>13. ASSUME NEW f \in Calls, SystemCall(f) PROVE LifeInv'
  BY <1>0, <1>13, LifeKept DEF SystemCall, platformVars, LifeInv
<1>14. ASSUME NEW f \in Calls,
              SystemCallThrows(f) \/ SystemCallCrashes(f) \/ LibraryExits(f)
       PROVE  LifeInv'
  BY <1>0, <1>14, LifeStopped
     DEF SystemCallThrows, SystemCallCrashes, LibraryExits, LifeInv
<1>15. ASSUME NEW r \in Libs \cup {Zero}, NEW loads \in BOOLEAN, InitPlatform(r, loads)
       PROVE  LifeInv'
  BY <1>0, <1>15, LifeKept DEF InitPlatform, LifeInv
<1>16. ASSUME NEW v \in {Zero} \cup (runtimes \cap Libs), ChangeInnerProcess(v)
       PROVE  LifeInv'
  BY <1>0, <1>16, LifeKept DEF ChangeInnerProcess, LifeInv
<1>17. CASE UNCHANGED vars
  BY <1>0, <1>17 DEF vars, mainVars, procVars, runVars, platformVars, LifeInv, StartOrder,
     RunningIsLoaded, ValidIffLoaded, ExitedIsOver, Stopped
<1> QED
  BY <1>0, <1>1, <1>2, <1>3, <1>4, <1>5, <1>6, <1>7, <1>8, <1>9, <1>10, <1>11, <1>12,
     <1>13, <1>14, <1>15, <1>16, <1>17 DEF Next, LifeInv

THEOREM LifeCorrect == Spec => []LifeInv
BY LifeInit, LifeStep, PTL DEF Spec

\* A process runs only while it is loaded and in main's current slot.
THEOREM RunningIsLoadedAlways == Spec => []RunningIsLoaded
BY LifeCorrect, PTL DEF LifeInv

\* Exactly the loaded, unfinished processes carry the magic number, so none is
\* freed twice and no file name is run or freed as a process.
THEOREM ValidIffLoadedAlways == Spec => []ValidIffLoaded
BY LifeCorrect, PTL DEF LifeInv

\* A process that exited executes nothing more.
THEOREM ExitedIsOverAlways == Spec => []ExitedIsOver
BY LifeCorrect, PTL DEF LifeInv

-----------------------------------------------------------------------------
Occupied == {s \in Slot : vm_processes[s] # "empty"}

LEMMA SlotsFinite == IsFiniteSet(Slot)
BY FS_Interval, VMAssumption DEF Slot

\* Emptying an occupied slot takes one off the number of occupied slots.
LEMMA ReapCounts ==
  ASSUME TypeOK, CountIsOccupied, i \in Slot, vm_processes[i] # "empty",
         NEW code, ReapSlot(code)
  PROVE  CountIsOccupied'
<1>1. Occupied' = Occupied \ {i}
  BY DEF Occupied, ReapSlot, TypeOK
<1>2. IsFiniteSet(Occupied) /\ i \in Occupied
  BY SlotsFinite, FS_Subset DEF Occupied
<1>3. Cardinality(Occupied \ {i}) = Cardinality(Occupied) - 1
  BY <1>2, FS_RemoveElement
<1>4. vm_proc_count = Cardinality(Occupied) /\ vm_proc_count' = vm_proc_count - 1
  BY DEF CountIsOccupied, Occupied, ReapSlot
<1> QED
  BY <1>1, <1>3, <1>4 DEF CountIsOccupied, Occupied

LEMMA CountInit == Init => CountIsOccupied
<1> SUFFICES ASSUME Init PROVE CountIsOccupied
  OBVIOUS
<1>1. vm_proc_count \in 1 .. MaxProcs
  BY DEF Init
<1>2. Occupied = 0 .. vm_proc_count - 1
  BY <1>1, VMAssumption DEF Init, Occupied, Slot
<1>3. Cardinality(0 .. vm_proc_count - 1) = vm_proc_count
  BY <1>1, FS_Interval, VMAssumption
<1> QED
  BY <1>2, <1>3 DEF CountIsOccupied, Occupied

LEMMA CountStep == LifeInv /\ CountIsOccupied /\ [Next]_vars => CountIsOccupied'
<1> SUFFICES ASSUME LifeInv, CountIsOccupied, [Next]_vars PROVE CountIsOccupied'
  OBVIOUS
<1>1. CASE StartProcess
  <2>1. i \in Slot /\ vm_processes[i] # "empty"
    BY <1>1, VMAssumption DEF StartProcess, LifeInv, TypeInv, TypeOK, StartOrder, Slot
  <2>2. Occupied' = Occupied
    BY <1>1, <2>1 DEF StartProcess, Occupied, LifeInv, TypeInv, TypeOK
  <2> QED
    BY <1>1, <2>2 DEF StartProcess, CountIsOccupied, Occupied
<1>2. CASE RejectName
  BY <1>2, ReapCounts DEF RejectName, LifeInv, TypeInv, TypeOK
<1>3. CASE EndSliceHalted
  <2>1. i \in Slot /\ vm_processes[i] # "empty"
    BY <1>3 DEF EndSliceHalted, SliceOver, LifeInv, TypeInv, TypeOK, RunningIsLoaded
  <2> QED
    BY <1>3, <2>1, ReapCounts DEF EndSliceHalted, LifeInv, TypeInv
<1>4. ASSUME UNCHANGED <<vm_processes, vm_proc_count>> PROVE CountIsOccupied'
  BY <1>4 DEF CountIsOccupied
<1>5. CASE \/ StartFails \/ StartAborts \/ StartDone \/ SkipEmptySlot \/ BeginSlice
           \/ EndSlice \/ AllFinished
  BY <1>4, <1>5 DEF StartFails, StartAborts, StartDone, SkipEmptySlot, BeginSlice,
     EndSlice, AllFinished
<1>6. CASE Instruction \/ ExitInstruction \/ UnknownInstruction
  BY <1>4, <1>6 DEF Instruction, ExitInstruction, UnknownInstruction, Halt, mainVars
<1>7. ASSUME NEW f \in Calls,
             \/ SystemCall(f) \/ SystemCallThrows(f)
             \/ SystemCallCrashes(f) \/ LibraryExits(f)
      PROVE  CountIsOccupied'
  BY <1>4, <1>7 DEF SystemCall, SystemCallThrows, SystemCallCrashes, LibraryExits, mainVars
<1>8. ASSUME NEW r \in Libs \cup {Zero}, NEW loads \in BOOLEAN, InitPlatform(r, loads)
      PROVE  CountIsOccupied'
  BY <1>4, <1>8 DEF InitPlatform, mainVars
<1>9. ASSUME NEW v \in {Zero} \cup (runtimes \cap Libs), ChangeInnerProcess(v)
      PROVE  CountIsOccupied'
  BY <1>4, <1>9 DEF ChangeInnerProcess, mainVars
<1>10. CASE UNCHANGED vars
  BY <1>4, <1>10 DEF vars, mainVars
<1> QED
  BY <1>1, <1>2, <1>3, <1>5, <1>6, <1>7, <1>8, <1>9, <1>10 DEF Next

\* vm_proc_count is the number of occupied slots, for any number of slots: the
\* scheduling loop ends exactly when the last process has been reaped.
THEOREM CountIsOccupiedAlways == Spec => []CountIsOccupied
<1>1. Init => LifeInv /\ CountIsOccupied
  BY LifeInit, CountInit
<1>2. LifeInv /\ CountIsOccupied /\ [Next]_vars => (LifeInv /\ CountIsOccupied)'
  BY LifeStep, CountStep
<1> QED
  BY <1>1, <1>2, PTL DEF Spec

-----------------------------------------------------------------------------
\* A result of platform_init whose runtimes are all in its map.
Owned(res, rt) ==
  /\ res.runtime \in res.runtimes \cup {NullRuntime, Zero}
  /\ rt # Zero => res.runtime # Zero
  /\ res.platform \in [Proc -> res.runtimes \cup {NullRuntime, Zero}]

\* platform_init never hands out a runtime that its map does not hold.
LEMMA AfterInitOwned ==
  ASSUME NEW r, NEW reg, NEW rt \in reg \cup {NullRuntime, Zero}, NEW plat, NEW p,
         NEW loads,
         plat \in [Proc -> reg \cup {NullRuntime, Zero}]
  PROVE  Owned(AfterInit(r, reg, rt, plat, p, loads), rt)
<1> DEFINE res == AfterInit(r, reg, rt, plat, p, loads)
<1>1. reg \subseteq res.runtimes
  BY DEF AfterInit, Emplace
<1>2. /\ res.runtime \in res.runtimes \cup {NullRuntime, Zero}
      /\ rt # Zero => res.runtime # Zero
  BY PlatformAssumption DEF AfterInit, Emplace, LoadFails, MapEmpty, RuntimeFor
<1>3. res.platform = plat \/ res.platform = [plat EXCEPT ![p] = res.runtime]
  BY DEF AfterInit
<1>4. res.platform \in [Proc -> res.runtimes \cup {NullRuntime, Zero}]
  BY <1>1, <1>2, <1>3
<1> QED
  BY <1>2, <1>4 DEF Owned

\* RuntimesOwned with B_platform as a function, the form the lemma uses.
OwnInv ==
  /\ syscalls_runtime \in runtimes \cup {NullRuntime, Zero}
  /\ platform \in [Proc -> runtimes \cup {NullRuntime, Zero}]
  /\ phase = "exec" => syscalls_runtime # Zero

LEMMA OwnImplies == OwnInv => RuntimesOwned
BY DEF OwnInv, RuntimesOwned

LEMMA OwnInit == Init => OwnInv
BY DEF Init, PlatformInit, OwnInv

LEMMA OwnStep == TypeOK /\ OwnInv /\ [Next]_vars => OwnInv'
<1> SUFFICES ASSUME TypeOK, OwnInv, [Next]_vars PROVE OwnInv'
  OBVIOUS
<1> USE PlatformAssumption
<1>1. CASE StartProcess
  BY <1>1 DEF StartProcess, NewProcess, OwnInv
<1>2. ASSUME UNCHANGED <<syscalls_runtime, runtimes, platform>>,
             phase' = "exec" => phase = "exec"
      PROVE  OwnInv'
  BY <1>2 DEF OwnInv
<1>3. CASE \/ StartFails \/ StartAborts \/ StartDone \/ SkipEmptySlot \/ RejectName
           \/ AllFinished
  BY <1>2, <1>3 DEF StartFails, StartAborts, StartDone, SkipEmptySlot, RejectName,
     AllFinished, platformVars
<1>4. CASE BeginSlice
  <2>1. platform[i] \in runtimes \cup {NullRuntime, Zero}
    BY <1>4, VMAssumption DEF BeginSlice, TypeOK, OwnInv
  <2> QED
    BY <1>4, <2>1 DEF BeginSlice, EnterCycle, change_process, RuntimeFor, OwnInv
<1>5. CASE EndSlice
  BY <1>5 DEF EndSlice, SaveProcess, OwnInv
<1>6. CASE EndSliceHalted
  <2> DEFINE saved == [platform EXCEPT ![process] = syscalls_runtime]
             rt == RuntimeFor(saved[process])
             res == AfterInit(Zero, runtimes, rt, saved, process, TRUE)
  <2>1. saved \in [Proc -> runtimes \cup {NullRuntime, Zero}] /\ process \in Proc
    BY <1>6 DEF EndSliceHalted, SliceOver, TypeOK, OwnInv
  <2>2. rt \in runtimes \cup {NullRuntime, Zero}
    BY <2>1 DEF RuntimeFor
  <2> HIDE DEF saved, rt
  <2>3. Owned(res, rt)
    BY <2>1, <2>2, AfterInitOwned
  <2> HIDE DEF res
  <2>4. /\ syscalls_runtime' = res.runtime /\ runtimes' = res.runtimes
        /\ platform' = res.platform /\ phase' = "sched"
    BY <1>6 DEF EndSliceHalted, saved, rt, res
  <2> QED
    BY <2>3, <2>4 DEF OwnInv, Owned
<1>7. CASE Instruction \/ ExitInstruction \/ UnknownInstruction
  BY <1>2, <1>7 DEF Instruction, ExitInstruction, UnknownInstruction, Halt, mainVars,
     platformVars
<1>8. ASSUME NEW f \in Calls,
             \/ SystemCall(f) \/ SystemCallThrows(f)
             \/ SystemCallCrashes(f) \/ LibraryExits(f)
      PROVE  OwnInv'
  BY <1>2, <1>8 DEF SystemCall, SystemCallThrows, SystemCallCrashes, LibraryExits, mainVars,
     platformVars
<1>9. ASSUME NEW r \in Libs \cup {Zero}, NEW loads \in BOOLEAN, InitPlatform(r, loads)
      PROVE  OwnInv'
  <2> DEFINE res == AfterInit(r, runtimes, syscalls_runtime, platform,
                              vm_active_process, loads)
  <2>0. /\ syscalls_runtime \in runtimes \cup {NullRuntime, Zero}
        /\ platform \in [Proc -> runtimes \cup {NullRuntime, Zero}]
    BY DEF OwnInv
  <2>1. Owned(res, syscalls_runtime)
    BY <2>0, AfterInitOwned
  <2> HIDE DEF res
  <2>2. /\ syscalls_runtime' = res.runtime /\ runtimes' = res.runtimes
        /\ platform' = res.platform /\ phase' = phase
    BY <1>9 DEF InitPlatform, mainVars, res
  <2> QED
    BY <2>1, <2>2 DEF OwnInv, Owned
<1>10. ASSUME NEW v \in {Zero} \cup (runtimes \cap Libs), ChangeInnerProcess(v)
       PROVE  OwnInv'
  BY <1>10 DEF ChangeInnerProcess, RuntimeFor, OwnInv, mainVars
<1>11. CASE UNCHANGED vars
  BY <1>2, <1>11 DEF vars, mainVars, platformVars
<1> QED
  BY <1>1, <1>3, <1>4, <1>5, <1>6, <1>7, <1>8, <1>9, <1>10, <1>11 DEF Next

\* No runtime a system call can reach is missing from the map that owns it, and
\* a running process never dispatches through the null pointer.
THEOREM RuntimesOwnedAlways == Spec => []RuntimesOwned
<1>1. Init => TypeInv /\ OwnInv
  BY TypeInit, OwnInit
<1>2. TypeInv /\ OwnInv /\ [Next]_vars => (TypeInv /\ OwnInv)'
  BY TypeStep, OwnStep DEF TypeInv
<1> QED
  BY <1>1, <1>2, OwnImplies, PTL DEF Spec

-----------------------------------------------------------------------------
(* C4VM implements Microprocesses: each of its steps is a step of that     *)
(* specification or leaves its variables unchanged.  What carries the      *)
(* proof is that the runtime of a process is the global one exactly while  *)
(* it is active, so a step of one process leaves the runtimes of all the   *)
(* others as they were.                                                    *)

\* Nothing has been reported before the first slice.
StartResult ==
  phase = "start" => exitcode = 0 /\ \A s \in Slot : proc_exitcode[s] = 0

RefInv == LifeInv /\ OwnInv /\ CountIsOccupied /\ StartResult

LEMMA StartResultStep == LifeInv /\ StartResult /\ [Next]_vars => StartResult'
<1> SUFFICES ASSUME LifeInv, StartResult, [Next]_vars, phase' = "start"
             PROVE  StartResult'
  BY DEF StartResult
<1>1. CASE StartProcess
  BY <1>1 DEF StartProcess, NewProcess, StartResult, LifeInv, TypeInv, TypeOK
<1>2. CASE StartFails
  BY <1>2 DEF StartFails, procVars, StartResult
<1>3. CASE UNCHANGED vars
  BY <1>3 DEF vars, mainVars, procVars, StartResult
<1>4. CASE /\ ~StartProcess /\ ~StartFails
           /\ Next
  BY <1>4 DEF Next, StartAborts, StartDone, SkipEmptySlot, RejectName, BeginSlice,
     EndSlice, EndSliceHalted, SliceOver, AllFinished, Instruction, ExitInstruction,
     UnknownInstruction, Halt, Fetch, SystemCall, SystemCallThrows, SystemCallCrashes,
     LibraryExits, InitPlatform, ChangeInnerProcess, mainVars
<1> QED
  BY <1>1, <1>2, <1>3, <1>4

LEMMA RefInvInit == Init => RefInv
<1>1. Init => StartResult
  BY VMAssumption DEF Init, StartResult, Slot
<1> QED
  BY <1>1, LifeInit, OwnInit, CountInit DEF RefInv

LEMMA RefInvStep == RefInv /\ [Next]_vars => RefInv'
BY LifeStep, OwnStep, CountStep, StartResultStep DEF RefInv, LifeInv, TypeInv

-----------------------------------------------------------------------------
(* The running process has the turn, and the global runtime is its own. *)
LEMMA RunningBar ==
  ASSUME RefInv, phase = "exec"
  PROVE  /\ process \in Slot /\ process = i /\ vm_active_process = process
         /\ vm_processes[process] = "process"
         /\ MachineBar = "running"
         /\ StatusBar[process] = IF halted[process] THEN "exited" ELSE "ready"
         /\ RuntimeBar[process] = syscalls_runtime
         /\ syscalls_runtime \in Runtime
<1>1. process \in Slot /\ process = i /\ vm_active_process = process
      /\ vm_processes[process] = "process"
  BY DEF RefInv, LifeInv, TypeInv, TypeOK, RunningIsLoaded
<1>2. syscalls_runtime \in Runtime
  BY DEF RefInv, LifeInv, TypeInv, TypeOK, PlatformTypeOK, OwnInv
<1> QED
  BY <1>1, <1>2 DEF MachineBar, StatusBar, RuntimeBar

LEMMA FetchBar ==
  ASSUME RefInv, Fetch
  PROVE  M!HasTurn(process) /\ ~halted[process]
<1>1. ~halted[process]
  BY RunningBar DEF Fetch, RefInv, LifeInv, ExitedIsOver, Stopped
<1> QED
  BY <1>1, RunningBar DEF Fetch, M!HasTurn

\* A step of the running process that only changes the global runtime, and
\* B_platform at most of the process itself, installs a runtime for it alone.
LEMMA InstallBar ==
  ASSUME RefInv, Fetch, syscalls_runtime' \in Runtime,
         UNCHANGED <<mainVars, procVars, process, vm_active_process>>,
         \A s \in Slot : s # process => platform'[s] = platform[s]
  PROVE  M!Install(process, syscalls_runtime')
<1>1. M!HasTurn(process)
  BY FetchBar
<1>2. process \in Slot /\ vm_active_process = process /\ vm_processes[process] = "process"
  BY RunningBar DEF Fetch
<1>3. RuntimeBar' = [RuntimeBar EXCEPT ![process] = syscalls_runtime']
  BY <1>2 DEF RuntimeBar, mainVars
<1>4. UNCHANGED <<MachineBar, StatusBar, [s \in Slot |-> proc_exitcode[s]],
                  vm_active_process, exitcode>>
  BY DEF MachineBar, StatusBar, mainVars, procVars
<1> QED
  BY <1>1, <1>3, <1>4 DEF M!Install

LEMMA ExitBar ==
  ASSUME RefInv, Fetch, NEW c \in Codes, Halt(c)
  PROVE  M!Exit(process, c)
<1>1. M!HasTurn(process)
  BY FetchBar
<1>2. process \in Slot /\ vm_processes[process] = "process"
  BY RunningBar DEF Fetch
<1>3. StatusBar' = [StatusBar EXCEPT ![process] = "exited"]
  BY <1>2, VMAssumption DEF StatusBar, Halt, mainVars, RefInv, LifeInv, TypeInv, TypeOK
<1>4. [s \in Slot |-> proc_exitcode[s]]'
        = [[s \in Slot |-> proc_exitcode[s]] EXCEPT ![process] = c]
  BY <1>2, VMAssumption DEF Halt, RefInv, LifeInv, TypeInv, TypeOK
<1>5. UNCHANGED <<MachineBar, RuntimeBar, vm_active_process, exitcode>>
  BY DEF MachineBar, RuntimeBar, Halt, mainVars, platformVars
<1> QED
  BY <1>1, <1>3, <1>4, <1>5 DEF M!Exit

\* Steps the abstract machine does not see.
LEMMA StutterBar ==
  ASSUME UNCHANGED <<phase, vm_processes, exitcode, procVars, platformVars>>
  PROVE  UNCHANGED M!vars
BY DEF procVars, platformVars, M!vars, MachineBar, StatusBar, RuntimeBar

LEMMA BarInit == Init => M!Init
<1> SUFFICES ASSUME Init PROVE M!Init
  OBVIOUS
<1>1. StatusBar \in [Slot -> {"waiting", "gone"}]
  BY DEF Init, StatusBar
<1>2. RuntimeBar = [s \in Slot |-> NullRuntime]
  BY DEF Init, RuntimeBar
<1>3. [s \in Slot |-> proc_exitcode[s]] = [s \in Slot |-> 0]
  BY VMAssumption DEF Init
<1> QED
  BY <1>1, <1>2, <1>3 DEF Init, PlatformInit, MachineBar, M!Init

-----------------------------------------------------------------------------
LEMMA BarStart ==
  ASSUME RefInv, StartProcess \/ StartFails \/ StartAborts \/ StartDone
  PROVE  [M!Next]_M!vars
<1>1. CASE StartProcess
  <2>1. /\ i \in Slot /\ i \in Proc /\ phase = "start" /\ vm_processes[i] = "name"
        /\ vm_active_process = NoProcess /\ proc_exitcode[i] = 0
    BY <1>1, VMAssumption DEF StartProcess, RefInv, LifeInv, TypeInv, TypeOK, StartOrder,
       RunningIsLoaded, StartResult, Slot
  <2>2. StatusBar[i] = "waiting" /\ StatusBar' = [StatusBar EXCEPT ![i] = "ready"]
    BY <1>1, <2>1, VMAssumption DEF StartProcess, NewProcess, StatusBar, RefInv, LifeInv, TypeInv, TypeOK
  <2>3. UNCHANGED RuntimeBar
    BY <1>1, <2>1, VMAssumption, PlatformAssumption
       DEF StartProcess, NewProcess, RuntimeBar, RuntimeFor, RefInv, LifeInv,
           TypeInv, TypeOK, PlatformTypeOK
  <2>4. UNCHANGED [s \in Slot |-> proc_exitcode[s]]
    BY <1>1, <2>1, VMAssumption DEF StartProcess, NewProcess, RefInv, LifeInv, TypeInv, TypeOK
  <2>5. M!Load(i)
    BY <1>1, <2>1, <2>2, <2>3, <2>4 DEF StartProcess, M!Load, MachineBar
  <2> QED
    BY <2>1, <2>5 DEF M!Next
<1>2. CASE StartFails
  BY <1>2, StutterBar DEF StartFails
<1>3. CASE StartAborts
  <2>1. M!GiveUp
    BY <1>3 DEF StartAborts, procVars, platformVars, M!GiveUp, MachineBar, StatusBar, RuntimeBar
  <2> QED
    BY <2>1 DEF M!Next
<1>4. CASE StartDone
  <2>1. exitcode = 0
    BY <1>4 DEF StartDone, RefInv, StartResult
  <2>2. M!Boot
    BY <1>4, <2>1 DEF StartDone, procVars, platformVars, M!Boot, MachineBar, StatusBar, RuntimeBar
  <2> QED
    BY <2>2 DEF M!Next
<1> QED
  BY <1>1, <1>2, <1>3, <1>4

LEMMA BarSchedule ==
  ASSUME RefInv, SkipEmptySlot \/ RejectName \/ BeginSlice \/ AllFinished
  PROVE  [M!Next]_M!vars
<1> USE VMAssumption, PlatformAssumption
<1>0. i \in Slot /\ i \in Proc /\ phase = "sched" /\ vm_active_process = NoProcess
  BY DEF SkipEmptySlot, RejectName, BeginSlice, AllFinished, RefInv, LifeInv, TypeInv,
     TypeOK, RunningIsLoaded
<1>1. CASE SkipEmptySlot
  BY <1>1, StutterBar DEF SkipEmptySlot
<1>2. CASE RejectName
  <2>1. vm_processes[i] = "name"
    BY <1>0, <1>2 DEF RejectName, RefInv, LifeInv, TypeInv, TypeOK, ValidIffLoaded
  <2>2. StatusBar[i] = "waiting" /\ StatusBar' = [StatusBar EXCEPT ![i] = "gone"]
    BY <1>0, <1>2, <2>1 DEF RejectName, ReapSlot, StatusBar, RefInv, LifeInv, TypeInv, TypeOK
  <2>3. UNCHANGED RuntimeBar
    BY <1>0, <1>2, <2>1 DEF RejectName, ReapSlot, RuntimeBar, platformVars, RefInv, LifeInv,
       TypeInv, TypeOK
  <2>4. [s \in Slot |-> proc_exitcode[s]]'
          = [[s \in Slot |-> proc_exitcode[s]] EXCEPT ![i] = -1]
    BY <1>0, <1>2 DEF RejectName, RefInv, LifeInv, TypeInv, TypeOK
  <2>5. ASSUME NEW p \in Slot, p = i PROVE M!Drop(p)
    BY <1>0, <1>2, <2>2, <2>3, <2>4, <2>5 DEF RejectName, ReapSlot, platformVars, M!Drop, MachineBar
  <2> QED
    BY <1>0, <2>5 DEF M!Next
<1>3. CASE BeginSlice
  <2>1. vm_processes[i] = "process" /\ ~halted[i]
    BY <1>0, <1>3 DEF BeginSlice, EnterCycle, RefInv, LifeInv, ValidIffLoaded
  <2>2. StatusBar[i] = "ready" /\ UNCHANGED StatusBar
    BY <1>0, <1>3, <2>1 DEF BeginSlice, StatusBar, procVars
  <2>3. UNCHANGED RuntimeBar
    BY <1>0, <1>3, <2>1 DEF BeginSlice, EnterCycle, change_process, RuntimeBar
  <2>4. M!Turn(i)
    BY <1>0, <1>3, <2>2, <2>3 DEF BeginSlice, EnterCycle, change_process, procVars,
       M!Turn, MachineBar
  <2> QED
    BY <1>0, <2>4 DEF M!Next
<1>4. CASE AllFinished
  <2>1. Cardinality(Occupied) = 0 /\ IsFiniteSet(Occupied)
    BY <1>4, SlotsFinite, FS_Subset DEF AllFinished, RefInv, CountIsOccupied, Occupied
  <2>2. Occupied = {}
    BY <2>1, FS_EmptySet
  <2>3. \A s \in Slot : StatusBar[s] = "gone"
    BY <2>2 DEF Occupied, StatusBar
  <2>4. M!Shutdown
    BY <1>0, <1>4, <2>3 DEF AllFinished, procVars, platformVars, M!Shutdown, MachineBar,
       StatusBar, RuntimeBar
  <2> QED
    BY <2>4 DEF M!Next
<1> QED
  BY <1>1, <1>2, <1>3, <1>4

LEMMA BarEnd ==
  ASSUME RefInv, EndSlice \/ EndSliceHalted
  PROVE  [M!Next]_M!vars
<1> USE VMAssumption, PlatformAssumption
<1>0. phase = "exec"
  BY DEF EndSlice, EndSliceHalted, SliceOver
<1>1. /\ process \in Slot /\ process \in Proc /\ process = i /\ vm_active_process = process
      /\ vm_processes[process] = "process" /\ MachineBar = "running"
      /\ StatusBar[process] = IF halted[process] THEN "exited" ELSE "ready"
      /\ RuntimeBar[process] = syscalls_runtime /\ syscalls_runtime \in Runtime
      /\ platform \in [Proc -> Runtime \cup {Zero}]
  BY <1>0, RunningBar DEF RefInv, LifeInv, TypeInv, TypeOK, PlatformTypeOK
<1>2. syscalls_runtime # Zero
  BY <1>1 DEF Runtime
<1>3. CASE EndSlice
  <2>1. UNCHANGED RuntimeBar
    BY <1>1, <1>2, <1>3 DEF EndSlice, SaveProcess, RuntimeBar, RuntimeFor
  <2>2. UNCHANGED <<StatusBar, [s \in Slot |-> proc_exitcode[s]]>>
    BY <1>3 DEF EndSlice, StatusBar, procVars
  <2>3. M!Yield(process)
    BY <1>1, <1>3, <2>1, <2>2 DEF EndSlice, SaveProcess, M!Yield, M!HasTurn, MachineBar
  <2> QED
    BY <1>1, <2>3 DEF M!Next
<1>4. CASE EndSliceHalted
  <2>1. /\ vm_processes' = [vm_processes EXCEPT ![process] = "empty"]
        /\ vm_active_process' = NoProcess /\ phase' = "sched"
        /\ exitcode' = proc_exitcode[process] /\ halted[process]
        /\ UNCHANGED <<halted, proc_exitcode>>
    BY <1>1, <1>4 DEF EndSliceHalted, ReapSlot
  <2>2. \A s \in Slot : s # process => platform'[s] = platform[s]
    BY <1>1, <1>4 DEF EndSliceHalted, AfterInit
  <2>3. RuntimeBar' = [RuntimeBar EXCEPT ![process] = NullRuntime]
    BY <1>1, <2>1, <2>2 DEF RuntimeBar, RefInv, LifeInv, TypeInv, TypeOK
  <2>4. StatusBar' = [StatusBar EXCEPT ![process] = "gone"]
    BY <1>1, <2>1 DEF StatusBar, RefInv, LifeInv, TypeInv, TypeOK
  <2>5. M!Collect(process)
    BY <1>1, <2>1, <2>3, <2>4 DEF M!Collect, MachineBar
  <2> QED
    BY <1>1, <2>5 DEF M!Next
<1> QED
  BY <1>3, <1>4

LEMMA BarCall ==
  ASSUME RefInv, NEW f \in Calls,
         \/ SystemCall(f) \/ SystemCallThrows(f)
         \/ SystemCallCrashes(f) \/ LibraryExits(f)
  PROVE  [M!Next]_M!vars
<1>0. Fetch
  BY DEF SystemCall, SystemCallThrows, SystemCallCrashes, LibraryExits
<1>1. /\ M!HasTurn(process) /\ process \in Slot /\ RuntimeBar[process] = syscalls_runtime
  BY <1>0, FetchBar, RunningBar DEF Fetch
<1>2. CASE SystemCall(f)
  BY <1>2, StutterBar DEF SystemCall, mainVars
<1>3. CASE SystemCallThrows(f) \/ SystemCallCrashes(f) \/ LibraryExits(f)
  <2>1. UNCHANGED <<StatusBar, RuntimeBar, [s \in Slot |-> proc_exitcode[s]],
                    vm_active_process>>
    BY <1>3 DEF SystemCallThrows, SystemCallCrashes, LibraryExits, procVars, platformVars,
       StatusBar, RuntimeBar
  <2>2. IF syscalls_runtime = NullRuntime
        THEN phase' = "done" /\ exitcode' = -1
        ELSE \/ phase' = "done" /\ exitcode' \in {-1, 1}
             \/ phase' = "crashed" /\ exitcode' = exitcode
    BY <1>3, PlatformAssumption
       DEF SystemCallThrows, SystemCallCrashes, LibraryExits, Dispatch
  <2>3. M!CallFails(process)
    BY <1>1, <2>1, <2>2 DEF M!CallFails, MachineBar
  <2> QED
    BY <1>1, <2>3 DEF M!Next
<1> QED
  BY <1>2, <1>3

LEMMA BarInstall ==
  ASSUME RefInv, NEW r, NEW loads,
         InitPlatform(r, loads) \/ ChangeInnerProcess(r), syscalls_runtime' \in Runtime
  PROVE  [M!Next]_M!vars
<1>1. Fetch /\ UNCHANGED <<mainVars, procVars, process, vm_active_process>>
  BY DEF InitPlatform, ChangeInnerProcess
<1>2. process \in Slot /\ process \in Proc /\ vm_active_process = process
      /\ platform \in [Proc -> Runtime \cup {Zero}]
  BY <1>1, RunningBar, VMAssumption DEF Fetch, RefInv, LifeInv, TypeInv, TypeOK, PlatformTypeOK
<1>3. \A s \in Slot : s # process => platform'[s] = platform[s]
  <2>1. CASE InitPlatform(r, loads)
    BY <1>2, <2>1, VMAssumption DEF InitPlatform, AfterInit
  <2>2. CASE ChangeInnerProcess(r)
    BY <2>2 DEF ChangeInnerProcess
  <2> QED
    BY <2>1, <2>2
<1>4. M!Install(process, syscalls_runtime')
  BY <1>1, <1>3, InstallBar
<1> QED
  BY <1>2, <1>4 DEF M!Next

LEMMA BarStep == RefInv /\ RefInv' /\ [Next]_vars => [M!Next]_M!vars
<1> SUFFICES ASSUME RefInv, RefInv', [Next]_vars PROVE [M!Next]_M!vars
  OBVIOUS
<1>1. CASE StartProcess \/ StartFails \/ StartAborts \/ StartDone
  BY <1>1, BarStart
<1>2. CASE SkipEmptySlot \/ RejectName \/ BeginSlice \/ AllFinished
  BY <1>2, BarSchedule
<1>3. CASE EndSlice \/ EndSliceHalted
  BY <1>3, BarEnd
<1>4. CASE Instruction
  BY <1>4, StutterBar DEF Instruction, mainVars
<1>5. ASSUME NEW code \in Codes, Fetch, Halt(code) PROVE [M!Next]_M!vars
  <2>1. process \in Slot
    BY <1>5, RunningBar DEF Fetch
  <2> QED
    BY <1>5, <2>1, ExitBar DEF M!Next
<1>6. CASE ExitInstruction \/ UnknownInstruction
  BY <1>5, <1>6 DEF ExitInstruction, UnknownInstruction, Codes
<1>7. ASSUME NEW f \in Calls,
             \/ SystemCall(f) \/ SystemCallThrows(f)
             \/ SystemCallCrashes(f) \/ LibraryExits(f)
      PROVE  [M!Next]_M!vars
  BY <1>7, BarCall
<1>8. ASSUME NEW r, NEW loads, InitPlatform(r, loads) \/ ChangeInnerProcess(r)
      PROVE  [M!Next]_M!vars
  <2>1. phase' = "exec"
    BY <1>8 DEF InitPlatform, ChangeInnerProcess, Fetch, mainVars
  <2>2. syscalls_runtime' \in Runtime
    BY <2>1 DEF RefInv, LifeInv, TypeInv, TypeOK, PlatformTypeOK, OwnInv
  <2> QED
    BY <1>8, <2>2, BarInstall
<1>9. CASE UNCHANGED vars
  BY <1>9, StutterBar DEF vars, mainVars
<1> QED
  BY <1>1, <1>2, <1>3, <1>4, <1>6, <1>7, <1>8, <1>9 DEF Next

\* The machine implements the abstract microprocesses: in particular a process
\* never gets, and never calls into, a runtime another process installed.
THEOREM Implements == Spec => ImplementsMicroprocesses
<1>1. RefInv /\ [Next]_vars => RefInv'
  BY RefInvStep
<1>2. Init => RefInv /\ M!Init
  BY RefInvInit, BarInit
<1>3. RefInv /\ RefInv' /\ [Next]_vars => [M!Next]_M!vars
  BY BarStep
<1> QED
  BY <1>1, <1>2, <1>3, PTL DEF Spec, ImplementsMicroprocesses, M!Spec

=============================================================================
