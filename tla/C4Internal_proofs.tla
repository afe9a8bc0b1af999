--------------------------- MODULE C4Internal_proofs ---------------------------
(***************************************************************************)
(* Proofs about C4Internal for any number of slots, of children and of     *)
(* suspended activations: the activations nest, and a process that runs no *)
(* other keeps the runtime it asked for.                                   *)
(***************************************************************************)
EXTENDS C4Internal, C4VM_proofs, SequenceTheorems

\* A numbering of the processes in which parents come before their children.
Generation == CHOOSE g \in [Proc -> 0 .. Cardinality(Children)] :
                \A c \in Children : g[Parent[c]] < g[c]

LEMMA Generations ==
  /\ Generation \in [Proc -> 0 .. Cardinality(Children)]
  /\ \A c \in Children : Generation[Parent[c]] < Generation[c]
BY InternalAssumption DEF Generation

LEMMA Pushed ==
  ASSUME NEW S, NEW s \in Seq(S), NEW x \in S
  PROVE  /\ Append(s, x) \in Seq(S)
         /\ Len(Append(s, x)) = Len(s) + 1
         /\ \A k \in 1 .. Len(s) : Append(s, x)[k] = s[k]
         /\ Append(s, x)[Len(s) + 1] = x
OBVIOUS

LEMMA Popped ==
  ASSUME NEW S, NEW s \in Seq(S), s # <<>>
  PROVE  /\ Len(s) > 0
         /\ SubSeq(s, 1, Len(s) - 1) \in Seq(S)
         /\ Len(SubSeq(s, 1, Len(s) - 1)) = Len(s) - 1
         /\ \A k \in 1 .. Len(s) - 1 : SubSeq(s, 1, Len(s) - 1)[k] = s[k]
<1>1. Len(s) \in Nat /\ Len(s) > 0
  BY EmptySeq
<1> PICK n \in Nat : n = Len(s) - 1
  BY <1>1
<1>2. /\ SubSeq(s, 1, n) \in Seq(S)
      /\ Len(SubSeq(s, 1, n)) = IF 1 <= n THEN n - 1 + 1 ELSE 0
      /\ \A k \in 1 .. n - 1 + 1 : SubSeq(s, 1, n)[k] = s[1 + k - 1]
  <2>1. \A k \in 1 .. n : s[k] \in S
    BY <1>1
  <2> QED
    BY <2>1, SubSeqProperties, SMT
<1> QED
  BY <1>1, <1>2

LEMMA Updated ==
  ASSUME NEW S, NEW f, f = [x \in S |-> f[x]], NEW x, NEW v
  PROVE  [f EXCEPT ![x] = v] = [y \in S |-> [f EXCEPT ![x] = v][y]]
OBVIOUS

-----------------------------------------------------------------------------
\* The parts of the state that the nesting depends on.
Types ==
  /\ magic \in [Proc -> BOOLEAN] /\ halted \in [Proc -> BOOLEAN]
  /\ platform = [p \in Proc |-> platform[p]]
  /\ own = [p \in Proc |-> own[p]]
  /\ vm_processes = [s \in Slot |-> vm_processes[s]]
  /\ rem_cycle \in Nat
  /\ phase \in {"sched", "exec"} => i \in Slot
  /\ phase = "exec" => process \in Proc
  /\ frames \in Seq(Proc \X Nat)
  /\ phase \in {"start", "sched"} => frames = <<>>

Callee(k) == IF k = Len(frames) THEN process ELSE frames[k + 1][1]

\* The caller of activation k can be resumed and is older than all it runs.
Waits(k) ==
  /\ magic[frames[k][1]] /\ ~halted[frames[k][1]]
  /\ frames[k][2] > 0
  /\ \E given \in {CycleCount} \cup ChildCycles : frames[k][2] < given
  /\ Callee(k) \in Children /\ Parent[Callee(k)] = frames[k][1]
  /\ Generation[frames[k][1]] < Generation[process]

Nesting ==
  phase = "exec" =>
    /\ magic[process] /\ (halted[process] => rem_cycle = 0)
    /\ \E given \in {CycleCount} \cup ChildCycles : rem_cycle <= given
    /\ IF frames = <<>> THEN process = i ELSE frames[1][1] = i
    /\ \A k \in 1 .. Len(frames) : Waits(k)
    /\ \A j, k \in 1 .. Len(frames) :
         j < k => Generation[frames[j][1]] < Generation[frames[k][1]]

NestInv == Types /\ Nesting

LEMMA NestInit == NestedInit => NestInv
BY VMAssumption DEF NestedInit, Init, PlatformInit, NestInv, Types, Nesting

\* A step inside the running activation, which halts no process that waits.
LEMMA NestKept ==
  ASSUME NestInv, phase = "exec", UNCHANGED <<phase, i, process, frames>>,
         rem_cycle' \in Nat, rem_cycle' <= rem_cycle,
         \A p \in Proc : magic[p] => magic'[p],
         \A p \in Proc : magic[p] /\ ~halted[p] /\ p # process => ~halted'[p],
         halted'[process] => rem_cycle' = 0
  PROVE  Nesting'
<1>1. /\ process \in Proc /\ rem_cycle \in Nat /\ Len(frames) \in Nat
      /\ \A k \in 1 .. Len(frames) : frames[k][1] \in Proc /\ frames[k][2] \in Nat
      /\ {CycleCount} \cup ChildCycles \subseteq Nat
  BY VMAssumption, InternalAssumption DEF NestInv, Types
<1>2. \A k \in 1 .. Len(frames) : Callee(k)' = Callee(k)
  BY DEF Callee
<1>3. \A k \in 1 .. Len(frames) : frames[k][1] # process
  BY <1>1, Generations DEF NestInv, Nesting, Waits
<1>4. \A k \in 1 .. Len(frames) : Waits(k)'
  BY <1>1, <1>2, <1>3 DEF NestInv, Nesting, Waits
<1>5. PICK given \in {CycleCount} \cup ChildCycles : rem_cycle <= given
  BY DEF NestInv, Nesting
<1>6. rem_cycle' <= given
  BY <1>1, <1>5
<1> QED
  BY <1>1, <1>4, <1>5, <1>6 DEF NestInv, Nesting

\* What the steps do to the parts of the state that Types names.
LEMMA TypesNested == NestInv /\ [NestedNext]_nestedVars => Types'
<1> SUFFICES ASSUME NestInv, [NestedNext]_nestedVars PROVE Types'
  OBVIOUS
<1> USE VMAssumption, InternalAssumption
<1>0. Types
  BY DEF NestInv
<1>1. CASE MainStep /\ frames = <<>> /\ UNCHANGED <<frames, own>>
  <2>1. CASE StartProcess \/ StartFails \/ StartAborts
    BY <1>0, <1>1, <2>1 DEF StartProcess, NewProcess, StartFails, StartAborts, Types, procVars,
       runVars, platformVars
  <2>2. CASE StartDone \/ AllFinished
    BY <1>0, <1>1, <2>2 DEF StartDone, AllFinished, Types, procVars, runVars, platformVars, Slot
  <2>3. CASE SkipEmptySlot \/ RejectName \/ EndSlice
    BY <1>0, <1>1, <2>3, NextSlotType
       DEF SkipEmptySlot, RejectName, ReapSlot, EndSlice, SliceOver, SaveProcess, Types,
           procVars, runVars, platformVars
  <2>4. CASE BeginSlice
    <3>1. i \in Proc
      BY <1>0, <2>4 DEF BeginSlice, Types
    <3> QED
      BY <1>0, <1>1, <2>4, <3>1
         DEF BeginSlice, EnterCycle, change_process, Types, procVars
  <2>5. CASE EndSliceHalted
    <3>1. platform' = [p \in Proc |-> platform'[p]]
      BY <1>0, <2>5 DEF EndSliceHalted, AfterInit, Types
    <3>2. NextSlot \in Slot
      BY <1>0, <2>5, NextSlotType DEF EndSliceHalted, SliceOver, Types
    <3>3. /\ phase' = "sched" /\ i' \in Slot /\ rem_cycle' = rem_cycle
          /\ magic' = [magic EXCEPT ![process] = FALSE] /\ halted' = halted
          /\ vm_processes' = [vm_processes EXCEPT ![i] = "empty"]
      BY <2>5, <3>2 DEF EndSliceHalted, ReapSlot, runVars
    <3> QED
      BY <1>0, <1>1, <3>1, <3>3 DEF Types
  <2> QED
    BY <1>1, <2>1, <2>2, <2>3, <2>4, <2>5 DEF MainStep
<1>2. CASE PlainInstruction /\ UNCHANGED <<frames, own>>
  <2>1. /\ phase = "exec" /\ rem_cycle' \in Nat /\ phase' \in {"exec", "done", "crashed"}
        /\ UNCHANGED <<magic, i, process, platform, vm_processes>>
        /\ halted' \in [Proc -> BOOLEAN]
    <3>1. CASE Instruction \/ \E f \in Calls : SystemCall(f)
      <4>1. /\ Fetch /\ rem_cycle' = rem_cycle - 1
            /\ UNCHANGED <<mainVars, procVars, process, platformVars>>
        BY <3>1 DEF Instruction, SystemCall
      <4> QED
        BY <1>0, <4>1 DEF Fetch, Types, mainVars, procVars, platformVars
    <3>2. CASE ExitInstruction \/ UnknownInstruction
      <4>1. /\ Fetch /\ rem_cycle' = 0 /\ halted' = [halted EXCEPT ![process] = TRUE]
            /\ UNCHANGED <<mainVars, magic, process, platformVars>>
        BY <3>2 DEF ExitInstruction, UnknownInstruction, Halt
      <4>2. halted' \in [Proc -> BOOLEAN]
        BY <1>0, <4>1 DEF Types
      <4> QED
        BY <4>1, <4>2 DEF Fetch, mainVars, platformVars
    <3>3. CASE \E f \in Calls : SystemCallThrows(f) \/ SystemCallCrashes(f) \/ LibraryExits(f)
      BY <1>0, <3>3 DEF SystemCallThrows, SystemCallCrashes, LibraryExits, Fetch, Types,
         procVars, runVars, platformVars
    <3> QED
      BY <1>2, <3>1, <3>2, <3>3 DEF PlainInstruction
  <2>2. frames' = frames /\ own' = own
    BY <1>2
  <2>3. phase' = "exec" => phase = "exec"
    BY <2>1
  <2> QED
    BY <1>0, <2>1, <2>2, <2>3, Zenon DEF Types
<1>3. CASE /\ InstallingInstruction /\ UNCHANGED frames
           /\ own' = [own EXCEPT ![process] = syscalls_runtime']
  <2>1. platform' = [p \in Proc |-> platform'[p]]
    BY <1>0, <1>3 DEF InstallingInstruction, InitPlatform, ChangeInnerProcess, AfterInit, Types
  <2>2. /\ phase = "exec" /\ rem_cycle' \in Nat
        /\ UNCHANGED <<magic, halted, i, process, vm_processes, phase>>
    BY <1>0, <1>3 DEF InstallingInstruction, InitPlatform, ChangeInnerProcess, Fetch, Types,
       mainVars, procVars
  <2> QED
    BY <1>0, <1>3, <2>1, <2>2 DEF Types
<1>4. CASE ReturnToCaller
  <2>1. /\ phase = "exec" /\ Len(frames) \in 1 .. Len(frames)
        /\ frames' = SubSeq(frames, 1, Len(frames) - 1) /\ frames' \in Seq(Proc \X Nat)
    BY <1>0, <1>4, Popped DEF ReturnToCaller, SliceOver, Resume, Types
  <2>2. process' \in Proc /\ rem_cycle' \in Nat
    BY <1>0, <1>4, <2>1 DEF ReturnToCaller, Resume, Types
  <2> QED
    BY <1>0, <1>4, <2>1, <2>2 DEF ReturnToCaller, SaveProcess, Types, mainVars, procVars
<1>5. ASSUME NEW c \in Children, CreateChild(c) PROVE Types'
  <2>1. /\ platform' = [p \in Proc |-> platform'[p]]
        /\ own' = [p \in Proc |-> own'[p]]
    BY <1>0, <1>5, Updated DEF CreateChild, NewProcess, Types
  <2>2. /\ phase = "exec" /\ rem_cycle' \in Nat
        /\ magic' \in [Proc -> BOOLEAN] /\ halted' \in [Proc -> BOOLEAN]
        /\ UNCHANGED <<phase, i, process, frames, vm_processes>>
    BY <1>0, <1>5 DEF CreateChild, InternalCall, Fetch, NewProcess, Types, mainVars
  <2> QED
    BY <1>0, <2>1, <2>2 DEF Types
<1>6. ASSUME NEW c \in Children, RunExitedChild(c) \/ ChangeToChild(c) PROVE Types'
  BY <1>0, <1>6 DEF RunExitedChild, ChangeToChild, change_process, InternalCall, Fetch, Types,
     mainVars, procVars, platformVars
<1>7. ASSUME NEW c \in Children, NEW m \in ChildCycles, RunChild(c, m) PROVE Types'
  <2>1. frames' \in Seq(Proc \X Nat)
    <3>1. <<process, rem_cycle - 1>> \in Proc \X Nat
      BY <1>0, <1>7 DEF RunChild, InternalCall, Fetch, Types
    <3> QED
      BY <1>0, <1>7, <3>1, Pushed DEF RunChild, Suspend, Types
  <2> QED
    BY <1>0, <1>7, <2>1 DEF RunChild, InternalCall, Fetch, EnterCycle, change_process, Types,
       mainVars, procVars
<1>8. ASSUME NEW c \in Children, NEW v, SetChildPlatform(c, v) PROVE Types'
  <2>1. /\ platform' = [p \in Proc |-> platform'[p]]
        /\ own' = [p \in Proc |-> own'[p]]
    BY <1>0, <1>8, Updated DEF SetChildPlatform, Types
  <2>2. /\ phase = "exec" /\ rem_cycle' \in Nat
        /\ UNCHANGED <<magic, halted, phase, i, process, frames, vm_processes>>
    BY <1>0, <1>8 DEF SetChildPlatform, InternalCall, Fetch, Types, mainVars, procVars
  <2> QED
    BY <1>0, <2>1, <2>2 DEF Types
<1>9. CASE UNCHANGED nestedVars
  BY <1>0, <1>9 DEF nestedVars, vars, mainVars, procVars, runVars, platformVars, Types
<1> QED
  BY <1>1, <1>2, <1>3, <1>4, <1>5, <1>6, <1>7, <1>8, <1>9 DEF NestedNext

LEMMA NestingStep == NestInv /\ [NestedNext]_nestedVars => Nesting'
<1> SUFFICES ASSUME NestInv, [NestedNext]_nestedVars PROVE Nesting'
  OBVIOUS
<1> USE VMAssumption, InternalAssumption
<1>0. /\ Types /\ Nesting /\ Len(frames) \in Nat
      /\ \A k \in 1 .. Len(frames) : frames[k][1] \in Proc /\ frames[k][2] \in Nat
  BY DEF NestInv, Types
<1>a. Fetch => phase = "exec" /\ process \in Proc /\ ~halted[process] /\ rem_cycle - 1 \in Nat
  BY <1>0 DEF Fetch, Types, Nesting
<1>1. CASE MainStep /\ frames = <<>> /\ UNCHANGED <<frames, own>>
  <2>1. CASE BeginSlice
    <3>1. /\ process' = i /\ rem_cycle' = CycleCount /\ i' = i /\ frames' = <<>>
          /\ magic'[i] /\ ~halted'[i] /\ Len(frames') = 0
      BY <1>1, <2>1 DEF BeginSlice, EnterCycle, procVars
    <3> QED
      BY <3>1 DEF Nesting
  <2>2. CASE ~BeginSlice
    <3>1. phase' # "exec"
      BY <1>1, <2>2 DEF MainStep, StartProcess, StartFails, StartAborts, StartDone,
         SkipEmptySlot, RejectName, EndSlice, EndSliceHalted, AllFinished
    <3> QED
      BY <3>1 DEF Nesting
  <2> QED
    BY <2>1, <2>2
<1>2. CASE PlainInstruction /\ UNCHANGED <<frames, own>>
  <2>1. CASE phase' = "exec"
    <3>1. /\ Fetch /\ UNCHANGED <<phase, i, process, frames, magic>>
          /\ rem_cycle' \in {0, rem_cycle - 1}
          /\ \/ halted' = halted
             \/ rem_cycle' = 0 /\ halted' = [halted EXCEPT ![process] = TRUE]
      BY <1>2, <2>1
         DEF PlainInstruction, Instruction, ExitInstruction, UnknownInstruction, Halt,
             SystemCall, SystemCallThrows, SystemCallCrashes, LibraryExits, Fetch, mainVars,
             procVars
    <3>2. rem_cycle' \in Nat /\ rem_cycle' <= rem_cycle
      BY <1>0, <1>a, <3>1 DEF Types
    <3>3. \A p \in Proc : magic[p] /\ ~halted[p] /\ p # process => ~halted'[p]
      BY <1>0, <3>1 DEF Types
    <3>4. halted'[process] => rem_cycle' = 0
      BY <1>a, <3>1
    <3> QED
      BY <1>a, <3>1, <3>2, <3>3, <3>4, NestKept
  <2>2. CASE phase' # "exec"
    BY <2>2 DEF Nesting
  <2> QED
    BY <2>1, <2>2
<1>3. CASE \/ InstallingInstruction /\ UNCHANGED frames
           \/ \E c \in Children : RunExitedChild(c) \/ ChangeToChild(c)
           \/ \E c \in Children, v \in runtimes \cup {NullRuntime} : SetChildPlatform(c, v)
  <2>1. Fetch /\ UNCHANGED <<phase, i, process, frames, magic, halted>>
        /\ rem_cycle' = rem_cycle - 1
    BY <1>3 DEF InstallingInstruction, InitPlatform, ChangeInnerProcess, RunExitedChild,
       ChangeToChild, SetChildPlatform, InternalCall, mainVars, procVars
  <2>2. rem_cycle' \in Nat /\ rem_cycle' <= rem_cycle
    BY <1>0, <1>a, <2>1 DEF Types
  <2> QED
    BY <1>a, <2>1, <2>2, NestKept
<1>4. CASE ReturnToCaller
  <2> PICK m \in Nat : m = Len(frames)
    BY <1>0
  <2>1. /\ phase = "exec" /\ phase' = "exec" /\ i' = i /\ UNCHANGED <<magic, halted>>
        /\ frames # <<>> /\ process' = frames[m][1] /\ rem_cycle' = frames[m][2]
        /\ frames' = SubSeq(frames, 1, m - 1)
    BY <1>4 DEF ReturnToCaller, SliceOver, Resume, mainVars, procVars
  <2>2. /\ m \in 1 .. m /\ Len(frames') = m - 1
        /\ \A k \in 1 .. m - 1 : frames'[k] = frames[k]
    <3>1. frames \in Seq(Proc \X Nat)
      BY <1>0 DEF Types
    <3>2. /\ Len(frames) > 0 /\ Len(SubSeq(frames, 1, Len(frames) - 1)) = Len(frames) - 1
          /\ \A k \in 1 .. Len(frames) - 1 : SubSeq(frames, 1, Len(frames) - 1)[k] = frames[k]
      BY <2>1, <3>1, Popped
    <3> QED
      BY <2>1, <3>2
  <2>3. Waits(m)
    BY <1>0, <2>1, <2>2 DEF Nesting
  <2>4. \A k \in 1 .. Len(frames') : Waits(k)'
    <3> SUFFICES ASSUME NEW k \in 1 .. m - 1 PROVE Waits(k)'
      BY <2>2
    <3>1. Waits(k) /\ frames'[k] = frames[k] /\ k # m /\ k < m
      BY <1>0, <2>1, <2>2 DEF Nesting
    <3>2. Callee(k)' = Callee(k)
      BY <1>0, <2>1, <2>2, <3>1 DEF Callee
    <3>3. Generation[frames[k][1]] < Generation[frames[m][1]]
      <4>1. k \in 1 .. Len(frames) /\ m \in 1 .. Len(frames) /\ k < m
        BY <2>2, <3>1
      <4> QED
        BY <1>0, <2>1, <4>1 DEF Nesting
    <3> QED
      BY <2>1, <3>1, <3>2, <3>3 DEF Waits
  <2>5. IF frames' = <<>> THEN process' = i' ELSE frames'[1][1] = i'
    <3>1. frames[1][1] = i
      BY <1>0, <2>1 DEF Nesting
    <3>2. CASE m = 1
      <4>1. frames' = <<>>
        BY <2>1, <2>2, <3>2, EmptySeq DEF Types
      <4> QED
        BY <2>1, <3>1, <3>2, <4>1
    <3>3. CASE m > 1
      <4>1. frames' # <<>> /\ frames'[1] = frames[1]
        <5>1. Len(frames') # 0 /\ 1 \in 1 .. m - 1
          BY <2>2, <3>3
        <5> QED
          BY <2>2, <5>1, EmptySeq
      <4> QED
        BY <2>1, <2>2, <3>1, <4>1
    <3> QED
      BY <1>0, <2>2, <3>2, <3>3
  <2>6. \A j, k \in 1 .. Len(frames') :
          j < k => Generation[frames'[j][1]] < Generation[frames'[k][1]]
    <3> SUFFICES ASSUME NEW j \in 1 .. m - 1, NEW k \in 1 .. m - 1, j < k
                 PROVE  Generation[frames'[j][1]] < Generation[frames'[k][1]]
      BY <2>2
    <3>1. frames'[j] = frames[j] /\ frames'[k] = frames[k]
      BY <2>2
    <3>2. j \in 1 .. Len(frames) /\ k \in 1 .. Len(frames)
      OBVIOUS
    <3>3. Generation[frames[j][1]] < Generation[frames[k][1]]
      BY <1>0, <2>1, <3>2 DEF Nesting
    <3> QED
      BY <3>1, <3>3
  <2>7. \E given \in {CycleCount} \cup ChildCycles : rem_cycle' <= given
    <3>1. PICK given \in {CycleCount} \cup ChildCycles : frames[m][2] < given
      BY <2>3 DEF Waits
    <3>2. given \in Nat /\ frames[m][2] \in Nat
      BY <1>0, <2>2
    <3> QED
      BY <2>1, <3>1, <3>2
  <2>8. magic'[process'] /\ (halted'[process'] => rem_cycle' = 0)
    BY <2>1, <2>3 DEF Waits
  <2> QED
    BY <2>4, <2>5, <2>6, <2>7, <2>8 DEF Nesting
<1>5. ASSUME NEW c \in Children, CreateChild(c) PROVE Nesting'
  <2>1. /\ Fetch /\ UNCHANGED <<phase, i, process, frames>> /\ rem_cycle' = rem_cycle - 1
        /\ magic' = [magic EXCEPT ![c] = TRUE] /\ halted' = [halted EXCEPT ![c] = FALSE]
    BY <1>5 DEF CreateChild, InternalCall, NewProcess, mainVars
  <2>2. rem_cycle' \in Nat /\ rem_cycle' <= rem_cycle
    BY <1>0, <1>a, <2>1 DEF Types
  <2>3. /\ \A p \in Proc : magic[p] => magic'[p]
        /\ \A p \in Proc : ~halted[p] => ~halted'[p]
    BY <1>0, <2>1 DEF Types
  <2> QED
    BY <1>a, <2>1, <2>2, <2>3, NestKept
<1>6. ASSUME NEW c \in Children, NEW n \in ChildCycles, RunChild(c, n) PROVE Nesting'
  <2> PICK m \in Nat : m = Len(frames)
    BY <1>0
  <2>1. /\ Fetch /\ UNCHANGED <<phase, i, magic, halted>>
        /\ Parent[c] = process /\ magic[c] /\ ~halted[c]
        /\ process' = c /\ rem_cycle' = n
        /\ frames' = Append(frames, <<process, rem_cycle - 1>>)
    BY <1>6 DEF RunChild, InternalCall, EnterCycle, Suspend, mainVars, procVars
  <2>2. <<process, rem_cycle - 1>> \in Proc \X Nat
    BY <1>a, <2>1
  <2>3. /\ Len(frames') = m + 1 /\ frames'[m + 1] = <<process, rem_cycle - 1>>
        /\ \A k \in 1 .. m : frames'[k] = frames[k]
    BY <1>0, <2>1, <2>2, Pushed DEF Types
  <2>4. /\ Generation[process] < Generation[c]
        /\ Generation[process] \in Nat /\ Generation[c] \in Nat
        /\ \A k \in 1 .. m : Generation[frames[k][1]] \in Nat
    BY <1>0, <1>a, <2>1, Generations
  <2>5. \A k \in 1 .. m : Waits(k)'
    <3> SUFFICES ASSUME NEW k \in 1 .. m PROVE Waits(k)'
      OBVIOUS
    <3>1. Waits(k) /\ frames'[k] = frames[k]
      BY <1>0, <1>a, <2>1, <2>3 DEF Nesting
    <3>2. Callee(k)' = Callee(k)
      BY <1>0, <2>3 DEF Callee
    <3>3. Generation[frames[k][1]] < Generation[c]
      BY <2>4, <3>1 DEF Waits
    <3> QED
      BY <2>1, <3>1, <3>2, <3>3 DEF Waits
  <2>6. Waits(m + 1)'
    <3>1. Callee(m + 1)' = c
      BY <2>1, <2>3 DEF Callee
    <3>2. \E given \in {CycleCount} \cup ChildCycles : rem_cycle - 1 < given
      <4>1. PICK given \in {CycleCount} \cup ChildCycles : rem_cycle <= given
        BY <1>0, <1>a, <2>1 DEF Nesting
      <4>2. given \in Nat /\ rem_cycle \in Nat
        BY <1>0 DEF Types
      <4> QED
        BY <4>1, <4>2
    <3>3. rem_cycle - 1 > 0
      BY <1>0, <2>1 DEF Fetch, Types
    <3>4. frames'[m + 1][1] = process /\ frames'[m + 1][2] = rem_cycle - 1
      BY <2>3
    <3>5. magic[process] /\ ~halted[process]
      BY <1>0, <1>a, <2>1 DEF Nesting
    <3> QED
      BY <2>1, <2>4, <3>1, <3>2, <3>3, <3>4, <3>5 DEF Waits
  <2>7. \A k \in 1 .. Len(frames') : Waits(k)'
    <3>1. \A k \in 1 .. m + 1 : k \in 1 .. m \/ k = m + 1
      BY <1>0
    <3> QED
      BY <2>3, <2>5, <2>6, <3>1
  <2>8. frames' # <<>> /\ frames'[1][1] = i'
    <3>1. frames' # <<>>
      BY <1>0, <2>3
    <3>2. CASE frames = <<>>
      <4>1. m = 0 /\ process = i
        BY <1>0, <1>a, <2>1, <3>2 DEF Nesting
      <4> QED
        BY <2>1, <2>3, <3>1, <4>1
    <3>3. CASE frames # <<>>
      <4>1. 1 \in 1 .. m
        BY <1>0, <3>3, Popped DEF Types
      <4> QED
        BY <1>0, <1>a, <2>1, <2>3, <3>1, <3>3, <4>1 DEF Nesting
    <3> QED
      BY <3>2, <3>3
  <2>9. \A j, k \in 1 .. Len(frames') :
          j < k => Generation[frames'[j][1]] < Generation[frames'[k][1]]
    <3> SUFFICES ASSUME NEW j \in 1 .. m + 1, NEW k \in 1 .. m + 1, j < k
                 PROVE  Generation[frames'[j][1]] < Generation[frames'[k][1]]
      BY <2>3
    <3>1. j \in 1 .. m /\ frames'[j] = frames[j]
      BY <1>0, <2>3
    <3>2. CASE k = m + 1
      BY <1>0, <1>a, <2>1, <2>3, <3>1, <3>2 DEF Nesting, Waits
    <3>3. CASE k \in 1 .. m
      BY <1>0, <1>a, <2>1, <2>3, <3>1, <3>3 DEF Nesting
    <3>4. k = m + 1 \/ k \in 1 .. m
      OBVIOUS
    <3> QED
      BY <3>2, <3>3, <3>4, Zenon
  <2> QED
    BY <1>0, <1>a, <2>1, <2>7, <2>8, <2>9 DEF Nesting
<1>7. CASE UNCHANGED nestedVars
  <2>1. UNCHANGED <<phase, i, magic, halted, process, rem_cycle, frames>>
    BY <1>7 DEF nestedVars, vars, mainVars, procVars, runVars
  <2>2. \A k \in 1 .. Len(frames) : Waits(k)' = Waits(k)
    BY <2>1 DEF Waits, Callee
  <2> QED
    BY <1>0, <2>1, <2>2 DEF Nesting
<1> QED
  BY <1>1, <1>2, <1>3, <1>4, <1>5, <1>6, <1>7 DEF NestedNext

\* At any depth of nesting: the outermost activation is that of main's slot, each
\* one runs a child of the one that waits for it, and all that wait are valid,
\* have not exited and have cycles left.  (run_cycle, SYS3_C4_RUN_CYCLE)
THEOREM CallersWaitAlways == NestedSpec => []CallersWait
<1>1. NestInv => CallersWait
  <2> SUFFICES ASSUME NestInv, phase = "exec" PROVE CallersWait
    BY DEF CallersWait
  <2>1. Types /\ Nesting /\ Len(frames) \in Nat /\ <<process, rem_cycle>> \in Proc \X Nat
    BY DEF NestInv, Types
  <2>2. /\ Activation[Len(frames) + 1] = <<process, rem_cycle>>
        /\ \A k \in 1 .. Len(frames) : Activation[k] = frames[k]
    BY <2>1, Pushed DEF Activation, Types
  <2>3. Activation[1][1] = i
    <3>1. CASE frames = <<>>
      <4>1. Len(frames) = 0
        BY <3>1
      <4> QED
        BY <2>1, <2>2, <3>1, <4>1 DEF Nesting
    <3>2. CASE frames # <<>>
      <4>1. 1 \in 1 .. Len(frames)
        BY <2>1, <3>2, Popped DEF Types
      <4> QED
        BY <2>1, <2>2, <3>2, <4>1 DEF Nesting
    <3> QED
      BY <3>1, <3>2
  <2>4. ASSUME NEW k \in 1 .. Len(frames)
        PROVE  Waits(k) /\ Activation[k + 1][1] = Callee(k)
    <3>1. Waits(k)
      BY <2>1 DEF Nesting
    <3>2. CASE k = Len(frames)
      BY <2>1, <2>2, <3>1, <3>2 DEF Callee
    <3>3. CASE k # Len(frames)
      <4>1. k + 1 \in 1 .. Len(frames)
        BY <2>1, <3>3
      <4> QED
        BY <2>1, <2>2, <3>1, <3>3, <4>1 DEF Callee
    <3> QED
      BY <3>2, <3>3
  <2> QED
    BY <2>3, <2>4 DEF CallersWait, Waits
<1>2. NestInv /\ [NestedNext]_nestedVars => NestInv'
  BY TypesNested, NestingStep DEF NestInv
<1> QED
  BY <1>1, <1>2, NestInit, PTL DEF NestedSpec

-----------------------------------------------------------------------------
(***************************************************************************)
(* Proof that a process that runs no other keeps the runtime it asked for, *)
(* for any number of slots and of nested activations.  The argument needs  *)
(* that the active process, to which platform_init also writes, is never   *)
(* another slot's childless process.                                       *)
(***************************************************************************)

HasChild(s) == \E c \in Children : Parent[c] = s /\ magic[c]

Installed ==
  /\ phase = "exec" => syscalls_runtime # Zero
  /\ phase \in {"start", "sched"} => vm_active_process = NoProcess
  /\ phase = "exec" /\ vm_active_process \in Slot
       => vm_active_process = process \/ HasChild(vm_active_process)
  /\ phase = "start" => own = [p \in Proc |-> NullRuntime]

\* What BystandersKeepRuntime says of one slot.
Keeps(s) ==
  own[s] = IF phase = "exec" /\ process = s THEN syscalls_runtime
           ELSE RuntimeFor(platform[s])

RuntimeInv == NestInv /\ Installed /\ BystandersKeepRuntime

LEMMA RuntimeForSet == ASSUME NEW v PROVE RuntimeFor(v) # Zero
BY PlatformAssumption DEF RuntimeFor

\* platform_init leaves a runtime installed, and writes to one process only.
LEMMA InitWrites ==
  ASSUME NEW r, NEW reg, NEW rt, NEW plat, NEW p, NEW loads, rt # Zero
  PROVE  /\ AfterInit(r, reg, rt, plat, p, loads).runtime # Zero
         /\ \A s \in DOMAIN plat : s # p => AfterInit(r, reg, rt, plat, p, loads).platform[s] = plat[s]
<1> DEFINE res == AfterInit(r, reg, rt, plat, p, loads)
<1>1. res.runtime \in {NullRuntime, rt, RuntimeFor(r)}
  BY DEF AfterInit
<1>2. \E v : res.platform \in {plat, [plat EXCEPT ![p] = v]}
  BY DEF AfterInit
<1>3. res.runtime # Zero
  BY <1>1, RuntimeForSet, PlatformAssumption
<1>4. \A s \in DOMAIN plat : s # p => res.platform[s] = plat[s]
  BY <1>2
<1> QED
  BY <1>3, <1>4

LEMMA RuntimeInit == NestedInit => Installed /\ BystandersKeepRuntime
<1> SUFFICES ASSUME NestedInit PROVE Installed /\ BystandersKeepRuntime
  OBVIOUS
<1>1. Installed
  BY DEF NestedInit, Init, PlatformInit, Installed
<1>2. \A s \in Slot : vm_processes[s] # "process"
  BY DEF NestedInit, Init
<1> QED
  BY <1>1, <1>2 DEF BystandersKeepRuntime

-----------------------------------------------------------------------------
\* Main's steps, taken between the outermost activations.
LEMMA MainKeeps ==
  ASSUME RuntimeInv, MainStep, frames = <<>>, UNCHANGED <<frames, own>>
  PROVE  Installed' /\ BystandersKeepRuntime'
<1> USE VMAssumption, InternalAssumption, PlatformAssumption
<1>0. /\ Types /\ Nesting /\ Installed
      /\ \A s \in Slot : vm_processes[s] = "process" /\ ~Stopped /\ ~HasChild(s) => Keeps(s)
  BY DEF RuntimeInv, NestInv, BystandersKeepRuntime, HasChild, Keeps
<1>1. CASE StartProcess
  <2>1. /\ phase = "start" /\ phase' = "start" /\ vm_active_process' = vm_active_process
        /\ vm_processes' = [vm_processes EXCEPT ![i] = "process"]
        /\ platform' = [platform EXCEPT ![i] = Zero]
        /\ magic' = [magic EXCEPT ![i] = TRUE] /\ own' = own
    BY <1>1 DEF StartProcess, NewProcess
  <2>2. Installed'
    BY <1>0, <2>1 DEF Installed
  <2>3. ASSUME NEW s \in Slot, vm_processes'[s] = "process", ~HasChild(s)'
        PROVE  own'[s] = RuntimeFor(platform'[s])
    <3>1. CASE s = i
      BY <1>0, <2>1, <3>1 DEF Types, Installed, RuntimeFor
    <3>2. CASE s # i
      <4>1. vm_processes[s] = "process" /\ platform'[s] = platform[s] /\ ~Stopped
        BY <1>0, <2>1, <2>3, <3>2 DEF Types, Stopped
      <4>2. ~HasChild(s)
        BY <1>0, <2>1, <2>3 DEF HasChild, Types
      <4> QED
        BY <1>0, <2>1, <4>1, <4>2 DEF Keeps
    <3> QED
      BY <3>1, <3>2
  <2> QED
    BY <2>1, <2>2, <2>3 DEF BystandersKeepRuntime, HasChild
<1>2. CASE BeginSlice
  <2>1. /\ phase = "sched" /\ phase' = "exec" /\ i \in Slot /\ i \in Proc
        /\ vm_active_process' = i /\ process' = i /\ syscalls_runtime' = RuntimeFor(platform[i])
        /\ UNCHANGED <<vm_processes, platform, magic, own>>
    BY <1>0, <1>2 DEF BeginSlice, EnterCycle, change_process, procVars, Types
  <2>2. Installed'
    BY <2>1, RuntimeForSet DEF Installed
  <2>3. ASSUME NEW s \in Slot, vm_processes'[s] = "process", ~HasChild(s)'
        PROVE  own'[s] = IF process' = s THEN syscalls_runtime' ELSE RuntimeFor(platform'[s])
    <3>1. vm_processes[s] = "process" /\ ~HasChild(s) /\ ~Stopped
      BY <2>1, <2>3 DEF HasChild, Stopped
    <3>2. own[s] = RuntimeFor(platform[s])
      BY <1>0, <2>1, <3>1 DEF Keeps
    <3> QED
      BY <2>1, <3>2
  <2> QED
    BY <2>1, <2>2, <2>3 DEF BystandersKeepRuntime, HasChild
<1>3. CASE EndSlice \/ EndSliceHalted
  <2>1. phase = "exec" /\ process = i /\ i \in Slot /\ process \in Proc /\ process \notin Children
    BY <1>0, <1>3 DEF EndSlice, EndSliceHalted, SliceOver, Types, Nesting
  <2>2. phase' = "sched" /\ vm_active_process' = NoProcess
    BY <1>3 DEF EndSlice, EndSliceHalted, SaveProcess
  <2>3. /\ \A s \in Proc : s # process => platform'[s] = platform[s]
        /\ \A s \in Slot : s # process => vm_processes'[s] = vm_processes[s]
        /\ \A c \in Children : magic'[c] = magic[c]
        /\ \/ vm_processes'[process] = "empty"
           \/ vm_processes' = vm_processes /\ platform'[process] = syscalls_runtime
    <3>1. CASE EndSlice
      <4>1. /\ platform' = [platform EXCEPT ![process] = syscalls_runtime]
            /\ UNCHANGED <<magic, vm_processes>>
        BY <3>1 DEF EndSlice, SaveProcess, procVars
      <4>2. platform'[process] = syscalls_runtime
        BY <1>0, <2>1, <4>1 DEF Types
      <4> QED
        BY <4>1, <4>2
    <3>2. CASE EndSliceHalted
      <4>1. PICK saved : /\ saved = [platform EXCEPT ![process] = syscalls_runtime]
                         /\ platform' = AfterInit(Zero, runtimes, RuntimeFor(saved[process]),
                                                  saved, process, TRUE).platform
        BY <3>2 DEF EndSliceHalted
      <4>2. \A s \in Proc : s # process => platform'[s] = saved[s] /\ saved[s] = platform[s]
        <5>1. DOMAIN saved = Proc
          BY <1>0, <4>1 DEF Types
        <5>2. \A s \in Proc : s # process => platform'[s] = saved[s]
          <6>1. \E v : platform' \in {saved, [saved EXCEPT ![process] = v]}
            BY <4>1 DEF AfterInit
          <6> QED
            BY <5>1, <6>1
        <5>3. \A s \in Proc : s # process => saved[s] = platform[s]
          BY <1>0, <4>1 DEF Types
        <5> QED
          BY <5>2, <5>3
      <4>3. /\ magic' = [magic EXCEPT ![process] = FALSE]
            /\ vm_processes' = [vm_processes EXCEPT ![i] = "empty"]
        BY <3>2 DEF EndSliceHalted, ReapSlot
      <4>4. \A c \in Children : magic'[c] = magic[c]
        BY <1>0, <2>1, <4>3 DEF Types
      <4> QED
        BY <1>0, <2>1, <4>2, <4>3, <4>4 DEF Types
    <3> QED
      BY <1>3, <3>1, <3>2
  <2>4. ASSUME NEW s \in Slot, vm_processes'[s] = "process", ~HasChild(s)'
        PROVE  own'[s] = RuntimeFor(platform'[s])
    <3>1. vm_processes[s] = "process" /\ ~HasChild(s) /\ ~Stopped
      BY <2>1, <2>3, <2>4 DEF HasChild, Stopped
    <3>2. CASE s = process
      <4>1. own[s] = syscalls_runtime /\ syscalls_runtime # Zero
        BY <1>0, <2>1, <3>1, <3>2 DEF Keeps, Installed
      <4> QED
        BY <2>3, <2>4, <3>2, <4>1 DEF RuntimeFor
    <3>3. CASE s # process
      BY <1>0, <2>3, <3>1, <3>3 DEF Keeps
    <3> QED
      BY <3>2, <3>3
  <2> QED
    BY <2>2, <2>4 DEF BystandersKeepRuntime, HasChild, Installed
<1>4. CASE StartFails \/ SkipEmptySlot \/ RejectName \/ StartDone \/ StartAborts \/ AllFinished
  <2>1. /\ UNCHANGED <<platform, own, magic, vm_active_process, process, syscalls_runtime>>
        /\ phase # "exec" /\ phase' # "exec" /\ ~Stopped
        /\ phase' = "start" => phase = "start"
        /\ \A s : vm_processes'[s] = "process" => vm_processes[s] = "process"
    <3>1. CASE RejectName
      BY <1>0, <3>1 DEF RejectName, ReapSlot, Types, runVars, platformVars, Stopped
    <3>2. CASE ~RejectName
      BY <1>4, <3>2 DEF StartFails, SkipEmptySlot, StartDone, StartAborts, AllFinished, procVars,
         runVars, platformVars, Stopped
    <3> QED
      BY <3>1, <3>2
  <2>2. phase \in {"start", "sched"}
    BY <1>4 DEF StartFails, SkipEmptySlot, RejectName, StartDone, StartAborts, AllFinished
  <2>3. Installed'
    BY <1>0, <2>1, <2>2 DEF Installed
  <2>4. ASSUME NEW s \in Slot, vm_processes'[s] = "process", ~HasChild(s)' PROVE Keeps(s)'
    <3>1. vm_processes[s] = "process" /\ ~HasChild(s)
      BY <2>1, <2>4 DEF HasChild
    <3> QED
      BY <1>0, <2>1, <3>1 DEF Keeps
  <2> QED
    BY <2>3, <2>4 DEF BystandersKeepRuntime, HasChild, Keeps
<1> QED
  BY <1>1, <1>2, <1>3, <1>4 DEF MainStep

\* The steps of the running program, and the return to a caller.
ProgramStep ==
  \/ PlainInstruction /\ UNCHANGED <<frames, own>>
  \/ InstallingInstruction /\ UNCHANGED frames
     /\ own' = [own EXCEPT ![process] = syscalls_runtime']
  \/ ReturnToCaller
  \/ \E c \in Children :
       \/ CreateChild(c) \/ RunExitedChild(c) \/ ChangeToChild(c)
       \/ \E n \in ChildCycles : RunChild(c, n)
       \/ \E v \in runtimes \cup {NullRuntime} : SetChildPlatform(c, v)

LEMMA ProgramKeeps ==
  ASSUME RuntimeInv, ProgramStep, phase = "exec"
  PROVE  Installed' /\ BystandersKeepRuntime'
<1> USE VMAssumption, InternalAssumption, PlatformAssumption
<1>0. /\ Types /\ Nesting /\ Installed /\ process \in Proc /\ ~Stopped
      /\ \A s \in Slot : vm_processes[s] = "process" /\ ~HasChild(s) => Keeps(s)
      /\ \A s \in Slot : s \in Proc /\ s \notin Children
      /\ Len(frames) \in Nat
  <2>1. Types /\ Nesting /\ Installed /\ process \in Proc /\ ~Stopped /\ Len(frames) \in Nat
    BY DEF RuntimeInv, NestInv, Types, Stopped
  <2>2. \A s \in Slot : vm_processes[s] = "process" /\ ~HasChild(s) => Keeps(s)
    BY <2>1 DEF RuntimeInv, BystandersKeepRuntime, HasChild, Keeps
  <2> QED
    BY <2>1, <2>2
<1>1. CASE PlainInstruction /\ UNCHANGED <<frames, own>>
  <2>1. /\ UNCHANGED <<platform, own, magic, vm_active_process, process, syscalls_runtime,
                       vm_processes>>
        /\ phase' = "exec" \/ Stopped'
    BY <1>1
       DEF PlainInstruction, Instruction, ExitInstruction, UnknownInstruction, Halt, SystemCall,
           SystemCallThrows, SystemCallCrashes, LibraryExits, Fetch, mainVars, procVars,
           runVars, platformVars, Stopped
  <2>2. Installed'
    BY <1>0, <2>1 DEF Installed, HasChild, Stopped
  <2>3. ASSUME NEW s \in Slot, ~Stopped', vm_processes'[s] = "process", ~HasChild(s)'
        PROVE  Keeps(s)'
    <3>1. phase' = "exec" /\ vm_processes[s] = "process" /\ ~HasChild(s)
      BY <2>1, <2>3 DEF HasChild
    <3> QED
      BY <1>0, <2>1, <3>1 DEF Keeps
  <2> QED
    BY <2>2, <2>3 DEF BystandersKeepRuntime, HasChild, Keeps
<1>2. CASE /\ InstallingInstruction /\ UNCHANGED frames
           /\ own' = [own EXCEPT ![process] = syscalls_runtime']
  <2>1. /\ phase' = "exec"
        /\ UNCHANGED <<magic, vm_active_process, process, vm_processes>>
    BY <1>2 DEF InstallingInstruction, InitPlatform, ChangeInnerProcess, Fetch, mainVars, procVars
  <2>2. /\ syscalls_runtime' # Zero
        /\ \A s \in Proc : s # vm_active_process => platform'[s] = platform[s]
    <3>1. ASSUME NEW r \in Libs \cup {Zero}, NEW loads \in BOOLEAN, InitPlatform(r, loads)
          PROVE  <2>2!1 /\ <2>2!2
      <4> DEFINE res == AfterInit(r, runtimes, syscalls_runtime, platform,
                                  vm_active_process, loads)
      <4>1. DOMAIN platform = Proc /\ syscalls_runtime # Zero
        BY <1>0 DEF Types, Installed
      <4>2. /\ res.runtime # Zero
            /\ \A s \in Proc : s # vm_active_process => res.platform[s] = platform[s]
        BY <4>1, InitWrites
      <4>3. syscalls_runtime' = res.runtime /\ platform' = res.platform
        BY <3>1 DEF InitPlatform
      <4> QED
        BY <4>2, <4>3
    <3>2. ASSUME NEW v, ChangeInnerProcess(v) PROVE <2>2!1 /\ <2>2!2
      BY <3>2, RuntimeForSet DEF ChangeInnerProcess
    <3> QED
      BY <1>2, <3>1, <3>2 DEF InstallingInstruction
  <2>3. Installed'
    BY <1>0, <2>1, <2>2 DEF Installed, HasChild
  <2>4. ASSUME NEW s \in Slot, vm_processes'[s] = "process", ~HasChild(s)' PROVE Keeps(s)'
    <3>1. vm_processes[s] = "process" /\ ~HasChild(s) /\ s \in Proc
      BY <2>1, <2>4 DEF HasChild
    <3>2. CASE s = process
      BY <1>0, <1>2, <2>1, <3>1, <3>2 DEF Keeps, Types
    <3>3. CASE s # process
      <4>1. platform'[s] = platform[s] /\ own'[s] = own[s]
        BY <1>0, <1>2, <2>2, <3>1, <3>3 DEF Installed
      <4> QED
        BY <1>0, <2>1, <3>1, <3>3, <4>1 DEF Keeps
    <3> QED
      BY <3>2, <3>3
  <2> QED
    BY <2>3, <2>4 DEF BystandersKeepRuntime, HasChild, Keeps
<1>3. CASE ReturnToCaller
  <2> PICK m \in Nat : m = Len(frames)
    BY <1>0
  <2>1. m \in 1 .. m
    <3>1. frames \in Seq(Proc \X Nat) /\ frames # <<>>
      BY <1>0, <1>3 DEF ReturnToCaller, Types
    <3> QED
      BY <3>1, Popped
  <2>2. /\ phase' = "exec" /\ process' = frames[m][1] /\ vm_active_process' = NoProcess
        /\ platform' = [platform EXCEPT ![process] = syscalls_runtime]
        /\ UNCHANGED <<magic, own, vm_processes, syscalls_runtime>>
    BY <1>3 DEF ReturnToCaller, SliceOver, SaveProcess, Resume, mainVars, procVars
  <2>3. process \in Children /\ Parent[process] = process' /\ magic[process]
    BY <1>0, <2>1, <2>2 DEF Nesting, Waits, Callee
  <2>4. Installed'
    BY <1>0, <2>2 DEF Installed
  <2>5. ASSUME NEW s \in Slot, vm_processes'[s] = "process", ~HasChild(s)' PROVE Keeps(s)'
    <3>1. vm_processes[s] = "process" /\ ~HasChild(s)
      BY <2>2, <2>5 DEF HasChild
    <3>2. s # process /\ s # process' /\ platform'[s] = platform[s]
      BY <1>0, <2>2, <2>3, <3>1 DEF HasChild
    <3> QED
      BY <1>0, <2>2, <3>1, <3>2 DEF Keeps
  <2> QED
    BY <2>4, <2>5 DEF BystandersKeepRuntime, HasChild, Keeps
<1>4. ASSUME NEW c \in Children,
             \/ CreateChild(c) \/ RunExitedChild(c) \/ ChangeToChild(c)
             \/ \E n \in ChildCycles : RunChild(c, n)
             \/ \E v \in runtimes \cup {NullRuntime} : SetChildPlatform(c, v)
      PROVE  Installed' /\ BystandersKeepRuntime'
  <2>1. phase' = "exec" /\ vm_processes' = vm_processes /\ Parent[c] = process
    BY <1>4 DEF CreateChild, RunExitedChild, ChangeToChild, RunChild, SetChildPlatform,
       InternalCall, Fetch, mainVars
  <2>2. /\ magic'[c] /\ \A p \in Proc : magic[p] => magic'[p]
        /\ process' = process \/ process' = c
        /\ \A s \in Proc : s # c => platform'[s] = platform[s]
        /\ \A s \in Proc : s # c /\ s # process => own'[s] = own[s]
        /\ vm_active_process' \in {vm_active_process, c}
        /\ syscalls_runtime' # Zero
    <3>1. CASE CreateChild(c)
      BY <1>0, <3>1 DEF CreateChild, NewProcess, Types, Installed
    <3>2. CASE RunExitedChild(c)
      BY <1>0, <3>2 DEF RunExitedChild, Installed, procVars, platformVars
    <3>3. CASE ChangeToChild(c)
      BY <1>0, <3>3, RuntimeForSet DEF ChangeToChild, change_process, procVars
    <3>4. CASE \E n \in ChildCycles : RunChild(c, n)
      BY <1>0, <3>4, RuntimeForSet DEF RunChild, EnterCycle, change_process, procVars
    <3>5. CASE \E v \in runtimes \cup {NullRuntime} : SetChildPlatform(c, v)
      BY <1>0, <3>5 DEF SetChildPlatform, Installed, procVars
    <3> QED
      BY <1>4, <3>1, <3>2, <3>3, <3>4, <3>5
  <2>3. \A s \in Proc : s = process \/ HasChild(s) => HasChild(s)'
    <3> SUFFICES ASSUME NEW s \in Proc, s = process \/ HasChild(s) PROVE HasChild(s)'
      OBVIOUS
    <3>1. CASE s = process
      BY <2>1, <2>2, <3>1 DEF HasChild
    <3>2. CASE HasChild(s)
      <4>1. PICK d \in Children : Parent[d] = s /\ magic[d]
        BY <3>2 DEF HasChild
      <4> QED
        BY <2>2, <4>1 DEF HasChild
    <3> QED
      BY <3>1, <3>2
  <2>4. Installed'
    <3>1. vm_active_process' \in Slot => vm_active_process' = vm_active_process
      BY <1>0, <2>2
    <3> QED
      BY <1>0, <2>1, <2>2, <2>3, <3>1 DEF Installed, HasChild
  <2>5. ASSUME NEW s \in Slot, vm_processes'[s] = "process", ~HasChild(s)' PROVE Keeps(s)'
    <3>1. vm_processes[s] = "process" /\ ~HasChild(s) /\ s # c /\ s # process /\ s # process'
      BY <1>0, <2>1, <2>2, <2>3, <2>5
    <3> QED
      BY <1>0, <2>1, <2>2, <3>1 DEF Keeps
  <2> QED
    BY <2>4, <2>5 DEF BystandersKeepRuntime, HasChild, Keeps
<1> QED
  BY <1>1, <1>2, <1>3, <1>4 DEF ProgramStep

\* However many others run children of their own: a process that has created none
\* has, in its slices and between them, the runtime it asked for.
\* (change_process, run_cycle, platform_init, process_changed)
THEOREM BystandersKeepRuntimeAlways == NestedSpec => []BystandersKeepRuntime
<1>1. NestedInit => RuntimeInv
  BY NestInit, RuntimeInit DEF RuntimeInv
<1>2. RuntimeInv /\ [NestedNext]_nestedVars => RuntimeInv'
  <2> SUFFICES ASSUME RuntimeInv, [NestedNext]_nestedVars PROVE RuntimeInv'
    OBVIOUS
  <2>1. NestInv'
    BY TypesNested, NestingStep DEF RuntimeInv, NestInv
  <2>2. CASE MainStep /\ frames = <<>> /\ UNCHANGED <<frames, own>>
    BY <2>1, <2>2, MainKeeps DEF RuntimeInv
  <2>3. CASE ProgramStep
    <3>1. phase = "exec"
      BY <2>3 DEF ProgramStep, PlainInstruction, Instruction, ExitInstruction,
         UnknownInstruction, SystemCall, SystemCallThrows, SystemCallCrashes, LibraryExits,
         InstallingInstruction, InitPlatform, ChangeInnerProcess, ReturnToCaller, SliceOver,
         CreateChild, RunExitedChild, ChangeToChild, RunChild, SetChildPlatform, InternalCall,
         Fetch
    <3> QED
      BY <2>1, <2>3, <3>1, ProgramKeeps DEF RuntimeInv
  <2>4. CASE UNCHANGED nestedVars
    BY <2>1, <2>4 DEF RuntimeInv, Installed, BystandersKeepRuntime, HasChild, Stopped,
       nestedVars, vars, mainVars, procVars, runVars, platformVars
  <2> QED
    BY <2>2, <2>3, <2>4 DEF NestedNext, ProgramStep
<1> QED
  BY <1>1, <1>2, PTL DEF RuntimeInv, NestedSpec

=============================================================================
