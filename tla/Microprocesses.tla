--------------------------- MODULE Microprocesses ---------------------------
(***************************************************************************)
(* What the virtual machine promises about its microprocesses, without     *)
(* slots, slices or shared globals: programs are loaded, take turns, each  *)
(* with a platform runtime of its own, exit, and are collected; the        *)
(* machine stops when none is left, with the exit code of the last one     *)
(* collected.  C4VM is shown to implement this specification.              *)
(***************************************************************************)
EXTENDS Integers

CONSTANTS
  Procs,     \* the programs that may be started
  Nobody,    \* no process has the turn
  Runtimes,  \* platform runtimes, the null one included
  Null,      \* the null runtime
  Codes      \* exit codes

VARIABLES
  machine,  \* "loading", "running", "down" or "crashed"
  status,   \* per process: "waiting", "ready", "exited" or "gone"
  runtime,  \* per process: its own platform runtime
  code,     \* per process: the code it exited with
  current,  \* the process whose turn it is, or Nobody
  result    \* exit code of the machine

vars == <<machine, status, runtime, code, current, result>>

Init ==
  /\ machine = "loading"
  /\ status \in [Procs -> {"waiting", "gone"}]
  /\ runtime = [p \in Procs |-> Null]
  /\ code = [p \in Procs |-> 0]
  /\ current = Nobody
  /\ result = 0

Load(p) ==
  /\ machine = "loading" /\ status[p] = "waiting"
  /\ status' = [status EXCEPT ![p] = "ready"]
  /\ UNCHANGED <<machine, runtime, code, current, result>>

\* Loading is over; the machine may also be asked not to run anything.
Boot ==
  /\ machine = "loading"
  /\ machine' \in {"running", "down"}
  /\ UNCHANGED <<status, runtime, code, current, result>>

\* Loading is given up: no process ever runs.
GiveUp ==
  /\ machine = "loading"
  /\ machine' = "down" /\ result' = -1
  /\ UNCHANGED <<status, runtime, code, current>>

Turn(p) ==
  /\ machine = "running" /\ current = Nobody /\ status[p] = "ready"
  /\ current' = p
  /\ UNCHANGED <<machine, status, runtime, code, result>>

\* A program that could not be loaded is dropped as if it had exited with -1.
Drop(p) ==
  /\ machine = "running" /\ current = Nobody /\ status[p] = "waiting"
  /\ status' = [status EXCEPT ![p] = "gone"]
  /\ code' = [code EXCEPT ![p] = -1]
  /\ result' = -1
  /\ UNCHANGED <<machine, runtime, current>>

HasTurn(p) == machine = "running" /\ current = p /\ status[p] = "ready"

\* A process changes its own runtime, and no other.
Install(p, r) ==
  /\ HasTurn(p)
  /\ runtime' = [runtime EXCEPT ![p] = r]
  /\ UNCHANGED <<machine, status, code, current, result>>

Exit(p, c) ==
  /\ HasTurn(p)
  /\ status' = [status EXCEPT ![p] = "exited"]
  /\ code' = [code EXCEPT ![p] = c]
  /\ UNCHANGED <<machine, runtime, current, result>>

Yield(p) ==
  /\ HasTurn(p)
  /\ current' = Nobody
  /\ UNCHANGED <<machine, status, runtime, code, result>>

Collect(p) ==
  /\ machine = "running" /\ current = p /\ status[p] = "exited"
  /\ status' = [status EXCEPT ![p] = "gone"]
  /\ runtime' = [runtime EXCEPT ![p] = Null]
  /\ current' = Nobody
  /\ result' = code[p]
  /\ UNCHANGED <<machine, code>>

\* A system call takes the machine down: without a runtime by an exception,
\* with one because the library exits, throws or lacks the entry point.
CallFails(p) ==
  /\ HasTurn(p)
  /\ IF runtime[p] = Null THEN machine' = "down" /\ result' = -1
     ELSE \/ machine' = "down" /\ result' \in {-1, 1}
          \/ machine' = "crashed" /\ result' = result
  /\ UNCHANGED <<status, runtime, code, current>>

Shutdown ==
  /\ machine = "running" /\ current = Nobody
  /\ \A p \in Procs : status[p] = "gone"
  /\ machine' = "down"
  /\ UNCHANGED <<status, runtime, code, current, result>>

Next ==
  \/ Boot \/ GiveUp \/ Shutdown
  \/ \E p \in Procs :
       \/ Load(p) \/ Turn(p) \/ Drop(p) \/ Yield(p) \/ Collect(p) \/ CallFails(p)
       \/ \E r \in Runtimes : Install(p, r)
       \/ \E c \in Codes : Exit(p, c)

Spec == Init /\ [][Next]_vars

\* Every program in the machine is served again and again, no turn lasts for
\* ever, and the machine stops once everything is collected.
Fairness ==
  /\ \A p \in Procs : SF_vars(Turn(p) \/ Drop(p))
  /\ \A p \in Procs : WF_vars(Yield(p) \/ Collect(p))
  /\ WF_vars(Shutdown)

FairSpec == Spec /\ Fairness

=============================================================================
