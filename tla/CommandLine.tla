----------------------------- MODULE CommandLine -----------------------------
(***************************************************************************)
(* main's argument loop (core/c4.c, 1396-1495): it walks argv with the two *)
(* variables argc and argv, sets the machine's options and enters file     *)
(* names into vm_processes; what is left of argc and argv becomes the      *)
(* arguments of every process.                                             *)
(*                                                                         *)
(* A word is a model value or a string that stands for itself; what is     *)
(* kept of its text is whether it begins with '-', which option it is, and *)
(* the numbers my_atoi makes of it and, behind a plus, of the rest of it.  *)
(***************************************************************************)
EXTENDS Integers, Sequences, FiniteSets, SequencesExt

CONSTANTS
  Words,       \* what may be typed: options, files, numbers
  Value,       \* Value[w] is my_atoi of w, which a '-' or a letter makes what it does
  Plus,        \* the words that begin with '+'
  Added,       \* Added[w] is my_atoi of what follows the '+' of w
  MaxProcs,    \* vm_proc_max
  PoolSize,    \* the default poolsz
  Lines        \* the command lines typed, a set of sequences of Words

Flags == {"-s", "-X", "-d", "-v", "-M"}
WithOperand == {"-c", "-p", "-r"}
Options == Flags \cup WithOperand \cup {"-L", "--", "-h", "-?"}
Lisp4 == "lisp4.c"
Null == "null"            \* argv[argc], the null pointer
Beyond == "environ"       \* what lies behind it

ASSUME CommandLineAssumption ==
  /\ Value \in [Words -> Int]
  /\ Plus \subseteq Words /\ Added \in [Plus -> Int]
  /\ {Null, Beyond} \cap Words = {}
  /\ MaxProcs \in Nat /\ PoolSize \in Nat
  /\ Lines \subseteq Seq(Words)

VARIABLES
  args,               \* the command line, without the program's name
  native,             \* compiled natively, or run by C4 itself (__C4__)
  argv, argc,         \* main's variables: an index into args, and a count
  phase,              \* "args", "checks", "start", "returned" or "undefined"
  early_param_exit,
  vm_processes,       \* the file names entered so far
  src,                \* 0, 1 (-s) or 2 (-X)
  set,                \* debug, verbose, min_pool: the flags that are 1
  vm_cycle_count, poolsz,
  exitcode

vars == <<args, native, argv, argc, phase, early_param_exit, vm_processes,
          src, set, vm_cycle_count, poolsz, exitcode>>

TypeOK ==
  /\ native \in BOOLEAN
  /\ argv \in 1 .. Len(args) + 3
  /\ argc \in -2 .. Len(args)
  /\ phase \in {"args", "checks", "start", "returned", "undefined"}
  /\ early_param_exit \in BOOLEAN
  /\ vm_processes \in BoundedSeq(Words \cup {Lisp4, Null}, MaxProcs)
  /\ src \in 0 .. 2 /\ set \subseteq Flags
  /\ vm_cycle_count \in Int /\ poolsz \in Nat
  /\ exitcode \in {-1, 0, 1}

Init ==
  /\ args \in Lines
  /\ native \in BOOLEAN
  /\ argv = 1 /\ argc = Len(args)
  /\ phase = "args" /\ early_param_exit = FALSE
  /\ vm_processes = <<>>
  /\ src = 0 /\ set = {}
  /\ vm_cycle_count = 1000 /\ poolsz = PoolSize
  /\ exitcode = 0

-----------------------------------------------------------------------------
WordAt(k) ==
  IF k <= Len(args) THEN args[k] ELSE IF k = Len(args) + 1 THEN Null ELSE Beyond

More == argc > 0 /\ WordAt(argv) \in Options /\ ~early_param_exit
Option(w) == phase = "args" /\ More /\ args[argv] = w

\* Mutant: ++argv without --argc.
Advance_Uncounted(n) == argv' = argv + n /\ argc' = argc - 1

\* Mutant: one ++argv too many.
Advance_Over(n) == argv' = argv + n + 1 /\ argc' = argc - n

\* n times --argc; ++argv.
Advance(n) == argv' = argv + n /\ argc' = argc - n

Undefined ==
  /\ phase' = "undefined"
  /\ UNCHANGED <<args, native, argv, argc, early_param_exit, vm_processes,
                 src, set, vm_cycle_count, poolsz, exitcode>>

ShowSource ==
  /\ \/ Option("-s") /\ src' = 1
     \/ Option("-X") /\ src' = 2
  /\ Advance(1)
  /\ UNCHANGED <<args, native, phase, early_param_exit, vm_processes, set,
                 vm_cycle_count, poolsz, exitcode>>

SetFlag(w) ==
  /\ Option(w)
  /\ set' = set \cup {w}
  /\ Advance(1)
  /\ UNCHANGED <<args, native, phase, early_param_exit, vm_processes, src,
                 vm_cycle_count, poolsz, exitcode>>

\* my_atoi and *tmp read through the null pointer that ends argv.
OperandMissing ==
  /\ \E w \in {"-c", "-p"} : Option(w)
  /\ WordAt(argv + 1) = Null
  /\ Undefined

SetCycleCount ==
  /\ Option("-c") /\ WordAt(argv + 1) # Null
  /\ vm_cycle_count' = Value[args[argv + 1]]
  /\ Advance(2)
  /\ UNCHANGED <<args, native, phase, early_param_exit, vm_processes, src, set,
                 poolsz, exitcode>>

\* Mutant: a smaller pool is taken.
Larger_Any(n, m) == n
\* A size below the current one is skipped with a warning.
Larger(n, m) == IF n < m THEN m ELSE n

SetPoolSize ==
  /\ Option("-p") /\ WordAt(argv + 1) # Null
  /\ LET w == args[argv + 1]
     IN  poolsz' = Larger(IF w \in Plus THEN poolsz + Added[w] ELSE Value[w], poolsz)
  /\ Advance(2)
  /\ UNCHANGED <<args, native, phase, early_param_exit, vm_processes, src, set,
                 vm_cycle_count, exitcode>>

\* -r enters the next word, whatever it is, and advances twice before the
\* loop's own advance.  Slots are not counted against vm_proc_max.
AddProcess ==
  /\ Option("-r") /\ Len(vm_processes) < MaxProcs
  /\ vm_processes' = Append(vm_processes, WordAt(argv + 1))
  /\ Advance(3)
  /\ UNCHANGED <<args, native, phase, early_param_exit, src, set,
                 vm_cycle_count, poolsz, exitcode>>
AddProcessOverflows ==
  /\ Option("-r") \/ (~native /\ Option("-L"))
  /\ Len(vm_processes) = MaxProcs
  /\ Undefined

\* -L is empty in a native build; under C4 it starts lisp4.c with -L itself as
\* the first of its arguments.
IgnoreLisp ==
  /\ native /\ Option("-L")
  /\ Advance(1)
  /\ UNCHANGED <<args, native, phase, early_param_exit, vm_processes, src, set,
                 vm_cycle_count, poolsz, exitcode>>
AddLisp ==
  /\ ~native /\ Option("-L") /\ Len(vm_processes) < MaxProcs
  /\ vm_processes' = Append(vm_processes, Lisp4)
  /\ early_param_exit' = TRUE
  /\ UNCHANGED <<args, native, argv, argc, phase, src, set,
                 vm_cycle_count, poolsz, exitcode>>

\* --
EndOptions ==
  /\ Option("--")
  /\ early_param_exit' = TRUE
  /\ Advance(1)
  /\ UNCHANGED <<args, native, phase, vm_processes, src, set,
                 vm_cycle_count, poolsz, exitcode>>

Return(code) ==
  /\ phase' = "returned" /\ exitcode' = code
  /\ UNCHANGED <<args, native, argv, argc, early_param_exit, vm_processes,
                 src, set, vm_cycle_count, poolsz>>

Help == Option("-h") /\ Return(1)
InvalidOption == Option("-?") /\ Return(-1)

LoopEnds ==
  /\ phase = "args" /\ ~More
  /\ phase' = "checks"
  /\ UNCHANGED <<args, native, argv, argc, early_param_exit, vm_processes,
                 src, set, vm_cycle_count, poolsz, exitcode>>

NothingToRun == phase = "checks" /\ vm_processes = <<>> /\ argc < 1 /\ Return(-1)

\* Mutant: the word after -- is run as the main file.
NamesMainFile_Always == argc > 0
NamesMainFile == ~early_param_exit /\ argc > 0

\* The word that ended the loop is the main file, unless -- or -L ended it.
AddMainFile ==
  /\ phase = "checks" /\ (vm_processes # <<>> \/ argc >= 1)
  /\ IF ~NamesMainFile THEN UNCHANGED vm_processes /\ phase' = "start"
     ELSE IF Len(vm_processes) = MaxProcs
     THEN UNCHANGED vm_processes /\ phase' = "undefined"
     ELSE vm_processes' = Append(vm_processes, WordAt(argv)) /\ phase' = "start"
  /\ UNCHANGED <<args, native, argv, argc, early_param_exit, src, set,
                 vm_cycle_count, poolsz, exitcode>>

Next ==
  \/ ShowSource \/ (\E w \in {"-d", "-v", "-M"} : SetFlag(w))
  \/ OperandMissing \/ SetCycleCount \/ SetPoolSize
  \/ AddProcess \/ AddProcessOverflows \/ IgnoreLisp \/ AddLisp
  \/ EndOptions \/ Help \/ InvalidOption
  \/ LoopEnds \/ NothingToRun \/ AddMainFile

Spec == Init /\ [][Next]_vars

-----------------------------------------------------------------------------
(***************************************************************************)
(* Reference: how the code reads a line, without a position that moves.  A *)
(* word is an operand if the option before it takes one; behind the        *)
(* operand of -r one more word is lost (1438, 1487); the options end at a  *)
(* first other word, behind --, and under C4 at -L.  Where this departs    *)
(* from the usage text, UsageFile below says.                              *)
(***************************************************************************)
Place[k \in 1 .. Len(args) + 3] ==
  CASE k > 1 /\ Place[k - 1] = "word" /\ WordAt(k - 1) \in WithOperand -> "operand"
    [] k > 2 /\ Place[k - 1] = "operand" /\ WordAt(k - 2) = "-r" -> "lost"
    [] OTHER -> "word"

IsOption(k) == Place[k] = "word" /\ WordAt(k) \in Options
EndedBefore(k) == k > 1 /\ IsOption(k - 1) /\ args[k - 1] = "--"
StartsLisp(k) == ~native /\ IsOption(k) /\ args[k] = "-L"

\* Where the options end: behind --, at -L, at a first file, or behind the last
\* word.
OptionsEndAt(k) ==
  (Place[k] = "word" /\ ~IsOption(k)) \/ EndedBefore(k) \/ StartsLisp(k)
End == CHOOSE k \in 1 .. Len(args) + 3 :
         OptionsEndAt(k) /\ \A j \in 1 .. k - 1 : ~OptionsEndAt(j)

EndedByLisp == StartsLisp(End) /\ ~EndedBefore(End)
EndedByFile == End <= Len(args) /\ ~StartsLisp(End) /\ ~EndedBefore(End)

Given(w) == {k \in 1 .. End - 1 : IsOption(k) /\ WordAt(k) = w}
Rank(k, S) == Cardinality({j \in S : j <= k})

\* The files named: one by each -r, and the main file or lisp4.c.
FilesGiven == Cardinality(Given("-r")) + (IF EndedByFile \/ EndedByLisp THEN 1 ELSE 0)
LastFile == IF EndedByLisp THEN Lisp4 ELSE args[End]

\* The pool once the first k words are read: each -p may only enlarge it.
Pool[k \in 0 .. Len(args) + 3] ==
  IF k = 0 THEN PoolSize
  ELSE IF ~(IsOption(k) /\ WordAt(k) = "-p") THEN Pool[k - 1]
  ELSE LET w == args[k + 1]
           n == IF w \in Plus THEN Pool[k - 1] + Added[w] ELSE Value[w]
       IN  IF n > Pool[k - 1] THEN n ELSE Pool[k - 1]

\* The usage text (1457-1475): each option takes one word or none, the first
\* word that is neither option nor operand is the file to run.
Usage[k \in 1 .. Len(args) + 2] ==
  IF k > 1 /\ Usage[k - 1] = "word" /\ WordAt(k - 1) \in WithOperand THEN "operand"
  ELSE "word"
UsageFile(k) ==
  /\ k <= Len(args) /\ Usage[k] = "word" /\ args[k] \notin Options
  /\ \A j \in 1 .. k - 1 : Usage[j] = "word" => args[j] \in Options \ {"--", "-L"}

(* Properties *)

\* What is started, and the arguments it gets, for every line: the files of -r
\* in their order, then the main file - or lisp4.c where -L ends the options -
\* and as arguments the word that ended the options and all that follows it.  No
\* option or operand is taken for a file and no file for an operand, but the word
\* behind the operand of each -r is neither run nor given to anyone, and the
\* operand of a last -r is the null pointer.  main leaves what C defines only when
\* the line names more files than there are slots (1437) or ends in an option that
\* lacks its operand.
StartsAsRead ==
  /\ phase = "start" =>
       /\ argv = End /\ argc = Len(args) + 1 - End
       /\ Len(vm_processes) = FilesGiven
       /\ \A k \in Given("-r") : vm_processes[Rank(k, Given("-r"))] = WordAt(k + 1)
       /\ EndedByFile \/ EndedByLisp => vm_processes[FilesGiven] = LastFile
  /\ phase = "undefined" =>
       FilesGiven > MaxProcs \/ WordAt(Len(args)) \in {"-c", "-p"}

\* Each option given before the file, and no other word, has had its effect, a
\* repeated -s, -X or -c the last one's, and -p the largest pool asked for, a
\* plus counted from the pool so far.  (1398-1433)
OptionsAsGiven ==
  phase = "start" =>
    /\ set = {w \in {"-d", "-v", "-M"} : Given(w) # {}}
    /\ LET ss == Given("-s") \cup Given("-X") IN
        /\ src = 0 <=> ss = {}
        /\ \A k \in ss : (\A j \in ss : j <= k) => src = IF args[k] = "-s" THEN 1 ELSE 2
    /\ Given("-c") = {} => vm_cycle_count = 1000
    /\ \A k \in Given("-c") :
         (\A j \in Given("-c") : j <= k) => vm_cycle_count = Value[args[k + 1]]
    /\ poolsz = Pool[End - 1]

\* main gives a program the words behind its own file only, and as many as it
\* says: argc never counts words that argv does not have.  (create_process)
ArgumentsExist ==
  phase = "start" /\ argc > 0 =>
    /\ argv + argc = Len(args) + 1
    /\ NamesMainFile => vm_processes[Len(vm_processes)] = args[argv]

\* The file that the usage text's reading of the line names is run last, with
\* itself and the words behind it as arguments: "usage: %s [-L] [-s] [-d] [-v]
\* [-c nn] [-r file] [-p [+]nn] file args..." (1457-1475).  After -r main drops
\* the word behind the operand (1438, 1487).
RunsUsageFile ==
  phase = "start" =>
    \A k \in 1 .. Len(args) :
      UsageFile(k) => /\ argv = k
                      /\ vm_processes # <<>> /\ vm_processes[Len(vm_processes)] = args[k]

=============================================================================
