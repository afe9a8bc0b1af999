---------------------------- MODULE ProcessMemory ----------------------------
(***************************************************************************)
(* The memory behind processes (core/c4.c): main reads each source file    *)
(* into a block, create_process allocates the process structure and its    *)
(* four pools, compiles into them, and with -M compiles a second time into *)
(* pools of the exact size; the sources stay on the list code_pages        *)
(* because the symbol tables point into them.  free_process and early_exit *)
(* give everything back.                                                   *)
(*                                                                         *)
(* Every malloc may fail.  A block is named by what it was allocated for,  *)
(* <<kind, process, ...>>; its contents are left out.                      *)
(***************************************************************************)
EXTENDS Naturals, Sequences, Functions

CONSTANTS
  NumProcs,     \* files named on the command line
  MaxIncludes,  \* bound on the files one compilation includes
  Null          \* the null pointer

ASSUME MemoryAssumption == NumProcs \in Nat /\ MaxIncludes \in Nat

Procs == 1 .. NumProcs

VARIABLES
  min_pool, src,  \* -M was given; -s or -X was given
  stage,          \* what main is doing
  n,              \* the process it is doing it for
  heap,           \* the blocks that are allocated
  code_pages,     \* the sources on the list, its head last, or Null
  globals,        \* where sym, e and data point: the pools compiled into
  proc,           \* the fields of the process structures that point to blocks
  loaded,         \* the processes in vm_processes
  includes,       \* files included by this compilation
  failed          \* history: the processes that could not be created

vars == <<min_pool, src, stage, n, heap, code_pages, globals, proc, loaded,
          includes, failed>>

\* The first pools, and those of minimize_pool_usage.
Pools(p) == [sym |-> <<"sym", p>>, e |-> <<"e", p>>, data |-> <<"data", p>>]
OurPools(p) == [sym |-> <<"our_sym", p>>, e |-> <<"our_e", p>>,
                data |-> <<"our_data", p>>]

ASSUME NullAssumption == Null # <<>> /\ \A p \in Procs : Null # Pools(p)
Blocks(pools) == {pools.sym, pools.e, pools.data}

\* Where B_pc may lie: main is looked up by its name alone and may be a function, a
\* variable or an enumerator.
Number == <<"number">>
EntryPoints(pools) == {pools.e, pools.data, Number}

Structure(p) == <<"process", p>>
Stack(p)  == <<"sp", p>>
Source(p) == <<"source", p>>
Include(p, k) == <<"include", p, k>>
Points(p) == <<"codepoints", p>>

\* The order of the mallocs in create_process.
Allocations(p) == <<Structure(p), Pools(p).sym, Pools(p).e, Pools(p).data, Stack(p)>>

\* initial are B_p_sym, B_p_e and B_p_data, meta are B_sym, B_e and B_data.
NewStructure == [initial |-> Null, meta |-> Null, pc |-> Null]

Stages == {"open", "allocate", "image", "compile", "minimize", "reimage",
           "recompile", "setmeta", "run", "done", "aborted", "crashed"}

TypeOK ==
  /\ min_pool \in BOOLEAN /\ src \in BOOLEAN
  /\ stage \in Stages
  /\ n \in 1 .. NumProcs + 1
  /\ (stage \notin {"open", "run", "done", "aborted", "crashed"}) => n \in Procs
  /\ loaded \subseteq Procs /\ failed \subseteq Procs
  /\ loaded \cap failed = {}
  /\ includes \in 0 .. MaxIncludes

Init ==
  /\ min_pool \in BOOLEAN /\ src \in BOOLEAN
  /\ stage = "open" /\ n = 1
  /\ heap = {} /\ code_pages = <<>>
  /\ globals = Null
  /\ proc = [p \in Procs |-> NewStructure]
  /\ loaded = {} /\ includes = 0 /\ failed = {}

options == <<min_pool, src>>
-----------------------------------------------------------------------------
(* main: reading a source *)

ReadSource ==
  /\ stage = "open" /\ n \in Procs
  /\ heap' = heap \cup {Source(n)}
  /\ stage' = "allocate"
  /\ UNCHANGED <<options, n, code_pages, globals, proc, loaded, includes, failed>>

\* The file cannot be opened or read, or does not fit: main returns -1.
ReadSourceFails ==
  /\ stage = "open" /\ n \in Procs
  /\ stage' = "aborted"
  /\ UNCHANGED <<options, n, heap, code_pages, globals, proc, loaded, includes, failed>>

-----------------------------------------------------------------------------
(* create_process *)

\* Mutant: main goes on with the same file.
ReturnZero_Retry ==
  /\ stage' = "open" /\ n' = n
  /\ failed' = failed \cup {n}

\* It returns 0 and main goes on with the next file.
ReturnZero ==
  /\ stage' = "open" /\ n' = n + 1
  /\ failed' = failed \cup {n}

Allocate ==
  /\ stage = "allocate"
  /\ \E k \in 1 .. 5 :
       /\ \A j \in 1 .. 5 : Allocations(n)[j] \in heap <=> j < k
       /\ heap' = heap \cup {Allocations(n)[k]}
       /\ stage' = IF k = 5 THEN "image" ELSE "allocate"
       /\ proc' = IF k = 5 THEN [proc EXCEPT ![n].initial = Pools(n)]  \* process_init
                  ELSE proc
  /\ UNCHANGED <<options, n, code_pages, globals, loaded, includes, failed>>

\* What was allocated before is not freed.
AllocateFails ==
  /\ stage = "allocate"
  /\ ReturnZero
  /\ UNCHANGED <<options, heap, code_pages, globals, proc, loaded, includes>>

\* create_c_image: sym, e and data are set from the process, and -s and -X
\* need a table of code points.
BeginImage ==
  /\ stage \in {"image", "reimage"}
  /\ stage' = IF stage = "image" THEN "compile" ELSE "recompile"
  /\ globals' = proc[n].initial
  /\ heap' = IF src THEN heap \cup {Points(n)} ELSE heap
  /\ includes' = 0
  /\ UNCHANGED <<options, n, code_pages, proc, loaded, failed>>

\* Mutant: the fields keep pointing to the pools that are freed.
RestoreInitial_Forgotten(counter) == proc' = [proc EXCEPT ![n].pc = counter]
RestoreInitial(counter) ==
  proc' = [proc EXCEPT ![n].initial = Pools(n), ![n].pc = counter]

FreedByFailure == Blocks(proc[n].initial) \cup {Structure(n)}

\* create_c_image returned 0: to create_process, or the second time to
\* minimize_pool_usage, which goes back to the first pools and to nothing else;
\* blocks are those allocated until then, counter is what is in B_pc.
ImageFails(blocks, counter) ==
  \/ /\ stage \in {"image", "compile"}
     /\ heap' = blocks \ FreedByFailure
     /\ ReturnZero
     /\ proc' = [proc EXCEPT ![n].pc = counter]
  \/ /\ stage \in {"reimage", "recompile"}
     /\ heap' = blocks \ Blocks(OurPools(n))
     /\ RestoreInitial(counter)
     /\ stage' = "setmeta"
     /\ UNCHANGED <<n, failed>>

NoCodePoints ==
  /\ stage \in {"image", "reimage"} /\ src
  /\ globals' = proc[n].initial
  /\ ImageFails(heap, proc[n].pc)
  /\ UNCHANGED <<options, code_pages, loaded, includes>>

-----------------------------------------------------------------------------
(* parse and partial_parse, as far as they allocate *)

Compiling == stage \in {"compile", "recompile"}
Listed(b) == code_pages # Null /\ b \in Range(code_pages)

\* The list is searched first, through a null pointer if it was lost.
SearchLostList ==
  /\ Compiling /\ code_pages = Null
  /\ stage' = "crashed"
  /\ UNCHANGED <<options, n, heap, code_pages, globals, proc, loaded, includes, failed>>

PushSource ==
  /\ Compiling /\ code_pages # Null /\ ~Listed(Source(n))
  /\ code_pages' = Append(code_pages, Source(n))
  /\ UNCHANGED <<options, stage, n, heap, globals, proc, loaded, includes, failed>>

\* code_pages_push_uniq assigns the failed allocation to code_pages.
PushSourceFails ==
  /\ Compiling /\ code_pages # Null /\ ~Listed(Source(n))
  /\ code_pages' = Null
  /\ ImageFails(heap, proc[n].pc)
  /\ UNCHANGED <<options, globals, loaded, includes>>

\* An include that cannot be read is skipped, and changes nothing here.
NextInclude == Include(n, <<stage, includes + 1>>)
ReadInclude ==
  /\ Compiling /\ Listed(Source(n)) /\ includes < MaxIncludes
  /\ heap' = heap \cup {NextInclude}
  /\ code_pages' = Append(code_pages, NextInclude)
  /\ includes' = includes + 1
  /\ UNCHANGED <<options, stage, n, globals, proc, loaded, failed>>

\* Its page cannot be listed: the text is freed and the compilation fails.
IncludeFails ==
  /\ Compiling /\ Listed(Source(n)) /\ includes < MaxIncludes
  /\ code_pages' = Null
  /\ ImageFails(heap, proc[n].pc)
  /\ UNCHANGED <<options, globals, loaded, includes>>

\* A declaration is wrong.
CompileFails ==
  /\ Compiling /\ Listed(Source(n))
  /\ ImageFails(heap, proc[n].pc)
  /\ UNCHANGED <<options, code_pages, globals, loaded, includes>>

\* main was not declared, or is an enumerator that is 0.  setup_symbols enters its
\* name (105), so that it is found (1098) with Val = 0: the code points are freed, the
\* stack is laid out, B_pc is written and what is returned is that 0.
MainMissing ==
  /\ Compiling /\ Listed(Source(n))
  /\ ImageFails(heap \ {Points(n)}, Null)
  /\ UNCHANGED <<options, code_pages, globals, loaded, includes>>

\* expr and stmt call exit(-1).
SyntaxError ==
  /\ Compiling /\ Listed(Source(n))
  /\ stage' = "aborted"
  /\ UNCHANGED <<options, n, heap, code_pages, globals, proc, loaded, includes, failed>>

\* Mutant: the pools of the second compilation are freed, not the first ones.
OldPools_New == OurPools(n)
OldPools == Pools(n)

\* Mutant: the source is freed with the code points.
Kept_NoSource == heap \ {Points(n), Source(n)}
Kept == heap \ {Points(n)}

Compiled ==
  /\ Compiling /\ Listed(Source(n))
  /\ \E entry \in EntryPoints(proc[n].initial) : proc' = [proc EXCEPT ![n].pc = entry]
  /\ IF stage = "recompile"
     THEN /\ heap' = Kept \ Blocks(OldPools)
          /\ stage' = "setmeta"
     ELSE /\ heap' = Kept
          /\ stage' = IF min_pool THEN "minimize" ELSE "setmeta"
  /\ UNCHANGED <<options, n, code_pages, globals, loaded, includes, failed>>

-----------------------------------------------------------------------------
(* minimize_pool_usage *)

Minimize ==
  /\ stage = "minimize"
  /\ heap' = heap \cup Blocks(OurPools(n))
  /\ proc' = [proc EXCEPT ![n].initial = OurPools(n)]
  /\ stage' = "reimage"
  /\ UNCHANGED <<options, n, code_pages, globals, loaded, includes, failed>>

\* One of its mallocs fails and the earlier ones are freed again.
MinimizeFails ==
  /\ stage = "minimize"
  /\ stage' = "setmeta"
  /\ UNCHANGED <<options, n, heap, code_pages, globals, proc, loaded, includes, failed>>

\* process_setmeta, and the slot in main.
SetMeta ==
  /\ stage = "setmeta"
  /\ proc' = [proc EXCEPT ![n].meta = globals]
  /\ loaded' = loaded \cup {n}
  /\ stage' = "open" /\ n' = n + 1
  /\ UNCHANGED <<options, heap, code_pages, globals, includes, failed>>

-----------------------------------------------------------------------------
(* Running and cleaning up *)

AllStarted ==
  /\ stage = "open" /\ n = NumProcs + 1
  /\ stage' = "run"
  /\ UNCHANGED <<options, n, heap, code_pages, globals, proc, loaded, includes, failed>>

\* Mutant: the stack is not freed.
Owned_NoStack(p) == Blocks(proc[p].initial) \cup {Structure(p)}
Owned(p) == Blocks(proc[p].initial) \cup {Structure(p), Stack(p)}

FreeProcess(p) ==
  /\ stage = "run" /\ ~src /\ p \in loaded
  /\ heap' = heap \ Owned(p)
  /\ loaded' = loaded \ {p}
  /\ UNCHANGED <<options, stage, n, code_pages, globals, proc, includes, failed>>

\* early_exit(EE_NONE), after the last process or, with -s and -X, at once.
EarlyExit ==
  /\ stage = "run" /\ (src \/ loaded = {})
  /\ IF code_pages = Null
     THEN stage' = "crashed" /\ UNCHANGED <<heap, code_pages>>
     ELSE /\ stage' = "done"
          /\ heap' = heap \ Range(code_pages)
          /\ code_pages' = <<>>
  /\ UNCHANGED <<options, n, globals, proc, loaded, includes, failed>>

Next ==
  \/ ReadSource \/ ReadSourceFails \/ Allocate \/ AllocateFails
  \/ BeginImage \/ NoCodePoints
  \/ SearchLostList \/ PushSource \/ PushSourceFails
  \/ ReadInclude \/ IncludeFails \/ CompileFails \/ MainMissing \/ SyntaxError
  \/ Compiled
  \/ Minimize \/ MinimizeFails \/ SetMeta
  \/ AllStarted \/ (\E p \in Procs : FreeProcess(p)) \/ EarlyExit

Spec == Init /\ [][Next]_vars

-----------------------------------------------------------------------------
(* Properties *)

\* Every loaded process owns its structure, its stack and the three pools that
\* free_process will free, all of them live, and its program counter lies in the
\* pools it owns, whichever compilation it comes from.  One exception: if main was
\* missing from the second compilation only (an include was found once), the process
\* goes back to its first pools (1208-1210) with the 0 that was written to B_pc
\* (1136), and its first instruction is read through it (845).
ProcessesIntact ==
  \A p \in loaded :
    /\ Blocks(proc[p].initial) \cup {Structure(p), Stack(p)} \subseteq heap
    /\ \/ proc[p].pc \in EntryPoints(proc[p].initial)
       \/ proc[p].pc = Null /\ min_pool /\ proc[p].initial = Pools(p)

\* The symbol table of a process points into its source: the text lives as long
\* as the process does, on the list, and what is on the list is there once and
\* is live, so that code_pages_free frees it once.  (616-655)
SourcesLive ==
  /\ stage # "done" => \A p \in loaded : Source(p) \in heap
  /\ code_pages # Null =>
       /\ Range(code_pages) \subseteq heap
       /\ IsInjective(code_pages)

\* When main returns after running, all memory is back but what create_process
\* left behind where it failed: its stack, which the failure of a compilation
\* does not free although "this code is duplicated by free_process()" (1251),
\* and what had been allocated before a malloc that failed.  (1233-1320)
LeftBehind(p) ==
  IF proc[p].initial # Null THEN {Stack(p)}
  ELSE {Source(p), Structure(p)} \cup Blocks(Pools(p))
OnlyFailuresLeak ==
  stage = "done" /\ ~src => heap \subseteq UNION {LeftBehind(p) : p \in failed}

=============================================================================
