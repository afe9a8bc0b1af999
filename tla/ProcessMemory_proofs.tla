------------------------ MODULE ProcessMemory_proofs ------------------------
(***************************************************************************)
(* Proofs about ProcessMemory for any number of files and of includes: the *)
(* types, and that every loaded process owns live memory, whichever of the *)
(* allocations and compilations before and after it failed.                *)
(***************************************************************************)
EXTENDS ProcessMemory, TLAPS, SequenceTheorems

\* Blocks of different processes, and of different kinds, are different.
OwnBlocks(p) == Blocks(Pools(p)) \cup Blocks(OurPools(p))
                  \cup {Structure(p), Stack(p), Points(p)}
Texts == {Source(p) : p \in Procs}
           \cup {Include(p, <<s, k>>) : p \in Procs, s \in Stages, k \in Nat}

LEMMA OwnDistinct ==
  ASSUME NEW p \in Procs, NEW q \in Procs, p # q
  PROVE  OwnBlocks(p) \cap OwnBlocks(q) = {}
BY DEF OwnBlocks, Blocks, Pools, OurPools, Structure, Stack, Points

LEMMA PoolsDistinct ==
  ASSUME NEW p \in Procs
  PROVE  /\ Blocks(Pools(p)) \cap Blocks(OurPools(p)) = {}
         /\ {Structure(p), Stack(p)} \cap (Blocks(Pools(p)) \cup Blocks(OurPools(p))) = {}
         /\ Points(p) \notin Blocks(Pools(p)) \cup Blocks(OurPools(p)) \cup {Structure(p), Stack(p)}
BY DEF Blocks, Pools, OurPools, Structure, Stack, Points

LEMMA TextsDistinct ==
  ASSUME NEW p \in Procs, NEW b \in Texts
  PROVE  b \notin OwnBlocks(p)
<1>1. b[1] \in {"source", "include"}
  BY DEF Texts, Source, Include
<1>2. \A c \in OwnBlocks(p) : c[1] \notin {"source", "include"}
  BY DEF OwnBlocks, Blocks, Pools, OurPools, Structure, Stack, Points
<1> QED
  BY <1>1, <1>2

LEMMA RangeOfAppend ==
  ASSUME NEW S, NEW s \in Seq(S), NEW x \in S
  PROVE  Range(Append(s, x)) = Range(s) \cup {x}
<1>1. /\ Append(s, x) \in Seq(S)
      /\ Len(Append(s, x)) = Len(s) + 1
      /\ \A k \in 1 .. Len(s) : Append(s, x)[k] = s[k]
      /\ Append(s, x)[Len(s) + 1] = x
  OBVIOUS
<1>2. DOMAIN s = 1 .. Len(s) /\ DOMAIN Append(s, x) = 1 .. Len(s) + 1 /\ Len(s) \in Nat
  BY <1>1
<1> QED
  BY <1>1, <1>2 DEF Range

-----------------------------------------------------------------------------
\* The inductive invariant.

PoolSets(p) == {Pools(p), OurPools(p)}
AnyPools == {Null} \cup UNION {PoolSets(p) : p \in Procs}
AnyCode ==
  {Null} \cup UNION {EntryPoints(Pools(p)) \cup EntryPoints(OurPools(p)) : p \in Procs}

Types ==
  /\ TypeOK
  /\ n \in Nat
  /\ proc \in [Procs -> [initial : AnyPools, meta : AnyPools, pc : AnyCode]]
  /\ globals \in AnyPools
  /\ code_pages = Null \/ code_pages \in Seq(Texts)

\* p's structure, stack and current pools are live and hold its entry point, which
\* a second compilation that found no main has made 0.
Intact(p) ==
  /\ proc[p].initial \in PoolSets(p)
  /\ Blocks(proc[p].initial) \cup {Structure(p), Stack(p)} \subseteq heap
  /\ \/ proc[p].pc \in EntryPoints(proc[p].initial)
     \/ proc[p].pc = Null /\ min_pool /\ proc[p].initial = Pools(p)

LoadedIntact == \A p \in loaded : p < n /\ Intact(p)

\* The process that is being created, by stage; the failed ones are behind it.
FirstPools ==
  stage \in {"image", "compile", "minimize"} =>
    /\ proc[n].initial = Pools(n)
    /\ Blocks(Pools(n)) \cup {Structure(n), Stack(n)} \subseteq heap
    /\ stage = "minimize" => proc[n].pc \in EntryPoints(Pools(n)) /\ min_pool

BothPools ==
  stage \in {"reimage", "recompile"} =>
    /\ proc[n].initial = OurPools(n)
    /\ Blocks(Pools(n)) \cup Blocks(OurPools(n)) \cup {Structure(n), Stack(n)} \subseteq heap
    /\ proc[n].pc \in EntryPoints(Pools(n)) /\ min_pool

FinalPools == stage = "setmeta" => Intact(n)

FailedBehind == \A p \in failed : p < n

MemInv == Types /\ LoadedIntact /\ FirstPools /\ BothPools /\ FinalPools /\ FailedBehind

-----------------------------------------------------------------------------
(* The types. *)

LEMMA TypesInit == Init => Types
BY MemoryAssumption
   DEF Init, Types, TypeOK, NewStructure, AnyPools, AnyCode, Procs, Stages

\* A compilation that fails keeps the types.
LEMMA ImageFailsTypes ==
  ASSUME Types, NEW blocks, NEW counter \in AnyCode, ImageFails(blocks, counter),
         stage \notin {"setmeta"},
         UNCHANGED <<options, loaded, includes>>,
         globals' \in AnyPools, code_pages' = Null \/ code_pages' = code_pages,
         n \in Procs, n \notin loaded
  PROVE  Types'
<1>1. CASE /\ stage \in {"image", "compile"} /\ ReturnZero
           /\ proc' = [proc EXCEPT ![n].pc = counter]
  <2>1. proc' \in [Procs -> [initial : AnyPools, meta : AnyPools, pc : AnyCode]]
    BY <1>1 DEF Types
  <2> QED
    BY <1>1, <2>1, MemoryAssumption DEF ReturnZero, Types, TypeOK, Procs, Stages, options
<1>2. CASE /\ RestoreInitial(counter) /\ stage' = "setmeta" /\ UNCHANGED <<n, failed>>
  <2>1. Pools(n) \in AnyPools
    BY DEF AnyPools, PoolSets
  <2>2. proc' \in [Procs -> [initial : AnyPools, meta : AnyPools, pc : AnyCode]]
    BY <1>2, <2>1 DEF RestoreInitial, Types
  <2> QED
    BY <1>2, <2>2 DEF Types, TypeOK, Stages, options
<1> QED
  BY <1>1, <1>2 DEF ImageFails

LEMMA TypesStep == MemInv /\ [Next]_vars => Types'
<1> SUFFICES ASSUME MemInv, [Next]_vars PROVE Types'
  OBVIOUS
<1> USE MemoryAssumption
<1>0. Types /\ n \notin loaded
  BY DEF MemInv, LoadedIntact, Types
<1>1. n \in Procs => /\ proc[n].initial \in AnyPools
                     /\ proc[n] \in [initial : AnyPools, meta : AnyPools, pc : AnyCode]
  BY <1>0 DEF Types
<1>2. CASE ReadSource \/ ReadSourceFails
  BY <1>2, <1>0 DEF ReadSource, ReadSourceFails, Types, TypeOK, Stages, options
<1>3. CASE Allocate
  <2>1. n \in Procs /\ Pools(n) \in AnyPools
    BY <1>3, <1>0 DEF Allocate, Types, TypeOK, AnyPools, PoolSets
  <2>2. proc' \in [Procs -> [initial : AnyPools, meta : AnyPools, pc : AnyCode]]
    BY <1>3, <2>1, <1>0 DEF Allocate, Types
  <2> QED
    BY <1>3, <2>1, <2>2, <1>0 DEF Allocate, Types, TypeOK, Stages, options
<1>4. CASE AllocateFails
  BY <1>4, <1>0 DEF AllocateFails, ReturnZero, Types, TypeOK, Stages, Procs, options
<1>5. CASE BeginImage
  BY <1>5, <1>0, <1>1 DEF BeginImage, Types, TypeOK, Stages, options
<1>6. CASE NoCodePoints
  <2>1. n \in Procs /\ proc[n].pc \in AnyCode
    BY <1>6, <1>0, <1>1 DEF NoCodePoints, Types, TypeOK
  <2> QED
    BY <1>6, <1>0, <1>1, <2>1, ImageFailsTypes DEF NoCodePoints, Types, TypeOK
<1>7. CASE SearchLostList
  BY <1>7, <1>0 DEF SearchLostList, Types, TypeOK, Stages, options
<1>8. CASE PushSource
  BY <1>8, <1>0 DEF PushSource, Compiling, Types, TypeOK, Texts, options
<1>9. CASE PushSourceFails \/ IncludeFails \/ CompileFails \/ MainMissing
  <2>1. n \in Procs /\ globals' \in AnyPools
    BY <1>9, <1>0 DEF PushSourceFails, IncludeFails, CompileFails, MainMissing, Compiling,
                      Types, TypeOK
  <2>2. proc[n].pc \in AnyCode /\ Null \in AnyCode
    BY <1>1, <2>1 DEF AnyCode
  <2>3. \E blocks : \E counter \in AnyCode : ImageFails(blocks, counter)
    BY <1>9, <2>2 DEF PushSourceFails, IncludeFails, CompileFails, MainMissing
  <2>4. PICK blocks, counter : counter \in AnyCode /\ ImageFails(blocks, counter)
    BY <2>3
  <2> QED
    BY <1>9, <2>1, <2>4, <1>0, ImageFailsTypes
       DEF PushSourceFails, IncludeFails, CompileFails, MainMissing, Compiling
<1>10. CASE ReadInclude
  <2>1. n \in Procs /\ stage \in Stages /\ includes + 1 \in Nat
    BY <1>10, <1>0 DEF ReadInclude, Compiling, Types, TypeOK
  <2>2. NextInclude \in Texts
    BY <2>1 DEF NextInclude, Texts
  <2>3. code_pages' \in Seq(Texts)
    BY <1>10, <1>0, <2>2 DEF ReadInclude, Listed, Types
  <2> QED
    BY <1>10, <1>0, <2>3 DEF ReadInclude, Types, TypeOK, options
<1>11. CASE SyntaxError
  BY <1>11, <1>0 DEF SyntaxError, Types, TypeOK, Stages, options
<1>12. CASE Compiled
  <2>1. n \in Procs
    BY <1>12, <1>0 DEF Compiled, Compiling, Types, TypeOK
  <2>2. proc[n].initial \in PoolSets(n)
    BY <1>12 DEF MemInv, FirstPools, BothPools, Compiled, Compiling, PoolSets
  <2>3. EntryPoints(proc[n].initial) \subseteq AnyCode
    BY <2>1, <2>2 DEF PoolSets, AnyCode
  <2>4. proc' \in [Procs -> [initial : AnyPools, meta : AnyPools, pc : AnyCode]]
    BY <1>12, <2>3, <1>0 DEF Compiled, Types
  <2> QED
    BY <1>12, <2>1, <2>4, <1>0 DEF Compiled, Types, TypeOK, Stages, options
<1>13. CASE Minimize
  <2>1. n \in Procs /\ OurPools(n) \in AnyPools
    BY <1>13, <1>0 DEF Minimize, Types, TypeOK, AnyPools, PoolSets
  <2>2. proc' \in [Procs -> [initial : AnyPools, meta : AnyPools, pc : AnyCode]]
    BY <1>13, <2>1, <1>0 DEF Minimize, Types
  <2> QED
    BY <1>13, <2>1, <2>2, <1>0 DEF Minimize, Types, TypeOK, Stages, options
<1>14. CASE MinimizeFails
  BY <1>14, <1>0 DEF MinimizeFails, Types, TypeOK, Stages, options
<1>15. CASE SetMeta
  <2>1. n \in Procs
    BY <1>15, <1>0 DEF SetMeta, Types, TypeOK
  <2>2. proc' \in [Procs -> [initial : AnyPools, meta : AnyPools, pc : AnyCode]]
    BY <1>15, <2>1, <1>0 DEF SetMeta, Types
  <2>3. n \notin failed
    BY DEF MemInv, FailedBehind, Types
  <2> QED
    BY <1>15, <2>1, <2>2, <2>3, <1>0 DEF SetMeta, Types, TypeOK, Stages, Procs, options
<1>16. CASE AllStarted
  BY <1>16, <1>0 DEF AllStarted, Types, TypeOK, Stages, options
<1>17. CASE \E p \in Procs : FreeProcess(p)
  BY <1>17, <1>0 DEF FreeProcess, Types, TypeOK, Stages, options
<1>18. CASE EarlyExit
  <2>1. code_pages' = Null \/ code_pages' \in Seq(Texts)
    <3>1. <<>> \in Seq(Texts)
      OBVIOUS
    <3>2. code_pages' = code_pages \/ code_pages' = <<>>
      BY <1>18 DEF EarlyExit
    <3> QED
      BY <3>1, <3>2, <1>0 DEF Types
  <2>2. TypeOK'
    BY <1>18, <1>0 DEF EarlyExit, Types, TypeOK, Stages, options
  <2> QED
    BY <1>18, <2>1, <2>2, <1>0 DEF EarlyExit, Types
<1>19. CASE UNCHANGED vars
  BY <1>19, <1>0 DEF vars, Types, TypeOK
<1> QED
  BY <1>2, <1>3, <1>4, <1>5, <1>6, <1>7, <1>8, <1>9, <1>10, <1>11, <1>12, <1>13,
     <1>14, <1>15, <1>16, <1>17, <1>18, <1>19 DEF Next

-----------------------------------------------------------------------------
(* The memory of the loaded processes. *)

\* A process keeps what it owns when no block of its own is freed.
LEMMA IntactKept ==
  ASSUME NEW p \in Procs, Intact(p), proc'[p] = proc[p], min_pool' = min_pool,
         (heap \ heap') \cap OwnBlocks(p) = {}
  PROVE  Intact(p)'
<1>1. Blocks(proc[p].initial) \cup {Structure(p), Stack(p)} \subseteq OwnBlocks(p)
  BY DEF Intact, PoolSets, OwnBlocks
<1>2. Blocks(proc[p].initial) \cup {Structure(p), Stack(p)} \subseteq heap'
  BY <1>1 DEF Intact
<1> QED
  BY <1>2 DEF Intact, PoolSets, Blocks, Structure, Stack, Pools, OurPools, EntryPoints, Number

\* A step that frees only blocks of the process being created, or of one that
\* leaves, keeps the others intact.
LEMMA LoadedKept ==
  ASSUME MemInv, NEW q \in Procs, loaded' \subseteq loaded \ {q},
         n' \in Nat, n <= n', heap \ heap' \subseteq OwnBlocks(q),
         min_pool' = min_pool, \A p \in Procs \ {q} : proc'[p] = proc[p]
  PROVE  LoadedIntact'
<1> SUFFICES ASSUME NEW p \in loaded' PROVE p < n' /\ Intact(p)'
  BY DEF LoadedIntact
<1>1. p \in Procs /\ p # q /\ p < n /\ Intact(p) /\ n \in Nat
  BY DEF MemInv, Types, TypeOK, LoadedIntact
<1>2. (heap \ heap') \cap OwnBlocks(p) = {}
  BY <1>1, OwnDistinct
<1>3. Intact(p)'
  BY <1>1, <1>2, IntactKept
<1> QED
  BY <1>1, <1>3 DEF Procs

\* A compilation that fails leaves either no process, or one with its first pools.
LEMMA ImageFailsMem ==
  ASSUME MemInv, n \in Procs, NEW blocks \in {heap, heap \ {Points(n)}},
         NEW counter \in {proc[n].pc, Null}, ImageFails(blocks, counter),
         UNCHANGED <<options, loaded>>,
         stage \in {"image", "compile", "reimage", "recompile"}
  PROVE  LoadedIntact' /\ FirstPools' /\ BothPools' /\ FinalPools' /\ FailedBehind'
<1>0. Types /\ n \notin loaded /\ n \in Nat
  BY DEF MemInv, LoadedIntact, Types
<1>1. CASE /\ stage \in {"image", "compile"}
           /\ heap' = blocks \ FreedByFailure
           /\ ReturnZero /\ proc' = [proc EXCEPT ![n].pc = counter]
  <2>1. FreedByFailure \subseteq OwnBlocks(n)
    BY <1>1 DEF FreedByFailure, MemInv, FirstPools, OwnBlocks
  <2>2. heap \ heap' \subseteq OwnBlocks(n)
    BY <1>1, <2>1 DEF OwnBlocks
  <2>3. LoadedIntact'
    BY <1>0, <1>1, <2>2, LoadedKept DEF ReturnZero, Types, options
  <2>4. FailedBehind'
    BY <1>0, <1>1 DEF ReturnZero, MemInv, FailedBehind, Types, TypeOK, Procs
  <2> QED
    BY <1>1, <2>3, <2>4 DEF ReturnZero, FirstPools, BothPools, FinalPools
<1>2. CASE /\ stage \in {"reimage", "recompile"}
           /\ heap' = blocks \ Blocks(OurPools(n))
           /\ RestoreInitial(counter) /\ stage' = "setmeta" /\ UNCHANGED <<n, failed>>
  <2>1. heap \ heap' \subseteq OwnBlocks(n)
    BY <1>2 DEF OwnBlocks
  <2>2. /\ proc'[n].initial = Pools(n) /\ proc'[n].pc = counter
        /\ \A p \in Procs \ {n} : proc'[p] = proc[p]
    BY <1>2, <1>0 DEF RestoreInitial, Types
  <2>3. LoadedIntact'
    BY <1>0, <1>2, <2>1, <2>2, LoadedKept DEF options
  <2>4. Blocks(Pools(n)) \cup {Structure(n), Stack(n)} \subseteq heap'
    BY <1>2, PoolsDistinct DEF MemInv, BothPools
  <2>5. counter \in EntryPoints(Pools(n)) \/ (counter = Null /\ min_pool')
    BY <1>2 DEF MemInv, BothPools, options
  <2>6. Intact(n)'
    BY <1>2, <2>2, <2>4, <2>5
       DEF Intact, PoolSets, Blocks, Pools, OurPools, Structure, Stack, EntryPoints, Number
  <2> QED
    BY <1>2, <2>3, <2>6 DEF MemInv, FailedBehind, FirstPools, BothPools, FinalPools
<1> QED
  BY <1>1, <1>2 DEF ImageFails

LEMMA MemInit == Init => MemInv
BY TypesInit DEF Init, MemInv, LoadedIntact, FirstPools, BothPools, FinalPools, FailedBehind

\* A step that frees nothing and leaves every process structure alone.
LEMMA Quiet ==
  ASSUME MemInv, heap \subseteq heap', UNCHANGED <<n, proc, loaded, failed, min_pool>>
  PROVE  LoadedIntact' /\ FailedBehind'
BY DEF MemInv, LoadedIntact, Intact, FailedBehind, PoolSets, Blocks, Pools, OurPools,
       Structure, Stack, EntryPoints, Number

LEMMA MemStep == MemInv /\ [Next]_vars => MemInv'
<1> SUFFICES ASSUME MemInv, [Next]_vars PROVE MemInv'
  OBVIOUS
<1>a. Types'
  BY TypesStep
<1>b. Types /\ n \in Nat /\ n \notin loaded
  BY DEF MemInv, Types, LoadedIntact
<1>c. min_pool' = min_pool
  BY DEF Next, ReadSource, ReadSourceFails, Allocate, AllocateFails, BeginImage, NoCodePoints,
         SearchLostList, PushSource, PushSourceFails, ReadInclude, IncludeFails, CompileFails,
         MainMissing, SyntaxError, Compiled, Minimize, MinimizeFails, SetMeta, AllStarted,
         FreeProcess, EarlyExit, options, vars
<1> DEFINE Goal == LoadedIntact /\ FirstPools /\ BothPools /\ FinalPools /\ FailedBehind
<1> SUFFICES Goal'
  BY <1>a DEF MemInv
<1>1. CASE ReadSource \/ ReadSourceFails \/ SyntaxError \/ SearchLostList \/ AllStarted
  <2>1. LoadedIntact' /\ FailedBehind'
    BY <1>1, <1>c, Quiet DEF ReadSource, ReadSourceFails, SyntaxError, SearchLostList, AllStarted
  <2> QED
    BY <1>1, <2>1 DEF ReadSource, ReadSourceFails, SyntaxError, SearchLostList,
                      AllStarted, FirstPools, BothPools, FinalPools
<1>2. CASE Allocate
  <2>0. n \in Procs
    BY <1>2, <1>b DEF Allocate, Types, TypeOK
  <2>1. PICK k \in 1 .. 5 :
          /\ \A j \in 1 .. 5 : Allocations(n)[j] \in heap <=> j < k
          /\ heap' = heap \cup {Allocations(n)[k]}
          /\ stage' = IF k = 5 THEN "image" ELSE "allocate"
          /\ proc' = IF k = 5 THEN [proc EXCEPT ![n].initial = Pools(n)] ELSE proc
    BY <1>2 DEF Allocate
  <2>2. \A p \in Procs \ {n} : proc'[p] = proc[p]
    BY <2>1, <1>b DEF Types
  <2>3. LoadedIntact'
    BY <1>2, <1>b, <2>0, <2>1, <2>2, <1>c, LoadedKept DEF Allocate
  <2>4. k = 5 => {Allocations(n)[1], Allocations(n)[2], Allocations(n)[3],
                  Allocations(n)[4], Allocations(n)[5]} \subseteq heap'
    BY <2>1
  <2>5. k = 5 => Blocks(Pools(n)) \cup {Structure(n), Stack(n)} \subseteq heap'
    BY <2>4 DEF Allocations, Blocks
  <2>6. k = 5 => proc'[n].initial = Pools(n)
    BY <2>0, <2>1, <1>b DEF Types
  <2>7. FirstPools'
    BY <1>2, <2>1, <2>5, <2>6 DEF Allocate, FirstPools, Blocks, Pools, Structure, Stack, EntryPoints, Number
  <2> QED
    BY <1>2, <2>1, <2>3, <2>7 DEF Allocate, BothPools, FinalPools, MemInv, FailedBehind
<1>3. CASE AllocateFails
  <2>1. n \in Procs /\ n \in Nat
    BY <1>3, <1>b DEF AllocateFails, Types, TypeOK
  <2>2. LoadedIntact'
    BY <1>3, <1>b, <2>1, <1>c, LoadedKept DEF AllocateFails, ReturnZero
  <2>3. FailedBehind'
    BY <1>3, <2>1 DEF AllocateFails, ReturnZero, MemInv, FailedBehind, Types, TypeOK, Procs
  <2> QED
    BY <1>3, <2>2, <2>3 DEF AllocateFails, ReturnZero, FirstPools, BothPools, FinalPools
<1>4. CASE BeginImage
  <2>1. LoadedIntact' /\ FailedBehind'
    BY <1>4, <1>c, Quiet DEF BeginImage
  <2> QED
    BY <1>4, <1>c, <2>1 DEF BeginImage, MemInv, FirstPools, BothPools, FinalPools,
                      Blocks, Pools, OurPools, Structure, Stack, EntryPoints, Number
<1>5. CASE NoCodePoints \/ PushSourceFails \/ IncludeFails \/ CompileFails \/ MainMissing
  <2>1. n \in Procs /\ UNCHANGED <<options, loaded>>
        /\ stage \in {"image", "compile", "reimage", "recompile"}
    BY <1>5, <1>b DEF NoCodePoints, PushSourceFails, IncludeFails, CompileFails,
                      MainMissing, Compiling, Types, TypeOK
  <2>2. PICK blocks \in {heap, heap \ {Points(n)}}, counter \in {proc[n].pc, Null} :
          ImageFails(blocks, counter)
    BY <1>5 DEF NoCodePoints, PushSourceFails, IncludeFails, CompileFails, MainMissing
  <2> QED
    BY <2>1, <2>2, ImageFailsMem
<1>6. CASE PushSource \/ ReadInclude
  <2>1. LoadedIntact' /\ FailedBehind'
    BY <1>6, <1>c, Quiet DEF PushSource, ReadInclude
  <2> QED
    BY <1>6, <1>c, <2>1 DEF PushSource, ReadInclude, Compiling, MemInv, FirstPools, BothPools,
                      FinalPools, Blocks, Pools, OurPools, Structure, Stack, EntryPoints, Number
<1>7. CASE Compiled
  <2>0. n \in Procs
    BY <1>7, <1>b DEF Compiled, Compiling, Types, TypeOK
  <2>1. /\ proc'[n].initial = proc[n].initial /\ proc'[n].pc \in EntryPoints(proc[n].initial)
        /\ \A p \in Procs \ {n} : proc'[p] = proc[p]
    BY <1>7, <2>0, <1>b DEF Compiled, Types
  <2>2. heap \ heap' \subseteq OwnBlocks(n)
    BY <1>7 DEF Compiled, Kept, OldPools, OwnBlocks
  <2>3. LoadedIntact'
    BY <1>7, <1>b, <2>0, <2>1, <2>2, <1>c, LoadedKept DEF Compiled
  <2>4. proc[n].initial \in PoolSets(n)
        /\ Blocks(proc[n].initial) \cup {Structure(n), Stack(n)} \subseteq heap
    BY <1>7 DEF Compiled, Compiling, MemInv, FirstPools, BothPools, PoolSets
  <2>5. Blocks(proc[n].initial) \cup {Structure(n), Stack(n)} \subseteq heap'
    <3>1. CASE stage = "recompile"
      <4>1. proc[n].initial = OurPools(n)
        BY <3>1 DEF MemInv, BothPools
      <4> QED
        BY <1>7, <3>1, <4>1, <2>0, <2>4, PoolsDistinct DEF Compiled, Kept, OldPools
    <3>2. CASE stage = "compile"
      <4>1. proc[n].initial = Pools(n)
        BY <3>2 DEF MemInv, FirstPools
      <4> QED
        BY <1>7, <3>2, <4>1, <2>0, <2>4, PoolsDistinct DEF Compiled, Kept
    <3> QED
      BY <1>7, <3>1, <3>2 DEF Compiled, Compiling
  <2>6. Intact(n)'
    BY <1>7, <2>1, <2>4, <2>5
       DEF Compiled, Intact, PoolSets, Blocks, Pools, OurPools, Structure, Stack, EntryPoints, Number
  <2>7. FirstPools'
    BY <1>7, <1>c, <2>1, <2>5
       DEF Compiled, Compiling, MemInv, FirstPools, Blocks, Pools, Structure, Stack, EntryPoints, Number
  <2>8. stage' \in {"minimize", "setmeta"}
    BY <1>7 DEF Compiled
  <2> QED
    BY <1>7, <2>3, <2>6, <2>7, <2>8 DEF Compiled, BothPools, FinalPools, MemInv, FailedBehind
<1>8. CASE Minimize
  <2>0. n \in Procs
    BY <1>8, <1>b DEF Minimize, Types, TypeOK
  <2>1. /\ proc'[n].initial = OurPools(n) /\ proc'[n].pc = proc[n].pc
        /\ \A p \in Procs \ {n} : proc'[p] = proc[p]
    BY <1>8, <2>0, <1>b DEF Minimize, Types
  <2>2. LoadedIntact'
    BY <1>8, <1>b, <2>0, <2>1, <1>c, LoadedKept DEF Minimize
  <2>3. BothPools'
    BY <1>8, <1>c, <2>1 DEF Minimize, MemInv, FirstPools, BothPools, Blocks, Pools, OurPools,
                      Structure, Stack, EntryPoints, Number
  <2> QED
    BY <1>8, <2>2, <2>3 DEF Minimize, FirstPools, FinalPools, MemInv, FailedBehind
<1>9. CASE MinimizeFails
  <2>1. LoadedIntact' /\ FailedBehind'
    BY <1>9, <1>c, Quiet DEF MinimizeFails
  <2>2. Intact(n)'
    BY <1>9, <1>c DEF MinimizeFails, MemInv, FirstPools, Intact, PoolSets, Blocks, Pools,
                OurPools, Structure, Stack, EntryPoints, Number
  <2> QED
    BY <1>9, <2>1, <2>2 DEF MinimizeFails, FirstPools, BothPools, FinalPools
<1>10. CASE SetMeta
  <2>0. n \in Procs
    BY <1>10, <1>b DEF SetMeta, Types, TypeOK
  <2>1. /\ \A p \in Procs : proc'[p].initial = proc[p].initial /\ proc'[p].pc = proc[p].pc
        /\ loaded \cup {n} \subseteq Procs
    BY <1>10, <2>0, <1>b DEF SetMeta, Types, TypeOK
  <2>2. \A p \in loaded \cup {n} : p < n' /\ Intact(p)
    <3>1. n' = n + 1 /\ Intact(n) /\ \A p \in loaded : p < n /\ Intact(p)
      BY <1>10 DEF SetMeta, MemInv, LoadedIntact, FinalPools
    <3>2. \A p \in loaded \cup {n} : p \in Nat
      BY <2>1, <1>b, MemoryAssumption DEF Procs
    <3> HIDE DEF Goal
    <3> QED
      BY <3>1, <3>2, <1>b
  <2>3. LoadedIntact'
    <3>1. ASSUME NEW p \in Procs, Intact(p) PROVE Intact(p)'
      BY <1>10, <1>c, <2>1, <3>1 DEF SetMeta, Intact, PoolSets, Blocks, Pools, OurPools,
                                     Structure, Stack, EntryPoints, Number
    <3>2. loaded' = loaded \cup {n}
      BY <1>10 DEF SetMeta
    <3> QED
      BY <2>1, <2>2, <3>1, <3>2 DEF LoadedIntact
  <2> QED
    BY <1>10, <1>b, <2>0, <2>3
       DEF SetMeta, FirstPools, BothPools, FinalPools, MemInv, FailedBehind, Types, TypeOK, Procs
<1>11. CASE \E p \in Procs : FreeProcess(p)
  <2>1. PICK p \in Procs : FreeProcess(p)
    BY <1>11
  <2>2. heap \ heap' \subseteq OwnBlocks(p)
    BY <2>1 DEF FreeProcess, Owned, OwnBlocks, MemInv, LoadedIntact, Intact, PoolSets
  <2>3. LoadedIntact'
    BY <2>1, <2>2, <1>b, <1>c, LoadedKept DEF FreeProcess
  <2> QED
    BY <2>1, <2>3 DEF FreeProcess, FirstPools, BothPools, FinalPools, MemInv, FailedBehind
<1>12. CASE EarlyExit
  <2>1. \A b \in heap \ heap' : b \in Texts
    <3>1. heap \ heap' \subseteq IF code_pages = Null THEN {} ELSE Range(code_pages)
      BY <1>12 DEF EarlyExit
    <3>2. code_pages \in Seq(Texts) => Range(code_pages) \subseteq Texts
      <4>1. code_pages \in Seq(Texts) => \A k \in DOMAIN code_pages : code_pages[k] \in Texts
        BY ElementOfSeq
      <4> QED
        BY <4>1 DEF Range
    <3> QED
      BY <3>1, <3>2, <1>b DEF Types
  <2>2. \A p \in loaded : Intact(p)'
    BY <1>12, <2>1, <1>b, <1>c, TextsDistinct, IntactKept
       DEF EarlyExit, MemInv, LoadedIntact, Types, TypeOK
  <2>3. LoadedIntact'
    BY <1>12, <2>2 DEF EarlyExit, MemInv, LoadedIntact
  <2> QED
    BY <1>12, <2>3 DEF EarlyExit, FirstPools, BothPools, FinalPools, MemInv, FailedBehind
<1>13. CASE UNCHANGED vars
  BY <1>13 DEF vars, MemInv, LoadedIntact, FirstPools, BothPools, FinalPools, FailedBehind,
               Intact, PoolSets, Blocks, Pools, OurPools, Structure, Stack, EntryPoints, Number
<1> QED
  BY <1>1, <1>2, <1>3, <1>4, <1>5, <1>6, <1>7, <1>8, <1>9, <1>10, <1>11, <1>12, <1>13
     DEF Next

\* Every state reached is well typed, for any number of files and of includes.
THEOREM MemoryTypeCorrect == Spec => []TypeOK
<1>1. MemInv => TypeOK
  BY DEF MemInv, Types
<1> QED
  BY <1>1, MemInit, MemStep, PTL DEF Spec

\* A loaded process owns its structure, its stack and its pools, live, and its
\* program counter lies in the pools it owns, whichever malloc failed before and
\* whether or not it was compiled a second time - or it was, found no main then, and
\* went back to its first pools with a program counter of 0.  (create_process,
\* minimize_pool_usage 1208-1210, create_c_image 1098-1138)
THEOREM ProcessesIntactAlways == Spec => []ProcessesIntact
<1>1. MemInv => ProcessesIntact
  BY DEF MemInv, LoadedIntact, Intact, ProcessesIntact
<1> QED
  BY <1>1, MemInit, MemStep, PTL DEF Spec

-----------------------------------------------------------------------------
(***************************************************************************)
(* Proofs about what ProcessMemory keeps and gives back, for any number of *)
(* files and of includes: the texts that symbol tables point into, and the *)
(* account of every block on the heap, which leaves main with no other     *)
(* blocks than those of the processes that could not be created.           *)
(***************************************************************************)

\* Only early_exit frees a text.
LEMMA TextsKept ==
  ASSUME MemInv, Next, stage' # "done" \/ ~EarlyExit, NEW b \in Texts, b \in heap
  PROVE  b \in heap'
<1>1. CASE \/ ReadSource \/ ReadSourceFails \/ Allocate \/ AllocateFails \/ BeginImage
           \/ SearchLostList \/ PushSource \/ ReadInclude \/ SyntaxError \/ Minimize
           \/ MinimizeFails \/ SetMeta \/ AllStarted
  BY <1>1 DEF ReadSource, ReadSourceFails, Allocate, AllocateFails, BeginImage,
              SearchLostList, PushSource, ReadInclude, SyntaxError, Minimize,
              MinimizeFails, SetMeta, AllStarted
<1>2. CASE NoCodePoints \/ PushSourceFails \/ IncludeFails \/ CompileFails \/ MainMissing
           \/ Compiled
  <2>1. n \in Procs
    BY <1>2 DEF NoCodePoints, PushSourceFails, IncludeFails, CompileFails, MainMissing, Compiled,
                Compiling, MemInv, Types, TypeOK
  <2>2. b \notin OwnBlocks(n)
    BY <2>1, TextsDistinct
  <2>3. CASE Compiled
    BY <2>2, <2>3 DEF Compiled, Kept, OldPools, OwnBlocks
  <2>4. ASSUME NEW blocks \in {heap, heap \ {Points(n)}}, NEW counter, ImageFails(blocks, counter)
        PROVE  b \in heap'
    <3>1. CASE stage \in {"image", "compile"} /\ heap' = blocks \ FreedByFailure
      <4>1. FreedByFailure \subseteq OwnBlocks(n)
        BY <3>1 DEF FreedByFailure, MemInv, FirstPools, OwnBlocks
      <4> QED
        BY <2>2, <3>1, <4>1 DEF OwnBlocks
    <3>2. CASE heap' = blocks \ Blocks(OurPools(n))
      BY <2>2, <3>2 DEF OwnBlocks
    <3> QED
      BY <2>4, <3>1, <3>2 DEF ImageFails
  <2> QED
    BY <1>2, <2>3, <2>4 DEF NoCodePoints, PushSourceFails, IncludeFails, CompileFails,
                                MainMissing
<1>3. ASSUME NEW p \in Procs, FreeProcess(p) PROVE b \in heap'
  <2>1. Owned(p) \subseteq OwnBlocks(p)
    BY <1>3 DEF FreeProcess, Owned, OwnBlocks, MemInv, LoadedIntact, Intact, PoolSets
  <2> QED
    BY <1>3, <2>1, TextsDistinct DEF FreeProcess
<1>4. CASE EarlyExit
  BY <1>4 DEF EarlyExit
<1> QED
  BY <1>1, <1>2, <1>3, <1>4 DEF Next

-----------------------------------------------------------------------------
\* The texts.

\* The source of the process that is being created, and of the loaded ones.
Creating == stage \in {"allocate", "image", "compile", "minimize", "reimage",
                       "recompile", "setmeta"}
SourcesRead ==
  stage # "done" => \A p \in Procs : (p \in loaded \/ (p = n /\ Creating)) => Source(p) \in heap

ListLive ==
  code_pages # Null => Range(code_pages) \subseteq heap /\ IsInjective(code_pages)

\* Which includes may be on the list: those of earlier processes, and of this
\* one those of its first compilation and of its second one so far.
Included(p, s, k) ==
  \/ p < n
  \/ /\ p = n /\ s = "compile" /\ stage \notin {"open", "allocate", "image"}
     /\ stage = "compile" => k <= includes
  \/ /\ p = n /\ s = "recompile"
     /\ stage \in {"recompile", "setmeta", "aborted", "crashed", "done", "run"}
     /\ stage = "recompile" => k <= includes
IncludesNumbered ==
  code_pages # Null =>
    \A p \in Procs, s \in Stages, k \in Nat :
      Include(p, <<s, k>>) \in Range(code_pages) => Included(p, s, k)

ListInv == SourcesRead /\ ListLive /\ IncludesNumbered

LEMMA ListInit == Init => ListInv
<1> SUFFICES ASSUME Init PROVE ListInv
  OBVIOUS
<1>1. code_pages = <<>> /\ Range(code_pages) = {} /\ DOMAIN code_pages = {}
  BY DEF Init, Range
<1> QED
  BY <1>1 DEF Init, ListInv, SourcesRead, Creating, ListLive, IncludesNumbered, IsInjective

\* A block that is new to the list can be appended.
LEMMA ListAppend ==
  ASSUME NEW s \in Seq(Texts), IsInjective(s), NEW b \in Texts, b \notin Range(s)
  PROVE  IsInjective(Append(s, b))
<1>1. /\ Len(s) \in Nat
      /\ DOMAIN Append(s, b) = 1 .. Len(s) + 1
      /\ \A k \in 1 .. Len(s) : Append(s, b)[k] = s[k] /\ s[k] # b
      /\ Append(s, b)[Len(s) + 1] = b
      /\ \A j, k \in 1 .. Len(s) : s[j] = s[k] => j = k
  BY DEF Range, IsInjective
<1>2. SUFFICES ASSUME NEW j \in 1 .. Len(s) + 1, NEW k \in 1 .. Len(s) + 1,
                      Append(s, b)[j] = Append(s, b)[k]
               PROVE  j = k
  BY <1>1 DEF IsInjective
<1> QED
  BY <1>1, <1>2

LEMMA ListStep == MemInv /\ ListInv /\ [Next]_vars => ListInv'
<1> SUFFICES ASSUME MemInv, ListInv, [Next]_vars PROVE ListInv'
  OBVIOUS
<1>0. /\ Types /\ n \in Nat /\ stage \in Stages /\ includes \in Nat
      /\ \A p \in Procs : Source(p) \in Texts
      /\ Creating => n \in Procs
  BY MemoryAssumption DEF MemInv, Types, TypeOK, Texts, Creating
<1>1. CASE UNCHANGED vars
  BY <1>1 DEF vars, ListInv, SourcesRead, Creating, ListLive, IncludesNumbered, Included
<1>2. CASE EarlyExit /\ stage' = "done"
  <2>1. code_pages' = <<>> /\ Range(code_pages') = {} /\ DOMAIN code_pages' = {}
    BY <1>2 DEF EarlyExit, Range
  <2> QED
    BY <1>2, <2>1 DEF ListInv, SourcesRead, ListLive, IncludesNumbered, IsInjective
<1>3. CASE Next /\ ~(EarlyExit /\ stage' = "done")
  <2>1. \A b \in Texts : b \in heap => b \in heap'
    BY <1>3, TextsKept
  <2>2. SourcesRead'
    <3> SUFFICES ASSUME NEW p \in Procs, p \in loaded' \/ (p = n' /\ Creating')
                 PROVE  Source(p) \in heap'
      BY DEF SourcesRead, Source
    <3>1. p \in loaded \/ (p = n /\ Creating) \/ (p = n /\ ReadSource)
      BY <1>3, <1>0
         DEF Next, ReadSource, ReadSourceFails, Allocate, AllocateFails, BeginImage,
             NoCodePoints, ImageFails, ReturnZero, SearchLostList, PushSource,
             PushSourceFails, ReadInclude, IncludeFails, CompileFails, MainMissing, SyntaxError,
             Compiled, Compiling, Minimize, MinimizeFails, SetMeta, AllStarted,
             FreeProcess, EarlyExit, Creating
    <3>2. CASE ReadSource /\ p = n
      BY <3>2 DEF ReadSource
    <3>3. CASE p \in loaded \/ (p = n /\ Creating)
      <4>1. stage # "done"
        BY <1>3 DEF Next, ReadSource, ReadSourceFails, Allocate, AllocateFails, BeginImage,
             NoCodePoints, ImageFails, SearchLostList, PushSource,
             PushSourceFails, ReadInclude, IncludeFails, CompileFails, MainMissing, SyntaxError,
             Compiled, Compiling, Minimize, MinimizeFails, SetMeta, AllStarted,
             FreeProcess, EarlyExit
      <4> QED
        BY <3>3, <4>1, <2>1, <1>0 DEF ListInv, SourcesRead
    <3> QED
      BY <3>1, <3>2, <3>3
  <2>3. CASE PushSource \/ ReadInclude
    <3>1. PICK b \in Texts : /\ code_pages' = Append(code_pages, b)
                             /\ b \in heap' /\ b \notin Range(code_pages)
                             /\ \A p \in Procs, s \in Stages, k \in Nat :
                                  b = Include(p, <<s, k>>) => Included(p, s, k)'
      <4>1. CASE PushSource
        <5>1. \A p \in Procs, s \in Stages, k \in Nat : Source(n) # Include(p, <<s, k>>)
          BY DEF Source, Include
        <5>2. n \in Procs /\ Source(n) \in heap
          BY <4>1, <1>0 DEF PushSource, Compiling, Creating, ListInv, SourcesRead
        <5> QED
          BY <4>1, <5>1, <5>2, <1>0 DEF PushSource, Listed
      <4>2. CASE ReadInclude
        <5>1. /\ stage \in {"compile", "recompile"} /\ stage' = stage /\ n' = n
              /\ code_pages # Null /\ n \in Procs
              /\ includes + 1 \in Nat /\ includes' = includes + 1
              /\ NextInclude = Include(n, <<stage, includes + 1>>)
          BY <4>2, <1>0 DEF ReadInclude, Compiling, Creating, Listed, NextInclude
        <5>2. NextInclude \in Texts
          BY <5>1, <1>0 DEF Texts
        <5>3. NextInclude \notin Range(code_pages)
          <6>1. SUFFICES ASSUME NextInclude \in Range(code_pages) PROVE FALSE
            OBVIOUS
          <6>2. Included(n, stage, includes + 1)
            BY <5>1, <6>1, <1>0 DEF ListInv, IncludesNumbered
          <6> QED
            BY <5>1, <6>2, <1>0 DEF Included
        <5>4. ASSUME NEW p \in Procs, NEW s \in Stages, NEW k \in Nat,
                     NextInclude = Include(p, <<s, k>>)
              PROVE  Included(p, s, k)'
          <6>1. p = n /\ s = stage /\ k = includes + 1
            BY <5>1, <5>4 DEF Include
          <6> QED
            BY <5>1, <6>1 DEF Included
        <5> QED
          BY <4>2, <5>2, <5>3, <5>4 DEF ReadInclude
      <4> QED
        BY <2>3, <4>1, <4>2
    <3>2. code_pages # Null /\ code_pages \in Seq(Texts) /\ UNCHANGED <<n, stage>>
          /\ includes <= includes' /\ includes' \in Nat
      BY <2>3, <1>0 DEF PushSource, ReadInclude, Listed, Types
    <3>3. Range(code_pages') = Range(code_pages) \cup {b}
      BY <3>1, <3>2, RangeOfAppend
    <3>4. Range(code_pages) \subseteq Texts
      <4>1. \A k \in DOMAIN code_pages : code_pages[k] \in Texts
        BY <3>2, ElementOfSeq
      <4> QED
        BY <4>1 DEF Range
    <3>5. ListLive'
      BY <2>1, <3>1, <3>2, <3>3, <3>4, ListAppend DEF ListInv, ListLive
    <3>6. IncludesNumbered'
      <4> SUFFICES ASSUME NEW p \in Procs, NEW s \in Stages, NEW k \in Nat,
                          Include(p, <<s, k>>) \in Range(code_pages')
                   PROVE  Included(p, s, k)'
        BY DEF IncludesNumbered, Include
      <4>1. Include(p, <<s, k>>) = b \/ Included(p, s, k)
        BY <3>2, <3>3 DEF ListInv, IncludesNumbered
      <4> QED
        BY <3>1, <3>2, <4>1, <1>0 DEF Included
    <3> QED
      BY <2>2, <3>5, <3>6 DEF ListInv
  <2>4. CASE PushSourceFails \/ IncludeFails
    BY <2>2, <2>4 DEF PushSourceFails, IncludeFails, ListInv, ListLive, IncludesNumbered
  <2>5. CASE ~(PushSource \/ ReadInclude \/ PushSourceFails \/ IncludeFails)
    <3>1. code_pages' = code_pages
      BY <1>3, <2>5
         DEF Next, ReadSource, ReadSourceFails, Allocate, AllocateFails, BeginImage,
             NoCodePoints, SearchLostList, CompileFails, MainMissing, SyntaxError,
             Compiled, Minimize, MinimizeFails, SetMeta, AllStarted, FreeProcess, EarlyExit
    <3>2. code_pages # Null => Range(code_pages) \subseteq Texts
      <4>1. code_pages \in Seq(Texts) => \A k \in DOMAIN code_pages : code_pages[k] \in Texts
        BY ElementOfSeq
      <4> QED
        BY <4>1, <1>0 DEF Range, Types
    <3>3. ListLive'
      BY <2>1, <3>1, <3>2 DEF ListInv, ListLive
    <3>4. ASSUME NEW p \in Procs, NEW s \in Stages, NEW k \in Nat, Included(p, s, k)
          PROVE  Included(p, s, k)'
      <4>1. p \in Nat
        BY MemoryAssumption DEF Procs
      <4>2. CASE n' = n + 1
        BY <4>1, <4>2, <3>4, <1>0 DEF Included
      <4>3. CASE n' = n /\ p < n
        BY <4>3 DEF Included
      <4>4. CASE n' = n /\ p = n
        BY <1>3, <2>5, <3>4, <4>1, <4>4, <1>0
           DEF Next, ReadSource, ReadSourceFails, Allocate, AllocateFails, BeginImage,
               NoCodePoints, ImageFails, ReturnZero, SearchLostList, CompileFails, MainMissing,
               SyntaxError, Compiled, Compiling, Minimize, MinimizeFails, SetMeta,
               AllStarted, FreeProcess, EarlyExit, Included
      <4>5. n' \in {n, n + 1}
        BY <1>3, <2>5
           DEF Next, ReadSource, ReadSourceFails, Allocate, AllocateFails, BeginImage,
               NoCodePoints, ImageFails, ReturnZero, SearchLostList, CompileFails, MainMissing,
               SyntaxError, Compiled, Minimize, MinimizeFails, SetMeta,
               AllStarted, FreeProcess, EarlyExit
      <4> QED
        BY <3>4, <4>1, <4>2, <4>3, <4>4, <4>5, <1>0 DEF Included
    <3>5. IncludesNumbered'
      <4> SUFFICES ASSUME code_pages' # Null,
                          NEW p \in Procs, NEW s \in Stages, NEW k \in Nat,
                          Include(p, <<s, k>>) \in Range(code_pages')
                   PROVE  Included(p, s, k)'
        BY DEF IncludesNumbered, Include
      <4>1. Included(p, s, k)
        BY <3>1 DEF ListInv, IncludesNumbered
      <4> QED
        BY <4>1, <3>4
    <3> QED
      BY <2>2, <3>3, <3>5 DEF ListInv
  <2> QED
    BY <2>3, <2>4, <2>5
<1> QED
  BY <1>1, <1>2, <1>3

\* The text a symbol table points into lives as long as its process, and the
\* list frees each text once, whatever failed and however often it was compiled.
\* (code_pages_push_uniq, code_pages_free)
THEOREM SourcesLiveAlways == Spec => []SourcesLive
<1>1. MemInv /\ ListInv => SourcesLive
  BY DEF MemInv, Types, TypeOK, ListInv, SourcesRead, ListLive, SourcesLive
<1> QED
  BY <1>1, MemInit, MemStep, ListInit, ListStep, PTL DEF Spec

-----------------------------------------------------------------------------
\* The account of the heap.

\* No structure is filled in before its process is created.
Fresh ==
  \A p \in Procs :
    p > n \/ (p = n /\ stage \in {"open", "allocate"}) => proc[p].initial = Null

\* The blocks of the process that is being created: its source until the list
\* has it, its structure, its stack and the pools of one or two compilations.
InCreation ==
  UNION {IF stage \in {"allocate", "image", "compile"} THEN {Source(n), Structure(n)} ELSE {},
         IF stage \in {"allocate", "image", "compile", "minimize", "reimage", "recompile"}
           THEN Blocks(Pools(n)) ELSE {},
         IF stage \in {"image", "compile", "minimize", "reimage", "recompile"}
           THEN {Structure(n), Stack(n)} ELSE {},
         IF stage \in {"reimage", "recompile"} THEN Blocks(OurPools(n)) ELSE {},
         IF stage = "setmeta" THEN Owned(n) ELSE {}}

LoadedBlocks == UNION {Owned(p) : p \in loaded}
FailedBlocks == UNION {LeftBehind(p) : p \in failed}
ListedBlocks == IF code_pages = Null THEN {} ELSE Range(code_pages)

\* Every block belongs to something that will free it or to a failed process,
\* until main gives up: then, and when -s or -X is given, or when the list was
\* lost, main never returns from running.
Accounted ==
  ~src /\ code_pages # Null /\ stage \notin {"aborted", "crashed"} =>
    heap \subseteq InCreation \cup LoadedBlocks \cup FailedBlocks \cup ListedBlocks

HeapInv == Fresh /\ Accounted

LEMMA HeapInit == Init => HeapInv
BY DEF Init, HeapInv, Fresh, Accounted, NewStructure

\* Processes behind main's keep their pools, and so what they own and leave.
LEMMA BehindKept ==
  ASSUME MemInv, Next
  PROVE  /\ \A p \in Procs : p # n => proc'[p] = proc[p]
         /\ \A p \in loaded \cup failed : p \in Procs /\ p # n
         /\ \A p \in loaded \cup failed : Owned(p)' = Owned(p) /\ LeftBehind(p)' = LeftBehind(p)
<1>1. \A p \in Procs : p # n => proc'[p] = proc[p]
  <2>1. Types
    BY DEF MemInv
  <2>2. CASE Allocate
    BY <2>1, <2>2 DEF Allocate, Types
  <2>3. CASE Compiled
    BY <2>1, <2>3 DEF Compiled, Types
  <2>4. CASE Minimize
    BY <2>1, <2>4 DEF Minimize, Types
  <2>5. CASE SetMeta
    BY <2>1, <2>5 DEF SetMeta, Types
  <2>6. ASSUME NEW blocks, NEW counter, ImageFails(blocks, counter)
        PROVE  \A p \in Procs : p # n => proc'[p] = proc[p]
    BY <2>1, <2>6 DEF ImageFails, RestoreInitial, Types
  <2> QED
    BY <2>2, <2>3, <2>4, <2>5, <2>6
       DEF Next, ReadSource, ReadSourceFails, AllocateFails, BeginImage,
           NoCodePoints, SearchLostList, PushSource, PushSourceFails, ReadInclude,
           IncludeFails, CompileFails, MainMissing, SyntaxError, MinimizeFails, AllStarted,
           FreeProcess, EarlyExit
<1>2. \A p \in loaded \cup failed : p \in Procs /\ p # n
  BY DEF MemInv, LoadedIntact, FailedBehind, Types, TypeOK
<1>3. \A p \in loaded \cup failed : Owned(p)' = Owned(p) /\ LeftBehind(p)' = LeftBehind(p)
  BY <1>1, <1>2 DEF Owned, LeftBehind, Blocks, Pools, Structure, Stack, Source
<1> QED
  BY <1>1, <1>2, <1>3

\* A compilation that fails leaves the stack, or goes back to the first pools.
LEMMA ImageFailsHeap ==
  ASSUME MemInv, HeapInv, n \in Procs, ~src, code_pages # Null, code_pages' = code_pages,
         NEW blocks \in SUBSET heap, NEW counter, ImageFails(blocks, counter), Source(n) \in Range(code_pages),
         Next, UNCHANGED loaded,
         stage \in {"compile", "recompile"}
  PROVE  heap' \subseteq (InCreation \cup LoadedBlocks \cup FailedBlocks \cup ListedBlocks)'
<1> DEFINE Rest == LoadedBlocks \cup FailedBlocks \cup ListedBlocks
<1>1. heap \subseteq InCreation \cup Rest
  BY DEF HeapInv, Accounted
<1>2. LoadedBlocks' = LoadedBlocks /\ ListedBlocks' = ListedBlocks
  BY BehindKept DEF LoadedBlocks, ListedBlocks
<1>3. failed \subseteq failed' /\ \A p \in failed : LeftBehind(p)' = LeftBehind(p)
  BY BehindKept DEF ImageFails, ReturnZero
<1>4. FailedBlocks \subseteq FailedBlocks'
  BY <1>3 DEF FailedBlocks
<1>5. CASE /\ stage = "compile" /\ heap' = blocks \ FreedByFailure
           /\ ReturnZero /\ proc' = [proc EXCEPT ![n].pc = counter]
  <2>1. proc[n].initial = Pools(n) /\ proc'[n].initial = Pools(n)
    BY <1>5 DEF MemInv, FirstPools, Types
  <2>2. InCreation = {Source(n), Structure(n), Stack(n)} \cup Blocks(Pools(n))
    BY <1>5 DEF InCreation
  <2>3. FreedByFailure = Blocks(Pools(n)) \cup {Structure(n)}
    BY <2>1 DEF FreedByFailure
  <2>4. heap' \subseteq {Source(n), Stack(n)} \cup Rest
    BY <1>1, <1>5, <2>2, <2>3
  <2>5. Source(n) \in ListedBlocks
    BY DEF ListedBlocks
  <2>6. PICK q \in Procs : q = n
    OBVIOUS
  <2>7. q \in failed' /\ LeftBehind(q)' = {Stack(q)}
    BY <1>5, <2>1, <2>6, NullAssumption DEF ReturnZero, LeftBehind, Stack
  <2>8. Stack(n) \in FailedBlocks'
    BY <2>6, <2>7 DEF FailedBlocks
  <2> QED
    BY <1>2, <1>4, <2>4, <2>5, <2>8
<1>6. CASE /\ stage = "recompile" /\ heap' = blocks \ Blocks(OurPools(n))
           /\ RestoreInitial(counter) /\ stage' = "setmeta" /\ UNCHANGED <<n, failed>>
  <2>1. proc'[n].initial = Pools(n)
    BY <1>6 DEF RestoreInitial, MemInv, Types
  <2>2. InCreation' = Blocks(Pools(n)) \cup {Structure(n), Stack(n)}
    BY <1>6, <2>1 DEF InCreation, Owned, Blocks, Structure, Stack
  <2>3. InCreation = {Structure(n), Stack(n)} \cup Blocks(Pools(n)) \cup Blocks(OurPools(n))
    BY <1>6 DEF InCreation
  <2> QED
    BY <1>1, <1>2, <1>4, <1>6, <2>2, <2>3
<1> QED
  BY <1>5, <1>6 DEF ImageFails

LEMMA FreshStep == MemInv /\ HeapInv /\ [Next]_vars => Fresh'
<1> SUFFICES ASSUME MemInv, HeapInv, [Next]_vars, NEW p \in Procs,
                    p > n' \/ (p = n' /\ stage' \in {"open", "allocate"})
             PROVE  proc'[p].initial = Null
  BY DEF Fresh
<1>0. n \in Nat /\ p \in Nat /\ Types
  BY MemoryAssumption DEF MemInv, Types, Procs
<1>1. CASE UNCHANGED vars
  BY <1>1 DEF vars, HeapInv, Fresh
<1>2. CASE Next
  <2>1. CASE p # n
    <3>1. proc'[p] = proc[p]
      BY <1>2, <2>1, BehindKept
    <3>2. n' \in {n, n + 1}
      BY <1>2 DEF Next, ReadSource, ReadSourceFails, Allocate, AllocateFails, BeginImage,
         NoCodePoints, ImageFails, ReturnZero, SearchLostList, PushSource, PushSourceFails,
         ReadInclude, IncludeFails, CompileFails, MainMissing, SyntaxError, Compiled, Minimize,
         MinimizeFails, SetMeta, AllStarted, FreeProcess, EarlyExit
    <3>3. p > n
      BY <2>1, <3>2, <1>0
    <3> QED
      BY <3>1, <3>3 DEF HeapInv, Fresh
  <2>2. CASE p = n
    <3>1. /\ stage \in {"open", "allocate"}
          /\ ReadSource \/ ReadSourceFails \/ (Allocate /\ stage' = "allocate")
      BY <1>2, <2>2, <1>0 DEF Next, ReadSource, ReadSourceFails, Allocate, AllocateFails,
         BeginImage, NoCodePoints, ImageFails, ReturnZero, SearchLostList, PushSource,
         PushSourceFails, ReadInclude, IncludeFails, CompileFails, MainMissing, SyntaxError, Compiled,
         Compiling, Minimize, MinimizeFails, SetMeta, AllStarted, FreeProcess, EarlyExit
    <3>2. proc' = proc
      BY <3>1 DEF ReadSource, ReadSourceFails, Allocate
    <3> QED
      BY <2>2, <3>1, <3>2 DEF HeapInv, Fresh
  <2> QED
    BY <2>1, <2>2
<1> QED
  BY <1>1, <1>2

LEMMA AccountedStep == MemInv /\ HeapInv /\ [Next]_vars => Accounted'
<1> SUFFICES ASSUME MemInv, HeapInv, [Next]_vars,
                    ~src', code_pages' # Null, stage' \notin {"aborted", "crashed"}
             PROVE  heap' \subseteq
                      (InCreation \cup LoadedBlocks \cup FailedBlocks \cup ListedBlocks)'
  BY DEF Accounted
<1> DEFINE Rest == LoadedBlocks \cup FailedBlocks \cup ListedBlocks
<1>0. Types /\ n \in Nat
  BY DEF MemInv, Types
<1>1. CASE UNCHANGED vars
  <2>1. heap \subseteq InCreation \cup Rest
    BY <1>1 DEF vars, HeapInv, Accounted
  <2>2. InCreation' = InCreation /\ Rest' = Rest
    BY <1>1 DEF vars, InCreation, LoadedBlocks, FailedBlocks, ListedBlocks, Owned,
       LeftBehind, Blocks, Pools, OurPools, Structure, Stack, Source
  <2> QED
    BY <1>1, <2>1, <2>2 DEF vars
<1>2. CASE Next
  <2>0. src' = src /\ code_pages # Null /\ stage \notin {"aborted", "crashed", "done"}
    <3>1. src' = src
      BY <1>2 DEF Next, ReadSource, ReadSourceFails, Allocate, AllocateFails, BeginImage,
         NoCodePoints, SearchLostList, PushSource, PushSourceFails, ReadInclude, IncludeFails,
         CompileFails, MainMissing, SyntaxError, Compiled, Minimize, MinimizeFails, SetMeta,
         AllStarted, FreeProcess, EarlyExit, options
    <3>2. code_pages # Null
      BY <1>2 DEF Next, ReadSource, ReadSourceFails, Allocate, AllocateFails, BeginImage,
         NoCodePoints, SearchLostList, PushSource, PushSourceFails, ReadInclude, IncludeFails,
         CompileFails, MainMissing, SyntaxError, Compiled, Minimize, MinimizeFails, SetMeta,
         AllStarted, FreeProcess, EarlyExit, Listed
    <3>3. stage \notin {"aborted", "crashed", "done"}
      BY <1>2 DEF Next, ReadSource, ReadSourceFails, Allocate, AllocateFails, BeginImage,
         NoCodePoints, SearchLostList, PushSource, PushSourceFails, ReadInclude, IncludeFails,
         CompileFails, MainMissing, SyntaxError, Compiled, Compiling, Minimize, MinimizeFails, SetMeta,
         AllStarted, FreeProcess, EarlyExit
    <3> QED
      BY <3>1, <3>2, <3>3
  <2>1. ~src /\ heap \subseteq InCreation \cup Rest
    BY <2>0 DEF HeapInv, Accounted
  <2>2. /\ \A p \in loaded \cup failed : p \in Procs /\ p # n
        /\ \A p \in loaded \cup failed : Owned(p)' = Owned(p) /\ LeftBehind(p)' = LeftBehind(p)
    BY <1>2, BehindKept
  <2>3. ASSUME UNCHANGED <<loaded, failed, code_pages>> PROVE Rest' = Rest
    BY <2>2, <2>3 DEF LoadedBlocks, FailedBlocks, ListedBlocks
  <2>4. CASE ReadSource
    <3>1. Rest' = Rest /\ heap' = heap \cup {Source(n)}
      BY <2>3, <2>4 DEF ReadSource
    <3>2. InCreation = {} /\ Source(n) \in InCreation'
      BY <2>4 DEF ReadSource, InCreation, Source
    <3> QED
      BY <2>1, <3>1, <3>2
  <2>5. CASE Allocate
    <3>1. PICK k \in 1 .. 5 : /\ heap' = heap \cup {Allocations(n)[k]}
                              /\ stage' = IF k = 5 THEN "image" ELSE "allocate"
      BY <2>5 DEF Allocate
    <3>2. Rest' = Rest /\ n' = n /\ stage = "allocate"
      BY <2>3, <2>5 DEF Allocate
    <3>3. InCreation = {Source(n), Structure(n)} \cup Blocks(Pools(n))
      BY <3>2 DEF InCreation
    <3>4. InCreation' = IF k = 5 THEN {Source(n), Structure(n), Stack(n)} \cup Blocks(Pools(n))
                        ELSE {Source(n), Structure(n)} \cup Blocks(Pools(n))
      BY <3>1, <3>2 DEF InCreation, Source, Structure, Stack, Blocks, Pools
    <3>5. Allocations(n)[k] \in InCreation'
      BY <3>4 DEF Allocations, Blocks, Pools
    <3> QED
      BY <2>1, <3>1, <3>2, <3>3, <3>4, <3>5
  <2>6. CASE AllocateFails
    <3>0. n \in Procs
      BY <2>6, <1>0 DEF AllocateFails, Types, TypeOK
    <3>a. PICK q \in Procs : q = n
      BY <3>0
    <3>1. proc'[q].initial = Null /\ q \in failed' /\ failed \subseteq failed'
      BY <2>6, <3>a DEF AllocateFails, ReturnZero, HeapInv, Fresh
    <3>2. LeftBehind(q)' = {Source(q), Structure(q)} \cup Blocks(Pools(q))
      BY <3>1 DEF LeftBehind, Source, Structure, Blocks, Pools
    <3>3. InCreation \subseteq LeftBehind(q)'
      BY <2>6, <3>a, <3>2 DEF AllocateFails, InCreation
    <3>4. InCreation \cup FailedBlocks \subseteq FailedBlocks'
      BY <2>2, <3>1, <3>3 DEF FailedBlocks
    <3>5. LoadedBlocks' = LoadedBlocks /\ ListedBlocks' = ListedBlocks /\ heap' = heap
      BY <2>2, <2>6 DEF AllocateFails, LoadedBlocks, ListedBlocks
    <3> QED
      BY <2>1, <3>4, <3>5
  <2>7. CASE BeginImage
    <3>1. Rest' = Rest /\ heap' = heap
      BY <2>1, <2>3, <2>7 DEF BeginImage
    <3>2. InCreation' = InCreation
      BY <2>7 DEF BeginImage, InCreation, Source, Structure, Stack, Blocks, Pools, OurPools
    <3> QED
      BY <2>1, <3>1, <3>2
  <2>8. CASE NoCodePoints
    BY <2>1, <2>8 DEF NoCodePoints
  <2>9. CASE PushSource \/ ReadInclude
    <3>1. PICK b \in Texts : /\ code_pages' = Append(code_pages, b)
                             /\ heap' \subseteq heap \cup {b}
      <4>1. n \in Procs /\ stage \in Stages /\ includes + 1 \in Nat
        BY <2>9, <1>0 DEF PushSource, ReadInclude, Compiling, Types, TypeOK
      <4>2. Source(n) \in Texts /\ NextInclude \in Texts
        BY <4>1 DEF Texts, NextInclude
      <4> QED
        BY <2>9, <4>2 DEF PushSource, ReadInclude
    <3>2. code_pages \in Seq(Texts)
      BY <1>0, <2>0 DEF Types
    <3>3. ListedBlocks' = ListedBlocks \cup {b}
      BY <2>0, <3>1, <3>2, RangeOfAppend DEF ListedBlocks
    <3>4. LoadedBlocks' = LoadedBlocks /\ FailedBlocks' = FailedBlocks
      BY <2>2, <2>9 DEF PushSource, ReadInclude, LoadedBlocks, FailedBlocks
    <3>5. InCreation' = InCreation
      BY <2>9 DEF PushSource, ReadInclude, Compiling, InCreation, Source, Structure, Stack,
         Blocks, Pools, OurPools
    <3> QED
      BY <2>1, <3>1, <3>3, <3>4, <3>5
  <2>10. CASE PushSourceFails \/ IncludeFails
    BY <2>10 DEF PushSourceFails, IncludeFails
  <2>11. CASE CompileFails \/ MainMissing
    <3>1. PICK blocks, counter :
            blocks \in {heap, heap \ {Points(n)}} /\ ImageFails(blocks, counter)
      BY <2>11 DEF CompileFails, MainMissing
    <3>2. /\ n \in Procs /\ Source(n) \in Range(code_pages) /\ stage \in {"compile", "recompile"}
          /\ UNCHANGED <<loaded, code_pages>>
      BY <2>11, <1>0 DEF CompileFails, MainMissing, Compiling, Listed, Types, TypeOK
    <3> QED
      BY <1>2, <2>0, <2>1, <3>1, <3>2, ImageFailsHeap
  <2>12. CASE Compiled
    <3>0. n \in Procs /\ Source(n) \in ListedBlocks /\ n' = n
      BY <2>12, <2>0, <1>0 DEF Compiled, Compiling, Listed, ListedBlocks, Types, TypeOK
    <3>1. Rest' = Rest /\ heap' \subseteq heap
      BY <2>3, <2>12 DEF Compiled, Kept
    <3>2. proc'[n].initial = proc[n].initial
      BY <2>12, <3>0, <1>0 DEF Compiled, Types
    <3>3. CASE stage = "compile"
      <4>1. proc[n].initial = Pools(n)
        BY <3>3 DEF MemInv, FirstPools
      <4>2. InCreation = {Source(n)} \cup {Structure(n), Stack(n)} \cup Blocks(Pools(n))
        BY <3>3 DEF InCreation
      <4>3. CASE stage' = "minimize"
        BY <2>1, <3>0, <3>1, <4>2, <4>3 DEF InCreation, Structure, Stack, Blocks, Pools
      <4>4. CASE stage' = "setmeta"
        <5>1. InCreation' = {Structure(n), Stack(n)} \cup Blocks(Pools(n))
          BY <3>0, <3>2, <4>1, <4>4 DEF InCreation, Owned, Structure, Stack, Blocks, Pools
        <5> QED
          BY <2>1, <3>0, <3>1, <4>2, <5>1
      <4> QED
        BY <2>12, <3>3, <4>3, <4>4 DEF Compiled
    <3>4. CASE stage = "recompile"
      <4>1. proc[n].initial = OurPools(n)
        BY <3>4 DEF MemInv, BothPools
      <4>2. InCreation = {Structure(n), Stack(n)} \cup Blocks(Pools(n)) \cup Blocks(OurPools(n))
        BY <3>4 DEF InCreation
      <4>3. heap' \subseteq heap \ Blocks(Pools(n)) /\ stage' = "setmeta"
        BY <2>12, <3>4 DEF Compiled, Kept, OldPools
      <4>4. InCreation' = {Structure(n), Stack(n)} \cup Blocks(OurPools(n))
        BY <3>0, <3>2, <4>1, <4>3 DEF InCreation, Owned, Structure, Stack, Blocks, OurPools
      <4> QED
        BY <2>1, <3>1, <4>2, <4>3, <4>4
    <3> QED
      BY <2>12, <3>3, <3>4 DEF Compiled, Compiling
  <2>13. CASE Minimize
    <3>1. Rest' = Rest /\ heap' = heap \cup Blocks(OurPools(n))
      BY <2>3, <2>13 DEF Minimize
    <3>2. InCreation' = InCreation \cup Blocks(OurPools(n))
      BY <2>13 DEF Minimize, InCreation, Structure, Stack, Blocks, Pools, OurPools
    <3> QED
      BY <2>1, <3>1, <3>2
  <2>14. CASE MinimizeFails
    <3>1. Rest' = Rest /\ heap' = heap /\ proc[n].initial = Pools(n)
      BY <2>3, <2>14 DEF MinimizeFails, MemInv, FirstPools
    <3>2. InCreation' = InCreation
      BY <2>14, <3>1 DEF MinimizeFails, InCreation, Owned, Structure, Stack, Blocks, Pools
    <3> QED
      BY <2>1, <3>1, <3>2
  <2>15. CASE SetMeta
    <3>0. n \in Procs
      BY <2>15, <1>0 DEF SetMeta, Types, TypeOK
    <3>a. PICK q \in Procs : q = n
      BY <3>0
    <3>1. proc'[q].initial = proc[q].initial
      BY <2>15, <3>0, <3>a, <1>0 DEF SetMeta, Types
    <3>2. InCreation = Owned(q) /\ Owned(q)' = Owned(q) /\ loaded' = loaded \cup {q}
      BY <2>15, <3>a, <3>1 DEF SetMeta, InCreation, Owned, Structure, Stack, Blocks
    <3>3. LoadedBlocks' = LoadedBlocks \cup InCreation
      BY <2>2, <3>2 DEF LoadedBlocks
    <3>4. FailedBlocks' = FailedBlocks /\ ListedBlocks' = ListedBlocks /\ heap' = heap
      BY <2>2, <2>15 DEF SetMeta, FailedBlocks, ListedBlocks
    <3> QED
      BY <2>1, <3>3, <3>4
  <2>16. CASE AllStarted
    <3>1. Rest' = Rest /\ heap' = heap
      BY <2>3, <2>16 DEF AllStarted
    <3>2. InCreation = {}
      BY <2>16 DEF AllStarted, InCreation
    <3> QED
      BY <2>1, <3>1, <3>2
  <2>17. ASSUME NEW q \in Procs, FreeProcess(q)
         PROVE  heap' \subseteq (InCreation \cup Rest)'
    <3>1. /\ heap' = heap \ Owned(q) /\ loaded' = loaded \ {q} /\ stage = "run"
          /\ UNCHANGED <<failed, code_pages>>
      BY <2>17 DEF FreeProcess
    <3>2. LoadedBlocks \subseteq LoadedBlocks' \cup Owned(q)
      BY <2>2, <3>1 DEF LoadedBlocks
    <3>3. FailedBlocks' = FailedBlocks /\ ListedBlocks' = ListedBlocks
      BY <2>2, <3>1 DEF FailedBlocks, ListedBlocks
    <3>4. InCreation = {}
      BY <3>1 DEF InCreation
    <3> QED
      BY <2>1, <3>1, <3>2, <3>3, <3>4
  <2>18. CASE EarlyExit
    <3>1. /\ heap' = heap \ ListedBlocks /\ stage = "run" /\ loaded = {}
          /\ UNCHANGED <<failed>>
      BY <2>0, <2>1, <2>18 DEF EarlyExit, ListedBlocks
    <3>2. InCreation = {} /\ LoadedBlocks = {}
      BY <3>1 DEF InCreation, LoadedBlocks
    <3>3. FailedBlocks' = FailedBlocks
      BY <2>2, <3>1 DEF FailedBlocks
    <3> QED
      BY <2>1, <3>1, <3>2, <3>3
  <2>19. ~(ReadSourceFails \/ SyntaxError \/ SearchLostList)
    BY DEF ReadSourceFails, SyntaxError, SearchLostList
  <2> QED
    BY <1>2, <2>4, <2>5, <2>6, <2>7, <2>8, <2>9, <2>10, <2>11, <2>12, <2>13, <2>14, <2>15,
       <2>16, <2>17, <2>18, <2>19 DEF Next
<1> QED
  BY <1>1, <1>2

\* The only memory main keeps when it returns is that of processes that it could
\* not create: the stack of one whose compilation failed, and what was allocated
\* before the malloc that failed.  (create_process, free_process, early_exit)
THEOREM OnlyFailuresLeakAlways == Spec => []OnlyFailuresLeak
<1> DEFINE DoneInv == stage = "done" /\ code_pages # Null => loaded = {} \/ src
           ListBack == stage = "done" => code_pages = <<>>
<1>1. Init => DoneInv /\ ListBack
  BY DEF Init
<1>2. MemInv /\ DoneInv /\ ListBack /\ [Next]_vars => DoneInv' /\ ListBack'
  <2> SUFFICES ASSUME MemInv, DoneInv, ListBack, [Next]_vars PROVE DoneInv' /\ ListBack'
    OBVIOUS
  <2>1. CASE UNCHANGED vars
    BY <2>1 DEF vars
  <2>2. CASE EarlyExit
    BY <2>2 DEF EarlyExit, options
  <2>3. CASE Next /\ ~EarlyExit
    <3>1. stage' # "done"
      BY <2>3 DEF Next, ReadSource, ReadSourceFails, Allocate, AllocateFails, BeginImage,
         NoCodePoints, ImageFails, ReturnZero, SearchLostList, PushSource, PushSourceFails,
         ReadInclude, IncludeFails, CompileFails, MainMissing, SyntaxError, Compiled, Compiling,
         Minimize, MinimizeFails, SetMeta, AllStarted, FreeProcess
    <3> QED
      BY <3>1
  <2> QED
    BY <2>1, <2>2, <2>3
<1>3. HeapInv /\ DoneInv /\ ListBack => OnlyFailuresLeak
  <2> SUFFICES ASSUME HeapInv, DoneInv, ListBack, stage = "done", ~src
               PROVE  heap \subseteq FailedBlocks
    BY DEF OnlyFailuresLeak, FailedBlocks
  <2>1. code_pages = <<>> /\ code_pages # Null
    BY NullAssumption
  <2>2. Range(code_pages) = {}
    BY <2>1 DEF Range
  <2>3. InCreation = {} /\ LoadedBlocks = {} /\ ListedBlocks = {}
    BY <2>1, <2>2 DEF InCreation, LoadedBlocks, ListedBlocks
  <2> QED
    BY <2>1, <2>3 DEF HeapInv, Accounted
<1>4. MemInv /\ HeapInv /\ [Next]_vars => HeapInv'
  BY FreshStep, AccountedStep DEF HeapInv
<1> QED
  BY <1>1, <1>2, <1>3, <1>4, MemInit, MemStep, HeapInit, PTL DEF Spec

=============================================================================
