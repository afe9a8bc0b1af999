-------------------------- MODULE CommandLine_proofs --------------------------
(***************************************************************************)
(* Proofs about CommandLine for command lines of any length over any words *)
(* and any number of slots: argc and argv stay in step, what is run and    *)
(* passed on lies inside the line, and what main has done at each argv is  *)
(* what the reference reading of the words before it says.                 *)
(***************************************************************************)
EXTENDS CommandLine, Induction, FiniteSetTheorems

Entries == Words \cup {Lisp4, Null}

\* The sequences that have room for one more element.
LEMMA BoundedAppend ==
  ASSUME NEW S, NEW k \in Nat, NEW s \in BoundedSeq(S, k), Len(s) < k, NEW x \in S
  PROVE  /\ Append(s, x) \in BoundedSeq(S, k)
         /\ Append(s, x)[Len(Append(s, x))] = x
         /\ Append(s, x) # <<>>
<1>1. PICK m \in 0 .. k : s \in [1 .. m -> S]
  BY DEF BoundedSeq, SeqOf
<1>2. s \in Seq(S) /\ Len(s) = m
  BY <1>1
<1>3. /\ Append(s, x) \in [1 .. m + 1 -> S]
      /\ Len(Append(s, x)) = m + 1
      /\ Append(s, x)[m + 1] = x
  <2>1. m \in Nat /\ Append(s, x) \in Seq(S) /\ Len(Append(s, x)) = m + 1
    BY <1>2
  <2>2. Append(s, x)[m + 1] = x
    BY <1>2, <2>1
  <2> DEFINE t == Append(s, x)
  <2>3. t \in [1 .. Len(t) -> S]
    <3>1. t \in Seq(S)
      BY <2>1
    <3> HIDE DEF t
    <3> QED
      BY <3>1
  <2> QED
    BY <2>1, <2>2, <2>3
<1>4. m + 1 \in 0 .. k
  BY <1>2
<1>5. Append(s, x) \in BoundedSeq(S, k)
  BY <1>3, <1>4 DEF BoundedSeq, SeqOf
<1> QED
  BY <1>2, <1>3, <1>5

LEMMA BoundedEmpty == ASSUME NEW S, NEW k \in Nat PROVE <<>> \in BoundedSeq(S, k)
<1>1. <<>> \in [1 .. 0 -> S] /\ 0 \in 0 .. k
  OBVIOUS
<1> QED
  BY <1>1 DEF BoundedSeq, SeqOf

-----------------------------------------------------------------------------
\* The two variables move together; a program that was named comes last.
InStep ==
  /\ args \in Seq(Words)
  /\ argv + argc = Len(args) + 1
MainFileLast ==
  phase = "start" /\ argc > 0 /\ NamesMainFile =>
    vm_processes # <<>> /\ vm_processes[Len(vm_processes)] = args[argv]

LineInv == TypeOK /\ InStep /\ MainFileLast

LEMMA LineInit == Init => LineInv
<1> SUFFICES ASSUME Init PROVE LineInv
  OBVIOUS
<1>1. args \in Seq(Words) /\ Len(args) \in Nat
  BY CommandLineAssumption DEF Init
<1>2. vm_processes \in BoundedSeq(Entries, MaxProcs)
  BY BoundedEmpty, CommandLineAssumption DEF Init
<1>3. InStep /\ MainFileLast
  BY <1>1 DEF Init, InStep, MainFileLast
<1>4. argv \in 1 .. Len(args) + 3 /\ argc \in -2 .. Len(args)
  BY <1>1 DEF Init
<1>5. /\ native \in BOOLEAN /\ phase = "args" /\ early_param_exit \in BOOLEAN
      /\ src \in 0 .. 2 /\ set \subseteq Flags
      /\ vm_cycle_count \in Int /\ poolsz \in Nat /\ exitcode \in {-1, 0, 1}
  <2>1. vm_cycle_count = 1000 /\ poolsz = PoolSize /\ exitcode = 0 /\ src = 0 /\ set = {}
    BY DEF Init
  <2>2. vm_cycle_count \in Int /\ exitcode \in {-1, 0, 1} /\ src \in 0 .. 2
    BY <2>1
  <2>3. PoolSize \in Nat
    BY CommandLineAssumption
  <2>4. set \subseteq Flags
    BY <2>1
  <2> QED
    BY <2>1, <2>2, <2>3, <2>4 DEF Init
<1>6. phase \in {"args", "checks", "start", "returned", "undefined"}
  BY <1>5
<1>7. vm_processes \in BoundedSeq(Words \cup {Lisp4, Null}, MaxProcs)
  BY <1>2 DEF Entries
<1>8. TypeOK
  BY <1>4, <1>5, <1>6, <1>7, Zenon DEF TypeOK
<1> QED
  BY <1>3, <1>8 DEF LineInv

\* While there are words left, argv is on one of them.
LEMMA OnAWord ==
  ASSUME LineInv, argc > 0
  PROVE  /\ argv \in 1 .. Len(args) /\ argc \in 1 .. Len(args)
         /\ WordAt(argv) = args[argv] /\ args[argv] \in Words
         /\ WordAt(argv + 1) \in Words \cup {Null}
         /\ WordAt(argv + 1) # Null => /\ WordAt(argv + 1) = args[argv + 1]
                                       /\ args[argv + 1] \in Words
<1>1. args \in Seq(Words) /\ Len(args) \in Nat /\ argv \in Nat /\ argv >= 1 /\ argc \in Int
  BY DEF LineInv, InStep, TypeOK
<1>2. argv \in 1 .. Len(args) /\ argc \in 1 .. Len(args)
  BY <1>1 DEF LineInv, InStep
<1>3. args[argv] \in Words /\ (argv + 1 <= Len(args) => args[argv + 1] \in Words)
  BY <1>1, <1>2
<1> QED
  BY <1>1, <1>2, <1>3 DEF WordAt

\* Up to three words are counted as they are passed.
LEMMA Advanced ==
  ASSUME LineInv, argc > 0, args' = args, NEW k \in 0 .. 3, Advance(k)
  PROVE  InStep' /\ argv' \in 1 .. Len(args') + 3 /\ argc' \in -2 .. Len(args')
<1>1. argv \in 1 .. Len(args) /\ argc \in 1 .. Len(args) /\ Len(args) \in Nat
  BY OnAWord DEF LineInv, InStep
<1> QED
  BY <1>1 DEF Advance, LineInv, InStep

LEMMA LineStep == LineInv /\ [Next]_vars => LineInv'
<1> SUFFICES ASSUME LineInv, [Next]_vars PROVE LineInv'
  OBVIOUS
<1>0. /\ args \in Seq(Words) /\ Len(args) \in Nat /\ MaxProcs \in Nat
      /\ vm_processes \in BoundedSeq(Entries, MaxProcs)
  BY CommandLineAssumption DEF LineInv, InStep, TypeOK, Entries
<1>1. CASE ShowSource
  <2>1. phase = "args" /\ argc > 0
    BY <1>1 DEF ShowSource, Option, More
  <2>2. InStep' /\ argv' \in 1 .. Len(args') + 3 /\ argc' \in -2 .. Len(args')
    BY <1>1, <2>1, Advanced DEF ShowSource
  <2> QED
    BY <1>1, <2>1, <2>2 DEF ShowSource, LineInv, TypeOK, MainFileLast
<1>2. ASSUME NEW w \in {"-d", "-v", "-M"}, SetFlag(w) PROVE LineInv'
  <2>1. phase = "args" /\ argc > 0
    BY <1>2 DEF SetFlag, Option, More
  <2>2. InStep' /\ argv' \in 1 .. Len(args') + 3 /\ argc' \in -2 .. Len(args')
    BY <1>2, <2>1, Advanced DEF SetFlag
  <2> QED
    BY <1>2, <2>1, <2>2 DEF SetFlag, LineInv, TypeOK, MainFileLast, Flags
<1>3. CASE OperandMissing \/ AddProcessOverflows
  BY <1>3 DEF OperandMissing, AddProcessOverflows, Undefined, LineInv, TypeOK, InStep,
              MainFileLast
<1>4. CASE SetCycleCount
  <2>1. phase = "args" /\ argc > 0
    BY <1>4 DEF SetCycleCount, Option, More
  <2>2. InStep' /\ argv' \in 1 .. Len(args') + 3 /\ argc' \in -2 .. Len(args')
    BY <1>4, <2>1, Advanced DEF SetCycleCount
  <2>3. vm_cycle_count' \in Int
    BY <1>4, <2>1, OnAWord, CommandLineAssumption DEF SetCycleCount
  <2> QED
    BY <1>4, <2>1, <2>2, <2>3 DEF SetCycleCount, LineInv, TypeOK, MainFileLast
<1>5. CASE SetPoolSize
  <2>1. phase = "args" /\ argc > 0
    BY <1>5 DEF SetPoolSize, Option, More
  <2>2. InStep' /\ argv' \in 1 .. Len(args') + 3 /\ argc' \in -2 .. Len(args')
    BY <1>5, <2>1, Advanced DEF SetPoolSize
  <2>3. /\ Value[args[argv + 1]] \in Int /\ poolsz \in Nat
        /\ args[argv + 1] \in Plus => Added[args[argv + 1]] \in Int
    BY <1>5, <2>1, OnAWord, CommandLineAssumption DEF SetPoolSize, LineInv, TypeOK
  <2>4. poolsz' \in Nat
    BY <1>5, <2>3 DEF SetPoolSize, Larger
  <2> QED
    BY <1>5, <2>1, <2>2, <2>4 DEF SetPoolSize, LineInv, TypeOK, MainFileLast
<1>6. CASE AddProcess
  <2>1. phase = "args" /\ argc > 0
    BY <1>6 DEF AddProcess, Option, More
  <2>2. InStep' /\ argv' \in 1 .. Len(args') + 3 /\ argc' \in -2 .. Len(args')
    BY <1>6, <2>1, Advanced DEF AddProcess
  <2>3. vm_processes' \in BoundedSeq(Entries, MaxProcs)
    BY <1>0, <1>6, <2>1, OnAWord, BoundedAppend DEF AddProcess, Entries
  <2> QED
    BY <1>6, <2>1, <2>2, <2>3 DEF AddProcess, LineInv, TypeOK, MainFileLast, Entries
<1>7. CASE IgnoreLisp
  <2>1. phase = "args" /\ argc > 0
    BY <1>7 DEF IgnoreLisp, Option, More
  <2>2. InStep' /\ argv' \in 1 .. Len(args') + 3 /\ argc' \in -2 .. Len(args')
    BY <1>7, <2>1, Advanced DEF IgnoreLisp
  <2> QED
    BY <1>7, <2>1, <2>2 DEF IgnoreLisp, LineInv, TypeOK, MainFileLast
<1>8. CASE AddLisp
  <2>1. phase = "args" /\ phase' = "args"
    BY <1>8 DEF AddLisp, Option
  <2>2. vm_processes' \in BoundedSeq(Entries, MaxProcs)
    BY <1>0, <1>8, BoundedAppend DEF AddLisp, Entries
  <2> QED
    BY <1>8, <2>1, <2>2 DEF AddLisp, LineInv, TypeOK, InStep, MainFileLast, Entries
<1>9. CASE EndOptions
  <2>1. phase = "args" /\ argc > 0
    BY <1>9 DEF EndOptions, Option, More
  <2>2. InStep' /\ argv' \in 1 .. Len(args') + 3 /\ argc' \in -2 .. Len(args')
    BY <1>9, <2>1, Advanced DEF EndOptions
  <2> QED
    BY <1>9, <2>1, <2>2 DEF EndOptions, LineInv, TypeOK, MainFileLast
<1>10. CASE Help \/ InvalidOption \/ LoopEnds \/ NothingToRun
  BY <1>10 DEF Help, InvalidOption, LoopEnds, NothingToRun, Return, LineInv, TypeOK, InStep,
               MainFileLast
<1>11. CASE AddMainFile
  <2>1. InStep' /\ UNCHANGED <<args, argv, argc, early_param_exit>>
    BY <1>11 DEF AddMainFile, LineInv, InStep
  <2>2. CASE ~NamesMainFile \/ Len(vm_processes) = MaxProcs
    BY <1>11, <2>1, <2>2 DEF AddMainFile, NamesMainFile, LineInv, TypeOK, MainFileLast
  <2>3. CASE NamesMainFile /\ Len(vm_processes) # MaxProcs
    <3>1. vm_processes' = Append(vm_processes, args[argv]) /\ args[argv] \in Entries
      BY <1>11, <2>3, OnAWord DEF AddMainFile, NamesMainFile, Entries
    <3>2. Len(vm_processes) < MaxProcs
      <4>1. PICK m \in 0 .. MaxProcs : vm_processes \in [1 .. m -> Entries]
        BY <1>0 DEF BoundedSeq, SeqOf
      <4> QED
        BY <1>0, <2>3, <4>1
    <3>3. /\ vm_processes' \in BoundedSeq(Entries, MaxProcs)
          /\ vm_processes' # <<>>
          /\ vm_processes'[Len(vm_processes')] = args[argv]
      BY <1>0, <3>1, <3>2, BoundedAppend
    <3> QED
      BY <1>11, <2>1, <2>3, <3>3 DEF AddMainFile, LineInv, TypeOK, MainFileLast, Entries
  <2> QED
    BY <2>2, <2>3
<1>12. CASE UNCHANGED vars
  BY <1>12 DEF vars, LineInv, TypeOK, InStep, MainFileLast, NamesMainFile
<1> QED
  BY <1>1, <1>2, <1>3, <1>4, <1>5, <1>6, <1>7, <1>8, <1>9, <1>10, <1>11, <1>12 DEF Next

\* The counts stay in their ranges: argv never leaves the line by more than the
\* two words that -r skips, vm_processes never holds more than its slots.
THEOREM CommandLineTypeCorrect == Spec => []TypeOK
<1>1. LineInv => TypeOK
  BY DEF LineInv
<1> QED
  BY <1>1, LineInit, LineStep, PTL DEF Spec

\* On command lines of any length main passes on words that exist, as many as it
\* says, and the file it names last is the first of them.  (main, 1396-1495)
THEOREM ArgumentsExistAlways == Spec => []ArgumentsExist
<1>1. LineInv => ArgumentsExist
  BY DEF LineInv, InStep, MainFileLast, ArgumentsExist
<1> QED
  BY <1>1, LineInit, LineStep, PTL DEF Spec

-----------------------------------------------------------------------------
(* The reference reading: Place, and where the options end. *)

\* The equation that defines Place.
PlaceOf(f, k) ==
  CASE k > 1 /\ f[k - 1] = "word" /\ WordAt(k - 1) \in WithOperand -> "operand"
    [] k > 2 /\ f[k - 1] = "operand" /\ WordAt(k - 2) = "-r" -> "lost"
    [] OTHER -> "word"

LEMMA PlaceDef ==
  ASSUME Len(args) \in Nat
  PROVE  /\ DOMAIN Place = 1 .. Len(args) + 3
         /\ \A k \in 1 .. Len(args) + 3 : Place[k] = PlaceOf(Place, k)
<1> DEFINE T == {n \in Nat : \E f : f = [k \in 1 .. n |-> PlaceOf(f, k)]}
<1>1. 0 \in T
  <2>1. <<>> = [k \in 1 .. 0 |-> PlaceOf(<<>>, k)]
    OBVIOUS
  <2> QED
    BY <2>1
<1>2. ASSUME NEW n \in Nat, n \in T PROVE n + 1 \in T
  <2>1. PICK f : f = [k \in 1 .. n |-> PlaceOf(f, k)]
    BY <1>2
  <2> DEFINE g == [k \in 1 .. n + 1 |-> IF k = n + 1 THEN PlaceOf(f, k) ELSE f[k]]
  <2>2. \A k \in 1 .. n + 1 : PlaceOf(g, k) = PlaceOf(f, k)
    <3>1. \A k \in 1 .. n + 1 : k > 1 => g[k - 1] = f[k - 1]
      OBVIOUS
    <3> HIDE DEF g
    <3> QED
      BY <3>1 DEF PlaceOf
  <2>3. \A k \in 1 .. n : f[k] = PlaceOf(f, k)
    BY <2>1
  <2>4. g = [k \in 1 .. n + 1 |-> PlaceOf(g, k)]
    <3>1. \A k \in 1 .. n + 1 : g[k] = PlaceOf(g, k)
      <4>1. \A k \in 1 .. n + 1 : g[k] = PlaceOf(f, k)
        BY <2>3
      <4> HIDE DEF g
      <4> QED
        BY <2>2, <4>1
    <3>2. g = [k \in 1 .. n + 1 |-> g[k]]
      OBVIOUS
    <3> HIDE DEF g
    <3> QED
      BY <3>1, <3>2
  <2> HIDE DEF g
  <2> QED
    BY <2>4
<1>3. Len(args) + 3 \in T
  <2> HIDE DEF T
  <2> QED
    BY <1>1, <1>2, Induct
<1>4. \E f : f = [k \in 1 .. Len(args) + 3 |-> PlaceOf(f, k)]
  BY <1>3
<1>5. Place = [k \in 1 .. Len(args) + 3 |-> PlaceOf(Place, k)]
  <2>1. Place = CHOOSE f : f = [k \in 1 .. Len(args) + 3 |-> PlaceOf(f, k)]
    BY DEF Place, PlaceOf
  <2> QED
    BY <1>4, <2>1
<1> QED
  BY <1>5

\* The equation that defines Pool.
PoolOf(f, k) ==
  IF k = 0 THEN PoolSize
  ELSE IF ~(IsOption(k) /\ WordAt(k) = "-p") THEN f[k - 1]
  ELSE LET w == args[k + 1]
           n == IF w \in Plus THEN f[k - 1] + Added[w] ELSE Value[w]
       IN  IF n > f[k - 1] THEN n ELSE f[k - 1]

LEMMA PoolDef ==
  ASSUME Len(args) \in Nat
  PROVE  \A k \in 0 .. Len(args) + 3 : Pool[k] = PoolOf(Pool, k)
<1> DEFINE T == {n \in Nat : \E f : f = [k \in 0 .. n |-> PoolOf(f, k)]}
<1>1. 0 \in T
  <2> DEFINE f == [k \in 0 .. 0 |-> PoolSize]
  <2>1. \A k \in 0 .. 0 : PoolOf(f, k) = PoolSize
    BY DEF PoolOf
  <2>2. f = [k \in 0 .. 0 |-> PoolOf(f, k)]
    <3> HIDE DEF f
    <3>1. [k \in 0 .. 0 |-> PoolOf(f, k)] = [k \in 0 .. 0 |-> PoolSize]
      BY <2>1
    <3> QED
      BY <3>1 DEF f
  <2> HIDE DEF f
  <2> QED
    BY <2>2
<1>2. ASSUME NEW n \in Nat, n \in T PROVE n + 1 \in T
  <2>1. PICK f : f = [k \in 0 .. n |-> PoolOf(f, k)]
    BY <1>2
  <2> DEFINE g == [k \in 0 .. n + 1 |-> IF k = n + 1 THEN PoolOf(f, k) ELSE f[k]]
  <2>2. \A k \in 0 .. n + 1 : PoolOf(g, k) = PoolOf(f, k)
    <3>1. \A k \in 0 .. n + 1 : k # 0 => g[k - 1] = f[k - 1]
      OBVIOUS
    <3> HIDE DEF g
    <3> QED
      BY <3>1 DEF PoolOf
  <2>3. \A k \in 0 .. n : f[k] = PoolOf(f, k)
    BY <2>1
  <2>4. g = [k \in 0 .. n + 1 |-> PoolOf(g, k)]
    <3>1. \A k \in 0 .. n + 1 : g[k] = PoolOf(g, k)
      <4>1. \A k \in 0 .. n + 1 : g[k] = PoolOf(f, k)
        BY <2>3
      <4> HIDE DEF g
      <4> QED
        BY <2>2, <4>1
    <3>2. g = [k \in 0 .. n + 1 |-> g[k]]
      OBVIOUS
    <3> HIDE DEF g
    <3> QED
      BY <3>1, <3>2
  <2> HIDE DEF g
  <2> QED
    BY <2>4
<1>3. Len(args) + 3 \in T
  <2> HIDE DEF T
  <2> QED
    BY <1>1, <1>2, Induct
<1>4. \E f : f = [k \in 0 .. Len(args) + 3 |-> PoolOf(f, k)]
  BY <1>3
<1>5. Pool = [k \in 0 .. Len(args) + 3 |-> PoolOf(Pool, k)]
  <2>1. Pool = CHOOSE f : f = [k \in 0 .. Len(args) + 3 |-> PoolOf(f, k)]
    BY DEF Pool, PoolOf
  <2> QED
    BY <1>4, <2>1
<1> QED
  BY <1>5

\* Only an option -p among some places changes the pool on the way over them.
LEMMA PoolOver ==
  ASSUME Len(args) \in Nat, NEW p \in 1 .. Len(args), NEW n \in 1 .. 3,
         \A j \in p .. p + n - 1 : IsOption(j) <=> j = p
  PROVE  Pool[p + n - 1] = PoolOf(Pool, p)
<1>1. \A k \in 0 .. Len(args) + 3 : Pool[k] = PoolOf(Pool, k)
  BY PoolDef
<1>2. \A k \in p + 1 .. p + n - 1 : Pool[k] = Pool[k - 1]
  <2>1. \A k \in p + 1 .. p + n - 1 : k \in 0 .. Len(args) + 3 /\ k # 0 /\ ~IsOption(k)
    OBVIOUS
  <2> QED
    BY <1>1, <2>1 DEF PoolOf
<1>3. Pool[p] = PoolOf(Pool, p)
  BY <1>1
<1>4. CASE n = 1
  BY <1>3, <1>4
<1>5. CASE n = 2
  <2>1. p + 1 \in p + 1 .. p + n - 1 /\ (p + 1) - 1 = p /\ p + n - 1 = p + 1
    BY <1>5
  <2> QED
    BY <1>2, <1>3, <2>1
<1>6. CASE n = 3
  <2>1. /\ p + 1 \in p + 1 .. p + n - 1 /\ (p + 1) - 1 = p
        /\ p + 2 \in p + 1 .. p + n - 1 /\ (p + 2) - 1 = p + 1 /\ p + n - 1 = p + 2
    BY <1>6
  <2> QED
    BY <1>2, <1>3, <2>1
<1> QED
  BY <1>4, <1>5, <1>6

\* From a word that is read as such to the next one.
LEMMA NextWord ==
  ASSUME args \in Seq(Words), NEW p \in 1 .. Len(args), Place[p] = "word"
  PROVE  /\ WordAt(p) \notin WithOperand => Place[p + 1] = "word"
         /\ WordAt(p) \in {"-c", "-p"} => Place[p + 1] = "operand" /\ Place[p + 2] = "word"
         /\ WordAt(p) = "-r" => /\ Place[p + 1] = "operand" /\ Place[p + 2] = "lost"
                                /\ Place[p + 3] = "word"
<1>1. Len(args) \in Nat
  OBVIOUS
<1>2. \A k \in 1 .. Len(args) + 3 : Place[k] = PlaceOf(Place, k)
  BY <1>1, PlaceDef
<1>3. {p + 1, p + 2, p + 3} \subseteq 1 .. Len(args) + 3
  BY <1>1
<1>4. Place[p + 1] = IF WordAt(p) \in WithOperand THEN "operand" ELSE "word"
  <2>1. Place[p + 1] = PlaceOf(Place, p + 1)
    BY <1>2, <1>3
  <2>2. p + 1 > 1 /\ (p + 1) - 1 = p
    BY <1>1
  <2> QED
    BY <2>1, <2>2 DEF PlaceOf
<1>5. Place[p + 1] = "operand" =>
        Place[p + 2] = IF WordAt(p) = "-r" THEN "lost" ELSE "word"
  <2>1. Place[p + 2] = PlaceOf(Place, p + 2)
    BY <1>2, <1>3
  <2>2. p + 2 > 1 /\ p + 2 > 2 /\ (p + 2) - 1 = p + 1 /\ (p + 2) - 2 = p
    BY <1>1
  <2> QED
    BY <2>1, <2>2 DEF PlaceOf
<1>6. Place[p + 2] = "lost" => Place[p + 3] = "word"
  <2>1. Place[p + 3] = PlaceOf(Place, p + 3)
    BY <1>2, <1>3
  <2>2. p + 3 > 1 /\ (p + 3) - 1 = p + 2
    BY <1>1
  <2> QED
    BY <2>1, <2>2 DEF PlaceOf
<1> QED
  BY <1>4, <1>5, <1>6 DEF WithOperand

\* An option is a word of the line.
LEMMA OptionInside ==
  ASSUME args \in Seq(Words), NEW p \in 1 .. Len(args) + 3, WordAt(p) \in Options
  PROVE  p \in 1 .. Len(args) /\ WordAt(p) = args[p]
<1>1. Null \notin Options /\ Beyond \notin Options
  BY DEF Null, Beyond, Options, Flags, WithOperand
<1>2. Len(args) \in Nat
  OBVIOUS
<1> QED
  BY <1>1, <1>2 DEF WordAt

\* The options end somewhere, at the latest behind what a last -r takes.
LEMMA EndExists ==
  ASSUME args \in Seq(Words)
  PROVE  \E k \in 1 .. Len(args) + 3 : OptionsEndAt(k)
<1>1. Len(args) \in Nat
  OBVIOUS
<1>2. \A k \in 1 .. Len(args) + 3 : Place[k] = PlaceOf(Place, k)
  BY <1>1, PlaceDef
<1> DEFINE m == Len(args) + 1
<1>3. /\ Place[m] \in {"word", "operand", "lost"} /\ Place[m + 1] \in {"word", "operand", "lost"}
      /\ (Place[m] = "operand" => Place[m + 1] \in {"word", "lost"})
      /\ (Place[m] = "lost" => Place[m + 1] = "word")
      /\ (Place[m + 1] = "lost" => Place[m + 2] = "word")
  <2>1. /\ \A f, k : PlaceOf(f, k) \in {"word", "operand", "lost"}
        /\ \A f, k : PlaceOf(f, k) = "operand" => f[k - 1] = "word"
        /\ \A f, k : PlaceOf(f, k) = "lost" => f[k - 1] = "operand"
    BY DEF PlaceOf
  <2>2. /\ Place[m] = PlaceOf(Place, m) /\ Place[m + 1] = PlaceOf(Place, m + 1)
        /\ Place[m + 2] = PlaceOf(Place, m + 2)
    BY <1>1, <1>2
  <2>3. (m + 1) - 1 = m /\ (m + 2) - 1 = m + 1
    BY <1>1
  <2> HIDE DEF m
  <2> QED
    BY <2>1, <2>2, <2>3
<1>4. \A k \in m .. m + 2 : Place[k] = "word" => OptionsEndAt(k)
  BY <1>1, OptionInside DEF OptionsEndAt, IsOption
<1>5. m .. m + 2 \subseteq 1 .. Len(args) + 3
  BY <1>1
<1>6. \E k \in m .. m + 2 : Place[k] = "word"
  <2>1. m \in m .. m + 2 /\ m + 1 \in m .. m + 2 /\ m + 2 \in m .. m + 2
    BY <1>1
  <2>2. Place[m] = "word" \/ Place[m + 1] = "word" \/ Place[m + 2] = "word"
        \/ Place[m] = "operand" \/ Place[m] = "lost"
    BY <1>3
  <2> HIDE DEF m
  <2> QED
    BY <1>3, <2>1, <2>2
<1> QED
  BY <1>4, <1>5, <1>6

LEMMA EndIsFirst ==
  ASSUME args \in Seq(Words)
  PROVE  /\ End \in 1 .. Len(args) + 3 /\ OptionsEndAt(End)
         /\ \A j \in 1 .. End - 1 : ~OptionsEndAt(j)
<1>1. Len(args) \in Nat
  OBVIOUS
<1> DEFINE T == {k \in 1 .. Len(args) + 3 : OptionsEndAt(k)}
<1>2. T \subseteq Nat /\ T # {}
  BY EndExists
<1>3. PICK k \in T : \A j \in T : k <= j
  <2> HIDE DEF T
  <2> QED
    BY <1>2, Least
<1>4. k \in 1 .. Len(args) + 3 /\ OptionsEndAt(k) /\ \A j \in 1 .. k - 1 : ~OptionsEndAt(j)
  <2>1. ASSUME NEW j \in 1 .. k - 1, OptionsEndAt(j) PROVE FALSE
    <3>1. j \in T /\ j < k
      BY <1>1, <1>3, <2>1
    <3> QED
      BY <1>1, <1>3, <3>1
  <2> QED
    BY <1>3, <2>1
<1> QED
  BY <1>4 DEF End

\* A place with no end before it lies before the end or is it.
LEMMA AtEnd ==
  ASSUME args \in Seq(Words), NEW p \in 1 .. Len(args) + 3,
         \A j \in 1 .. p - 1 : ~OptionsEndAt(j)
  PROVE  /\ OptionsEndAt(p) => p = End
         /\ ~OptionsEndAt(p) => p < End
<1>1. /\ End \in 1 .. Len(args) + 3 /\ OptionsEndAt(End)
      /\ \A j \in 1 .. End - 1 : ~OptionsEndAt(j)
  BY EndIsFirst
<1>2. Len(args) \in Nat
  OBVIOUS
<1>3. ~(End < p)
  BY <1>1, <1>2
<1> QED
  BY <1>1, <1>2, <1>3

-----------------------------------------------------------------------------
\* What the words before argv are, and what they have done.
Scanned ==
  /\ Place[argv] = "word"
  /\ \A j \in 1 .. argv - 1 : ~OptionsEndAt(j)
  /\ early_param_exit <=> EndedBefore(argv)

Passed(w) == {k \in 1 .. argv - 1 : IsOption(k) /\ WordAt(k) = w}

FilesEntered ==
  /\ Len(vm_processes) = Cardinality(Passed("-r"))
  /\ \A k \in Passed("-r") : vm_processes[Rank(k, Passed("-r"))] = WordAt(k + 1)

\* -L has ended the options, and lisp4.c is the last file.
LispRead ==
  /\ early_param_exit /\ EndedByLisp
  /\ Len(vm_processes) = FilesGiven /\ vm_processes[FilesGiven] = Lisp4
  /\ \A k \in Given("-r") : vm_processes[Rank(k, Given("-r"))] = WordAt(k + 1)

FlagsSet == set = {w \in {"-d", "-v", "-M"} : Passed(w) # {}}

SourceShown ==
  LET ss == Passed("-s") \cup Passed("-X") IN
    /\ src = 0 <=> ss = {}
    /\ \A k \in ss : (\A j \in ss : j <= k) => src = IF args[k] = "-s" THEN 1 ELSE 2

CyclesCounted ==
  /\ Passed("-c") = {} => vm_cycle_count = 1000
  /\ \A k \in Passed("-c") :
       (\A j \in Passed("-c") : j <= k) => vm_cycle_count = Value[args[k + 1]]

PoolSized == poolsz = Pool[argv - 1]

Effects == FlagsSet /\ SourceShown /\ CyclesCounted /\ PoolSized

LineRead ==
  /\ phase = "args" => (Scanned /\ FilesEntered) \/ (LispRead /\ argv = End)
  /\ phase = "checks" => (Scanned /\ FilesEntered /\ ~EndedByLisp) \/ LispRead
  /\ phase \in {"args", "checks", "start"} => Effects
  /\ phase \in {"checks", "start"} => argv = End

\* The reference reads the line, which no step changes.
LEMMA SameWords ==
  ASSUME args' = args
  PROVE  /\ Place' = Place
         /\ \A k : /\ WordAt(k)' = WordAt(k) /\ (IsOption(k)' <=> IsOption(k))
                   /\ (EndedBefore(k)' <=> EndedBefore(k))
         /\ Pool' = Pool
<1>1. \A k : WordAt(k)' = WordAt(k)
  BY DEF WordAt
<1>2. Place' = Place
  BY <1>1 DEF Place
<1>3. \A k : IsOption(k)' <=> IsOption(k)
  BY <1>1, <1>2 DEF IsOption
<1>4. \A k : EndedBefore(k)' <=> EndedBefore(k)
  BY <1>3 DEF EndedBefore
<1>5. Pool' = Pool
  BY <1>1, <1>3 DEF Pool
<1> QED
  BY <1>1, <1>2, <1>3, <1>4, <1>5

LEMMA SameLine ==
  ASSUME args' = args, native' = native
  PROVE  /\ End' = End /\ (EndedByFile' <=> EndedByFile) /\ (EndedByLisp' <=> EndedByLisp)
         /\ \A k : OptionsEndAt(k)' <=> OptionsEndAt(k)
         /\ \A w : Given(w)' = Given(w)
         /\ FilesGiven' = FilesGiven /\ LastFile' = LastFile
<1>1. \A k : StartsLisp(k)' <=> StartsLisp(k)
  BY SameWords DEF StartsLisp
<1>2. \A k : OptionsEndAt(k)' <=> OptionsEndAt(k)
  BY <1>1, SameWords DEF OptionsEndAt
<1>3. End' = End
  BY <1>2 DEF End
<1>4. (EndedByFile' <=> EndedByFile) /\ (EndedByLisp' <=> EndedByLisp)
  BY <1>1, <1>3, SameWords DEF EndedByFile, EndedByLisp
<1>5. \A w : Given(w)' = Given(w)
  BY <1>3, SameWords DEF Given
<1>6. FilesGiven' = FilesGiven /\ LastFile' = LastFile
  BY <1>3, <1>4, <1>5 DEF FilesGiven, LastFile
<1> QED
  BY <1>2, <1>3, <1>4, <1>5, <1>6

\* How many words an option takes up, with the words it skips.
Width(w) == IF w \in {"-c", "-p"} THEN 2 ELSE IF w = "-r" THEN 3 ELSE 1

\* An option, what belongs to it and what it skips, up to the next word.
LEMMA Forward ==
  ASSUME args \in Seq(Words), NEW p \in 1 .. Len(args), NEW n \in 1 .. 3,
         Place[p] = "word", WordAt(p) \in Options, n = Width(WordAt(p)),
         ~EndedBefore(p), ~StartsLisp(p)
  PROVE  /\ p + n \in 1 .. Len(args) + 3 /\ Place[p + n] = "word"
         /\ \A j \in p .. p + n - 1 : ~OptionsEndAt(j) /\ (IsOption(j) <=> j = p)
         /\ EndedBefore(p + n) <=> WordAt(p) = "--"
<1>1. Len(args) \in Nat
  OBVIOUS
<1>2. IsOption(p) /\ WordAt(p) = args[p]
  BY OptionInside DEF IsOption
<1>3. CASE n = 1
  <2>1. WordAt(p) \notin WithOperand
    BY <1>3 DEF Width, WithOperand
  <2>2. Place[p + 1] = "word"
    BY <2>1, NextWord
  <2>3. p + n - 1 = p /\ p .. p + n - 1 = {p}
    BY <1>1, <1>3
  <2>4. ~OptionsEndAt(p)
    BY <1>2 DEF OptionsEndAt
  <2>5. EndedBefore(p + n) <=> WordAt(p) = "--"
    BY <1>1, <1>2, <1>3, <2>3 DEF EndedBefore
  <2> QED
    BY <1>1, <1>2, <1>3, <2>2, <2>3, <2>4, <2>5
<1>4. CASE n = 2
  <2>1. WordAt(p) \in {"-c", "-p"}
    BY <1>4 DEF Width
  <2>2. Place[p + 1] = "operand" /\ Place[p + 2] = "word"
    BY <2>1, NextWord
  <2>3. p + n - 1 = p + 1 /\ p .. p + n - 1 = {p, p + 1} /\ (p + 1) - 1 = p
    BY <1>1, <1>4
  <2>4. ~IsOption(p + 1)
    BY <2>2 DEF IsOption
  <2>5. ~OptionsEndAt(p) /\ ~OptionsEndAt(p + 1)
    BY <1>2, <2>1, <2>2, <2>3, <2>4 DEF OptionsEndAt, EndedBefore, StartsLisp
  <2>6. \A j \in p .. p + n - 1 : ~OptionsEndAt(j) /\ (IsOption(j) <=> j = p)
    BY <1>1, <1>2, <2>3, <2>4, <2>5
  <2>7. WordAt(p) # "--" /\ ~EndedBefore(p + n)
    BY <2>1, <2>3, <2>4 DEF EndedBefore
  <2> QED
    BY <1>1, <1>4, <2>2, <2>6, <2>7
<1>5. CASE n = 3
  <2>1. WordAt(p) = "-r"
    BY <1>5 DEF Width
  <2>2. Place[p + 1] = "operand" /\ Place[p + 2] = "lost" /\ Place[p + 3] = "word"
    BY <2>1, NextWord
  <2>3. /\ p + n - 1 = p + 2 /\ p .. p + n - 1 = {p, p + 1, p + 2}
        /\ (p + 1) - 1 = p /\ (p + 2) - 1 = p + 1
    BY <1>1, <1>5
  <2>4. ~IsOption(p + 1) /\ ~IsOption(p + 2)
    BY <2>2 DEF IsOption
  <2>5. ~OptionsEndAt(p) /\ ~OptionsEndAt(p + 1) /\ ~OptionsEndAt(p + 2)
    BY <1>2, <2>1, <2>2, <2>3, <2>4 DEF OptionsEndAt, EndedBefore, StartsLisp
  <2>6. \A j \in p .. p + n - 1 : ~OptionsEndAt(j) /\ (IsOption(j) <=> j = p)
    BY <1>1, <1>2, <2>3, <2>4, <2>5
  <2>7. WordAt(p) # "--" /\ ~EndedBefore(p + n)
    BY <2>1, <2>3, <2>4 DEF EndedBefore
  <2> QED
    BY <1>1, <1>5, <2>2, <2>6, <2>7
<1> QED
  BY <1>3, <1>4, <1>5

\* An option the loop takes is an option of the reference, before its end or, if
\* it is -L under C4, the end.
LEMMA OnOption ==
  ASSUME LineInv, Scanned, More
  PROVE  /\ argv \in 1 .. Len(args) /\ WordAt(argv) = args[argv] /\ args[argv] \in Options
         /\ IsOption(argv) /\ ~EndedBefore(argv)
         /\ ~StartsLisp(argv) => argv < End
         /\ StartsLisp(argv) => argv = End /\ EndedByLisp
<1>1. argv \in 1 .. Len(args) /\ WordAt(argv) = args[argv] /\ args[argv] \in Options
  BY OnAWord DEF More
<1>2. IsOption(argv) /\ ~EndedBefore(argv)
  BY <1>1 DEF IsOption, Scanned, More
<1>3. OptionsEndAt(argv) <=> StartsLisp(argv)
  BY <1>2 DEF OptionsEndAt
<1>4. argv \in 1 .. Len(args) + 3 /\ args \in Seq(Words)
  BY DEF LineInv, TypeOK, InStep
<1>5. ~StartsLisp(argv) => argv < End
  BY <1>3, <1>4, AtEnd DEF Scanned
<1>6. StartsLisp(argv) => argv = End
  BY <1>3, <1>4, AtEnd DEF Scanned
<1> QED
  BY <1>1, <1>2, <1>5, <1>6 DEF EndedByLisp

\* The loop's own step: the option counts as passed, what belongs to it is skipped.
LEMMA Advances ==
  ASSUME LineInv, Scanned, More, args' = args, native' = native, ~StartsLisp(argv),
         Advance(Width(args[argv])), early_param_exit' <=> early_param_exit \/ args[argv] = "--"
  PROVE  /\ Scanned'
         /\ \A w : Passed(w)' = IF w = args[argv] THEN Passed(w) \cup {argv} ELSE Passed(w)
         /\ Pool[argv' - 1] = PoolOf(Pool, argv)
<1> DEFINE p == argv
           n == Width(args[argv])
<1>0. args \in Seq(Words) /\ Len(args) \in Nat /\ argv \in Nat /\ ~early_param_exit
  BY OnAWord DEF LineInv, InStep, TypeOK, More
<1>1. /\ p \in 1 .. Len(args) /\ WordAt(p) = args[p] /\ WordAt(p) \in Options
      /\ IsOption(p) /\ Place[p] = "word" /\ n \in 1 .. 3 /\ n = Width(WordAt(p))
      /\ ~EndedBefore(p) /\ ~StartsLisp(p)
  BY OnOption DEF Scanned, Width
<1>2. /\ p + n \in 1 .. Len(args) + 3 /\ Place[p + n] = "word"
      /\ \A j \in p .. p + n - 1 : ~OptionsEndAt(j) /\ (IsOption(j) <=> j = p)
      /\ EndedBefore(p + n) <=> WordAt(p) = "--"
  BY <1>0, <1>1, Forward
<1>3. argv' = p + n
  BY DEF Advance
<1>4. Scanned'
  <2>1. Place'[argv'] = "word"
    BY <1>2, <1>3, SameWords
  <2>2. \A j \in 1 .. p + n - 1 : ~OptionsEndAt(j)
    BY <1>0, <1>1, <1>2 DEF Scanned
  <2>4. \A j \in 1 .. argv' - 1 : ~OptionsEndAt(j)'
    <3>1. \A j : OptionsEndAt(j)' <=> OptionsEndAt(j)
      BY SameLine
    <3>2. 1 .. argv' - 1 = 1 .. p + n - 1
      BY <1>0, <1>1, <1>3
    <3> QED
      BY <2>2, <3>1, <3>2
  <2>5. EndedBefore(argv)' <=> EndedBefore(p + n)
    BY <1>3, SameWords DEF EndedBefore
  <2>6. early_param_exit' <=> EndedBefore(argv)'
    BY <1>0, <1>1, <1>2, <2>5
  <2> QED
    BY <2>1, <2>4, <2>6 DEF Scanned
<1>5. ASSUME NEW w
      PROVE  Passed(w)' = IF w = args[argv] THEN Passed(w) \cup {argv} ELSE Passed(w)
  <2>1. Passed(w)' = {k \in 1 .. p + n - 1 : IsOption(k) /\ WordAt(k) = w}
    <3>1. Place' = Place /\ args' = args
      BY SameWords
    <3> QED
      BY <1>0, <1>1, <1>3, <3>1 DEF Passed, IsOption, WordAt
  <2>2. 1 .. p + n - 1 = (1 .. p - 1) \cup (p .. p + n - 1) /\ p \in p .. p + n - 1
    BY <1>0, <1>1
  <2>3. \A k \in p .. p + n - 1 : IsOption(k) <=> k = p
    BY <1>2
  <2> HIDE DEF p, n
  <2>4. \A k : k \in Passed(w)' <=>
               (k \in 1 .. p - 1 /\ IsOption(k) /\ WordAt(k) = w) \/ (k = p /\ WordAt(p) = w)
    BY <1>1, <2>1, <2>2, <2>3
  <2> QED
    BY <1>1, <2>4 DEF Passed, p
<1>6. Pool[argv' - 1] = PoolOf(Pool, argv)
  <2>1. Pool[p + n - 1] = PoolOf(Pool, p)
    BY <1>0, <1>1, <1>2, PoolOver
  <2>2. argv' - 1 = p + n - 1
    BY <1>0, <1>1, <1>3
  <2> QED
    BY <2>1, <2>2
<1> QED
  BY <1>4, <1>5, <1>6

\* A place behind all of a set's counts one more, and disturbs no rank.
LEMMA RankOfNext ==
  ASSUME NEW p \in Nat, NEW S, S \subseteq 1 .. p - 1
  PROVE  /\ IsFiniteSet(S) /\ Cardinality(S) \in Nat
         /\ Cardinality(S \cup {p}) = Cardinality(S) + 1
         /\ Rank(p, S \cup {p}) = Cardinality(S) + 1
         /\ \A k \in S : Rank(k, S \cup {p}) = Rank(k, S) /\ Rank(k, S) \in 1 .. Cardinality(S)
<1>1. IsFiniteSet(S)
  <2>1. IsFiniteSet(1 .. p - 1) /\ S \in SUBSET (1 .. p - 1)
    <3>1. 1 \in Int /\ p - 1 \in Int
      OBVIOUS
    <3> QED
      BY <3>1, FS_Interval
  <2> QED
    BY <2>1, FS_Subset
<1>2. Cardinality(S) \in Nat
  BY <1>1, FS_CardinalityType
<1>3. p \notin S
  OBVIOUS
<1>4. Cardinality(S \cup {p}) = Cardinality(S) + 1
  BY <1>1, <1>3, FS_AddElement
<1>5. Rank(p, S \cup {p}) = Cardinality(S) + 1
  <2>1. \A j \in S \cup {p} : j <= p
    OBVIOUS
  <2>2. {j \in S \cup {p} : j <= p} = S \cup {p}
    BY <2>1, Zenon
  <2> QED
    BY <1>4, <2>2 DEF Rank
<1>6. ASSUME NEW k \in S
      PROVE  Rank(k, S \cup {p}) = Rank(k, S) /\ Rank(k, S) \in 1 .. Cardinality(S)
  <2> DEFINE T == {j \in S : j <= k}
  <2>1. {j \in S \cup {p} : j <= k} = T
    OBVIOUS
  <2>2. T \in SUBSET S /\ T # {}
    OBVIOUS
  <2>3. IsFiniteSet(T) /\ Cardinality(T) <= Cardinality(S)
    BY <1>1, <2>2, FS_Subset
  <2>4. Cardinality(T) \in Nat /\ Cardinality(T) # 0
    BY <2>2, <2>3, FS_CardinalityType, FS_EmptySet
  <2>5. Rank(k, S \cup {p}) = Cardinality(T) /\ Rank(k, S) = Cardinality(T)
    BY <2>1 DEF Rank
  <2> QED
    BY <1>2, <2>3, <2>4, <2>5
<1> QED
  BY <1>1, <1>2, <1>4, <1>5, <1>6

\* What one option leaves of each effect.  o is the option at argv.
PassedOne(o) ==
  \A w : Passed(w)' = IF w = o THEN Passed(w) \cup {argv} ELSE Passed(w)

\* One option more keeps each of the effects; -r enters the file of its rank.
LEMMA FilesStep ==
  ASSUME LineInv, FilesEntered, args' = args, NEW o, PassedOne(o),
         o = "-r" => vm_processes' = Append(vm_processes, WordAt(argv + 1)),
         o # "-r" => vm_processes' = vm_processes
  PROVE  FilesEntered'
<1> DEFINE S == Passed("-r")
<1>0. /\ argv \in Nat /\ S \subseteq 1 .. argv - 1 /\ \A k : WordAt(k)' = WordAt(k)
      /\ Passed("-r")' = IF "-r" = o THEN S \cup {argv} ELSE S
  <2>1. \A k : WordAt(k)' = WordAt(k)
    BY SameWords
  <2>2. argv \in Nat /\ S \subseteq 1 .. argv - 1
    BY DEF Passed, LineInv, TypeOK
  <2> QED
    BY <2>1, <2>2 DEF PassedOne
<1>1. CASE o # "-r"
  BY <1>0, <1>1 DEF FilesEntered
<1>2. CASE o = "-r"
  <2>1. vm_processes \in Seq(Entries)
    <3>1. vm_processes \in BoundedSeq(Entries, MaxProcs)
      BY DEF LineInv, TypeOK, Entries
    <3> QED
      BY <3>1, CommandLineAssumption DEF BoundedSeq, SeqOf
  <2>2. PICK m \in Nat : m = Len(vm_processes)
    BY <2>1
  <2>3. /\ m = Cardinality(S) /\ Cardinality(S \cup {argv}) = m + 1
        /\ Rank(argv, S \cup {argv}) = m + 1
        /\ \A k \in S : Rank(k, S \cup {argv}) = Rank(k, S) /\ Rank(k, S) \in 1 .. m
    <3>1. m = Cardinality(S)
      BY <2>2 DEF FilesEntered
    <3> HIDE DEF S
    <3> QED
      BY <1>0, <3>1, RankOfNext
  <2>4. WordAt(argv + 1) \in Entries \cup {Beyond}
    BY CommandLineAssumption DEF WordAt, LineInv, InStep, TypeOK, Entries
  <2>5. /\ Len(vm_processes') = m + 1 /\ vm_processes'[m + 1] = WordAt(argv + 1)
        /\ \A i \in 1 .. m : vm_processes'[i] = vm_processes[i]
    BY <1>2, <2>1, <2>2
  <2>6. \A k \in S \cup {argv} : vm_processes'[Rank(k, S \cup {argv})] = WordAt(k + 1)
    <3>1. \A k \in S : vm_processes[Rank(k, S)] = WordAt(k + 1)
      BY DEF FilesEntered
    <3> HIDE DEF S
    <3> QED
      BY <2>3, <2>5, <3>1
  <2> QED
    BY <1>0, <1>2, <2>3, <2>5, <2>6 DEF FilesEntered
<1> QED
  BY <1>1, <1>2

LEMMA FlagsStep ==
  ASSUME FlagsSet, NEW o, PassedOne(o),
         set' = IF o \in {"-d", "-v", "-M"} THEN set \cup {o} ELSE set
  PROVE  FlagsSet'
<1>1. \A w : Passed(w)' # {} <=> Passed(w) # {} \/ w = o
  BY DEF PassedOne
<1>2. \A w : w \in set <=> w \in {"-d", "-v", "-M"} /\ Passed(w) # {}
  BY DEF FlagsSet
<1>3. \A w : w \in set' <=> w \in set \/ (w = o /\ o \in {"-d", "-v", "-M"})
  OBVIOUS
<1> QED
  BY <1>1, <1>2, <1>3 DEF FlagsSet

LEMMA SourceStep ==
  ASSUME LineInv, SourceShown, args' = args, NEW o, PassedOne(o), args[argv] = o,
         src' = IF o = "-s" THEN 1 ELSE IF o = "-X" THEN 2 ELSE src
  PROVE  SourceShown'
<1> DEFINE S == Passed("-s") \cup Passed("-X")
<1>0. argv \in Nat /\ S \subseteq 1 .. argv - 1
  BY DEF Passed, LineInv, TypeOK
<1>1. (Passed("-s") \cup Passed("-X"))' = IF o \in {"-s", "-X"} THEN S \cup {argv} ELSE S
  BY DEF PassedOne
<1>2. CASE o \notin {"-s", "-X"}
  BY <1>1, <1>2 DEF SourceShown
<1>3. CASE o \in {"-s", "-X"}
  <2>1. \A k \in S \cup {argv} : (\A j \in S \cup {argv} : j <= k) => k = argv
    BY <1>0
  <2>2. o = "-s" => src' = 1
    OBVIOUS
  <2>3. o # "-s" => src' = 2
    BY <1>3
  <2>4. args'[argv] = o
    OBVIOUS
  <2>5. src' # 0 /\ src' = IF args'[argv] = "-s" THEN 1 ELSE 2
    <3>1. src' = IF o = "-s" THEN 1 ELSE 2
      BY <2>2, <2>3, Zenon
    <3>2. src' # 0
      BY <3>1
    <3> QED
      BY <2>4, <3>1, <3>2, Zenon
  <2>6. (Passed("-s") \cup Passed("-X"))' = S \cup {argv}
    BY <1>1, <1>3
  <2> HIDE DEF S
  <2> QED
    BY <2>1, <2>5, <2>6 DEF SourceShown
<1> QED
  BY <1>2, <1>3

LEMMA CyclesStep ==
  ASSUME LineInv, CyclesCounted, args' = args, NEW o, PassedOne(o),
         vm_cycle_count' = IF o = "-c" THEN Value[args[argv + 1]] ELSE vm_cycle_count
  PROVE  CyclesCounted'
<1> DEFINE S == Passed("-c")
<1>0. argv \in Nat /\ S \subseteq 1 .. argv - 1
  BY DEF Passed, LineInv, TypeOK
<1>1. Passed("-c")' = IF o = "-c" THEN S \cup {argv} ELSE S
  BY DEF PassedOne
<1>2. CASE o # "-c"
  BY <1>1, <1>2 DEF CyclesCounted
<1>3. CASE o = "-c"
  <2>1. \A k \in S \cup {argv} : (\A j \in S \cup {argv} : j <= k) => k = argv
    BY <1>0
  <2> HIDE DEF S
  <2> QED
    BY <1>1, <1>3, <2>1 DEF CyclesCounted
<1> QED
  BY <1>2, <1>3

\* The size that -p asks for.
Asked(size) ==
  IF args[argv + 1] \in Plus THEN size + Added[args[argv + 1]] ELSE Value[args[argv + 1]]

LEMMA PoolStep ==
  ASSUME LineInv, PoolSized, args' = args, NEW o, args[argv] = o, More, IsOption(argv),
         Pool[argv' - 1] = PoolOf(Pool, argv),
         poolsz' = IF o = "-p" /\ Asked(poolsz) > poolsz THEN Asked(poolsz) ELSE poolsz
  PROVE  PoolSized'
<1>1. argv \in Nat /\ argv # 0 /\ WordAt(argv) = o
  BY OnAWord DEF LineInv, TypeOK, More
<1>2. PoolOf(Pool, argv)
        = IF o = "-p" /\ Asked(poolsz) > poolsz THEN Asked(poolsz) ELSE poolsz
  BY <1>1 DEF PoolOf, PoolSized, Asked
<1>3. Pool' = Pool
  BY SameWords
<1> QED
  BY <1>2, <1>3 DEF PoolSized

\* Every action that takes an option is one of these steps.
LEMMA OptionTaken ==
  ASSUME LineInv, LineInv', LineRead, phase = "args", More, phase' = "args",
         args' = args, native' = native, NEW o, args[argv] = o, native \/ o # "-L",
         argv' = argv + Width(o), argc' = argc - Width(o),
         early_param_exit' <=> early_param_exit \/ o = "--",
         o = "-r" => vm_processes' = Append(vm_processes, WordAt(argv + 1)),
         o # "-r" => vm_processes' = vm_processes,
         set' = IF o \in {"-d", "-v", "-M"} THEN set \cup {o} ELSE set,
         src' = IF o = "-s" THEN 1 ELSE IF o = "-X" THEN 2 ELSE src,
         vm_cycle_count' = IF o = "-c" THEN Value[args[argv + 1]] ELSE vm_cycle_count,
         poolsz' = IF o = "-p" /\ Asked(poolsz) > poolsz THEN Asked(poolsz) ELSE poolsz
  PROVE  LineRead'
<1>1. Scanned /\ FilesEntered /\ Effects
  BY DEF LineRead, LispRead, More
<1>2. ~StartsLisp(argv)
  BY DEF StartsLisp
<1>3. Scanned' /\ PassedOne(o) /\ Pool[argv' - 1] = PoolOf(Pool, argv)
  BY <1>1, <1>2, Advances DEF PassedOne, Advance
<1>4. FilesEntered'
  BY <1>1, <1>3, FilesStep
<1>5. FlagsSet'
  BY <1>1, <1>3, FlagsStep DEF Effects
<1>6. SourceShown'
  BY <1>1, <1>3, SourceStep DEF Effects
<1>7. CyclesCounted'
  BY <1>1, <1>3, CyclesStep DEF Effects
<1>8. PoolSized'
  BY <1>1, <1>3, OnOption, PoolStep DEF Effects
<1> QED
  BY <1>3, <1>4, <1>5, <1>6, <1>7, <1>8 DEF LineRead, Effects

\* A step that takes nothing leaves what was passed.
LEMMA Unmoved ==
  ASSUME args' = args, native' = native, argv' = argv
  PROVE  /\ \A w : Passed(w)' = Passed(w)
         /\ UNCHANGED early_param_exit => (Scanned' <=> Scanned)
         /\ UNCHANGED vm_processes => (FilesEntered' <=> FilesEntered)
         /\ UNCHANGED <<early_param_exit, vm_processes>> => (LispRead' <=> LispRead)
         /\ UNCHANGED <<set, src, vm_cycle_count, poolsz>> => (Effects' <=> Effects)
<1>1. Place' = Place /\ Pool' = Pool
      /\ \A k : WordAt(k)' = WordAt(k) /\ (IsOption(k)' <=> IsOption(k))
      /\ \A j : EndedBefore(j)' <=> EndedBefore(j)
  BY SameWords
<1>2. \A w : Passed(w)' = Passed(w)
  BY <1>1 DEF Passed, IsOption, WordAt
<1>3. early_param_exit' = early_param_exit => (Scanned' <=> Scanned)
  BY <1>1, SameLine DEF Scanned, EndedBefore, IsOption
<1>4. UNCHANGED vm_processes => (FilesEntered' <=> FilesEntered)
  BY <1>1, <1>2 DEF FilesEntered
<1>5. UNCHANGED <<early_param_exit, vm_processes>> => (LispRead' <=> LispRead)
  BY <1>1, SameLine DEF LispRead
<1>6. UNCHANGED <<set, src, vm_cycle_count, poolsz>> => (Effects' <=> Effects)
  BY <1>1, <1>2 DEF Effects, FlagsSet, SourceShown, CyclesCounted, PoolSized
<1> QED
  BY <1>2, <1>3, <1>4, <1>5, <1>6

\* The files passed before argv, and the one it is on, are files given.
LEMMA PassedGiven ==
  ASSUME LineInv, Scanned
  PROVE  /\ argv \in 1 .. End /\ End \in Nat
         /\ \A w : IsFiniteSet(Given(w)) /\ Cardinality(Given(w)) \in Nat
         /\ \A w : Passed(w) \subseteq Given(w)
         /\ argv = End => \A w : Passed(w) = Given(w)
<1>1. args \in Seq(Words) /\ argv \in 1 .. Len(args) + 3 /\ End \in 1 .. Len(args) + 3
      /\ Len(args) \in Nat
  BY EndIsFirst DEF LineInv, InStep, TypeOK
<1>2. argv \in 1 .. End /\ End \in Nat
  BY <1>1, AtEnd DEF Scanned
<1>3. ASSUME NEW w PROVE IsFiniteSet(Given(w)) /\ Cardinality(Given(w)) \in Nat
  <2>1. IsFiniteSet(1 .. End - 1) /\ Given(w) \in SUBSET (1 .. End - 1)
    <3>1. 1 \in Int /\ End - 1 \in Int
      BY <1>2
    <3> QED
      BY <3>1, FS_Interval DEF Given
  <2> QED
    BY <2>1, FS_Subset, FS_CardinalityType
<1>4. \A w : Passed(w) \subseteq Given(w)
  BY <1>2 DEF Passed, Given
<1>5. argv = End => \A w : Passed(w) = Given(w)
  BY DEF Passed, Given
<1> QED
  BY <1>2, <1>3, <1>4, <1>5

\* Reaching an option that finds no room, one more file is named than has room.
LEMMA NoRoomLeft ==
  ASSUME LineInv, Scanned, FilesEntered, More,
         args[argv] = "-r" \/ (~native /\ args[argv] = "-L")
  PROVE  FilesGiven > Len(vm_processes)
<1>0. CASE args[argv] = "-L"
  <2>1. argv = End /\ EndedByLisp
    BY <1>0, OnOption DEF StartsLisp
  <2>2. Passed("-r") = Given("-r") /\ Cardinality(Given("-r")) \in Nat
    BY <2>1, PassedGiven
  <2>3. FilesGiven = Cardinality(Given("-r")) + 1
    BY <2>1 DEF FilesGiven
  <2> QED
    BY <2>2, <2>3 DEF FilesEntered
<1> SUFFICES ASSUME args[argv] = "-r" PROVE FilesGiven > Len(vm_processes)
  BY <1>0
<1> DEFINE S == Passed("-r")
<1>1. argv \in 1 .. Len(args) /\ WordAt(argv) = "-r" /\ IsOption(argv) /\ argv < End
  BY OnOption DEF StartsLisp
<1>2. /\ argv \in 1 .. End /\ End \in Nat /\ IsFiniteSet(Given("-r"))
      /\ Cardinality(Given("-r")) \in Nat /\ S \subseteq Given("-r")
  BY PassedGiven
<1>3. argv \in Given("-r")
  BY <1>1, <1>2 DEF Given
<1>4. S \cup {argv} \in SUBSET Given("-r")
  BY <1>2, <1>3
<1>5. /\ S \subseteq 1 .. argv - 1 /\ argv \in Nat
  BY <1>2 DEF Passed
<1>6. Cardinality(S \cup {argv}) = Cardinality(S) + 1 /\ Cardinality(S) \in Nat
  <2> HIDE DEF S
  <2> QED
    BY <1>5, RankOfNext
<1>7. Cardinality(S \cup {argv}) <= Cardinality(Given("-r"))
  <2> HIDE DEF S
  <2> QED
    BY <1>2, <1>4, FS_Subset
<1>8. Len(vm_processes) = Cardinality(S)
  BY DEF FilesEntered
<1> HIDE DEF S
<1> QED
  BY <1>2, <1>6, <1>7, <1>8 DEF FilesGiven

\* The loop has ended where the options end, and not at a -L.
LEMMA LoopAtEnd ==
  ASSUME LineInv, Scanned, ~More
  PROVE  argv = End /\ ~EndedByLisp
<1>1. args \in Seq(Words) /\ Len(args) \in Nat /\ argv \in 1 .. Len(args) + 3
      /\ argc \in Int /\ argv + argc = Len(args) + 1
  BY DEF LineInv, InStep, TypeOK
<1>2. CASE early_param_exit
  <2>1. EndedBefore(argv)
    BY <1>2 DEF Scanned
  <2>2. argv = End
    BY <1>1, <2>1, AtEnd DEF Scanned, OptionsEndAt
  <2> QED
    BY <2>1, <2>2 DEF EndedByLisp
<1>3. CASE ~early_param_exit
  <2>1. ~(argc > 0) \/ WordAt(argv) \notin Options
    BY <1>3 DEF More
  <2>2. WordAt(argv) \notin Options
    BY <1>1, <2>1, OptionInside
  <2>3. Place[argv] = "word" /\ ~IsOption(argv)
    BY <2>2 DEF IsOption, Scanned
  <2>4. argv = End
    BY <1>1, <2>3, AtEnd DEF Scanned, OptionsEndAt
  <2> QED
    BY <2>3, <2>4 DEF EndedByLisp, StartsLisp
<1> QED
  BY <1>2, <1>3

LEMMA ReadInit == Init => LineRead /\ StartsAsRead
<1> SUFFICES ASSUME Init PROVE LineRead /\ StartsAsRead
  OBVIOUS
<1>1. args \in Seq(Words) /\ Len(args) \in Nat /\ PoolSize \in Nat
  BY CommandLineAssumption DEF Init
<1>2. argv = 1 /\ phase = "args" /\ vm_processes = <<>> /\ ~early_param_exit
  BY DEF Init
<1>3. \A w : Passed(w) = {}
  BY <1>2 DEF Passed
<1>4. Scanned
  <2>1. Place[1] = PlaceOf(Place, 1)
    BY <1>1, PlaceDef
  <2>2. Place[1] = "word"
    BY <2>1 DEF PlaceOf
  <2> QED
    BY <1>2, <2>2 DEF Scanned, EndedBefore
<1>5. FilesEntered
  BY <1>2, <1>3, FS_EmptySet DEF FilesEntered
<1>6. Effects
  <2>1. set = {} /\ src = 0 /\ vm_cycle_count = 1000 /\ poolsz = PoolSize
    BY DEF Init
  <2> QED
    <3>1. Pool[0] = PoolSize
      BY <1>1, PoolDef DEF PoolOf
    <3> QED
      BY <1>2, <1>3, <2>1, <3>1 DEF Effects, FlagsSet, SourceShown, CyclesCounted, PoolSized
<1> QED
  BY <1>2, <1>4, <1>5, <1>6 DEF LineRead, StartsAsRead

LEMMA ReadStep ==
  ASSUME LineInv, LineInv', LineRead, StartsAsRead, [Next]_vars
  PROVE  LineRead' /\ StartsAsRead'
<1>0. CASE UNCHANGED vars
  <2>1. /\ UNCHANGED <<args, native, argv, argc, phase, early_param_exit, vm_processes>>
        /\ UNCHANGED <<set, src, vm_cycle_count, poolsz>>
    BY <1>0 DEF vars
  <2>2. /\ (Scanned' <=> Scanned) /\ (FilesEntered' <=> FilesEntered)
        /\ (LispRead' <=> LispRead) /\ (Effects' <=> Effects)
        /\ End' = End /\ (EndedByLisp' <=> EndedByLisp)
    BY <2>1, Unmoved, SameLine
  <2>3. LineRead'
    BY <2>1, <2>2 DEF LineRead
  <2>4. StartsAsRead'
    BY <2>1, SameLine DEF StartsAsRead, WordAt
  <2> QED
    BY <2>3, <2>4
<1> SUFFICES ASSUME Next PROVE LineRead' /\ StartsAsRead'
  BY <1>0
<1>1. args' = args /\ native' = native
  BY DEF Next, ShowSource, SetFlag, OperandMissing, SetCycleCount, SetPoolSize, AddProcess,
         AddProcessOverflows, IgnoreLisp, AddLisp, EndOptions, Help, InvalidOption, LoopEnds,
         NothingToRun, AddMainFile, Return, Undefined
<1>4. poolsz \in Nat
  BY DEF LineInv, TypeOK
<1>5. phase' \notin {"start", "undefined"} => StartsAsRead'
  BY DEF StartsAsRead
<1>6. CASE ShowSource
  <2>1. PICK o \in {"-s", "-X"} : args[argv] = o
    BY <1>6 DEF ShowSource, Option
  <2>2. phase = "args" /\ More /\ Advance(1) /\ phase' = "args"
    BY <1>6 DEF ShowSource, Option
  <2>3. argv' = argv + Width(o) /\ argc' = argc - Width(o)
    BY <2>1, <2>2 DEF Advance, Width
  <2>4. /\ UNCHANGED <<early_param_exit, vm_processes, set, vm_cycle_count, poolsz>>
        /\ src' = IF o = "-s" THEN 1 ELSE IF o = "-X" THEN 2 ELSE src
    BY <1>6, <2>1 DEF ShowSource, Option
  <2>5. LineRead'
    <3>1. o \notin {"-d", "-v", "-M", "-c", "-p", "-r", "--"}
      BY <2>1
    <3>2. poolsz' = poolsz /\ vm_cycle_count' = vm_cycle_count /\ set' = set
      BY <1>4, <2>4
    <3> QED
      BY <1>1, <2>1, <2>2, <2>3, <2>4, <3>1, <3>2, OptionTaken
  <2> QED
    BY <1>5, <2>2, <2>5
<1>7. ASSUME NEW w \in {"-d", "-v", "-M"}, SetFlag(w) PROVE LineRead' /\ StartsAsRead'
  <2>1. phase = "args" /\ More /\ args[argv] = w /\ Advance(1) /\ phase' = "args"
    BY <1>7 DEF SetFlag, Option
  <2>2. argv' = argv + Width(w) /\ argc' = argc - Width(w)
    BY <1>7, <2>1 DEF Advance, Width
  <2>3. UNCHANGED <<early_param_exit, vm_processes, src, vm_cycle_count, poolsz>>
        /\ set' = set \cup {w}
    BY <1>7 DEF SetFlag
  <2>4. LineRead'
    BY <1>1, <1>4, <1>7, <2>1, <2>2, <2>3, OptionTaken
  <2> QED
    BY <1>5, <2>1, <2>4
<1>8. CASE SetCycleCount
  <2>1. phase = "args" /\ More /\ args[argv] = "-c" /\ Advance(2) /\ phase' = "args"
    BY <1>8 DEF SetCycleCount, Option
  <2>2. argv' = argv + Width("-c") /\ argc' = argc - Width("-c")
    BY <2>1 DEF Advance, Width
  <2>3. UNCHANGED <<early_param_exit, vm_processes, set, src, poolsz>>
        /\ vm_cycle_count' = Value[args[argv + 1]]
    BY <1>8 DEF SetCycleCount
  <2>4. LineRead'
    BY <1>1, <1>4, <2>1, <2>2, <2>3, OptionTaken
  <2> QED
    BY <1>5, <2>1, <2>4
<1>9. CASE SetPoolSize
  <2>1. phase = "args" /\ More /\ args[argv] = "-p" /\ Advance(2) /\ phase' = "args"
    BY <1>9 DEF SetPoolSize, Option
  <2>2. argv' = argv + Width("-p") /\ argc' = argc - Width("-p")
    BY <2>1 DEF Advance, Width
  <2>3. UNCHANGED <<early_param_exit, vm_processes, set, src, vm_cycle_count>>
    BY <1>9 DEF SetPoolSize
  <2>4. poolsz' = IF Asked(poolsz) > poolsz THEN Asked(poolsz) ELSE poolsz
    <3>1. WordAt(argv + 1) # Null /\ poolsz' = Larger(Asked(poolsz), poolsz)
      BY <1>9 DEF SetPoolSize, Asked
    <3>2. Asked(poolsz) \in Int
      BY <1>4, <2>1, <3>1, OnAWord, CommandLineAssumption DEF More, Asked
    <3> QED
      BY <1>4, <3>1, <3>2 DEF Larger
  <2>5. LineRead'
    BY <1>1, <1>4, <2>1, <2>2, <2>3, <2>4, OptionTaken
  <2> QED
    BY <1>5, <2>1, <2>5
<1>10. CASE AddProcess
  <2>1. phase = "args" /\ More /\ args[argv] = "-r" /\ Advance(3) /\ phase' = "args"
    BY <1>10 DEF AddProcess, Option
  <2>2. argv' = argv + Width("-r") /\ argc' = argc - Width("-r")
    BY <2>1 DEF Advance, Width
  <2>3. UNCHANGED <<early_param_exit, set, src, vm_cycle_count, poolsz>>
        /\ vm_processes' = Append(vm_processes, WordAt(argv + 1))
    BY <1>10 DEF AddProcess
  <2>4. LineRead'
    BY <1>1, <1>4, <2>1, <2>2, <2>3, OptionTaken
  <2> QED
    BY <1>5, <2>1, <2>4
<1>11. CASE IgnoreLisp
  <2>1. phase = "args" /\ More /\ args[argv] = "-L" /\ Advance(1) /\ phase' = "args"
        /\ native
    BY <1>11 DEF IgnoreLisp, Option
  <2>2. argv' = argv + Width("-L") /\ argc' = argc - Width("-L")
    BY <2>1 DEF Advance, Width
  <2>3. UNCHANGED <<early_param_exit, vm_processes, set, src, vm_cycle_count, poolsz>>
    BY <1>11 DEF IgnoreLisp
  <2>4. LineRead'
    BY <1>1, <1>4, <2>1, <2>2, <2>3, OptionTaken
  <2> QED
    BY <1>5, <2>1, <2>4
<1>12. CASE EndOptions
  <2>1. phase = "args" /\ More /\ args[argv] = "--" /\ Advance(1) /\ phase' = "args"
    BY <1>12 DEF EndOptions, Option
  <2>2. argv' = argv + Width("--") /\ argc' = argc - Width("--")
    BY <2>1 DEF Advance, Width
  <2>3. early_param_exit' = TRUE
        /\ UNCHANGED <<vm_processes, set, src, vm_cycle_count, poolsz>>
    BY <1>12 DEF EndOptions
  <2>4. LineRead'
    BY <1>1, <1>4, <2>1, <2>2, <2>3, OptionTaken
  <2> QED
    BY <1>5, <2>1, <2>4
<1>14. CASE AddLisp
  <2> DEFINE S == Given("-r")
  <2>1. /\ phase = "args" /\ More /\ args[argv] = "-L" /\ ~native /\ phase' = "args"
        /\ vm_processes' = Append(vm_processes, Lisp4) /\ early_param_exit'
        /\ UNCHANGED <<argv, set, src, vm_cycle_count, poolsz>>
    BY <1>14 DEF AddLisp, Option
  <2>2. Scanned /\ FilesEntered /\ Effects
    BY <2>1 DEF LineRead, LispRead, More
  <2>3. argv = End /\ EndedByLisp
    BY <2>1, <2>2, OnOption DEF StartsLisp
  <2>4. /\ Passed("-r") = S /\ S \subseteq 1 .. End - 1 /\ End \in Nat
        /\ Cardinality(S) \in Nat
    BY <2>2, <2>3, PassedGiven DEF Given
  <2>5. PICK m \in Nat : m = Cardinality(S)
    BY <2>4
  <2>6. FilesGiven = m + 1
    BY <2>3, <2>5 DEF FilesGiven
  <2>7. vm_processes \in Seq(Entries) /\ Lisp4 \in Entries
    <3>1. vm_processes \in BoundedSeq(Entries, MaxProcs)
      BY DEF LineInv, TypeOK, Entries
    <3> QED
      BY <3>1, CommandLineAssumption DEF BoundedSeq, SeqOf, Entries
  <2>8. Len(vm_processes) = m /\ \A k \in S : vm_processes[Rank(k, S)] = WordAt(k + 1)
    BY <2>2, <2>4, <2>5 DEF FilesEntered
  <2>9. /\ Len(vm_processes') = m + 1 /\ vm_processes'[m + 1] = Lisp4
        /\ \A i \in 1 .. m : vm_processes'[i] = vm_processes[i]
    BY <2>1, <2>5, <2>7, <2>8
  <2>10. \A k \in S : Rank(k, S) \in 1 .. m
    <3> HIDE DEF S
    <3> QED
      BY <2>4, <2>5, RankOfNext
  <2>11. \A k \in S : vm_processes'[Rank(k, S)] = WordAt(k + 1)
    <3> HIDE DEF S
    <3> QED
      BY <2>8, <2>9, <2>10
  <2>12. /\ Given("-r")' = S /\ FilesGiven' = m + 1 /\ EndedByLisp' /\ End' = End
         /\ \A k : WordAt(k)' = WordAt(k)
    BY <1>1, <2>3, <2>6, SameLine, SameWords
  <2>13. LispRead'
    <3> HIDE DEF S
    <3> QED
      BY <2>1, <2>9, <2>11, <2>12 DEF LispRead
  <2>14. Effects'
    BY <1>1, <2>1, <2>2, Unmoved
  <2>15. LineRead'
    BY <2>1, <2>3, <2>12, <2>13, <2>14 DEF LineRead
  <2> QED
    BY <1>5, <2>1, <2>15
<1>15. CASE Help \/ InvalidOption \/ NothingToRun
  <2>1. phase' = "returned"
    BY <1>15 DEF Help, InvalidOption, NothingToRun, Return
  <2> QED
    BY <1>5, <2>1 DEF LineRead
<1>16. CASE OperandMissing
  <2>1. phase = "args" /\ More /\ args[argv] \in {"-c", "-p"} /\ WordAt(argv + 1) = Null
        /\ phase' = "undefined"
    BY <1>16 DEF OperandMissing, Option, Undefined
  <2>2. args \in Seq(Words) /\ Len(args) \in Nat /\ argv \in 1 .. Len(args)
    BY <2>1, OnAWord DEF LineInv, InStep, More
  <2>3. argv = Len(args)
    <3>1. argv + 1 <= Len(args) => args[argv + 1] \in Words
      BY <2>2
    <3> QED
      BY <2>1, <2>2, <3>1, CommandLineAssumption DEF WordAt
  <2>4. WordAt(Len(args)) \in {"-c", "-p"}
    BY <2>1, <2>2, <2>3 DEF WordAt
  <2> QED
    BY <1>1, <2>1, <2>4 DEF LineRead, StartsAsRead, WordAt
<1>17. CASE AddProcessOverflows
  <2>1. /\ phase = "args" /\ More
        /\ args[argv] = "-r" \/ (~native /\ args[argv] = "-L")
        /\ Len(vm_processes) = MaxProcs /\ phase' = "undefined"
    BY <1>17 DEF AddProcessOverflows, Option, Undefined
  <2>2. FilesGiven > MaxProcs
    BY <2>1, NoRoomLeft DEF LineRead, LispRead, More
  <2>3. FilesGiven' = FilesGiven
    BY <1>1, SameLine
  <2> QED
    BY <2>1, <2>2, <2>3 DEF LineRead, StartsAsRead
<1>18. CASE LoopEnds
  <2>1. phase = "args" /\ ~More /\ phase' = "checks"
        /\ UNCHANGED <<argv, early_param_exit, vm_processes, set, src, vm_cycle_count, poolsz>>
    BY <1>18 DEF LoopEnds
  <2>2. Effects' /\ End' = End /\ (EndedByLisp' <=> EndedByLisp)
    BY <1>1, <2>1, Unmoved, SameLine DEF LineRead
  <2>3. CASE Scanned /\ FilesEntered
    <3>1. argv = End /\ ~EndedByLisp
      BY <2>1, <2>3, LoopAtEnd
    <3>2. Scanned' /\ FilesEntered'
      BY <1>1, <2>1, <2>3, Unmoved
    <3> QED
      BY <1>5, <2>1, <2>2, <3>1, <3>2 DEF LineRead
  <2>4. CASE LispRead /\ argv = End
    <3>1. LispRead'
      BY <1>1, <2>1, <2>4, Unmoved
    <3> QED
      BY <1>5, <2>1, <2>2, <2>4, <3>1 DEF LineRead
  <2> QED
    BY <2>1, <2>3, <2>4 DEF LineRead
<1>19. CASE AddMainFile
  <2> DEFINE S == Given("-r")
  <2>1. /\ phase = "checks" /\ phase' \in {"start", "undefined"}
        /\ UNCHANGED <<argv, argc, early_param_exit, set, src, vm_cycle_count, poolsz>>
    BY <1>19 DEF AddMainFile
  <2>0. CASE LispRead
    <3>1. /\ ~NamesMainFile /\ FilesGiven' = FilesGiven /\ Given("-r")' = Given("-r")
          /\ ~EndedByFile /\ End' = End /\ (EndedByFile' <=> EndedByFile)
          /\ (EndedByLisp' <=> EndedByLisp) /\ LastFile' = LastFile /\ EndedByLisp
          /\ \A k : WordAt(k)' = WordAt(k)
      BY <1>1, <2>0, SameLine, SameWords DEF LispRead, NamesMainFile, EndedByFile, EndedByLisp
    <3>2. phase' = "start" /\ vm_processes' = vm_processes /\ argv = End /\ LastFile = Lisp4
      BY <1>19, <2>0, <2>1, <3>1 DEF AddMainFile, LineRead, LastFile
    <3>3. Effects'
      BY <1>1, <2>1, Unmoved DEF LineRead
    <3>4. LineRead'
      BY <2>1, <3>1, <3>2, <3>3 DEF LineRead
    <3>5. argc' = Len(args') + 1 - End'
      <4>1. Len(args) \in Nat /\ argc \in Int /\ argv \in Nat /\ argv + argc = Len(args) + 1
        BY DEF LineInv, InStep, TypeOK
      <4> QED
        BY <1>1, <2>1, <3>1, <3>2, <4>1
    <3> QED
      BY <1>1, <2>0, <2>1, <3>1, <3>2, <3>4, <3>5 DEF StartsAsRead, LispRead
  <2> SUFFICES ASSUME ~LispRead PROVE LineRead' /\ StartsAsRead'
    BY <2>0
  <2>2. argv = End /\ Scanned /\ FilesEntered /\ Effects /\ ~EndedByLisp
    BY <2>1 DEF LineRead
  <2>3. /\ End \in Nat /\ Cardinality(S) \in Nat /\ \A w : Passed(w) = Given(w)
        /\ S \subseteq 1 .. End - 1
    BY <2>2, PassedGiven DEF Given
  <2>4. Len(vm_processes) = Cardinality(S)
    BY <2>2, <2>3 DEF FilesEntered
  <2>5. \A k \in S : vm_processes[Rank(k, S)] = WordAt(k + 1)
    BY <2>2, <2>3 DEF FilesEntered
  <2>6. NamesMainFile <=> EndedByFile
    <3>1. Len(args) \in Nat /\ argc \in Int /\ argv \in Nat /\ argv + argc = Len(args) + 1
      BY DEF LineInv, InStep, TypeOK
    <3>2. argc > 0 <=> argv <= Len(args)
      BY <3>1
    <3>3. ~EndedBefore(End) => ~StartsLisp(End)
      BY <2>2 DEF EndedByLisp
    <3> QED
      BY <2>2, <3>2, <3>3 DEF NamesMainFile, EndedByFile, Scanned
  <2>7. LineRead'
    <3>1. Effects' /\ End' = End
      BY <1>1, <2>1, <2>2, Unmoved, SameLine
    <3> QED
      BY <2>1, <2>2, <3>1 DEF LineRead
  <2>8. argv' = End' /\ argc' = Len(args') + 1 - End'
    <3>1. End' = End
      BY <1>1, SameLine
    <3>2. Len(args) \in Nat /\ argc \in Int /\ argv \in Nat /\ argv + argc = Len(args) + 1
      BY DEF LineInv, InStep, TypeOK
    <3> QED
      BY <1>1, <2>1, <2>2, <3>1, <3>2
  <2>9. /\ Given("-r")' = S /\ (EndedByFile' <=> EndedByFile) /\ FilesGiven' = FilesGiven
        /\ ~EndedByLisp' /\ LastFile' = args[End]
        /\ \A k : WordAt(k)' = WordAt(k)
    BY <1>1, <2>2, SameLine, SameWords DEF LastFile
  <2>10. CASE ~NamesMainFile
    <3>1. vm_processes' = vm_processes /\ phase' = "start"
      BY <1>19, <2>10 DEF AddMainFile
    <3>2. FilesGiven = Cardinality(S) /\ ~EndedByFile
      BY <2>2, <2>3, <2>6, <2>10 DEF FilesGiven
    <3> HIDE DEF S
    <3> QED
      BY <2>4, <2>5, <2>7, <2>8, <2>9, <3>1, <3>2 DEF StartsAsRead
  <2>11. CASE NamesMainFile
    <3>1. FilesGiven = Cardinality(S) + 1 /\ EndedByFile
      BY <2>3, <2>6, <2>11 DEF FilesGiven
    <3>2. CASE Len(vm_processes) = MaxProcs
      <4>1. phase' = "undefined"
        BY <1>19, <2>11, <3>2 DEF AddMainFile
      <4>2. FilesGiven > MaxProcs
        BY <2>3, <2>4, <3>1, <3>2
      <4> QED
        BY <2>7, <2>9, <4>1, <4>2 DEF StartsAsRead
    <3>3. CASE Len(vm_processes) # MaxProcs
      <4>1. phase' = "start" /\ vm_processes' = Append(vm_processes, WordAt(argv))
        BY <1>19, <2>11, <3>3 DEF AddMainFile
      <4>2. vm_processes \in Seq(Entries)
        <5>1. vm_processes \in BoundedSeq(Entries, MaxProcs)
          BY DEF LineInv, TypeOK, Entries
        <5> QED
          BY <5>1, CommandLineAssumption DEF BoundedSeq, SeqOf
      <4>3. PICK m \in Nat : m = Cardinality(S)
        BY <2>3
      <4>4. WordAt(argv) = args[End]
        BY <2>2, <3>1 DEF WordAt, EndedByFile
      <4>5. /\ Len(vm_processes') = m + 1 /\ vm_processes'[m + 1] = args[End]
            /\ \A i \in 1 .. m : vm_processes'[i] = vm_processes[i]
        BY <2>4, <4>1, <4>2, <4>3, <4>4
      <4>6. \A k \in S : Rank(k, S) \in 1 .. m
        <5> HIDE DEF S
        <5> QED
          BY <2>3, <4>3, RankOfNext
      <4>7. \A k \in S : vm_processes'[Rank(k, S)] = WordAt(k + 1)
        <5> HIDE DEF S
        <5> QED
          BY <2>5, <4>5, <4>6
      <4>8. End' = End /\ args' = args
        BY <1>1, SameLine
      <4> HIDE DEF S
      <4> QED
        BY <2>7, <2>8, <2>9, <3>1, <4>1, <4>3, <4>5, <4>7, <4>8 DEF StartsAsRead
    <3> QED
      BY <3>2, <3>3
  <2> QED
    BY <2>10, <2>11
<1> QED
  BY <1>6, <1>7, <1>8, <1>9, <1>10, <1>11, <1>12, <1>14, <1>15, <1>16, <1>17, <1>18, <1>19
     DEF Next

LEMMA ReadInvariant == Spec => [](LineInv /\ LineRead /\ StartsAsRead)
<1>1. Init => LineInv /\ LineRead /\ StartsAsRead
  BY LineInit, ReadInit
<1>2. LineInv /\ LineRead /\ StartsAsRead /\ [Next]_vars
        => (LineInv /\ LineRead /\ StartsAsRead)'
  BY LineStep, ReadStep
<1> QED
  BY <1>1, <1>2, PTL DEF Spec

\* For command lines of any length over any words, any number of slots and both
\* builds, -L under C4 included: what is started, in which order and with which
\* arguments, is what the words say when they are read as main reads them, the
\* word behind the operand of each -r lost; and main runs into what C leaves
\* undefined only by too many files or a missing operand.  (main, 1396-1495)
THEOREM StartsAsReadAlways == Spec => []StartsAsRead
<1> QED
  BY ReadInvariant, PTL

\* And every option before the first file, and no other word, has its effect.
\* (main, 1398-1433)
THEOREM OptionsAsGivenAlways == Spec => []OptionsAsGiven
<1>1. LineInv /\ LineRead => OptionsAsGiven
  <2> SUFFICES ASSUME LineInv, LineRead, phase = "start" PROVE OptionsAsGiven
    BY DEF OptionsAsGiven
  <2>1. Effects /\ argv = End
    BY DEF LineRead
  <2>2. \A w : Passed(w) = Given(w)
    BY <2>1 DEF Passed, Given
  <2> QED
    BY <2>1, <2>2 DEF OptionsAsGiven, Effects, FlagsSet, SourceShown, CyclesCounted, PoolSized
<1> QED
  BY <1>1, ReadInvariant, PTL

=============================================================================
