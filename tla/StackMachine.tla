---------------------------- MODULE StackMachine ----------------------------
(***************************************************************************)
(* One process of core/c4.c from its source to its exit code: the source is*)
(* compiled (Compiler), create_c_image lays out the stack, and run_cycle   *)
(* executes the words of the code segment, one action for each kind of     *)
(* instruction.  Which process runs, and for how long, is C4VM's subject.  *)
(*                                                                         *)
(* Addresses are in bytes.  The code segment, the global variables and the *)
(* stack are all the memory there is; an access beside them is undefined.  *)
(***************************************************************************)
EXTENDS CValues, Instructions

CONSTANTS
  Programs,   \* the programs compiled, as trees: those that mean something,
  Wrong,      \* those the compiler has a message for,
  Faulty,     \* and those that are undefined in C
  Texts,      \* texts, as tokens, that are compiled but not run
  Accepted(_),  \* whether Parse takes them,
  Language,   \* and those the reference derives
  Image(_),   \* what Parse makes of each of them, and how deep the stack is at
              \* each place of its code
  Meant,      \* and what the reference makes of Programs
  MainArguments,  \* argc and argv
  WordSize,   \* sizeof(int*)
  DataBase,   \* B_p_data
  StackTop,   \* B_p_sp + poolsz
  StackWords, \* bound: the part of the stack that may be used
  DataWords   \* bound: the part of the data segment

VARIABLES
  program,
  kind,          \* "means", "wrong", "faulty" or "text": which of them it is
  code,          \* the code segment, from its second word, of what may run
  entry,         \* idmain[Val]
  phase,         \* "rejected" or "listed", or "compiled", "runs", "done" or "undefined"
  pc, sp, bp, a, \* the registers
  mem,           \* data segment and stack: the word at each address
  exitcode,
  frames,        \* history: where each open call was made
  depths,        \* history: <<pc, bp - sp>> of the instructions executed
  wild           \* history: whether a store has hit what an open call keeps

vars == <<program, kind, code, entry, phase, pc, sp, bp, a, mem, exitcode, frames, depths, wild>>
registers == <<pc, sp, bp, a>>

Label == StackTop - 2 * WordSize

Memory == {DataBase + WordSize * n : n \in 0 .. DataWords - 1}
            \cup {StackTop - WordSize * n : n \in 1 .. StackWords}

TypeOK ==
  /\ phase \in {"listed", "compiled", "rejected", "runs", "done", "undefined"}
  /\ {pc, sp, bp, a, exitcode} \subseteq Int
  /\ ~wild => sp % WordSize = 0 /\ bp % WordSize = 0
  /\ code \in Seq(Int) /\ mem \in [Memory -> Int]

-----------------------------------------------------------------------------
(* The shape of the code.                                                  *)
Operations ==
  [OR |-> "|", XOR |-> "^", AND |-> "&", EQ |-> "==", NE |-> "!=", LT |-> "<", GT |-> ">",
   LE |-> "<=", GE |-> ">=", SHL |-> "<<", SHR |-> ">>", ADD |-> "+", SUB |-> "-",
   MUL |-> "*", DIV |-> "/", MOD |-> "%"]
WithOperand == {"LEA", "IMM", "JMP", "JSR", "BZ", "BNZ", "ENT", "ADJ"}
Instruction(word) == IF word \in 0 .. Len(Opcodes) - 1 THEN Opcodes[word + 1] ELSE "none"
Place(at) == at \div WordSize
IsPlace(at, words) == at % WordSize = 0 /\ Place(at) \in 1 .. Len(words)

\* Where control may be behind the instruction at place n, executed with d words on
\* the stack of its call, and how many there are then.
Behind(words, n, d) ==
  LET i == Instruction(words[n]) operand == words[n + 1]
  IN  CASE i = "ENT" -> {<<n + 2, operand>>}
        [] i \in {"LEA", "IMM", "JSR"} -> {<<n + 2, d>>}
        [] i = "JMP" -> {<<Place(operand), d>>}
        [] i \in {"BZ", "BNZ"} -> {<<n + 2, d>>, <<Place(operand), d>>}
        [] i = "ADJ" -> {<<n + 2, d - operand>>}
        [] i \in {"LI", "LC"} -> {<<n + 1, d>>}
        [] i = "PSH" -> {<<n + 1, d + 1>>}
        [] i \in {"SI", "SC"} \cup DOMAIN Operations -> {<<n + 1, d - 1>>}
        [] OTHER -> {}

\* A function begins with ENT; a call may also miss all the memory there is.
Begins(at, words, depth) ==
  IsPlace(at, words) /\ Place(at) \in DOMAIN depth /\ Instruction(words[Place(at)]) = "ENT"
Misses(at, words) == ~IsPlace(at, words) /\ at \notin Memory

\* depth says of each place that control may reach, but for the beginnings of
\* functions, how many words the call has on the stack there.
Balanced(words, start, depth) ==
  /\ Begins(start, words, depth)
  /\ DOMAIN depth \subseteq DOMAIN words
  /\ \A n \in DOMAIN depth :
       LET i == Instruction(words[n])
       IN  /\ depth[n] \in Nat
           /\ i \in WithOperand => n + 1 \in DOMAIN words
           /\ i \in {"JMP", "BZ", "BNZ"} => words[n + 1] % WordSize = 0
           /\ i = "JSR" => Begins(words[n + 1], words, depth) \/ Misses(words[n + 1], words)
           /\ \A t \in Behind(words, n, depth[n]) :
                t[1] \in DOMAIN depth /\ Instruction(words[t[1]]) # "ENT" /\ depth[t[1]] = t[2]

\* Code, data and stack are apart, and on the stack there is room for what
\* create_c_image puts there.
ASSUME MemoryAssumption ==
  /\ WordSize \in Nat \ {0} /\ DataWords \in Nat /\ StackWords \in Nat /\ StackWords >= 5
  /\ DataBase \in Int /\ StackTop \in Int /\ StackTop % WordSize = 0
  /\ DataBase + WordSize * DataWords <= StackTop - WordSize * StackWords
  /\ MainArguments \in Int \X Int
\* The code that is run is balanced, as TLC finds of what the compiler makes of
\* every program it is given.
Fits(image) ==
  /\ image.e \in Seq(Int) /\ WordSize * Len(image.e) < DataBase
  /\ image.ok => LET main == image.sym["main"].val
                 IN  main \in Int /\ Balanced(image.e, main, image.depth)
ASSUME CodeAssumption ==
  \A image \in {Image(p) : p \in Programs \cup Wrong \cup Faulty} : Fits(image)

Init ==
  /\ \/ /\ \/ program \in Programs /\ kind = "means"
           \/ program \in Wrong /\ kind = "wrong"
           \/ program \in Faulty /\ kind = "faulty"
        /\ \E image \in {Image(program)} :
             /\ code = image.e /\ entry = image.sym["main"].val
             /\ phase = IF image.ok THEN "compiled" ELSE "rejected"
     \/ /\ program \in Texts /\ kind = "text"       \* -s
        /\ code = <<>> /\ entry = 0
        /\ phase = IF Accepted(program) THEN "listed" ELSE "rejected"
  /\ pc = 0 /\ sp = StackTop /\ bp = StackTop /\ a = 0
  /\ mem = [at \in Memory |-> 0]
  /\ exitcode = 0 /\ frames = <<>> /\ depths = {} /\ wild = FALSE

-----------------------------------------------------------------------------
\* create_c_image: above the arguments of main stand the two instructions it
\* returns to, PSH and EXIT.
CreateImage ==
  /\ phase = "compiled"
  /\ phase' = "runs"
  /\ LET word(n) == StackTop - n * WordSize
     IN  /\ pc' = entry /\ bp' = StackTop /\ sp' = word(5)
         /\ mem' = [mem EXCEPT ![word(1)] = Op["EXIT"], ![word(2)] = Op["PSH"],
                      ![word(3)] = MainArguments[1],
                      ![word(4)] = MainArguments[2], ![word(5)] = Label]
         /\ frames' = <<[pc |-> Label, bp |-> StackTop, sp |-> word(4)]>>
  /\ UNCHANGED <<program, kind, code, entry, a, exitcode, depths, wild>>

-----------------------------------------------------------------------------
IsCode(at) == IsPlace(at, code)
Fetch(at) == IF IsCode(at) THEN code[Place(at)] ELSE mem[at]
Readable(at) == IsCode(at) \/ at \in Memory
Next1 == pc + WordSize
Word == Fetch(Next1)   \* *pc++, the operand

Known == WithOperand \cup {"LEV", "LI", "LC", "SI", "SC", "PSH", "EXIT"} \cup DOMAIN Operations

\* The addresses instruction i reads or writes.
Touched(i) ==
  CASE i \in {"JSR", "ENT", "PSH"} -> {sp - WordSize}
    [] i \in DOMAIN Operations \cup {"EXIT"} -> {sp}
    [] i \in {"SI", "SC"} -> {sp} \cup (IF sp \in Memory THEN {mem[sp]} ELSE {})
    [] i = "LEV" -> {bp, bp + WordSize}
    [] i \in {"LI", "LC"} -> {a}
    [] OTHER -> {}

Defined(i) ==
  /\ i \in WithOperand => Readable(Next1)
  /\ Touched(i) \subseteq Memory
  /\ i \in {"DIV", "MOD"} => a # 0
  /\ i \in {"SHL", "SHR"} => a \in 0 .. 15

Current == Instruction(Fetch(pc))
\* What the open calls keep: return addresses and saved bases, and the two
\* instructions main returns to.
Kept == {Label, Label + WordSize}
          \cup UNION {{f.sp - WordSize, f.sp - 2 * WordSize} : f \in Range(frames)}
At(i) ==
  /\ phase = "runs" /\ Readable(pc) /\ Current = i /\ Defined(i)
  /\ depths' = IF i = "ENT" THEN depths ELSE depths \cup {<<pc, bp - sp>>}
  /\ wild' = (wild \/ (i \in {"SI", "SC"} /\ mem[sp] \in Kept))

Undefined ==
  /\ phase = "runs"
  /\ Readable(pc) => Current \notin Known \/ ~Defined(Current)
  /\ phase' = "undefined"
  /\ UNCHANGED <<program, kind, code, entry, registers, mem, exitcode, frames, depths, wild>>

LoadAddress ==
  /\ At("LEA")
  /\ a' = bp + WordSize * Word /\ pc' = Next1 + WordSize
  /\ UNCHANGED <<program, kind, code, entry, phase, sp, bp, mem, exitcode, frames>>

Immediate ==
  /\ At("IMM")
  /\ a' = Word /\ pc' = Next1 + WordSize
  /\ UNCHANGED <<program, kind, code, entry, phase, sp, bp, mem, exitcode, frames>>

Jump ==
  /\ \/ At("JMP") /\ pc' = Word
     \/ At("BZ") /\ pc' = IF a # 0 THEN Next1 + WordSize ELSE Word
     \/ At("BNZ") /\ pc' = IF a # 0 THEN Word ELSE Next1 + WordSize
  /\ UNCHANGED <<program, kind, code, entry, phase, sp, bp, a, mem, exitcode, frames>>

Push(w) == sp' = sp - WordSize /\ mem' = [mem EXCEPT ![sp - WordSize] = w]

JumpToSubroutine ==
  /\ At("JSR")
  /\ Push(Next1 + WordSize) /\ pc' = Word
  /\ frames' = Append(frames, [pc |-> Next1 + WordSize, bp |-> bp, sp |-> sp])
  /\ UNCHANGED <<program, kind, code, entry, phase, bp, a, exitcode>>

\* Mutant: the base is taken before bp is saved.
Enter_Early ==
  /\ At("ENT")
  /\ mem' = [mem EXCEPT ![sp - WordSize] = bp]
  /\ bp' = sp /\ sp' = sp - WordSize * (1 + Word)
  /\ pc' = Next1 + WordSize
  /\ UNCHANGED <<program, kind, code, entry, phase, a, exitcode, frames>>
Enter ==
  /\ At("ENT")
  /\ mem' = [mem EXCEPT ![sp - WordSize] = bp]
  /\ bp' = sp - WordSize /\ sp' = sp - WordSize * (1 + Word)
  /\ pc' = Next1 + WordSize
  /\ UNCHANGED <<program, kind, code, entry, phase, a, exitcode, frames>>

\* Mutant: the stack is left as it is.
Adjust_Not ==
  /\ At("ADJ")
  /\ pc' = Next1 + WordSize
  /\ UNCHANGED <<program, kind, code, entry, phase, sp, bp, a, mem, exitcode, frames>>
\* Mutant: the operand counts bytes.
Adjust_Bytes ==
  /\ At("ADJ")
  /\ sp' = sp + Word /\ pc' = Next1 + WordSize
  /\ UNCHANGED <<program, kind, code, entry, phase, bp, a, mem, exitcode, frames>>
Adjust ==
  /\ At("ADJ")
  /\ sp' = sp + WordSize * Word /\ pc' = Next1 + WordSize
  /\ UNCHANGED <<program, kind, code, entry, phase, bp, a, mem, exitcode, frames>>

Leave ==
  /\ At("LEV")
  /\ sp' = bp + 2 * WordSize /\ bp' = mem[bp] /\ pc' = mem[bp + WordSize]
  /\ frames' = IF frames = <<>> THEN <<>> ELSE Front(frames)
  /\ UNCHANGED <<program, kind, code, entry, phase, a, mem, exitcode>>

Load ==
  /\ \/ At("LI") /\ a' = mem[a]
     \/ At("LC") /\ a' = Signed(mem[a], 8)
  /\ pc' = Next1
  /\ UNCHANGED <<program, kind, code, entry, phase, sp, bp, mem, exitcode, frames>>

\* SC leaves the rest of the word alone.
Store ==
  /\ \/ At("SI") /\ mem' = [mem EXCEPT ![mem[sp]] = a] /\ UNCHANGED a
     \/ /\ At("SC")
        /\ mem' = [mem EXCEPT ![mem[sp]] = (@ - (@ % 256)) + (a % 256)]
        /\ a' = Signed(a, 8)
  /\ sp' = sp + WordSize /\ pc' = Next1
  /\ UNCHANGED <<program, kind, code, entry, phase, bp, exitcode, frames>>

PushA ==
  /\ At("PSH")
  /\ Push(a) /\ pc' = Next1
  /\ UNCHANGED <<program, kind, code, entry, phase, bp, a, exitcode, frames>>

Operate(i) ==
  /\ At(i)
  /\ a' = Apply(Operations[i], mem[sp], a)
  /\ sp' = sp + WordSize /\ pc' = Next1
  /\ UNCHANGED <<program, kind, code, entry, phase, bp, mem, exitcode, frames>>

ExitInstruction ==
  /\ At("EXIT")
  /\ exitcode' = mem[sp] /\ phase' = "done" /\ pc' = Next1
  /\ UNCHANGED <<program, kind, code, entry, sp, bp, a, mem, frames>>

Next ==
  \/ CreateImage \/ Undefined
  \/ LoadAddress \/ Immediate \/ Jump \/ JumpToSubroutine \/ Enter \/ Adjust
  \/ Leave \/ Load \/ Store \/ PushA \/ ExitInstruction
  \/ \E i \in DOMAIN Operations : Operate(i)

Spec == Init /\ [][Next]_vars /\ WF_vars(Next)

-----------------------------------------------------------------------------
(* Properties *)

\* A program returns what it means: precedence, order of evaluation, jumps,
\* scopes, frame offsets and the scaling of pointers are those of C; and none of its
\* stores hits a return address or a saved base.  (expr, stmt, partial_parse, run_cycle)
ReturnsItsMeaning ==
  phase = "done" /\ kind = "means" => exitcode = Meant[program] /\ ~wild

\* Every program that means something is accepted, touches no memory but its
\* own, and ends.
Finishes == <>(kind = "means" => phase = "done")

\* The compiler accepts the texts its grammar derives and no others: one with an
\* operand, a bracket or a semicolon missing is refused, and so is one that assigns to
\* what is no place, but for the places CGrammar marks; so is a name without a meaning
\* or with two.  (the messages of expr, stmt and partial_parse)
AcceptsTheLanguage ==
  /\ kind = "text" => (phase = "listed" <=> program \in Language)
  /\ kind = "wrong" => phase = "rejected"

\* LEV goes back behind the call that is open, with the caller's bp and with
\* the stack as it was before the return address was pushed, whatever the
\* function has done to the stack in between, unless the program has stored over
\* what the calls keep there.  (ENT and LEV, 866, 869)
CallsReturn ==
  [][~wild /\ phase = "runs" /\ phase' = "runs" /\ Current = "LEV" =>
       /\ frames # <<>>
       /\ LET f == Last(frames) IN pc' = f.pc /\ bp' = f.bp /\ sp' = f.sp]_vars

\* The depth of the stack depends on the place in the code only, not on the
\* path that led to it: the branches of ?:, &&, || and if, each turn of a loop
\* and each call of a function, at any depth of recursion, leave what they found,
\* if no store has hit what the open calls keep.
DepthByPlace ==
  ~wild /\ phase = "runs" /\ IsCode(pc) /\ Current # "ENT" =>
    \A d \in depths : d[1] = pc => d[2] = bp - sp

=============================================================================
