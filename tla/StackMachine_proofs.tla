------------------------- MODULE StackMachine_proofs --------------------------
(***************************************************************************)
(* That run_cycle keeps to the stack discipline of the code it is given:   *)
(* for every program whose code is balanced, of any length and with calls  *)
(* of any depth.                                                           *)
(***************************************************************************)
EXTENDS StackMachine, Induction

-----------------------------------------------------------------------------
(* Arithmetic: addresses and places, and the operators of C.               *)

LEMMA Multiples ==
  ASSUME NEW n \in Int
  PROVE  (WordSize * n) % WordSize = 0 /\ Place(WordSize * n) = n /\ WordSize * n \in Int
BY MemoryAssumption DEF Place

LEMMA Whole ==
  ASSUME NEW x \in Int, x % WordSize = 0
  PROVE  Place(x) \in Int /\ x = WordSize * Place(x)
BY MemoryAssumption DEF Place

LEMMA Moved ==
  ASSUME NEW x \in Int, x % WordSize = 0, NEW n \in Int
  PROVE  /\ WordSize * n \in Int
         /\ (x + WordSize * n) % WordSize = 0 /\ (x - WordSize * n) % WordSize = 0
         /\ Place(x + WordSize * n) = Place(x) + n
<1>1. Place(x) \in Int /\ x = WordSize * Place(x)
  BY Whole
<1> DEFINE k == Place(x)
<1> HIDE DEF k
<1>2. x + WordSize * n = WordSize * (k + n) /\ x - WordSize * n = WordSize * (k - n)
  BY <1>1, MemoryAssumption DEF k
<1>3. k + n \in Int /\ k - n \in Int
  BY <1>1 DEF k
<1> QED
  BY <1>2, <1>3, Multiples, <1>1 DEF k

\* The powers of two a word of the machine is made of.
LEMMA Powers ==
  ASSUME NEW n \in 0 .. 15
  PROVE  2^n \in Nat \ {0}
<1> DEFINE Positive == Nat \ {0}
<1>1. /\ 2^0 \in Positive /\ 2^1 \in Positive /\ 2^2 \in Positive /\ 2^3 \in Positive
      /\ 2^4 \in Positive /\ 2^5 \in Positive /\ 2^6 \in Positive /\ 2^7 \in Positive
  OBVIOUS
<1>2. /\ 2^8 \in Positive /\ 2^9 \in Positive /\ 2^10 \in Positive /\ 2^11 \in Positive
      /\ 2^12 \in Positive /\ 2^13 \in Positive /\ 2^14 \in Positive /\ 2^15 \in Positive
  OBVIOUS
<1>3. \/ n = 0 \/ n = 1 \/ n = 2 \/ n = 3 \/ n = 4 \/ n = 5 \/ n = 6 \/ n = 7
      \/ n = 8 \/ n = 9 \/ n = 10 \/ n = 11 \/ n = 12 \/ n = 13 \/ n = 14 \/ n = 15
  OBVIOUS
<1> HIDE DEF Positive
<1>4. 2^n \in Positive
  BY <1>1, <1>2, <1>3, Zenon
<1> QED
  BY <1>4 DEF Positive

\* The sum of a word's bits is a number.
LEMMA SumIs ==
  ASSUME NEW B
  PROVE  SumBelow(B)[Bits] \in Int
<1> DEFINE Bit(n) == IF n - 1 \in B THEN 2^(n - 1) ELSE 0
           Sums(g, n) == g \in [0 .. n -> Int] /\ g[0] = 0
                           /\ \A m \in 1 .. n : g[m] = g[m - 1] + Bit(m)
           T == {n \in Nat : n <= 16 => \E g : Sums(g, n)}
<1>1. \A n \in 1 .. 16 : Bit(n) \in Int
  <2> SUFFICES ASSUME NEW n \in 1 .. 16 PROVE Bit(n) \in Int
    OBVIOUS
  <2>1. n - 1 \in 0 .. 15
    OBVIOUS
  <2> QED
    BY <2>1, Powers
<1> HIDE DEF Bit, T
<1>2. 0 \in T
  <2>1. Sums([m \in 0 .. 0 |-> 0], 0)
    OBVIOUS
  <2> QED
    BY <2>1 DEF T
<1>3. \A n \in Nat : n \in T => n + 1 \in T
  <2> SUFFICES ASSUME NEW n \in Nat, n \in T, n + 1 <= 16 PROVE \E g : Sums(g, n + 1)
    <3> HIDE DEF Sums
    <3> QED
      BY DEF T
  <2>1. PICK g : Sums(g, n)
    BY DEF T
  <2> DEFINE h == [m \in 0 .. n + 1 |-> IF m = n + 1 THEN g[n] + Bit(n + 1) ELSE g[m]]
  <2>2. n + 1 \in 1 .. 16 /\ Bit(n + 1) \in Int
    BY <1>1
  <2>3. /\ \A m \in 0 .. n : h[m] = g[m] /\ g[m] \in Int
        /\ h[n + 1] = g[n] + Bit(n + 1) /\ g[n] \in Int /\ g[0] = 0
        /\ \A m \in 1 .. n : g[m] = g[m - 1] + Bit(m)
    BY <2>1
  <2>4. h \in [0 .. n + 1 -> Int]
    <3>1. \A m \in 0 .. n + 1 : m = n + 1 \/ m \in 0 .. n
      OBVIOUS
    <3>2. \A m \in 0 .. n + 1 : h[m] \in Int
      BY <3>1, <2>2, <2>3
    <3> QED
      BY <3>2
  <2> HIDE DEF h
  <2>5. h[0] = 0
    BY <2>3
  <2>6. ASSUME NEW m \in 1 .. n + 1
        PROVE  h[m] = h[m - 1] + Bit(m)
    <3>1. CASE m = n + 1
      BY <3>1, <2>3
    <3>2. CASE m \in 1 .. n
      <4>1. m - 1 \in 0 .. n /\ m \in 0 .. n
        BY <3>2
      <4> QED
        BY <4>1, <3>2, <2>3
    <3> QED
      BY <3>1, <3>2
  <2>7. Sums(h, n + 1)
    BY <2>4, <2>5, <2>6
  <2> QED
    BY <2>7
<1>4. 16 \in T
  BY <1>2, <1>3, Induct
<1>5. PICK g : Sums(g, 16)
  BY <1>4 DEF T
<1> DEFINE E(s) == [n \in 0 .. Bits |-> IF n = 0 THEN 0 ELSE s[n - 1] + Bit(n)]
<1>6. g = E(g)
  BY <1>5 DEF Bits
<1>7. SumBelow(B) = E(SumBelow(B))
  <2>1. SumBelow(B) = CHOOSE s : s = E(s)
    BY DEF SumBelow, Bit
  <2> HIDE DEF E
  <2> QED
    BY <2>1, <1>6
<1> DEFINE s == SumBelow(B)
           U == {n \in Nat : n <= 16 => s[n] \in Int}
<1> HIDE DEF s
<1>8. s = E(s)
  BY <1>7 DEF s
<1>9. 0 \in U
  BY <1>8 DEF Bits
<1>10. \A n \in Nat : n \in U => n + 1 \in U
  <2> SUFFICES ASSUME NEW n \in Nat, n \in U, n + 1 <= 16 PROVE s[n + 1] \in Int
    OBVIOUS
  <2>1. s[n + 1] = s[n] + Bit(n + 1) /\ s[n] \in Int /\ n + 1 \in 1 .. 16
    BY <1>8 DEF Bits
  <2> QED
    BY <2>1, <1>1
<1>11. 16 \in U
  <2> HIDE DEF U
  <2> QED
    BY <1>9, <1>10, Induct
<1> QED
  BY <1>11 DEF s, Bits

LEMMA SignedIs ==
  ASSUME NEW v \in Int
  PROVE  Signed(v, 8) \in Int /\ Signed(v, 16) \in Int
<1>1. 8 - 1 = 7 /\ 16 - 1 = 15 /\ 2^7 = 128 /\ 2^8 = 256 /\ 2^15 = 32768 /\ 2^16 = 65536
  OBVIOUS
<1>2. Signed(v, 8) = ((v + 128) % 256) - 128
  BY <1>1 DEF Signed
<1>3. Signed(v, 16) = ((v + 32768) % 65536) - 32768
  BY <1>1 DEF Signed
<1> QED
  BY <1>2, <1>3

LEMMA QuotientIs ==
  ASSUME NEW v \in Int, NEW w \in Int, w # 0
  PROVE  Quotient(v, w) \in Int
<1>1. Abs(w) \in Nat \ {0} /\ Abs(v) \in Nat
  BY DEF Abs
<1>2. Abs(v) \div Abs(w) \in Int
  BY <1>1
<1> QED
  BY <1>2 DEF Quotient

\* What an operator of C computes is a number, where it is defined.
LEMMA Computed ==
  ASSUME NEW i \in DOMAIN Operations, NEW v \in Int, NEW w \in Int,
         i \in {"DIV", "MOD"} => w # 0, i \in {"SHL", "SHR"} => w \in 0 .. 15
  PROVE  Apply(Operations[i], v, w) \in Int
<1> DEFINE o == Operations[i]
<1>1. \A B : OfBits(B) \in Int
  BY SumIs, SignedIs DEF OfBits, Bits
<1>2. Truth(TRUE) \in Int /\ Truth(FALSE) \in Int
  BY DEF Truth
<1>3. /\ o \in {"|", "^", "&", "==", "!=", "<", ">", "<=", ">=", "<<", ">>", "+", "-", "*", "/", "%"}
      /\ o \in {"/", "%"} => w # 0
      /\ o \in {"<<", ">>"} => w \in 0 .. 15
  BY DEF Operations
<1> HIDE DEF o
<1>4. CASE o = "|" \/ o = "^" \/ o = "&"
  BY <1>1, <1>4 DEF Apply, o
<1>5. CASE o \in {"==", "!=", "<", ">", "<=", ">="}
  BY <1>2, <1>5 DEF Apply, o, Truth
<1>6. CASE o \in {"<<", ">>"}
  <2>1. 2^w \in Nat \ {0}
    BY <1>3, <1>6, Powers
  <2>2. v * 2^w \in Int /\ v \div 2^w \in Int
    BY <2>1
  <2> QED
    BY <2>2, <1>6 DEF Apply, o
<1>7. CASE o \in {"+", "-", "*"}
  BY <1>7 DEF Apply, o
<1>8. CASE o \in {"/", "%"}
  <2>1. Quotient(v, w) \in Int
    BY <1>3, <1>8, QuotientIs
  <2> QED
    BY <2>1, <1>8 DEF Apply, o
<1> QED
  BY <1>3, <1>4, <1>5, <1>6, <1>7, <1>8

-----------------------------------------------------------------------------
(* The invariant.                                                          *)

Calls == [pc : Int, bp : Int, sp : Int]
depth == Image(program).depth
Base(f) == f.sp - WordSize * 2       \* bp of the call made by f

\* A call made at f, by a function whose base is base, returns to a place where the stack
\* is as deep as it was.
ReturnsTo(f, base) ==
  /\ f.bp = base /\ IsCode(f.pc)
  /\ Place(f.pc) \in DOMAIN depth /\ Instruction(code[Place(f.pc)]) # "ENT"
  /\ base - f.sp = WordSize * depth[Place(f.pc)]

\* The open calls lie below each other: the first was made by create_c_image.
Chain ==
  /\ frames \in Seq(Calls)
  /\ \A k \in DOMAIN frames : frames[k].sp % WordSize = 0 /\ frames[k].bp % WordSize = 0
  /\ frames # <<>> =>
       frames[1] = [pc |-> Label, bp |-> StackTop, sp |-> StackTop - WordSize * 4]
  /\ \A k \in DOMAIN frames : k > 1 => ReturnsTo(frames[k], Base(frames[k - 1]))
  /\ \A j, k \in DOMAIN frames : j < k => frames[k].sp <= Base(frames[j])

\* In memory stands what they keep; the last one may not yet have saved its base.
Held(fs, m, saved) ==
  /\ m[Label] = Op["PSH"] /\ m[Label + WordSize] = Op["EXIT"]
  /\ \A k \in DOMAIN fs :
       /\ fs[k].sp - WordSize \in Memory /\ m[fs[k].sp - WordSize] = fs[k].pc
       /\ k < Len(fs) \/ saved => Base(fs[k]) \in Memory /\ m[Base(fs[k])] = fs[k].bp

InCall ==
  /\ frames # <<>> /\ IsCode(pc) /\ Place(pc) \in DOMAIN depth
  /\ IF Instruction(code[Place(pc)]) = "ENT"
     THEN sp = Last(frames).sp - WordSize /\ bp = Last(frames).bp /\ Held(frames, mem, FALSE)
     ELSE /\ bp = Base(Last(frames)) /\ bp - sp = WordSize * depth[Place(pc)]
          /\ Held(frames, mem, TRUE)
\* main has returned to the two instructions on the stack.
Homeward ==
  /\ frames = <<>> /\ Held(frames, mem, TRUE) /\ bp = StackTop
  /\ \/ pc = Label /\ sp = StackTop - WordSize * 4
     \/ pc = Label + WordSize /\ sp = StackTop - WordSize * 5
Lost == ~Readable(pc)

DepthsKept ==
  \A d \in depths : IsCode(d[1]) =>
    Place(d[1]) \in DOMAIN depth /\ d[2] = WordSize * depth[Place(d[1])]

Loaded ==
  /\ \/ /\ program \in Programs \cup Wrong \cup Faulty
        /\ code = Image(program).e /\ entry = Image(program).sym["main"].val
        /\ phase # "rejected" => Image(program).ok
     \/ phase \in {"rejected", "listed"} /\ code = <<>>
  /\ frames \in Seq(Calls) /\ wild \in BOOLEAN
Disciplined ==
  /\ phase = "compiled" => frames = <<>> /\ depths = {} /\ ~wild
  /\ phase = "runs" /\ ~wild => Chain /\ DepthsKept /\ (InCall \/ Homeward \/ Lost)

Types ==
  /\ phase \in {"listed", "compiled", "rejected", "runs", "done", "undefined"}
  /\ pc \in Int /\ sp \in Int /\ bp \in Int /\ a \in Int /\ exitcode \in Int
  /\ code \in Seq(Int) /\ mem \in [Memory -> Int]
Aligned == ~wild => sp % WordSize = 0 /\ bp % WordSize = 0
StackInv == Types /\ Aligned /\ Loaded /\ Disciplined

-----------------------------------------------------------------------------
(* The memory.                                                             *)

LEMMA Layout ==
  /\ StackTop - WordSize \in Memory /\ Label \in Memory
  /\ \A n \in 1 .. 5 : StackTop - WordSize * n \in Memory
  /\ \A at \in Memory : at \in Int /\ at >= DataBase
<1>1. \A n \in 1 .. 5 : StackTop - WordSize * n \in Memory
  BY MemoryAssumption DEF Memory
<1>2. Label = StackTop - WordSize * 2 /\ StackTop - WordSize = StackTop - WordSize * 1
  BY MemoryAssumption DEF Label
<1>3. ASSUME NEW n \in 0 .. DataWords - 1
      PROVE  DataBase + WordSize * n \in Int /\ DataBase + WordSize * n >= DataBase
  BY MemoryAssumption
<1>4. ASSUME NEW n \in 1 .. StackWords
      PROVE  StackTop - WordSize * n \in Int /\ StackTop - WordSize * n >= DataBase
  <2>1. WordSize * n <= WordSize * StackWords /\ WordSize * DataWords >= 0
    BY MemoryAssumption
  <2>2. WordSize * n \in Int /\ WordSize * StackWords \in Int /\ WordSize * DataWords \in Int
    BY MemoryAssumption
  <2> QED
    BY <2>1, <2>2, MemoryAssumption
<1>5. \A at \in Memory : at \in Int /\ at >= DataBase
  BY <1>3, <1>4 DEF Memory
<1> QED
  BY <1>1, <1>2, <1>5

\* The code that runs is balanced.
LEMMA Shape ==
  ASSUME Types, Loaded, phase \notin {"rejected", "listed"}
  PROVE  /\ Balanced(code, entry, depth) /\ entry \in Int
         /\ DOMAIN code = 1 .. Len(code) /\ Len(code) \in Nat
BY CodeAssumption DEF Types, Loaded, Fits, depth

\* No word is both code and data.
LEMMA Apart ==
  ASSUME Types, Loaded, NEW at \in Memory
  PROVE  ~IsCode(at)
<1> SUFFICES ASSUME IsCode(at) PROVE FALSE
  OBVIOUS
<1>0. code # <<>>
  BY DEF IsCode, IsPlace
<1>1. WordSize * Len(code) < DataBase /\ Len(code) \in Nat
  BY <1>0, CodeAssumption DEF Types, Loaded, Fits
<1>2. at \in Int /\ at >= DataBase
  BY Layout
<1>3. Place(at) \in 1 .. Len(code) /\ at = WordSize * Place(at)
  BY <1>2, Whole DEF IsCode, IsPlace
<1>4. WordSize * Place(at) <= WordSize * Len(code)
  BY <1>1, <1>3, MemoryAssumption
<1> QED
  BY <1>1, <1>2, <1>3, <1>4, MemoryAssumption

LEMMA Named ==
  /\ Instruction(Op["PSH"]) = "PSH" /\ Instruction(Op["EXIT"]) = "EXIT"
  /\ Op["PSH"] \in Int /\ Op["EXIT"] \in Int
<1> DEFINE n == Len(Opcodes)
<1>1. n \in Nat /\ DOMAIN Opcodes = 1 .. n /\ Opcodes[14] = "PSH" /\ Opcodes[40] = "EXIT" /\ n = 40
  BY DEF Opcodes
<1>2. ASSUME NEW i \in {"PSH", "EXIT"}
      PROVE  Instruction(Op[i]) = i /\ Op[i] \in Int
  <2> DEFINE k == CHOOSE x \in DOMAIN Opcodes : Opcodes[x] = i
  <2>1. \E x \in DOMAIN Opcodes : Opcodes[x] = i
    BY <1>1
  <2>2. k \in 1 .. n /\ Opcodes[k] = i
    BY <2>1, <1>1
  <2>3. i \in ToSet(Opcodes)
    BY <2>2, <1>1 DEF ToSet
  <2>4. Op[i] = k - 1
    BY <2>3 DEF Op
  <2> HIDE DEF k
  <2>5. Op[i] \in 0 .. n - 1 /\ Op[i] + 1 = k
    <3> HIDE DEF n
    <3> QED
      BY <2>2, <2>4, <1>1
  <2> QED
    BY <2>2, <2>5 DEF Instruction
<1> QED
  BY <1>2

\* A write elsewhere leaves what the calls keep.
LEMMA HeldStill ==
  ASSUME NEW fs, NEW m, NEW m2, NEW saved,
         Held(fs, m, saved),
         \A at \in Memory : m2[at] = m[at] \/ (at # Label /\ at # Label + WordSize
            /\ \A k \in DOMAIN fs : at # fs[k].sp - WordSize /\ (k < Len(fs) \/ saved => at # Base(fs[k])))
  PROVE  Held(fs, m2, saved)
<1>1. Label \in Memory /\ Label + WordSize \in Memory
  <2>1. Label + WordSize = StackTop - WordSize
    BY MemoryAssumption DEF Label
  <2> QED
    BY <2>1, Layout
<1>2. m2[Label] = m[Label] /\ m2[Label + WordSize] = m[Label + WordSize]
  BY <1>1
<1>3. \A k \in DOMAIN fs : fs[k].sp - WordSize \in Memory /\ m2[fs[k].sp - WordSize] = m[fs[k].sp - WordSize]
  BY DEF Held
<1>4. \A k \in DOMAIN fs : k < Len(fs) \/ saved => Base(fs[k]) \in Memory /\ m2[Base(fs[k])] = m[Base(fs[k])]
  BY DEF Held
<1> QED
  BY <1>2, <1>3, <1>4 DEF Held

-----------------------------------------------------------------------------
(* Where the process is.                                                   *)

\* In the code of a call, the registers name a place and the words behind it.
LEMMA Here ==
  ASSUME Types, Loaded, phase = "runs", InCall
  PROVE  LET n == Place(pc)
         IN  /\ n \in DOMAIN depth /\ n \in 1 .. Len(code) /\ depth[n] \in Nat
             /\ pc = WordSize * n /\ Fetch(pc) = code[n] /\ Current = Instruction(code[n])
             /\ Next1 = WordSize * (n + 1) /\ Next1 + WordSize = WordSize * (n + 2)
             /\ Current \in WithOperand =>
                  IsCode(Next1) /\ Word = code[n + 1] /\ code[n + 1] \in Int
<1> DEFINE n == Place(pc)
<1>1. Balanced(code, entry, depth) /\ DOMAIN code = 1 .. Len(code) /\ Len(code) \in Nat
  BY Shape
<1>2. IsCode(pc) /\ n \in DOMAIN depth /\ pc % WordSize = 0 /\ n \in 1 .. Len(code)
  BY DEF InCall, IsCode, IsPlace
<1>3. pc = WordSize * n
  BY <1>2, Whole DEF Types
<1>4. Fetch(pc) = code[n] /\ Current = Instruction(code[n])
  BY <1>2 DEF Fetch, Current
<1>5. depth[n] \in Nat /\ (Instruction(code[n]) \in WithOperand => n + 1 \in DOMAIN code)
  BY <1>1, <1>2 DEF Balanced
<1> HIDE DEF n
<1>6. Next1 = WordSize * (n + 1) /\ Next1 + WordSize = WordSize * (n + 2)
  <2>1. n \in Int
    BY <1>1, <1>2
  <2> QED
    BY <2>1, <1>3, MemoryAssumption DEF Next1
<1>7. Place(Next1) = n + 1 /\ Next1 % WordSize = 0
  BY <1>2, <1>6, Multiples
<1>8. ASSUME Current \in WithOperand
      PROVE  IsCode(Next1) /\ Word = code[n + 1] /\ code[n + 1] \in Int
  <2>1. n + 1 \in 1 .. Len(code)
    BY <1>1, <1>4, <1>5, <1>8
  <2> QED
    BY <2>1, <1>1, <1>7 DEF IsCode, IsPlace, Word, Fetch, Types
<1> QED
  BY <1>2, <1>3, <1>4, <1>5, <1>6, <1>8 DEF n

\* What Balanced says of the place of the instruction executed.
LEMMA Flow ==
  ASSUME Types, Loaded, phase = "runs", InCall,
         NEW t \in Behind(code, Place(pc), depth[Place(pc)])
  PROVE  /\ t[1] \in DOMAIN depth /\ t[1] \in 1 .. Len(code)
         /\ Instruction(code[t[1]]) # "ENT" /\ depth[t[1]] = t[2]
         /\ IsCode(WordSize * t[1]) /\ Place(WordSize * t[1]) = t[1]
<1>1. Balanced(code, entry, depth) /\ DOMAIN code = 1 .. Len(code) /\ Len(code) \in Nat
  BY Shape
<1>2. /\ t[1] \in DOMAIN depth /\ t[1] \in 1 .. Len(code)
      /\ Instruction(code[t[1]]) # "ENT" /\ depth[t[1]] = t[2]
  BY <1>1, Here DEF Balanced
<1>3. t[1] \in Int
  BY <1>1, <1>2
<1>4. (WordSize * t[1]) % WordSize = 0 /\ Place(WordSize * t[1]) = t[1]
  BY <1>3, Multiples
<1> QED
  BY <1>2, <1>4 DEF IsCode, IsPlace

\* Once main has returned, PSH and then EXIT are executed.
LEMMA AtHome ==
  ASSUME Types, Loaded, Homeward
  PROVE  /\ ~IsCode(pc) /\ pc \in Memory
         /\ pc = Label => Current = "PSH"
         /\ pc = Label + WordSize => Current = "EXIT"
<1>1. Label + WordSize = StackTop - WordSize
  BY MemoryAssumption DEF Label
<1>2. pc \in Memory
  BY <1>1, Layout DEF Homeward
<1>3. ~IsCode(pc)
  BY <1>2, Apart
<1>4. mem[Label] = Op["PSH"] /\ mem[Label + WordSize] = Op["EXIT"]
  BY DEF Homeward, Held
<1> QED
  BY <1>2, <1>3, <1>4, Named DEF Current, Fetch

\* The last call open lies below everything the others keep.
LEMMA Lowest ==
  ASSUME Chain, frames # <<>>
  PROVE  LET f == Last(frames)
         IN  /\ Len(frames) \in Nat \ {0} /\ DOMAIN frames = 1 .. Len(frames)
             /\ f = frames[Len(frames)] /\ f \in Calls /\ Base(f) \in Int
             /\ f.sp % WordSize = 0 /\ Base(f) % WordSize = 0
             /\ Base(f) < f.sp - WordSize /\ f.sp - WordSize < Label /\ Label < Label + WordSize
             /\ \A k \in DOMAIN frames :
                  /\ f.sp - WordSize <= frames[k].sp - WordSize
                  /\ k < Len(frames) => f.sp - WordSize < Base(frames[k]) /\ Base(f) < Base(frames[k])
                  /\ Base(f) <= Base(frames[k])
<1> DEFINE f == Last(frames)
<1>1. Len(frames) \in Nat \ {0} /\ DOMAIN frames = 1 .. Len(frames) /\ f = frames[Len(frames)]
  BY DEF Chain, Last
<1>2. \A k \in DOMAIN frames : frames[k] \in Calls
  BY <1>1 DEF Chain
<1>3. f \in Calls /\ f.sp \in Int /\ f.sp % WordSize = 0
  BY <1>1, <1>2 DEF Chain, Calls
<1>4. Base(f) \in Int /\ Base(f) % WordSize = 0 /\ Base(f) < f.sp - WordSize
  <2> DEFINE x == f.sp
  <2>1. x \in Int /\ x % WordSize = 0 /\ 2 \in Int
    BY <1>3
  <2> HIDE DEF x
  <2>2. (x - WordSize * 2) % WordSize = 0
    BY <2>1, Moved
  <2>3. x - WordSize * 2 \in Int /\ x - WordSize * 2 < x - WordSize
    BY <2>1, MemoryAssumption
  <2> QED
    BY <2>2, <2>3 DEF Base, x
<1>5. frames[1].sp = StackTop - WordSize * 4
  BY DEF Chain
<1>6. ASSUME NEW k \in DOMAIN frames
      PROVE  /\ frames[k].sp \in Int /\ Base(frames[k]) \in Int
             /\ Base(frames[k]) < frames[k].sp
             /\ k < Len(frames) => f.sp <= Base(frames[k])
             /\ f.sp <= frames[k].sp
  <2>1. frames[k].sp \in Int
    BY <1>2 DEF Calls
  <2>2. Base(frames[k]) \in Int /\ Base(frames[k]) < frames[k].sp
    BY <2>1, MemoryAssumption DEF Base
  <2>3. k < Len(frames) => f.sp <= Base(frames[k])
    BY <1>1 DEF Chain
  <2> QED
    BY <1>1, <1>3, <2>1, <2>2, <2>3
<1>7. f.sp <= StackTop - WordSize * 4
  BY <1>1, <1>5, <1>6
<1>8. f.sp - WordSize < Label /\ Label < Label + WordSize
  BY <1>3, <1>7, MemoryAssumption DEF Label
<1> HIDE DEF f
<1>9. \A k \in DOMAIN frames :
        /\ f.sp - WordSize <= frames[k].sp - WordSize
        /\ k < Len(frames) => f.sp - WordSize < Base(frames[k]) /\ Base(f) < Base(frames[k])
        /\ Base(f) <= Base(frames[k])
  <2> TAKE k \in DOMAIN frames
  <2>1. frames[k].sp - WordSize >= f.sp - WordSize
    BY <1>3, <1>6, MemoryAssumption
  <2>2. k < Len(frames) => f.sp - WordSize < Base(frames[k]) /\ Base(f) < Base(frames[k])
    BY <1>3, <1>4, <1>6, MemoryAssumption
  <2> QED
    BY <2>1, <2>2, <1>1, <1>4, <1>6
<1> QED
  BY <1>1, <1>3, <1>4, <1>8, <1>9 DEF f

-----------------------------------------------------------------------------
(* The types.                                                              *)

\* What can be read is a number.
LEMMA Fetched ==
  ASSUME Types, Loaded, NEW at, Readable(at)
  PROVE  Fetch(at) \in Int
<1>1. CASE IsCode(at)
  <2>1. Place(at) \in DOMAIN code
    BY <1>1 DEF IsCode, IsPlace, Types
  <2> QED
    BY <2>1, <1>1 DEF Fetch, Types
<1>2. CASE ~IsCode(at)
  BY <1>2 DEF Readable, Fetch, Types
<1> QED
  BY <1>1, <1>2

LEMMA Operands ==
  ASSUME Types, Loaded, NEW i, At(i)
  PROVE  /\ i \in WithOperand => Word \in Int
         /\ Next1 \in Int /\ Next1 + WordSize \in Int /\ sp - WordSize \in Int
         /\ sp + WordSize \in Int
<1>1. i \in WithOperand => Word \in Int
  BY Fetched DEF At, Defined, Word
<1> QED
  BY <1>1, MemoryAssumption DEF Types, Next1

LEMMA InMemory ==
  ASSUME Types, NEW at \in Memory
  PROVE  mem[at] \in Int /\ at \in Int
BY Layout DEF Types

\* Every step keeps the registers and the memory numbers and the program loaded.
LEMMA TypesStay ==
  ASSUME Types, Loaded, [Next]_vars
  PROVE  Types' /\ Loaded'
<1> USE DEF Types, Loaded
<1>0. WordSize \in Int /\ StackTop \in Int /\ Label \in Int
  BY MemoryAssumption DEF Label
<1>1. CASE UNCHANGED vars
  BY <1>1 DEF vars
<1>2. CASE CreateImage
  <2>1. MainArguments[1] \in Int /\ MainArguments[2] \in Int
    BY MemoryAssumption
  <2>2. mem' \in [Memory -> Int]
    BY <1>2, <1>0, <2>1, Named DEF CreateImage
  <2>3. entry \in Int
    BY <1>2, Shape DEF CreateImage
  <2>4. frames' \in Seq(Calls)
    <3>1. frames' = <<[pc |-> Label, bp |-> StackTop, sp |-> StackTop - 4 * WordSize]>>
      BY <1>2 DEF CreateImage
    <3>2. StackTop - 4 * WordSize \in Int
      BY <1>0
    <3> QED
      BY <3>1, <3>2, <1>0 DEF Calls
  <2>5. /\ phase' = "runs" /\ phase = "compiled" /\ pc' = entry /\ bp' = StackTop
        /\ sp' = StackTop - 5 * WordSize
        /\ UNCHANGED <<program, kind, code, entry, a, exitcode, depths, wild>>
    BY <1>2 DEF CreateImage
  <2>6. sp' \in Int
    BY <2>5, <1>0
  <2> QED
    BY <1>0, <2>2, <2>3, <2>4, <2>5, <2>6
<1>3. CASE Undefined
  BY <1>3 DEF Undefined, registers
<1>w. ASSUME NEW i, At(i)
      PROVE  wild' \in BOOLEAN /\ phase \notin {"rejected", "listed"}
  BY <1>w DEF At
<1>4. CASE LoadAddress
  <2>1. Word \in Int /\ Next1 + WordSize \in Int
    BY <1>4, Operands DEF LoadAddress, WithOperand
  <2>2. bp + WordSize * Word \in Int
    BY <2>1, <1>0
  <2> QED
    BY <1>4, <1>w, <2>1, <2>2 DEF LoadAddress
<1>5. CASE Immediate
  <2>1. Word \in Int /\ Next1 + WordSize \in Int
    BY <1>5, Operands DEF Immediate, WithOperand
  <2> QED
    BY <1>5, <1>w, <2>1 DEF Immediate
<1>6. CASE Jump
  <2>1. Word \in Int /\ Next1 + WordSize \in Int /\ wild' \in BOOLEAN /\ phase \notin {"rejected", "listed"}
    BY <1>6, <1>w, Operands DEF Jump, WithOperand
  <2>2. pc' \in Int
    BY <1>6, <2>1 DEF Jump
  <2> QED
    BY <1>6, <2>1, <2>2 DEF Jump
<1>7. CASE JumpToSubroutine
  <2>1. Word \in Int /\ Next1 + WordSize \in Int /\ sp - WordSize \in Int
    BY <1>7, Operands DEF JumpToSubroutine, WithOperand
  <2>2. mem' \in [Memory -> Int] /\ sp' \in Int
    BY <1>7, <2>1 DEF JumpToSubroutine, Push
  <2>3. frames' \in Seq(Calls)
    <3>1. [pc |-> Next1 + WordSize, bp |-> bp, sp |-> sp] \in Calls
      BY <2>1 DEF Calls
    <3> QED
      BY <1>7, <3>1 DEF JumpToSubroutine
  <2> QED
    BY <1>7, <1>w, <2>1, <2>2, <2>3 DEF JumpToSubroutine
<1>8. CASE Enter
  <2>1. Word \in Int /\ Next1 + WordSize \in Int /\ sp - WordSize \in Int
    BY <1>8, Operands DEF Enter, WithOperand
  <2>2. sp - WordSize * (1 + Word) \in Int
    BY <2>1, <1>0
  <2>3. mem' \in [Memory -> Int]
    BY <1>8 DEF Enter
  <2> QED
    BY <1>8, <1>w, <2>1, <2>2, <2>3 DEF Enter
<1>9. CASE Adjust
  <2>1. Word \in Int /\ Next1 + WordSize \in Int
    BY <1>9, Operands DEF Adjust, WithOperand
  <2>2. sp + WordSize * Word \in Int
    BY <2>1, <1>0
  <2> QED
    BY <1>9, <1>w, <2>1, <2>2 DEF Adjust
<1>10. CASE Leave
  <2>1. bp \in Memory /\ bp + WordSize \in Memory
    BY <1>10 DEF Leave, At, Defined, Touched, WithOperand, Operations
  <2>2. mem[bp] \in Int /\ mem[bp + WordSize] \in Int /\ bp + 2 * WordSize \in Int
    BY <2>1, InMemory, <1>0
  <2>3. frames' \in Seq(Calls)
    <3>1. CASE frames = <<>>
      BY <1>10, <3>1 DEF Leave
    <3>2. CASE frames # <<>>
      BY <1>10, <3>2 DEF Leave, Front
    <3> QED
      BY <3>1, <3>2
  <2> QED
    BY <1>10, <1>w, <2>2, <2>3 DEF Leave
<1>11. CASE Load
  <2>1. a \in Memory /\ Next1 \in Int
    BY <1>11, Operands DEF Load, At, Defined, Touched, WithOperand, Operations
  <2>2. mem[a] \in Int /\ Signed(mem[a], 8) \in Int
    BY <2>1, InMemory, SignedIs
  <2>3. a' \in Int
    BY <1>11, <2>2 DEF Load
  <2>4. wild' \in BOOLEAN /\ phase \notin {"rejected", "listed"}
    BY <1>11, <1>w DEF Load
  <2> QED
    BY <1>11, <2>1, <2>3, <2>4 DEF Load
<1>12. CASE Store
  <2>1. /\ sp \in Memory /\ mem[sp] \in Memory /\ Next1 \in Int /\ sp + WordSize \in Int
        /\ wild' \in BOOLEAN /\ phase \notin {"rejected", "listed"}
    BY <1>12, <1>w, Operands DEF Store, At, Defined, Touched, WithOperand, Operations
  <2>2. mem[mem[sp]] \in Int
    BY <2>1, InMemory
  <2>3. (mem[mem[sp]] - (mem[mem[sp]] % 256)) + (a % 256) \in Int
    BY <2>2
  <2> DEFINE w == (mem[mem[sp]] - (mem[mem[sp]] % 256)) + (a % 256)
  <2>5. Signed(a, 8) \in Int
    BY SignedIs
  <2>6. \/ mem' = [mem EXCEPT ![mem[sp]] = a] /\ a' = a
        \/ mem' = [mem EXCEPT ![mem[sp]] = w] /\ a' = Signed(a, 8)
    BY <1>12 DEF Store
  <2>7. w \in Int
    BY <2>3
  <2> HIDE DEF w
  <2>8. \A v \in Int : [mem EXCEPT ![mem[sp]] = v] \in [Memory -> Int]
    OBVIOUS
  <2>4. mem' \in [Memory -> Int] /\ a' \in Int
    BY <2>5, <2>6, <2>7, <2>8
  <2> QED
    BY <1>12, <2>1, <2>4 DEF Store
<1>13. CASE PushA
  <2>1. Next1 \in Int /\ sp - WordSize \in Int
    BY <1>13, Operands DEF PushA
  <2>2. mem' \in [Memory -> Int] /\ sp' \in Int
    BY <1>13, <2>1 DEF PushA, Push
  <2> QED
    BY <1>13, <1>w, <2>1, <2>2 DEF PushA
<1>14. CASE ExitInstruction
  <2>1. sp \in Memory /\ Next1 \in Int
    BY <1>14, Operands DEF ExitInstruction, At, Defined, Touched, WithOperand, Operations
  <2>2. mem[sp] \in Int
    BY <2>1, InMemory
  <2> QED
    BY <1>14, <1>w, <2>1, <2>2 DEF ExitInstruction
<1>15. ASSUME NEW i \in DOMAIN Operations, Operate(i)
       PROVE  Types' /\ Loaded'
  <2>1. Next1 \in Int /\ sp + WordSize \in Int /\ At(i)
    BY <1>15, Operands DEF Operate
  <2>2. /\ sp \in Memory
        /\ i \in {"DIV", "MOD"} => a # 0
        /\ i \in {"SHL", "SHR"} => a \in 0 .. 15
    BY <2>1 DEF At, Defined, Touched, Operations
  <2>3. Apply(Operations[i], mem[sp], a) \in Int
    BY <2>2, InMemory, Computed
  <2> QED
    BY <1>15, <1>w, <2>1, <2>3 DEF Operate
<1> QED
  BY <1>1, <1>2, <1>3, <1>4, <1>5, <1>6, <1>7, <1>8, <1>9, <1>10, <1>11, <1>12, <1>13, <1>14,
     <1>15 DEF Next

-----------------------------------------------------------------------------
(* The discipline, step by step.                                           *)

LEMMA Successors ==
  ASSUME NEW words, NEW n, NEW d
  PROVE  LET i == Instruction(words[n]) operand == words[n + 1] next == Behind(words, n, d)
         IN  /\ i = "ENT" => <<n + 2, operand>> \in next
             /\ i \in {"LEA", "IMM", "JSR"} => <<n + 2, d>> \in next
             /\ i = "JMP" => <<Place(operand), d>> \in next
             /\ i \in {"BZ", "BNZ"} => <<n + 2, d>> \in next /\ <<Place(operand), d>> \in next
             /\ i = "ADJ" => <<n + 2, d - operand>> \in next
             /\ i \in {"LI", "LC"} => <<n + 1, d>> \in next
             /\ i = "PSH" => <<n + 1, d + 1>> \in next
             /\ i \in {"SI", "SC"} \cup DOMAIN Operations => <<n + 1, d - 1>> \in next
<1> DEFINE i == Instruction(words[n])
<1> HIDE DEF i
<1>1. i \in DOMAIN Operations => i \notin {"ENT", "LEA", "IMM", "JSR", "JMP", "BZ", "BNZ", "ADJ",
        "LI", "LC", "PSH"}
  BY DEF Operations
<1> QED
  BY <1>1 DEF Behind, i

\* The stack moves by whole words.
LEMMA Shifted ==
  ASSUME Types, NEW d \in Int, bp - sp = WordSize * d, NEW k \in Int
  PROVE  bp - (sp + WordSize * k) = WordSize * (d - k)
BY MemoryAssumption DEF Types

\* Where an instruction is executed while no store has gone wild.
LEMMA Placed ==
  ASSUME StackInv, ~wild, NEW i, At(i)
  PROVE  /\ Current = i /\ phase = "runs" /\ Chain /\ DepthsKept /\ (InCall \/ Homeward)
         /\ i \notin {"PSH", "EXIT"} => InCall
<1>1. Current = i /\ phase = "runs" /\ Readable(pc)
  BY DEF At
<1>2. Chain /\ DepthsKept /\ (InCall \/ Homeward)
  BY <1>1 DEF StackInv, Disciplined, Lost
<1>3. Homeward => i \in {"PSH", "EXIT"}
  BY <1>1, AtHome DEF StackInv, Homeward
<1> QED
  BY <1>1, <1>2, <1>3

LEMMA DepthsStay ==
  ASSUME StackInv, ~wild, NEW i, At(i), UNCHANGED <<program, code>>
  PROVE  DepthsKept'
<1>1. /\ Current = i /\ phase = "runs" /\ DepthsKept /\ (InCall \/ Homeward)
      /\ Types /\ Loaded
  BY Placed DEF StackInv
<1>2. depths' = depths \/ (depths' = depths \cup {<<pc, bp - sp>>} /\ i # "ENT")
  BY DEF At
<1>3. ASSUME IsCode(pc), i # "ENT"
      PROVE  Place(pc) \in DOMAIN depth /\ bp - sp = WordSize * depth[Place(pc)]
  <2>1. InCall
    BY <1>1, <1>3, AtHome
  <2>2. Current = Instruction(code[Place(pc)])
    BY <1>1, <2>1, Here
  <2> QED
    BY <1>1, <1>3, <2>1, <2>2 DEF InCall
<1>4. depth' = depth /\ \A at : IsCode(at)' = IsCode(at)
  BY DEF depth, IsCode
<1> QED
  BY <1>1, <1>2, <1>3, <1>4 DEF DepthsKept

\* Inside a call: the same calls stay open, and control goes to a place behind.
LEMMA Stays ==
  ASSUME Types, Loaded, phase = "runs", Chain, InCall, Current # "ENT",
         NEW t, t \in Behind(code, Place(pc), depth[Place(pc)]),
         UNCHANGED <<program, code, frames, bp>>, Held(frames, mem', TRUE),
         pc' = WordSize * t[1], bp - sp' = WordSize * t[2]
  PROVE  Chain' /\ InCall'
<1>1. depth' = depth /\ \A at : IsCode(at)' = IsCode(at)
  BY DEF depth, IsCode
<1>2. Chain'
  BY <1>1 DEF Chain, ReturnsTo
<1>3. /\ t[1] \in DOMAIN depth /\ Instruction(code[t[1]]) # "ENT" /\ depth[t[1]] = t[2]
      /\ IsCode(pc') /\ Place(pc') = t[1]
  BY Flow
<1>4. frames # <<>> /\ bp = Base(Last(frames))
  BY Here DEF InCall
<1> QED
  BY <1>1, <1>2, <1>3, <1>4 DEF InCall

\* A write below the base of the last call hits nothing that is kept.
LEMMA WriteBelow ==
  ASSUME Chain, frames # <<>>, NEW saved \in BOOLEAN, Held(frames, mem, saved),
         NEW at \in Int, at < Base(Last(frames)) \/ (at = Base(Last(frames)) /\ ~saved),
         NEW w, mem \in [Memory -> Int]
  PROVE  Held(frames, [mem EXCEPT ![at] = w], saved)
<1> DEFINE f == Last(frames)
           m2 == [mem EXCEPT ![at] = w]
<1>1. /\ Len(frames) \in Nat \ {0} /\ DOMAIN frames = 1 .. Len(frames) /\ f \in Calls
      /\ Base(f) \in Int /\ Base(f) < f.sp - WordSize
      /\ f.sp - WordSize < Label /\ Label < Label + WordSize
      /\ f = frames[Len(frames)]
      /\ \A k \in DOMAIN frames :
            /\ f.sp - WordSize <= frames[k].sp - WordSize
            /\ k < Len(frames) => f.sp - WordSize < Base(frames[k]) /\ Base(f) < Base(frames[k])
            /\ Base(f) <= Base(frames[k])
  BY Lowest
<1>2. \A k \in DOMAIN frames : frames[k].sp \in Int /\ Base(frames[k]) \in Int
  <2> TAKE k \in DOMAIN frames
  <2>1. frames[k] \in Calls
    BY <1>1 DEF Chain
  <2>2. frames[k].sp \in Int
    BY <2>1 DEF Calls
  <2> QED
    BY <2>2, MemoryAssumption DEF Base
<1>3. f.sp - WordSize \in Int /\ Label \in Int /\ Label + WordSize \in Int
  BY <1>1, MemoryAssumption DEF Calls, Label
<1>4. \A k \in DOMAIN frames : frames[k].sp - WordSize \in Int
  BY <1>2, MemoryAssumption
<1> HIDE DEF f
<1>5. at # Label /\ at # Label + WordSize
  BY <1>1, <1>3 DEF f
<1>6. \A k \in DOMAIN frames :
         at # frames[k].sp - WordSize /\ (k < Len(frames) \/ saved => at # Base(frames[k]))
  BY <1>1, <1>2, <1>3, <1>4 DEF f
<1>7. \A x \in Memory : m2[x] = mem[x] \/ x = at
  OBVIOUS
<1> HIDE DEF m2
<1>8. Held(frames, m2, saved)
  BY <1>5, <1>6, <1>7, HeldStill
<1> QED
  BY <1>8 DEF m2

\* The instructions that leave the memory and the calls as they are.
LEMMA Quietly ==
  ASSUME StackInv, ~wild, NEW i, At(i), i \notin {"ENT", "PSH", "EXIT"},
         NEW t, t \in Behind(code, Place(pc), depth[Place(pc)]),
         UNCHANGED <<program, kind, code, entry, phase, bp, frames>>,
         \A at \in Memory : mem'[at] = mem[at] \/ at \notin Kept,
         pc' = WordSize * t[1], bp - sp' = WordSize * t[2]
  PROVE  Disciplined'
<1>1. /\ Types /\ Loaded /\ phase = "runs" /\ phase' = "runs" /\ Chain /\ InCall
      /\ Current = i /\ DepthsKept'
  BY Placed, DepthsStay DEF StackInv
<1>2. Held(frames, mem, TRUE)
  BY <1>1, Here DEF InCall
<1>3. \A k \in DOMAIN frames :
         frames[k].sp - WordSize \in Kept /\ Base(frames[k]) \in Kept
  <2> TAKE k \in DOMAIN frames
  <2>1. frames[k] \in Range(frames)
    BY DEF Range
  <2>2. frames[k].sp \in Int
    <3>1. frames[k] \in Calls
      BY <1>1 DEF Chain
    <3> QED
      BY <3>1 DEF Calls
  <2>3. Base(frames[k]) = frames[k].sp - 2 * WordSize
    BY <2>2, MemoryAssumption DEF Base
  <2> QED
    BY <2>1, <2>3 DEF Kept
<1>4. Label \in Kept /\ Label + WordSize \in Kept
  BY DEF Kept
<1>5. Held(frames, mem', TRUE)
  BY <1>2, <1>3, <1>4, HeldStill
<1>6. Chain' /\ InCall'
  BY <1>1, <1>5, Stays
<1> QED
  BY <1>1, <1>6 DEF Disciplined

\* The actions of an instruction that is not a call, an entry or a return.
LEMMA Plainly ==
  ASSUME StackInv, ~wild',
         \/ LoadAddress \/ Immediate \/ Jump \/ Adjust \/ Load \/ Store
         \/ \E i \in DOMAIN Operations : Operate(i)
  PROVE  Disciplined' /\ (sp % WordSize = 0 => sp' % WordSize = 0) /\ bp' = bp
<1> DEFINE n == Place(pc)
           d == depth[n]
<1>0. \A i : At(i) => ~wild
  BY DEF At
<1>1. ASSUME NEW i, At(i), i \notin {"ENT", "PSH", "EXIT"}
      PROVE  /\ Types /\ Loaded /\ phase = "runs" /\ InCall /\ ~wild
             /\ n \in Int /\ d \in Int /\ bp - sp = WordSize * d
             /\ Instruction(code[n]) = i /\ Current = i
             /\ Next1 = WordSize * (n + 1) /\ Next1 + WordSize = WordSize * (n + 2)
             /\ i \in WithOperand => Word = code[n + 1] /\ Word \in Int
             /\ sp \in Int /\ bp \in Int /\ (mem[sp] \in Kept => i \notin {"SI", "SC"})
  <2>1. /\ Types /\ Loaded /\ phase = "runs" /\ InCall /\ Current = i
    BY <1>0, <1>1, Placed DEF StackInv
  <2>2. Len(code) \in Nat
    BY <2>1 DEF Types
  <2>3. n \in 1 .. Len(code) /\ depth[n] \in Nat /\ Current = Instruction(code[n])
    BY <2>1, Here
  <2>4. n \in Int /\ d \in Int
    BY <2>2, <2>3
  <2>5. bp - sp = WordSize * d
    BY <1>1, <2>1, <2>3 DEF InCall
  <2>6. /\ Next1 = WordSize * (n + 1) /\ Next1 + WordSize = WordSize * (n + 2)
        /\ i \in WithOperand => Word = code[n + 1] /\ Word \in Int
    BY <2>1, Here
  <2>7. sp \in Int /\ bp \in Int /\ (mem[sp] \in Kept => i \notin {"SI", "SC"})
    BY <1>1, <2>1 DEF Types, At
  <2> QED
    BY <1>0, <1>1, <2>1, <2>3, <2>4, <2>5, <2>6, <2>7
<1>2. CASE LoadAddress
  <2>1. At("LEA")
    BY <1>2 DEF LoadAddress
  <2>2. <<n + 2, d>> \in Behind(code, n, d)
    BY <2>1, <1>1, Successors
  <2>3. pc' = WordSize * (n + 2) /\ bp - sp' = WordSize * d
    BY <1>2, <2>1, <1>1 DEF LoadAddress
  <2>4. UNCHANGED <<program, kind, code, entry, phase, bp, frames, mem, sp>>
    BY <1>2 DEF LoadAddress
  <2> QED
    BY <1>0, <2>1, <2>2, <2>3, <2>4, Quietly
<1>3. CASE Immediate
  <2>1. At("IMM")
    BY <1>3 DEF Immediate
  <2>2. <<n + 2, d>> \in Behind(code, n, d)
    BY <2>1, <1>1, Successors
  <2>3. pc' = WordSize * (n + 2) /\ bp - sp' = WordSize * d
    BY <1>3, <2>1, <1>1 DEF Immediate
  <2>4. UNCHANGED <<program, kind, code, entry, phase, bp, frames, mem, sp>>
    BY <1>3 DEF Immediate
  <2> QED
    BY <1>0, <2>1, <2>2, <2>3, <2>4, Quietly
<1>4. CASE Jump
  <2>1. PICK i \in {"JMP", "BZ", "BNZ"} :
          /\ At(i)
          /\ pc' = Word \/ (pc' = Next1 + WordSize /\ i # "JMP")
    BY <1>4 DEF Jump
  <2>2. UNCHANGED <<program, kind, code, entry, phase, bp, frames, mem, sp>>
    BY <1>4 DEF Jump
  <2>3. i \notin {"ENT", "PSH", "EXIT"} /\ i \in WithOperand
    BY DEF WithOperand
  <2>4. Word = WordSize * Place(code[n + 1])
    <3>1. n \in DOMAIN depth /\ Word = code[n + 1] /\ Word \in Int /\ Instruction(code[n]) = i
      BY <2>1, <2>3, <1>1 DEF InCall
    <3>2. Balanced(code, entry, depth)
      BY <2>1, <2>3, <1>1, Shape
    <3>3. Word % WordSize = 0
      BY <3>1, <3>2 DEF Balanced
    <3> QED
      BY <3>1, <3>3, Whole
  <2>5. /\ <<Place(code[n + 1]), d>> \in Behind(code, n, d)
        /\ i # "JMP" => <<n + 2, d>> \in Behind(code, n, d)
    BY <2>1, <2>3, <1>1, Successors
  <2>6. bp - sp' = WordSize * d
    BY <2>1, <2>2, <2>3, <1>1
  <2>7. PICK t \in Behind(code, n, d) : pc' = WordSize * t[1] /\ t[2] = d
    <3>1. CASE pc' = Word
      BY <3>1, <2>4, <2>5
    <3>2. CASE pc' = Next1 + WordSize /\ i # "JMP"
      <4>1. pc' = WordSize * (n + 2)
        BY <3>2, <2>1, <2>3, <1>1
      <4> QED
        BY <4>1, <3>2, <2>5
    <3> QED
      BY <3>1, <3>2, <2>1
  <2> HIDE DEF n, d
  <2> QED
    BY <1>0, <2>1, <2>2, <2>3, <2>6, <2>7, Quietly DEF n, d
<1>5. CASE Adjust
  <2>1. At("ADJ") /\ sp' = sp + WordSize * Word
        /\ UNCHANGED <<program, kind, code, entry, phase, bp, frames, mem>>
    BY <1>5 DEF Adjust
  <2>2. Word = code[n + 1] /\ Word \in Int
    BY <2>1, <1>1 DEF WithOperand
  <2>3. <<n + 2, d - Word>> \in Behind(code, n, d)
    BY <2>1, <2>2, <1>1, Successors
  <2>4. pc' = WordSize * (n + 2)
    BY <1>5, <2>1, <1>1 DEF Adjust
  <2>5. bp - sp' = WordSize * (d - Word)
    BY <2>1, <2>2, <1>1, Shifted
  <2>6. sp % WordSize = 0 => sp' % WordSize = 0
    BY <2>1, <2>2, <1>1, Moved
  <2> HIDE DEF n, d
  <2> QED
    BY <1>0, <2>1, <2>3, <2>4, <2>5, <2>6, Quietly DEF n, d
<1>6. CASE Load
  <2>1. PICK i \in {"LI", "LC"} : At(i)
    BY <1>6 DEF Load
  <2>2. <<n + 1, d>> \in Behind(code, n, d)
    BY <2>1, <1>1, Successors
  <2>3. pc' = WordSize * (n + 1) /\ bp - sp' = WordSize * d
    BY <1>6, <2>1, <1>1 DEF Load
  <2>4. UNCHANGED <<program, kind, code, entry, phase, bp, frames, mem, sp>>
    BY <1>6 DEF Load
  <2> QED
    BY <1>0, <2>1, <2>2, <2>3, <2>4, Quietly
<1>p. ASSUME NEW i, At(i), i \in {"SI", "SC"} \cup DOMAIN Operations,
             sp' = sp + WordSize, pc' = Next1,
             UNCHANGED <<program, kind, code, entry, phase, bp, frames>>,
             \A at \in Memory : mem'[at] = mem[at] \/ at \notin Kept
      PROVE  Disciplined' /\ (sp % WordSize = 0 => sp' % WordSize = 0) /\ bp' = bp
  <2>1. i \notin {"ENT", "PSH", "EXIT"}
    BY <1>p DEF Operations
  <2>5. Instruction(code[n]) = i /\ pc' = WordSize * (n + 1)
    BY <1>p, <2>1, <1>1
  <2>2. <<n + 1, d - 1>> \in Behind(code, n, d)
    BY <1>p, <2>5, Successors
  <2>3. WordSize * 1 = WordSize
    BY MemoryAssumption
  <2>4. bp - sp' = WordSize * (d - 1) /\ (sp % WordSize = 0 => sp' % WordSize = 0)
    BY <1>p, <2>1, <2>3, <1>1, Shifted, Moved
  <2> HIDE DEF n, d
  <2> QED
    BY <1>0, <1>p, <2>1, <2>2, <2>4, <2>5, Quietly DEF n, d
<1>7. CASE Store
  <2>1. PICK i \in {"SI", "SC"} :
          At(i) /\ \A at \in Memory : mem'[at] = mem[at] \/ at = mem[sp]
    <3>1. CASE At("SI") /\ mem' = [mem EXCEPT ![mem[sp]] = a]
      BY <3>1 DEF StackInv, Types
    <3>2. CASE At("SC") /\ mem' = [mem EXCEPT ![mem[sp]] = (@ - (@ % 256)) + (a % 256)]
      BY <3>2 DEF StackInv, Types
    <3> QED
      BY <1>7, <3>1, <3>2 DEF Store
  <2>2. mem[sp] \notin Kept
    BY <2>1, <1>1
  <2> QED
    BY <1>7, <2>1, <2>2, <1>p DEF Store
<1>8. ASSUME NEW i \in DOMAIN Operations, Operate(i)
      PROVE  Disciplined' /\ (sp % WordSize = 0 => sp' % WordSize = 0) /\ bp' = bp
  BY <1>8, <1>p DEF Operate
<1> QED
  BY <1>2, <1>3, <1>4, <1>5, <1>6, <1>7, <1>8

\* create_c_image leaves the process at the beginning of main, called from Label.
LEMMA Started ==
  ASSUME StackInv, CreateImage
  PROVE  Disciplined' /\ Aligned'
<1> DEFINE f == [pc |-> Label, bp |-> StackTop, sp |-> StackTop - WordSize * 4]
<1>1. Types /\ Loaded /\ phase = "compiled" /\ phase' = "runs" /\ ~wild /\ ~wild' /\ depths' = {}
  BY DEF StackInv, Disciplined, CreateImage
<1>2. Begins(entry, code, depth) /\ entry \in Int
  BY <1>1, Shape DEF Balanced
<1>3. /\ WordSize \in Nat \ {0} /\ StackTop \in Int /\ StackTop % WordSize = 0
      /\ Label = StackTop - WordSize * 2
  BY MemoryAssumption DEF Label
<1>4. \A n \in 1 .. 5 : /\ StackTop - n * WordSize = StackTop - WordSize * n
                         /\ StackTop - WordSize * n \in Memory
                         /\ (StackTop - WordSize * n) % WordSize = 0
  <2> TAKE n \in 1 .. 5
  <2>1. StackTop - n * WordSize = StackTop - WordSize * n
    BY <1>3
  <2>2. n \in Int
    OBVIOUS
  <2>3. (StackTop - WordSize * n) % WordSize = 0
    BY <1>3, <2>2, Moved
  <2> QED
    BY <2>1, <2>3, Layout
<1>5. /\ pc' = entry /\ bp' = StackTop /\ sp' = StackTop - WordSize * 5 /\ frames' = <<f>>
      /\ program' = program /\ code' = code
  BY <1>4 DEF CreateImage
<1>6. f.sp - WordSize = StackTop - WordSize * 5 /\ f.sp % WordSize = 0 /\ f \in Calls
  <2>1. Label \in Int /\ StackTop - WordSize * 4 \in Int
    BY <1>3
  <2>2. f.sp - WordSize = StackTop - WordSize * 5
    BY <1>3
  <2> QED
    BY <1>3, <1>4, <2>1, <2>2 DEF Calls
<1>7. /\ mem'[StackTop - WordSize * 5] = Label /\ mem'[Label] = Op["PSH"]
      /\ mem'[Label + WordSize] = Op["EXIT"]
  <2> DEFINE w(n) == StackTop - WordSize * n
  <2>1. \A m, n \in 1 .. 5 : m # n => w(m) # w(n)
    BY <1>3
  <2>2. mem' = [mem EXCEPT ![w(1)] = Op["EXIT"], ![w(2)] = Op["PSH"],
                  ![w(3)] = MainArguments[1], ![w(4)] = MainArguments[2], ![w(5)] = Label]
    <3>1. /\ StackTop - 1 * WordSize = w(1) /\ StackTop - 2 * WordSize = w(2)
          /\ StackTop - 3 * WordSize = w(3) /\ StackTop - 4 * WordSize = w(4)
          /\ StackTop - 5 * WordSize = w(5)
      BY <1>3
    <3> HIDE DEF w
    <3> QED
      BY <3>1 DEF CreateImage
  <2>3. \A n \in 1 .. 5 : w(n) \in DOMAIN mem
    BY <1>1, <1>4 DEF Types
  <2> HIDE DEF w
  <2>4. mem'[w(5)] = Label /\ mem'[w(2)] = Op["PSH"] /\ mem'[w(1)] = Op["EXIT"]
    BY <2>1, <2>2, <2>3
  <2>5. w(5) = StackTop - WordSize * 5 /\ w(2) = Label /\ w(1) = Label + WordSize
    BY <1>3 DEF w
  <2> QED
    BY <2>4, <2>5
<1>8. Aligned'
  BY <1>3, <1>4, <1>5 DEF Aligned
<1>9. depth' = depth /\ \A at : IsCode(at)' = IsCode(at)
  BY <1>5 DEF depth, IsCode
<1> HIDE DEF f
<1>10. DOMAIN frames' = {1} /\ frames'[1] = f /\ Len(frames') = 1 /\ Last(frames') = f
  BY <1>5 DEF Last
<1>11. Chain'
  <2>1. frames' \in Seq(Calls)
    BY <1>5, <1>6
  <2>2. f.bp % WordSize = 0 /\ f = [pc |-> Label, bp |-> StackTop, sp |-> StackTop - WordSize * 4]
    BY <1>3 DEF f
  <2>3. \A k \in DOMAIN frames' : k = 1
    BY <1>10
  <2> QED
    BY <1>6, <1>10, <2>1, <2>2, <2>3 DEF Chain
<1>12. Held(frames', mem', FALSE)
  BY <1>4, <1>6, <1>7, <1>10 DEF Held, f
<1>13. InCall'
  <2>1. IsCode(pc') /\ Place(pc') \in DOMAIN depth /\ Instruction(code[Place(pc')]) = "ENT"
    BY <1>2, <1>5 DEF Begins, IsCode
  <2>2. frames' # <<>> /\ sp' = Last(frames').sp - WordSize /\ bp' = Last(frames').bp
    BY <1>5, <1>6, <1>10 DEF f
  <2> QED
    BY <1>5, <1>9, <1>12, <2>1, <2>2 DEF InCall
<1>14. DepthsKept'
  BY <1>1 DEF DepthsKept
<1> QED
  BY <1>1, <1>8, <1>11, <1>13, <1>14 DEF Disciplined

\* ENT saves the base below the return address and takes its own from there.
LEMMA Entered ==
  ASSUME StackInv, Enter, ~wild'
  PROVE  Disciplined' /\ Aligned'
<1> DEFINE n == Place(pc)
           d == depth[n]
           f == Last(frames)
<1>1. /\ ~wild /\ At("ENT") /\ mem' = [mem EXCEPT ![sp - WordSize] = bp]
      /\ bp' = sp - WordSize /\ sp' = sp - WordSize * (1 + Word) /\ pc' = Next1 + WordSize
      /\ UNCHANGED <<program, kind, code, entry, phase, a, exitcode, frames>>
  BY DEF Enter, At
<1>2. /\ Types /\ Loaded /\ phase = "runs" /\ Chain /\ InCall /\ Current = "ENT" /\ DepthsKept'
      /\ sp % WordSize = 0
  BY <1>1, Placed, DepthsStay DEF StackInv, Aligned
<1>3. /\ Instruction(code[n]) = "ENT" /\ Next1 + WordSize = WordSize * (n + 2)
      /\ Word = code[n + 1] /\ Word \in Int
  BY <1>2, Here DEF WithOperand
<1>4. sp = f.sp - WordSize /\ bp = f.bp /\ Held(frames, mem, FALSE) /\ frames # <<>>
  BY <1>2, <1>3 DEF InCall
<1>5. /\ Len(frames) \in Nat \ {0} /\ DOMAIN frames = 1 .. Len(frames)
      /\ f = frames[Len(frames)] /\ f \in Calls /\ Base(f) \in Int /\ Base(f) % WordSize = 0
  BY <1>2, <1>4, Lowest
<1>6. sp \in Int /\ sp - WordSize = Base(f)
  BY <1>2, <1>4, <1>5, MemoryAssumption DEF Types, Calls, Base
<1>7. Held(frames, mem', FALSE)
  BY <1>1, <1>2, <1>4, <1>5, <1>6, WriteBelow DEF Types
<1>8. Base(f) \in Memory /\ mem'[Base(f)] = bp
  <2>1. sp - WordSize \in Memory
    BY <1>1 DEF At, Defined, Touched, Operations
  <2> QED
    BY <1>1, <1>2, <1>6, <2>1 DEF Types
<1>9. Held(frames, mem', TRUE)
  <2>1. \A k \in DOMAIN frames : k < Len(frames) \/ frames[k] = f
    BY <1>5
  <2> HIDE DEF f
  <2> QED
    BY <1>4, <1>7, <1>8, <2>1 DEF Held, f
<1>10. <<n + 2, Word>> \in Behind(code, n, d)
  BY <1>3, Successors
<1>11. bp' - sp' = WordSize * Word
  BY <1>1, <1>3, <1>6, MemoryAssumption
<1>12. /\ n + 2 \in DOMAIN depth /\ Instruction(code[n + 2]) # "ENT" /\ depth[n + 2] = Word
       /\ IsCode(pc') /\ Place(pc') = n + 2
  BY <1>1, <1>2, <1>3, <1>10, Flow
<1>13. depth' = depth /\ \A at : IsCode(at)' = IsCode(at)
  BY <1>1 DEF depth, IsCode
<1> HIDE DEF n, d
<1>14. Chain'
  BY <1>1, <1>2, <1>13 DEF Chain, ReturnsTo
<1>15. InCall'
  BY <1>1, <1>4, <1>6, <1>9, <1>11, <1>12, <1>13 DEF InCall
<1>16. Aligned'
  <2>1. 1 + Word \in Int
    BY <1>3
  <2>2. sp' % WordSize = 0
    BY <1>1, <1>2, <1>6, <2>1, Moved
  <2> QED
    BY <1>1, <1>5, <1>6, <2>2 DEF Aligned
<1> QED
  BY <1>1, <1>2, <1>14, <1>15, <1>16 DEF Disciplined

\* JSR leaves the place behind it on the stack, where a call made there may return to.
LEMMA Called ==
  ASSUME StackInv, JumpToSubroutine, ~wild'
  PROVE  Disciplined' /\ Aligned'
<1> DEFINE n == Place(pc)
           d == depth[n]
           f == Last(frames)
           g == [pc |-> Next1 + WordSize, bp |-> bp, sp |-> sp]
           L == Len(frames)
<1>1. /\ ~wild /\ At("JSR") /\ mem' = [mem EXCEPT ![sp - WordSize] = Next1 + WordSize]
      /\ sp' = sp - WordSize /\ pc' = Word /\ frames' = Append(frames, g)
      /\ UNCHANGED <<program, kind, code, entry, phase, bp, a, exitcode>>
  BY DEF JumpToSubroutine, At, Push
<1>2. /\ Types /\ Loaded /\ phase = "runs" /\ Chain /\ InCall /\ Current = "JSR" /\ DepthsKept'
      /\ sp % WordSize = 0 /\ bp % WordSize = 0
  BY <1>1, Placed, DepthsStay DEF StackInv, Aligned
<1>3. /\ n \in DOMAIN depth /\ d \in Nat /\ Instruction(code[n]) = "JSR"
      /\ Next1 + WordSize = WordSize * (n + 2) /\ Word = code[n + 1] /\ Word \in Int
  BY <1>2, Here DEF WithOperand
<1>4. bp = Base(f) /\ bp - sp = WordSize * d /\ Held(frames, mem, TRUE) /\ frames # <<>>
  BY <1>2, <1>3 DEF InCall
<1>5. /\ L \in Nat \ {0} /\ DOMAIN frames = 1 .. L /\ f = frames[L]
      /\ \A k \in DOMAIN frames : Base(f) <= Base(frames[k])
  BY <1>2, <1>4, Lowest
<1>6. /\ sp \in Int /\ bp \in Int /\ sp <= bp /\ sp - WordSize \in Int /\ sp - WordSize < bp
  <2> HIDE DEF d
  <2>1. sp \in Int /\ bp \in Int /\ WordSize \in Nat \ {0} /\ d \in Nat /\ bp - sp = WordSize * d
    BY <1>2, <1>3, <1>4, MemoryAssumption DEF Types
  <2>2. WordSize * d >= 0 /\ WordSize * d \in Int
    BY <2>1
  <2> QED
    BY <2>1, <2>2
<1>7. <<n + 2, d>> \in Behind(code, n, d)
  BY <1>3, Successors
<1>8. /\ n + 2 \in DOMAIN depth /\ Instruction(code[n + 2]) # "ENT" /\ depth[n + 2] = d
      /\ IsCode(g.pc) /\ Place(g.pc) = n + 2
  BY <1>2, <1>3, <1>7, Flow
<1>9. Begins(Word, code, depth) \/ Misses(Word, code)
  BY <1>2, <1>3, Shape DEF Balanced
<1>10. depth' = depth /\ (\A at : IsCode(at)' = IsCode(at)) /\ \A at : Readable(at)' = Readable(at)
  BY <1>1 DEF depth, IsCode, Readable
<1>11. g \in Calls /\ g.sp % WordSize = 0 /\ g.bp % WordSize = 0
  <2>1. Next1 + WordSize \in Int
    BY <1>1, <1>2, Operands
  <2> QED
    BY <1>2, <1>6, <2>1 DEF Calls
<1>12. ReturnsTo(g, Base(f))
  BY <1>4, <1>8 DEF ReturnsTo
<1>13. Held(frames, mem', TRUE)
  BY <1>1, <1>2, <1>4, <1>6, WriteBelow DEF Types
<1>14. sp - WordSize \in Memory /\ mem'[sp - WordSize] = g.pc
  <2>1. sp - WordSize \in Memory
    BY <1>1 DEF At, Defined, Touched, Operations
  <2> QED
    BY <1>1, <1>2, <2>1 DEF Types
<1>15. /\ Len(frames') = L + 1 /\ DOMAIN frames' = 1 .. L + 1 /\ frames' # <<>>
       /\ frames'[L + 1] = g /\ Last(frames') = g /\ frames' \in Seq(Calls)
       /\ \A k \in 1 .. L : frames'[k] = frames[k]
  BY <1>1, <1>2, <1>5, <1>11 DEF Chain, Last
<1> HIDE DEF n, d, f, g, L
<1>16. Held(frames', mem', FALSE)
  <2>1. g.sp = sp
    BY DEF g
  <2> SUFFICES ASSUME NEW k \in 1 .. L + 1
               PROVE  /\ frames'[k].sp - WordSize \in Memory /\ mem'[frames'[k].sp - WordSize] = frames'[k].pc
                      /\ k < L + 1 => Base(frames'[k]) \in Memory /\ mem'[Base(frames'[k])] = frames'[k].bp
    BY <1>13, <1>15 DEF Held
  <2>2. CASE k \in 1 .. L
    BY <1>5, <1>13, <1>15, <2>2 DEF Held
  <2>3. CASE k = L + 1
    BY <1>5, <1>14, <1>15, <2>1, <2>3
  <2> QED
    BY <1>5, <2>2, <2>3
<1>17. Chain'
  <2>1. \A k \in 1 .. L + 1 : frames'[k].sp % WordSize = 0 /\ frames'[k].bp % WordSize = 0
    <3> TAKE k \in 1 .. L + 1
    <3>1. k \in 1 .. L \/ k = L + 1
      BY <1>5
    <3> QED
      BY <1>2, <1>5, <1>11, <1>15, <3>1 DEF Chain
  <2>2. frames'[1] = [pc |-> Label, bp |-> StackTop, sp |-> StackTop - WordSize * 4]
    BY <1>2, <1>4, <1>5, <1>15 DEF Chain
  <2>3. ASSUME NEW k \in 1 .. L + 1, k > 1
        PROVE  ReturnsTo(frames[k], Base(frames[k - 1]))'
    <3>1. k - 1 \in 1 .. L
      BY <1>5, <2>3
    <3>2. ReturnsTo(frames'[k], Base(frames'[k - 1]))
      <4>1. CASE k \in 1 .. L
        BY <1>2, <1>5, <1>15, <2>3, <3>1, <4>1 DEF Chain
      <4>2. CASE k = L + 1
        BY <1>5, <1>12, <1>15, <3>1, <4>2
      <4> QED
        BY <1>5, <4>1, <4>2
    <3> QED
      BY <1>1, <1>10, <3>2 DEF ReturnsTo
  <2>4. ASSUME NEW j \in 1 .. L + 1, NEW k \in 1 .. L + 1, j < k
        PROVE  frames'[k].sp <= Base(frames'[j])
    <3>1. j \in 1 .. L
      BY <1>5, <2>4
    <3>2. CASE k \in 1 .. L
      BY <1>2, <1>5, <1>15, <2>4, <3>1, <3>2 DEF Chain
    <3>3. CASE k = L + 1
      <4>1. frames'[k].sp = sp /\ frames'[j] = frames[j] /\ Base(f) <= Base(frames[j])
        BY <1>5, <1>15, <3>1, <3>3 DEF g
      <4>2. Base(frames[j]) \in Int
        <5>1. frames[j] \in Calls
          BY <1>2, <1>5, <3>1 DEF Chain
        <5> QED
          BY <5>1, MemoryAssumption DEF Calls, Base
      <4> QED
        BY <1>4, <1>6, <4>1, <4>2
    <3> QED
      BY <1>5, <3>2, <3>3
  <2> QED
    BY <1>15, <2>1, <2>2, <2>3, <2>4 DEF Chain
<1>18. InCall' \/ Lost'
  <2>1. CASE Begins(Word, code, depth)
    <3>1. Last(frames') = g /\ g.sp = sp /\ g.bp = bp
      BY <1>15 DEF g
    <3>2. sp' = Last(frames').sp - WordSize /\ bp' = Last(frames').bp
      BY <1>1, <3>1
    <3>3. /\ IsCode(Word) /\ Place(Word) \in DOMAIN depth
          /\ Instruction(code[Place(Word)]) = "ENT"
      BY <2>1 DEF Begins, IsCode
    <3>4. pc' = Word /\ code' = code
      BY <1>1
    <3> QED
      BY <1>10, <1>15, <1>16, <3>2, <3>3, <3>4 DEF InCall
  <2>2. CASE Misses(Word, code)
    BY <1>1, <1>10, <2>2 DEF Misses, Lost, Readable, IsCode
  <2> QED
    BY <1>9, <2>1, <2>2
<1>19. Aligned'
  <2>1. WordSize * 1 = WordSize
    BY MemoryAssumption
  <2>2. (sp - WordSize) % WordSize = 0
    BY <1>2, <1>6, <2>1, Moved
  <2> QED
    BY <1>1, <1>2, <2>2 DEF Aligned
<1> QED
  BY <1>1, <1>2, <1>17, <1>18, <1>19 DEF Disciplined

\* LEV finds what the call open has kept, and goes back behind it.
LEMMA Returned ==
  ASSUME StackInv, Leave, ~wild
  PROVE  /\ frames # <<>> /\ ~wild'
         /\ pc' = Last(frames).pc /\ bp' = Last(frames).bp /\ sp' = Last(frames).sp
         /\ Disciplined' /\ Aligned'
<1> DEFINE f == Last(frames)
           L == Len(frames)
           g == frames[L - 1]
<1>1. /\ At("LEV") /\ sp' = bp + 2 * WordSize /\ bp' = mem[bp] /\ pc' = mem[bp + WordSize]
      /\ frames' = (IF frames = <<>> THEN <<>> ELSE Front(frames)) /\ ~wild'
      /\ UNCHANGED <<program, kind, code, entry, phase, a, mem, exitcode>>
  BY DEF Leave, At
<1>2. /\ Types /\ Loaded /\ phase = "runs" /\ Chain /\ InCall /\ Current = "LEV" /\ DepthsKept'
  BY <1>1, Placed, DepthsStay DEF StackInv
<1>3. Current = Instruction(code[Place(pc)])
  BY <1>2, Here
<1>4. bp = Base(f) /\ Held(frames, mem, TRUE) /\ frames # <<>>
  BY <1>2, <1>3 DEF InCall
<1>5. L \in Nat \ {0} /\ DOMAIN frames = 1 .. L /\ f = frames[L] /\ f \in Calls
  BY <1>2, <1>4, Lowest
<1>6. bp + 2 * WordSize = f.sp /\ bp + WordSize = f.sp - WordSize
  BY <1>4, <1>5, MemoryAssumption DEF Calls, Base
<1>7. mem[bp] = f.bp /\ mem[bp + WordSize] = f.pc
  BY <1>4, <1>5, <1>6 DEF Held
<1>8. pc' = f.pc /\ bp' = f.bp /\ sp' = f.sp
  BY <1>1, <1>6, <1>7
<1>9. Aligned'
  BY <1>2, <1>5, <1>8 DEF Chain, Aligned
<1>10. /\ frames' \in Seq(Calls) /\ Len(frames') = L - 1 /\ DOMAIN frames' = 1 .. L - 1
       /\ \A k \in 1 .. L - 1 : frames'[k] = frames[k]
  BY <1>1, <1>2, <1>4, <1>5 DEF Chain, Front
<1>11. depth' = depth /\ \A at : IsCode(at)' = IsCode(at)
  BY <1>1 DEF depth, IsCode
<1> HIDE DEF f, L, g
<1>12. Held(frames', mem', TRUE)
  <2>1. \A k \in 1 .. L - 1 : k \in 1 .. L
    BY <1>5
  <2> QED
    BY <1>1, <1>4, <1>5, <1>10, <2>1 DEF Held
<1>13. Chain'
  <2>1. \A k \in 1 .. L - 1 : k \in 1 .. L /\ (k > 1 => k - 1 \in 1 .. L - 1)
    BY <1>5
  <2>2. frames' # <<>> => frames'[1] = frames[1]
    BY <1>5, <1>10
  <2>3. \A k \in 1 .. L - 1 : k > 1 => ReturnsTo(frames[k], Base(frames[k - 1]))'
    BY <1>1, <1>2, <1>5, <1>10, <1>11, <2>1 DEF Chain, ReturnsTo
  <2>4. \A k \in 1 .. L - 1 : frames'[k].sp % WordSize = 0 /\ frames'[k].bp % WordSize = 0
    BY <1>2, <1>5, <1>10, <2>1 DEF Chain
  <2>5. \A j, k \in 1 .. L - 1 : j < k => frames'[k].sp <= Base(frames'[j])
    BY <1>2, <1>5, <1>10, <2>1 DEF Chain
  <2> QED
    BY <1>2, <1>4, <1>10, <2>2, <2>3, <2>4, <2>5 DEF Chain
<1>14. InCall' \/ Homeward'
  <2>1. CASE L = 1
    <3>1. frames' = <<>>
      BY <1>10, <2>1
    <3>2. f = [pc |-> Label, bp |-> StackTop, sp |-> StackTop - WordSize * 4]
      BY <1>2, <1>4, <1>5, <2>1 DEF Chain
    <3> QED
      BY <1>8, <1>12, <3>1, <3>2 DEF Homeward
  <2>2. CASE L > 1
    <3>1. L - 1 \in 1 .. L - 1 /\ L \in DOMAIN frames
      BY <1>5, <2>2
    <3>2. frames' # <<>> /\ Last(frames') = g
      BY <1>10, <3>1 DEF Last, g
    <3>3. ReturnsTo(f, Base(g))
      BY <1>2, <1>5, <2>2, <3>1 DEF Chain, g
    <3> QED
      BY <1>1, <1>8, <1>11, <1>12, <3>2, <3>3 DEF InCall, ReturnsTo
  <2> QED
    BY <1>5, <2>1, <2>2
<1> QED
  BY <1>1, <1>2, <1>4, <1>8, <1>9, <1>13, <1>14 DEF Disciplined, f

\* PSH, in a call or on the way home.
LEMMA Pushed ==
  ASSUME StackInv, PushA, ~wild'
  PROVE  Disciplined' /\ Aligned'
<1> DEFINE n == Place(pc)
           d == depth[n]
           f == Last(frames)
<1>1. /\ ~wild /\ At("PSH") /\ mem' = [mem EXCEPT ![sp - WordSize] = a]
      /\ sp' = sp - WordSize /\ pc' = Next1
      /\ UNCHANGED <<program, kind, code, entry, phase, bp, a, exitcode, frames>>
  BY DEF PushA, At, Push
<1>2. /\ Types /\ Loaded /\ phase = "runs" /\ Chain /\ (InCall \/ Homeward)
      /\ Current = "PSH" /\ DepthsKept' /\ sp % WordSize = 0 /\ bp % WordSize = 0
      /\ sp \in Int /\ bp \in Int
  BY <1>1, Placed, DepthsStay DEF StackInv, Aligned, Types
<1>3. WordSize * 1 = WordSize /\ WordSize \in Nat \ {0} /\ StackTop \in Int
  BY MemoryAssumption
<1>4. Aligned'
  <2>1. (sp - WordSize * 1) % WordSize = 0
    BY <1>2, Moved
  <2> QED
    BY <1>1, <1>2, <1>3, <2>1 DEF Aligned
<1>5. depth' = depth /\ \A at : IsCode(at)' = IsCode(at)
  BY <1>1 DEF depth, IsCode
<1>6. CASE InCall
  <2>1. /\ d \in Nat /\ Instruction(code[n]) = "PSH" /\ Next1 = WordSize * (n + 1)
    BY <1>2, <1>6, Here
  <2>2. bp = Base(f) /\ bp - sp = WordSize * d /\ Held(frames, mem, TRUE) /\ frames # <<>>
    BY <1>6, <2>1 DEF InCall
  <2>3. <<n + 1, d + 1>> \in Behind(code, n, d)
    BY <2>1, Successors
  <2> HIDE DEF n, d, f
  <2>4. sp - WordSize \in Int /\ sp - WordSize < bp /\ bp - sp' = WordSize * (d + 1)
    <3>1. WordSize * d >= 0 /\ WordSize * d \in Int /\ WordSize * (d + 1) = WordSize * d + WordSize
      BY <1>3, <2>1
    <3> QED
      BY <1>1, <1>2, <1>3, <2>2, <3>1
  <2>5. Held(frames, mem', TRUE)
    BY <1>1, <1>2, <2>2, <2>4, WriteBelow DEF Types, f
  <2>6. Chain' /\ InCall'
    <3> DEFINE t == <<n + 1, d + 1>>
    <3>1. t[1] = n + 1 /\ t[2] = d + 1
      OBVIOUS
    <3> HIDE DEF t
    <3>2. t \in Behind(code, Place(pc), depth[Place(pc)])
      BY <2>3 DEF t, n, d
    <3>3. pc' = WordSize * t[1] /\ bp - sp' = WordSize * t[2]
      BY <1>1, <2>1, <2>4, <3>1
    <3> QED
      BY <1>1, <1>2, <1>6, <2>5, <3>2, <3>3, Stays
  <2> QED
    BY <1>1, <1>2, <1>4, <2>6 DEF Disciplined
<1>7. CASE Homeward
  <2>1. Label \in Int /\ Label = StackTop - WordSize * 2 /\ Label # Label + WordSize
    BY <1>3 DEF Label
  <2>2. pc = Label /\ sp = StackTop - WordSize * 4 /\ bp = StackTop /\ frames = <<>>
    BY <1>2, <1>7, AtHome DEF Homeward
  <2>3. sp' = StackTop - WordSize * 5 /\ pc' = Label + WordSize
    BY <1>1, <1>3, <2>2 DEF Next1
  <2>4. /\ sp - WordSize # Label /\ sp - WordSize # Label + WordSize
        /\ sp - WordSize = StackTop - WordSize * 5
    BY <1>3, <2>1, <2>2
  <2>5. \A at \in Memory : mem'[at] = mem[at] \/ at = sp - WordSize
    BY <1>1, <1>2 DEF Types
  <2>6. Held(frames, mem', TRUE)
    <3>1. Held(frames, mem, TRUE) /\ DOMAIN frames = {}
      <4>1. DOMAIN frames = {}
        BY <2>2
      <4> QED
        BY <1>7, <4>1 DEF Homeward
    <3>2. \A at \in Memory : mem'[at] = mem[at] \/ (at # Label /\ at # Label + WordSize)
      BY <2>4, <2>5
    <3> QED
      BY <3>1, <3>2, HeldStill
  <2>7. Homeward'
    BY <1>1, <2>2, <2>3, <2>6 DEF Homeward
  <2>8. Chain'
    BY <1>1, <1>2, <1>5 DEF Chain, ReturnsTo
  <2> QED
    BY <1>1, <1>2, <1>4, <2>7, <2>8 DEF Disciplined
<1> QED
  BY <1>2, <1>6, <1>7

-----------------------------------------------------------------------------
(* The theorems.                                                           *)

LEMMA StackStarts ==
  ASSUME Init
  PROVE  StackInv
<1> DEFINE runs == /\ program \in Programs \cup Wrong \cup Faulty
                   /\ code = Image(program).e /\ entry = Image(program).sym["main"].val
                   /\ phase # "rejected" => Image(program).ok
<1>1. runs \/ (phase \in {"rejected", "listed"} /\ code = <<>>)
  BY DEF Init
<1>2. code \in Seq(Int)
  <2>1. CASE runs
    BY <2>1, CodeAssumption DEF Fits
  <2>2. CASE code = <<>>
    BY <2>2
  <2> QED
    BY <1>1, <2>1, <2>2
<1>3. mem \in [Memory -> Int] /\ phase \in {"listed", "compiled", "rejected"}
  BY DEF Init
<1>4. Types
  BY <1>2, <1>3, MemoryAssumption DEF Init, Types
<1>6. Loaded
  <2>1. frames = <<>> /\ wild = FALSE
    BY DEF Init
  <2>2. <<>> \in Seq(Calls)
    OBVIOUS
  <2> QED
    BY <1>1, <2>1, <2>2, Zenon DEF Loaded
<1>5. Aligned /\ Disciplined
  BY <1>3, MemoryAssumption DEF Init, Aligned, Disciplined
<1> QED
  BY <1>4, <1>5, <1>6 DEF StackInv

LEMMA StackStays ==
  ASSUME StackInv, [Next]_vars
  PROVE  StackInv'
<1>1. Types' /\ Loaded'
  BY TypesStay DEF StackInv
<1>2. Aligned' /\ Disciplined'
  <2>1. CASE UNCHANGED vars
    <3>1. UNCHANGED <<program, code, phase, pc, sp, bp, mem, frames, depths, wild>>
      BY <2>1 DEF vars
    <3>2. depth' = depth /\ (\A at : IsCode(at)' = IsCode(at)) /\ \A at : Readable(at)' = Readable(at)
      BY <3>1 DEF depth, IsCode, Readable
    <3>3. Chain' = Chain
      BY <3>1, <3>2 DEF Chain, ReturnsTo
    <3>4. DepthsKept' = DepthsKept
      BY <3>1, <3>2 DEF DepthsKept
    <3>5. InCall' = InCall
      BY <3>1, <3>2 DEF InCall
    <3>6. Homeward' = Homeward /\ Lost' = Lost
      BY <3>1, <3>2 DEF Homeward, Lost
    <3> QED
      BY <3>1, <3>3, <3>4, <3>5, <3>6 DEF StackInv, Aligned, Disciplined
  <2>2. CASE CreateImage
    BY <2>2, Started
  <2>3. CASE Undefined
    BY <2>3 DEF Undefined, registers, StackInv, Aligned, Disciplined
  <2>4. CASE ExitInstruction
    BY <2>4 DEF ExitInstruction, At, StackInv, Aligned, Disciplined
  <2>w. ASSUME wild', phase' = "runs"
        PROVE  Aligned' /\ Disciplined'
    BY <2>w DEF Aligned, Disciplined
  <2>5. CASE \/ LoadAddress \/ Immediate \/ Jump \/ Adjust \/ Load \/ Store
             \/ \E i \in DOMAIN Operations : Operate(i)
    <3>1. (wild => wild') /\ phase' = "runs"
      BY <2>5 DEF LoadAddress, Immediate, Jump, Adjust, Load, Store, Operate, At
    <3>2. CASE ~wild'
      <4>1. Disciplined' /\ (sp % WordSize = 0 => sp' % WordSize = 0) /\ bp' = bp
        BY <2>5, <3>2, Plainly
      <4> QED
        BY <3>1, <3>2, <4>1 DEF StackInv, Aligned
    <3> QED
      BY <2>w, <3>1, <3>2
  <2>6. CASE JumpToSubroutine
    <3>1. phase' = "runs"
      BY <2>6 DEF JumpToSubroutine, At
    <3> QED
      BY <2>6, <2>w, <3>1, Called
  <2>7. CASE Enter
    <3>1. phase' = "runs"
      BY <2>7 DEF Enter, At
    <3> QED
      BY <2>7, <2>w, <3>1, Entered
  <2>8. CASE Leave
    <3>1. phase' = "runs" /\ (wild => wild')
      BY <2>8 DEF Leave, At
    <3> QED
      BY <2>8, <2>w, <3>1, Returned
  <2>9. CASE PushA
    <3>1. phase' = "runs"
      BY <2>9 DEF PushA, At
    <3> QED
      BY <2>9, <2>w, <3>1, Pushed
  <2> QED
    BY <2>1, <2>2, <2>3, <2>4, <2>5, <2>6, <2>7, <2>8, <2>9 DEF Next
<1> QED
  BY <1>1, <1>2 DEF StackInv

\* The stack discipline: whatever balanced code it is given, run_cycle keeps on the
\* stack, below one another, the return address and the saved base of each open call,
\* until a store of the program hits one of them.  (create_c_image and run_cycle,
\* 844-936, 1098-1139)
THEOREM StackDiscipline == Spec => []StackInv
<1>1. Init => StackInv
  BY StackStarts
<1>2. StackInv /\ [Next]_vars => StackInv'
  BY StackStays
<1> QED
  BY <1>1, <1>2, PTL DEF Spec

\* The registers and the words of memory are numbers, and bp and sp are whole words
\* apart from the top of the stack as long as no store has gone wild.  (run_cycle)
THEOREM StackTypesKept == Spec => []TypeOK
<1>1. StackInv => TypeOK
  BY DEF StackInv, Types, Aligned, TypeOK
<1> QED
  BY <1>1, StackDiscipline, PTL

\* The depth of the stack depends on the place in the code only, for calls of any
\* depth.  (expr, stmt and run_cycle)
THEOREM DepthByPlaceAlways == Spec => []DepthByPlace
<1>1. ASSUME StackInv PROVE DepthByPlace
  <2> SUFFICES ASSUME ~wild, phase = "runs", IsCode(pc), Current # "ENT",
                      NEW e \in depths, e[1] = pc
               PROVE  e[2] = bp - sp
    BY DEF DepthByPlace
  <2>1. Types /\ Loaded /\ DepthsKept /\ (InCall \/ Homeward)
    BY <1>1 DEF StackInv, Disciplined, Lost, Readable
  <2>2. InCall
    BY <2>1, AtHome
  <2>3. Current = Instruction(code[Place(pc)])
    BY <2>1, <2>2, Here
  <2>4. bp - sp = WordSize * depth[Place(pc)]
    BY <2>2, <2>3 DEF InCall
  <2> QED
    BY <2>1, <2>4 DEF DepthsKept
<1> QED
  BY <1>1, StackDiscipline, PTL

\* LEV goes back behind the call that is open, with the caller's base and stack, for
\* calls of any depth and whatever the called function did to the stack.  (run_cycle,
\* JSR, ENT and LEV)
THEOREM CallsReturnAlways == Spec => CallsReturn
<1> DEFINE P == ~wild /\ phase = "runs" /\ phase' = "runs" /\ Current = "LEV" =>
                  /\ frames # <<>>
                  /\ LET f == Last(frames) IN pc' = f.pc /\ bp' = f.bp /\ sp' = f.sp
<1>1. StackInv /\ [Next]_vars => [P]_vars
  <2> SUFFICES ASSUME StackInv, Next, ~wild, phase = "runs", phase' = "runs", Current = "LEV"
               PROVE  Leave
    BY Returned
  <2>1. \A i : At(i) => i = "LEV"
    BY DEF At
  <2>2. ~CreateImage /\ ~Undefined
    BY DEF CreateImage, Undefined
  <2>3. /\ ~LoadAddress /\ ~Immediate /\ ~Jump /\ ~JumpToSubroutine /\ ~Enter /\ ~Adjust
        /\ ~Load /\ ~Store /\ ~PushA /\ ~ExitInstruction
    BY <2>1 DEF LoadAddress, Immediate, Jump, JumpToSubroutine, Enter, Adjust, Load, Store, PushA,
       ExitInstruction
  <2>4. \A i \in DOMAIN Operations : ~Operate(i)
    <3>1. "LEV" \notin DOMAIN Operations
      BY DEF Operations
    <3> QED
      BY <2>1, <3>1 DEF Operate
  <2> QED
    BY <2>2, <2>3, <2>4 DEF Next
<1> HIDE DEF P
<1>2. Spec => [][P]_vars
  BY <1>1, StackDiscipline, PTL DEF Spec
<1> QED
  BY <1>2 DEF CallsReturn, P

=============================================================================
