-------------------------- MODULE SchemeMain_proofs --------------------------
(***************************************************************************)
(* The proofs that the Scheme program keeps its types and that the code a  *)
(* call of eval works on outlives the call.                                *)
(*                                                                         *)
(* The inductive invariant is Sound.  It gives the cells of the program a  *)
(* set S that is closed under taking a cell of a list, the pointers        *)
(* something to point to, and orders the environments: an environment is   *)
(* younger than its outer one, a call of eval works in one at least as     *)
(* young as its caller's, and code that lies in a variable is run in an    *)
(* environment younger than the variable's, while only variables of the    *)
(* running call's environment are assigned.                                *)
(***************************************************************************)
EXTENDS SchemeMain, Induction, SequenceTheorems

\* A sequence, whatever its elements are.
Listed(s) == s \in Seq({s[i] : i \in DOMAIN s})

-----------------------------------------------------------------------------
(***************************************************************************)
(* The invariant, part by part.                                            *)
(***************************************************************************)

\* A cell with the cells of its list in S and its environment among the first n.
Formed(c, S, n) ==
  /\ c = [type |-> c.type, val |-> c.val, list |-> c.list, proc |-> c.proc,
          env |-> c.env]
  /\ c.list \in Seq(S) /\ c.env \in 0 .. n
Closure(S, n) == Nil \in S /\ NoCell \in S /\ \A c \in S : Formed(c, S, n)

\* Environments hold cells of S, and each is younger than its outer one.
Scopes(S, E) ==
  /\ Listed(E)
  /\ \A e \in DOMAIN E :
       /\ E[e] = [outer |-> E[e].outer, vars |-> E[e].vars]
       /\ E[e].outer \in 0 .. e - 1
       /\ E[e].vars = [n \in DOMAIN E[e].vars |-> E[e].vars[n]]
       /\ \A n \in DOMAIN E[e].vars :
            /\ E[e].vars[n] = [cell |-> E[e].vars[n].cell, writes |-> E[e].vars[n].writes]
            /\ E[e].vars[n].cell \in S

\* What a pointer names is there: the variable, the result, the parsed code.
Placed(p, E, R, r) ==
  /\ p = [in |-> p.in, at |-> p.at, name |-> p.name, writes |-> p.writes,
          path |-> p.path]
  /\ p.path \in Seq(Nat)
  /\ p.in \in {"nil", "code", "result", "variable"}
  /\ p.in = "code" => p.at = r
  /\ p.in = "result" => p.at \in DOMAIN R
  /\ p.in = "variable" => p.at \in DOMAIN E /\ p.name \in DOMAIN E[p.at].vars

\* Code in a variable is inside it, as it was when the pointer was made, and
\* the variable is older than the environment e the code is run in.
Runnable(x, e, E) ==
  x.in = "variable" =>
    /\ x.path # <<>> /\ x.at < e
    /\ x.writes = E[x.at].vars[x.name].writes
Framed(f, S, E, R, r) ==
  /\ f = [x |-> f.x, env |-> f.env, at |-> f.at, i |-> f.i, proc |-> f.proc,
          exps |-> f.exps]
  /\ f.env \in DOMAIN E /\ f.i \in Nat /\ f.exps \in Seq(S)
  /\ Placed(f.x, E, R, r) /\ Placed(f.proc, E, R, r)
  /\ Runnable(f.x, f.env, E)
Stack(F, S, E, R, r) ==
  /\ Listed(F)
  /\ \A i \in DOMAIN F : Framed(F[i], S, E, R, r)
  /\ \A i, j \in DOMAIN F : i <= j => F[i].env <= F[j].env

Returned(V, E, R, r) == V = <<>> \/ (V = <<V[1]>> /\ Placed(V[1], E, R, r))

Machine(S, F, V, E, R, c, r) ==
  /\ Closure(S, Len(E)) /\ Scopes(S, E) /\ R \in Seq(S) /\ c \in S
  /\ Stack(F, S, E, R, r) /\ Returned(V, E, R, r)

\* main: where it is in the command line and in the tests.
Driver ==
  /\ args \in Lines /\ argv + argc = Len(args) + 1
  /\ argv \in 1 .. Len(args) + 2 /\ argc \in -1 .. Len(args)
  /\ g_tests \in BOOLEAN /\ g_code \in DOMAIN Source \cup {Null}
  /\ phase \in {"args", "parse", "eval", "printed", "tested", "exited", "undefined"}
  /\ exitcode \in {0, 1, 3, 4, 5}
  /\ run \in 0 .. Len(Tests) + 1
  /\ phase \in {"args", "parse", "printed", "tested"} => frames = <<>> /\ value = <<>>
  /\ phase = "args" => run = 0 /\ envs = <<>>
  /\ phase = "parse" => run < (IF g_tests THEN Len(Tests) ELSE 1) /\ 1 \in DOMAIN envs
  /\ phase = "eval" =>
       run \in 1 .. (IF g_tests THEN Len(Tests) ELSE 1) /\ 1 \in DOMAIN envs

Sound ==
  Driver /\ \E S : Machine(S, frames, value, envs, results, code, run)

-----------------------------------------------------------------------------
(***************************************************************************)
(* Sequences.                                                              *)
(***************************************************************************)

LEMMA InOrder ==
  ASSUME NEW s, Listed(s)
  PROVE  Len(s) \in Nat /\ DOMAIN s = 1 .. Len(s)
BY DEF Listed

LEMMA MadeOf ==
  ASSUME NEW T, NEW s \in Seq(T)
  PROVE  Listed(s)
<1> DEFINE U == {s[i] : i \in DOMAIN s}
<1>1. s = [i \in 1 .. Len(s) |-> s[i]] /\ Len(s) \in Nat /\ DOMAIN s = 1 .. Len(s)
  OBVIOUS
<1>2. \A i \in 1 .. Len(s) : s[i] \in U
  BY <1>1
<1>3. [i \in 1 .. Len(s) |-> s[i]] \in Seq(U)
  <2> HIDE DEF U
  <2> QED
    BY <1>1, <1>2, IsASeq
<1> QED
  BY <1>1, <1>3 DEF Listed

LEMMA Appended ==
  ASSUME NEW s, NEW e, Listed(s)
  PROVE  /\ Listed(Append(s, e))
         /\ Len(Append(s, e)) = Len(s) + 1 /\ DOMAIN Append(s, e) = 1 .. Len(s) + 1
         /\ Append(s, e)[Len(s) + 1] = e
         /\ \A i \in DOMAIN s : Append(s, e)[i] = s[i]
<1> DEFINE T == {s[i] : i \in DOMAIN s} \cup {e}
<1>1. s \in Seq(T) /\ e \in T
  BY DEF Listed
<1> HIDE DEF T
<1>2. Append(s, e) \in Seq(T)
  BY <1>1
<1>3. Listed(Append(s, e))
  BY <1>2, MadeOf
<1> QED
  BY <1>1, <1>3

LEMMA Replaced ==
  ASSUME NEW s, NEW e, Listed(s), NEW k \in DOMAIN s
  PROVE  /\ Listed([s EXCEPT ![k] = e])
         /\ Len([s EXCEPT ![k] = e]) = Len(s) /\ DOMAIN [s EXCEPT ![k] = e] = DOMAIN s
         /\ [s EXCEPT ![k] = e][k] = e
         /\ \A i \in DOMAIN s : i # k => [s EXCEPT ![k] = e][i] = s[i]
<1> DEFINE T == {s[i] : i \in DOMAIN s} \cup {e}
<1>1. s \in Seq(T) /\ e \in T
  BY DEF Listed
<1> HIDE DEF T
<1>2. [s EXCEPT ![k] = e] \in Seq(T)
  BY <1>1
<1>3. Listed([s EXCEPT ![k] = e])
  BY <1>2, MadeOf
<1> QED
  BY <1>1, <1>2, <1>3

LEMMA ReplacedIn ==
  ASSUME NEW T, NEW s \in Seq(T), NEW e \in T, NEW k
  PROVE  [s EXCEPT ![k] = e] \in Seq(T)
<1>1. CASE k \in DOMAIN s
  BY <1>1
<1>2. CASE k \notin DOMAIN s
  <2>1. [s EXCEPT ![k] = e] = s
    <3>1. [s EXCEPT ![k] = e] = [i \in DOMAIN s |-> s[i]]
      BY <1>2
    <3>2. s = [i \in DOMAIN s |-> s[i]]
      OBVIOUS
    <3> QED
      BY <3>1, <3>2
  <2> QED
    BY <2>1
<1> QED
  BY <1>1, <1>2

LEMMA Shortened ==
  ASSUME NEW s, Listed(s), s # <<>>
  PROVE  /\ Len(s) \in DOMAIN s
         /\ Listed(Front(s)) /\ DOMAIN Front(s) = 1 .. Len(s) - 1
         /\ \A i \in DOMAIN Front(s) : i \in DOMAIN s /\ Front(s)[i] = s[i]
<1> DEFINE T == {s[i] : i \in DOMAIN s}
<1>1. s \in Seq(T)
  BY DEF Listed
<1> HIDE DEF T
<1>2. Len(s) \in Nat /\ Len(s) >= 1
  BY <1>1
<1>3. Front(s) = [i \in 1 .. Len(s) - 1 |-> s[i]]
  BY <1>1, <1>2 DEF Front
<1>4. Front(s) \in Seq(T)
  <2>1. Len(s) - 1 \in Nat /\ \A i \in 1 .. Len(s) - 1 : s[i] \in T
    BY <1>1, <1>2
  <2> QED
    BY <1>3, <2>1, IsASeq
<1>5. Listed(Front(s))
  BY <1>4, MadeOf
<1> QED
  BY <1>1, <1>2, <1>3, <1>5

-----------------------------------------------------------------------------
(***************************************************************************)
(* Cells and what is inside them.                                          *)
(***************************************************************************)

LEMMA AlongDef ==
  ASSUME NEW c, NEW path, Len(path) \in Nat
  PROVE  /\ Along(c, path)[0] = c
         /\ \A k \in 1 .. Len(path) :
              Along(c, path)[k] = Below(Along(c, path)[k - 1], path[k])
<1> DEFINE Step(f, k) == IF k = 0 THEN c ELSE Below(f[k - 1], path[k])
           T == {n \in Nat : \E f : f = [k \in 0 .. n |-> Step(f, k)]}
<1>1. 0 \in T
  <2> DEFINE f == [k \in 0 .. 0 |-> c]
  <2>1. f = [k \in 0 .. 0 |-> Step(f, k)]
    OBVIOUS
  <2> QED
    BY <2>1
<1>2. ASSUME NEW n \in Nat, n \in T PROVE n + 1 \in T
  <2>1. PICK f : f = [k \in 0 .. n |-> Step(f, k)]
    BY <1>2
  <2> DEFINE g == [k \in 0 .. n + 1 |-> IF k = n + 1 THEN Step(f, k) ELSE f[k]]
  <2>2. \A k \in 0 .. n + 1 : Step(g, k) = Step(f, k)
    <3>1. \A k \in 0 .. n + 1 : k > 0 => g[k - 1] = f[k - 1]
      OBVIOUS
    <3> HIDE DEF g
    <3> QED
      BY <3>1
  <2>3. \A k \in 0 .. n : f[k] = Step(f, k)
    BY <2>1
  <2>4. \A k \in 0 .. n + 1 : g[k] = Step(f, k)
    <3> HIDE DEF Step
    <3> QED
      BY <2>3
  <2>5. g = [k \in 0 .. n + 1 |-> g[k]]
    <3> HIDE DEF Step
    <3> QED
      OBVIOUS
  <2>6. g = [k \in 0 .. n + 1 |-> Step(g, k)]
    <3> HIDE DEF g, Step
    <3> QED
      BY <2>2, <2>4, <2>5
  <2> HIDE DEF g
  <2> QED
    BY <2>6
<1>3. Len(path) \in T
  <2> HIDE DEF T
  <2> QED
    BY <1>1, <1>2, Induct
<1>4. \E f : f = [k \in 0 .. Len(path) |-> Step(f, k)]
  BY <1>3
<1>5. Along(c, path) = [k \in 0 .. Len(path) |-> Step(Along(c, path), k)]
  <2>1. Along(c, path) = CHOOSE f : f = [k \in 0 .. Len(path) |-> Step(f, k)]
    BY DEF Along
  <2> HIDE DEF Step
  <2> QED
    BY <1>4, <2>1
<1>6. \A k \in 0 .. Len(path) : Along(c, path)[k] = Step(Along(c, path), k)
  <2> HIDE DEF Step
  <2> QED
    BY <1>5
<1> QED
  BY <1>6

\* What is inside a cell of a closed set is in the set.
LEMMA InsideClosed ==
  ASSUME NEW S, NEW n, Closure(S, n), NEW c \in S, NEW path, Len(path) \in Nat
  PROVE  \A k \in 0 .. Len(path) : Along(c, path)[k] \in S
<1> DEFINE T == {k \in Nat : k <= Len(path) => Along(c, path)[k] \in S}
<1>1. 0 \in T
  BY AlongDef
<1>2. ASSUME NEW k \in Nat, k \in T PROVE k + 1 \in T
  <2> SUFFICES ASSUME k + 1 <= Len(path) PROVE Along(c, path)[k + 1] \in S
    OBVIOUS
  <2>1. Along(c, path)[k] \in S
    BY <1>2
  <2>2. Along(c, path)[k + 1] = Below(Along(c, path)[k], path[k + 1])
    BY AlongDef
  <2>3. \A b \in S : \A i : Below(b, i) \in S
    <3>1. ASSUME NEW b \in S, NEW i PROVE Below(b, i) \in S
      <4>1. b.list \in Seq(S) /\ NoCell \in S
        BY <3>1 DEF Closure, Formed
      <4>2. i \in DOMAIN b.list => b.list[i] \in S
        BY <4>1
      <4> QED
        BY <4>1, <4>2 DEF Below
    <3> QED
      BY <3>1
  <2> QED
    BY <2>1, <2>2, <2>3
<1>3. Nat \subseteq T
  <2> HIDE DEF T
  <2> QED
    BY <1>1, <1>2, Induct
<1> QED
  BY <1>3

\* There is nothing inside nil.
LEMMA NilIsBare ==
  ASSUME NEW path, Len(path) \in Nat
  PROVE  Inside(Nil, path).type \in {"Symbol", "none"}
<1>1. Closure({Nil, NoCell}, 0)
  BY DEF Closure, Formed, Nil, NoCell, Symbol, Cell
<1>2. Inside(Nil, path) \in {Nil, NoCell}
  <2>1. Nil \in {Nil, NoCell} /\ Len(path) \in 0 .. Len(path)
    OBVIOUS
  <2>2. Along(Nil, path)[Len(path)] \in {Nil, NoCell}
    BY <1>1, <2>1, InsideClosed
  <2> QED
    BY <2>2 DEF Inside
<1>3. Nil.type = "Symbol" /\ NoCell.type = "none"
  BY DEF Nil, NoCell, Symbol, Cell
<1> QED
  BY <1>2, <1>3

-----------------------------------------------------------------------------
(***************************************************************************)
(* Pointers.                                                               *)
(***************************************************************************)

LEMMA NilPlaced == ASSUME NEW E, NEW R, NEW r PROVE Placed(ToNil, E, R, r)
BY DEF Placed, ToNil, Pointer

\* A pointer leads to one of the known cells, from nil to none but nil.
LEMMA CellKnown ==
  ASSUME NEW S, Machine(S, frames, value, envs, results, code, run),
         NEW p, Placed(p, envs, results, run)
  PROVE  /\ CellAt(p) \in S
         /\ p.in = "nil" => CellAt(p).type \in {"Symbol", "none"}
<1>1. Len(p.path) \in Nat /\ Len(p.path) \in 0 .. Len(p.path)
  BY DEF Placed
<1>2. \A c \in S : Inside(c, p.path) \in S
  BY <1>1, InsideClosed DEF Machine, Inside
<1>3. CASE p.in = "nil"
  BY <1>1, <1>2, <1>3, NilIsBare DEF CellAt, Machine, Closure
<1>4. CASE p.in = "code"
  BY <1>2, <1>4 DEF CellAt, Machine
<1>5. CASE p.in = "result"
  <2>1. results[p.at] \in S
    BY <1>5 DEF Placed, Machine
  <2> QED
    BY <1>2, <1>5, <2>1 DEF CellAt
<1>6. CASE p.in = "variable"
  <2>1. envs[p.at].vars[p.name].cell \in S
    BY <1>6 DEF Placed, Machine, Scopes
  <2> QED
    BY <1>2, <1>6, <2>1 DEF CellAt
<1> QED
  BY <1>3, <1>4, <1>5, <1>6 DEF Placed

\* cell_index: the pointer to a cell inside is in the same place, and as good
\* as the pointer it is made from.
LEMMA IndexPlaced ==
  ASSUME NEW i \in Nat, NEW p, NEW R, Placed(p, envs, R, run), NEW q, q = Index(i, p)
  PROVE  /\ Placed(q, envs, R, run)
         /\ q.in = p.in /\ q.at = p.at /\ q.name = p.name /\ q.path # <<>>
         /\ p.in = "variable" /\ Live(p) => q.writes = envs[p.at].vars[p.name].writes
<1>1. p.path \in Seq(Nat) /\ i + 1 \in Nat
  BY DEF Placed
<1>2. Append(p.path, i + 1) \in Seq(Nat) /\ Append(p.path, i + 1) # <<>>
  BY <1>1
<1>3. q = [in |-> p.in, at |-> p.at, name |-> p.name,
           writes |-> IF p.in = "variable" /\ p.path = <<>>
                      THEN envs[p.at].vars[p.name].writes ELSE p.writes,
           path |-> Append(p.path, i + 1)]
  BY DEF Placed, Index
<1>4. Placed(q, envs, R, run)
  BY <1>2, <1>3 DEF Placed
<1> QED
  BY <1>2, <1>3, <1>4 DEF Live

\* The recursion of a lookup goes to older environments, so that it ends.
LEMMA FoundDef ==
  ASSUME NEW S, Scopes(S, envs), NEW name
  PROVE  \E found : found = [d \in 0 .. Len(envs) |->
                               IF d = 0 \/ name \in DOMAIN envs[d].vars THEN d
                               ELSE found[envs[d].outer]]
<1> DEFINE Step(f, d) ==
             IF d = 0 \/ name \in DOMAIN envs[d].vars THEN d ELSE f[envs[d].outer]
           T == {n \in Nat : n <= Len(envs) => \E f : f = [d \in 0 .. n |-> Step(f, d)]}
<1>1. 0 \in T
  <2> DEFINE f == [d \in 0 .. 0 |-> d]
  <2>1. f = [d \in 0 .. 0 |-> Step(f, d)]
    OBVIOUS
  <2> HIDE DEF f
  <2> QED
    BY <2>1
<1>2. ASSUME NEW n \in Nat, n \in T PROVE n + 1 \in T
  <2> SUFFICES ASSUME n + 1 <= Len(envs)
               PROVE  \E f : f = [d \in 0 .. n + 1 |-> Step(f, d)]
    OBVIOUS
  <2>0. Len(envs) \in Nat /\ DOMAIN envs = 1 .. Len(envs)
    BY InOrder DEF Scopes
  <2>1. PICK f : f = [d \in 0 .. n |-> Step(f, d)]
    BY <1>2, <2>0
  <2> DEFINE g == [d \in 0 .. n + 1 |-> IF d = n + 1 THEN Step(f, d) ELSE f[d]]
  <2>2. \A d \in 0 .. n + 1 : Step(g, d) = Step(f, d)
    <3>0. \A d \in 1 .. Len(envs) : envs[d].outer \in 0 .. d - 1
      BY <2>0 DEF Scopes
    <3>1. \A d \in 0 .. n + 1 : d # 0 => envs[d].outer \in 0 .. n
      BY <2>0, <3>0
    <3>2. \A k \in 0 .. n : g[k] = f[k]
      OBVIOUS
    <3> HIDE DEF g
    <3> QED
      BY <3>1, <3>2
  <2>3. \A d \in 0 .. n : f[d] = Step(f, d)
    BY <2>1
  <2>4. \A d \in 0 .. n + 1 : g[d] = Step(f, d)
    <3> HIDE DEF Step
    <3> QED
      BY <2>3
  <2>5. g = [d \in 0 .. n + 1 |-> g[d]]
    <3> HIDE DEF Step
    <3> QED
      OBVIOUS
  <2>6. g = [d \in 0 .. n + 1 |-> Step(g, d)]
    <3> HIDE DEF g, Step
    <3> QED
      BY <2>2, <2>4, <2>5
  <2> HIDE DEF g
  <2> QED
    BY <2>6
<1>3. Len(envs) \in T
  <2>1. Len(envs) \in Nat
    BY InOrder DEF Scopes
  <2> HIDE DEF T
  <2> QED
    BY <1>1, <1>2, <2>1, Induct
<1> QED
  BY <1>3

\* A lookup ends in an environment that has the name, or in none.
LEMMA Found ==
  ASSUME NEW S, Scopes(S, envs), NEW e \in 0 .. Len(envs), NEW name,
         FindFrom(e, name) # 0
  PROVE  FindFrom(e, name) \in DOMAIN envs /\ name \in DOMAIN envs[FindFrom(e, name)].vars
<1>0. Len(envs) \in Nat /\ DOMAIN envs = 1 .. Len(envs)
  BY InOrder DEF Scopes
<1> DEFINE Step(f, d) ==
             IF d = 0 \/ name \in DOMAIN envs[d].vars THEN d ELSE f[envs[d].outer]
           found == CHOOSE f : f = [d \in 0 .. Len(envs) |-> Step(f, d)]
<1>1. found[e] = FindFrom(e, name) /\ found = [d \in 0 .. Len(envs) |-> Step(found, d)]
  <2>1. \E f : f = [d \in 0 .. Len(envs) |-> Step(f, d)]
    BY FoundDef
  <2>2. found[e] = FindFrom(e, name)
    BY DEF FindFrom
  <2> HIDE DEF Step
  <2> QED
    BY <2>1, <2>2
<1> HIDE DEF found
<1> DEFINE Good(d) == found[d] = 0 \/ (/\ found[d] \in DOMAIN envs
                                       /\ name \in DOMAIN envs[found[d]].vars)
           T == {n \in Nat : \A d \in 0 .. n : d <= Len(envs) => Good(d)}
<1>2. \A d \in 0 .. Len(envs) :
        found[d] = IF d = 0 \/ name \in DOMAIN envs[d].vars THEN d ELSE found[envs[d].outer]
  BY <1>1
<1>3. 0 \in T
  BY <1>0, <1>2
<1>4. ASSUME NEW n \in Nat, n \in T PROVE n + 1 \in T
  <2>1. SUFFICES ASSUME n + 1 <= Len(envs) PROVE Good(n + 1)
    BY <1>4
  <2>0. \A d \in 1 .. Len(envs) : envs[d].outer \in 0 .. d - 1
    BY <1>0 DEF Scopes
  <2>2. envs[n + 1].outer \in 0 .. n
    BY <1>0, <2>0, <2>1
  <2>3. Good(envs[n + 1].outer)
    BY <1>0, <1>4, <2>1, <2>2
  <2> QED
    BY <1>0, <1>2, <2>1, <2>3
<1>5. Nat \subseteq T
  <2> HIDE DEF T
  <2> QED
    BY <1>3, <1>4, Induct
<1>6. Good(e)
  BY <1>0, <1>5
<1> QED
  BY <1>1, <1>6

-----------------------------------------------------------------------------
(***************************************************************************)
(* What a step does to the stack and to the memory.                        *)
(***************************************************************************)

\* A new call has nothing but its expression and its environment.
LEMMA Entered ==
  ASSUME NEW S, NEW E, NEW R, NEW r, NEW x, NEW e \in DOMAIN E, Placed(x, E, R, r),
         Runnable(x, e, E)
  PROVE  Framed(Enter(x, e), S, E, R, r) /\ Enter(x, e).env = e
<1>1. /\ Enter(x, e).x = x /\ Enter(x, e).env = e /\ Enter(x, e).i = 0
      /\ Enter(x, e).proc = ToNil /\ Enter(x, e).exps = <<>>
  BY DEF Enter
<1>2. Placed(ToNil, E, R, r)
  BY NilPlaced
<1> QED
  BY <1>1, <1>2 DEF Framed, Enter

\* The running call goes on.
LEMMA Continued ==
  ASSUME NEW S, NEW F, NEW V, NEW E, NEW R, NEW c, NEW r, NEW f,
         Machine(S, F, V, E, R, c, r), F # <<>>,
         Framed(f, S, E, R, r), F[Len(F)].env <= f.env
  PROVE  Machine(S, [F EXCEPT ![Len(F)] = f], <<>>, E, R, c, r)
<1> DEFINE G == [F EXCEPT ![Len(F)] = f]
           n == Len(F)
<1>1. Listed(F) /\ n \in DOMAIN F /\ n \in Nat /\ DOMAIN F = 1 .. n
  BY InOrder, Shortened DEF Machine, Stack
<1>2. /\ Listed(G) /\ DOMAIN G = 1 .. n /\ G[n] = f
      /\ \A i \in 1 .. n : i # n => G[i] = F[i]
  BY <1>1, Replaced
<1> HIDE DEF G
<1>3. \A i \in DOMAIN G : Framed(G[i], S, E, R, r)
  BY <1>1, <1>2 DEF Machine, Stack
<1>4. \A i \in DOMAIN G : G[i].env \in Nat
  BY <1>3, InOrder DEF Framed, Machine, Scopes
<1>5. \A i \in 1 .. n : F[i].env \in Nat /\ F[i].env <= F[n].env
  BY <1>1, InOrder DEF Framed, Machine, Scopes, Stack
<1>6. \A i, j \in DOMAIN G : i <= j => G[i].env <= G[j].env
  <2> SUFFICES ASSUME NEW i \in 1 .. n, NEW j \in 1 .. n, i <= j
               PROVE  G[i].env <= G[j].env
    BY <1>2
  <2>0. G[i].env \in Nat /\ G[j].env \in Nat /\ n \in Nat
    BY <1>1, <1>2, <1>4
  <2>1. CASE j # n
    <3>1. i # n
      BY <2>0, <2>1
    <3>2. G[i] = F[i] /\ G[j] = F[j]
      BY <1>2, <2>1, <3>1
    <3>3. F[i].env <= F[j].env
      BY <1>1 DEF Machine, Stack
    <3> QED
      BY <3>2, <3>3
  <2>2. CASE j = n /\ i # n
    <3>1. G[i] = F[i] /\ G[j] = f /\ F[n].env <= f.env
      BY <1>2, <2>2
    <3>2. F[i].env \in Nat /\ F[n].env \in Nat /\ F[i].env <= F[n].env
      BY <1>1, <1>5
    <3> QED
      BY <2>0, <3>1, <3>2
  <2>3. CASE i = n /\ j = n
    BY <2>0, <2>3
  <2> QED
    BY <1>1, <2>1, <2>2, <2>3
<1>7. Stack(G, S, E, R, r)
  BY <1>2, <1>3, <1>6 DEF Stack
<1> QED
  BY <1>7 DEF Machine, Returned, G

\* It opens a call in its environment.
LEMMA Called ==
  ASSUME NEW S, NEW F, NEW V, NEW E, NEW R, NEW c, NEW r, NEW f, NEW g,
         Machine(S, F, V, E, R, c, r), F # <<>>,
         Framed(f, S, E, R, r), F[Len(F)].env <= f.env,
         Framed(g, S, E, R, r), g.env = f.env
  PROVE  Machine(S, Append([F EXCEPT ![Len(F)] = f], g), <<>>, E, R, c, r)
<1> DEFINE G == [F EXCEPT ![Len(F)] = f]
           H == Append(G, g)
           n == Len(F)
<1>1. Listed(F) /\ n \in DOMAIN F /\ n \in Nat /\ DOMAIN F = 1 .. n
  BY InOrder, Shortened DEF Machine, Stack
<1>2. Listed(G) /\ Len(G) = n /\ DOMAIN G = 1 .. n /\ G[n] = f
  BY <1>1, Replaced
<1>3. Machine(S, G, <<>>, E, R, c, r)
  BY Continued
<1> HIDE DEF G
<1>4. /\ Listed(H) /\ DOMAIN H = 1 .. n + 1 /\ H[n + 1] = g
      /\ \A i \in 1 .. n : H[i] = G[i]
  BY <1>2, Appended
<1> HIDE DEF H
<1>5. \A i \in DOMAIN H : Framed(H[i], S, E, R, r)
  BY <1>1, <1>2, <1>3, <1>4 DEF Machine, Stack
<1>6. \A i \in DOMAIN H : H[i].env \in Nat
  BY <1>5, InOrder DEF Framed, Machine, Scopes
<1>7. \A i, j \in 1 .. n : i <= j => G[i].env <= G[j].env
  BY <1>2, <1>3 DEF Machine, Stack
<1>8. \A i \in 1 .. n : H[i].env <= H[n + 1].env
  BY <1>1, <1>2, <1>4, <1>7
<1>9. \A i, j \in DOMAIN H : i <= j => H[i].env <= H[j].env
  <2> SUFFICES ASSUME NEW i \in 1 .. n + 1, NEW j \in 1 .. n + 1, i <= j
               PROVE  H[i].env <= H[j].env
    BY <1>4
  <2>1. CASE j # n + 1
    <3>1. i \in 1 .. n /\ j \in 1 .. n
      BY <1>1, <2>1
    <3>2. H[i] = G[i] /\ H[j] = G[j]
      BY <1>4, <3>1
    <3> QED
      BY <1>7, <3>1, <3>2
  <2>2. CASE j = n + 1 /\ i # n + 1
    BY <1>1, <1>8, <2>2
  <2>3. CASE i = n + 1 /\ j = n + 1
    BY <1>4, <1>6, <2>3
  <2> QED
    BY <1>1, <2>1, <2>2, <2>3
<1>10. Stack(H, S, E, R, r)
  BY <1>4, <1>5, <1>9 DEF Stack
<1> QED
  BY <1>3, <1>10 DEF Machine, Returned, G, H

\* It returns to its caller.
LEMMA Left ==
  ASSUME NEW S, NEW F, NEW V, NEW E, NEW R, NEW c, NEW r, NEW p,
         Machine(S, F, V, E, R, c, r), F # <<>>, Placed(p, E, R, r)
  PROVE  Machine(S, Front(F), <<p>>, E, R, c, r)
<1>1. /\ Listed(Front(F))
      /\ \A i \in DOMAIN Front(F) : i \in DOMAIN F /\ Front(F)[i] = F[i]
  BY Shortened DEF Machine, Stack
<1>2. Stack(Front(F), S, E, R, r)
  BY <1>1 DEF Machine, Stack
<1>3. Returned(<<p>>, E, R, r)
  BY DEF Returned
<1> QED
  BY <1>2, <1>3 DEF Machine

\* The memory grows, and only variables of the running call's environment, or
\* of younger ones, are assigned.
LEMMA PlacedStill ==
  ASSUME NEW E, NEW E2, NEW R, NEW R2, NEW r, NEW p,
         DOMAIN E \subseteq DOMAIN E2, DOMAIN R \subseteq DOMAIN R2,
         \A e \in DOMAIN E : DOMAIN E[e].vars \subseteq DOMAIN E2[e].vars,
         Placed(p, E, R, r)
  PROVE  Placed(p, E2, R2, r)
BY DEF Placed

LEMMA Grown ==
  ASSUME NEW S, NEW S2, NEW F, NEW V, NEW E, NEW E2, NEW R, NEW R2, NEW c, NEW c2, NEW r,
         Machine(S, F, V, E, R, c, r), S \subseteq S2,
         Closure(S2, Len(E2)), Scopes(S2, E2), R2 \in Seq(S2), c2 \in S2,
         DOMAIN E \subseteq DOMAIN E2, DOMAIN R \subseteq DOMAIN R2,
         \A e \in DOMAIN E : DOMAIN E[e].vars \subseteq DOMAIN E2[e].vars,
         \A e \in DOMAIN E : \A n \in DOMAIN E[e].vars :
           (F # <<>> => e < F[Len(F)].env) => E2[e].vars[n].writes = E[e].vars[n].writes
  PROVE  Machine(S2, F, V, E2, R2, c2, r)
<1>1. \A p : Placed(p, E, R, r) => Placed(p, E2, R2, r)
  BY PlacedStill, Zenon
<1>2. Returned(V, E2, R2, r)
  BY <1>1 DEF Machine, Returned
<1>3. ASSUME NEW i \in DOMAIN F PROVE Framed(F[i], S2, E2, R2, r)
  <2>1. Framed(F[i], S, E, R, r)
    BY <1>3 DEF Machine, Stack
  <2>2. F # <<>> /\ Len(F) \in DOMAIN F /\ i <= Len(F)
    BY <1>3, InOrder DEF Machine, Stack
  <2>3. F[i].env <= F[Len(F)].env
    BY <1>3, <2>2 DEF Machine, Stack
  <2>4. F[i].env \in Nat /\ F[Len(F)].env \in Nat
    BY <2>1, <2>2, InOrder DEF Machine, Stack, Framed, Scopes
  <2>5. Runnable(F[i].x, F[i].env, E2)
    <3> SUFFICES ASSUME F[i].x.in = "variable" PROVE Runnable(F[i].x, F[i].env, E2)
      BY DEF Runnable
    <3> DEFINE x == F[i].x
    <3>1. /\ x.path # <<>> /\ x.at < F[i].env /\ x.at \in DOMAIN E
          /\ x.name \in DOMAIN E[x.at].vars
          /\ x.writes = E[x.at].vars[x.name].writes
      BY <2>1 DEF Framed, Runnable, Placed
    <3>2. x.at \in Nat /\ x.at < F[Len(F)].env
      BY <2>3, <2>4, <3>1, InOrder DEF Machine, Scopes
    <3>3. E2[x.at].vars[x.name].writes = E[x.at].vars[x.name].writes
      BY <3>1, <3>2
    <3> QED
      BY <3>1, <3>3 DEF Runnable
  <2>6. Placed(F[i].x, E2, R2, r) /\ Placed(F[i].proc, E2, R2, r)
    BY <1>1, <2>1 DEF Framed
  <2>7. F[i].exps \in Seq(S2)
    <3>1. F[i].exps \in Seq(S)
      BY <2>1 DEF Framed
    <3> QED
      BY <3>1
  <2> QED
    BY <2>1, <2>5, <2>6, <2>7 DEF Framed
<1>4. Stack(F, S2, E2, R2, r)
  BY <1>3 DEF Machine, Stack
<1> QED
  BY <1>2, <1>4 DEF Machine

-----------------------------------------------------------------------------
(***************************************************************************)
(* The steps of eval.                                                      *)
(***************************************************************************)

Now(S) == Machine(S, frames, value, envs, results, code, run)

\* Code that is alive stays so in the environments e is one of.
LEMMA RunnableLive ==
  ASSUME NEW x, NEW e, Placed(x, envs, results, run), Runnable(x, e, envs)
  PROVE  Live(x)
BY DEF Placed, Runnable, Live

\* What the running call works on.
LEMMA Running ==
  ASSUME NEW S, Now(S), frames # <<>>
  PROVE  /\ Listed(frames) /\ Len(frames) \in DOMAIN frames
         /\ Framed(top, S, envs, results, run) /\ top.env \in Nat
         /\ Placed(top.x, envs, results, run) /\ Runnable(top.x, top.env, envs)
         /\ Live(top.x) /\ X \in S /\ Formed(X, S, Len(envs))
<1>1. Listed(frames) /\ Len(frames) \in DOMAIN frames
  BY Shortened DEF Now, Machine, Stack
<1>2. Framed(top, S, envs, results, run)
  BY <1>1 DEF Now, Machine, Stack, top
<1>3. Placed(top.x, envs, results, run) /\ Runnable(top.x, top.env, envs)
  BY <1>2 DEF Framed
<1>4. top.env \in Nat
  BY <1>2, InOrder DEF Framed, Now, Machine, Scopes
<1>5. Live(top.x)
  BY <1>3, RunnableLive
<1>6. X \in S
  BY <1>3, CellKnown DEF Now, X
<1>7. Formed(X, S, Len(envs))
  BY <1>6 DEF Now, Machine, Closure
<1> QED
  BY <1>1, <1>2, <1>3, <1>4, <1>5, <1>6, <1>7

\* A cell of its expression is code for the same call.
LEMMA PartOfX ==
  ASSUME NEW S, Now(S), frames # <<>>, NEW i \in Nat, NEW x, x = Index(i, top.x)
  PROVE  Placed(x, envs, results, run) /\ Runnable(x, top.env, envs)
<1>1. /\ Placed(top.x, envs, results, run) /\ Runnable(top.x, top.env, envs)
      /\ Live(top.x)
  BY Running
<1>2. /\ Placed(x, envs, results, run)
      /\ x.in = top.x.in /\ x.at = top.x.at /\ x.name = top.x.name /\ x.path # <<>>
      /\ top.x.in = "variable" =>
           x.writes = envs[top.x.at].vars[top.x.name].writes
  BY <1>1, IndexPlaced
<1> QED
  BY <1>1, <1>2 DEF Runnable

\* It goes on in its environment.
LEMMA GoesOn ==
  ASSUME NEW S, Now(S), frames # <<>>, NEW f,
         Framed(f, S, envs, results, run), f.env = top.env,
         Continue(f), UNCHANGED memory
  PROVE  Now(S)'
<1>1. frames[Len(frames)].env <= f.env
  BY Running DEF top
<1>2. Machine(S, [frames EXCEPT ![Len(frames)] = f], <<>>, envs, results, code, run)
  BY <1>1, Continued DEF Now
<1> QED
  BY <1>2 DEF Now, Continue, memory

\* It calls eval on an expression, or returns.
LEMMA Calls ==
  ASSUME NEW S, Now(S), frames # <<>>, NEW f,
         Framed(f, S, envs, results, run), f.env = top.env,
         NEW x, Placed(x, envs, results, run), Runnable(x, top.env, envs),
         Call(f, x), UNCHANGED memory
  PROVE  Now(S)'
<1>1. frames[Len(frames)].env <= f.env /\ f.env \in DOMAIN envs
  BY Running DEF top, Framed
<1>2. Framed(Enter(x, f.env), S, envs, results, run) /\ Enter(x, f.env).env = f.env
  BY <1>1, Entered
<1>3. Machine(S, Append([frames EXCEPT ![Len(frames)] = f], Enter(x, f.env)), <<>>,
              envs, results, code, run)
  BY <1>1, <1>2, Called DEF Now
<1> QED
  BY <1>3 DEF Now, Call, memory

LEMMA Returns ==
  ASSUME NEW S, Now(S), frames # <<>>, NEW p, Placed(p, envs, results, run),
         Return(p), UNCHANGED memory
  PROVE  Now(S)'
<1>1. Machine(S, Front(frames), <<p>>, envs, results, code, run)
  BY Left DEF Now
<1> QED
  BY <1>1 DEF Now, Return, memory

\* eval returns the pointer to a variable, to the expression, or to nil.
LEMMA EvalSymbolKeeps == ASSUME NEW S, Now(S), EvalSymbol PROVE Now(S)'
<1>1. frames # <<>> /\ UNCHANGED memory
  BY DEF EvalSymbol, At
<1>2. PICK found : /\ found = FindFrom(top.env, X.val) /\ found # 0
                   /\ Return(ToVariable(found, X.val))
  BY DEF EvalSymbol
<1>3. top.env \in 0 .. Len(envs)
  <2>1. top.env \in DOMAIN envs
    BY <1>1, Running DEF Framed
  <2>2. Len(envs) \in Nat /\ DOMAIN envs = 1 .. Len(envs)
    BY InOrder DEF Now, Machine, Scopes
  <2> QED
    BY <2>1, <2>2
<1>4. found \in DOMAIN envs /\ X.val \in DOMAIN envs[found].vars
  BY <1>2, <1>3, Found DEF Now, Machine
<1>5. Placed(ToVariable(found, X.val), envs, results, run)
  BY <1>4 DEF Placed, ToVariable, Pointer
<1> QED
  BY <1>1, <1>2, <1>5, Returns

LEMMA EvalAtomKeeps ==
  ASSUME NEW S, Now(S), EvalNumber \/ EvalEmpty \/ EvalQuote PROVE Now(S)'
<1>1. frames # <<>> /\ UNCHANGED memory
  BY DEF EvalNumber, EvalEmpty, EvalQuote, Form, At
<1>2. Placed(top.x, envs, results, run) /\ Placed(ToNil, envs, results, run)
  BY <1>1, Running, NilPlaced
<1>3. PICK q : q = Index(1, top.x)
  OBVIOUS
<1>4. Placed(q, envs, results, run)
  BY <1>1, <1>3, PartOfX
<1>5. PICK p : Return(p) /\ p \in {top.x, ToNil, q}
  BY <1>3 DEF EvalNumber, EvalEmpty, EvalQuote
<1>6. Placed(p, envs, results, run)
  BY <1>2, <1>4, <1>5
<1> QED
  BY <1>1, <1>5, <1>6, Returns

\* eval is called for a condition, a value, an operator or an operand.
LEMMA EvalCallsKeep ==
  ASSUME NEW S, Now(S), EvalIf \/ EvalBinding \/ EvalOperator \/ EvalOperand
  PROVE  Now(S)'
<1>1. frames # <<>> /\ UNCHANGED memory
  BY DEF EvalIf, EvalBinding, EvalOperator, EvalOperand, Form, At
<1>2. Framed(top, S, envs, results, run) /\ top.i \in Nat
  BY <1>1, Running DEF Framed
<1>3. PICK f : /\ f = top \/ \E a : f = [top EXCEPT !.at = a]
               /\ \E i \in {0, 1, 2, top.i} : Call(f, Index(i, top.x))
  BY DEF EvalIf, EvalBinding, EvalOperator, EvalOperand
<1>4. PICK i \in {0, 1, 2, top.i} : Call(f, Index(i, top.x))
  BY <1>3
<1>5. PICK x : x = Index(i, top.x)
  OBVIOUS
<1>6. Placed(x, envs, results, run) /\ Runnable(x, top.env, envs)
  BY <1>1, <1>2, <1>5, PartOfX
<1>7. Framed(f, S, envs, results, run) /\ f.env = top.env
  BY <1>2, <1>3 DEF Framed
<1> QED
  BY <1>1, <1>4, <1>5, <1>6, <1>7, Calls

LEMMA TakeBranchKeeps == ASSUME NEW S, Now(S), TakeBranch PROVE Now(S)'
<1>1. frames # <<>> /\ UNCHANGED memory
  BY DEF TakeBranch, BackAt
<1>2. Framed(top, S, envs, results, run)
  BY <1>1, Running
<1>3. PICK x : /\ Continue([top EXCEPT !.at = "eval", !.x = x])
               /\ x \in {ToNil, Index(3, top.x), Index(2, top.x)}
  BY DEF TakeBranch, IndexDefault
<1>4. Placed(x, envs, results, run) /\ Runnable(x, top.env, envs)
  <2>1. CASE x = ToNil
    BY <2>1, NilPlaced DEF Runnable, ToNil, Pointer
  <2>2. CASE x = Index(3, top.x) \/ x = Index(2, top.x)
    BY <1>1, <2>2, PartOfX
  <2> QED
    BY <1>3, <2>1, <2>2
<1>5. PICK f : f = [top EXCEPT !.at = "eval", !.x = x]
  OBVIOUS
<1>6. Framed(f, S, envs, results, run) /\ f.env = top.env
  BY <1>2, <1>4, <1>5 DEF Framed
<1> QED
  BY <1>1, <1>3, <1>5, <1>6, GoesOn

LEMMA BeginKeeps == ASSUME NEW S, Now(S), EvalBegin \/ BackInBegin PROVE Now(S)'
<1>1. frames # <<>> /\ UNCHANGED memory
  BY DEF EvalBegin, BackInBegin, Form, At, BackAt
<1>2. Framed(top, S, envs, results, run) /\ top.i \in Nat
  BY <1>1, Running DEF Framed
<1>3. PICK i \in Nat : NextOfBegin(i)
  BY <1>2 DEF EvalBegin, BackInBegin
<1>4. PICK x : x = Index(i, top.x)
  OBVIOUS
<1>5. Placed(x, envs, results, run) /\ Runnable(x, top.env, envs)
  BY <1>1, <1>4, PartOfX
<1>6. CASE Call([top EXCEPT !.at = "begin", !.i = i + 1], x)
  <2>1. PICK f : f = [top EXCEPT !.at = "begin", !.i = i + 1]
    OBVIOUS
  <2>2. Framed(f, S, envs, results, run) /\ f.env = top.env
    <3>1. i + 1 \in Nat
      OBVIOUS
    <3> QED
      BY <1>2, <2>1, <3>1 DEF Framed
  <2> QED
    BY <1>1, <1>5, <1>6, <2>1, <2>2, Calls
<1>7. CASE Continue([top EXCEPT !.at = "eval", !.x = x])
  <2>1. PICK f : f = [top EXCEPT !.at = "eval", !.x = x]
    OBVIOUS
  <2>2. Framed(f, S, envs, results, run) /\ f.env = top.env
    BY <1>2, <1>5, <2>1 DEF Framed
  <2> QED
    BY <1>1, <1>7, <2>1, <2>2, GoesOn
<1> QED
  BY <1>3, <1>4, <1>6, <1>7 DEF NextOfBegin

\* The operator is kept by its pointer, an operand by its cell.
LEMMA TakeKeeps == ASSUME NEW S, Now(S), TakeOperator \/ TakeOperand PROVE Now(S)'
<1>1. frames # <<>> /\ value # <<>> /\ UNCHANGED memory
  BY DEF TakeOperator, TakeOperand, BackAt
<1>2. Framed(top, S, envs, results, run)
  BY <1>1, Running
<1>3. Placed(value[1], envs, results, run)
  BY <1>1 DEF Now, Machine, Returned
<1>4. CASE TakeOperator
  <2>1. PICK f : f = [top EXCEPT !.at = "operands", !.i = 1, !.proc = value[1]]
    OBVIOUS
  <2>2. Framed(f, S, envs, results, run) /\ f.env = top.env
    BY <1>2, <1>3, <2>1 DEF Framed
  <2> QED
    BY <1>1, <1>4, <2>1, <2>2, GoesOn DEF TakeOperator
<1>5. CASE TakeOperand
  <2>1. PICK f : f = [top EXCEPT !.i = @ + 1, !.exps = Append(@, CellAt(value[1]))]
    OBVIOUS
  <2>2. CellAt(value[1]) \in S
    BY <1>3, CellKnown DEF Now
  <2>3. top.i + 1 \in Nat /\ Append(top.exps, CellAt(value[1])) \in Seq(S)
    BY <1>2, <2>2 DEF Framed
  <2>4. Framed(f, S, envs, results, run) /\ f.env = top.env
    BY <1>2, <2>1, <2>3 DEF Framed
  <2> QED
    BY <1>1, <1>5, <2>1, <2>4, GoesOn DEF TakeOperand
<1> QED
  BY <1>4, <1>5

-----------------------------------------------------------------------------
(***************************************************************************)
(* The steps of eval that change the memory.                               *)
(***************************************************************************)

\* The cells of a closure made inside a known cell are known ones and those
\* on the way to it, each with the next in its list.
LEMMA ClosedKnown ==
  ASSUME NEW S, NEW n, Closure(S, n), NEW c \in S, NEW path, Len(path) \in Nat,
         NEW e \in 0 .. n
  PROVE  \E S2 : S \subseteq S2 /\ Closure(S2, n) /\ Closed(c, path, e) \in S2
<1> DEFINE L == Len(path)
           old == Along(c, path)
           leaf == [old[L] EXCEPT !.type = "Lambda", !.env = e]
           Step(f, k) == IF k = L THEN leaf
                         ELSE [old[k] EXCEPT !.list[path[k + 1]] = f[k + 1]]
           T == {m \in Nat : m <= L => \E f : f = [k \in L - m .. L |-> Step(f, k)]}
<1>1. 0 \in T
  <2> DEFINE f == [k \in L - 0 .. L |-> leaf]
  <2>1. f = [k \in L - 0 .. L |-> Step(f, k)]
    <3>1. \A k \in L - 0 .. L : Step(f, k) = leaf
      OBVIOUS
    <3> HIDE DEF Step, leaf
    <3> QED
      BY <3>1
  <2> HIDE DEF f, Step
  <2> QED
    BY <2>1
<1>2. ASSUME NEW m \in Nat, m \in T PROVE m + 1 \in T
  <2> SUFFICES ASSUME m + 1 <= L
               PROVE  \E f : f = [k \in L - (m + 1) .. L |-> Step(f, k)]
    OBVIOUS
  <2>1. PICK f : f = [k \in L - m .. L |-> Step(f, k)]
    BY <1>2
  <2> DEFINE a == L - (m + 1)
             g == [k \in a .. L |-> IF k = a THEN Step(f, k) ELSE f[k]]
  <2>0. a \in Nat /\ L - m = a + 1 /\ a < L
    OBVIOUS
  <2> HIDE DEF a
  <2>2. \A k \in a .. L : Step(g, k) = Step(f, k)
    <3>1. \A k \in a .. L : k # L => k + 1 \in a .. L /\ k + 1 # a
      BY <2>0
    <3>2. \A k \in a .. L : k # L => g[k + 1] = f[k + 1]
      <4> HIDE DEF Step
      <4> QED
        BY <3>1
    <3> HIDE DEF g, old, leaf
    <3> QED
      BY <3>2
  <2>3. \A k \in a + 1 .. L : f[k] = Step(f, k)
    <3> HIDE DEF Step
    <3> QED
      BY <2>0, <2>1
  <2>4. \A k \in a .. L : g[k] = Step(f, k)
    <3> HIDE DEF Step
    <3> QED
      BY <2>0, <2>3
  <2>5. g = [k \in a .. L |-> g[k]]
    <3> HIDE DEF Step
    <3> QED
      OBVIOUS
  <2>6. g = [k \in a .. L |-> Step(g, k)]
    <3> HIDE DEF g, Step
    <3> QED
      BY <2>2, <2>4, <2>5
  <2> HIDE DEF g, Step
  <2> QED
    BY <2>6 DEF a
<1>3. \E f : f = [k \in 0 .. L |-> Step(f, k)]
  <2>1. L \in T
    <3> HIDE DEF T
    <3> QED
      BY <1>1, <1>2, Induct
  <2>2. L - L = 0
    OBVIOUS
  <2> HIDE DEF Step
  <2> QED
    BY <2>1, <2>2
<1> DEFINE new == CHOOSE f : f = [k \in 0 .. L |-> Step(f, k)]
<1>4. new = [k \in 0 .. L |-> Step(new, k)]
  <2> HIDE DEF Step
  <2> QED
    BY <1>3
<1>5. Closed(c, path, e) = new[0]
  BY DEF Closed
<1> HIDE DEF new
<1>6. \A k \in 0 .. L : new[k] = Step(new, k)
  <2> HIDE DEF Step
  <2> QED
    BY <1>4
<1>7. \A k \in 0 .. L : old[k] \in S /\ Formed(old[k], S, n)
  BY InsideClosed DEF Closure
<1> HIDE DEF old
<1> DEFINE S2 == S \cup {new[k] : k \in 0 .. L}
<1>8. ASSUME NEW k \in 0 .. L PROVE Formed(new[k], S2, n)
  <2>1. /\ old[k] = [type |-> old[k].type, val |-> old[k].val, list |-> old[k].list,
                     proc |-> old[k].proc, env |-> old[k].env]
        /\ old[k].list \in Seq(S) /\ old[k].env \in 0 .. n
    BY <1>7 DEF Formed
  <2>2. CASE k = L
    <3>1. new[k] = [type |-> "Lambda", val |-> old[k].val, list |-> old[k].list,
                    proc |-> old[k].proc, env |-> e]
      BY <1>6, <2>1, <2>2
    <3>2. old[k].list \in Seq(S2)
      BY <2>1
    <3> HIDE DEF S2
    <3> QED
      BY <3>1, <3>2 DEF Formed
  <2>3. CASE k # L
    <3> DEFINE list == [old[k].list EXCEPT ![path[k + 1]] = new[k + 1]]
    <3>1. new[k] = [type |-> old[k].type, val |-> old[k].val, list |-> list,
                    proc |-> old[k].proc, env |-> old[k].env]
      BY <1>6, <2>1, <2>3
    <3>2. list \in Seq(S2)
      <4>1. k + 1 \in 0 .. L
        BY <2>3
      <4>2. old[k].list \in Seq(S2) /\ new[k + 1] \in S2
        BY <2>1, <4>1
      <4> HIDE DEF S2
      <4> QED
        BY <4>2, ReplacedIn
    <3> HIDE DEF S2, list
    <3> QED
      BY <2>1, <3>1, <3>2 DEF Formed
  <2> QED
    BY <2>2, <2>3
<1>9. \A b \in S : Formed(b, S2, n)
  BY DEF Closure, Formed
<1>10. S \subseteq S2 /\ new[0] \in S2 /\ \A b \in S2 : Formed(b, S2, n)
  <2>1. 0 \in 0 .. L
    OBVIOUS
  <2>2. ASSUME NEW b \in S2 PROVE Formed(b, S2, n)
    <3>1. b \in S \/ \E k \in 0 .. L : b = new[k]
      OBVIOUS
    <3> HIDE DEF S2
    <3> QED
      BY <1>8, <1>9, <3>1
  <2>3. S \subseteq S2 /\ new[0] \in S2
    BY <2>1
  <2> QED
    BY <2>2, <2>3
<1> HIDE DEF S2
<1>11. Closure(S2, n)
  BY <1>10 DEF Closure
<1> QED
  BY <1>5, <1>10, <1>11

\* More cells, and more environments, leave the cells what they were.
LEMMA ClosureGrows ==
  ASSUME NEW S, NEW n \in Nat, Closure(S, n), NEW c, NEW m \in Nat, n <= m,
         Formed(c, S \cup {c}, m)
  PROVE  Closure(S \cup {c}, m)
<1>1. ASSUME NEW b \in S PROVE Formed(b, S \cup {c}, m)
  <2>1. Formed(b, S, n)
    BY DEF Closure
  <2> QED
    BY <2>1 DEF Formed
<1> QED
  BY <1>1 DEF Closure

\* The variables of one environment change.
LEMMA ScopesReplaced ==
  ASSUME NEW S, NEW E, Scopes(S, E), NEW S2, S \subseteq S2, NEW e \in DOMAIN E,
         NEW W, W = [n \in DOMAIN W |-> W[n]],
         \A n \in DOMAIN W : /\ W[n] = [cell |-> W[n].cell, writes |-> W[n].writes]
                             /\ W[n].cell \in S2
  PROVE  LET E2 == [E EXCEPT ![e].vars = W]
         IN  /\ Scopes(S2, E2) /\ Len(E2) = Len(E) /\ DOMAIN E2 = DOMAIN E
             /\ E2[e].vars = W /\ \A d \in DOMAIN E : d # e => E2[d] = E[d]
<1> DEFINE v == [outer |-> E[e].outer, vars |-> W]
           E2 == [E EXCEPT ![e].vars = W]
<1>1. Listed(E) /\ E[e] = [outer |-> E[e].outer, vars |-> E[e].vars]
  BY DEF Scopes
<1>2. E2 = [E EXCEPT ![e] = v]
  <2>1. [E[e] EXCEPT !.vars = W] = v
    BY <1>1
  <2>2. E2 = [E EXCEPT ![e] = [E[e] EXCEPT !.vars = W]]
    OBVIOUS
  <2> QED
    BY <2>1, <2>2
<1> HIDE DEF v, E2
<1>3. /\ Listed(E2) /\ Len(E2) = Len(E) /\ DOMAIN E2 = DOMAIN E /\ E2[e] = v
      /\ \A d \in DOMAIN E : d # e => E2[d] = E[d]
  <2>1. LET G == [E EXCEPT ![e] = v]
        IN  /\ Listed(G) /\ Len(G) = Len(E) /\ DOMAIN G = DOMAIN E /\ G[e] = v
            /\ \A d \in DOMAIN E : d # e => G[d] = E[d]
    BY <1>1, Replaced
  <2> QED
    BY <1>2, <2>1
<1>4. v.outer = E[e].outer /\ v.vars = W /\ v = [outer |-> v.outer, vars |-> v.vars]
  BY DEF v
<1>5. ASSUME NEW d \in DOMAIN E2
      PROVE  /\ E2[d] = [outer |-> E2[d].outer, vars |-> E2[d].vars]
             /\ E2[d].outer \in 0 .. d - 1
             /\ E2[d].vars = [n \in DOMAIN E2[d].vars |-> E2[d].vars[n]]
             /\ \A n \in DOMAIN E2[d].vars :
                  /\ E2[d].vars[n] = [cell |-> E2[d].vars[n].cell,
                                      writes |-> E2[d].vars[n].writes]
                  /\ E2[d].vars[n].cell \in S2
  <2>1. CASE d = e
    <3>1. E2[d].vars = W /\ E2[d].outer = E[e].outer /\ E[e].outer \in 0 .. d - 1
      BY <1>3, <1>4, <2>1 DEF Scopes
    <3> QED
      BY <1>3, <1>4, <2>1, <3>1
  <2>2. CASE d # e
    <3>1. d \in DOMAIN E /\ E2[d] = E[d]
      BY <1>3, <2>2
    <3> QED
      BY <3>1 DEF Scopes
  <2> QED
    BY <2>1, <2>2
<1>6. Scopes(S2, E2)
  BY <1>3, <1>5 DEF Scopes
<1> QED
  BY <1>3, <1>4, <1>6 DEF E2

\* env_set assigns a variable of the running call's environment.
LEMMA BindKeeps == ASSUME NEW S, Now(S), Bind PROVE Now(S)'
<1> DEFINE e == top.env
           vars0 == envs[e].vars
<1>1. /\ frames # <<>> /\ value # <<>> /\ UNCHANGED <<results, code, run>>
      /\ Return(value[1])
  BY DEF Bind, BackAt
<1>2. e \in DOMAIN envs /\ e \in Nat
  BY <1>1, Running DEF Framed
<1>3. PICK name, new :
        /\ new = [cell |-> CellAt(value[1]), writes |-> new.writes]
        /\ envs' = [envs EXCEPT ![e].vars = WithEntry(@, name, new)]
  BY DEF Bind, Assigned
<1> DEFINE W == WithEntry(vars0, name, new)
<1>4. /\ DOMAIN W = DOMAIN vars0 \cup {name}
      /\ W = [n \in DOMAIN W |-> W[n]]
      /\ W[name] = new /\ \A n \in DOMAIN vars0 : n # name => W[n] = vars0[n]
  BY DEF WithEntry
<1>5. envs' = [envs EXCEPT ![e].vars = W]
  BY <1>3
<1> HIDE DEF W
<1>6. Placed(value[1], envs, results, run)
  BY <1>1 DEF Now, Machine, Returned
<1>7. CellAt(value[1]) \in S
  BY <1>6, CellKnown DEF Now
<1>8. \A n \in DOMAIN W : /\ W[n] = [cell |-> W[n].cell, writes |-> W[n].writes]
                          /\ W[n].cell \in S
  <2> SUFFICES ASSUME NEW n \in DOMAIN W
               PROVE  /\ W[n] = [cell |-> W[n].cell, writes |-> W[n].writes]
                      /\ W[n].cell \in S
    OBVIOUS
  <2>1. CASE n = name
    <3>1. W[n] = [cell |-> CellAt(value[1]), writes |-> new.writes]
      BY <1>3, <1>4, <2>1
    <3>2. W[n].cell = CellAt(value[1]) /\ W[n].writes = new.writes
      BY <3>1
    <3> QED
      BY <1>7, <3>1, <3>2
  <2>2. CASE n # name
    <3>1. n \in DOMAIN vars0 /\ W[n] = vars0[n]
      BY <1>4, <2>2
    <3>2. /\ vars0[n] = [cell |-> vars0[n].cell, writes |-> vars0[n].writes]
          /\ vars0[n].cell \in S
      BY <1>2, <3>1 DEF Now, Machine, Scopes
    <3> QED
      BY <3>1, <3>2
  <2> QED
    BY <2>1, <2>2
<1>9. Scopes(S, envs)
  BY DEF Now, Machine
<1>10. /\ Scopes(S, envs') /\ Len(envs') = Len(envs) /\ DOMAIN envs' = DOMAIN envs
       /\ envs'[e].vars = W /\ \A d \in DOMAIN envs : d # e => envs'[d] = envs[d]
  <2>1. LET E2 == [envs EXCEPT ![e].vars = W]
        IN  /\ Scopes(S, E2) /\ Len(E2) = Len(envs) /\ DOMAIN E2 = DOMAIN envs
            /\ E2[e].vars = W /\ \A d \in DOMAIN envs : d # e => E2[d] = envs[d]
    <3> HIDE DEF e
    <3> QED
      BY <1>2, <1>4, <1>8, <1>9, ScopesReplaced
  <2> QED
    BY <1>5, <2>1
<1>11. \A d \in DOMAIN envs : DOMAIN envs[d].vars \subseteq DOMAIN envs'[d].vars
  BY <1>4, <1>10
<1>12. ASSUME NEW d \in DOMAIN envs, NEW n \in DOMAIN envs[d].vars,
              frames # <<>> => d < frames[Len(frames)].env
       PROVE  envs'[d].vars[n].writes = envs[d].vars[n].writes
  <2>1. d < e
    BY <1>1, <1>12 DEF top
  <2>2. d # e
    BY <1>2, <2>1
  <2> QED
    BY <1>10, <2>2
<1>13. Machine(S, frames, value, envs', results, code, run)
  <2>1. Closure(S, Len(envs')) /\ results \in Seq(S) /\ code \in S
    BY <1>10 DEF Now, Machine
  <2> QED
    BY <1>10, <1>11, <1>12, <2>1, Grown DEF Now
<1>14. Placed(value[1], envs', results, run)
  BY <1>6, <1>10, <1>11, PlacedStill
<1>15. Machine(S, Front(frames), <<value[1]>>, envs', results, code, run)
  BY <1>1, <1>13, <1>14, Left
<1> QED
  BY <1>1, <1>15 DEF Now, Return

\* A lambda expression lies in code, in a result or in a variable.
LEMMA LambdaPlace ==
  ASSUME NEW S, Now(S), EvalLambda
  PROVE  top.x.in \in {"code", "result", "variable"}
<1>1. frames # <<>> /\ X.type \notin {"Symbol", "none"}
  BY DEF EvalLambda, Form, At, IsForm
<1>2. Placed(top.x, envs, results, run)
  BY <1>1, Running
<1> QED
  BY <1>1, <1>2, CellKnown DEF Now, X, Placed

\* The closure takes the place of the lambda expression, in code, in a result
\* or in a variable.
LEMMA EvalLambdaKeeps == ASSUME NEW S, Now(S), EvalLambda PROVE \E S2 : Now(S2)'
<1> DEFINE p == top.x
           new(c) == Closed(c, p.path, top.env)
<1>1. frames # <<>> /\ run' = run /\ Return(p)
  BY DEF EvalLambda, Form, At
<1>2. /\ Placed(p, envs, results, run) /\ Len(p.path) \in Nat
      /\ Framed(top, S, envs, results, run)
  BY <1>1, Running DEF Placed
<1>3. p.in \in {"code", "result", "variable"}
  BY LambdaPlace
<1>4. Len(envs) \in Nat /\ DOMAIN envs = 1 .. Len(envs)
  BY InOrder DEF Now, Machine, Scopes
<1>5. top.env \in 0 .. Len(envs)
  BY <1>2, <1>4 DEF Framed
<1>6. Closure(S, Len(envs)) /\ Scopes(S, envs) /\ results \in Seq(S) /\ code \in S
  BY DEF Now, Machine
<1>7. ASSUME NEW c \in S
      PROVE  \E S2 : S \subseteq S2 /\ Closure(S2, Len(envs)) /\ new(c) \in S2
  BY <1>2, <1>5, <1>6, ClosedKnown
<1>8. SUFFICES ASSUME NEW S2, Machine(S2, frames, value, envs', results', code', run),
                      Placed(p, envs', results', run)
               PROVE  Now(S2)'
  <2>1. SUFFICES \E S2 : /\ Machine(S2, frames, value, envs', results', code', run)
                         /\ Placed(p, envs', results', run)
    OBVIOUS
  <2>2. CASE p.in = "code"
    <3>1. code' = new(code) /\ UNCHANGED <<envs, results>>
      BY <2>2 DEF EvalLambda
    <3>2. PICK S2 : S \subseteq S2 /\ Closure(S2, Len(envs)) /\ new(code) \in S2
      BY <1>6, <1>7
    <3> HIDE DEF new
    <3>3. Scopes(S2, envs) /\ results \in Seq(S2)
      BY <1>6, <3>2 DEF Scopes
    <3>4. Machine(S2, frames, value, envs, results, new(code), run)
      BY <3>2, <3>3, Grown DEF Now
    <3> QED
      BY <1>2, <3>1, <3>4
  <2>3. CASE p.in = "result"
    <3>1. /\ results' = [results EXCEPT ![p.at] = new(results[p.at])]
          /\ UNCHANGED <<envs, code>>
      BY <2>3 DEF EvalLambda
    <3>2. p.at \in DOMAIN results /\ results[p.at] \in S
      BY <1>2, <1>6, <2>3 DEF Placed
    <3>3. PICK S2 : S \subseteq S2 /\ Closure(S2, Len(envs)) /\ new(results[p.at]) \in S2
      BY <1>7, <3>2
    <3> HIDE DEF new
    <3>4. Scopes(S2, envs) /\ results \in Seq(S2) /\ code \in S2
      BY <1>6, <3>3 DEF Scopes
    <3>5. results' \in Seq(S2) /\ DOMAIN results' = DOMAIN results
      <4>1. [results EXCEPT ![p.at] = new(results[p.at])] \in Seq(S2)
        BY <3>3, <3>4, ReplacedIn
      <4> QED
        BY <3>1, <4>1
    <3>6. Machine(S2, frames, value, envs, results', code, run)
      BY <3>3, <3>4, <3>5, Grown DEF Now
    <3>7. Placed(p, envs, results', run)
      BY <1>2, <3>5 DEF Placed
    <3> QED
      BY <3>1, <3>6, <3>7
  <2>4. CASE p.in = "variable"
    <3> DEFINE e == p.at
               vars0 == envs[e].vars
               entry == [cell |-> new(vars0[p.name].cell), writes |-> vars0[p.name].writes]
               W == [vars0 EXCEPT ![p.name] = entry]
    <3>1. e \in DOMAIN envs /\ p.name \in DOMAIN vars0
      BY <1>2, <2>4 DEF Placed
    <3>2. /\ vars0 = [n \in DOMAIN vars0 |-> vars0[n]]
          /\ \A n \in DOMAIN vars0 :
               /\ vars0[n] = [cell |-> vars0[n].cell, writes |-> vars0[n].writes]
               /\ vars0[n].cell \in S
          /\ envs[e] = [outer |-> envs[e].outer, vars |-> vars0]
      BY <1>6, <3>1 DEF Scopes
    <3>3. PICK S2 : /\ S \subseteq S2 /\ Closure(S2, Len(envs))
                    /\ new(vars0[p.name].cell) \in S2
      BY <1>7, <3>1, <3>2
    <3>4. envs' = [envs EXCEPT ![e].vars[p.name].cell = new(vars0[p.name].cell)]
          /\ UNCHANGED <<results, code>>
      BY <2>4 DEF EvalLambda
    <3> HIDE DEF new
    <3>5. [vars0[p.name] EXCEPT !.cell = new(vars0[p.name].cell)] = entry
      <4>1. PICK old : old = vars0[p.name]
        OBVIOUS
      <4>2. old = [cell |-> old.cell, writes |-> old.writes]
        BY <3>1, <3>2, <4>1
      <4>3. [old EXCEPT !.cell = new(old.cell)]
              = [cell |-> new(old.cell), writes |-> old.writes]
        BY <4>2
      <4> QED
        BY <4>1, <4>3
    <3>6. envs' = [envs EXCEPT ![e].vars = W]
      BY <3>4, <3>5
    <3>7. /\ DOMAIN W = DOMAIN vars0 /\ W[p.name] = entry
          /\ \A n \in DOMAIN vars0 : n # p.name => W[n] = vars0[n]
          /\ W = [n \in DOMAIN W |-> W[n]]
      BY <3>1, <3>2
    <3>8. entry.cell \in S2 /\ entry = [cell |-> entry.cell, writes |-> entry.writes]
          /\ entry.writes = vars0[p.name].writes
      BY <3>3
    <3> HIDE DEF W, entry
    <3>9. \A n \in DOMAIN W : /\ W[n] = [cell |-> W[n].cell, writes |-> W[n].writes]
                              /\ W[n].cell \in S2 /\ W[n].writes = vars0[n].writes
      BY <3>2, <3>3, <3>7, <3>8
    <3>10. LET E2 == [envs EXCEPT ![e].vars = W]
           IN  /\ Scopes(S2, E2) /\ Len(E2) = Len(envs) /\ DOMAIN E2 = DOMAIN envs
               /\ E2[e].vars = W /\ \A d \in DOMAIN envs : d # e => E2[d] = envs[d]
      <4>1. /\ Scopes(S, envs) /\ S \subseteq S2 /\ W = [n \in DOMAIN W |-> W[n]]
            /\ \A n \in DOMAIN W : /\ W[n] = [cell |-> W[n].cell, writes |-> W[n].writes]
                                  /\ W[n].cell \in S2
        BY <1>6, <3>3, <3>7, <3>9
      <4> HIDE DEF e
      <4> QED
        BY <3>1, <4>1, ScopesReplaced
    <3>11. /\ Scopes(S2, envs') /\ Len(envs') = Len(envs) /\ DOMAIN envs' = DOMAIN envs
           /\ envs'[e].vars = W /\ \A d \in DOMAIN envs : d # e => envs'[d] = envs[d]
      BY <3>6, <3>10
    <3>12. \A d \in DOMAIN envs :
             /\ DOMAIN envs[d].vars \subseteq DOMAIN envs'[d].vars
             /\ \A n \in DOMAIN envs[d].vars :
                  envs'[d].vars[n].writes = envs[d].vars[n].writes
      <4> SUFFICES ASSUME NEW d \in DOMAIN envs
                   PROVE  /\ DOMAIN envs[d].vars \subseteq DOMAIN envs'[d].vars
                          /\ \A n \in DOMAIN envs[d].vars :
                               envs'[d].vars[n].writes = envs[d].vars[n].writes
        OBVIOUS
      <4>1. CASE d = e
        BY <3>7, <3>9, <3>11, <4>1
      <4>2. CASE d # e
        BY <3>11, <4>2
      <4> QED
        BY <4>1, <4>2
    <3>13. results \in Seq(S2) /\ code \in S2 /\ Closure(S2, Len(envs'))
      BY <1>6, <3>3, <3>11
    <3>14. Machine(S2, frames, value, envs', results, code, run)
      BY <3>3, <3>11, <3>12, <3>13, Grown DEF Now
    <3>15. Placed(p, envs', results, run)
      BY <1>2, <3>11, <3>12, PlacedStill
    <3> QED
      BY <3>4, <3>14, <3>15
  <2> QED
    BY <1>3, <2>2, <2>3, <2>4
<1>9. Machine(S2, Front(frames), <<p>>, envs', results', code', run)
  BY <1>1, <1>8, Left
<1> QED
  BY <1>1, <1>9 DEF Now, Return

\* The last of several parameters with one name is one of them.
LEMMA LastOne ==
  ASSUME NEW m \in Nat, NEW I, I \subseteq 1 .. m, I # {}
  PROVE  Max(I) \in I
<1> DEFINE J == {m - i : i \in I}
<1>1. J \subseteq Nat /\ J # {}
  <2>1. \A i \in I : m - i \in Nat
    OBVIOUS
  <2>2. PICK i : i \in I
    OBVIOUS
  <2> QED
    BY <2>1, <2>2
<1>2. PICK j \in J : \A k \in J : j <= k
  <2> HIDE DEF J
  <2> QED
    BY <1>1, Least
<1>3. PICK i \in I : j = m - i
  OBVIOUS
<1>4. \A k \in I : i >= k
  <2> SUFFICES ASSUME NEW k \in I PROVE i >= k
    OBVIOUS
  <2>1. m - i <= m - k
    BY <1>2, <1>3
  <2> QED
    BY <2>1
<1> QED
  BY <1>4 DEF Max

LEMMA BindingsKnown ==
  ASSUME NEW S, NEW parms \in Seq(S), NEW exps \in Seq(S), Len(parms) <= Len(exps)
  PROVE  \A n \in DOMAIN Bindings(parms, exps) : Bindings(parms, exps)[n] \in S
<1> SUFFICES ASSUME NEW n \in DOMAIN Bindings(parms, exps)
             PROVE  Bindings(parms, exps)[n] \in S
  OBVIOUS
<1> DEFINE I == {i \in DOMAIN parms : parms[i].val = n}
<1>1. n \in {parms[i].val : i \in DOMAIN parms} /\ Bindings(parms, exps)[n] = exps[Max(I)]
  BY DEF Bindings
<1>2. Len(parms) \in Nat /\ DOMAIN parms = 1 .. Len(parms) /\ Len(exps) \in Nat
  OBVIOUS
<1>3. I \subseteq 1 .. Len(parms) /\ I # {}
  BY <1>1, <1>2
<1> HIDE DEF I
<1>4. Max(I) \in 1 .. Len(parms)
  BY <1>2, <1>3, LastOne
<1>5. Max(I) \in 1 .. Len(exps)
  BY <1>2, <1>4
<1> QED
  BY <1>1, <1>5

\* The body of a procedure runs in the youngest environment.
LEMMA ApplyLambdaKeeps == ASSUME NEW S, Now(S), ApplyLambda PROVE Now(S)'
<1> DEFINE bound == Bindings(Procedure.list[2].list, top.exps)
           vars0 == [n \in DOMAIN bound |-> [cell |-> bound[n], writes |-> 1]]
           new == [outer |-> Procedure.env, vars |-> vars0]
           E2 == Append(envs, new)
           n == Len(envs)
<1>1. /\ frames # <<>> /\ UNCHANGED <<results, code, run>>
      /\ Live(top.proc) /\ Accepts /\ envs' = E2 /\ EnterBody(n + 1)
  BY DEF ApplyLambda, Captured, Applying, At, Readable
<1>2. Placed(top.proc, envs, results, run) /\ top.exps \in Seq(S)
  BY <1>1, Running DEF Framed
<1>3. Formed(Procedure, S, n)
  <2>1. Procedure \in S
    BY <1>2, CellKnown DEF Now, Procedure
  <2> QED
    BY <2>1 DEF Now, Machine, Closure
<1>4. Listed(envs) /\ n \in Nat /\ DOMAIN envs = 1 .. n
  BY InOrder DEF Now, Machine, Scopes
<1>5. \A k \in DOMAIN bound : bound[k] \in S
  <2>1. Procedure.list \in Seq(S) /\ Len(Procedure.list) >= 2
        /\ Len(Procedure.list[2].list) <= Len(top.exps)
    BY <1>1, <1>2, <1>3 DEF Accepts, Formed
  <2>2. Procedure.list[2] \in S
    BY <2>1
  <2>3. Procedure.list[2].list \in Seq(S)
    BY <2>2 DEF Now, Machine, Closure, Formed
  <2> QED
    BY <1>2, <2>1, <2>3, BindingsKnown
<1> HIDE DEF bound
<1>6. /\ vars0 = [k \in DOMAIN vars0 |-> vars0[k]]
      /\ \A k \in DOMAIN vars0 :
           /\ vars0[k] = [cell |-> vars0[k].cell, writes |-> vars0[k].writes]
           /\ vars0[k].cell \in S
  BY <1>5
<1> HIDE DEF vars0
<1>7. /\ new = [outer |-> new.outer, vars |-> new.vars] /\ new.vars = vars0
      /\ new.outer \in 0 .. n
  BY <1>3 DEF Formed
<1> HIDE DEF new
<1>8. /\ Listed(E2) /\ Len(E2) = n + 1 /\ DOMAIN E2 = 1 .. n + 1 /\ E2[n + 1] = new
      /\ \A e \in DOMAIN envs : E2[e] = envs[e]
  BY <1>4, Appended
<1> HIDE DEF E2
<1>9. Scopes(S, E2)
  <2>1. ASSUME NEW e \in DOMAIN E2
        PROVE  /\ E2[e] = [outer |-> E2[e].outer, vars |-> E2[e].vars]
               /\ E2[e].outer \in 0 .. e - 1
               /\ E2[e].vars = [k \in DOMAIN E2[e].vars |-> E2[e].vars[k]]
               /\ \A k \in DOMAIN E2[e].vars :
                    /\ E2[e].vars[k] = [cell |-> E2[e].vars[k].cell,
                                        writes |-> E2[e].vars[k].writes]
                    /\ E2[e].vars[k].cell \in S
    <3>1. CASE e = n + 1
      <4>1. n = e - 1 /\ E2[e] = new
        BY <1>4, <1>8, <3>1
      <4> QED
        BY <1>6, <1>7, <4>1
    <3>2. CASE e # n + 1
      <4>1. e \in DOMAIN envs /\ E2[e] = envs[e]
        BY <1>4, <1>8, <3>2
      <4> QED
        BY <4>1 DEF Now, Machine, Scopes
    <3> QED
      BY <3>1, <3>2
  <2> QED
    BY <1>8, <2>1 DEF Scopes
<1>10. Closure(S, n + 1)
  <2>1. \A c \in S : Formed(c, S, n)
    BY DEF Now, Machine, Closure
  <2>2. \A c \in S : Formed(c, S, n + 1)
    BY <1>4, <2>1 DEF Formed
  <2> QED
    BY <2>2 DEF Now, Machine, Closure
<1>11. DOMAIN envs \subseteq DOMAIN E2
  BY <1>4, <1>8
<1>12. Machine(S, frames, value, E2, results, code, run)
  <2>1. results \in Seq(S) /\ code \in S /\ Closure(S, Len(E2))
    BY <1>8, <1>10 DEF Now, Machine
  <2> QED
    BY <1>8, <1>9, <1>11, <2>1, Grown DEF Now
<1>13. PICK x : x = Index(2, top.proc)
  OBVIOUS
<1>14. /\ Placed(x, envs, results, run) /\ x.path # <<>>
       /\ x.in = top.proc.in /\ x.at = top.proc.at /\ x.name = top.proc.name
       /\ top.proc.in = "variable" =>
            x.writes = envs[top.proc.at].vars[top.proc.name].writes
  BY <1>1, <1>2, <1>13, IndexPlaced
<1>15. Placed(x, E2, results, run)
  BY <1>8, <1>11, <1>14, PlacedStill
<1>16. Runnable(x, n + 1, E2)
  <2> SUFFICES ASSUME x.in = "variable"
               PROVE  x.at < n + 1 /\ x.writes = E2[x.at].vars[x.name].writes
    BY <1>14 DEF Runnable
  <2>1. x.at \in DOMAIN envs
    BY <1>14 DEF Placed
  <2> QED
    BY <1>4, <1>8, <1>14, <2>1
<1>17. n + 1 \in DOMAIN E2
  BY <1>4, <1>8
<1>18. Framed(Enter(x, n + 1), S, E2, results, run) /\ Enter(x, n + 1).env = n + 1
  BY <1>15, <1>16, <1>17, Entered
<1>19. frames[Len(frames)].env <= n + 1
  BY <1>1, <1>4, Running DEF Framed, top
<1>20. Machine(S, [frames EXCEPT ![Len(frames)] = Enter(x, n + 1)], <<>>, E2, results,
               code, run)
  BY <1>1, <1>12, <1>18, <1>19, Continued
<1>21. /\ frames' = [frames EXCEPT ![Len(frames)] = Enter(x, n + 1)]
       /\ value' = <<>>
  BY <1>1, <1>13 DEF EnterBody, Continue
<1> QED
  BY <1>1, <1>20, <1>21 DEF Now

\* A built-in procedure makes a number, a truth value or nil, or a list of
\* cells it was given, or it returns one of them.
LEMMA AtomFormed ==
  ASSUME NEW S, NEW n \in Nat, NEW v
  PROVE  Formed(Number(v), S, n) /\ Formed(Symbol(v), S, n)
BY DEF Formed, Number, Symbol, Cell

LEMMA ResultFormed ==
  ASSUME NEW S, NEW n \in Nat, Closure(S, n), NEW args0 \in Seq(S), NEW p,
         Defined(p, args0)
  PROVE  Formed(Result(p, args0), S, n)
<1> DEFINE r == Result(p, args0)
<1>1. \A cells \in Seq(S) : Formed(List(cells), S, n)
  BY DEF Formed, List, Cell
<1>2. args0 # <<>> => args0[1] \in S /\ args0[1].list \in Seq(S)
  BY DEF Closure, Formed
<1>3. \A b : Formed(Truth(b), S, n)
  BY AtomFormed DEF Truth, True, False
<1>4. Formed(Nil, S, n)
  BY AtomFormed DEF Nil
<1>5. CASE p \in {"+", "-", "*", "/"}
  <2>1. \E v : Combined(p, args0) = Number(v)
    BY DEF Combined
  <2>2. r = Combined(p, args0)
    BY <1>5 DEF Result
  <2> QED
    BY <2>1, <2>2, AtomFormed
<1>6. CASE p \in {">", "<", "<="}
  BY <1>3, <1>6 DEF Result
<1>7. CASE p \in {"=", "!="}
  BY <1>3, <1>7 DEF Result
<1>8. CASE p \in {"length", "null?"}
  BY <1>3, <1>8, AtomFormed DEF Result
<1>9. CASE p = "head"
  <2>1. args0 # <<>> /\ args0[1].list # <<>> /\ r = args0[1].list[1]
    BY <1>9 DEF Defined, Result
  <2>2. r \in S
    BY <1>2, <2>1
  <2> QED
    BY <2>2 DEF Closure
<1>10. CASE p = "tail"
  <2>1. args0 # <<>> /\ r = TailOf(args0[1])
    BY <1>10 DEF Defined, Result
  <2>2. PICK c : c = args0[1]
    OBVIOUS
  <2>3. Formed(c, S, n) /\ c.list \in Seq(S)
    BY <1>2, <2>1, <2>2 DEF Closure
  <2>4. CASE Len(c.list) < 2
    BY <1>4, <2>1, <2>2, <2>4 DEF TailOf
  <2>5. CASE ~(Len(c.list) < 2)
    <3>1. r = [c EXCEPT !.list = Tail(c.list)]
      BY <2>1, <2>2, <2>5 DEF TailOf
    <3>2. c.list # <<>>
      BY <2>3, <2>5
    <3>3. Tail(c.list) \in Seq(S)
      BY <2>3, <3>2
    <3> QED
      BY <2>3, <3>1, <3>3 DEF Formed
  <2> QED
    BY <2>4, <2>5
<1>11. CASE p \in {"append", "cons"}
  <2>1. Len(args0) >= 2
    BY <1>11 DEF Defined
  <2>2. args0[1] \in S /\ args0[2] \in S
    BY <2>1
  <2>3. args0[1].list \in Seq(S) /\ args0[2].list \in Seq(S)
    BY <2>2 DEF Closure, Formed
  <2>4. /\ args0[1].list \o args0[2].list \in Seq(S)
        /\ <<args0[1]>> \o args0[2].list \in Seq(S)
    BY <2>2, <2>3
  <2>5. r = List(args0[1].list \o args0[2].list) \/ r = List(<<args0[1]>> \o args0[2].list)
    BY <1>11 DEF Result
  <2> QED
    BY <1>1, <2>4, <2>5
<1>12. CASE p \in {"list", "print"}
  BY <1>1, <1>4, <1>12 DEF Result
<1>13. p \in Primitives
  BY DEF Defined, Primitives
<1> QED
  BY <1>5, <1>6, <1>7, <1>8, <1>9, <1>10, <1>11, <1>12, <1>13 DEF Primitives

LEMMA ApplyProcKeeps == ASSUME NEW S, Now(S), ApplyProc PROVE \E S2 : Now(S2)'
<1> DEFINE n == Len(envs)
           made == Result(Procedure.proc, top.exps)
           new == Reset(made, Number("0"))
           S2 == S \cup {new}
           R2 == Append(results, new)
<1>1. /\ frames # <<>> /\ UNCHANGED <<envs, code, run>> /\ results' = R2
      /\ Defined(Procedure.proc, top.exps) /\ Return(ToResult(Len(results) + 1))
  BY DEF ApplyProc, Applying, At
<1>2. top.exps \in Seq(S)
  BY <1>1, Running DEF Framed
<1>3. n \in Nat
  BY InOrder DEF Now, Machine, Scopes
<1>4. Closure(S, n) /\ Scopes(S, envs) /\ results \in Seq(S) /\ code \in S
  BY DEF Now, Machine
<1>5. Formed(made, S, n)
  BY <1>1, <1>2, <1>3, <1>4, ResultFormed
<1> HIDE DEF made
<1>6. Formed(new, S2, n)
  BY <1>5 DEF Reset, Number, Cell, Formed
<1> HIDE DEF new
<1>7. Closure(S2, n)
  BY <1>3, <1>4, <1>6, ClosureGrows
<1>8. Scopes(S2, envs) /\ results \in Seq(S2) /\ code \in S2 /\ S \subseteq S2
  BY <1>4 DEF Scopes
<1>9. new \in S2
  OBVIOUS
<1> HIDE DEF S2
<1>10. R2 \in Seq(S2) /\ DOMAIN R2 = 1 .. Len(results) + 1 /\ DOMAIN results \subseteq DOMAIN R2
  BY <1>8, <1>9
<1> HIDE DEF R2
<1>11. Machine(S2, frames, value, envs, R2, code, run)
  BY <1>7, <1>8, <1>10, Grown DEF Now
<1>12. PICK p : p = ToResult(Len(results) + 1)
  OBVIOUS
<1>13. Placed(p, envs, R2, run)
  <2>1. Len(results) + 1 \in DOMAIN R2
    BY <1>4, <1>10
  <2>2. /\ p = [in |-> p.in, at |-> p.at, name |-> p.name, writes |-> p.writes,
                path |-> p.path]
        /\ p.in = "result" /\ p.at = Len(results) + 1 /\ p.path = <<>>
    BY <1>12 DEF ToResult, Pointer
  <2>3. p.path \in Seq(Nat)
    BY <2>2
  <2> QED
    BY <2>1, <2>2, <2>3 DEF Placed
<1>14. Machine(S2, Front(frames), <<p>>, envs, R2, code, run)
  BY <1>1, <1>11, <1>13, Left
<1> QED
  BY <1>1, <1>12, <1>14 DEF Now, Return

LEMMA EvalKeeps ==
  ASSUME NEW S, Now(S), EvalNext
  PROVE  \E S2 : Now(S2)'
<1>1. CASE EvalSymbol
  BY <1>1, EvalSymbolKeeps
<1>2. CASE EvalNumber \/ EvalEmpty \/ EvalQuote
  BY <1>2, EvalAtomKeeps
<1>3. CASE EvalIf \/ EvalBinding \/ EvalOperator \/ EvalOperand
  BY <1>3, EvalCallsKeep
<1>4. CASE TakeBranch
  BY <1>4, TakeBranchKeeps
<1>5. CASE EvalBegin \/ BackInBegin
  BY <1>5, BeginKeeps
<1>6. CASE TakeOperator \/ TakeOperand
  BY <1>6, TakeKeeps
<1>7. CASE Bind
  BY <1>7, BindKeeps
<1>8. CASE EvalLambda
  BY <1>8, EvalLambdaKeeps
<1>9. CASE ApplyLambda
  BY <1>9, ApplyLambdaKeeps
<1>10. CASE ApplyProc
  BY <1>10, ApplyProcKeeps
<1>11. CASE UnknownSymbol \/ InvalidCall \/ EvalUndefined
  <2>1. UNCHANGED <<frames, value, memory>>
    BY <1>11 DEF UnknownSymbol, InvalidCall, EvalUndefined, Stop
  <2>2. Now(S)'
    BY <2>1 DEF Now, memory
  <2> QED
    BY <2>2
<1> QED
  BY <1>1, <1>2, <1>3, <1>4, <1>5, <1>6, <1>7, <1>8, <1>9, <1>10, <1>11 DEF EvalNext

-----------------------------------------------------------------------------
(***************************************************************************)
(* The program.                                                            *)
(***************************************************************************)

LEMMA Begins == Init => Sound
<1> SUFFICES ASSUME Init PROVE Sound
  OBVIOUS
<1>1. args \in Lines /\ Len(args) \in Nat
  BY SchemeAssumption DEF Init
<1>2. Len(Tests) \in Nat
  BY SchemeAssumption
<1>3. Driver
  <2>1. g_code \in DOMAIN Source \cup {Null}
    BY SchemeAssumption DEF Init
  <2>2. /\ argv = 1 /\ argc = Len(args) /\ g_tests = FALSE /\ phase = "args"
        /\ exitcode = 0 /\ run = 0 /\ envs = <<>> /\ frames = <<>> /\ value = <<>>
    BY DEF Init, EvalInit
  <2>3. /\ argv + argc = Len(args) + 1
        /\ argv \in 1 .. Len(args) + 2 /\ argc \in -1 .. Len(args)
    BY <1>1, <2>2
  <2>4. run \in 0 .. Len(Tests) + 1 /\ exitcode \in {0, 1, 3, 4, 5}
    BY <1>2, <2>2
  <2>5. g_tests \in BOOLEAN
    BY <2>2
  <2> QED
    BY <1>1, <2>1, <2>2, <2>3, <2>4, <2>5 DEF Driver
<1> DEFINE S == {Nil, NoCell, Number("0")}
<1>4. Closure(S, Len(envs))
  BY DEF Init, EvalInit, Closure, Formed, Nil, NoCell, Number, Symbol, Cell
<1>5. Nil \in S /\ code \in S /\ results \in Seq(S)
  BY DEF Init, EvalInit
<1> HIDE DEF S
<1>6. Listed(<<>>)
  BY DEF Listed
<1>7. Machine(S, frames, value, envs, results, code, run)
  BY <1>4, <1>5, <1>6 DEF Init, EvalInit, Machine, Scopes, Stack, Returned
<1> QED
  BY <1>3, <1>7 DEF Sound

\* The words of the command line that are code have a source.
LEMMA WordsKnown ==
  ASSUME Driver, argc > 0
  PROVE  /\ argv \in 1 .. Len(args) /\ Len(args) \in Nat
         /\ WordAt(argv) = args[argv]
         /\ args[argv] = "-e" => WordAt(argv + 1) \in DOMAIN Source \cup {Null}
<1>1. Len(args) \in Nat /\ \A i \in 2 .. Len(args) :
                             args[i - 1] = "-e" => args[i] \in DOMAIN Source
  BY SchemeAssumption DEF Driver
<1>2. argv \in 1 .. Len(args)
  BY <1>1 DEF Driver
<1>3. WordAt(argv) = args[argv]
  BY <1>2 DEF WordAt
<1>4. ASSUME args[argv] = "-e" PROVE WordAt(argv + 1) \in DOMAIN Source \cup {Null}
  <2>1. CASE argv + 1 <= Len(args)
    <3>1. argv + 1 \in 2 .. Len(args) /\ (argv + 1) - 1 = argv
      BY <1>1, <1>2, <2>1
    <3>2. args[argv + 1] \in DOMAIN Source
      BY <1>1, <1>4, <3>1
    <3> QED
      BY <2>1, <3>2 DEF WordAt
  <2>2. CASE ~(argv + 1 <= Len(args))
    BY <2>2 DEF WordAt
  <2> QED
    BY <2>1, <2>2
<1> QED
  BY <1>1, <1>2, <1>3, <1>4

\* parse_args.
LEMMA ArgsStep ==
  ASSUME Driver, SetFlag \/ TakeCode \/ ReadFile
  PROVE  Driver'
<1>1. phase = "args" /\ argc > 0 /\ phase' = phase /\ exitcode' = exitcode
  BY DEF SetFlag, TakeCode, ReadFile, Reading, outcome
<1>2. UNCHANGED <<args, frames, value, envs, run>>
  BY DEF SetFlag, TakeCode, ReadFile, evalvars, memory
<1>3. /\ argv \in 1 .. Len(args) /\ Len(args) \in Nat /\ WordAt(argv) = args[argv]
      /\ args[argv] = "-e" => WordAt(argv + 1) \in DOMAIN Source \cup {Null}
  BY <1>1, WordsKnown
<1>4. /\ argv' + argc' = Len(args) + 1
      /\ argv' \in 1 .. Len(args) + 2 /\ argc' \in -1 .. Len(args)
  <2>1. \E n \in {1, 2} : Advance(n)
    BY DEF SetFlag, TakeCode, ReadFile
  <2> QED
    BY <1>1, <1>3, <2>1 DEF Driver, Advance
<1>5. g_tests' \in BOOLEAN
  BY DEF Driver, SetFlag, TakeCode, ReadFile
<1>6. g_code' \in DOMAIN Source \cup {Null}
  <2>1. CASE SetFlag
    BY <2>1 DEF SetFlag, Driver
  <2>2. CASE TakeCode
    BY <1>3, <2>2 DEF TakeCode, Reading
  <2>3. CASE ReadFile
    BY <1>3, <2>3, SchemeAssumption DEF ReadFile, Reading
  <2> QED
    BY <2>1, <2>2, <2>3
<1> QED
  BY <1>1, <1>2, <1>4, <1>5, <1>6 DEF Driver

\* The environment of the built-in procedures.
LEMMA SetupStep ==
  ASSUME NEW S, Driver, Now(S), Setup
  PROVE  Driver' /\ \E S2 : Now(S2)'
<1> DEFINE vars0 == [n \in DOMAIN Globals |-> [cell |-> Globals[n], writes |-> 1]]
           new == [outer |-> 0, vars |-> vars0]
           G == {Globals[n] : n \in DOMAIN Globals}
           S2 == S \cup G
<1>1. /\ phase = "args" /\ envs' = <<new>> /\ frames = <<>> /\ value = <<>> /\ run = 0
      /\ envs = <<>>
      /\ UNCHANGED <<frames, value, results, code, run, exitcode, args, argv, argc,
                     g_tests, g_code>>
      /\ phase' = IF g_tests /\ Tests = <<>> THEN "tested" ELSE "parse"
  BY DEF Setup, Driver, mainvars
<1>2. Len(envs') = 1 /\ DOMAIN envs' = {1} /\ envs'[1] = new
  BY <1>1
<1>3. Driver'
  <2>1. Len(Tests) \in Nat /\ (Tests # <<>> => Len(Tests) > 0)
    BY SchemeAssumption
  <2> HIDE DEF new
  <2> QED
    BY <1>1, <1>2, <2>1 DEF Driver
<1>4. \A c \in G : c = Cell(c.type, "", <<>>, c.proc) \/ c = Cell(c.type, c.val, <<>>, Unset)
  BY DEF Globals, Proc, Symbol, Cell
<1>5. \A c \in S2 : Formed(c, S2, 1)
  <2>1. ASSUME NEW c \in G PROVE Formed(c, S2, 1)
    <3> HIDE DEF G
    <3>1. PICK t, v, p : c = Cell(t, v, <<>>, p)
      BY <1>4
    <3> HIDE DEF S2
    <3> QED
      BY <3>1 DEF Cell, Formed
  <2>2. ASSUME NEW c \in S PROVE Formed(c, S2, 1)
    <3>1. Formed(c, S, 0)
      BY <1>1 DEF Now, Machine, Closure
    <3> HIDE DEF G
    <3> QED
      BY <3>1 DEF Formed
  <2> HIDE DEF G
  <2> QED
    BY <2>1, <2>2
<1>6. \A n \in DOMAIN Globals : Globals[n] \in S2
  OBVIOUS
<1>7. S \subseteq S2
  OBVIOUS
<1> HIDE DEF G, S2
<1>8. Closure(S2, 1)
  BY <1>5, <1>7 DEF Closure, Now, Machine
<1>9. /\ new = [outer |-> new.outer, vars |-> new.vars] /\ new.outer = 0
      /\ new.vars = [n \in DOMAIN new.vars |-> new.vars[n]]
      /\ \A n \in DOMAIN new.vars :
           /\ new.vars[n] = [cell |-> new.vars[n].cell, writes |-> new.vars[n].writes]
           /\ new.vars[n].cell \in S2
  BY <1>6
<1> HIDE DEF new
<1>10. Listed(<<new>>)
  BY DEF Listed
<1>11. Scopes(S2, envs')
  BY <1>1, <1>2, <1>9, <1>10 DEF Scopes
<1>12. Listed(<<>>)
  BY DEF Listed
<1>13. results' \in Seq(S2) /\ code' \in S2
  BY <1>1, <1>7 DEF Now, Machine
<1>14. Stack(frames', S2, envs', results', run') /\ Returned(value', envs', results', run')
  BY <1>1, <1>12 DEF Stack, Returned
<1>15. Now(S2)'
  BY <1>2, <1>8, <1>11, <1>13, <1>14 DEF Now, Machine
<1> QED
  BY <1>3, <1>15

LEMMA ParsedRead ==
  ASSUME Driver, phase = "parse", Parsed.outcome = "read"
  PROVE  Parsed.cell \in Expressions
<1>1. CASE g_tests
  <2>1. run + 1 \in DOMAIN Tests
    <3>1. Len(Tests) \in Nat /\ DOMAIN Tests = 1 .. Len(Tests)
      BY SchemeAssumption
    <3>2. run \in 0 .. Len(Tests) + 1 /\ run < Len(Tests)
      BY <1>1 DEF Driver
    <3> QED
      BY <3>1, <3>2
  <2>2. IsReading(Tests[run + 1].code)
    BY <2>1, SchemeAssumption
  <2> QED
    BY <1>1, <2>2 DEF Parsed, IsReading
<1>2. CASE ~g_tests /\ g_code = Null
  BY <1>2 DEF Parsed
<1>3. CASE ~g_tests /\ g_code # Null
  <2>1. g_code \in DOMAIN Source
    BY <1>3 DEF Driver
  <2>2. IsReading(Source[g_code])
    BY <2>1, SchemeAssumption
  <2> QED
    BY <1>3, <2>2 DEF Parsed, IsReading
<1> QED
  BY <1>1, <1>2, <1>3

LEMMA ParseStep ==
  ASSUME NEW S, Driver, Now(S), Parse
  PROVE  Driver' /\ \E S2 : Now(S2)'
<1> DEFINE c == Parsed.cell
           new == Reset(c, Number("0"))
           p == Pointer("code", run + 1, "", 0)
           f == Enter(p, 1)
           S2 == (S \cup Expressions) \cup {new}
<1>1. /\ phase = "parse" /\ phase' = "eval" /\ frames = <<>> /\ value = <<>>
      /\ code' = new /\ run' = run + 1 /\ frames' = <<f>>
      /\ UNCHANGED <<value, envs, results, exitcode, args, argv, argc, g_tests, g_code>>
  BY DEF Parse, Driver, mainvars
<1>2. c \in Expressions
  BY ParsedRead DEF Parse
<1>3. 1 \in DOMAIN envs /\ run \in Nat /\ Len(Tests) \in Nat
  <2>1. Len(Tests) \in Nat
    BY SchemeAssumption
  <2>2. run \in 0 .. Len(Tests) + 1
    BY DEF Driver
  <2>3. 1 \in DOMAIN envs
    BY <1>1 DEF Driver
  <2> QED
    BY <2>1, <2>2, <2>3
<1>4. Driver'
  <2>1. run < (IF g_tests THEN Len(Tests) ELSE 1)
    <3>1. phase = "parse"
      BY <1>1
    <3> QED
      BY <3>1 DEF Driver
  <2>2. run' \in 1 .. (IF g_tests THEN Len(Tests) ELSE 1) /\ run' \in 0 .. Len(Tests) + 1
    <3>1. run' = run + 1
      BY <1>1
    <3>2. CASE g_tests
      BY <1>3, <2>1, <3>1, <3>2
    <3>3. CASE ~g_tests
      BY <1>3, <2>1, <3>1, <3>3
    <3> QED
      BY <3>2, <3>3
  <2> HIDE DEF f, new
  <2> QED
    BY <1>1, <1>3, <2>2 DEF Driver
<1>5. Len(envs) \in Nat
  BY InOrder DEF Now, Machine, Scopes
<1>6. \A b \in Expressions : Formed(b, S2, Len(envs))
  <2> SUFFICES ASSUME NEW b \in Expressions PROVE Formed(b, S2, Len(envs))
    OBVIOUS
  <2>1. b = Cell(b.type, b.val, b.list, b.proc) /\ b.list \in Seq(Expressions)
    BY SchemeAssumption
  <2>2. b.list \in Seq(S2)
    BY <2>1
  <2>3. PICK t, v, l, q : b = Cell(t, v, l, q)
    BY <2>1
  <2> HIDE DEF S2
  <2> QED
    BY <1>5, <2>2, <2>3 DEF Formed, Cell
<1>7. \A b \in S : Formed(b, S2, Len(envs))
  BY DEF Now, Machine, Closure, Formed
<1>8. Formed(new, S2, Len(envs))
  BY <1>2, <1>6 DEF Reset, Number, Cell, Formed
<1>9. S \subseteq S2 /\ new \in S2 /\ \A b \in S2 : Formed(b, S2, Len(envs))
  <2> HIDE DEF new
  <2> QED
    BY <1>6, <1>7, <1>8
<1> HIDE DEF S2, new
<1>10. Closure(S2, Len(envs)) /\ Scopes(S2, envs) /\ results \in Seq(S2)
  BY <1>9 DEF Now, Machine, Closure, Scopes
<1>11. Placed(p, envs, results, run + 1) /\ Runnable(p, 1, envs)
  BY DEF Placed, Runnable, Pointer
<1> HIDE DEF p
<1>12. Framed(f, S2, envs, results, run + 1)
  BY <1>3, <1>11, Entered
<1> HIDE DEF f
<1>13. Stack(<<f>>, S2, envs, results, run + 1)
  <2>1. Listed(<<f>>)
    BY DEF Listed
  <2>2. f.env \in Nat
    BY <1>5, <1>12, InOrder DEF Framed, Now, Machine, Scopes
  <2>3. DOMAIN <<f>> = {1} /\ <<f>>[1] = f
    OBVIOUS
  <2> QED
    BY <1>12, <2>1, <2>2, <2>3 DEF Stack
<1>14. Machine(S2, <<f>>, <<>>, envs, results, new, run + 1)
  BY <1>9, <1>10, <1>13 DEF Machine, Returned
<1>15. \E T : Now(T)'
  <2>1. /\ frames' = <<f>> /\ value' = <<>> /\ envs' = envs /\ results' = results
        /\ code' = new /\ run' = run + 1
    BY <1>1
  <2> QED
    BY <1>14, <2>1 DEF Now
<1> QED
  BY <1>4, <1>15

\* eval leaves main's variables alone but for the end of the program.
LEMMA EvalStep ==
  ASSUME NEW S, Driver, Now(S), Eval
  PROVE  Driver' /\ \E S2 : Now(S2)'
<1>1. phase = "eval" /\ UNCHANGED <<args, argv, argc, g_tests, g_code, run>>
  BY DEF Eval, EvalNext, mainvars, memory, EvalSymbol, UnknownSymbol, EvalNumber, EvalEmpty,
         EvalQuote, EvalIf, TakeBranch, EvalBinding, Bind, EvalLambda, EvalBegin,
         BackInBegin, EvalOperator, TakeOperator, EvalOperand, TakeOperand, ApplyLambda,
         ApplyProc, InvalidCall, EvalUndefined, Undefined, Form, At, BackAt, Applying, Stop
<1>2. \/ UNCHANGED <<phase, exitcode>>
      \/ phase' \in {"exited", "undefined"} /\ exitcode' \in {0, 1}
  BY DEF Eval, EvalNext, outcome, EvalSymbol, UnknownSymbol, EvalNumber, EvalEmpty,
         EvalQuote, EvalIf, TakeBranch, EvalBinding, Bind, EvalLambda, EvalBegin,
         BackInBegin, EvalOperator, TakeOperator, EvalOperand, TakeOperand, ApplyLambda,
         ApplyProc, InvalidCall, EvalUndefined, Stop
<1>3. 1 \in DOMAIN envs'
  <2>0. 1 \in DOMAIN envs
    BY <1>1 DEF Driver
  <2>1. CASE Bind
    BY <2>0, <2>1 DEF Bind
  <2>2. CASE EvalLambda
    <3>1. top.x.in \in {"code", "result", "variable"}
      BY <2>2, LambdaPlace DEF Eval
    <3>2. CASE top.x.in = "code" \/ top.x.in = "result"
      BY <2>0, <2>2, <3>2 DEF EvalLambda
    <3>3. CASE top.x.in = "variable"
      <4>1. \E e, v : envs' = [envs EXCEPT ![e] = v]
        BY <2>2, <3>3 DEF EvalLambda
      <4> QED
        BY <2>0, <4>1
    <3> QED
      BY <3>1, <3>2, <3>3
  <2>3. CASE ApplyLambda
    <3>1. PICK new : envs' = Append(envs, new)
      BY <2>3 DEF ApplyLambda
    <3>2. Listed(envs)
      BY DEF Now, Machine, Scopes
    <3>3. DOMAIN Append(envs, new) = 1 .. Len(envs) + 1 /\ Len(envs) \in Nat
      BY <3>2, Appended, InOrder
    <3> QED
      BY <3>1, <3>3
  <2>4. CASE UNCHANGED envs
    BY <2>0, <2>4
  <2>5. Bind \/ EvalLambda \/ ApplyLambda \/ UNCHANGED envs
    BY DEF Eval, EvalNext, memory, EvalSymbol, UnknownSymbol, EvalNumber, EvalEmpty,
           EvalQuote, EvalIf, TakeBranch, EvalBinding, EvalBegin, BackInBegin,
           EvalOperator, TakeOperator, EvalOperand, TakeOperand, ApplyProc, InvalidCall,
           EvalUndefined, Stop
  <2> QED
    BY <2>1, <2>2, <2>3, <2>4, <2>5
<1>4. Driver'
  BY <1>1, <1>2, <1>3 DEF Driver
<1>5. \E S2 : Now(S2)'
  BY EvalKeeps DEF Eval
<1> QED
  BY <1>4, <1>5

\* The program ends.
LEMMA EndStep ==
  ASSUME Driver, NEW how \in {"exited", "undefined"}, NEW c \in {0, 1, 3, 4, 5},
         Finish(how, c)
  PROVE  Driver'
<1>1. /\ phase' = how /\ exitcode' = c
      /\ UNCHANGED <<frames, value, envs, run, args, argv, argc, g_tests, g_code>>
  BY DEF Finish, evalvars, memory, mainvars
<1> QED
  BY <1>1 DEF Driver

\* One test is behind, parsed and evaluated or not.
LEMMA TestStep ==
  ASSUME NEW S, Driver, Now(S), NextTest \/ (ParseFails /\ g_tests)
  PROVE  Driver' /\ Now(S)'
<1>1. /\ g_tests /\ frames' = frames /\ value' = <<>> /\ frames = <<>>
      /\ UNCHANGED <<envs, results, code, exitcode, args, argv, argc, g_tests, g_code>>
      /\ phase \in {"parse", "eval"}
  BY DEF NextTest, ParseFails, Evaluated, memory, mainvars, Driver
<1>2. Len(Tests) \in Nat /\ run \in 0 .. Len(Tests) + 1
  BY SchemeAssumption DEF Driver
<1>3. 1 \in DOMAIN envs
  BY <1>1 DEF Driver
<1>4. run' \in 1 .. Len(Tests) /\ phase' = AfterTest(run')
  <2>1. CASE NextTest
    <3>1. phase = "eval" /\ run' = run /\ phase' = AfterTest(run)
      BY <2>1 DEF NextTest, Evaluated, memory
    <3>2. run \in 1 .. Len(Tests)
      BY <1>1, <3>1 DEF Driver
    <3> QED
      BY <3>1, <3>2
  <2>2. CASE ParseFails
    <3>1. phase = "parse" /\ run' = run + 1 /\ phase' = AfterTest(run + 1)
      BY <1>1, <2>2 DEF ParseFails
    <3>2. run < Len(Tests)
      BY <1>1, <3>1 DEF Driver
    <3> QED
      BY <1>2, <3>1, <3>2
  <2> QED
    BY <2>1, <2>2
<1>5. /\ phase' \in {"parse", "tested"} /\ run' \in 0 .. Len(Tests) + 1
      /\ phase' = "parse" => run' < Len(Tests)
  BY <1>2, <1>4 DEF AfterTest
<1>6. Driver'
  BY <1>1, <1>3, <1>5 DEF Driver
<1>7. Machine(S, <<>>, <<>>, envs, results, code, run')
  <2>1. Listed(<<>>)
    BY DEF Listed
  <2> QED
    BY <2>1 DEF Now, Machine, Stack, Returned
<1>8. Now(S)'
  BY <1>1, <1>7 DEF Now
<1> QED
  BY <1>6, <1>8

LEMMA PrintStep ==
  ASSUME NEW S, Driver, Now(S), PrintResult
  PROVE  Driver' /\ Now(S)'
<1>1. /\ frames = <<>> /\ frames' = <<>> /\ value' = <<>> /\ phase' = "printed"
      /\ UNCHANGED <<envs, results, code, run, exitcode, args, argv, argc, g_tests, g_code>>
  BY DEF PrintResult, Evaluated, memory, mainvars
<1>2. Driver'
  BY <1>1 DEF Driver
<1>3. Now(S)'
  BY <1>1 DEF Now, Machine, Returned
<1> QED
  BY <1>2, <1>3

LEMMA Steps == Sound /\ [Next]_vars => Sound'
<1> SUFFICES ASSUME Sound, [Next]_vars PROVE Sound'
  OBVIOUS
<1>1. PICK S : Now(S)
  BY DEF Sound, Now
<1>2. Driver
  BY DEF Sound
<1>3. UNCHANGED <<frames, value, memory>> => Now(S)'
  BY <1>1 DEF Now, memory
<1>4. SUFFICES Driver' /\ \E S2 : Now(S2)'
  BY DEF Sound, Now
<1>5. CASE SetFlag \/ TakeCode \/ ReadFile
  <2>1. UNCHANGED <<frames, value, memory>>
    BY <1>5 DEF SetFlag, TakeCode, ReadFile, evalvars
  <2> QED
    BY <1>2, <1>3, <1>5, <2>1, ArgsStep
<1>6. CASE \E how \in {"exited", "undefined"}, c \in {0, 1, 3, 4, 5} : Finish(how, c)
  <2>1. UNCHANGED <<frames, value, memory>>
    BY <1>6 DEF Finish, evalvars
  <2> QED
    BY <1>2, <1>3, <1>6, <2>1, EndStep
<1>7. CASE Setup
  BY <1>1, <1>2, <1>7, SetupStep
<1>8. CASE Parse
  BY <1>1, <1>2, <1>8, ParseStep
<1>9. CASE Eval
  BY <1>1, <1>2, <1>9, EvalStep
<1>10. CASE NextTest \/ (ParseFails /\ g_tests)
  BY <1>1, <1>2, <1>10, TestStep
<1>11. CASE PrintResult
  BY <1>1, <1>2, <1>11, PrintStep
<1>12. CASE UNCHANGED vars
  <2>1. UNCHANGED <<frames, value, memory>>
    BY <1>12 DEF vars, evalvars
  <2>2. Driver'
    BY <1>2, <1>12 DEF Driver, vars, evalvars, memory, outcome, mainvars
  <2> QED
    BY <1>3, <2>1, <2>2
<1>13. ASSUME HelpOrUnknown \/ ReadFileFails \/ (ParseFails /\ ~g_tests) \/ ParseUndefined
                \/ ReturnTests \/ PrintUndefined \/ CleanUp \/ CleanUpUndefined
       PROVE  \E how \in {"exited", "undefined"}, c \in {0, 1, 3, 4, 5} : Finish(how, c)
  BY <1>13 DEF HelpOrUnknown, ReadFileFails, ParseFails, ParseUndefined, ReturnTests,
               PrintUndefined, CleanUp, CleanUpUndefined
<1> QED
  BY <1>5, <1>6, <1>7, <1>8, <1>9, <1>10, <1>11, <1>12, <1>13 DEF Next

LEMMA SoundAlways == Spec => []Sound
BY Begins, Steps, PTL DEF Spec

\* The variables of the program keep to their types, whatever the command line,
\* the code and the unit tests: lookups end, a call of eval has an environment,
\* and main stays inside its arguments and its tests (scheme.c, 562-796).
THEOREM TypesKept == Spec => []TypeOK
<1>1. Sound => TypeOK
  <2> SUFFICES ASSUME Sound PROVE TypeOK
    OBVIOUS
  <2>1. PICK S : Machine(S, frames, value, envs, results, code, run)
    BY DEF Sound
  <2>2. Driver
    BY DEF Sound
  <2>3. Len(value) <= 1
    <3>1. value = <<>> \/ \E p : value = <<p>>
      BY <2>1 DEF Machine, Returned
    <3>2. CASE value = <<>>
      BY <3>2
    <3>3. ASSUME NEW p, value = <<p>> PROVE Len(value) <= 1
      <4>1. Len(<<p>>) = 1
        OBVIOUS
      <4> QED
        BY <3>3, <4>1
    <3> QED
      BY <3>1, <3>2, <3>3
  <2>4. \A e \in DOMAIN envs : envs[e].outer \in 0 .. e - 1
    BY <2>1 DEF Machine, Scopes
  <2>5. \A i \in DOMAIN frames : frames[i].env \in DOMAIN envs
    BY <2>1 DEF Machine, Stack, Framed
  <2>6. Len(args) \in Nat
    BY <2>2, SchemeAssumption DEF Driver
  <2>7. argc <= Len(args)
    BY <2>2, <2>6 DEF Driver
  <2> QED
    BY <2>2, <2>3, <2>4, <2>5, <2>7 DEF Driver, TypeOK
<1> QED
  BY <1>1, SoundAlways, PTL

\* The code that any open call of eval works on is never destroyed by an
\* assignment of an inner call (env_set, scheme.c 447, and cell_index's
\* pointers into the cells of variables).
THEOREM RunningCodeAlwaysLive == Spec => []RunningCodeLive
<1>1. Sound => RunningCodeLive
  <2> SUFFICES ASSUME Sound, NEW i \in DOMAIN frames PROVE Live(frames[i].x)
    BY DEF RunningCodeLive
  <2>1. PICK S : Machine(S, frames, value, envs, results, code, run)
    BY DEF Sound
  <2>2. Framed(frames[i], S, envs, results, run)
    BY <2>1 DEF Machine, Stack
  <2>3. /\ Placed(frames[i].x, envs, results, run)
        /\ Runnable(frames[i].x, frames[i].env, envs)
    BY <2>2 DEF Framed
  <2> QED
    BY <2>3, RunnableLive
<1> QED
  BY <1>1, SoundAlways, PTL

=============================================================================
