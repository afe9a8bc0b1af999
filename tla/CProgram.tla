------------------------------ MODULE CProgram ------------------------------
(***************************************************************************)
(* Reference for the compiler and the virtual machine: C programs as trees,*)
(* the tokens they are written with, and what they mean.  Nothing here is  *)
(* taken from the compiler: the precedences are the grammar of C, values   *)
(* are computed on the tree, and a variable has an address of its own.     *)
(*                                                                         *)
(* The language is the one core/c4.c accepts, and differs from C in that   *)
(* || and && have the value of the operand that decides, and an integer    *)
(* has a pointer added to it unscaled.  char is signed.                    *)
(***************************************************************************)
EXTENDS CValues, Sequences, SequencesExt

CONSTANTS
  WordSize,       \* sizeof(int*)
  MainArguments   \* argc and argv, for a main that has them


\* Types: <<"int", 0>>, <<"char", 1>> for char*, ...
IntType == <<"int", 0>>
SizeOf(t) == IF t = <<"char", 0>> THEN 1 ELSE WordSize
StepOf(t) == IF t[2] = 0 THEN 1 ELSE SizeOf(<<t[1], t[2] - 1>>)
Pointed(t) == <<t[1], t[2] - 1>>

-----------------------------------------------------------------------------
(* Trees *)
Num(n) == <<"num", n>>
Var(x) == <<"var", x>>
Un(o, x) == <<"un", o, x>>           \* - + ! ~ * & ++ --
Post(o, x) == <<"post", o, x>>       \* ++ --
Bin(o, x, y) == <<"bin", o, x, y>>   \* "=" among them
Cond(c, x, y) == <<"cond", c, x, y>>
Index(x, y) == <<"index", x, y>>
Call(f, as) == <<"call", f, as>>
Cast(t, x) == <<"cast", t, x>>
Size(t) == <<"sizeof", t>>

Do(x) == <<"expr", x>>
If(c, s) == <<"if", c, s>>
IfElse(c, s, z) == <<"ifelse", c, s, z>>
While(c, s) == <<"while", c, s>>
Return(x) == <<"return", x>>
Exit(x) == <<"exit", x>>             \* in main only
Block(ss) == <<"block", ss>>

\* A program is a sequence of these.
Global(t, x) == <<"global", t, x>>
Enum(xs) == <<"enum", xs>>           \* each <<name>> or <<name, value>>
Fun(t, f, ps, ls, ss) ==             \* ps, ls: sequences of <<type, name>>
  <<"fun", t, [name |-> f, params |-> ps, locals |-> ls, body |-> ss]>>

-----------------------------------------------------------------------------
(* Tokens, with the parentheses the grammar of C requires. *)
T(k) == <<k, "">>
Id(x) == <<"Id", x>>

BinaryRank(o) ==
  CASE o \in {"*", "/", "%"} -> 13 [] o \in {"+", "-"} -> 12
    [] o \in {"<<", ">>"} -> 11 [] o \in {"<", ">", "<=", ">="} -> 10
    [] o \in {"==", "!="} -> 9 [] o = "&" -> 8 [] o = "^" -> 7
    [] o = "|" -> 6 [] o = "&&" -> 5 [] o = "||" -> 4 [] o = "=" -> 1
Rank(x) ==
  CASE x[1] = "bin" -> BinaryRank(x[2])
    [] x[1] = "cond" -> 2
    [] x[1] \in {"un", "cast", "sizeof"} -> 14
    [] OTHER -> 15

TypeTokens(t) == <<T(t[1])>> \o [n \in 1 .. t[2] |-> T("*")]
Commas(ss) ==
  IF ss = <<>> THEN <<>>
  ELSE FoldLeft(LAMBDA l, s : l \o <<T(",")>> \o s, Head(ss), Tail(ss))

RECURSIVE Show(_, _)
Show(x, rank) ==
  LET r == Rank(x)
      text ==
        CASE x[1] = "num" -> <<<<"Num", x[2]>>>>
          [] x[1] = "var" -> <<Id(x[2])>>
          [] x[1] = "un" -> <<T(x[2])>> \o Show(x[3], 14)
          [] x[1] = "post" -> Show(x[3], 15) \o <<T(x[2])>>
          [] x[1] = "bin" ->
               IF x[2] = "=" THEN Show(x[3], 14) \o <<T("=")>> \o Show(x[4], 1)
               ELSE Show(x[3], r) \o <<T(x[2])>> \o Show(x[4], r + 1)
          [] x[1] = "cond" ->
               Show(x[2], 3) \o <<T("?")>> \o Show(x[3], 1) \o <<T(":")>> \o Show(x[4], 2)
          [] x[1] = "index" -> Show(x[2], 15) \o <<T("[")>> \o Show(x[3], 1) \o <<T("]")>>
          [] x[1] = "call" ->
               <<Id(x[2]), T("(")>> \o Commas([n \in DOMAIN x[3] |-> Show(x[3][n], 1)]) \o <<T(")")>>
          [] x[1] = "cast" -> <<T("(")>> \o TypeTokens(x[2]) \o <<T(")")>> \o Show(x[3], 14)
          [] x[1] = "sizeof" -> <<T("sizeof"), T("(")>> \o TypeTokens(x[2]) \o <<T(")")>>
  IN  IF r < rank THEN <<T("(")>> \o text \o <<T(")")>> ELSE text

InParens(x) == <<T("(")>> \o Show(x, 1) \o <<T(")")>>

RECURSIVE ShowStmt(_)
ShowAll(ss) == FlattenSeq([n \in DOMAIN ss |-> ShowStmt(ss[n])])
ShowStmt(s) ==
  CASE s[1] = "expr" -> Show(s[2], 1) \o <<T(";")>>
    [] s[1] = "if" -> <<T("if")>> \o InParens(s[2]) \o ShowStmt(s[3])
    [] s[1] = "ifelse" ->
         <<T("if")>> \o InParens(s[2])
           \o ShowStmt(IF s[3][1] = "if" THEN Block(<<s[3]>>) ELSE s[3])
           \o <<T("else")>> \o ShowStmt(s[4])
    [] s[1] = "while" -> <<T("while")>> \o InParens(s[2]) \o ShowStmt(s[3])
    [] s[1] = "return" -> <<T("return")>> \o Show(s[2], 1) \o <<T(";")>>
    [] s[1] = "exit" -> <<Id("exit")>> \o InParens(s[2]) \o <<T(";")>>
    [] s[1] = "block" -> <<T("{")>> \o ShowAll(s[2]) \o <<T("}")>>

Declared(d) == TypeTokens(d[1]) \o <<Id(d[2])>>
ShowDecl(d) ==
  CASE d[1] = "global" -> TypeTokens(d[2]) \o <<Id(d[3]), T(";")>>
    [] d[1] = "enum" ->
         <<T("enum"), T("{")>>
           \o Commas([n \in DOMAIN d[2] |->
                <<Id(d[2][n][1])>> \o (IF Len(d[2][n]) = 1 THEN <<>>
                                       ELSE <<T("="), <<"Num", d[2][n][2]>>>>)])
           \o <<T("}"), T(";")>>
    [] d[1] = "fun" ->
         TypeTokens(d[2]) \o <<Id(d[3].name), T("(")>>
           \o Commas([n \in DOMAIN d[3].params |-> Declared(d[3].params[n])])
           \o <<T(")"), T("{")>>
           \o FlattenSeq([n \in DOMAIN d[3].locals |-> Declared(d[3].locals[n]) \o <<T(";")>>])
           \o ShowAll(d[3].body) \o <<T("}")>>

Tokens(unit) == FlattenSeq([n \in DOMAIN unit |-> ShowDecl(unit[n])])

-----------------------------------------------------------------------------
(***************************************************************************)
(* Meaning.  env: the variables in scope, [at, type] or [value] each, and  *)
(* the functions; s: memory, the next free address, and how the current    *)
(* function stands.  Where and Eval return [v, t, s].                      *)
(***************************************************************************)
Read(s, at, t) == s.mem[at]
Write(s, at, t, v) ==
  [s EXCEPT !.mem = [m \in DOMAIN @ \cup {at} |->
                       IF m = at THEN (IF t = <<"char", 0>> THEN Signed(v, 8) ELSE v) ELSE @[m]]]

RECURSIVE Where(_, _, _), Eval(_, _, _), Exec(_, _, _), ExecAll(_, _, _), Args(_, _, _)

Where(x, env, s) ==
  CASE x[1] = "var" -> [v |-> env.vars[x[2]].at, t |-> env.vars[x[2]].type, s |-> s]
    [] x[1] = "un" -> LET p == Eval(x[3], env, s) IN [p EXCEPT !.t = Pointed(@)]
    [] x[1] = "index" -> Where(Un("*", Bin("+", x[2], x[3])), env, s)

\* The variable at x changed by n; keep: the value is the old one.
Change(x, n, keep, env, s) ==
  LET w == Where(x, env, s)
      old == Read(w.s, w.v, w.t)
      new == Write(w.s, w.v, w.t, old + n * StepOf(w.t))
  IN  [v |-> IF keep THEN old ELSE Read(new, w.v, w.t), t |-> w.t, s |-> new]

Operator(o, x, y, env, s) ==
  LET l == Eval(x, env, s)
      r == Eval(y, env, l.s)
      step == IF o \in {"+", "-"} THEN StepOf(l.t) ELSE 1
  IN  IF o = "-" /\ step > 1 /\ l.t = r.t
      THEN [v |-> Quotient(l.v - r.v, step), t |-> IntType, s |-> r.s]
      ELSE [v |-> Apply(o, l.v, step * r.v),
            t |-> IF o \in {"+", "-"} THEN l.t ELSE IntType, s |-> r.s]

Invoke(f, as, env, s) ==
  LET given == Args(as, env, s)
      fun == env.funs[f]
      vars == fun.decl.params \o fun.decl.locals
      at(n) == given.s.next + WordSize * (n - 1)
      scope == [x \in DOMAIN env.globals \cup {vars[n][2] : n \in DOMAIN vars} |->
                  IF \E n \in DOMAIN vars : vars[n][2] = x
                  THEN LET n == CHOOSE n \in DOMAIN vars : vars[n][2] = x
                       IN  [at |-> at(n), type |-> vars[n][1]]
                  ELSE env.globals[x]]
      entered == FoldLeft(LAMBDA m, n : Write(m, at(n), vars[n][1], given.vs[n]),
                          [given.s EXCEPT !.next = at(Len(vars) + 1), !.how = "runs"],
                          [n \in DOMAIN fun.decl.params |-> n])
      left == ExecAll(fun.decl.body, [env EXCEPT !.vars = scope], entered)
  IN  [v |-> left.val, t |-> fun.type, s |-> [left EXCEPT !.how = "runs"]]

Args(as, env, s) ==
  FoldLeft(LAMBDA m, x : LET r == Eval(x, env, m.s) IN [vs |-> Append(m.vs, r.v), s |-> r.s],
           [vs |-> <<>>, s |-> s], as)

Eval(x, env, s) ==
  LET sub(n) == Eval(x[n], env, s)
      int(v, r) == [v |-> v, t |-> IntType, s |-> r]
      at(w) == [w EXCEPT !.v = Read(w.s, w.v, w.t)]
  IN
  CASE x[1] = "num" -> int(x[2], s)
    [] x[1] = "sizeof" -> int(SizeOf(x[2]), s)
    [] x[1] = "var" -> IF "value" \in DOMAIN env.vars[x[2]]
                       THEN int(env.vars[x[2]].value, s) ELSE at(Where(x, env, s))
    [] x[1] = "index" \/ (x[1] = "un" /\ x[2] = "*") -> at(Where(x, env, s))
    [] x[1] = "cast" -> [sub(3) EXCEPT !.t = x[2]]
    [] x[1] = "call" -> Invoke(x[2], x[3], env, s)
    [] x[1] = "post" -> Change(x[3], IF x[2] = "++" THEN 1 ELSE -1, TRUE, env, s)
    [] x[1] = "un" /\ x[2] \in {"++", "--"} ->
         Change(x[3], IF x[2] = "++" THEN 1 ELSE -1, FALSE, env, s)
    [] x[1] = "un" /\ x[2] = "&" ->
         LET w == Where(x[3], env, s) IN [w EXCEPT !.t = <<@[1], @[2] + 1>>]
    [] x[1] = "un" /\ x[2] \notin {"*", "&", "++", "--"} ->
         LET r == sub(3) IN
           int(CASE x[2] = "-" -> -r.v [] x[2] = "+" -> r.v
                 [] x[2] = "!" -> Truth(r.v = 0) [] x[2] = "~" -> -1 - r.v, r.s)
    [] x[1] = "cond" -> LET c == sub(2) IN Eval(IF c.v # 0 THEN x[3] ELSE x[4], env, c.s)
    [] x[1] = "bin" ->
         CASE x[2] = "=" ->
                LET w == Where(x[3], env, s)
                    r == Eval(x[4], env, w.s)
                    new == Write(r.s, w.v, w.t, r.v)
                IN  [v |-> Read(new, w.v, w.t), t |-> w.t, s |-> new]
           [] x[2] \in {"||", "&&"} ->
                LET l == sub(3) IN
                  IF (l.v # 0) = (x[2] = "||") THEN int(l.v, l.s)
                  ELSE LET r == Eval(x[4], env, l.s) IN int(r.v, r.s)
           [] OTHER -> Operator(x[2], x[3], x[4], env, s)

ExecAll(ss, env, s) ==
  IF ss = <<>> \/ s.how # "runs" THEN s ELSE ExecAll(Tail(ss), env, Exec(Head(ss), env, s))

Exec(st, env, s) ==
  LET c == Eval(st[2], env, s) IN
  CASE st[1] = "block" -> ExecAll(st[2], env, s)
    [] st[1] = "expr" -> c.s
    [] st[1] \in {"return", "exit"} -> [c.s EXCEPT !.how = "returns", !.val = c.v]
    [] st[1] = "if" -> IF c.v # 0 THEN Exec(st[3], env, c.s) ELSE c.s
    [] st[1] = "ifelse" -> Exec(IF c.v # 0 THEN st[3] ELSE st[4], env, c.s)
    [] st[1] = "while" -> IF c.v # 0 THEN ExecAll(<<st[3], st>>, env, c.s) ELSE c.s

\* The exit code of a program: what main returns.
EnumValues(xs) ==
  FoldLeft(LAMBDA m, x : LET v == IF Len(x) = 1 THEN m.next ELSE x[2] IN
             [vs |-> Append(m.vs, <<x[1], [value |-> v]>>), next |-> v + 1],
           [vs |-> <<>>, next |-> 0], xs).vs

Meaning(unit) ==
  LET names == FlattenSeq([n \in DOMAIN unit |->
        CASE unit[n][1] = "global" ->
               <<<<unit[n][3], [at |-> WordSize * n, type |-> unit[n][2]]>>>>
          [] unit[n][1] = "enum" -> EnumValues(unit[n][2])
          [] OTHER -> <<>>])
      globals == [x \in {names[n][1] : n \in DOMAIN names} |->
                    (CHOOSE e \in ToSet(names) : e[1] = x)[2]]
      funs == {n \in DOMAIN unit : unit[n][1] = "fun"}
      env == [globals |-> globals, vars |-> globals,
              funs |-> [f \in {unit[n][3].name : n \in funs} |->
                          LET d == unit[CHOOSE n \in funs : unit[n][3].name = f]
                          IN  [decl |-> d[3], type |-> d[2]]]]
      zero == [m \in {WordSize * n : n \in DOMAIN unit} |-> 0]
      given == [n \in DOMAIN env.funs["main"].decl.params |-> Num(MainArguments[n])]
  IN  Invoke("main", given, env,
             [mem |-> zero, next |-> WordSize * (Len(unit) + 1), how |-> "runs", val |-> 0]).v

=============================================================================
