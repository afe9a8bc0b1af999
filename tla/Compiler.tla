------------------------------ MODULE Compiler ------------------------------
(***************************************************************************)
(* The compiler of core/c4.c: partial_parse, stmt and expr, from tokens to *)
(* the words of the code segment.                                          *)
(*                                                                         *)
(* The globals tk, ival, id, e, ty, loc, data and sym are fields of a      *)
(* record c that every operator takes and returns: c.in[c.at] is the token *)
(* next() has read (tk with its ival or name), c.e the words emitted, so   *)
(* that e points at Last(c.e).  A diagnostic, exit(-1) or return 0, clears *)
(* c.ok.  Pointers are byte addresses, the code segment begins at 0 with a *)
(* word that is not used.                                                  *)
(***************************************************************************)
EXTENDS Integers, Sequences, SequencesExt, Instructions

CONSTANTS
  WordSize,   \* sizeof(int*)
  DataBase    \* B_p_data

-----------------------------------------------------------------------------
\* tokens with a precedence, from Assign = 143
Infixes == <<"=", "?", "||", "&&", "|", "^", "&", "==", "!=", "<", ">", "<=",
  ">=", "<<", ">>", "+", "-", "*", "/", "%", "++", "--", "[">>
Level == [tk \in ToSet(Infixes) |-> 142 + (CHOOSE k \in DOMAIN Infixes : Infixes[k] = tk)]

\* types
CHAR == 0
INT == 1
PTR == 2
BaseType(tk) == IF tk = "char" THEN CHAR ELSE INT
LoadOp(ty) == IF ty = CHAR THEN Op["LC"] ELSE Op["LI"]
StoreOp(ty) == IF ty = CHAR THEN Op["SC"] ELSE Op["SI"]
StepSize(ty) == IF ty > PTR THEN WordSize ELSE 1

-----------------------------------------------------------------------------
NoSymbol == [class |-> "none", type |-> 0, val |-> 0]

Tk(c) == IF c.at > Len(c.in) THEN "" ELSE c.in[c.at][1]
Ival(c) == c.in[c.at][2]
Go(c) == [c EXCEPT !.at = @ + 1]
Fail(c) == [c EXCEPT !.ok = FALSE, !.at = Len(c.in) + 1]
Expect(c, tk) == IF Tk(c) = tk THEN Go(c) ELSE Fail(c)
Optional(c, tk) == IF Tk(c) = tk THEN Go(c) ELSE c

\* id: the identifier next() has read last.
IdOf(c) ==
  LET isId(t) == t[1] = "Id"
      to == IF c.at > Len(c.in) THEN Len(c.in) ELSE c.at
  IN  Last(SelectSeq(SubSeq(c.in, 1, to), isId))[2]

Emit(c, words) == [c EXCEPT !.e = @ \o words]
Here(c, n) == WordSize * (Len(c.e) + n)                \* (int)(e + n)
Patch(c, d, n) == [c EXCEPT !.e[d] = Here(c, n)]       \* *d = (int)(e + n)
Typed(c, ty) == [c EXCEPT !.ty = ty]

\* while (tk == Mul) { next(); ty = ty + PTR; }
RECURSIVE Stars(_, _)
Stars(c, ty) == IF Tk(c) = "*" THEN Stars(Go(c), ty + PTR) ELSE Typed(c, ty)

\* Mutant: a value that was just stored may be assigned to.
Loaded_Stored(c) == Last(c.e) \in {Op["LC"], Op["LI"], Op["SC"], Op["SI"]}
\* What the tests for a bad lvalue look at: the last word emitted.
Loaded(c) == Last(c.e) \in {Op["LC"], Op["LI"]}

RECURSIVE Expr(_, _), Climb(_, _), Arguments(_, _), Stmt(_), StmtsTo(_)

-----------------------------------------------------------------------------
(* expr: operands and prefix operators *)

\* Called with tk behind the '('; k counts the arguments.
Arguments(c, k) ==
  CASE ~c.ok -> c
    [] c.ok /\ Tk(c) = ")" -> [Go(c) EXCEPT !.n = k]
    [] OTHER -> Arguments(Optional(Emit(Expr(c, Level["="]), <<Op["PSH"]>>), ","), k + 1)

FunctionCall(c, d) ==
  LET r == Arguments(Go(c), 0)
      s == r.sym[d]
      target == CASE s.class = "Sys" -> <<s.val>>
                  [] s.class = "Fun" -> <<Op["JSR"], s.val>>
                  [] OTHER -> <<>>
  IN  IF target = <<>> THEN Fail(r)
      ELSE Typed(Emit(r, target \o (IF r.n > 0 THEN <<Op["ADJ"], r.n>> ELSE <<>>)), s.type)

Variable(c, d) ==
  LET s == c.sym[d] IN
  CASE s.class = "Num" -> Typed(Emit(c, <<Op["IMM"], s.val>>), INT)
    [] s.class = "Loc" -> Typed(Emit(c, <<Op["LEA"], c.loc - s.val, LoadOp(s.type)>>), s.type)
    [] s.class = "Glo" -> Typed(Emit(c, <<Op["IMM"], s.val, LoadOp(s.type)>>), s.type)
    [] OTHER -> Fail(c)

\* Both the prefix and the postfix operator: the load before e becomes a load
\* of a pushed address, and the changed value is stored through it.
Stepped(c, tk) ==
  IF ~Loaded(c) THEN Fail(c)
  ELSE [c EXCEPT !.e = Front(@) \o <<Op["PSH"], Last(@), Op["PSH"], Op["IMM"], StepSize(c.ty),
                        Op[IF tk = "++" THEN "ADD" ELSE "SUB"], StoreOp(c.ty)>>]

SizeOfType(c) ==
  LET base == Expect(Go(c), "(")
      t == Stars(IF Tk(base) \in {"int", "char"} THEN Go(base) ELSE base, BaseType(Tk(base)))
  IN  Typed(Emit(Expect(t, ")"), <<Op["IMM"], IF t.ty = CHAR THEN 1 ELSE WordSize>>), INT)

CastOrParens(c) ==
  IF Tk(c) \in {"int", "char"}
  THEN LET t == Stars(Go(c), BaseType(Tk(c))) IN Typed(Expr(Expect(t, ")"), Level["++"]), t.ty)
  ELSE Expect(Expr(c, Level["="]), ")")

Dereference(c) ==
  LET r == Expr(c, Level["++"]) IN
    IF r.ty <= INT THEN Fail(r)
    ELSE Typed(Emit(r, <<LoadOp(r.ty - PTR)>>), r.ty - PTR)

AddressOf(c) ==
  LET r == Expr(c, Level["++"]) IN
    IF ~Loaded(r) THEN Fail(r) ELSE [r EXCEPT !.e = Front(@), !.ty = @ + PTR]

\* ! is == 0 and ~ is ^ -1.
WithConstant(c, n, op) ==
  Typed(Emit(Expr(c, Level["++"]), <<Op["PSH"], Op["IMM"], n, Op[op]>>), INT)

Negate(c) ==
  IF Tk(c) = "Num" THEN Typed(Go(Emit(c, <<Op["IMM"], -Ival(c)>>)), INT)
  ELSE Typed(Emit(Expr(Emit(c, <<Op["IMM"], -1, Op["PSH"]>>), Level["++"]), <<Op["MUL"]>>), INT)

Operand(c) ==
  LET tk == Tk(c) n == Go(c) IN
  CASE tk = "Num" -> Typed(Emit(n, <<Op["IMM"], Ival(c)>>), INT)
    [] tk = "sizeof" -> SizeOfType(c)
    [] tk = "Id" -> IF Tk(n) = "(" THEN FunctionCall(n, Ival(c)) ELSE Variable(n, Ival(c))
    [] tk = "(" -> CastOrParens(n)
    [] tk = "*" -> Dereference(n)
    [] tk = "&" -> AddressOf(n)
    [] tk = "!" -> WithConstant(n, 0, "EQ")
    [] tk = "~" -> WithConstant(n, -1, "XOR")
    [] tk = "+" -> Typed(Expr(n, Level["++"]), INT)
    [] tk = "-" -> Negate(n)
    [] tk \in {"++", "--"} -> Stepped(Expr(n, Level["++"]), tk)
    [] OTHER -> Fail(c)

-----------------------------------------------------------------------------
(* expr: infix and postfix operators.  t is the type of the left operand,  *)
(* c is behind the operator.                                               *)

\* The right operand's level and the opcode of the operators without a case of
\* their own.
Binary ==
  "|" :> <<"^", "OR">> @@ "^" :> <<"&", "XOR">> @@ "&" :> <<"==", "AND">> @@
  "==" :> <<"<", "EQ">> @@ "!=" :> <<"<", "NE">> @@ "<" :> <<"<<", "LT">> @@
  ">" :> <<"<<", "GT">> @@ "<=" :> <<"<<", "LE">> @@ ">=" :> <<"<<", "GE">> @@
  "<<" :> <<"+", "SHL">> @@ ">>" :> <<"+", "SHR">> @@ "*" :> <<"++", "MUL">> @@
  "/" :> <<"++", "DIV">> @@ "%" :> <<"++", "MOD">>

Right(c, lev) == Expr(Emit(c, <<Op["PSH"]>>), Level[lev])
Scaled == <<Op["PSH"], Op["IMM"], WordSize, Op["MUL"]>>

\* Mutant: the right operand of - is a sum.
Subtract_Right(c, t) == Typed(Emit(Right(c, "+"), <<Op["SUB"]>>), t)
Subtract(c, t) ==
  LET r == Right(c, "*") IN
  CASE t > PTR /\ t = r.ty ->
         Typed(Emit(r, <<Op["SUB"], Op["PSH"], Op["IMM"], WordSize, Op["DIV"]>>), INT)
    [] t > PTR /\ t # r.ty -> Typed(Emit(r, Scaled \o <<Op["SUB"]>>), t)
    [] OTHER -> Typed(Emit(r, <<Op["SUB"]>>), t)

Addition(c, t) ==
  Typed(Emit(Right(c, "*"), (IF t > PTR THEN Scaled ELSE <<>>) \o <<Op["ADD"]>>), t)

Assignment(c, t) ==
  IF ~Loaded(c) THEN Fail(c)
  ELSE Typed(Emit(Expr([c EXCEPT !.e = Front(@) \o <<Op["PSH"]>>], Level["="]), <<StoreOp(t)>>), t)

Conditional(c) ==
  LET test == Emit(c, <<Op["BZ"], 0>>)
      yes == Expect(Expr(test, Level["="]), ":")
      skip == Emit(Patch(yes, Len(test.e), 3), <<Op["JMP"], 0>>)
      no == Expr(skip, Level["?"])
  IN  Patch(no, Len(skip.e), 1)

ShortCircuit(c, op, lev) ==
  LET test == Emit(c, <<Op[op], 0>>)
  IN  Typed(Patch(Expr(test, Level[lev]), Len(test.e), 1), INT)

PostStep(c, tk) ==
  LET s == Stepped(c, tk) IN
    Emit(s, <<Op["PSH"], Op["IMM"], StepSize(c.ty), Op[IF tk = "++" THEN "SUB" ELSE "ADD"]>>)

Subscript(c, t) ==
  LET r == Expect(Right(c, "="), "]") IN
    IF t < PTR THEN Fail(r)
    ELSE Typed(Emit(r, (IF t > PTR THEN Scaled ELSE <<>>) \o <<Op["ADD"], LoadOp(t - PTR)>>), t - PTR)

Infix(c) ==
  LET tk == Tk(c) n == Go(c) IN
  CASE tk = "=" -> Assignment(n, c.ty)
    [] tk = "?" -> Conditional(n)
    [] tk = "||" -> ShortCircuit(n, "BNZ", "&&")
    [] tk = "&&" -> ShortCircuit(n, "BZ", "|")
    [] tk \in DOMAIN Binary ->
         Typed(Emit(Right(n, Binary[tk][1]), <<Op[Binary[tk][2]]>>), INT)
    [] tk = "+" -> Addition(n, c.ty)
    [] tk = "-" -> Subtract(n, c.ty)
    [] tk \in {"++", "--"} -> PostStep(n, tk)
    [] tk = "[" -> Subscript(n, c.ty)

Climb(c, lev) ==
  IF c.ok /\ Tk(c) \in DOMAIN Level /\ Level[Tk(c)] >= lev THEN Climb(Infix(c), lev) ELSE c

Expr(c, lev) == IF c.ok THEN Climb(Operand(c), lev) ELSE c

-----------------------------------------------------------------------------
(* stmt *)
Test(c) ==
  LET t == Expect(Expr(Expect(c, "("), Level["="]), ")")
  IN  Emit(t, <<Op["BZ"], 0>>)

IfStmt(c) ==
  LET test == Test(c)
      yes == Stmt(test)
      skip == Emit(Patch(Go(yes), Len(test.e), 3), <<Op["JMP"], 0>>)
  IN  IF Tk(yes) = "else" THEN Patch(Stmt(skip), Len(skip.e), 1)
      ELSE Patch(yes, Len(test.e), 1)

WhileStmt(c) ==
  LET test == Test(c)
  IN  Patch(Emit(Stmt(test), <<Op["JMP"], Here(c, 1)>>), Len(test.e), 1)

ReturnStmt(c) ==
  LET r == IF Tk(c) = ";" THEN c ELSE Expr(c, Level["="])
  IN  Expect(Emit(r, <<Op["LEV"]>>), ";")

\* while (tk != '}') stmt(); and the '}'
StmtsTo(c) ==
  CASE ~c.ok -> c [] c.ok /\ Tk(c) = "}" -> Go(c) [] OTHER -> StmtsTo(Stmt(c))

Stmt(c) ==
  CASE ~c.ok -> c
    [] c.ok /\ Tk(c) = "if" -> IfStmt(Go(c))
    [] c.ok /\ Tk(c) = "while" -> WhileStmt(Go(c))
    [] c.ok /\ Tk(c) = "return" -> ReturnStmt(Go(c))
    [] c.ok /\ Tk(c) = "{" -> StmtsTo(Go(c))
    [] c.ok /\ Tk(c) = ";" -> Go(c)
    [] OTHER -> Expect(Expr(c, Level["="]), ";")

-----------------------------------------------------------------------------
(* partial_parse *)

\* A parameter or a local hides what its name meant: HClass, HType, HVal.
Hide(c, x, ty, val) ==
  IF c.sym[x].class = "Loc" THEN Fail(c)
  ELSE [c EXCEPT !.sym[x] = [class |-> "Loc", type |-> ty, val |-> val, hidden |-> @]]

\* Mutant: unwinding gives back the class and not the value.
Unwind_Class(c) ==
  [c EXCEPT !.sym = [x \in DOMAIN @ |->
     IF @[x].class = "Loc" THEN [@[x].hidden EXCEPT !.val = 0] ELSE @[x]]]
Unwind(c) ==
  [c EXCEPT !.sym = [x \in DOMAIN @ |-> IF @[x].class = "Loc" THEN @[x].hidden ELSE @[x]]]

RECURSIVE Params(_, _), Locals(_, _, _), LocalDecls(_, _), Enumerators(_, _),
          Declarators(_, _), Declarations(_)

Params(c, i) ==
  IF ~c.ok THEN c
  ELSE IF Tk(c) = ")" THEN [Go(c) EXCEPT !.n = i]
  ELSE LET b == IF Tk(c) \in {"int", "char"} THEN Go(c) ELSE c
           t == Stars(b, BaseType(Tk(c)))
       IN  IF Tk(t) # "Id" THEN Fail(t)
           ELSE Params(Optional(Go(Hide(t, Ival(t), t.ty, i)), ","), i + 1)

\* The names of one declaration, to its ';'.
Locals(c, bt, i) ==
  IF ~c.ok THEN c
  ELSE IF Tk(c) = ";" THEN [Go(c) EXCEPT !.n = i]
  ELSE LET t == Stars(c, bt) IN
       IF Tk(t) # "Id" THEN Fail(t)
       ELSE Locals(Optional(Go(Hide(t, Ival(t), t.ty, i + 1)), ","), bt, i + 1)

LocalDecls(c, i) ==
  IF c.ok /\ Tk(c) \in {"int", "char"}
  THEN LET d == Locals(Go(c), BaseType(Tk(c)), i) IN LocalDecls(d, d.n)
  ELSE [c EXCEPT !.n = i]

\* Behind the '(' of function f.
Function(c, f, ty) ==
  LET named == [c EXCEPT !.sym[f] = [class |-> "Fun", type |-> ty, val |-> Here(c, 1)]]
      ps == Params(named, 0)
      open == Expect(ps, "{")
      ls == LocalDecls([open EXCEPT !.loc = ps.n + 1], ps.n + 1)
      body == StmtsTo(Emit(ls, <<Op["ENT"], ls.n - ls.loc>>))
      \* tk is left at the '}', which ends the declarators as well
      ended == [Unwind(Emit(body, <<Op["LEV"]>>)) EXCEPT !.at = @ - 1]
  IN  IF body.ok THEN ended ELSE Fail(c)

GlobalVariable(c, x, ty) ==
  [c EXCEPT !.sym[x] = [class |-> "Glo", type |-> ty, val |-> c.data], !.data = @ + WordSize]

\* A variable's class and type are written to id once next() has read on: in
\* int a b; to those of b.
Declarators(c, bt) ==
  IF ~c.ok \/ Tk(c) \in {";", "}"} THEN Go(c)
  ELSE LET t == Stars(c, bt)
           x == Ival(t)
       IN  IF Tk(t) # "Id" THEN Fail(t)
           ELSE IF t.sym[x].class # "none" THEN Fail(t)
           ELSE LET n == Go(t)
                    id == IF Tk(n) = "Id" THEN Ival(n) ELSE x
                IN  Declarators(Optional(IF Tk(n) = "(" THEN Function(Go(n), x, t.ty)
                                         ELSE GlobalVariable(n, id, t.ty), ","), bt)

Constant(c, v) ==
  Optional([c EXCEPT !.sym[IdOf(c)] = [class |-> "Num", type |-> INT, val |-> v]], ",")

Enumerators(c, i) ==
  IF ~c.ok THEN c
  ELSE IF Tk(c) = "}" THEN Go(c)
  ELSE IF Tk(c) # "Id" THEN Fail(c)
  ELSE LET n == Go(c) IN
       IF Tk(n) # "=" THEN Enumerators(Constant(n, i), i + 1)
       ELSE IF Tk(Go(n)) # "Num" THEN Fail(n)
       ELSE Enumerators(Constant(Go(Go(n)), Ival(Go(n))), Ival(Go(n)) + 1)

EnumDecl(c) ==
  LET open == IF Tk(c) # "{" THEN Go(c) ELSE c IN
    IF Tk(open) = "{" THEN Enumerators(Go(open), 0) ELSE open

Declarations(c) ==
  IF ~c.ok \/ Tk(c) = "" THEN c
  ELSE LET d == CASE Tk(c) \in {"int", "char"} -> Go(c)
                  [] Tk(c) = "enum" -> EnumDecl(Go(c))
                  [] OTHER -> c
       IN  Declarations(Declarators(d, BaseType(Tk(c))))

\* parse(), with the library's exit among the names and e one word before the
\* first instruction.
Parse(tokens) ==
  LET names == {tokens[n][2] : n \in {m \in DOMAIN tokens : tokens[m][1] = "Id"}} \cup {"exit"}
      sym == [x \in names |-> IF x = "exit" THEN [class |-> "Sys", type |-> INT, val |-> Op["EXIT"]]
                              ELSE NoSymbol]
  IN  Declarations([in |-> tokens, at |-> 1, e |-> <<>>, ty |-> INT, n |-> 0, loc |-> 0,
                    sym |-> sym, data |-> DataBase, ok |-> TRUE])

=============================================================================
