-------------------------- MODULE SchemeReference ---------------------------
(***************************************************************************)
(* The eval of scheme_internal.cpp (479-545), which the platform library   *)
(* keeps, behind an #if false, as the "reference implementation" its C     *)
(* client was written from.  It passes cells by value and has no pointers: *)
(* an expression, a closure and an operator are what they were when they   *)
(* were evaluated.                                                         *)
(*                                                                         *)
(* w is the world a call of eval changes: the environments made so far,    *)
(* the words print has written, and ok, which falls when the program would *)
(* stop with a message or leave what C++ defines.                          *)
(***************************************************************************)
EXTENDS SchemeProcs

Fresh == [envs |-> <<[outer |-> 0, vars |-> Globals]>>, output |-> <<>>, ok |-> TRUE]

Returned(w, c) == [world |-> w, cell |-> c]
Stopped(w) == Returned([w EXCEPT !.ok = FALSE], Nil)

\* The innermost environment where the name appears, 0 if there is none.
RECURSIVE Find(_, _, _)
Find(envs, e, name) ==
  IF e = 0 \/ name \in DOMAIN envs[e].vars THEN e
  ELSE Find(envs, envs[e].outer, name)

Assign(w, e, name, c) ==
  [w EXCEPT !.envs[e].vars = (name :> c) @@ @]

RECURSIVE Eval(_, _, _), EvalEach(_, _, _, _), Apply(_, _, _)

\* The values of a sequence of expressions, in order.
EvalEach(xs, e, w, values) ==
  IF xs = <<>> \/ ~w.ok THEN [world |-> w, cells |-> values]
  ELSE LET r == Eval(Head(xs), e, w)
       IN  EvalEach(Tail(xs), e, r.world, Append(values, r.cell))

Apply(p, args, w) ==
  CASE p.type = "Lambda" /\ Len(p.list) >= 3 /\ Len(args) >= Len(p.list[2].list) ->
         LET envs == Append(w.envs, [outer |-> p.env,
                                     vars |-> Bindings(p.list[2].list, args)])
         IN  Eval(p.list[3], Len(envs), [w EXCEPT !.envs = envs])
    [] p.type = "Proc" /\ Defined(p.proc, args) ->
         Returned(IF p.proc = "print" THEN [w EXCEPT !.output = Append(@, args)] ELSE w,
                  Result(p.proc, args))
    [] OTHER -> Stopped(w)

EvalCall(x, e, w) ==
  LET operator == Eval(x.list[1], e, w)
      operands == EvalEach(Tail(x.list), e, operator.world, <<>>)
  IN  IF operands.world.ok
      THEN Apply(operator.cell, operands.cells, operands.world)
      ELSE Stopped(operands.world)

EvalIf(x, e, w) ==
  LET test == Eval(x.list[2], e, w)
  IN  IF ~test.world.ok THEN test
      ELSE Eval(IF ~(test.cell.type = "Symbol" /\ test.cell.val = "#f") THEN x.list[3]
                ELSE IF Len(x.list) < 4 THEN Nil ELSE x.list[4], e, test.world)

\* set! assigns where the name appears, define in the innermost environment.
EvalAssign(x, e, w) ==
  LET value == Eval(x.list[3], e, w)
      name == x.list[2].val
      where == IF x.list[1].val = "define" THEN e ELSE Find(value.world.envs, e, name)
  IN  IF ~value.world.ok \/ where = 0 THEN Stopped(value.world)
      ELSE Returned(Assign(value.world, where, name, value.cell), value.cell)

EvalBegin(x, e, w) ==
  LET r == EvalEach(Tail(x.list), e, w, <<>>)
  IN  IF r.world.ok THEN Returned(r.world, Last(r.cells)) ELSE Stopped(r.world)

Least == [w \in {"quote", "begin"} |-> 2]
         @@ [w \in {"if", "set!", "define", "lambda"} |-> 3]

Eval(x, e, w) ==
  CASE ~w.ok -> Returned(w, Nil)
    [] w.ok /\ x.type = "Number" -> Returned(w, x)
    [] w.ok /\ x.type = "Symbol" ->
         LET found == Find(w.envs, e, x.val)
         IN  IF found = 0 THEN Stopped(w) ELSE Returned(w, w.envs[found].vars[x.val])
    [] w.ok /\ x.type \notin {"Number", "Symbol"} /\ x.list = <<>> -> Returned(w, Nil)
    [] OTHER ->
         LET word == IF x.list[1].type = "Symbol" THEN x.list[1].val ELSE ""
         IN  CASE word \notin DOMAIN Least -> EvalCall(x, e, w)
               [] word \in DOMAIN Least /\ Len(x.list) < Least[word] -> Stopped(w)
               [] OTHER ->
                    CASE word = "quote" -> Returned(w, x.list[2])
                      [] word = "if" -> EvalIf(x, e, w)
                      [] word \in {"set!", "define"} -> EvalAssign(x, e, w)
                      [] word = "lambda" ->
                           Returned(w, [x EXCEPT !.type = "Lambda", !.env = e])
                      [] word = "begin" -> EvalBegin(x, e, w)

\* The cells of a sequence of expressions typed one after the other.
Session(xs) == EvalEach(xs, 1, Fresh, <<>>)

=============================================================================
