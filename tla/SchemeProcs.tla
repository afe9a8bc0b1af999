---------------------------- MODULE SchemeProcs -----------------------------
(***************************************************************************)
(* The built-in procedures of scheme_internal.cpp, 252-385, and the names  *)
(* of an environment.  Defined says when the C++ of a procedure stays      *)
(* inside its arguments; Result is what it then returns.                   *)
(*                                                                         *)
(* Same is operator== of two cells, which recurses over their lists:       *)
(* SchemeReader's SameCell.                                                *)
(***************************************************************************)
EXTENDS SchemeCells

CONSTANT Same(_, _)

Primitives ==
  {"append", "head", "tail", "cons", "length", "list", "null?", "+", "-", "*",
   "/", ">", "<", "<=", "=", "!=", "print"}

Defined(p, args) ==
  CASE p \in {"*", "list", "=", "!=", "print"} -> TRUE
    [] p \in {"+", "-", ">", "<", "<=", "length", "null?", "tail"} -> args # <<>>
    [] p = "/" -> args # <<>> /\ \A i \in 2 .. Len(args) : Atol(args[i].val) # 0
    [] p = "head" -> args # <<>> /\ args[1].list # <<>>
    [] p \in {"append", "cons"} -> Len(args) >= 2
    [] OTHER -> FALSE

Arithmetic(p, m, n) ==
  CASE p = "+" -> m + n [] p = "-" -> m - n [] p = "*" -> m * n
    [] p = "/" -> Quotient(m, n)
Compares(p, m, n) ==
  CASE p = ">" -> m > n [] p = "<" -> m < n [] p = "<=" -> m <= n

\* The first number combined with the others, or 1 with all of them.
Combined(p, args) ==
  LET terms == IF p = "*" THEN <<Number("1")>> \o args ELSE args
      total[i \in 1 .. Len(terms)] ==
        IF i = 1 THEN Atol(terms[1].val)
        ELSE Arithmetic(p, total[i - 1], Atol(terms[i].val))
  IN  Number(ToString(total[Len(terms)]))
\* The first number compared with each of the others.
ComparesAll(p, args) ==
  \A i \in 2 .. Len(args) : Compares(p, Atol(args[1].val), Atol(args[i].val))
AllSame(args) ==
  args # <<>> /\ \A i \in 2 .. Len(args) : Same(args[1], args[i])

\* proc_tail keeps the type of its argument.
TailOf(c) == IF Len(c.list) < 2 THEN Nil ELSE [c EXCEPT !.list = Tail(@)]

Result(p, args) ==
  CASE p \in {"+", "-", "*", "/"} -> Combined(p, args)
    [] p \in {">", "<", "<="} -> Truth(ComparesAll(p, args))
    [] p = "="  -> Truth(AllSame(args))
    [] p = "!=" -> Truth(~AllSame(args))
    [] p = "length" -> Number(ToString(Len(args[1].list)))
    [] p = "null?"  -> Truth(args[1].list = <<>>)
    [] p = "head"   -> args[1].list[1]
    [] p = "tail"   -> TailOf(args[1])
    [] p = "append" -> List(args[1].list \o args[2].list)
    [] p = "cons"   -> List(<<args[1]>> \o args[2].list)
    [] p = "list"   -> List(args)
    [] p = "print"  -> Nil

\* add_globals: the names of a fresh environment.
Globals ==
  [n \in Primitives \cup {"nil", "#f", "#t"} |->
     IF n \in Primitives THEN Proc(n) ELSE Symbol(n)]

\* environment(parms, args, outer): parameter names are bound in order, and
\* arguments beyond them ignored.  It reads an argument for every name.
Bindings(parms, args) ==
  [n \in {parms[i].val : i \in DOMAIN parms} |->
     args[Max({i \in DOMAIN parms : parms[i].val = n})]]

=============================================================================
