---------------------------- MODULE SchemeCells -----------------------------
(***************************************************************************)
(* The values of the Scheme platform library: cells as scheme.h lays them  *)
(* out, and how C reads a number in one.                                   *)
(*                                                                         *)
(* A cell holds the cells of its list by value, as std::vector does, so a  *)
(* cell is a tree and a copy of it shares nothing.  An environment is a    *)
(* number, the shared_ptr of the code; 0 is the null pointer.  A string is *)
(* a sequence of characters, a character a string of length 1.             *)
(***************************************************************************)
EXTENDS Integers, Sequences, SequencesExt, TLC

Unset == "unset"        \* the proc member no constructor initialises

Cell(t, v, l, p) == [type |-> t, val |-> v, list |-> l, proc |-> p, env |-> 0]
Symbol(s) == Cell("Symbol", s, <<>>, Unset)
Number(s) == Cell("Number", s, <<>>, Unset)
List(cells) == Cell("List", "", cells, Unset)
Proc(p) == Cell("Proc", "", <<>>, p)

Nil == Symbol("nil")
False == Symbol("#f")
True == Symbol("#t")
Truth(b) == IF b THEN True ELSE False

\* cell::reset copies every member but proc.
Reset(src, dst) == [src EXCEPT !.proc = dst.proc]

IsList(c) == c.type \in {"List", "Lambda"}
IsEmpty(c) == IsList(c) => c.list = <<>>

-----------------------------------------------------------------------------
\* The character at i; behind the last one stands the 0 that ends a string.
Char(s, i) == IF i <= Len(s) THEN SubSeq(s, i, i) ELSE ""

DigitValue ==
  [d \in {"0", "1", "2", "3", "4", "5", "6", "7", "8", "9"} |->
     CHOOSE n \in 0 .. 9 : ToString(n) = d]
IsDigit(d) == d \in DOMAIN DigitValue

\* atol: the digits a text begins with, behind a sign.
Atol(s) ==
  LET sign == IF Char(s, 1) = "-" THEN 1 ELSE 0
      end == CHOOSE j \in sign .. Len(s) :
               /\ \A i \in sign + 1 .. j : IsDigit(Char(s, i))
               /\ ~IsDigit(Char(s, j + 1))
      n == FoldLeft(LAMBDA m, i : 10 * m + DigitValue[Char(s, i)], 0,
                    [i \in 1 .. end - sign |-> i + sign])
  IN  IF sign = 1 THEN -n ELSE n

\* C's division.
Quotient(m, n) ==
  LET q == (IF m < 0 THEN -m ELSE m) \div (IF n < 0 THEN -n ELSE n)
  IN  IF (m < 0) = (n < 0) THEN q ELSE -q

=============================================================================
