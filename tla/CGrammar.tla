------------------------------ MODULE CGrammar ------------------------------
(***************************************************************************)
(* Reference for what the compiler accepts: the expressions that the       *)
(* grammar of C derives, built up by length.                               *)
(*                                                                         *)
(* A phrase is a text and whether it may stand where a variable is changed.*)
(* In C an identifier may, and what is in parentheses if it may without    *)
(* them.  core/c4.c asks whether the last word emitted is LI or LC (445),  *)
(* so that four more may, each marked here: the number 9, which is LI; a   *)
(* place behind a +; and && and ?: that end in a place.                    *)
(***************************************************************************)
EXTENDS CProgram

Phrase(text, place) == [text |-> text, place |-> place]
Places(S) == {x \in S : x.place}

\* The phrases, of each sort, one token longer than the last of shorter, over
\* the names and numbers words and the operators ops.
Phrases(words, ops, shorter) ==
  LET n == Len(shorter) + 1
      of(sort, m) == IF m \in DOMAIN shorter THEN shorter[m][sort] ELSE {}
      joined(left, o, right) ==
        IF o \notin ops THEN {}
        ELSE UNION {{[l |-> x, r |-> y, text |-> x.text \o <<T(o)>> \o y.text] :
                       x \in of(left, i), y \in of(right, n - 1 - i)} : i \in 1 .. n - 2}
      prefixed(o) == IF o \notin ops THEN {}
                     ELSE {Phrase(<<T(o)>> \o x.text, x.place) : x \in of("unary", n - 1)}
      stepped(S) == IF "++" \in ops THEN Places(S) ELSE {}
      primary ==
        (IF n = 1 THEN {Phrase(<<w>>, TRUE) : w \in words}             \* 9 among them
         ELSE {}) \cup
        (IF "(" \notin ops THEN {}
         ELSE {Phrase(<<T("(")>> \o x.text \o <<T(")")>>, x.place) : x \in of("assign", n - 2)})
      postfix == primary \cup
        {Phrase(Append(x.text, T("++")), FALSE) : x \in stepped(of("postfix", n - 1))}
      unary == postfix \cup prefixed("+") \cup                         \* + a = 9
        {Phrase(<<T("++")>> \o x.text, FALSE) : x \in stepped(of("unary", n - 1))}
      sum == unary \cup {Phrase(x.text, FALSE) : x \in joined("sum", "+", "unary")}
      and == sum \cup
        {Phrase(x.text, x.r.place) : x \in joined("and", "&&", "sum")} \* a && a = 9
      cond == and \cup                                                 \* a ? a : a = 9
        UNION {{Phrase(x.text \o <<T("?")>> \o y.text \o <<T(":")>> \o z.text, z.place) :
                  x \in of("and", i), y \in of("assign", j), z \in of("cond", n - 2 - i - j)} :
               i \in 1 .. n, j \in IF "?" \in ops THEN 1 .. n ELSE {}}
      assign == cond \cup {Phrase(x.text, FALSE) : x \in {x \in joined("cond", "=", "assign") : x.l.place}}
  IN  [primary |-> primary, postfix |-> postfix, unary |-> unary, sum |-> sum,
       and |-> and, cond |-> cond, assign |-> assign]

\* The texts of expressions up to a length.
Expressions(words, ops, length) ==
  LET all == FoldLeft(LAMBDA shorter, n : Append(shorter, Phrases(words, ops, shorter)),
                      <<>>, [n \in 1 .. length |-> n])
  IN  UNION {{x.text : x \in all[n].assign} : n \in 1 .. length}

=============================================================================
