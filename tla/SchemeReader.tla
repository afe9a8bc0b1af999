---------------------------- MODULE SchemeReader ----------------------------
(***************************************************************************)
(* The text side of scheme_internal.cpp: tokenize, atom, read_from and     *)
(* to_string (551-643), and l4_tokenize of scheme.c (311-333); and         *)
(* operator== of scheme.h, which like them recurses over a cell's tree.    *)
(***************************************************************************)
EXTENDS SchemeCells

Open == "("
Close == ")"
Parens == {Open, Close}

\* Each round of the loop skips blanks and takes a token: a parenthesis, or
\* what reaches to the next blank or parenthesis.
Begins(s, i, blanks) ==
  /\ Char(s, i) \notin blanks
  /\ i = 1 \/ Char(s, i) \in Parens \/ Char(s, i - 1) \in blanks \cup Parens
TokenAt(s, i, blanks) ==
  IF Char(s, i) \in Parens THEN Char(s, i)
  ELSE LET end == CHOOSE j \in i .. Len(s) :
                    /\ j = Len(s) \/ Char(s, j + 1) \in blanks \cup Parens
                    /\ \A k \in i .. j : Char(s, k) \notin blanks \cup Parens
       IN  SubSeq(s, i, end)

\* Behind the last blanks of a text the loop takes an empty token.
TokensOf(s, blanks) ==
  LET begins == SelectSeq([i \in 1 .. Len(s) |-> i],
                          LAMBDA i : Begins(s, i, blanks))
  IN  [n \in DOMAIN begins |-> TokenAt(s, begins[n], blanks)]
      \o (IF s # "" /\ Char(s, Len(s)) \in blanks THEN <<"">> ELSE <<>>)

Spaces == {" ", "\t", "\n"}     \* isspace
tokenize(s) == TokensOf(s, Spaces)
l4_tokenize(s) == TokensOf(s, {" "})

\* Numbers begin with a digit or a minus and a digit.
Atom(t) ==
  IF IsDigit(Char(t, 1)) \/ (Char(t, 1) = "-" /\ IsDigit(Char(t, 2)))
  THEN Number(t) ELSE Symbol(t)

\* The lists open behind token i, one for each call of read_from around it.
Depth(tokens, i) ==
  Cardinality({j \in 1 .. i : tokens[j] = Open})
  - Cardinality({j \in 1 .. i : tokens[j] = Close})
\* The parentheses that close the list opened at i: the first is its own.
Closing(depth, i) == {j \in i + 1 .. Len(depth) : depth[j] < depth[i]}

\* read_from at token i: a list of what it reads behind the "(", or an atom.
RECURSIVE CellAtToken(_, _, _)
CellAtToken(tokens, depth, i) ==
  IF tokens[i] # Open THEN Atom(tokens[i])
  ELSE LET own == Min(Closing(depth, i))
           elements == SelectSeq([k \in 1 .. own - i - 1 |-> i + k],
                         LAMBDA j : depth[j] = depth[i] + (IF tokens[j] = Open THEN 1 ELSE 0)
                                    /\ tokens[j] # Close)
       IN  List([k \in DOMAIN elements |-> CellAtToken(tokens, depth, elements[k])])

\* "read" with the cell, "failed" when read_from threw at the end of the
\* tokens, or "undefined": behind a "(" the first token is taken unchecked.
\* Tokens behind the cell are not read, and a ")" with no list open is an atom.
ReadFrom(tokens) ==
  LET depth == [i \in DOMAIN tokens |-> Depth(tokens, i)]
      ends == tokens # <<>> /\ (tokens[1] = Open => Closing(depth, 1) # {})
  IN  CASE ends -> [outcome |-> "read", cell |-> CellAtToken(tokens, depth, 1)]
        [] ~ends /\ tokens # <<>> /\ Last(tokens) = Open ->
             [outcome |-> "undefined", cell |-> Nil]
        [] OTHER -> [outcome |-> "failed", cell |-> Nil]
Read(s) == ReadFrom(tokenize(s))

\* to_string erases one blank at the end of a list.
RECURSIVE ToText(_)
ToText(c) ==
  CASE c.type = "Lambda" -> "<Lambda>"
    [] c.type = "Proc" -> "<Proc>"
    [] c.type = "List" ->
         LET s == FoldLeft(LAMBDA t, d : t \o ToText(d) \o " ", "(", c.list)
         IN  (IF Char(s, Len(s)) = " " THEN SubSeq(s, 1, Len(s) - 1) ELSE s) \o ")"
    [] OTHER -> c.val

\* operator== of two cells.
RECURSIVE SameCell(_, _)
SameCell(a, b) ==
  /\ a.type = b.type
  /\ CASE a.type \in {"Symbol", "Number"} -> a.val = b.val
       [] a.type = "Proc" -> a.proc = b.proc
       [] OTHER ->
            /\ Len(a.list) = Len(b.list)
            /\ \A i \in DOMAIN a.list : SameCell(a.list[i], b.list[i])
            /\ a.type = "Lambda" => a.env = b.env

=============================================================================
