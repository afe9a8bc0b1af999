------------------------------ MODULE MC_Scheme ------------------------------
(* The program on one command line after another: the unit tests, each      *)
(* sample as the operand of -e, files, and what parse_args makes of others. *)
EXTENDS SchemeMain, SchemeReader

LOCAL S == INSTANCE SchemeSamples
LOCAL R == INSTANCE SchemeReference

FileWords == {"file"}
Departing == DOMAIN S!Departing
Lost == DOMAIN S!Lost
TailRecursive == {"down", "parity"}

Answer(read) ==
  LET r == IF read.outcome = "read" THEN R!Session(<<read.cell>>)
           ELSE [world |-> [output |-> <<>>, ok |-> FALSE], cells |-> <<Nil>>]
  IN  [ok |-> r.world.ok, output |-> r.world.output, text |-> ToText(r.cells[1])]

\* TLC evaluates these once, and a definition that stands for a constant at
\* every use.
Texts == S!Programs @@ [w \in {"-e"} |-> w]
Readings == LET texts == Texts IN [w \in DOMAIN texts |-> Read(texts[w])]
Expected ==
  LET tests == S!UnitTests
  IN  [i \in DOMAIN tests |-> [tests[i] EXCEPT !.code = Read(@)]]
RECURSIVE Parts(_)
Parts(c) == {c} \cup UNION {Parts(c.list[i]) : i \in DOMAIN c.list}
Parsings ==
  LET read == {Readings[w] : w \in DOMAIN Texts}
              \cup {Expected[i].code : i \in DOMAIN S!UnitTests}
  IN  UNION {Parts(r.cell) : r \in {r \in read : r.outcome = "read"}}
Evaluations == LET read == Readings IN [w \in DOMAIN read |-> Answer(read[w])]

AllExpressions == Parsings
Sources == Readings
AllTests == Expected
Answers == Evaluations

CommandLines ==
  {<<"-e", w>> : w \in DOMAIN Texts \ FileWords}
  \cup {<<>>, <<"-t">>, <<"file">>, <<"-d", "file">>, <<"-h">>, <<"-e">>,
        <<"file", "-e", "down">>, <<"-e", "down", "file">>, <<"-e", "down", "-?">>}
ScopeLines == {<<"-e", w>> : w \in DOMAIN S!Good \ FileWords} \cup {<<"-e", "scopes">>}

=============================================================================
