------------------------------ MODULE CSamples ------------------------------
(* The programs MC_StackMachine compiles and runs. *)
EXTENDS CGrammar

A == Var("a")
B == Var("b")
Is(x, y) == Bin("=", x, y)
IntVar(x) == <<IntType, x>>
Main(ls, ss) == Fun(IntType, "main", <<>>, ls, ss)

\* int main() { int a; int b; a = 5; b = 2; a = E + ...; } with what E does to a
\* and b in the exit code.
Evaluates(x) ==
  <<Main(<<IntVar("a"), IntVar("b"), IntVar("r")>>,
     <<Do(Is(A, Num(5))), Do(Is(B, Num(2))), Do(Is(Var("r"), x)),
       Return(Bin("+", Bin("*", Var("r"), Num(100)), Bin("+", Bin("*", A, Num(10)), B)))>>)>>

-----------------------------------------------------------------------------
(* Expressions: each operator below and beside each other one. *)
Infix == {"||", "&&", "|", "^", "&", "==", "!=", "<", ">", "<=", ">=", "<<", ">>",
          "+", "-", "*", "/", "%"}

Simple ==
  {Bin(o, A, B) : o \in Infix} \cup {Un(o, A) : o \in {"-", "+", "!", "~", "++", "--"}}
    \cup {Post("++", A), Post("--", A), Is(A, B), Is(A, Num(0)), Cond(A, B, Num(7)),
          Cond(Is(A, Num(0)), B, Num(7)), Un("*", Un("&", A)), Num(3), Un("-", Num(3))}

Shifts == {"<<", ">>"}
Compound ==
  {Bin(o, x, B) : o \in Infix, x \in Simple}
    \cup {Bin(o, B, x) : o \in Infix \ (Shifts \cup {"/", "%"}), x \in Simple}
    \cup {Bin("/", B, x) : x \in {Bin("+", A, B), Bin("*", A, B), Un("-", A), Num(3)}}
    \cup {Is(B, x) : x \in Simple} \cup {Un(o, x) : o \in {"-", "!", "~"}, x \in Simple}
    \cup {Cond(x, Is(A, Num(1)), Is(B, Num(1))) : x \in Simple}
    \cup {Cond(A, x, x) : x \in Simple} \cup {Cond(Num(0), B, x) : x \in Simple}
    \cup {Cond(x, A, Cond(B, x, A)) : x \in Simple}

-----------------------------------------------------------------------------
(* Statements, between a = 0; b = 0; and return a * 10 + b; *)
Runs(s) ==
  <<Main(<<IntVar("a"), IntVar("b")>>,
     <<Do(Is(A, Num(0))), Do(Is(B, Num(0))), s,
       Return(Bin("+", Bin("*", A, Num(10)), B))>>)>>

Effects == {Do(Post("++", A)), Do(Is(B, Bin("+", A, Num(1)))), Block(<<>>),
            If(A, Do(Is(B, Num(7)))), IfElse(B, Do(Is(A, Num(3))), Do(Post("--", B))),
            While(Bin("<", B, Num(2)), Do(Un("++", B))), Return(Num(9)),
            Exit(Bin("+", A, Num(8)))}

Statements ==
  {If(A, s) : s \in Effects}
    \cup {IfElse(Post("++", A), s, z) : s \in Effects, z \in Effects}
    \cup {Block(<<s, z>>) : s \in Effects, z \in Effects}
    \cup {While(Bin("<", Post("++", A), Num(3)), s) : s \in Effects \ {IfElse(B, Do(Is(A, Num(3))), Do(Post("--", B)))}}
    \cup {If(Un("!", A), If(B, s)) : s \in Effects}
    \cup {If(c, IfElse(B, Do(Is(A, Num(3))), s)) : c \in {Num(0), Num(1)}, s \in Effects}

-----------------------------------------------------------------------------
(* Functions, scopes and types *)
Fib == Fun(IntType, "fib", <<IntVar("n")>>, <<>>,
         <<If(Bin("<", Var("n"), Num(2)), Return(Var("n"))),
           Return(Bin("+", Call("fib", <<Bin("-", Var("n"), Num(1))>>),
                           Call("fib", <<Bin("-", Var("n"), Num(2))>>)))>>)

\* The order of the arguments, and parameters that hide a global and a function.
Minus == Fun(IntType, "minus", <<IntVar("a"), IntVar("fib")>>, <<IntVar("g")>>,
           <<Do(Is(Var("g"), Bin("-", A, Var("fib")))), Return(Var("g"))>>)
Sets == Fun(IntType, "sets", <<<<<<"int", 1>>, "p">>, IntVar("v")>>, <<>>,
          <<Do(Is(Un("*", Var("p")), Var("v"))), Return(Post("++", Var("g")))>>)
G == Global(IntType, "g")
P == Var("p")
Byte == <<"char", 0>>
Pointer == <<"int", 1>>
MainOf(ls, ss) == <<G, Fib, Minus, Sets, Main(ls, ss)>>

Functions ==
  {MainOf(<<>>, <<Return(x)>>) : x \in
     {Call("fib", <<Num(5)>>),
      Call("minus", <<Num(9), Num(4)>>),
      Call("minus", <<Call("fib", <<Num(4)>>), Call("minus", <<Num(7), Num(1)>>)>>),
      Bin("-", Bin("-", Num(20), Call("fib", <<Num(4)>>)), Call("minus", <<Num(5), Num(3)>>)),
      Bin("+", Call("sets", <<Un("&", Var("g")), Num(6)>>), Var("g")),
      Cond(Call("fib", <<Num(0)>>), Num(1), Call("fib", <<Num(3)>>)),
      Bin("&&", Call("fib", <<Num(1)>>), Bin("||", Call("fib", <<Num(0)>>), Call("fib", <<Num(4)>>)))}}
  \cup
  {MainOf(<<IntVar("a"), <<Pointer, "p">>>>,
          <<Do(Is(A, Num(5))), Do(Is(P, Un("&", A))), Do(x),
            While(Bin("<", Var("g"), Num(2)), Do(Call("sets", <<Un("&", A), Var("g")>>))),
            Return(Bin("+", Bin("*", A, Num(10)), Var("g")))>>) : x \in
     {Is(Un("*", P), Num(3)),
      Is(Var("g"), Bin("-", Bin("+", P, Num(2)), P)),
      Is(Var("g"), Bin("-", Cast(IntType, Bin("+", P, Num(2))), Cast(IntType, P))),
      Is(Var("g"), Bin("-", Cast(IntType, Bin("-", P, Num(1))), Cast(IntType, P))),
      Is(Index(Un("&", Var("g")), Num(0)), Num(4)),
      Is(Var("g"), Un("*", Post("++", P))),
      Is(Var("g"), Bin("+", Post("++", Un("*", P)), Index(P, Num(0)))),
      Is(Var("g"), Bin("-", Un("++", P), Un("&", A))),
      Call("sets", <<P, Call("sets", <<P, Num(8)>>)>>),
      Is(Var("g"), Bin("+", Size(Byte), Bin("*", Num(10), Size(<<"char", 1>>))))}}
  \cup
  {<<Enum(<<<<"X">>, <<"Y", 5>>, <<"Z">>>>), Global(Byte, "k"),
     Main(<<<<Byte, "c">>, IntVar("a")>>,
       <<Do(Is(Var("c"), n)), Do(Is(Var("k"), Bin("+", Var("c"), Var("Z")))),
         Do(Is(A, Post("--", Var("k")))),
         Return(Bin("+", Bin("*", Var("X"), Num(9)), Bin("+", A, Bin("*", Var("Y"), Var("k")))))>>)>>
     : n \in {Num(1), Num(125), Num(300), Un("-", Num(2))}}
  \cup
  {<<Fun(IntType, "main", <<IntVar("argc"), <<<<"char", 2>>, "argv">>>>, <<>>,
       <<Return(Bin("-", Cast(IntType, Var("argv")), Var("argc")))>>)>>,
   <<G, Fun(IntType, "set", <<IntVar("g")>>, <<>>, <<Do(Is(Var("g"), Num(4))), Return(Var("g"))>>),
     Main(<<IntVar("a")>>,
       <<Do(Is(Var("g"), Num(1))), Do(Is(A, Call("set", <<Num(2)>>))),
         Return(Bin("+", Var("g"), Bin("*", A, Num(10))))>>)>>}

Samples == {Evaluates(x) : x \in Compound} \cup {Runs(s) : s \in Statements} \cup Functions

-----------------------------------------------------------------------------
(* What has no meaning. *)
Messages ==
  {Evaluates(x) : x \in
     {Is(Num(8), A), Is(Bin("+", A, B), A), Un("&", Num(8)), Un("++", Bin("*", A, B)),
      Post("--", Call("main", <<>>)), Un("*", A), Var("nowhere"), Index(A, B),
      Call("a", <<>>), Call("later", <<>>), Is(Un("-", A), B)}}
  \cup
  {<<G, G, Main(<<>>, <<Return(Num(1))>>)>>,
   <<G, Fun(IntType, "g", <<>>, <<>>, <<Return(Num(1))>>), Main(<<>>, <<Return(Num(1))>>)>>,
   <<Fun(IntType, "f", <<IntVar("a")>>, <<IntVar("a")>>, <<>>), Main(<<>>, <<Return(Num(1))>>)>>,
   <<Fun(IntType, "f", <<IntVar("a"), IntVar("a")>>, <<>>, <<>>), Main(<<>>, <<Return(Num(1))>>)>>,
   <<Enum(<<<<"X", 1>>>>), Evaluates(Is(Var("X"), A))[1]>>}

Undefineds ==
  {Evaluates(Bin("/", A, Bin("-", B, Num(2)))), Evaluates(Un("*", Cast(<<"int", 1>>, Num(0)))),
   <<Fun(IntType, "f", <<>>, <<>>, <<Return(Call("f", <<>>))>>),
     Main(<<>>, <<Return(Call("f", <<>>))>>)>>}

-----------------------------------------------------------------------------
(* Texts, some of which are no programs. *)
Nine == <<"Num", 9>>
Words == {Nine, Id("a")}
InMain(body) == <<T("int"), Id("main"), T("("), T(")"), T("{")>> \o body \o <<T("}")>>
Expression(x) == InMain(<<T("int"), Id("a"), T(";")>> \o x \o <<T(";")>>)

\* All that can be written with a few words, and the operators whose right operands
\* are apart.
Short ==
  UNION {[1 .. n -> Words \cup {T(o) : o \in {"(", ")", "+", "++", "="}}] : n \in 1 .. 5}
Alternating ==
  {<<x, T(o), y, T(p), z, T(q), w>> :
     x, y, z, w \in Words, o, p, q \in {"=", "?", ":", "+", "&&"}}
Bracketed ==
  {<<T("("), x, T(o), y, T(p), z, T(")"), T("="), w>> :
     x, y, z, w \in Words, o, p \in {"=", "?", ":"}}

\* A program with all kinds of brackets and separators, each of them left out once.
\* A comma need not be there.
Whole ==
  Tokens(<<Enum(<<<<"X">>, <<"Y", 5>>>>), G,
    Fun(IntType, "f", <<IntVar("a"), IntVar("b")>>, <<IntVar("c")>>,
      <<If(A, Block(<<Do(Is(A, Bin("*", Bin("+", A, B), Var("Y"))))>>)), Return(A)>>),
    Main(<<<<Pointer, "p">>>>,
      <<Do(Is(P, Un("&", Var("g")))),
        While(Bin("<", Index(P, Num(0)), Num(9)),
              Do(Is(Var("g"), Cond(Var("g"), Call("f", <<Num(1), Var("g")>>), Size(Byte))))),
        IfElse(P, Return(Cast(IntType, P)), Block(<<>>)), Do(Num(0))>>)>>)
Without(S) == {RemoveAt(Whole, n) : n \in {n \in DOMAIN Whole : Whole[n] \in {T(k) : k \in S}}}

\* Declarations: of locals the commas may be missing, of globals in front of a *.
Declares(given) ==
  {InMain(<<T("int"), Id("a")>> \o given \o <<Id("b"), T(";")>>),
   <<T("int"), Id("a")>> \o given \o <<Id("b"), T(";")>> \o InMain(<<>>)}
Juxtaposed ==
  {InMain(<<T("int"), Id("a"), Id("b"), T(";")>>),
   <<T("int"), Id("a"), T("*"), Id("b"), T(";")>> \o InMain(<<>>)}
\* The bracket that closes a block is passed over behind the end of a function.
Unopened == InMain(<<T("}")>>)

PhraseTexts ==
  {Expression(x) : x \in Short \cup Alternating \cup Bracketed} \cup {Whole, Unopened}
    \cup Without({"(", ")", "{", "}", "[", "]", ";", ":", ","})
    \cup Declares(<<>>) \cup Declares(<<T(",")>>) \cup Declares(<<T("*")>>)
DerivedTexts ==
  {Expression(x) : x \in Expressions(Words, {"(", "+", "++", "="}, 5)
                           \cup Expressions(Words, {"=", "?", "+", "&&"}, 7)
                           \cup Expressions(Words, {"(", "=", "?"}, 9)}
    \cup {Whole, Unopened} \cup Without({","})
    \cup Declares(<<T(",")>>) \cup Juxtaposed \cup {InMain(<<T("int"), Id("a"), T("*"), Id("b"), T(";")>>)}

=============================================================================
