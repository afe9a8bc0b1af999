------------------------------- MODULE CLexer --------------------------------
(***************************************************************************)
(* The characters of a C program: next of c4.c (232-355), called until it  *)
(* returns 0, and my_atoi (208-229), which reads the numbers of the        *)
(* command line.  A symbol is the stretch of text it names, and the        *)
(* code points kept for -s are left out.                                   *)
(***************************************************************************)
EXTENDS Integers, Sequences, SequencesExt, TLC

CONSTANT Texts

Digits == {"0", "1", "2", "3", "4", "5", "6", "7", "8", "9"}
OctalDigits == Digits \ {"8", "9"}
Lower == {"a", "b", "c", "d", "e", "f", "g", "h", "i", "j", "k", "l", "m",
          "n", "o", "p", "q", "r", "s", "t", "u", "v", "w", "x", "y", "z"}
Upper == {"A", "B", "C", "D", "E", "F", "G", "H", "I", "J", "K", "L", "M",
          "N", "O", "P", "Q", "R", "S", "T", "U", "V", "W", "X", "Y", "Z"}
Letters == Lower \cup Upper \cup {"_"}
HexLetters == {"a", "b", "c", "d", "e", "f", "A", "B", "C", "D", "E", "F"}
HexDigits == Digits \cup HexLetters
Singles == {"=", "+", "-", "!", "<", ">", "|", "&", "^", "%", "*", "[", "?", "~",
            ";", "{", "}", "(", ")", "]", ",", ":", "/"}
Doubles == {<<"=", "=">>, <<"+", "+">>, <<"-", "-">>, <<"!", "=">>, <<"<", "=">>,
            <<"<", "<">>, <<">", "=">>, <<">", ">">>, <<"|", "|">>, <<"&", "&">>}
Quotes == {"'", "\""}

Nul == "NUL"      \* the 0 that ends a string

\* ASCII but for the backquote, which no string of TLA+ holds: the characters
\* of a string have the codes from first on.
CharsOf(string) == {SubSeq(string, i, i) : i \in 1 .. Len(string)}
Codes(string, first) ==
  [c \in CharsOf(string) |->
     first - 1 + CHOOSE i \in 1 .. Len(string) : SubSeq(string, i, i) = c]
Code ==
  Codes(" !\"#$%&'()*+,-./0123456789:;<=>?@ABCDEFGHIJKLMNOPQRSTUVWXYZ[\\]^_", 32)
  @@ Codes("abcdefghijklmnopqrstuvwxyz{|}~", 97)
  @@ (Nul :> 0) @@ ("\t" :> 9) @@ ("\n" :> 10) @@ ("\f" :> 12) @@ ("\r" :> 13)
Escape(c) == CASE c = "n" -> 10 [] c = "t" -> 9 [] c = "r" -> 13 [] c = "0" -> 0
               [] OTHER -> Code[c]
DigitValue ==
  [c \in HexDigits |->
     IF c \in Digits THEN Code[c] - 48 ELSE (Code[c] % 16) + 9]

\* A text is a sequence of characters; behind the last one stands the 0.
Characters == DOMAIN Code \ {Nul}
Char(w, i) == IF i <= Len(w) THEN w[i] ELSE Nul
ASSUME TextsAssumption == \A w \in Texts : w \in Seq(Characters)

\* Where ASCII has the digits and the letters of hexadecimal ones.
ASSUME CodeAssumption ==
  /\ Code["0"] = 48 /\ \A c \in Digits \ {"0"} : Code[c] \in 49 .. 57
  /\ \A c \in HexLetters : Code[c] \in (65 .. 70) \cup (97 .. 102)

VARIABLES text, p, line, tokens, place, start, ival, negative, quote
vars == <<text, p, line, tokens, place, start, ival, negative, quote>>

Init ==
  /\ text \in Texts
  /\ p = 1 /\ line = 1 /\ tokens = <<>> /\ place = "next"
  /\ start = 1 /\ ival = 0 /\ negative = FALSE /\ quote = Nul

C == Char(text, p)
D == Char(text, p + 1)
At(where) == place = where /\ p <= Len(text) + 1
AtToken(chars) == At("next") /\ C \in chars

\* next returns the token that began at start; the following call begins at q.
Token(tk, value, from, to) == [tk |-> tk, ival |-> value, at |-> from, end |-> to]
Emit(tk, value, from, q) ==
  tokens' = Append(tokens, Token(tk, value, from, q)) /\ p' = q /\ place' = "next"
Go(where, n) == place' = where /\ p' = p + n
same == <<text, line, tokens, start, ival, negative, quote>>

\* Newlines are counted; blanks, and every character no branch is for, skipped.
Newline ==
  /\ AtToken({"\n"}) /\ line' = line + 1 /\ Go("next", 1)
  /\ UNCHANGED <<text, tokens, start, ival, negative, quote>>
Ignored ==
  /\ At("next") /\ C \notin Singles \cup Quotes \cup Letters \cup Digits \cup {Nul, "\n", "#"}
  /\ Go("next", 1) /\ UNCHANGED same
Directive == AtToken({"#"}) /\ Go("line", 1) /\ UNCHANGED same
LineComment == AtToken({"/"}) /\ D = "/" /\ Go("line", 2) /\ UNCHANGED same
RestOfLine == At("line") /\ C \notin {Nul, "\n"} /\ Go("line", 1) /\ UNCHANGED same
LineEnds == At("line") /\ C \in {Nul, "\n"} /\ Go("next", 0) /\ UNCHANGED same

\* Mutant: a comment ends at its first star.
Closes_Star == C = "*"
Closes == C = "*" /\ D = "/"
\* Mutant: the lines of a comment are not counted.
LineBehind_Comment(n) == n
LineBehind(n) == IF C = "\n" THEN n + 1 ELSE n

\* A comment steps over one more character when its loop ends, be it "/" or 0.
Comment == AtToken({"/"}) /\ D = "*" /\ Go("comment", 2) /\ UNCHANGED same
InComment ==
  /\ At("comment") /\ C # Nul
  /\ line' = LineBehind(line)
  /\ Go(IF Closes THEN "closing" ELSE "comment", 1)
  /\ UNCHANGED <<text, tokens, start, ival, negative, quote>>
CommentEnds ==
  /\ At("closing") \/ (At("comment") /\ C = Nul)
  /\ Go("next", 1) /\ UNCHANGED same

Name ==
  /\ AtToken(Letters) /\ start' = p /\ Go("name", 1)
  /\ UNCHANGED <<text, line, tokens, ival, negative, quote>>
MoreOfName == At("name") /\ C \in Letters \cup Digits /\ Go("name", 1) /\ UNCHANGED same
NameEnds ==
  /\ At("name") /\ C \notin Letters \cup Digits
  /\ Emit("Id", 0, start, p)
  /\ UNCHANGED <<text, line, start, ival, negative, quote>>

\* "-" in front of a digit calls next for the number and negates it.
Minus ==
  /\ AtToken({"-"}) /\ D \in Digits
  /\ negative' = TRUE /\ start' = p /\ Go("next", 1)
  /\ UNCHANGED <<text, line, tokens, ival, quote>>
Number ==
  /\ AtToken(Digits)
  /\ ival' = DigitValue[C] /\ start' = IF negative THEN start ELSE p
  /\ Go(CASE C # "0" -> "decimal" [] C = "0" /\ D \in {"x", "X"} -> "hex"
          [] OTHER -> "octal", 1)
  /\ UNCHANGED <<text, line, tokens, negative, quote>>
\* Mutant: octal numbers have ten digits.
Counted_Octal == [decimal |-> Digits, octal |-> Digits]
Counted == [decimal |-> Digits, octal |-> OctalDigits]
Digit ==
  /\ \E radix \in DOMAIN Counted :
       /\ At(radix) /\ C \in Counted[radix]
       /\ ival' = ival * (IF radix = "octal" THEN 8 ELSE 10) + DigitValue[C]
  /\ Go(place, 1)
  /\ UNCHANGED <<text, line, tokens, start, negative, quote>>
\* *++p: the hexadecimal loop looks at the character behind p.
HexDigit ==
  /\ At("hex") /\ D \in HexDigits
  /\ ival' = ival * 16 + DigitValue[D] /\ Go("hex", 1)
  /\ UNCHANGED <<text, line, tokens, start, negative, quote>>
NumberEnds ==
  /\ \/ At("hex") /\ D \notin HexDigits
     \/ \E radix \in DOMAIN Counted : At(radix) /\ C \notin Counted[radix]
  /\ ival' = IF negative THEN -ival ELSE ival
  /\ Emit("Num", ival', start, IF place = "hex" THEN p + 1 ELSE p)
  /\ negative' = FALSE
  /\ UNCHANGED <<text, line, start, quote>>

\* Of an operator of two characters the first begins one as well.
Operator ==
  /\ AtToken(Singles) /\ ~(C = "/" /\ D \in {"/", "*"}) /\ ~(C = "-" /\ D \in Digits)
  /\ IF <<C, D>> \in Doubles THEN Emit(C \o D, 0, p, p + 2) ELSE Emit(C, 0, p, p + 1)
  /\ UNCHANGED <<text, line, start, ival, negative, quote>>

Literal ==
  /\ AtToken(Quotes) /\ quote' = C /\ start' = p /\ Go("literal", 1)
  /\ UNCHANGED <<text, line, tokens, ival, negative>>
\* A backslash takes the character behind it, the 0 at the end as well.
InLiteral ==
  /\ At("literal") /\ C \notin {Nul, quote}
  /\ IF C = "\\" THEN ival' = Escape(D) /\ Go("literal", 2)
     ELSE ival' = Code[C] /\ Go("literal", 1)
  /\ UNCHANGED <<text, line, tokens, start, negative, quote>>
LiteralEnds ==
  /\ At("literal") /\ C \in {Nul, quote}
  /\ ival' = IF quote = "'" THEN ival ELSE 0       \* the place in data
  /\ Emit(IF quote = "'" THEN "Num" ELSE "String", ival', start, p + 1)
  /\ UNCHANGED <<text, line, start, negative, quote>>

Done == AtToken({Nul}) /\ Go("done", 0) /\ UNCHANGED same
\* The character read lies behind the text.
PastTheEnd ==
  /\ p > Len(text) + 1 /\ place # "undefined"
  /\ Go("undefined", 0) /\ UNCHANGED same

Next ==
  \/ Newline \/ Ignored \/ Directive \/ LineComment \/ RestOfLine \/ LineEnds
  \/ Comment \/ InComment \/ CommentEnds
  \/ Name \/ MoreOfName \/ NameEnds
  \/ Minus \/ Number \/ Digit \/ HexDigit \/ NumberEnds
  \/ Operator \/ Literal \/ InLiteral \/ LiteralEnds
  \/ Done \/ PastTheEnd

Spec == Init /\ [][Next]_vars

-----------------------------------------------------------------------------
\* Mutant: there are no octal numbers.
Radix_NoOctal(w) == IF Char(w, 1) = "0" /\ Char(w, 2) = "x" THEN 16 ELSE 10
Radix(w) ==
  IF Char(w, 1) # "0" \/ Len(w) = 1 THEN 10
  ELSE IF Char(w, 2) = "x" THEN 16 ELSE 8
\* my_atoi: a second digit of what looks octal is skipped with the first.
my_atoi(w) ==
  LET digits == IF w = <<"0">> THEN <<>> ELSE IF Char(w, 1) = "0" THEN SubSeq(w, 3, Len(w)) ELSE w
      i[k \in 0 .. Len(digits)] ==
        IF k = 0 THEN 0 ELSE i[k - 1] * Radix(w) + Code[digits[k]] - 48
  IN  i[Len(digits)]

-----------------------------------------------------------------------------
(***************************************************************************)
(* Properties.  The tokens of C are found by maximal munch: the longest    *)
(* stretch of text from a place on that is a token.                        *)
(***************************************************************************)
All(w, chars) == \A k \in 1 .. Len(w) : Char(w, k) \in chars
IsDecimal(w) == All(w, Digits) /\ Char(w, 1) \notin {Nul, "0"}
IsOctal(w) == All(w, OctalDigits) /\ Char(w, 1) = "0"
IsHex(w) ==
  /\ Char(w, 1) = "0" /\ Char(w, 2) \in {"x", "X"}
  /\ All(SubSeq(w, 3, Len(w)), HexDigits)
IsNumber(w) == IsDecimal(w) \/ IsOctal(w) \/ IsHex(w)
IsName(w) == All(w, Letters \cup Digits) /\ Char(w, 1) \in Letters
IsOperator(w) == w \in Doubles \/ (Len(w) = 1 /\ w[1] \in Singles)

\* The digits from i to j, each times the power of the radix for its place.
Powers(radix) ==
  LET power[n \in 0 .. Len(text)] == IF n = 0 THEN 1 ELSE radix * power[n - 1]
  IN  power
Positional(i, j, radix) ==
  LET sum[k \in 0 .. j] ==
        IF k < i THEN 0 ELSE sum[k - 1] + DigitValue[Char(text, k)] * Powers(radix)[j - k]
  IN  sum[j]
ValueOf(i, j) ==
  LET w == SubSeq(text, i, j)
  IN  CASE IsDecimal(w) -> Positional(i, j, 10)
        [] IsOctal(w) -> Positional(i, j, 8)
        [] IsHex(w) -> Positional(i + 2, j, 16)

Longest(i, Is(_)) ==
  LET ends == {j \in i .. Len(text) : Is(SubSeq(text, i, j))}
  IN  IF ends = {} THEN i ELSE Max(ends) + 1

\* The end of the literal that opens at i and of the comment that does, 0 if
\* the text has none.
Escaped(i, j) == (j - 1 - Max({k \in i .. j - 1 : Char(text, k) # "\\"})) % 2 = 1
EndOfLiteral(i) ==
  LET ends == {j \in i + 1 .. Len(text) : Char(text, j) = Char(text, i) /\ ~Escaped(i, j)}
  IN  IF ends = {} THEN 0 ELSE Min(ends) + 1
EndOfComment(i) ==
  LET ends == {j \in i + 2 .. Len(text) - 1 : Char(text, j) = "*" /\ Char(text, j + 1) = "/"}
  IN  IF ends = {} THEN 0 ELSE Min(ends) + 2
EndOfLine(i) == Min({j \in i .. Len(text) : Char(text, j) = "\n"} \cup {Len(text) + 1})

\* What C makes of the text from i on, but that next makes one token of a minus
\* and the number it touches; Open stands where the text never closes what it
\* opens.
Open == Token("open", 0, 0, 0)
LastChar(i, q) ==
  CASE q = i + 2 -> 0
    [] q # i + 2 /\ Escaped(i, q - 2) -> Escape(Char(text, q - 2))
    [] OTHER -> Code[Char(text, q - 2)]
\* Where what begins at i ends, 0 if it is never closed.
Slashed(i) == Char(text, i) = "/" /\ Char(text, i + 1) \in {"/", "*"}
Minused(i) == Char(text, i) = "-" /\ Char(text, i + 1) \in Digits
EndFrom(i) ==
  LET c == Char(text, i)
  IN  CASE Slashed(i) /\ Char(text, i + 1) = "*" -> EndOfComment(i)
        [] c = "#" \/ (Slashed(i) /\ Char(text, i + 1) = "/") -> EndOfLine(i)
        [] c \in Letters -> Longest(i, IsName)
        [] c \in Digits -> Longest(i, IsNumber)
        [] c \in Quotes -> EndOfLiteral(i)
        [] Minused(i) -> Longest(i + 1, IsNumber)
        [] c \in Singles /\ ~Slashed(i) /\ ~Minused(i) -> Longest(i, IsOperator)
        [] OTHER -> i + 1
\* The token that fills the text from i to q, if that is one.
TokenAt(i, q) ==
  LET c == Char(text, i)
      one(tk, value) == <<Token(tk, value, i, q)>>
  IN  CASE c \in Letters -> one("Id", 0)
        [] c \in Digits -> one("Num", ValueOf(i, q - 1))
        [] Minused(i) -> one("Num", -ValueOf(i + 1, q - 1))
        [] c \in Quotes ->
             IF c = "'" THEN one("Num", LastChar(i, q)) ELSE one("String", 0)
        [] c \in Singles /\ ~Slashed(i) /\ ~Minused(i) ->
             one(IF q = i + 2 THEN c \o Char(text, i + 1) ELSE c, 0)
        [] OTHER -> <<>>
CTokensFrom[i \in 1 .. Len(text) + 1] ==
  IF i > Len(text) THEN <<>>
  ELSE IF EndFrom(i) = 0 THEN <<Open>>
  ELSE TokenAt(i, EndFrom(i)) \o CTokensFrom[EndFrom(i)]
CTokens == CTokensFrom[1]

\* The value of '' is whatever number the scanner read before.
Worth(t) ==
  IF Char(text, t.at) = "'" /\ t.end = t.at + 2 THEN [t EXCEPT !.ival = 0] ELSE t
Worths(ts) == [k \in DOMAIN ts |-> Worth(ts[k])]

\* next finds the tokens and values that C defines, but for a minus that
\* touches a number: a-1 is a name and the number -1 (c4.c, 332).
TokensAsC == place = "done" => Worths(tokens) = CTokens

\* It reads behind the 0 that ends the text exactly when the text leaves a
\* comment or a literal open: both loops step over the character that ended
\* them without a look at it (c4.c, 303 and 322).
StaysInText ==
  /\ place = "done" => Open \notin Range(CTokens)
  /\ place = "undefined" => Open \in Range(CTokens)

\* The line reported with an error counts every newline but those within
\* literals (c4.c, 239-250, 297).
Quoted(k) ==
  \E n \in DOMAIN tokens :
    Char(text, tokens[n].at) \in Quotes /\ k \in tokens[n].at .. tokens[n].end - 1
LinesCounted ==
  place = "done" =>
    line = 1 + Cardinality({k \in 1 .. Len(text) : text[k] = "\n" /\ ~Quoted(k)})

\* A number of the command line is worth what a program's is, unless it is
\* octal and not 0 in its second digit, which is skipped, or hexadecimal with
\* a letter (c4.c, 220-227).
ArgumentsAsNumbers ==
  place = "done" /\ Len(tokens) = 1 /\ IsNumber(text) /\ Char(text, 2) # "X" =>
    ((my_atoi(text) = tokens[1].ival) <=>
       IF IsHex(text) THEN All(SubSeq(text, 3, Len(text)), Digits)
       ELSE Len(text) >= 2 /\ Char(text, 1) = "0" => Char(text, 2) = "0")

=============================================================================
