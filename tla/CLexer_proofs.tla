---------------------------- MODULE CLexer_proofs -----------------------------
(***************************************************************************)
(* What holds of the scanner for every text: the tokens it finds and what  *)
(* they are worth, the lines it counts, and that it reads behind a text    *)
(* exactly when the text leaves a comment or a literal open.               *)
(*                                                                         *)
(* The invariant says of each place in next what it has seen of the token  *)
(* it is in and what that is worth so far, and that the tokens C makes of  *)
(* the text are those found and behind them the ones C makes of the text   *)
(* from the token on that is being read.                                   *)
(***************************************************************************)
EXTENDS CLexer, Induction, SequenceTheorems, FiniteSetTheorems

Seen == IF place = "literal" THEN start ELSE p
InQuotes(ts, k) ==
  \E n \in DOMAIN ts :
    Char(text, ts[n].at) \in Quotes /\ k \in ts[n].at .. ts[n].end - 1
Breaks(q, ts) == {k \in 1 .. q - 1 : Char(text, k) = "\n" /\ ~InQuotes(ts, k)}

Places == {"next", "line", "comment", "closing", "name", "decimal", "octal", "hex",
           "literal", "done", "undefined"}
Numbers == {"decimal", "octal", "hex"}

Typed ==
  /\ text \in Seq(Characters)
  /\ p \in Nat \ {0} /\ start \in Nat \ {0} /\ line \in Nat
  /\ place \in Places /\ negative \in BOOLEAN
  /\ \E T : tokens \in Seq(T)
Behind ==
  place # "undefined" =>
    \A n \in DOMAIN tokens :
      /\ tokens[n].at \in Nat \ {0} /\ tokens[n].end \in Nat
      /\ tokens[n].end <= Seen
Lines == place # "undefined" => line = 1 + Cardinality(Breaks(Seen, tokens))

\* The first digit of a number, behind its sign.
First == IF negative THEN start + 1 ELSE start
Signed ==
  negative =>
    /\ place \in {"next", "undefined"} \cup Numbers /\ Char(text, start) = "-"
    /\ place = "next" => C \in Digits /\ p = start + 1
InName ==
  place = "name" =>
    /\ start < p /\ Char(text, start) \in Letters
    /\ \A k \in start .. p - 1 : Char(text, k) \in Letters \cup Digits
InNumber ==
  /\ place \in Numbers => First < p
  /\ place = "decimal" =>
       /\ Char(text, First) # "0"
       /\ \A k \in First .. p - 1 : Char(text, k) \in Digits
  /\ place = "octal" =>
       /\ Char(text, First) = "0" /\ Char(text, First + 1) \notin {"x", "X"}
       /\ \A k \in First .. p - 1 : Char(text, k) \in OctalDigits
  /\ place = "hex" =>
       /\ Char(text, First) = "0" /\ Char(text, First + 1) \in {"x", "X"}
       /\ \A k \in First + 2 .. p : Char(text, k) \in HexDigits
Shut(i, j) == Char(text, j) = Char(text, i) /\ ~Escaped(i, j)
InQuote ==
  place = "literal" =>
    /\ start < p /\ quote \in Quotes /\ Char(text, start) = quote
    /\ ~Escaped(start, p)
    /\ \A j \in start + 1 .. p - 1 : ~Shut(start, j)
InPlace ==
  /\ place = "closing" => C = "/"
  /\ place = "done" => p = Len(text) + 1
  /\ place = "undefined" => p > Len(text) + 1

\* What the digits of a number, or the last character of a literal, are worth.
Valued ==
  /\ place = "decimal" => ival = Positional(First, p - 1, 10)
  /\ place = "octal" => ival = Positional(First, p - 1, 8)
  /\ place = "hex" => ival = Positional(First + 2, p, 16)
  /\ place = "literal" /\ p > start + 1 => ival = LastChar(start, p + 1)

\* Where the token begins that is being read, or the next one to be read, 0 if
\* it is never closed.
Here ==
  CASE place = "next" -> IF negative THEN start ELSE p
    [] place = "done" -> p
    [] place = "line" -> EndOfLine(p)
    [] place = "comment" -> EndOfComment(p - 2)
    [] place = "closing" -> p + 1
    [] OTHER -> start
From(q) == IF q = 0 THEN <<Open>> ELSE CTokensFrom[q]
Rest == From(Here)
Agrees ==
  IF p <= Len(text) + 1 THEN CTokens = Worths(tokens) \o Rest
  ELSE Open \in Range(CTokens)

Scanned ==
  /\ Typed /\ Behind /\ Lines
  /\ Signed /\ InName /\ InNumber /\ InQuote /\ InPlace
  /\ Valued /\ Agrees

-----------------------------------------------------------------------------
(* The characters, and the least and the greatest of a set of places. *)

\* What the classes of characters leave to each other.
LEMMA Classes ==
  /\ Nul \notin Letters \cup HexDigits \cup Singles \cup Quotes
  /\ "\n" \notin Letters \cup HexDigits \cup Singles \cup Quotes
  /\ Letters \cap Digits = {} /\ Letters \cap Quotes = {} /\ Letters \cap Singles = {}
  /\ Digits \cap Quotes = {} /\ Digits \cap Singles = {} /\ Singles \cap Quotes = {}
  /\ "#" \notin Letters \cup Digits \cup Singles \cup Quotes
  /\ OctalDigits \subseteq Digits /\ Digits \subseteq HexDigits /\ "0" \in OctalDigits
  /\ {"x", "X"} \cap OctalDigits = {} /\ "\\" \notin Quotes
  /\ {"-", "/", "*"} \subseteq Singles
BY DEF Letters, Lower, Upper, HexDigits, HexLetters, Digits, OctalDigits, Singles, Quotes, Nul

\* The end of a text is where the character is the 0.
LEMMA Ending ==
  ASSUME text \in Seq(Characters), NEW i \in Nat, i > 0
  PROVE  /\ Len(text) \in Nat
         /\ i > Len(text) => Char(text, i) = Nul
         /\ i <= Len(text) => Char(text, i) # Nul /\ Char(text, i) = text[i]
<1>1. Nul \notin Characters
  BY DEF Characters
<1>2. Len(text) \in Nat /\ \A k \in 1 .. Len(text) : text[k] \in Characters
  OBVIOUS
<1>3. CASE i <= Len(text)
  <2>1. Char(text, i) = text[i] /\ i \in 1 .. Len(text)
    BY <1>2, <1>3 DEF Char
  <2>2. Char(text, i) # Nul
    BY <1>1, <1>2, <2>1
  <2>3. ~(i > Len(text))
    BY <1>2, <1>3, i \in Nat
  <2> QED
    BY <1>2, <1>3, <2>1, <2>2, <2>3
<1>4. CASE i > Len(text)
  <2>1. ~(i <= Len(text))
    BY <1>2, <1>4
  <2>2. Char(text, i) = Nul
    BY <2>1, Zenon DEF Char
  <2> QED
    BY <1>2, <1>4, <2>1, <2>2
<1> QED
  BY <1>2, <1>3, <1>4

LEMMA MaxIs ==
  ASSUME NEW S, S \subseteq Int, NEW m \in S, \A y \in S : y <= m
  PROVE  Max(S) = m
<1>1. \A y \in S : m >= y
  OBVIOUS
<1>2. Max(S) \in S /\ \A y \in S : Max(S) >= y
  BY <1>1 DEF Max
<1>3. Max(S) \in Int /\ m \in Int /\ Max(S) >= m /\ Max(S) <= m
  BY <1>2
<1> QED
  BY <1>3

LEMMA MinIs ==
  ASSUME NEW S, S \subseteq Int, NEW m \in S, \A y \in S : m <= y
  PROVE  Min(S) = m
<1>2. Min(S) \in S /\ \A y \in S : Min(S) <= y
  BY DEF Min
<1>3. Min(S) \in Int /\ m \in Int /\ Min(S) >= m /\ Min(S) <= m
  BY <1>2
<1> QED
  BY <1>3

\* A set of places that is not empty has a last one.
LEMMA Greatest ==
  ASSUME NEW b \in Nat, NEW S, S \subseteq 0 .. b, S # {}
  PROVE  Max(S) \in S /\ \A y \in S : y <= Max(S)
<1> DEFINE T == {n \in Nat : \E x \in S : n = b - x}
<1>1. T \subseteq Nat /\ T # {}
  <2>1. PICK x \in S : TRUE
    OBVIOUS
  <2>2. b - x \in Nat
    BY <2>1
  <2> QED
    BY <2>1, <2>2
<1>2. PICK t \in T : \A u \in T : t <= u
  <2> HIDE DEF T
  <2> QED
    BY <1>1, Least
<1>3. PICK m \in S : t = b - m
  BY <1>2
<1>4. \A y \in S : y <= m
  <2> SUFFICES ASSUME NEW y \in S PROVE y <= m
    OBVIOUS
  <2>1. b - y \in T
    OBVIOUS
  <2>2. b - m <= b - y
    BY <1>2, <1>3, <2>1
  <2> QED
    BY <2>2
<1>5. S \subseteq Int
  OBVIOUS
<1>6. Max(S) = m
  BY <1>4, <1>5, MaxIs
<1> QED
  BY <1>4, <1>6

\* And a first one.
LEMMA Smallest ==
  ASSUME NEW S, S \subseteq Nat, S # {}
  PROVE  Min(S) \in S /\ \A y \in S : Min(S) <= y
<1>1. PICK m \in S : \A y \in S : m <= y
  BY Least
<1>2. S \subseteq Int
  OBVIOUS
<1>3. Min(S) = m
  BY <1>1, <1>2, MinIs
<1> QED
  BY <1>1, <1>3

-----------------------------------------------------------------------------
(* Backslashes in a literal that opens at i. *)

\* A character behind any but a backslash is not escaped.
LEMMA Plain ==
  ASSUME NEW i \in Nat, NEW j \in Nat, i <= j, Char(text, j) # "\\"
  PROVE  ~Escaped(i, j + 1)
<1> DEFINE S == {k \in i .. (j + 1) - 1 : Char(text, k) # "\\"}
<1>1. Max(S) = j
  <2>1. S \subseteq Int /\ j \in S /\ \A y \in S : y <= j
    OBVIOUS
  <2> HIDE DEF S
  <2> QED
    BY <2>1, MaxIs
<1>2. ((j + 1) - 1 - j) % 2 # 1
  OBVIOUS
<1> QED
  BY <1>1, <1>2 DEF Escaped

\* A backslash that is not escaped escapes the next character, and no more.
LEMMA Backslash ==
  ASSUME NEW i \in Nat, NEW j \in Nat, i < j, Char(text, i) # "\\",
         Char(text, j) = "\\", ~Escaped(i, j)
  PROVE  Escaped(i, j + 1) /\ ~Escaped(i, j + 2)
<1> DEFINE S(n) == {k \in i .. n - 1 : Char(text, k) # "\\"}
<1> DEFINE m == Max(S(j))
<1>1. m \in i .. j - 1
  <2>1. S(j) \subseteq 0 .. j /\ S(j) # {} /\ S(j) \subseteq i .. j - 1
    OBVIOUS
  <2> HIDE DEF S
  <2> QED
    BY <2>1, Greatest
<1>2. (j - 1 - m) % 2 = 0
  <2>1. (j - 1 - m) % 2 # 1
    BY DEF Escaped
  <2> HIDE DEF m
  <2> QED
    BY <2>1, <1>1
<1>3. S(j + 1) = S(j)
  OBVIOUS
<1>4. (j - m) % 2 = 1 /\ (j + 1 - m) % 2 = 0
  <2> HIDE DEF m
  <2> QED
    BY <1>1, <1>2
<1>5. Escaped(i, j + 1)
  <2>1. (j + 1) - 1 - Max(S(j + 1)) = j - m
    <3> HIDE DEF S
    <3> QED
      BY <1>1, <1>3
  <2> QED
    BY <2>1, <1>4 DEF Escaped
<1>6. CASE Char(text, j + 1) # "\\"
  <2>1. ~Escaped(i, (j + 1) + 1)
    BY <1>6, Plain
  <2>2. (j + 1) + 1 = j + 2
    OBVIOUS
  <2> QED
    BY <1>5, <2>1, <2>2
<1>7. CASE Char(text, j + 1) = "\\"
  <2>1. S(j + 2) = S(j)
    BY <1>7
  <2>2. (j + 2) - 1 - Max(S(j + 2)) = j + 1 - m
    <3> HIDE DEF S
    <3> QED
      BY <1>1, <2>1
  <2>3. ((j + 2) - 1 - Max(S(j + 2))) % 2 # 1
    BY <2>2, <1>4
  <2> QED
    BY <1>5, <2>3 DEF Escaped
<1> QED
  BY <1>6, <1>7

-----------------------------------------------------------------------------
(* What digits are worth. *)

LEMMA DigitsAre ==
  /\ DigitValue \in [HexDigits -> 0 .. 15] /\ DigitValue["0"] = 0
  /\ \A c \in Digits : DigitValue[c] = Code[c] - 48
  /\ \A c \in HexLetters : Code[c] - 48 > DigitValue[c]
<1>1. /\ HexDigits = Digits \cup HexLetters /\ Digits \cap HexLetters = {}
      /\ "0" \in Digits
  BY DEF HexDigits, Digits, HexLetters
<1>2. \A n \in (65 .. 70) \cup (97 .. 102) : (n % 16) + 9 \in 0 .. 15
  OBVIOUS
<1>3. \A c \in HexDigits :
        DigitValue[c] = IF c \in Digits THEN Code[c] - 48 ELSE (Code[c] % 16) + 9
  BY DEF DigitValue
<1>4. /\ Code["0"] = 48 /\ \A c \in Digits : Code[c] \in 48 .. 57
      /\ \A c \in HexLetters : Code[c] \in (65 .. 70) \cup (97 .. 102)
  BY CodeAssumption
<1>5. ASSUME NEW c \in Digits PROVE DigitValue[c] = Code[c] - 48 /\ DigitValue[c] \in 0 .. 15
  BY <1>1, <1>3, <1>4
<1>6. ASSUME NEW c \in HexLetters
      PROVE  DigitValue[c] \in 0 .. 15 /\ Code[c] - 48 > DigitValue[c]
  <2>1. DigitValue[c] = (Code[c] % 16) + 9
    BY <1>1, <1>3
  <2>2. DigitValue[c] \in 0 .. 15
    BY <1>2, <1>4, <2>1
  <2> QED
    BY <1>4, <2>2
<1>7. DOMAIN DigitValue = HexDigits /\ DigitValue = [c \in HexDigits |-> DigitValue[c]]
  BY DEF DigitValue
<1>8. \A c \in HexDigits : DigitValue[c] \in 0 .. 15
  BY <1>1, <1>5, <1>6
<1>9. DigitValue["0"] = 0
  BY <1>1, <1>4, <1>5
<1> QED
  BY <1>5, <1>6, <1>7, <1>8, <1>9

LEMMA PowersAre ==
  ASSUME Len(text) \in Nat, NEW radix \in Nat
  PROVE  /\ Powers(radix)[0] = 1
         /\ \A n \in 1 .. Len(text) : Powers(radix)[n] = radix * Powers(radix)[n - 1]
         /\ \A n \in 0 .. Len(text) : Powers(radix)[n] \in Nat
<1> DEFINE m == Len(text)
           Is(f) == f = [n \in 0 .. m |-> IF n = 0 THEN 1 ELSE radix * f[n - 1]]
           g == [k \in 1 .. m |-> [v \in Nat |-> radix * v]]
<1> HIDE DEF m
<1>1. m \in Nat
  BY DEF m
<1>2. \E f : Is(f)
  <2>1. \A k \in 1 .. m, v \in Nat : g[k][v] = radix * v
    OBVIOUS
  <2>2. \A k \in 1 .. m, v \in Nat : g[k][v] \in Nat
    BY <2>1
  <2> HIDE DEF g
  <2>3. PICK f \in [0 .. m -> Nat] :
          \A k \in 0 .. m : f[k] = IF k = 0 THEN 1 ELSE g[k][f[k - 1]]
    <3>1. Iterable(m, Nat, 1, g)
      BY <1>1, <2>2 DEF Iterable
    <3>2. \E f : Iterated(f, m, Nat, 1, g)
      BY <3>1, Iterates, Zenon
    <3> QED
      BY <3>2 DEF Iterated
  <2>4. ASSUME NEW k \in 0 .. m PROVE f[k] = IF k = 0 THEN 1 ELSE radix * f[k - 1]
    <3>1. k # 0 => k \in 1 .. m /\ f[k - 1] \in Nat
      BY <1>1, <2>3
    <3> QED
      BY <2>1, <2>3, <3>1
  <2>5. f = [k \in 0 .. m |-> f[k]]
    BY <2>3
  <2>6. Is(f)
    BY <2>4, <2>5
  <2> QED
    BY <2>6
<1>3. Powers(radix) = CHOOSE f : Is(f)
  BY DEF Powers, m
<1>4. Is(Powers(radix))
  <2> HIDE DEF Is
  <2> QED
    BY <1>2, <1>3
<1> DEFINE f == Powers(radix)
<1> HIDE DEF f
<1>5. f = [n \in 0 .. m |-> IF n = 0 THEN 1 ELSE radix * f[n - 1]]
  BY <1>4 DEF f
<1>6. f[0] = 1
  BY <1>1, <1>5
<1>7. \A n \in 1 .. m : f[n] = radix * f[n - 1]
  BY <1>1, <1>5
<1>8. \A n \in 0 .. m : f[n] \in Nat
  <2>1. \A k \in 1 .. m : f[k - 1] \in Nat => f[k] \in Nat
    BY <1>7
  <2>2. f[0] \in Nat
    BY <1>6
  <2> QED
    BY <1>1, <2>1, <2>2, Everywhere
<1> QED
  BY <1>6, <1>7, <1>8 DEF f, m

\* The sums whose last one Positional is.
Sums(i, j, radix) ==
  LET sum[k \in 0 .. j] ==
        IF k < i THEN 0 ELSE sum[k - 1] + DigitValue[Char(text, k)] * Powers(radix)[j - k]
  IN  sum
AreDigits(i, j) == \A k \in i .. j : Char(text, k) \in HexDigits

LEMMA SumsAre ==
  ASSUME Len(text) \in Nat, NEW i \in Nat \ {0}, NEW j \in 0 .. Len(text), NEW radix \in Nat,
         AreDigits(i, j)
  PROVE  /\ Positional(i, j, radix) = Sums(i, j, radix)[j]
         /\ \A k \in 0 .. j : Sums(i, j, radix)[k] \in Nat
         /\ \A k \in 0 .. j : k < i => Sums(i, j, radix)[k] = 0
         /\ \A k \in i .. j :
              Sums(i, j, radix)[k] = Sums(i, j, radix)[k - 1]
                                       + DigitValue[Char(text, k)] * Powers(radix)[j - k]
<1> DEFINE w(k) == DigitValue[Char(text, k)] * Powers(radix)[j - k]
           Is(f) == f = [k \in 0 .. j |-> IF k < i THEN 0 ELSE f[k - 1] + w(k)]
           g == [k \in 1 .. j |-> [v \in Nat |-> IF k < i THEN 0 ELSE v + w(k)]]
<1>0. j \in Nat /\ i \in Nat /\ i > 0 /\ j <= Len(text)
  OBVIOUS
<1>1. \A k \in i .. j : w(k) \in Nat
  <2> SUFFICES ASSUME NEW k \in i .. j PROVE w(k) \in Nat
    OBVIOUS
  <2>1. DigitValue[Char(text, k)] \in Nat
    BY DigitsAre DEF AreDigits
  <2>2. Powers(radix)[j - k] \in Nat
    <3>1. j - k \in 0 .. Len(text)
      BY <1>0
    <3> QED
      BY <3>1, PowersAre
  <2> QED
    BY <2>1, <2>2
<1>2. Positional(i, j, radix) = Sums(i, j, radix)[j]
  BY DEF Positional, Sums
<1>3. Sums(i, j, radix) = CHOOSE f : Is(f)
  BY DEF Sums
<1> HIDE DEF w
<1>4. \E f : Is(f)
  <2>1. ASSUME NEW k \in 1 .. j, NEW v \in Nat
        PROVE  (IF k < i THEN 0 ELSE v + w(k)) \in Nat
    <3>1. ~(k < i) => k \in i .. j
      BY <1>0
    <3> QED
      BY <1>1, <3>1
  <2>2. \A k \in 1 .. j, v \in Nat : g[k][v] = IF k < i THEN 0 ELSE v + w(k)
    OBVIOUS
  <2>3. \A k \in 1 .. j, v \in Nat : g[k][v] \in Nat
    BY <2>1, <2>2
  <2> HIDE DEF g
  <2>4. PICK f \in [0 .. j -> Nat] :
          \A k \in 0 .. j : f[k] = IF k = 0 THEN 0 ELSE g[k][f[k - 1]]
    <3>1. Iterable(j, Nat, 0, g)
      BY <1>0, <2>3 DEF Iterable
    <3>2. \E f : Iterated(f, j, Nat, 0, g)
      BY <3>1, Iterates, Zenon
    <3> QED
      BY <3>2 DEF Iterated
  <2>5. ASSUME NEW k \in 0 .. j PROVE f[k] = IF k < i THEN 0 ELSE f[k - 1] + w(k)
    <3>1. k # 0 => k \in 1 .. j /\ f[k - 1] \in Nat
      BY <1>0, <2>4
    <3> QED
      BY <1>0, <2>2, <2>4, <3>1
  <2>6. f = [k \in 0 .. j |-> f[k]]
    BY <2>4
  <2>7. Is(f)
    BY <2>5, <2>6
  <2> QED
    BY <2>7
<1>5. Is(Sums(i, j, radix))
  <2> HIDE DEF Is
  <2> QED
    BY <1>3, <1>4
<1> DEFINE f == Sums(i, j, radix)
<1> HIDE DEF f
<1>6. f = [k \in 0 .. j |-> IF k < i THEN 0 ELSE f[k - 1] + w(k)]
  BY <1>5 DEF f
<1>7. \A k \in 0 .. j : k < i => f[k] = 0
  BY <1>6
<1>8. \A k \in i .. j : f[k] = f[k - 1] + w(k)
  <2> SUFFICES ASSUME NEW k \in i .. j PROVE f[k] = f[k - 1] + w(k)
    OBVIOUS
  <2>1. k \in 0 .. j /\ ~(k < i)
    BY <1>0
  <2> QED
    BY <1>6, <2>1
<1>9. \A k \in 0 .. j : f[k] \in Nat
  <2>1. ASSUME NEW k \in 1 .. j, f[k - 1] \in Nat PROVE f[k] \in Nat
    <3>1. CASE k < i
      <4>1. k \in 0 .. j
        BY <1>0
      <4> QED
        BY <1>7, <3>1, <4>1
    <3>2. CASE ~(k < i)
      <4>1. k \in i .. j
        BY <1>0, <3>2
      <4> QED
        BY <1>1, <1>8, <2>1, <4>1
    <3> QED
      BY <3>1, <3>2
  <2>2. f[0] \in Nat
    BY <1>0, <1>7
  <2> QED
    BY <1>0, <2>1, <2>2, Everywhere
<1> QED
  BY <1>2, <1>7, <1>8, <1>9 DEF f, w

\* No digits are worth 0, and one more digit makes of a number the radix times
\* what it was and the digit.
LEMMA Horner ==
  ASSUME Len(text) \in Nat, NEW i \in Nat \ {0}, NEW radix \in Nat
  PROVE  /\ \A j \in 0 .. Len(text) : j < i => Positional(i, j, radix) = 0
         /\ \A j \in 0 .. Len(text) - 1 :
              j + 1 >= i /\ AreDigits(i, j + 1) =>
                /\ Positional(i, j, radix) \in Nat
                /\ Positional(i, j + 1, radix) =
                     Positional(i, j, radix) * radix + DigitValue[Char(text, j + 1)]
<1>1. ASSUME NEW j \in 0 .. Len(text), j < i PROVE Positional(i, j, radix) = 0
  <2>1. AreDigits(i, j) /\ j \in 0 .. j
    BY <1>1 DEF AreDigits
  <2> QED
    BY <1>1, <2>1, SumsAre
<1>2. ASSUME NEW j \in 0 .. Len(text) - 1, j + 1 >= i, AreDigits(i, j + 1)
      PROVE  /\ Positional(i, j, radix) \in Nat
             /\ Positional(i, j + 1, radix) =
                  Positional(i, j, radix) * radix + DigitValue[Char(text, j + 1)]
  <2> DEFINE f == Sums(i, j, radix)
             h == Sums(i, j + 1, radix)
             P == Powers(radix)
             d(k) == DigitValue[Char(text, k)]
             T == {n \in Nat : n <= j => h[n] = f[n] * radix}
  <2>0. /\ j \in Nat /\ j + 1 \in Nat /\ j \in 0 .. Len(text) /\ j + 1 \in 0 .. Len(text)
        /\ j \in 0 .. j /\ j \in 0 .. j + 1 /\ i \in Nat /\ i > 0 /\ (j + 1) - 1 = j
        /\ j + 1 \in i .. j + 1
    BY <1>2
  <2>1. AreDigits(i, j)
    <3>1. \A k \in i .. j : k \in i .. j + 1
      BY <2>0
    <3> QED
      BY <1>2, <3>1 DEF AreDigits
  <2>2. /\ Positional(i, j, radix) = f[j]
        /\ \A k \in 0 .. j : f[k] \in Nat
        /\ \A k \in 0 .. j : k < i => f[k] = 0
        /\ \A k \in i .. j : f[k] = f[k - 1] + d(k) * P[j - k]
    BY <2>0, <2>1, SumsAre
  <2>3. /\ Positional(i, j + 1, radix) = h[j + 1]
        /\ \A k \in 0 .. j + 1 : h[k] \in Nat
        /\ \A k \in 0 .. j + 1 : k < i => h[k] = 0
        /\ \A k \in i .. j + 1 : h[k] = h[k - 1] + d(k) * P[(j + 1) - k]
    BY <1>2, <2>0, SumsAre
  <2>4. /\ P[0] = 1 /\ \A n \in 1 .. Len(text) : P[n] = radix * P[n - 1]
        /\ \A n \in 0 .. Len(text) : P[n] \in Nat
    BY PowersAre
  <2>5. \A k \in i .. j + 1 : d(k) \in Nat
    BY <1>2, DigitsAre DEF AreDigits
  <2> HIDE DEF f, h, P, d
  <2>6. 0 \in T
    <3>1. 0 \in 0 .. j /\ 0 \in 0 .. j + 1 /\ 0 < i
      BY <2>0
    <3>2. f[0] = 0 /\ h[0] = 0
      BY <2>2, <2>3, <3>1
    <3> QED
      BY <3>2
  <2>7. ASSUME NEW n \in Nat, n \in T PROVE n + 1 \in T
    <3> SUFFICES ASSUME n + 1 <= j PROVE h[n + 1] = f[n + 1] * radix
      OBVIOUS
    <3>1. /\ n <= j /\ n \in 0 .. j /\ n + 1 \in 0 .. j /\ n + 1 \in 0 .. j + 1
          /\ (n + 1) - 1 = n
      BY <2>0
    <3>2. CASE n + 1 < i
      <4>1. f[n + 1] = 0 /\ h[n + 1] = 0
        BY <2>2, <2>3, <3>1, <3>2
      <4> QED
        BY <4>1
    <3>3. CASE ~(n + 1 < i)
      <4>1. n + 1 \in i .. j /\ n + 1 \in i .. j + 1
        BY <2>0, <3>1, <3>3
      <4>2. (j + 1) - (n + 1) \in 1 .. Len(text) /\ ((j + 1) - (n + 1)) - 1 = j - (n + 1)
            /\ j - (n + 1) \in 0 .. Len(text)
        BY <2>0, <3>1
      <4> DEFINE q == P[j - (n + 1)]
                 e == d(n + 1)
                 v == f[n]
      <4>3. P[(j + 1) - (n + 1)] = radix * q
        BY <2>4, <4>2
      <4>4. q \in Nat /\ e \in Nat /\ v \in Nat
        BY <2>2, <2>4, <2>5, <3>1, <4>1, <4>2
      <4>5. h[n + 1] = h[n] + e * P[(j + 1) - (n + 1)] /\ f[n + 1] = v + e * q
        BY <2>2, <2>3, <3>1, <4>1
      <4>6. h[n] = v * radix
        BY <2>7, <3>1
      <4>7. h[n + 1] = v * radix + e * (radix * q)
        BY <4>3, <4>5, <4>6
      <4> HIDE DEF q, e, v
      <4>8. v * radix + e * (radix * q) = (v + e * q) * radix
        BY <4>4
      <4> QED
        BY <4>5, <4>7, <4>8
    <3> QED
      BY <3>2, <3>3
  <2>8. h[j] = f[j] * radix
    <3> HIDE DEF T
    <3>1. j \in T
      BY <2>0, <2>6, <2>7, Induct
    <3> QED
      BY <2>0, <3>1 DEF T
  <2>9. h[j + 1] = h[j] + d(j + 1)
    <3>1. (j + 1) - (j + 1) = 0 /\ d(j + 1) \in Nat
      BY <2>0, <2>5
    <3>2. h[j + 1] = h[j] + d(j + 1) * P[0]
      BY <2>0, <2>3, <3>1
    <3> QED
      BY <2>4, <3>1, <3>2
  <2>10. f[j] \in Nat
    BY <2>0, <2>2
  <2> QED
    BY <2>2, <2>3, <2>8, <2>9, <2>10 DEF d
<1> QED
  BY <1>1, <1>2

-----------------------------------------------------------------------------
(* Where lines, comments and literals end. *)

LEMMA LineEndIs ==
  ASSUME text \in Seq(Characters), NEW i \in 1 .. Len(text) + 1
  PROVE  /\ EndOfLine(i) \in i .. Len(text) + 1
         /\ Char(text, i) \in {Nul, "\n"} => EndOfLine(i) = i
         /\ Char(text, i) \notin {Nul, "\n"} =>
              i <= Len(text) /\ EndOfLine(i) = EndOfLine(i + 1)
<1> DEFINE S(n) == {j \in n .. Len(text) : Char(text, j) = "\n"} \cup {Len(text) + 1}
<1>1. Len(text) \in Nat /\ i \in Nat /\ i > 0 /\ EndOfLine(i) = Min(S(i))
  BY DEF EndOfLine
<1>2. S(i) \subseteq Nat /\ S(i) # {} /\ S(i) \subseteq i .. Len(text) + 1
  BY <1>1
<1>3. EndOfLine(i) \in i .. Len(text) + 1
  <2> HIDE DEF S
  <2> QED
    BY <1>1, <1>2, Smallest
<1>0. /\ i > Len(text) => Char(text, i) = Nul
      /\ i <= Len(text) => Char(text, i) # Nul
  <2> HIDE DEF S
  <2> QED
    BY <1>1, Ending
<1>4. ASSUME Char(text, i) \in {Nul, "\n"} PROVE EndOfLine(i) = i
  <2>1. i \in S(i)
    <3>1. CASE i <= Len(text)
      <4>1. Char(text, i) = "\n"
        BY <1>0, <1>4, <3>1
      <4> QED
        BY <1>1, <3>1, <4>1
    <3>2. CASE i = Len(text) + 1
      BY <3>2
    <3> QED
      BY <1>1, <3>1, <3>2
  <2>2. \A y \in S(i) : i <= y
    BY <1>1, <1>2
  <2>3. S(i) \subseteq Int
    BY <1>2
  <2> HIDE DEF S
  <2> QED
    BY <1>1, <2>1, <2>2, <2>3, MinIs
<1>5. ASSUME Char(text, i) \notin {Nul, "\n"}
      PROVE  i <= Len(text) /\ EndOfLine(i) = EndOfLine(i + 1)
  <2>1. i <= Len(text)
    <3>1. ~(i > Len(text))
      BY <1>0, <1>5
    <3> HIDE DEF S
    <3> QED
      BY <1>1, <3>1
  <2>2. S(i) = S(i + 1)
    <3>1. Char(text, i) # "\n"
      BY <1>5
    <3>2. \A j \in Nat : i <= j /\ Char(text, j) = "\n" => i + 1 <= j
      BY <1>1, <3>1
    <3> QED
      BY <1>1, <2>1, <3>2
  <2>3. EndOfLine(i + 1) = Min(S(i + 1))
    BY DEF EndOfLine
  <2> HIDE DEF S
  <2> QED
    BY <1>1, <2>1, <2>2, <2>3
<1> QED
  BY <1>3, <1>4, <1>5

\* A comment whose first two characters begin at i.
LEMMA CommentEndIs ==
  ASSUME text \in Seq(Characters), NEW i \in Int, i >= -1
  PROVE  /\ EndOfComment(i) # 0 => EndOfComment(i) \in i + 4 .. Len(text) + 1
         /\ i + 2 >= Len(text) => EndOfComment(i) = 0
         /\ i + 2 < Len(text) /\ Char(text, i + 2) = "*" /\ Char(text, i + 3) = "/" =>
              EndOfComment(i) = i + 4
         /\ ~(Char(text, i + 2) = "*" /\ Char(text, i + 3) = "/") =>
              EndOfComment(i) = EndOfComment(i + 1)
<1> DEFINE S(n) == {j \in n .. Len(text) - 1 :
                      Char(text, j) = "*" /\ Char(text, j + 1) = "/"}
<1>1. /\ Len(text) \in Nat
      /\ EndOfComment(i) = IF S(i + 2) = {} THEN 0 ELSE Min(S(i + 2)) + 2
  BY DEF EndOfComment
<1>2. S(i + 2) \subseteq i + 2 .. Len(text) - 1 /\ S(i + 2) \subseteq Nat
  BY <1>1
<1>3. EndOfComment(i) # 0 => EndOfComment(i) \in i + 4 .. Len(text) + 1
  <2> SUFFICES ASSUME S(i + 2) # {} PROVE Min(S(i + 2)) + 2 \in i + 4 .. Len(text) + 1
    BY <1>1
  <2>1. Min(S(i + 2)) \in S(i + 2)
    <3> HIDE DEF S
    <3> QED
      BY <1>2, Smallest
  <2>2. Min(S(i + 2)) \in i + 2 .. Len(text) - 1
    <3> HIDE DEF S
    <3> QED
      BY <1>2, <2>1
  <2> HIDE DEF S
  <2> QED
    BY <1>1, <2>2
<1>4. ASSUME i + 2 >= Len(text) PROVE EndOfComment(i) = 0
  BY <1>1, <1>4
<1>5. ASSUME i + 2 < Len(text), Char(text, i + 2) = "*", Char(text, i + 3) = "/"
      PROVE  EndOfComment(i) = i + 4
  <2>1. i + 2 \in S(i + 2) /\ \A y \in S(i + 2) : i + 2 <= y
    BY <1>1, <1>5, (i + 2) + 1 = i + 3
  <2>2. Min(S(i + 2)) = i + 2
    <3>1. S(i + 2) \subseteq Int
      BY <1>2
    <3> HIDE DEF S
    <3> QED
      BY <2>1, <3>1, MinIs
  <2>3. S(i + 2) # {}
    BY <2>1
  <2> HIDE DEF S
  <2> QED
    BY <1>1, <2>2, <2>3
<1>6. ASSUME ~(Char(text, i + 2) = "*" /\ Char(text, i + 3) = "/")
      PROVE  EndOfComment(i) = EndOfComment(i + 1)
  <2>1. S(i + 2) = S(i + 3)
    BY <1>1, <1>6, (i + 2) + 1 = i + 3
  <2>2. EndOfComment(i + 1) = IF S(i + 3) = {} THEN 0 ELSE Min(S(i + 3)) + 2
    BY (i + 1) + 2 = i + 3 DEF EndOfComment
  <2> HIDE DEF S
  <2> QED
    BY <1>1, <2>1, <2>2
<1> QED
  BY <1>3, <1>4, <1>5, <1>6

\* A literal that opens at i.
LEMMA LiteralEndIs ==
  ASSUME text \in Seq(Characters), NEW i \in Nat, i > 0
  PROVE  /\ EndOfLiteral(i) # 0 => EndOfLiteral(i) \in i + 2 .. Len(text) + 1
         /\ (\A j \in i + 1 .. Len(text) : ~Shut(i, j)) => EndOfLiteral(i) = 0
         /\ \A q \in i + 1 .. Len(text) :
              Shut(i, q) /\ (\A j \in i + 1 .. q - 1 : ~Shut(i, j)) =>
                EndOfLiteral(i) = q + 1
<1> DEFINE S == {j \in i + 1 .. Len(text) : Char(text, j) = Char(text, i) /\ ~Escaped(i, j)}
<1>1. Len(text) \in Nat /\ EndOfLiteral(i) = IF S = {} THEN 0 ELSE Min(S) + 1
  BY DEF EndOfLiteral
<1>2. S \subseteq i + 1 .. Len(text) /\ S \subseteq Nat
  BY <1>1
<1>3. EndOfLiteral(i) # 0 => EndOfLiteral(i) \in i + 2 .. Len(text) + 1
  <2> SUFFICES ASSUME S # {} PROVE Min(S) + 1 \in i + 2 .. Len(text) + 1
    BY <1>1
  <2> HIDE DEF S
  <2>1. Min(S) \in S
    BY <1>2, Smallest
  <2>2. Min(S) \in i + 1 .. Len(text)
    BY <1>2, <2>1
  <2> QED
    BY <1>1, <2>2
<1>4. ASSUME \A j \in i + 1 .. Len(text) : ~Shut(i, j) PROVE EndOfLiteral(i) = 0
  <2>1. S = {}
    BY <1>4 DEF Shut
  <2> HIDE DEF S
  <2> QED
    BY <1>1, <2>1
<1>5. ASSUME NEW q \in i + 1 .. Len(text), Shut(i, q),
             \A j \in i + 1 .. q - 1 : ~Shut(i, j)
      PROVE  EndOfLiteral(i) = q + 1
  <2>1. q \in S
    BY <1>5 DEF Shut
  <2>2. \A y \in S : q <= y
    <3> SUFFICES ASSUME NEW y \in S, y < q PROVE FALSE
      BY <1>1, <1>2
    <3>1. y \in i + 1 .. q - 1
      BY <1>1, <1>2
    <3> QED
      BY <1>5, <3>1 DEF Shut
  <2>3. Min(S) = q
    <3>1. S \subseteq Int
      BY <1>2
    <3> HIDE DEF S
    <3> QED
      BY <2>1, <2>2, <3>1, MinIs
  <2> HIDE DEF S
  <2> QED
    BY <1>1, <2>1, <2>3
<1> QED
  BY <1>3, <1>4, <1>5

-----------------------------------------------------------------------------
(* The longest name, number and operator. *)

\* The stretch from i to j is the characters it is taken from.
LEMMA Stretch ==
  ASSUME text \in Seq(Characters), NEW i \in Nat, i > 0, NEW j \in i .. Len(text)
  PROVE  LET w == SubSeq(text, i, j)
         IN  /\ Len(w) = j - i + 1 /\ Len(w) \in Nat
             /\ \A k \in 1 .. Len(w) : w[k] = Char(text, i + k - 1) /\ Char(w, k) = w[k]
             /\ \A k \in Nat : k > Len(w) => Char(w, k) = Nul
<1> DEFINE w == SubSeq(text, i, j)
<1>1. Len(text) \in Nat /\ i \in Int /\ j \in Int /\ i <= j
  OBVIOUS
<1>2. \A k \in i .. j : text[k] \in Characters
  BY <1>1
<1>3. Len(w) = j - i + 1 /\ \A k \in 1 .. j - i + 1 : w[k] = text[i + k - 1]
  BY <1>1, <1>2, SubSeqProperties
<1>4. \A k \in 1 .. j - i + 1 : text[i + k - 1] = Char(text, i + k - 1)
  <2> SUFFICES ASSUME NEW k \in 1 .. j - i + 1
               PROVE  text[i + k - 1] = Char(text, i + k - 1)
    OBVIOUS
  <2>1. i + k - 1 \in Nat /\ i + k - 1 <= Len(text)
    BY <1>1
  <2> QED
    BY <2>1 DEF Char
<1> HIDE DEF w
<1>5. Len(w) \in Nat
  BY <1>1, <1>3
<1>6. \A k \in 1 .. Len(w) : Char(w, k) = w[k]
  BY <1>5 DEF Char
<1>7. \A k \in Nat : k > Len(w) => Char(w, k) = Nul
  <2> SUFFICES ASSUME NEW k \in Nat, k > Len(w) PROVE Char(w, k) = Nul
    OBVIOUS
  <2>1. ~(k <= Len(w))
    BY <1>5
  <2> QED
    BY <2>1, Zenon DEF Char
<1>8. Len(w) = j - i + 1 /\ \A k \in 1 .. Len(w) : w[k] = Char(text, i + k - 1)
  BY <1>3, <1>4
<1> QED
  BY <1>5, <1>6, <1>7, <1>8 DEF w

\* Its first two characters.
LEMMA FirstTwo ==
  ASSUME text \in Seq(Characters), NEW i \in Nat, i > 0, NEW j \in i .. Len(text)
  PROVE  /\ Char(SubSeq(text, i, j), 1) = Char(text, i)
         /\ j > i => Char(SubSeq(text, i, j), 2) = Char(text, i + 1)
         /\ j = i => Char(SubSeq(text, i, j), 2) = Nul
<1> DEFINE w == SubSeq(text, i, j)
<1>1. Len(text) \in Nat /\ i \in Int /\ j \in Int /\ i <= j
  OBVIOUS
<1>2. /\ Len(w) = j - i + 1 /\ Len(w) \in Nat
      /\ \A k \in 1 .. Len(w) : Char(w, k) = Char(text, i + k - 1)
      /\ \A k \in Nat : k > Len(w) => Char(w, k) = Nul
  BY Stretch
<1> HIDE DEF w
<1>3. i + 1 - 1 = i /\ i + 2 - 1 = i + 1
  BY <1>1
<1>4. Char(w, 1) = Char(text, i)
  <2>1. Len(w) >= 1
    BY <1>1, <1>2
  <2>2. 1 \in 1 .. Len(w)
    BY <1>2, <2>1
  <2> QED
    BY <1>2, <1>3, <2>2
<1>5. ASSUME j > i PROVE Char(w, 2) = Char(text, i + 1)
  <2>1. Len(w) >= 2
    BY <1>1, <1>2, <1>5
  <2>2. 2 \in 1 .. Len(w)
    BY <1>2, <2>1
  <2> QED
    BY <1>2, <1>3, <2>2
<1>6. ASSUME j = i PROVE Char(w, 2) = Nul
  <2>1. 2 \in Nat /\ 2 > Len(w)
    BY <1>1, <1>2, <1>6
  <2> QED
    BY <1>2, <2>1
<1> QED
  BY <1>4, <1>5, <1>6 DEF w

\* The stretch has its characters in a class when the text has them there.
LEMMA AllOf ==
  ASSUME text \in Seq(Characters), NEW i \in Nat, i > 0, NEW j \in i .. Len(text), NEW S
  PROVE  All(SubSeq(text, i, j), S) <=> \A k \in i .. j : Char(text, k) \in S
<1> DEFINE w == SubSeq(text, i, j)
<1>1. Len(w) = j - i + 1 /\ \A k \in 1 .. Len(w) : Char(w, k) = Char(text, i + k - 1)
  BY Stretch
<1> HIDE DEF w
<1>2. ASSUME All(w, S), NEW k \in i .. j PROVE Char(text, k) \in S
  <2>1. k - i + 1 \in 1 .. Len(w) /\ i + (k - i + 1) - 1 = k
    BY <1>1
  <2>2. Char(w, k - i + 1) = Char(text, k)
    BY <1>1, <2>1
  <2> QED
    BY <1>2, <2>1, <2>2 DEF All
<1>3. ASSUME \A k \in i .. j : Char(text, k) \in S, NEW k \in 1 .. Len(w)
      PROVE  Char(w, k) \in S
  <2>1. i + k - 1 \in i .. j
    BY <1>1
  <2> QED
    BY <1>1, <1>3, <2>1
<1> QED
  BY <1>2, <1>3 DEF w, All

LEMMA LongestIs ==
  ASSUME text \in Seq(Characters), NEW i \in Nat, NEW E, E \subseteq i .. Len(text)
  PROVE  /\ E # {} => Max(E) + 1 \in i + 1 .. Len(text) + 1
         /\ \A q \in Nat : q - 1 \in E /\ (\A k \in E : k < q) => Max(E) + 1 = q
<1>1. Len(text) \in Nat /\ E \subseteq 0 .. Len(text) /\ E \subseteq Int
  OBVIOUS
<1>2. ASSUME E # {} PROVE Max(E) + 1 \in i + 1 .. Len(text) + 1
  <2>1. Max(E) \in E
    BY <1>1, <1>2, Greatest
  <2>2. Max(E) \in i .. Len(text)
    BY <2>1
  <2> QED
    BY <1>1, <2>2
<1>3. ASSUME NEW q \in Nat, q - 1 \in E, \A k \in E : k < q PROVE Max(E) + 1 = q
  <2>1. \A k \in E : k <= q - 1
    BY <1>1, <1>3
  <2>2. Max(E) = q - 1
    BY <1>1, <1>3, <2>1, MaxIs
  <2> QED
    BY <2>2
<1> QED
  BY <1>2, <1>3

\* A name reaches to the first character that is no letter and no digit.
LEMMA LongestName ==
  ASSUME text \in Seq(Characters), NEW i \in 1 .. Len(text), Char(text, i) \in Letters
  PROVE  /\ Longest(i, IsName) \in i + 1 .. Len(text) + 1
         /\ \A q \in i + 1 .. Len(text) + 1 :
              /\ \A k \in i .. q - 1 : Char(text, k) \in Letters \cup Digits
              /\ Char(text, q) \notin Letters \cup Digits
              => Longest(i, IsName) = q
<1> DEFINE E == {j \in i .. Len(text) : IsName(SubSeq(text, i, j))}
<1>1. Longest(i, IsName) = IF E = {} THEN i ELSE Max(E) + 1
  BY DEF Longest
<1>2. Len(text) \in Nat /\ i \in Nat /\ i > 0 /\ i <= Len(text)
  OBVIOUS
<1>3. \A j \in i .. Len(text) :
        j \in E <=> \A k \in i .. j : Char(text, k) \in Letters \cup Digits
  <2> SUFFICES ASSUME NEW j \in i .. Len(text)
               PROVE  IsName(SubSeq(text, i, j)) <=>
                        \A k \in i .. j : Char(text, k) \in Letters \cup Digits
    OBVIOUS
  <2>1. Char(SubSeq(text, i, j), 1) = Char(text, i)
    BY <1>2, FirstTwo
  <2> QED
    BY <1>2, <2>1, AllOf DEF IsName
<1>4. i \in E
  <2>1. \A k \in i .. i : k = i
    BY <1>2
  <2> QED
    BY <1>2, <1>3, <2>1
<1>5. E \subseteq i .. Len(text)
  OBVIOUS
<1> HIDE DEF E
<1>6. Longest(i, IsName) \in i + 1 .. Len(text) + 1
  BY <1>1, <1>2, <1>4, <1>5, LongestIs
<1>7. ASSUME NEW q \in i + 1 .. Len(text) + 1,
             \A k \in i .. q - 1 : Char(text, k) \in Letters \cup Digits,
             Char(text, q) \notin Letters \cup Digits
      PROVE  Longest(i, IsName) = q
  <2>1. q - 1 \in E
    BY <1>2, <1>3, <1>7
  <2>2. \A k \in E : k < q
    BY <1>2, <1>3, <1>5, <1>7
  <2>3. q \in Nat
    BY <1>2
  <2> QED
    BY <1>1, <1>2, <1>5, <2>1, <2>2, <2>3, LongestIs
<1> QED
  BY <1>6, <1>7

\* A number: the digits of a decimal or octal one; of a hexadecimal one the
\* mark and the digits behind it.
LEMMA KindIs ==
  ASSUME text \in Seq(Characters), NEW i \in 1 .. Len(text), NEW j \in i .. Len(text)
  PROVE  /\ IsDecimal(SubSeq(text, i, j)) <=>
              Char(text, i) \notin {Nul, "0"} /\ \A k \in i .. j : Char(text, k) \in Digits
         /\ IsOctal(SubSeq(text, i, j)) <=>
              Char(text, i) = "0" /\ \A k \in i .. j : Char(text, k) \in OctalDigits
         /\ IsHex(SubSeq(text, i, j)) <=>
              /\ Char(text, i) = "0" /\ j > i /\ Char(text, i + 1) \in {"x", "X"}
              /\ \A k \in i + 2 .. j : Char(text, k) \in HexDigits
<1> DEFINE w == SubSeq(text, i, j)
<1>1. Len(text) \in Nat /\ i \in Nat /\ i > 0 /\ j \in Nat /\ i <= j
  OBVIOUS
<1>2. IsDecimal(w) <=>
        Char(text, i) \notin {Nul, "0"} /\ \A k \in i .. j : Char(text, k) \in Digits
  BY <1>1, FirstTwo, AllOf DEF IsDecimal
<1>3. IsOctal(w) <=>
        Char(text, i) = "0" /\ \A k \in i .. j : Char(text, k) \in OctalDigits
  BY <1>1, FirstTwo, AllOf DEF IsOctal
<1>4. CASE j = i
  <2>1. Char(w, 2) = Nul
    BY <1>1, <1>4, FirstTwo
  <2>2. ~IsHex(w)
    <3> HIDE DEF w
    <3> QED
      BY <2>1 DEF IsHex, Nul
  <2>3. ~(j > i)
    BY <1>1, <1>4
  <2> QED
    BY <1>2, <1>3, <2>2, <2>3
<1>5. CASE j > i
  <2>1. Char(w, 1) = Char(text, i) /\ Char(w, 2) = Char(text, i + 1)
    BY <1>1, <1>5, FirstTwo
  <2>2. All(SubSeq(w, 3, Len(w)), HexDigits) <=>
          \A k \in i + 2 .. j : Char(text, k) \in HexDigits
    <3>1. /\ Len(w) = j - i + 1 /\ Len(w) \in Nat
          /\ \A k \in 1 .. Len(w) : w[k] = Char(text, i + k - 1)
      BY <1>1, Stretch
    <3>2. \A k \in 1 .. Len(w) : w[k] \in Characters
      <4> SUFFICES ASSUME NEW k \in 1 .. Len(w) PROVE w[k] \in Characters
        OBVIOUS
      <4>1. i + k - 1 \in 1 .. Len(text) /\ i + k - 1 <= Len(text)
        BY <1>1, <3>1
      <4>2. Char(text, i + k - 1) = text[i + k - 1]
        BY <4>1 DEF Char
      <4> QED
        BY <3>1, <4>1, <4>2
    <3> DEFINE v == SubSeq(w, 3, Len(w))
    <3> HIDE DEF w
    <3>3. /\ Len(v) = IF 3 <= Len(w) THEN Len(w) - 3 + 1 ELSE 0
          /\ \A k \in 1 .. Len(w) - 3 + 1 : v[k] = w[3 + k - 1]
      <4>1. \A k \in 3 .. Len(w) : w[k] \in Characters
        BY <3>1, <3>2
      <4> QED
        BY <3>1, <4>1, SubSeqProperties
    <3>4. Len(v) = j - i - 1
      BY <1>1, <1>5, <3>1, <3>3
    <3>5. \A k \in 1 .. Len(v) : Char(v, k) = Char(text, i + 1 + k)
      <4> SUFFICES ASSUME NEW k \in 1 .. j - i - 1
                   PROVE  Char(v, k) = Char(text, i + 1 + k)
        BY <3>4
      <4>1. /\ k \in 1 .. Len(w) - 3 + 1 /\ 3 + k - 1 = k + 2 /\ k + 2 \in 1 .. Len(w)
            /\ i + (k + 2) - 1 = i + 1 + k
        BY <1>1, <3>1
      <4>2. v[k] = Char(text, i + 1 + k)
        BY <3>1, <3>3, <4>1
      <4>3. k <= Len(v)
        BY <1>1, <3>4
      <4> HIDE DEF v
      <4> QED
        BY <4>2, <4>3 DEF Char
    <3> HIDE DEF v
    <3>6. ASSUME All(v, HexDigits), NEW k \in i + 2 .. j PROVE Char(text, k) \in HexDigits
      <4>1. k - i - 1 \in 1 .. Len(v) /\ i + 1 + (k - i - 1) = k
        BY <1>1, <3>4
      <4>2. Char(v, k - i - 1) \in HexDigits
        BY <3>6, <4>1 DEF All
      <4> QED
        BY <3>5, <4>1, <4>2
    <3>7. ASSUME \A k \in i + 2 .. j : Char(text, k) \in HexDigits, NEW k \in 1 .. Len(v)
          PROVE  Char(v, k) \in HexDigits
      <4>1. i + 1 + k \in i + 2 .. j
        BY <1>1, <3>4
      <4> QED
        BY <3>5, <3>7, <4>1
    <3> QED
      BY <3>6, <3>7 DEF All, v
  <2>3. IsHex(w) <=>
          /\ Char(text, i) = "0" /\ Char(text, i + 1) \in {"x", "X"}
          /\ \A k \in i + 2 .. j : Char(text, k) \in HexDigits
    BY <2>1, <2>2 DEF IsHex
  <2> QED
    BY <1>2, <1>3, <1>5, <2>3
<1>6. j = i \/ j > i
  BY <1>1
<1> QED
  BY <1>4, <1>5, <1>6

LEMMA NumberIn ==
  ASSUME text \in Seq(Characters), NEW i \in 1 .. Len(text), NEW j \in i .. Len(text)
  PROVE  IsNumber(SubSeq(text, i, j)) <=>
           \/ Char(text, i) \notin {Nul, "0"} /\ \A k \in i .. j : Char(text, k) \in Digits
           \/ Char(text, i) = "0" /\ \A k \in i .. j : Char(text, k) \in OctalDigits
           \/ /\ Char(text, i) = "0" /\ j > i /\ Char(text, i + 1) \in {"x", "X"}
              /\ \A k \in i + 2 .. j : Char(text, k) \in HexDigits
BY KindIs DEF IsNumber

\* What a number is worth, by its kind.
LEMMA ValueIs ==
  ASSUME text \in Seq(Characters), NEW i \in 1 .. Len(text), NEW j \in i .. Len(text)
  PROVE  /\ IsDecimal(SubSeq(text, i, j)) => ValueOf(i, j) = Positional(i, j, 10)
         /\ IsOctal(SubSeq(text, i, j)) => ValueOf(i, j) = Positional(i, j, 8)
         /\ IsHex(SubSeq(text, i, j)) => ValueOf(i, j) = Positional(i + 2, j, 16)
<1> DEFINE w == SubSeq(text, i, j)
<1>1. /\ IsDecimal(w) => ~IsOctal(w) /\ ~IsHex(w)
      /\ IsOctal(w) => ~IsHex(w)
  <2>1. j > i => i + 1 \in i .. j
    OBVIOUS
  <2>2. IsDecimal(w) => ~IsOctal(w) /\ ~IsHex(w)
    BY KindIs
  <2>3. IsOctal(w) => ~IsHex(w)
    BY <2>1, KindIs, Classes
  <2> QED
    BY <2>2, <2>3
<1>2. ValueOf(i, j) = CASE IsDecimal(w) -> Positional(i, j, 10)
                        [] IsOctal(w) -> Positional(i, j, 8)
                        [] IsHex(w) -> Positional(i + 2, j, 16)
  BY DEF ValueOf
<1> HIDE DEF w
<1>3. IsDecimal(w) => ValueOf(i, j) = Positional(i, j, 10)
  BY <1>1, <1>2
<1>4. IsOctal(w) => ValueOf(i, j) = Positional(i, j, 8)
  BY <1>1, <1>2
<1>5. IsHex(w) => ValueOf(i, j) = Positional(i + 2, j, 16)
  BY <1>1, <1>2
<1> QED
  BY <1>3, <1>4, <1>5 DEF w

LEMMA LongestNumber ==
  ASSUME text \in Seq(Characters), NEW i \in 1 .. Len(text), Char(text, i) \in Digits
  PROVE  /\ Longest(i, IsNumber) \in i + 1 .. Len(text) + 1
         /\ \A q \in i + 1 .. Len(text) + 1 :
              IsNumber(SubSeq(text, i, q - 1))
              /\ (\A k \in q .. Len(text) : ~IsNumber(SubSeq(text, i, k)))
              => Longest(i, IsNumber) = q
<1> DEFINE E == {j \in i .. Len(text) : IsNumber(SubSeq(text, i, j))}
<1>1. Longest(i, IsNumber) = IF E = {} THEN i ELSE Max(E) + 1
  BY DEF Longest
<1>2. Len(text) \in Nat /\ i \in Nat /\ i > 0 /\ i <= Len(text)
  OBVIOUS
<1>3. i \in E
  <2>1. Char(text, i) # Nul /\ (Char(text, i) = "0" => Char(text, i) \in OctalDigits)
    BY Classes
  <2>2. i \in i .. Len(text) /\ \A k \in i .. i : k = i
    BY <1>2
  <2>3. IsNumber(SubSeq(text, i, i))
    BY <2>1, <2>2, NumberIn
  <2> QED
    BY <2>2, <2>3
<1>4. E \subseteq i .. Len(text)
  OBVIOUS
<1>5. ASSUME NEW q \in i + 1 .. Len(text) + 1, IsNumber(SubSeq(text, i, q - 1)),
             \A k \in q .. Len(text) : ~IsNumber(SubSeq(text, i, k))
      PROVE  Longest(i, IsNumber) = q
  <2>1. q - 1 \in i .. Len(text) /\ q \in Nat
    BY <1>2
  <2>2. q - 1 \in E
    BY <1>5, <2>1
  <2>3. \A k \in E : k < q
    <3> SUFFICES ASSUME NEW k \in E, q <= k PROVE FALSE
      BY <1>2, <1>4, <2>1
    <3>1. k \in q .. Len(text)
      BY <1>2, <1>4, <2>1
    <3> QED
      BY <1>5, <3>1
  <2> HIDE DEF E
  <2> QED
    BY <1>1, <1>2, <1>4, <2>1, <2>2, <2>3, LongestIs
<1> HIDE DEF E
<1>6. Longest(i, IsNumber) \in i + 1 .. Len(text) + 1
  BY <1>1, <1>2, <1>3, <1>4, LongestIs
<1> QED
  BY <1>5, <1>6

\* An operator has two characters if they make one.
LEMMA LongestOperator ==
  ASSUME text \in Seq(Characters), NEW i \in 1 .. Len(text), Char(text, i) \in Singles
  PROVE  /\ Longest(i, IsOperator) \in i + 1 .. Len(text) + 1
         /\ Longest(i, IsOperator) =
              IF <<Char(text, i), Char(text, i + 1)>> \in Doubles THEN i + 2 ELSE i + 1
<1> DEFINE E == {j \in i .. Len(text) : IsOperator(SubSeq(text, i, j))}
           two == <<Char(text, i), Char(text, i + 1)>> \in Doubles
<1>1. Longest(i, IsOperator) = IF E = {} THEN i ELSE Max(E) + 1
  BY DEF Longest
<1>2. Len(text) \in Nat /\ i \in Nat /\ i > 0 /\ i <= Len(text)
  OBVIOUS
<1>3. i \in E
  <2>1. i \in i .. Len(text)
    BY <1>2
  <2>2. Len(SubSeq(text, i, i)) = 1 /\ SubSeq(text, i, i)[1] = Char(text, i)
    <3>1. /\ Len(SubSeq(text, i, i)) = i - i + 1
          /\ \A k \in 1 .. Len(SubSeq(text, i, i)) :
               SubSeq(text, i, i)[k] = Char(text, i + k - 1)
      BY <1>2, <2>1, Stretch
    <3>2. i - i + 1 = 1 /\ i + 1 - 1 = i
      BY <1>2
    <3> QED
      BY <3>1, <3>2
  <2> QED
    BY <2>1, <2>2 DEF IsOperator
<1>4. ASSUME NEW j \in i + 1 .. Len(text)
      PROVE  j \in E <=> j = i + 1 /\ two
  <2> DEFINE w == SubSeq(text, i, j)
  <2>1. j \in i .. Len(text) /\ j > i
    BY <1>2
  <2>2. /\ Len(w) = j - i + 1 /\ Len(w) \in Nat
        /\ Char(w, 1) = Char(text, i) /\ Char(w, 2) = Char(text, i + 1)
    BY <1>2, <2>1, Stretch, FirstTwo
  <2>3. w \in Seq(Characters)
    <3>1. \A k \in i .. j : text[k] \in Characters
      BY <1>2, <2>1
    <3> QED
      BY <1>2, <2>1, <3>1, SubSeqProperties
  <2> HIDE DEF w
  <2>4. Len(w) # 1
    BY <1>2, <2>1, <2>2
  <2>5. IsOperator(w) <=> w \in Doubles
    BY <2>4 DEF IsOperator
  <2>6. w \in Doubles <=> j = i + 1 /\ two
    <3>1. ASSUME w \in Doubles PROVE Len(w) = 2
      BY <3>1 DEF Doubles
    <3>2. ASSUME Len(w) = 2 PROVE w = <<Char(text, i), Char(text, i + 1)>>
      <4>1. Char(w, 1) = w[1] /\ Char(w, 2) = w[2]
        BY <3>2 DEF Char
      <4>2. w = <<w[1], w[2]>>
        BY <2>3, <3>2
      <4> QED
        BY <2>2, <4>1, <4>2
    <3>3. j = i + 1 <=> Len(w) = 2
      BY <1>2, <2>1, <2>2
    <3> HIDE DEF two
    <3>4. Len(w) = 2 => (w \in Doubles <=> two)
      BY <3>2 DEF two
    <3> QED
      BY <3>1, <3>3, <3>4
  <2> QED
    BY <2>1, <2>5, <2>6 DEF w
<1>5. E \subseteq i .. Len(text)
  OBVIOUS
<1> HIDE DEF E
<1>6. Longest(i, IsOperator) \in i + 1 .. Len(text) + 1
  BY <1>1, <1>2, <1>3, <1>5, LongestIs
<1>7. CASE two
  <2>1. i + 1 \in i + 1 .. Len(text)
    <3>1. Char(text, i + 1) # Nul
      <4>1. \A c, d : <<c, d>> \in Doubles => d # Nul
        BY DEF Doubles, Nul
      <4> QED
        BY <1>7, <4>1
    <3>2. ~(i + 1 > Len(text))
      <4>1. i + 1 \in Nat /\ i + 1 > 0
        BY <1>2
      <4> QED
        BY <3>1, <4>1, Ending
    <3> QED
      BY <1>2, <3>2
  <2>2. i + 1 \in E
    BY <1>4, <1>7, <2>1
  <2>3. \A k \in E : k < i + 2
    BY <1>2, <1>4, <1>5
  <2>4. i + 2 \in Nat /\ (i + 2) - 1 = i + 1
    BY <1>2
  <2>5. Max(E) + 1 = i + 2
    BY <1>2, <1>5, <2>2, <2>3, <2>4, LongestIs
  <2> QED
    BY <1>1, <1>6, <1>7, <2>2, <2>5
<1>8. CASE ~two
  <2>1. \A k \in E : k < i + 1
    BY <1>2, <1>4, <1>5, <1>8
  <2>2. i + 1 \in Nat /\ (i + 1) - 1 = i
    BY <1>2
  <2>3. Max(E) + 1 = i + 1
    BY <1>2, <1>3, <1>5, <2>1, <2>2, LongestIs
  <2> QED
    BY <1>1, <1>3, <1>6, <1>8, <2>3
<1> QED
  BY <1>7, <1>8

-----------------------------------------------------------------------------
(* The tokens that C makes of the text from a place on. *)

\* What begins at i says how its end is found.
LEMMA EndFromIs ==
  ASSUME NEW i
  PROVE  /\ Char(text, i) = "/" /\ Char(text, i + 1) = "*" => EndFrom(i) = EndOfComment(i)
         /\ Char(text, i) = "#" \/ (Char(text, i) = "/" /\ Char(text, i + 1) = "/") =>
              EndFrom(i) = EndOfLine(i)
         /\ Char(text, i) \in Letters => EndFrom(i) = Longest(i, IsName)
         /\ Char(text, i) \in Digits => EndFrom(i) = Longest(i, IsNumber)
         /\ Char(text, i) \in Quotes => EndFrom(i) = EndOfLiteral(i)
         /\ Minused(i) => EndFrom(i) = Longest(i + 1, IsNumber)
         /\ Char(text, i) \in Singles /\ ~Slashed(i) /\ ~Minused(i) =>
              EndFrom(i) = Longest(i, IsOperator)
         /\ Char(text, i) \notin Letters \cup Digits \cup Quotes \cup Singles \cup {"#"} =>
              EndFrom(i) = i + 1
<1> DEFINE c == Char(text, i)
           d == Char(text, i + 1)
           m == d \in Digits
<1>1. /\ "/" \in Singles /\ "-" \in Singles
      /\ "#" \notin Letters \cup Digits \cup Quotes \cup Singles
      /\ c \in Letters => c \notin Digits \cup Quotes \cup Singles
      /\ c \in Digits => c \notin Quotes \cup Singles
      /\ c \in Quotes => c \notin Singles
  BY Classes
<1>2. /\ Slashed(i) <=> c = "/" /\ d \in {"/", "*"}
      /\ Minused(i) <=> c = "-" /\ m
  BY DEF Slashed, Minused
<1>3. EndFrom(i) = CASE Slashed(i) /\ d = "*" -> EndOfComment(i)
                     [] c = "#" \/ (Slashed(i) /\ d = "/") -> EndOfLine(i)
                     [] c \in Letters -> Longest(i, IsName)
                     [] c \in Digits -> Longest(i, IsNumber)
                     [] c \in Quotes -> EndOfLiteral(i)
                     [] Minused(i) -> Longest(i + 1, IsNumber)
                     [] c \in Singles /\ ~Slashed(i) /\ ~Minused(i) -> Longest(i, IsOperator)
                     [] OTHER -> i + 1
  BY DEF EndFrom
<1> HIDE DEF c, d, m
<1>4. c = "/" /\ d = "*" => EndFrom(i) = EndOfComment(i)
  BY <1>1, <1>2, <1>3
<1>5. c = "#" \/ (c = "/" /\ d = "/") => EndFrom(i) = EndOfLine(i)
  BY <1>1, <1>2, <1>3
<1>6. c \in Letters => EndFrom(i) = Longest(i, IsName)
  BY <1>1, <1>2, <1>3
<1>7. c \in Digits => EndFrom(i) = Longest(i, IsNumber)
  BY <1>1, <1>2, <1>3
<1>8. c \in Quotes => EndFrom(i) = EndOfLiteral(i)
  BY <1>1, <1>2, <1>3
<1>9. Minused(i) => EndFrom(i) = Longest(i + 1, IsNumber)
  BY <1>1, <1>2, <1>3
<1>10. c \in Singles /\ ~Slashed(i) /\ ~Minused(i) => EndFrom(i) = Longest(i, IsOperator)
  BY <1>1, <1>2, <1>3
<1>11. c \notin Letters \cup Digits \cup Quotes \cup Singles \cup {"#"} =>
         EndFrom(i) = i + 1
  BY <1>1, <1>2, <1>3
<1> QED
  BY <1>4, <1>5, <1>6, <1>7, <1>8, <1>9, <1>10, <1>11 DEF c, d

\* It ends behind its place and within the text, or nowhere.
LEMMA Advances ==
  ASSUME text \in Seq(Characters), NEW i \in 1 .. Len(text)
  PROVE  EndFrom(i) # 0 => EndFrom(i) \in i + 1 .. Len(text) + 1
<1> DEFINE c == Char(text, i)
<1>1. Len(text) \in Nat /\ i \in Nat /\ i > 0 /\ i <= Len(text) /\ i \in 1 .. Len(text) + 1
  OBVIOUS
<1>2. c # Nul
  BY <1>1, Ending
<1>3. CASE c = "/" /\ Char(text, i + 1) = "*"
  <2>1. EndFrom(i) = EndOfComment(i)
    BY <1>3, EndFromIs
  <2>2. EndOfComment(i) # 0 => EndOfComment(i) \in i + 4 .. Len(text) + 1
    BY <1>1, CommentEndIs
  <2> QED
    BY <1>1, <2>1, <2>2
<1>4. CASE c = "#" \/ (c = "/" /\ Char(text, i + 1) = "/")
  <2>1. EndFrom(i) = EndOfLine(i)
    BY <1>4, EndFromIs
  <2>2. c \notin {Nul, "\n"}
    BY <1>2, <1>4
  <2>3. EndOfLine(i) = EndOfLine(i + 1) /\ i + 1 \in 1 .. Len(text) + 1
    BY <1>1, <2>2, LineEndIs
  <2>4. EndOfLine(i + 1) \in i + 1 .. Len(text) + 1
    BY <2>3, LineEndIs
  <2> QED
    BY <2>1, <2>3, <2>4
<1>5. CASE c \in Letters
  BY <1>5, EndFromIs, LongestName
<1>6. CASE c \in Digits
  BY <1>6, EndFromIs, LongestNumber
<1>7. CASE c \in Quotes
  <2>1. EndOfLiteral(i) # 0 => EndOfLiteral(i) \in i + 2 .. Len(text) + 1
    BY <1>1, LiteralEndIs
  <2>2. EndFrom(i) = EndOfLiteral(i)
    BY <1>7, EndFromIs
  <2> QED
    BY <1>1, <2>1, <2>2
<1>8. CASE c \in Singles /\ ~Slashed(i) /\ ~Minused(i)
  BY <1>8, EndFromIs, LongestOperator
<1>10. CASE Minused(i)
  <2>1. Char(text, i + 1) \in Digits /\ EndFrom(i) = Longest(i + 1, IsNumber)
    BY <1>10, EndFromIs DEF Minused
  <2>2. i + 1 \in 1 .. Len(text)
    <3>1. i + 1 > Len(text) => Char(text, i + 1) = Nul
      <4>1. i + 1 \in Nat /\ i + 1 > 0
        BY <1>1
      <4> QED
        BY <4>1, Ending
    <3>2. ~(i + 1 > Len(text))
      BY <2>1, <3>1, Classes
    <3> QED
      BY <1>1, <3>2
  <2>3. EndFrom(i) \in (i + 1) + 1 .. Len(text) + 1
    BY <2>1, <2>2, LongestNumber
  <2> QED
    BY <1>1, <2>3
<1>9. CASE c \notin Letters \cup Digits \cup Quotes \cup Singles \cup {"#"}
  BY <1>1, <1>9, EndFromIs
<1> QED
  BY <1>3, <1>4, <1>5, <1>6, <1>7, <1>8, <1>9, <1>10 DEF Slashed

LEMMA FromDef ==
  ASSUME text \in Seq(Characters)
  PROVE  CTokensFrom = [i \in 1 .. Len(text) + 1 |->
                          IF i > Len(text) THEN <<>>
                          ELSE IF EndFrom(i) = 0 THEN <<Open>>
                          ELSE TokenAt(i, EndFrom(i)) \o CTokensFrom[EndFrom(i)]]
<1> DEFINE m == Len(text)
           Step(f, i) == IF i > m THEN <<>>
                         ELSE IF EndFrom(i) = 0 THEN <<Open>>
                         ELSE TokenAt(i, EndFrom(i)) \o f[EndFrom(i)]
           Dom(n) == m + 1 - n .. m + 1
           T == {n \in Nat : n <= m => \E f : f = [i \in Dom(n) |-> Step(f, i)]}
<1>0. m \in Nat /\ \A i \in 1 .. m : EndFrom(i) # 0 => EndFrom(i) \in i + 1 .. m + 1
  BY Advances
<1> HIDE DEF m
<1>1. 0 \in T
  <2> DEFINE f == [i \in Dom(0) |-> <<>>]
  <2>1. \A i \in Dom(0) : i > m
    BY <1>0
  <2>2. f = [i \in Dom(0) |-> Step(f, i)]
    BY <2>1
  <2> HIDE DEF f
  <2> QED
    BY <2>2
<1>2. ASSUME NEW n \in Nat, n \in T PROVE n + 1 \in T
  <2> SUFFICES ASSUME n + 1 <= m
               PROVE  \E f : f = [i \in Dom(n + 1) |-> Step(f, i)]
    OBVIOUS
  <2>1. PICK f : f = [i \in Dom(n) |-> Step(f, i)]
    BY <1>2, <1>0
  <2> DEFINE g == [i \in Dom(n + 1) |-> IF i = m - n THEN Step(f, i) ELSE f[i]]
  <2>2. \A i \in Dom(n + 1) : Step(g, i) = Step(f, i)
    <3>1. \A i \in Dom(n + 1) : i <= m /\ EndFrom(i) # 0 => EndFrom(i) \in Dom(n)
      BY <1>0
    <3>2. \A k \in Dom(n) : g[k] = f[k]
      BY <1>0
    <3> HIDE DEF g, Dom
    <3>3. \A i \in Dom(n + 1) : i \in Int
      BY <1>0 DEF Dom
    <3> QED
      BY <1>0, <3>1, <3>2, <3>3
  <2>3. \A i \in Dom(n) : f[i] = Step(f, i)
    BY <2>1
  <2>4. \A i \in Dom(n + 1) : g[i] = Step(f, i)
    <3>1. \A i \in Dom(n + 1) : i = m - n \/ i \in Dom(n)
      BY <1>0
    <3> HIDE DEF Step, Dom
    <3> QED
      BY <2>3, <3>1
  <2>5. g = [i \in Dom(n + 1) |-> g[i]]
    <3> HIDE DEF Step, Dom
    <3> QED
      OBVIOUS
  <2>6. g = [i \in Dom(n + 1) |-> Step(g, i)]
    <3> HIDE DEF g, Step, Dom
    <3> QED
      BY <2>2, <2>4, <2>5
  <2> HIDE DEF g
  <2> QED
    BY <2>6
<1>3. m \in T
  <2> HIDE DEF T
  <2> QED
    BY <1>0, <1>1, <1>2, Induct
<1>4. \E f : f = [i \in 1 .. m + 1 |-> Step(f, i)]
  <2>1. m + 1 - m = 1
    BY <1>0
  <2> HIDE DEF Step
  <2> QED
    BY <1>0, <1>3, <2>1
<1>5. CTokensFrom = CHOOSE f : f = [i \in 1 .. m + 1 |-> Step(f, i)]
  BY DEF CTokensFrom, m
<1>6. CTokensFrom = [i \in 1 .. m + 1 |-> Step(CTokensFrom, i)]
  <2> HIDE DEF Step
  <2> QED
    BY <1>4, <1>5
<1> QED
  BY <1>6 DEF m

\* What begins at i says which token it is.
LEMMA TokenAtIs ==
  ASSUME NEW i, NEW q
  PROVE  /\ Char(text, i) \in Letters => TokenAt(i, q) = <<Token("Id", 0, i, q)>>
         /\ Char(text, i) \in Digits =>
              TokenAt(i, q) = <<Token("Num", ValueOf(i, q - 1), i, q)>>
         /\ Minused(i) => TokenAt(i, q) = <<Token("Num", -ValueOf(i + 1, q - 1), i, q)>>
         /\ Char(text, i) = "'" => TokenAt(i, q) = <<Token("Num", LastChar(i, q), i, q)>>
         /\ Char(text, i) = "\"" => TokenAt(i, q) = <<Token("String", 0, i, q)>>
         /\ Char(text, i) \in Singles /\ ~Slashed(i) /\ ~Minused(i) =>
              TokenAt(i, q) = <<Token(IF q = i + 2 THEN Char(text, i) \o Char(text, i + 1)
                                      ELSE Char(text, i), 0, i, q)>>
         /\ Slashed(i)
              \/ Char(text, i) \notin Letters \cup Digits \cup Quotes \cup Singles =>
              TokenAt(i, q) = <<>>
<1> DEFINE c == Char(text, i)
           d == Char(text, i + 1)
           m == d \in Digits
           two == c \o d
           v == ValueOf(i, q - 1)
           u == -ValueOf(i + 1, q - 1)
           l == LastChar(i, q)
           one(tk, value) == <<Token(tk, value, i, q)>>
<1>1. /\ "/" \in Singles /\ "-" \in Singles /\ Quotes = {"'", "\""} /\ "'" # "\""
      /\ c \in Letters => c \notin Digits \cup Quotes \cup Singles
      /\ c \in Digits => c \notin Quotes \cup Singles
      /\ c \in Quotes => c \notin Singles
  BY Classes DEF Quotes
<1>2. /\ Slashed(i) <=> c = "/" /\ d \in {"/", "*"}
      /\ Minused(i) <=> c = "-" /\ m
  BY DEF Slashed, Minused
<1>3. TokenAt(i, q) =
        CASE c \in Letters -> one("Id", 0)
          [] c \in Digits -> one("Num", v)
          [] Minused(i) -> one("Num", u)
          [] c \in Quotes -> IF c = "'" THEN one("Num", l) ELSE one("String", 0)
          [] c \in Singles /\ ~Slashed(i) /\ ~Minused(i) ->
               one(IF q = i + 2 THEN two ELSE c, 0)
          [] OTHER -> <<>>
  BY DEF TokenAt
<1> HIDE DEF c, d, m, v, u, l, one, two
<1>4. c \in Letters => TokenAt(i, q) = one("Id", 0)
  BY <1>1, <1>2, <1>3
<1>5. c \in Digits => TokenAt(i, q) = one("Num", v)
  BY <1>1, <1>2, <1>3
<1>6. Minused(i) => TokenAt(i, q) = one("Num", u)
  BY <1>1, <1>2, <1>3
<1>7. c = "'" => TokenAt(i, q) = one("Num", l)
  BY <1>1, <1>2, <1>3
<1>8. c = "\"" => TokenAt(i, q) = one("String", 0)
  BY <1>1, <1>2, <1>3
<1>9. c \in Singles /\ ~Slashed(i) /\ ~Minused(i) =>
        TokenAt(i, q) = one(IF q = i + 2 THEN two ELSE c, 0)
  BY <1>1, <1>2, <1>3
<1>10. Slashed(i) \/ c \notin Letters \cup Digits \cup Quotes \cup Singles =>
         TokenAt(i, q) = <<>>
  BY <1>1, <1>2, <1>3
<1> QED
  BY <1>4, <1>5, <1>6, <1>7, <1>8, <1>9, <1>10 DEF c, d, v, u, l, one, two

\* That is one token or none.
LEMMA TokenIs ==
  ASSUME NEW i, NEW q
  PROVE  TokenAt(i, q) = <<>> \/ \E t : TokenAt(i, q) = <<t>>
<1> DEFINE c == Char(text, i)
<1>1. \/ c \in Letters \/ c \in Digits \/ Minused(i) \/ c = "'" \/ c = "\""
      \/ c \in Singles /\ ~Slashed(i) /\ ~Minused(i)
      \/ Slashed(i) \/ c \notin Letters \cup Digits \cup Quotes \cup Singles
  BY DEF Quotes
<1> HIDE DEF c
<1> QED
  BY <1>1, TokenAtIs DEF c

\* From every place on they are a sequence.
LEMMA FromSeq ==
  ASSUME text \in Seq(Characters)
  PROVE  \E T : \A i \in 1 .. Len(text) + 1 : CTokensFrom[i] \in Seq(T)
<1> DEFINE m == Len(text)
           T == {Open} \cup UNION {Range(TokenAt(i, EndFrom(i))) : i \in 1 .. m}
           S == {n \in Nat : n <= m => \A i \in m + 1 - n .. m + 1 : CTokensFrom[i] \in Seq(T)}
<1>0. /\ m \in Nat
      /\ \A i \in 1 .. m : EndFrom(i) # 0 => EndFrom(i) \in i + 1 .. m + 1
      /\ \A i \in 1 .. m + 1 :
           CTokensFrom[i] = IF i > m THEN <<>>
                            ELSE IF EndFrom(i) = 0 THEN <<Open>>
                            ELSE TokenAt(i, EndFrom(i)) \o CTokensFrom[EndFrom(i)]
  BY Advances, FromDef
<1>1. \A i \in 1 .. m : TokenAt(i, EndFrom(i)) \in Seq(T)
  <2> SUFFICES ASSUME NEW i \in 1 .. m PROVE TokenAt(i, EndFrom(i)) \in Seq(T)
    OBVIOUS
  <2>1. Range(TokenAt(i, EndFrom(i))) \subseteq T
    OBVIOUS
  <2>2. CASE TokenAt(i, EndFrom(i)) = <<>>
    BY <2>2
  <2>3. CASE \E t : TokenAt(i, EndFrom(i)) = <<t>>
    <3>1. PICK t : TokenAt(i, EndFrom(i)) = <<t>>
      BY <2>3
    <3>2. t \in Range(<<t>>)
      BY DEF Range
    <3>3. t \in T
      BY <2>1, <3>1, <3>2
    <3> HIDE DEF T
    <3> QED
      BY <3>1, <3>3
  <2> QED
    BY <1>0, <2>2, <2>3, TokenIs
<1>2. Open \in T
  OBVIOUS
<1> HIDE DEF m, T
<1>3. 0 \in S
  <2>1. \A i \in m + 1 - 0 .. m + 1 : i > m /\ i \in 1 .. m + 1
    BY <1>0
  <2>2. \A i \in m + 1 - 0 .. m + 1 : CTokensFrom[i] = <<>>
    BY <1>0, <2>1
  <2>3. <<>> \in Seq(T)
    OBVIOUS
  <2>4. \A i \in m + 1 - 0 .. m + 1 : CTokensFrom[i] \in Seq(T)
    BY <2>2, <2>3
  <2> QED
    BY <2>4
<1>4. ASSUME NEW n \in Nat, n \in S PROVE n + 1 \in S
  <2> SUFFICES ASSUME n + 1 <= m, NEW i \in m + 1 - (n + 1) .. m + 1
               PROVE  CTokensFrom[i] \in Seq(T)
    OBVIOUS
  <2>0. \A k \in m + 1 - n .. m + 1 : CTokensFrom[k] \in Seq(T)
    <3>1. n <= m
      BY <1>0
    <3> QED
      BY <1>4, <3>1
  <2>1. CASE i \in m + 1 - n .. m + 1
    BY <2>0, <2>1
  <2>2. CASE i = m - n
    <3>1. i \in 1 .. m /\ ~(i > m) /\ i \in 1 .. m + 1
      BY <1>0, <2>2
    <3>2. CASE EndFrom(i) = 0
      <4>1. CTokensFrom[i] = <<Open>>
        BY <1>0, <3>1, <3>2
      <4>2. <<Open>> \in Seq(T)
        BY <1>2
      <4> QED
        BY <4>1, <4>2
    <3>3. CASE EndFrom(i) # 0
      <4>1. EndFrom(i) \in m + 1 - n .. m + 1
        BY <1>0, <2>2, <3>1, <3>3
      <4>2. CTokensFrom[EndFrom(i)] \in Seq(T)
        BY <2>0, <4>1
      <4>3. TokenAt(i, EndFrom(i)) \in Seq(T)
        BY <1>1, <3>1
      <4>4. TokenAt(i, EndFrom(i)) \o CTokensFrom[EndFrom(i)] \in Seq(T)
        BY <4>2, <4>3
      <4> QED
        BY <1>0, <3>1, <3>3, <4>4
    <3> QED
      BY <3>2, <3>3
  <2> QED
    BY <1>0, <2>1, <2>2
<1>5. m \in S
  <2> HIDE DEF S
  <2> QED
    BY <1>0, <1>3, <1>4, Induct
<1> QED
  <2>1. \A i \in m + 1 - m .. m + 1 : CTokensFrom[i] \in Seq(T)
    BY <1>0, <1>5
  <2>2. m + 1 - m = 1
    BY <1>0
  <2> QED
    BY <2>1, <2>2 DEF m

\* What begins at a place comes first, and behind it what begins where it ends.
LEMMA FromIs ==
  ASSUME text \in Seq(Characters), NEW i \in 1 .. Len(text) + 1
  PROVE  /\ i > Len(text) => From(i) = <<>>
         /\ i <= Len(text) /\ EndFrom(i) = 0 => From(i) = <<Open>>
         /\ i <= Len(text) /\ EndFrom(i) # 0 =>
              From(i) = TokenAt(i, EndFrom(i)) \o From(EndFrom(i))
         /\ i <= Len(text) /\ TokenAt(i, EndFrom(i)) = <<>> => From(i) = From(EndFrom(i))
<1>1. /\ Len(text) \in Nat /\ i \in Nat /\ i > 0
      /\ CTokensFrom[i] = IF i > Len(text) THEN <<>>
                          ELSE IF EndFrom(i) = 0 THEN <<Open>>
                          ELSE TokenAt(i, EndFrom(i)) \o CTokensFrom[EndFrom(i)]
  BY FromDef
<1>2. From(i) = CTokensFrom[i] /\ (EndFrom(i) # 0 => From(EndFrom(i)) = CTokensFrom[EndFrom(i)])
      /\ (EndFrom(i) = 0 => From(EndFrom(i)) = <<Open>>)
  BY <1>1 DEF From
<1>3. i <= Len(text) => ~(i > Len(text)) /\ i \in 1 .. Len(text)
  BY <1>1
<1>4. ASSUME i <= Len(text), TokenAt(i, EndFrom(i)) = <<>>
      PROVE  From(i) = From(EndFrom(i))
  <2>1. CASE EndFrom(i) # 0
    <3>1. EndFrom(i) \in 1 .. Len(text) + 1
      BY <1>1, <1>3, <1>4, <2>1, Advances
    <3>2. PICK T : CTokensFrom[EndFrom(i)] \in Seq(T)
      BY <3>1, FromSeq
    <3>3. <<>> \o CTokensFrom[EndFrom(i)] = CTokensFrom[EndFrom(i)]
      BY <3>2
    <3> QED
      BY <1>1, <1>2, <1>3, <1>4, <2>1, <3>3
  <2> QED
    BY <1>1, <1>2, <1>3, <1>4, <2>1
<1> QED
  BY <1>1, <1>2, <1>3, <1>4

-----------------------------------------------------------------------------
(* What each place in next has seen. *)

\* No step changes the text, and what is said of the text alone stays.
LEMMA Frozen ==
  ASSUME [Next]_vars
  PROVE  text' = text
<1>1. CASE Next
  BY <1>1 DEF Next, Newline, Ignored, Directive, LineComment, RestOfLine, LineEnds,
     Comment, InComment, CommentEnds, Name, MoreOfName, NameEnds, Minus, Number, Digit,
     HexDigit, NumberEnds, Operator, Literal, InLiteral, LiteralEnds, Done, PastTheEnd, same
<1>2. CASE UNCHANGED vars
  BY <1>2 DEF vars
<1> QED
  BY <1>1, <1>2

\* An emitted token is added to the tokens, and next is where the token ends.
LEMMA Emitted ==
  ASSUME \E T : tokens \in Seq(T), NEW tk, NEW v, NEW from, NEW q, Emit(tk, v, from, q)
  PROVE  /\ place' = "next" /\ p' = q
         /\ \E T : tokens' \in Seq(T)
         /\ \E t : tokens' = Append(tokens, t) /\ t.at = from /\ t.end = q
<1>1. PICK T : tokens \in Seq(T)
  OBVIOUS
<1> DEFINE t == Token(tk, v, from, q)
<1>2. tokens' = Append(tokens, t) /\ place' = "next" /\ p' = q
  BY DEF Emit
<1>3. t.at = from /\ t.end = q
  BY DEF Token
<1> HIDE DEF t
<1>4. tokens' \in Seq(T \cup {t})
  <2>1. tokens \in Seq(T \cup {t})
    BY <1>1
  <2> QED
    BY <1>2, <2>1
<1> QED
  BY <1>2, <1>3, <1>4

LEMMA TypedKept ==
  ASSUME Typed, [Next]_vars
  PROVE  Typed'
<1>0. /\ text \in Seq(Characters) /\ p \in Nat /\ p > 0 /\ start \in Nat /\ start > 0
      /\ line \in Nat /\ place \in Places /\ negative \in BOOLEAN
      /\ \E T : tokens \in Seq(T)
      /\ text' = text
  BY Frozen DEF Typed
<1> USE DEF Go, same, Places
<1> SUFFICES /\ p' \in Nat /\ p' > 0 /\ start' \in Nat /\ start' > 0
             /\ line' \in Nat /\ place' \in Places /\ negative' \in BOOLEAN
             /\ \E T : tokens' \in Seq(T)
  BY <1>0 DEF Typed
<1>1. CASE Newline
  BY <1>0, <1>1 DEF Newline
<1>2. CASE Ignored
  BY <1>0, <1>2 DEF Ignored
<1>3. CASE Directive
  BY <1>0, <1>3 DEF Directive
<1>4. CASE LineComment
  BY <1>0, <1>4 DEF LineComment
<1>5. CASE RestOfLine
  BY <1>0, <1>5 DEF RestOfLine
<1>6. CASE LineEnds
  BY <1>0, <1>6 DEF LineEnds
<1>7. CASE Comment
  BY <1>0, <1>7 DEF Comment
<1>8. CASE InComment
  BY <1>0, <1>8 DEF InComment, LineBehind
<1>9. CASE CommentEnds
  BY <1>0, <1>9 DEF CommentEnds
<1>10. CASE Name
  BY <1>0, <1>10 DEF Name
<1>11. CASE MoreOfName
  BY <1>0, <1>11 DEF MoreOfName
<1>12. CASE NameEnds
  BY <1>0, <1>12, Emitted DEF NameEnds
<1>13. CASE Minus
  BY <1>0, <1>13 DEF Minus
<1>14. CASE Number
  BY <1>0, <1>14 DEF Number
<1>15. CASE Digit
  BY <1>0, <1>15 DEF Digit
<1>16. CASE HexDigit
  BY <1>0, <1>16 DEF HexDigit
<1>17. CASE NumberEnds
  <2>1. Emit("Num", ival', start, IF place = "hex" THEN p + 1 ELSE p)
    BY <1>17 DEF NumberEnds
  <2>2. place' = "next" /\ p' \in {p, p + 1} /\ \E T : tokens' \in Seq(T)
    BY <1>0, <2>1, Emitted
  <2>3. line' = line /\ start' = start /\ negative' \in BOOLEAN
    BY <1>17 DEF NumberEnds
  <2>4. p' \in Nat /\ p' > 0
    BY <1>0, <2>2
  <2> QED
    BY <1>0, <2>2, <2>3, <2>4
<1>18. CASE Operator
  <2>1. \E tk : Emit(tk, 0, p, p + 1) \/ Emit(tk, 0, p, p + 2)
    BY <1>18 DEF Operator
  <2>2. place' = "next" /\ p' \in {p + 1, p + 2} /\ \E T : tokens' \in Seq(T)
    BY <1>0, <2>1, Emitted
  <2> QED
    BY <1>0, <1>18, <2>2 DEF Operator
<1>19. CASE Literal
  BY <1>0, <1>19 DEF Literal
<1>20. CASE InLiteral
  BY <1>0, <1>20 DEF InLiteral
<1>21. CASE LiteralEnds
  <2>1. \E tk : Emit(tk, ival', start, p + 1)
    BY <1>21 DEF LiteralEnds
  <2>2. place' = "next" /\ p' = p + 1 /\ \E T : tokens' \in Seq(T)
    BY <1>0, <2>1, Emitted
  <2> QED
    BY <1>0, <1>21, <2>2 DEF LiteralEnds
<1>22. CASE Done
  BY <1>0, <1>22 DEF Done
<1>23. CASE PastTheEnd
  BY <1>0, <1>23 DEF PastTheEnd
<1>24. CASE UNCHANGED vars
  BY <1>0, <1>24 DEF vars
<1> QED
  BY <1>1, <1>2, <1>3, <1>4, <1>5, <1>6, <1>7, <1>8, <1>9, <1>10, <1>11, <1>12, <1>13,
     <1>14, <1>15, <1>16, <1>17, <1>18, <1>19, <1>20, <1>21, <1>22, <1>23, <1>24 DEF Next

\* Which steps lead to a place within a token, and which leave a minus behind.
LEMMA Reached ==
  ASSUME [Next]_vars
  PROVE  /\ place' = "name" => Name \/ MoreOfName \/ UNCHANGED vars
         /\ place' \in {"decimal", "octal"} => Number \/ Digit \/ UNCHANGED vars
         /\ place' = "hex" => Number \/ HexDigit \/ UNCHANGED vars
         /\ place' = "literal" => Literal \/ InLiteral \/ UNCHANGED vars
         /\ place' = "closing" => InComment \/ UNCHANGED vars
         /\ place' = "done" => Done \/ UNCHANGED vars
         /\ place' = "undefined" => PastTheEnd \/ UNCHANGED vars
<1>1. Newline \/ Ignored \/ LineEnds \/ CommentEnds \/ Minus => place' = "next"
  BY DEF Newline, Ignored, LineEnds, CommentEnds, Minus, Go
<1>2. NameEnds \/ NumberEnds \/ Operator \/ LiteralEnds => place' = "next"
  BY DEF NameEnds, NumberEnds, Operator, LiteralEnds, Emit
<1>3. Directive \/ LineComment \/ RestOfLine => place' = "line"
  BY DEF Directive, LineComment, RestOfLine, Go
<1>4. /\ Comment => place' = "comment"
      /\ InComment => place' \in {"comment", "closing"}
  BY DEF Comment, InComment, Go
<1>5. /\ Name \/ MoreOfName => place' = "name"
      /\ Number => place' \in Numbers
      /\ HexDigit => place' = "hex"
  BY DEF Name, MoreOfName, Number, HexDigit, Go, Numbers
<1>6. Digit => place' \in {"decimal", "octal"}
  BY DEF Digit, Go, Counted, At
<1>7. /\ Literal \/ InLiteral => place' = "literal"
      /\ Done => place' = "done"
      /\ PastTheEnd => place' = "undefined"
  BY DEF Literal, InLiteral, Done, PastTheEnd, Go
<1>8. Next \/ UNCHANGED vars
  OBVIOUS
<1> QED
  BY <1>1, <1>2, <1>3, <1>4, <1>5, <1>6, <1>7, <1>8 DEF Next, Numbers

\* Whatever is said of the text alone is still so when the place has moved.
LEMMA Same ==
  ASSUME text' = text
  PROVE  /\ Len(text)' = Len(text)
         /\ C' = Char(text, p') /\ D' = Char(text, p' + 1)
         /\ \A i : Char(text, i)' = Char(text, i)
         /\ CTokensFrom' = CTokensFrom
<1>1. C' = Char(text, p') /\ D' = Char(text, p' + 1)
  BY DEF C, D, Char
<1>2. \A i : Char(text, i)' = Char(text, i)
  BY DEF Char
<1>3. \A i : EndFrom(i)' = EndFrom(i)
  BY DEF EndFrom, Slashed, Minused, EndOfComment, EndOfLine, EndOfLiteral, Longest,
     IsName, IsNumber, IsDecimal, IsOctal, IsHex, IsOperator, Escaped, All, Char
<1>4. \A radix : Powers(radix)' = Powers(radix)
  BY DEF Powers
<1>5. \A i, j, radix : Positional(i, j, radix)' = Positional(i, j, radix)
  BY <1>2, <1>4 DEF Positional
<1>6. \A i, j : ValueOf(i, j)' = ValueOf(i, j)
  BY <1>5 DEF ValueOf
<1>7. \A i, q : LastChar(i, q)' = LastChar(i, q)
  BY DEF LastChar, Escaped, Char
<1>8. \A i, q : TokenAt(i, q)' = TokenAt(i, q)
  BY <1>2, <1>6, <1>7 DEF TokenAt, Minused, Slashed
<1>9. CTokensFrom' = CTokensFrom
  BY <1>3, <1>8 DEF CTokensFrom
<1> QED
  BY <1>1, <1>2, <1>9

LEMMA InNameKept ==
  ASSUME Typed, InName, [Next]_vars
  PROVE  InName'
<1>0. text' = text /\ p \in Nat /\ start \in Nat
  BY Frozen DEF Typed
<1> SUFFICES ASSUME place' = "name"
             PROVE  /\ start' < p' /\ Char(text, start') \in Letters
                    /\ \A k \in start' .. p' - 1 : Char(text, k) \in Letters \cup Digits
  BY <1>0 DEF InName
<1>1. CASE Name
  <2>1. /\ start' = p /\ p' = p + 1 /\ Char(text, p) \in Letters
    BY <1>1 DEF Name, AtToken, C, Go
  <2>2. \A k \in p .. (p + 1) - 1 : k = p
    BY <1>0
  <2> QED
    BY <1>0, <2>1, <2>2
<1>2. CASE MoreOfName
  <2>1. /\ start' = start /\ p' = p + 1 /\ Char(text, p) \in Letters \cup Digits
        /\ place = "name"
    BY <1>2 DEF MoreOfName, At, C, Go, same
  <2>2. \A k \in start .. (p + 1) - 1 : k \in start .. p - 1 \/ k = p
    BY <1>0
  <2> QED
    BY <1>0, <2>1, <2>2 DEF InName
<1>3. CASE UNCHANGED vars
  BY <1>0, <1>3 DEF InName, vars
<1> QED
  BY <1>1, <1>2, <1>3, Reached

LEMMA InNumberKept ==
  ASSUME Typed, Signed, InNumber, [Next]_vars
  PROVE  InNumber'
<1>0. text' = text /\ p \in Nat /\ start \in Nat /\ First \in Nat
  BY Frozen DEF Typed, First
<1> SUFFICES
      /\ place' \in Numbers => First' < p'
      /\ place' = "decimal" =>
           /\ Char(text, First') # "0"
           /\ \A k \in First' .. p' - 1 : Char(text, k) \in Digits
      /\ place' = "octal" =>
           /\ Char(text, First') = "0" /\ Char(text, First' + 1) \notin {"x", "X"}
           /\ \A k \in First' .. p' - 1 : Char(text, k) \in OctalDigits
      /\ place' = "hex" =>
           /\ Char(text, First') = "0" /\ Char(text, First' + 1) \in {"x", "X"}
           /\ \A k \in First' + 2 .. p' : Char(text, k) \in HexDigits
  BY <1>0 DEF InNumber
<1>1. CASE Number
  <2>1. First' = p
    <3>1. /\ place = "next" /\ negative' = negative
          /\ start' = IF negative THEN start ELSE p
      BY <1>1 DEF Number, AtToken, At
    <3>2. negative => p = start + 1
      BY <3>1 DEF Signed
    <3> QED
      BY <3>1, <3>2 DEF First
  <2>2. /\ p' = p + 1 /\ C \in Digits
        /\ place' = CASE C # "0" -> "decimal" [] C = "0" /\ D \in {"x", "X"} -> "hex"
                      [] OTHER -> "octal"
    BY <1>1 DEF Number, AtToken, Go
  <2>3. /\ \A k \in p .. p' - 1 : k = p
        /\ \A k \in p + 2 .. p' : FALSE
        /\ p < p'
    BY <1>0, <2>2
  <2> QED
    BY <2>1, <2>2, <2>3, Classes DEF C, D
<1>2. CASE Digit
  <2>1. /\ First' = First /\ p' = p + 1 /\ place' = place
        /\ place \in {"decimal", "octal"} /\ C \in Counted[place]
    BY <1>2 DEF Digit, At, Go, First, Counted
  <2>2. \A k \in First .. (p + 1) - 1 : k \in First .. p - 1 \/ k = p
    BY <1>0
  <2>3. First < p /\ First < p + 1
    BY <1>0, <2>1 DEF InNumber, Numbers
  <2> QED
    BY <2>1, <2>2, <2>3 DEF InNumber, C, Counted
<1>3. CASE HexDigit
  <2>1. /\ First' = First /\ p' = p + 1 /\ place' = "hex" /\ place = "hex"
        /\ D \in HexDigits
    BY <1>3 DEF HexDigit, At, Go, First
  <2>2. \A k \in First + 2 .. (p + 1) : k \in First + 2 .. p \/ k = p + 1
    BY <1>0
  <2>3. First < p /\ First < p + 1
    BY <1>0, <2>1 DEF InNumber, Numbers
  <2> QED
    BY <2>1, <2>2, <2>3 DEF InNumber, D
<1>4. CASE UNCHANGED vars
  <2>1. First' = First /\ p' = p /\ place' = place
    BY <1>4 DEF First, vars
  <2> QED
    BY <2>1 DEF InNumber
<1> QED
  BY <1>1, <1>2, <1>3, <1>4, Reached DEF Numbers

LEMMA InQuoteKept ==
  ASSUME Typed, InQuote, [Next]_vars
  PROVE  InQuote'
<1>0. text' = text /\ p \in Nat /\ start \in Nat
  BY Frozen DEF Typed
<1>1. \A i, j : Shut(i, j)' <=> Shut(i, j)
  BY <1>0 DEF Shut, Escaped, Char
<1>2. Escaped(start, p)' <=> Escaped(start', p')
  BY <1>0 DEF Escaped, Char
<1>3. (\A j \in start + 1 .. p - 1 : ~Shut(start, j))'
        <=> \A j \in start' + 1 .. p' - 1 : ~Shut(start', j)
  BY <1>0 DEF Shut, Escaped, Char
<1> SUFFICES ASSUME place' = "literal"
             PROVE  /\ start' < p' /\ quote' \in Quotes /\ Char(text, start') = quote'
                    /\ ~Escaped(start', p')
                    /\ \A j \in start' + 1 .. p' - 1 : ~Shut(start', j)
  BY <1>0, <1>2, <1>3 DEF InQuote
<1>4. CASE Literal
  <2>1. start' = p /\ p' = p + 1 /\ quote' = Char(text, p) /\ Char(text, p) \in Quotes
    BY <1>4 DEF Literal, AtToken, C, Go
  <2>2. ~Escaped(p, p + 1)
    <3>1. Char(text, p) # "\\"
      BY <2>1, Classes
    <3> QED
      BY <1>0, <3>1, Plain
  <2>3. p < p + 1 /\ \A j \in p + 1 .. (p + 1) - 1 : FALSE
    BY <1>0
  <2> QED
    BY <2>1, <2>2, <2>3
<1>5. CASE InLiteral
  <2>1. /\ place = "literal" /\ start' = start /\ quote' = quote
        /\ Char(text, p) # quote
        /\ p' = IF Char(text, p) = "\\" THEN p + 2 ELSE p + 1
    BY <1>5 DEF InLiteral, At, C, Go
  <2>2. /\ start < p /\ quote \in Quotes /\ Char(text, start) = quote
        /\ ~Escaped(start, p) /\ \A j \in start + 1 .. p - 1 : ~Shut(start, j)
    BY <2>1 DEF InQuote
  <2>3. Char(text, start) # "\\"
    BY <2>2, Classes
  <2>4. ~Shut(start, p)
    BY <2>1, <2>2 DEF Shut
  <2>5. CASE Char(text, p) = "\\"
    <3>1. Escaped(start, p + 1) /\ ~Escaped(start, p + 2)
      BY <1>0, <2>2, <2>3, <2>5, Backslash
    <3>2. ~Shut(start, p + 1)
      BY <3>1 DEF Shut
    <3>3. \A j \in start + 1 .. (p + 2) - 1 : j \in start + 1 .. p - 1 \/ j = p \/ j = p + 1
      BY <1>0
    <3>4. p' = p + 2 /\ start < p + 2
      BY <1>0, <2>1, <2>2, <2>5
    <3> QED
      BY <2>1, <2>2, <2>4, <3>1, <3>2, <3>3, <3>4
  <2>6. CASE Char(text, p) # "\\"
    <3>1. ~Escaped(start, p + 1)
      BY <1>0, <2>2, <2>6, Plain
    <3>2. \A j \in start + 1 .. (p + 1) - 1 : j \in start + 1 .. p - 1 \/ j = p
      BY <1>0
    <3>3. p' = p + 1 /\ start < p + 1
      BY <1>0, <2>1, <2>2, <2>6
    <3> QED
      BY <2>1, <2>2, <2>4, <3>1, <3>2, <3>3
  <2> QED
    BY <2>5, <2>6
<1>6. CASE UNCHANGED vars
  <2>1. start' = start /\ p' = p /\ quote' = quote /\ place' = place
    BY <1>6 DEF vars
  <2> QED
    BY <2>1 DEF InQuote
<1> QED
  BY <1>4, <1>5, <1>6, Reached

LEMMA InPlaceKept ==
  ASSUME Typed, InPlace, [Next]_vars
  PROVE  InPlace'
<1>0. text' = text /\ text \in Seq(Characters) /\ p \in Nat /\ p > 0 /\ Len(text) \in Nat
  BY Frozen DEF Typed
<1> SUFFICES /\ place' = "closing" => Char(text, p') = "/"
             /\ place' = "done" => p' = Len(text) + 1
             /\ place' = "undefined" => p' > Len(text) + 1
  BY <1>0, Same DEF InPlace
<1>1. ASSUME InComment, place' = "closing" PROVE Char(text, p') = "/"
  BY <1>1 DEF InComment, Closes, Go, C, D
<1>2. ASSUME Done PROVE p' = Len(text) + 1
  <2>1. p' = p /\ p <= Len(text) + 1 /\ Char(text, p) = Nul
    BY <1>0, <1>2 DEF Done, AtToken, At, Go, C
  <2>2. ~(p <= Len(text))
    BY <1>0, <2>1, Ending
  <2> QED
    BY <1>0, <2>1, <2>2
<1>3. ASSUME PastTheEnd PROVE p' > Len(text) + 1
  BY <1>0, <1>3 DEF PastTheEnd, Go
<1>4. ASSUME UNCHANGED vars PROVE p' = p /\ place' = place
  BY <1>4 DEF vars
<1> QED
  BY <1>1, <1>2, <1>3, <1>4, Reached DEF InPlace, C

\* A minus stays behind only while the number it belongs to is read.
LEMMA SignedKept ==
  ASSUME Typed, Signed, [Next]_vars
  PROVE  Signed'
<1>0. text' = text /\ p \in Nat /\ start \in Nat
  BY Frozen DEF Typed
<1> SUFFICES ASSUME negative'
             PROVE  /\ place' \in {"next", "undefined"} \cup Numbers
                    /\ Char(text, start') = "-"
                    /\ place' = "next" => Char(text, p') \in Digits /\ p' = start' + 1
  BY <1>0, Same DEF Signed
<1>1. CASE Minus
  <2>1. start' = p /\ p' = p + 1 /\ place' = "next" /\ C = "-" /\ D \in Digits
    BY <1>1 DEF Minus, AtToken, Go
  <2> QED
    BY <2>1 DEF C, D
<1>2. ASSUME negative PROVE place \in {"next", "undefined"} \cup Numbers
                            /\ Char(text, start) = "-"
                            /\ (place = "next" => C \in Digits /\ p = start + 1)
  BY <1>2 DEF Signed
<1>3. CASE Number
  <2>1. negative' = negative /\ start' = IF negative THEN start ELSE p
    BY <1>3 DEF Number
  <2>2. place' \in Numbers /\ Char(text, start') = "-"
    BY <1>2, <1>3, <2>1 DEF Number, Go, Numbers
  <2> QED
    BY <2>2 DEF Numbers
<1>4. CASE Digit \/ HexDigit
  <2>1. negative' = negative /\ start' = start /\ place' \in Numbers
    BY <1>4 DEF Digit, HexDigit, Go, Numbers, Counted, At
  <2> QED
    BY <1>2, <2>1 DEF Numbers
<1>5. CASE PastTheEnd
  <2>1. negative' = negative /\ start' = start /\ place' = "undefined"
    BY <1>5 DEF PastTheEnd, Go, same
  <2> QED
    BY <1>2, <2>1
<1>6. CASE UNCHANGED vars
  <2>1. negative' = negative /\ start' = start /\ place' = place /\ p' = p
    BY <1>6 DEF vars
  <2> QED
    BY <1>2, <2>1 DEF C
<1>7. ASSUME negative' = negative,
             ~(place = "next" /\ C \in Digits),
             place \notin {"undefined"} \cup Numbers
      PROVE  FALSE
  BY <1>2, <1>7
<1>8. CASE Newline \/ Ignored \/ Directive \/ LineComment \/ Comment \/ Name \/ Operator
           \/ Literal \/ Done
  <2>1. /\ "\n" \notin Digits /\ "#" \notin Digits /\ "/" \notin Digits /\ Nul \notin Digits
        /\ Letters \cap Digits = {} /\ Singles \cap Digits = {} /\ Quotes \cap Digits = {}
    BY Classes
  <2>2. place = "next" /\ C \notin Digits
    BY <1>8, <2>1 DEF Newline, Ignored, Directive, LineComment, Comment, Name, Operator,
       Literal, Done, AtToken, At
  <2>3. negative' = negative
    BY <1>8 DEF Newline, Ignored, Directive, LineComment, Comment, Name, Operator,
       Literal, Done, same
  <2> QED
    BY <1>7, <2>2, <2>3 DEF Numbers
<1>9. CASE RestOfLine \/ LineEnds \/ InComment \/ CommentEnds \/ MoreOfName \/ NameEnds
           \/ InLiteral \/ LiteralEnds
  <2>1. /\ negative' = negative
        /\ place \in {"line", "comment", "closing", "name", "literal"}
    BY <1>9 DEF RestOfLine, LineEnds, InComment, CommentEnds, MoreOfName, NameEnds,
       InLiteral, LiteralEnds, At, same
  <2> QED
    BY <1>7, <2>1 DEF Numbers
<1>10. CASE NumberEnds
  BY <1>10 DEF NumberEnds
<1> QED
  BY <1>1, <1>3, <1>4, <1>5, <1>6, <1>8, <1>9, <1>10 DEF Next

-----------------------------------------------------------------------------
(* The lines that are counted. *)

\* A step sees characters that are no newlines, or sees one and counts it, or
\* emits a token, and then sees no newline outside the quotes of that token.
Quiet ==
  /\ tokens' = tokens /\ line' = line /\ Seen <= Seen'
  /\ \A k \in Seen .. Seen' - 1 : Char(text, k) # "\n"
Counts ==
  /\ tokens' = tokens /\ line' = line + 1
  /\ Char(text, Seen) = "\n" /\ Seen' = Seen + 1
Emits ==
  /\ line' = line /\ Seen <= Seen'
  /\ \E t : /\ tokens' = Append(tokens, t) /\ t.at \in Nat \ {0} /\ t.end = Seen'
            /\ \/ /\ Char(text, t.at) \notin Quotes
                  /\ \A k \in Seen .. Seen' - 1 : Char(text, k) # "\n"
               \/ Char(text, t.at) \in Quotes /\ t.at = Seen

LEMMA Moves ==
  ASSUME Typed, Signed, InName, InNumber, InQuote, InPlace, Next, place' # "undefined"
  PROVE  Quiet \/ Counts \/ Emits
<1>0. /\ p \in Nat \ {0} /\ start \in Nat \ {0} /\ \E T : tokens \in Seq(T)
      /\ "\n" \notin Letters \cup HexDigits \cup Singles \cup Quotes
      /\ OctalDigits \subseteq Digits /\ Digits \subseteq HexDigits
      /\ {"-", "/", "*"} \subseteq Singles
      /\ Letters \cap Quotes = {} /\ Digits \cap Quotes = {} /\ Singles \cap Quotes = {}
  BY Classes DEF Typed
<1>1. ASSUME NEW n \in 0 .. 2, place # "literal", place' # "literal", p' = p + n,
             n > 0 => C # "\n", n > 1 => D # "\n"
      PROVE  /\ Seen <= Seen' /\ Seen = p
             /\ \A k \in Seen .. Seen' - 1 : Char(text, k) # "\n"
  <2>1. Seen = p /\ Seen' = p + n
    BY <1>1 DEF Seen
  <2>2. \A k \in p .. (p + n) - 1 : (k = p /\ n > 0) \/ (k = p + 1 /\ n > 1)
    BY <1>0
  <2>3. p <= p + n
    BY <1>0
  <2> QED
    BY <1>1, <2>1, <2>2, <2>3 DEF C, D
<1> USE DEF AtToken, At, Go, same
<1>2. CASE Newline
  <2>1. Seen = p /\ Seen' = p + 1 /\ Char(text, p) = "\n"
    BY <1>2 DEF Newline, Seen, C
  <2> QED
    BY <1>2, <2>1 DEF Newline, Counts
<1>3. CASE Ignored \/ Directive \/ RestOfLine \/ Minus \/ Number \/ MoreOfName \/ Name
  <2>1. /\ place # "literal" /\ p' = p + 1 /\ C # "\n"
        /\ tokens' = tokens /\ line' = line
    BY <1>0, <1>3
       DEF Ignored, Directive, RestOfLine, Minus, Number, MoreOfName, Name
  <2>2. place' # "literal"
    BY <1>3 DEF Ignored, Directive, RestOfLine, Minus, Number, MoreOfName, Name
  <2> QED
    BY <1>1, <2>1, <2>2 DEF Quiet
<1>4. CASE LineComment \/ Comment
  <2>1. /\ place # "literal" /\ place' # "literal" /\ p' = p + 2 /\ C # "\n" /\ D # "\n"
        /\ tokens' = tokens /\ line' = line
    BY <1>4 DEF LineComment, Comment
  <2> QED
    BY <1>1, <2>1 DEF Quiet
<1>5. CASE LineEnds \/ Done
  <2>1. /\ place # "literal" /\ place' # "literal" /\ p' = p + 0
        /\ tokens' = tokens /\ line' = line
    BY <1>5 DEF LineEnds, Done
  <2> QED
    BY <1>1, <2>1 DEF Quiet
<1>6. CASE InComment
  <2>1. /\ place # "literal" /\ place' # "literal" /\ p' = p + 1
        /\ tokens' = tokens /\ line' = IF C = "\n" THEN line + 1 ELSE line
    BY <1>6 DEF InComment, LineBehind
  <2>2. CASE C = "\n"
    <3>1. Seen = p /\ Seen' = p + 1
      BY <2>1 DEF Seen
    <3> QED
      BY <2>1, <2>2, <3>1 DEF Counts, C
  <2> QED
    BY <1>1, <2>1, <2>2 DEF Quiet
<1>7. CASE CommentEnds
  <2>1. /\ place # "literal" /\ place' # "literal" /\ p' = p + 1
        /\ tokens' = tokens /\ line' = line
    BY <1>7 DEF CommentEnds
  <2>2. C # "\n"
    BY <1>7 DEF CommentEnds, InPlace, Nul
  <2> QED
    BY <1>1, <2>1, <2>2 DEF Quiet
<1>8. place = "hex" => C # "\n"
  <2> SUFFICES ASSUME place = "hex" PROVE Char(text, p) # "\n"
    BY DEF C
  <2>1. /\ First \in Nat /\ First < p /\ Char(text, First + 1) \in {"x", "X"}
        /\ \A k \in First + 2 .. p : Char(text, k) \in HexDigits
    BY <1>0 DEF InNumber, Numbers, First
  <2>2. p = First + 1 \/ p \in First + 2 .. p
    BY <1>0, <2>1
  <2> QED
    BY <1>0, <2>1, <2>2
<1>9. CASE Digit \/ HexDigit
  <2>1. /\ place # "literal" /\ place' # "literal" /\ p' = p + 1
        /\ tokens' = tokens /\ line' = line
    BY <1>9 DEF Digit, HexDigit, Counted
  <2>2. C # "\n"
    <3>1. Digit => C \in Digits
      BY <1>0 DEF Digit, Counted
    <3>2. HexDigit => place = "hex"
      BY DEF HexDigit
    <3> QED
      BY <1>0, <1>8, <1>9, <3>1, <3>2
  <2> QED
    BY <1>1, <2>1, <2>2 DEF Quiet
<1>10. CASE NumberEnds
  <2>1. /\ Emit("Num", ival', start, IF place = "hex" THEN p + 1 ELSE p)
        /\ line' = line /\ place \in Numbers
    BY <1>10 DEF NumberEnds, Counted, Numbers
  <2>2. place' = "next" /\ p' = IF place = "hex" THEN p + 1 ELSE p
    BY <2>1 DEF Emit
  <2>3. /\ Seen <= Seen' /\ Seen = p
        /\ \A k \in Seen .. Seen' - 1 : Char(text, k) # "\n"
    <3>1. place # "literal" /\ place' # "literal"
      BY <2>1, <2>2 DEF Numbers
    <3>2. CASE place = "hex"
      BY <1>1, <1>8, <2>2, <3>1, <3>2
    <3>3. CASE place # "hex"
      <4>1. p' = p + 0
        BY <1>0, <2>2, <3>3
      <4> QED
        BY <1>1, <3>1, <4>1
    <3> QED
      BY <3>2, <3>3
  <2>4. Char(text, start) \notin Quotes
    <3>1. CASE negative
      BY <1>0, <3>1 DEF Signed
    <3>2. CASE ~negative
      <4>1. start = First /\ First < p /\ First \in First .. p - 1
        BY <1>0, <2>1, <3>2 DEF First, InNumber
      <4>2. Char(text, First) \in Digits
        <5>1. "0" \in Digits
          BY DEF Digits
        <5> QED
          BY <2>1, <4>1, <5>1 DEF InNumber, Numbers
      <4> QED
        BY <1>0, <4>1, <4>2
    <3> QED
      BY <3>1, <3>2
  <2>5. PICK t : tokens' = Append(tokens, t) /\ t.at = start /\ t.end = p'
    BY <1>0, <2>1, <2>2, Emitted
  <2>6. Seen' = p'
    BY <2>2 DEF Seen
  <2> QED
    BY <1>0, <2>1, <2>3, <2>4, <2>5, <2>6 DEF Emits
<1>11. CASE NameEnds
  <2>1. Emit("Id", 0, start, p) /\ line' = line /\ place = "name"
    BY <1>11 DEF NameEnds
  <2>2. place' = "next" /\ p' = p + 0
    BY <1>0, <2>1 DEF Emit
  <2>3. Char(text, start) \notin Quotes
    BY <1>0, <2>1 DEF InName
  <2>4. PICK t : tokens' = Append(tokens, t) /\ t.at = start /\ t.end = p'
    BY <1>0, <2>1, <2>2, Emitted
  <2>5. Seen' = p' /\ place # "literal" /\ place' # "literal"
    BY <2>1, <2>2 DEF Seen
  <2>6. /\ Seen <= Seen'
        /\ \A k \in Seen .. Seen' - 1 : Char(text, k) # "\n"
    BY <1>1, <2>2, <2>5
  <2> QED
    BY <1>0, <2>1, <2>3, <2>4, <2>5, <2>6 DEF Emits
<1>12. CASE Operator
  <2>0. PICK n \in 1 .. 2 :
          (\E tk : Emit(tk, 0, p, p + n)) /\ (n = 2 => <<C, D>> \in Doubles)
    <3>1. CASE <<C, D>> \in Doubles
      <4>1. Emit(C \o D, 0, p, p + 2)
        BY <1>12, <3>1 DEF Operator
      <4> QED
        BY <3>1, <4>1
    <3>2. CASE <<C, D>> \notin Doubles
      <4>1. Emit(C, 0, p, p + 1)
        BY <1>12, <3>2 DEF Operator
      <4> QED
        BY <4>1
    <3> QED
      BY <3>1, <3>2
  <2>1. PICK tk : Emit(tk, 0, p, p + n)
    BY <2>0
  <2>2. place' = "next" /\ p' = p + n
    BY <2>1 DEF Emit
  <2>3. /\ line' = line /\ place = "next" /\ C \in Singles
    BY <1>12 DEF Operator
  <2>4. C # "\n" /\ (n > 1 => D # "\n")
    <3>1. \A c, d : <<c, d>> \in Doubles => d # "\n"
      BY DEF Doubles
    <3> QED
      BY <1>0, <2>0, <2>3, <3>1
  <2>5. PICK t : tokens' = Append(tokens, t) /\ t.at = p /\ t.end = p'
    BY <1>0, <2>1, <2>2, Emitted
  <2>6. Seen' = p' /\ place # "literal" /\ place' # "literal"
    BY <2>2, <2>3 DEF Seen
  <2>7. /\ Seen <= Seen'
        /\ \A k \in Seen .. Seen' - 1 : Char(text, k) # "\n"
    BY <1>1, <2>1, <2>2, <2>4, <2>6
  <2> QED
    BY <1>0, <2>3, <2>5, <2>6, <2>7 DEF Emits, C
<1>13. CASE Literal
  <2>1. /\ place = "next" /\ place' = "literal" /\ start' = p
        /\ tokens' = tokens /\ line' = line
    BY <1>13 DEF Literal
  <2>2. Seen = p /\ Seen' = p
    BY <2>1 DEF Seen
  <2> QED
    BY <1>0, <2>1, <2>2 DEF Quiet
<1>14. CASE InLiteral
  <2>1. /\ place = "literal" /\ place' = "literal" /\ start' = start
        /\ tokens' = tokens /\ line' = line
    BY <1>14 DEF InLiteral
  <2>2. Seen = start /\ Seen' = start
    BY <2>1 DEF Seen
  <2> QED
    BY <1>0, <2>1, <2>2 DEF Quiet
<1>15. CASE LiteralEnds
  <2>1. PICK tk : Emit(tk, ival', start, p + 1)
    BY <1>15 DEF LiteralEnds
  <2>2. place' = "next" /\ p' = p + 1 /\ line' = line /\ place = "literal"
    BY <1>15 DEF LiteralEnds, Emit
  <2>3. PICK t : tokens' = Append(tokens, t) /\ t.at = start /\ t.end = p'
    BY <1>0, <2>1, <2>2, Emitted
  <2>4. Seen = start /\ Seen' = p + 1
    BY <2>2 DEF Seen
  <2>5. Char(text, start) \in Quotes /\ start < p
    BY <2>2 DEF InQuote
  <2> QED
    BY <1>0, <2>2, <2>3, <2>4, <2>5 DEF Emits
<1>16. ~PastTheEnd
  BY DEF PastTheEnd
<1> QED
  BY <1>2, <1>3, <1>4, <1>5, <1>6, <1>7, <1>9, <1>10, <1>11, <1>12, <1>13, <1>14, <1>15,
     <1>16 DEF Next

LEMMA Between ==
  ASSUME NEW a \in Nat, NEW b \in Nat, a > 0, a <= b
  PROVE  /\ \A k \in 1 .. b - 1 : k \in 1 .. a - 1 \/ k \in a .. b - 1
         /\ \A k \in 1 .. a - 1 : k \in 1 .. b - 1 /\ k \notin a .. b - 1
OBVIOUS

\* A break that is passed is one more.
LEMMA OneMore ==
  ASSUME NEW q \in Nat, q > 0, NEW ts, Char(text, q) = "\n", ~InQuotes(ts, q)
  PROVE  Cardinality(Breaks(q + 1, ts)) = Cardinality(Breaks(q, ts)) + 1
         /\ Cardinality(Breaks(q, ts)) \in Nat
<1>1. IsFiniteSet(Breaks(q, ts))
  <2>1. IsFiniteSet(1 .. q - 1)
    BY FS_Interval
  <2>2. Breaks(q, ts) \subseteq 1 .. q - 1
    BY DEF Breaks
  <2> QED
    BY <2>1, <2>2, FS_Subset
<1>2. Breaks(q + 1, ts) = Breaks(q, ts) \cup {q}
  <2>1. 1 .. (q + 1) - 1 = (1 .. q - 1) \cup {q}
    OBVIOUS
  <2> QED
    BY <2>1 DEF Breaks
<1>3. q \notin Breaks(q, ts)
  BY DEF Breaks
<1> QED
  BY <1>1, <1>2, <1>3, FS_AddElement, FS_CardinalityType

LEMMA LinesKept ==
  ASSUME Typed, Signed, InName, InNumber, InQuote, InPlace, Behind, Lines, [Next]_vars
  PROVE  Behind' /\ Lines'
<1>0. /\ text' = text /\ p \in Nat /\ start \in Nat /\ p > 0 /\ start > 0
      /\ Seen \in Nat /\ Seen > 0
      /\ \E T : tokens \in Seq(T)
  BY Frozen DEF Typed, Seen
<1>1. Typed'
  BY TypedKept
<1>2. Seen' \in Nat
  BY <1>1 DEF Typed, Seen
<1>3. Breaks(Seen, tokens)' = Breaks(Seen', tokens')
  BY <1>0 DEF Breaks, InQuotes, Char
<1> SUFFICES ASSUME place' # "undefined"
             PROVE  /\ \A n \in DOMAIN tokens' :
                         /\ tokens'[n].at \in Nat \ {0} /\ tokens'[n].end \in Nat
                         /\ tokens'[n].end <= Seen'
                    /\ line' = 1 + Cardinality(Breaks(Seen', tokens'))
  BY <1>3 DEF Behind, Lines
<1>4. CASE UNCHANGED vars
  <2>1. tokens' = tokens /\ line' = line /\ place' = place /\ Seen' = Seen
    BY <1>4 DEF vars, Seen
  <2> QED
    BY <2>1 DEF Behind, Lines
<1>5. ASSUME Next
      PROVE  /\ Quiet \/ Counts \/ Emits
             /\ \A n \in DOMAIN tokens :
                  /\ tokens[n].at \in Nat \ {0} /\ tokens[n].end \in Nat /\ tokens[n].end <= Seen
             /\ line = 1 + Cardinality(Breaks(Seen, tokens))
  <2>1. place # "undefined"
    <3>1. PastTheEnd => place' = "undefined"
      BY DEF PastTheEnd, Go
    <3> QED
      BY <1>5, <3>1 DEF Next, Newline, Ignored, Directive, LineComment, RestOfLine,
         LineEnds, Comment, InComment, CommentEnds, Name, MoreOfName, NameEnds, Minus,
         Number, Digit, HexDigit, NumberEnds, Operator, Literal, InLiteral, LiteralEnds,
         Done, AtToken, At, Counted
  <2> QED
    BY <1>5, <2>1, Moves DEF Behind, Lines
<1>6. CASE Next /\ Quiet
  <2>1. /\ tokens' = tokens /\ line' = line /\ Seen <= Seen'
        /\ \A k \in Seen .. Seen' - 1 : Char(text, k) # "\n"
    BY <1>6 DEF Quiet
  <2>2. \A n \in DOMAIN tokens :
          tokens[n].end \in Nat /\ tokens[n].end <= Seen => tokens[n].end <= Seen'
    BY <1>0, <1>2, <2>1
  <2>3. Breaks(Seen', tokens) = Breaks(Seen, tokens)
    <3>1. \A k \in 1 .. Seen' - 1 : k \in 1 .. Seen - 1 \/ k \in Seen .. Seen' - 1
      BY <1>0, <1>2, <2>1, Between
    <3>2. \A k \in 1 .. Seen - 1 : k \in 1 .. Seen' - 1
      BY <1>0, <1>2, <2>1, Between
    <3> QED
      BY <2>1, <3>1, <3>2 DEF Breaks
  <2> QED
    BY <1>5, <1>6, <2>1, <2>2, <2>3
<1>7. CASE Next /\ Counts
  <2>1. /\ tokens' = tokens /\ line' = line + 1
        /\ Char(text, Seen) = "\n" /\ Seen' = Seen + 1
    BY <1>7 DEF Counts
  <2>2. \A n \in DOMAIN tokens :
          tokens[n].end \in Nat /\ tokens[n].end <= Seen => tokens[n].end <= Seen'
    BY <1>0, <2>1
  <2>3. ~InQuotes(tokens, Seen)
    <3> SUFFICES ASSUME NEW n \in DOMAIN tokens,
                        Seen \in tokens[n].at .. tokens[n].end - 1
                 PROVE  FALSE
      BY DEF InQuotes
    <3>1. tokens[n].at \in Nat \ {0} /\ tokens[n].end \in Nat /\ tokens[n].end <= Seen
      BY <1>5, <1>7
    <3> QED
      BY <1>0, <3>1
  <2>4. /\ Cardinality(Breaks(Seen + 1, tokens)) = Cardinality(Breaks(Seen, tokens)) + 1
        /\ Cardinality(Breaks(Seen, tokens)) \in Nat
    BY <1>0, <2>1, <2>3, OneMore
  <2>5. line' = 1 + Cardinality(Breaks(Seen', tokens'))
    BY <1>5, <1>7, <2>1, <2>4
  <2> QED
    BY <1>5, <1>7, <2>1, <2>2, <2>5
<1>8. CASE Next /\ Emits
  <2>1. line' = line /\ Seen <= Seen'
    BY <1>8 DEF Emits
  <2>2. PICK t : /\ tokens' = Append(tokens, t) /\ t.at \in Nat \ {0} /\ t.end = Seen'
                 /\ \/ /\ Char(text, t.at) \notin Quotes
                       /\ \A k \in Seen .. Seen' - 1 : Char(text, k) # "\n"
                    \/ Char(text, t.at) \in Quotes /\ t.at = Seen
    BY <1>8 DEF Emits
  <2>3. /\ DOMAIN tokens' = 1 .. Len(tokens) + 1 /\ DOMAIN tokens = 1 .. Len(tokens)
        /\ Len(tokens) \in Nat
        /\ tokens'[Len(tokens) + 1] = t
        /\ \A n \in 1 .. Len(tokens) : tokens'[n] = tokens[n]
    BY <1>0, <2>2
  <2>4. \A n \in DOMAIN tokens' :
          /\ tokens'[n].at \in Nat \ {0} /\ tokens'[n].end \in Nat
          /\ tokens'[n].end <= Seen'
    <3> SUFFICES ASSUME NEW n \in 1 .. Len(tokens) + 1
                 PROVE  /\ tokens'[n].at \in Nat \ {0} /\ tokens'[n].end \in Nat
                        /\ tokens'[n].end <= Seen'
      BY <2>3
    <3>1. CASE n = Len(tokens) + 1
      BY <1>2, <2>2, <2>3, <3>1
    <3>2. CASE n \in 1 .. Len(tokens)
      <4>1. /\ tokens[n].at \in Nat \ {0} /\ tokens[n].end \in Nat /\ tokens[n].end <= Seen
            /\ tokens'[n] = tokens[n]
        BY <1>5, <1>8, <2>3, <3>2
      <4>2. tokens[n].end <= Seen'
        BY <1>0, <1>2, <2>1, <4>1
      <4> QED
        BY <4>1, <4>2
    <3> QED
      BY <2>3, <3>1, <3>2
  <2>5. \A k : InQuotes(tokens', k) <=>
                 \/ InQuotes(tokens, k)
                 \/ Char(text, t.at) \in Quotes /\ k \in t.at .. t.end - 1
    <3>1. \A n \in 1 .. Len(tokens) + 1 : n \in 1 .. Len(tokens) \/ n = Len(tokens) + 1
      BY <2>3
    <3>2. \A n \in 1 .. Len(tokens) : n \in 1 .. Len(tokens) + 1
      BY <2>3
    <3>3. Len(tokens) + 1 \in 1 .. Len(tokens) + 1
      BY <2>3
    <3> QED
      BY <2>3, <3>1, <3>2, <3>3 DEF InQuotes
  <2>6. Breaks(Seen', tokens') = Breaks(Seen, tokens)
    <3>1. \A k \in 1 .. Seen' - 1 : k \in 1 .. Seen - 1 \/ k \in Seen .. Seen' - 1
      BY <1>0, <1>2, <2>1, Between
    <3>2. \A k \in 1 .. Seen - 1 : k \in 1 .. Seen' - 1 /\ k \notin Seen .. Seen' - 1
      BY <1>0, <1>2, <2>1, Between
    <3>3. CASE /\ Char(text, t.at) \notin Quotes
               /\ \A k \in Seen .. Seen' - 1 : Char(text, k) # "\n"
      BY <2>5, <3>1, <3>2, <3>3 DEF Breaks
    <3>4. CASE Char(text, t.at) \in Quotes /\ t.at = Seen
      BY <2>2, <2>5, <3>1, <3>2, <3>4 DEF Breaks
    <3> QED
      BY <2>2, <3>3, <3>4
  <2> QED
    BY <1>5, <1>8, <2>1, <2>4, <2>6
<1> QED
  BY <1>4, <1>5, <1>6, <1>7, <1>8

-----------------------------------------------------------------------------
(* What the token that is read is worth so far. *)

\* The place that is looked at is in the text when a character is there.
LEMMA InText ==
  ASSUME Typed
  PROVE  /\ text \in Seq(Characters) /\ Len(text) \in Nat /\ p \in Nat /\ p > 0
         /\ start \in Nat /\ start > 0
         /\ C # Nul => p \in 1 .. Len(text) /\ p + 1 \in 1 .. Len(text) + 1
         /\ C = Nul /\ p <= Len(text) + 1 => p = Len(text) + 1
         /\ D # Nul => p + 1 \in 1 .. Len(text) /\ p \in 1 .. Len(text)
<1>1. /\ text \in Seq(Characters) /\ Len(text) \in Nat /\ p \in Nat /\ p > 0
      /\ start \in Nat /\ start > 0 /\ p + 1 \in Nat /\ p + 1 > 0
  BY DEF Typed
<1>2. /\ p > Len(text) => C = Nul
      /\ p <= Len(text) => C # Nul
      /\ p + 1 > Len(text) => D = Nul
  BY <1>1, Ending DEF C, D
<1>3. C # Nul => p \in 1 .. Len(text) /\ p + 1 \in 1 .. Len(text) + 1
  <2>1. ~(p > Len(text)) => p \in 1 .. Len(text) /\ p + 1 \in 1 .. Len(text) + 1
    BY <1>1
  <2> QED
    BY <1>2, <2>1
<1>4. C = Nul /\ p <= Len(text) + 1 => p = Len(text) + 1
  <2>1. ~(p <= Len(text)) /\ p <= Len(text) + 1 => p = Len(text) + 1
    BY <1>1
  <2> QED
    BY <1>2, <2>1
<1>5. D # Nul => p + 1 \in 1 .. Len(text) /\ p \in 1 .. Len(text)
  <2>1. ~(p + 1 > Len(text)) => p + 1 \in 1 .. Len(text) /\ p \in 1 .. Len(text)
    BY <1>1
  <2> QED
    BY <1>2, <2>1
<1> QED
  BY <1>1, <1>3, <1>4, <1>5

\* But for the steps through a number none is taken behind a minus.
LEMMA Unsigned ==
  ASSUME Typed, Signed, [Next]_vars,
         \/ Newline \/ Ignored \/ Directive \/ LineComment \/ RestOfLine \/ LineEnds
         \/ Comment \/ InComment \/ CommentEnds \/ Done
         \/ Name \/ MoreOfName \/ NameEnds \/ Operator
         \/ Literal \/ InLiteral \/ LiteralEnds
  PROVE  ~negative /\ ~negative'
<1>0. negative \in BOOLEAN
  BY DEF Typed
<1>1. CASE Newline \/ Ignored \/ Directive \/ LineComment \/ Comment \/ Name \/ Operator
           \/ Literal \/ Done
  <2>1. /\ "\n" \notin Digits /\ "#" \notin Digits /\ "/" \notin Digits /\ Nul \notin Digits
        /\ Letters \cap Digits = {} /\ Singles \cap Digits = {} /\ Quotes \cap Digits = {}
    BY Classes
  <2>2. place = "next" /\ C \notin Digits
    BY <1>1, <2>1 DEF Newline, Ignored, Directive, LineComment, Comment, Name, Operator,
       Literal, Done, AtToken, At
  <2>3. negative' = negative
    BY <1>1 DEF Newline, Ignored, Directive, LineComment, Comment, Name, Operator,
       Literal, Done, same
  <2> QED
    BY <2>2, <2>3 DEF Signed
<1>2. CASE RestOfLine \/ LineEnds \/ InComment \/ CommentEnds \/ MoreOfName \/ NameEnds
           \/ InLiteral \/ LiteralEnds
  <2>1. /\ negative' = negative
        /\ place \in {"line", "comment", "closing", "name", "literal"}
    BY <1>2 DEF RestOfLine, LineEnds, InComment, CommentEnds, MoreOfName, NameEnds,
       InLiteral, LiteralEnds, At, same
  <2> QED
    BY <2>1 DEF Signed, Numbers
<1> QED
  BY <1>1, <1>2

\* What the text is worth is still so when the place has moved.
LEMMA SameWorth ==
  ASSUME text' = text
  PROVE  /\ Positional(First, p - 1, 10)' = Positional(First', p' - 1, 10)
         /\ Positional(First, p - 1, 8)' = Positional(First', p' - 1, 8)
         /\ Positional(First + 2, p, 16)' = Positional(First' + 2, p', 16)
         /\ LastChar(start, p + 1)' = LastChar(start', p' + 1)
<1>1. /\ Positional(First, p - 1, 10)' = Positional(First', p' - 1, 10)
      /\ Positional(First, p - 1, 8)' = Positional(First', p' - 1, 8)
      /\ Positional(First + 2, p, 16)' = Positional(First' + 2, p', 16)
  BY DEF Positional, Powers, Char
<1>2. LastChar(start, p + 1)' = LastChar(start', p' + 1)
  BY DEF LastChar, Escaped, Char
<1> QED
  BY <1>1, <1>2

\* The first digit of a number stands where its sign says.
LEMMA FirstDigit ==
  ASSUME Signed, Number
  PROVE  First' = p
<1>1. /\ place = "next" /\ negative' = negative
      /\ start' = IF negative THEN start ELSE p
  BY DEF Number, AtToken, At
<1>2. negative => p = start + 1
  BY <1>1 DEF Signed
<1> QED
  BY <1>1, <1>2 DEF First

LEMMA NumberValued ==
  ASSUME Typed, Signed, InNumber, Valued, Number \/ Digit \/ HexDigit, text' = text
  PROVE  /\ place' = "decimal" => ival' = Positional(First', p' - 1, 10)
         /\ place' = "octal" => ival' = Positional(First', p' - 1, 8)
         /\ place' = "hex" => ival' = Positional(First' + 2, p', 16)
<1>0. /\ Len(text) \in Nat /\ p \in Nat /\ p > 0 /\ First \in Nat \ {0}
      /\ C # Nul => p \in 1 .. Len(text) /\ p + 1 \in 1 .. Len(text) + 1
      /\ D # Nul => p + 1 \in 1 .. Len(text) /\ p \in 1 .. Len(text)
  BY InText DEF First
<1>1. /\ Nul \notin HexDigits /\ Digits \subseteq HexDigits /\ OctalDigits \subseteq Digits
      /\ Nul \notin {"x", "X"}
  BY Classes DEF Nul
<1> USE DEF AtToken, At, Go
<1>2. CASE Number
  <2>1. /\ First' = p /\ p' = p + 1 /\ C \in Digits /\ ival' = DigitValue[C]
        /\ place' = CASE C # "0" -> "decimal" [] C = "0" /\ D \in {"x", "X"} -> "hex"
                      [] OTHER -> "octal"
    BY <1>2, FirstDigit DEF Number
  <2>2. p \in 1 .. Len(text) /\ p - 1 \in 0 .. Len(text) - 1 /\ p - 1 \in 0 .. Len(text)
        /\ (p - 1) + 1 = p /\ p - 1 < p /\ p \in Nat \ {0} /\ p' - 1 = p
    BY <1>0, <1>1, <2>1
  <2>3. AreDigits(p, p)
    <3>1. \A k \in p .. p : k = p
      BY <1>0
    <3> QED
      BY <1>1, <2>1, <3>1 DEF AreDigits, C
  <2>4. ASSUME NEW radix \in Nat PROVE Positional(p, p, radix) = DigitValue[C]
    <3>1. Positional(p, p - 1, radix) = 0
      BY <1>0, <2>2, Horner
    <3>2. Positional(p, p, radix) = Positional(p, p - 1, radix) * radix + DigitValue[C]
      BY <1>0, <2>2, <2>3, Horner DEF C
    <3>3. DigitValue[C] \in Nat
      BY <1>1, <2>1, DigitsAre
    <3> QED
      BY <3>1, <3>2, <3>3
  <2>5. place' = "hex" => Positional(p + 2, p + 1, 16) = ival'
    <3> SUFFICES ASSUME place' = "hex" PROVE Positional(p + 2, p + 1, 16) = ival'
      OBVIOUS
    <3>1. C = "0" /\ D \in {"x", "X"}
      BY <2>1
    <3>2. p + 1 \in 0 .. Len(text) /\ p + 1 < p + 2 /\ p + 2 \in Nat \ {0}
      BY <1>0, <1>1, <3>1
    <3>3. Positional(p + 2, p + 1, 16) = 0
      BY <1>0, <3>2, Horner
    <3> QED
      BY <2>1, <3>1, <3>3, DigitsAre
  <2>6. Positional(p, p, 10) = ival' /\ Positional(p, p, 8) = ival'
    BY <2>1, <2>4
  <2> QED
    BY <2>1, <2>2, <2>5, <2>6
<1>3. CASE Digit
  <2>1. PICK radix \in {"decimal", "octal"} :
          /\ place = radix /\ C \in Counted[radix]
          /\ ival' = ival * (IF radix = "octal" THEN 8 ELSE 10) + DigitValue[C]
    BY <1>3 DEF Digit, Counted
  <2>2. First' = First /\ p' = p + 1 /\ place' = place
    BY <1>3 DEF Digit, First
  <2>3. C \in Digits /\ First < p
    BY <1>1, <2>1 DEF Counted, InNumber, Numbers
  <2>4. p \in 1 .. Len(text) /\ p - 1 \in 0 .. Len(text) - 1 /\ (p - 1) + 1 = p
        /\ p >= First /\ p' - 1 = p
    BY <1>0, <1>1, <2>2, <2>3
  <2>5. AreDigits(First, p)
    <3>1. \A k \in First .. p : k \in First .. p - 1 \/ k = p
      BY <1>0
    <3> QED
      BY <1>1, <2>1, <2>3, <3>1 DEF AreDigits, InNumber, C
  <2>6. \A r \in Nat :
          Positional(First, p, r) = Positional(First, p - 1, r) * r + DigitValue[C]
    BY <1>0, <2>4, <2>5, Horner DEF C
  <2>7. CASE radix = "decimal"
    <3>1. ival = Positional(First, p - 1, 10) /\ ival' = ival * 10 + DigitValue[C]
      BY <2>1, <2>7 DEF Valued
    <3>2. ival' = Positional(First, p, 10)
      BY <2>6, <3>1
    <3> QED
      BY <2>1, <2>2, <2>4, <2>7, <3>2
  <2>8. CASE radix = "octal"
    <3>1. ival = Positional(First, p - 1, 8) /\ ival' = ival * 8 + DigitValue[C]
      BY <2>1, <2>8 DEF Valued
    <3>2. ival' = Positional(First, p, 8)
      BY <2>6, <3>1
    <3> QED
      BY <2>1, <2>2, <2>4, <2>8, <3>2
  <2> QED
    BY <2>7, <2>8
<1>4. CASE HexDigit
  <2>1. /\ place = "hex" /\ place' = "hex" /\ First' = First /\ p' = p + 1
        /\ D \in HexDigits /\ ival' = ival * 16 + DigitValue[D]
    BY <1>4 DEF HexDigit, First
  <2>2. First < p
    BY <2>1 DEF InNumber, Numbers
  <2>3. p \in 0 .. Len(text) - 1 /\ p + 1 >= First + 2 /\ First + 2 \in Nat \ {0}
    BY <1>0, <1>1, <2>1, <2>2
  <2>4. AreDigits(First + 2, p + 1)
    <3>1. \A k \in First + 2 .. p + 1 : k \in First + 2 .. p \/ k = p + 1
      BY <1>0
    <3> QED
      BY <2>1, <3>1 DEF AreDigits, InNumber, D
  <2>5. Positional(First + 2, p + 1, 16) = Positional(First + 2, p, 16) * 16 + DigitValue[D]
    BY <1>0, <2>3, <2>4, Horner DEF D
  <2> QED
    BY <2>1, <2>5 DEF Valued
<1> QED
  BY <1>2, <1>3, <1>4

LEMMA ValuedKept ==
  ASSUME Typed, Signed, InNumber, InQuote, Valued, [Next]_vars
  PROVE  Valued'
<1>0. text' = text /\ p \in Nat /\ start \in Nat
  BY Frozen DEF Typed
<1> SUFFICES
      /\ place' = "decimal" => ival' = Positional(First', p' - 1, 10)
      /\ place' = "octal" => ival' = Positional(First', p' - 1, 8)
      /\ place' = "hex" => ival' = Positional(First' + 2, p', 16)
      /\ place' = "literal" /\ p' > start' + 1 => ival' = LastChar(start', p' + 1)
  BY <1>0, SameWorth DEF Valued
<1>1. CASE UNCHANGED vars
  <2>1. First' = First /\ p' = p /\ place' = place /\ start' = start /\ ival' = ival
    BY <1>1 DEF First, vars
  <2> QED
    BY <2>1 DEF Valued
<1>2. CASE Number \/ Digit \/ HexDigit
  <2>1. place' # "literal"
    BY <1>2 DEF Number, Digit, HexDigit, Go, Counted, At
  <2> QED
    BY <1>0, <1>2, <2>1, NumberValued
<1>3. CASE Literal
  <2>1. place' = "literal" /\ p' = p + 1 /\ start' = p
    BY <1>3 DEF Literal, Go
  <2>2. ~(p' > start' + 1)
    BY <1>0, <2>1
  <2> QED
    BY <2>1, <2>2
<1>4. CASE InLiteral
  <2>1. /\ place = "literal" /\ place' = "literal" /\ start' = start
        /\ Char(text, p) = "\\" => p' = p + 2 /\ ival' = Escape(Char(text, p + 1))
        /\ Char(text, p) # "\\" => p' = p + 1 /\ ival' = Code[Char(text, p)]
    BY <1>4 DEF InLiteral, At, Go, C, D
  <2>2. start < p /\ quote \in Quotes /\ Char(text, start) = quote /\ ~Escaped(start, p)
    BY <2>1 DEF InQuote
  <2>3. CASE Char(text, p) = "\\"
    <3>1. Escaped(start, p + 1)
      BY <1>0, <2>2, <2>3, Classes, Backslash
    <3>2. p' + 1 # start + 2 /\ (p' + 1) - 2 = p + 1
      BY <1>0, <2>1, <2>2, <2>3
    <3>3. LastChar(start, p' + 1) = Escape(Char(text, p + 1))
      BY <3>1, <3>2 DEF LastChar
    <3> QED
      BY <2>1, <2>3, <3>3
  <2>4. CASE Char(text, p) # "\\"
    <3>1. p' + 1 # start + 2 /\ (p' + 1) - 2 = p
      BY <1>0, <2>1, <2>2, <2>4
    <3>2. LastChar(start, p' + 1) = Code[Char(text, p)]
      BY <2>2, <3>1 DEF LastChar
    <3> QED
      BY <2>1, <2>4, <3>2
  <2> QED
    BY <2>3, <2>4
<1> QED
  BY <1>1, <1>2, <1>3, <1>4, Reached

-----------------------------------------------------------------------------
(* The tokens found and those the rest of the text holds. *)

\* The rest by place, before a step and after it.
LEMMA RestIs ==
  /\ place = "next" => Rest = From(IF negative THEN start ELSE p)
  /\ place = "done" => Rest = From(p)
  /\ place = "line" => Rest = From(EndOfLine(p))
  /\ place = "comment" => Rest = From(EndOfComment(p - 2))
  /\ place = "closing" => Rest = From(p + 1)
  /\ place \in {"name", "literal"} \cup Numbers => Rest = From(start)
BY DEF Rest, Here, Numbers

LEMMA RestAfter ==
  ASSUME text' = text
  PROVE  /\ place' = "next" => Rest' = From(IF negative' THEN start' ELSE p')
         /\ place' = "done" => Rest' = From(p')
         /\ place' = "line" => Rest' = From(EndOfLine(p'))
         /\ place' = "comment" => Rest' = From(EndOfComment(p' - 2))
         /\ place' = "closing" => Rest' = From(p' + 1)
         /\ place' \in {"name", "literal"} \cup Numbers => Rest' = From(start')
<1>1. CTokensFrom' = CTokensFrom
  BY Same
<1>2. /\ EndOfLine(p)' = EndOfLine(p')
      /\ EndOfComment(p - 2)' = EndOfComment(p' - 2)
  BY DEF EndOfLine, EndOfComment, Char
<1>3. Rest' = From(Here')
  BY <1>1 DEF Rest, From, Open, Token
<1>4. /\ place' = "next" => Here' = IF negative' THEN start' ELSE p'
      /\ place' = "done" => Here' = p'
      /\ place' = "line" => Here' = EndOfLine(p')
      /\ place' = "comment" => Here' = EndOfComment(p' - 2)
      /\ place' = "closing" => Here' = p' + 1
      /\ place' \in {"name", "literal"} \cup Numbers => Here' = start'
  BY <1>2 DEF Here, Numbers
<1> QED
  BY <1>3, <1>4

\* A step keeps the tokens found and those that are left, or it moves one from
\* these to those, or it leads behind a text that leaves something open.
Keeps == p' <= Len(text) + 1 /\ tokens' = tokens /\ Rest' = Rest
Takes ==
  /\ p' <= Len(text) + 1 /\ \E T : Rest' \in Seq(T)
  /\ \E t : tokens' = Append(tokens, t) /\ Rest = <<Worth(t)>> \o Rest'
Falls == ~(p' <= Len(text) + 1) /\ Rest = <<Open>>

\* A step over blanks and comments.
LEMMA BlanksKeep ==
  ASSUME Typed, Signed, InPlace, [Next]_vars,
         \/ Newline \/ Ignored \/ Directive \/ LineComment \/ RestOfLine \/ LineEnds
         \/ Comment \/ InComment \/ CommentEnds \/ Done
  PROVE  Keeps \/ Falls
<1>0. /\ text' = text /\ text \in Seq(Characters) /\ Len(text) \in Nat /\ p \in Nat /\ p > 0
      /\ C # Nul => p \in 1 .. Len(text) /\ p + 1 \in 1 .. Len(text) + 1
      /\ C = Nul /\ p <= Len(text) + 1 => p = Len(text) + 1
      /\ D # Nul => p + 1 \in 1 .. Len(text)
  BY Frozen, InText
<1>1. ~negative /\ ~negative'
  BY Unsigned
<1>2. tokens' = tokens
  BY DEF Newline, Ignored, Directive, LineComment, RestOfLine, LineEnds, Comment,
     InComment, CommentEnds, Done, same
<1>3. p \in 1 .. Len(text) /\ TokenAt(p, EndFrom(p)) = <<>> => From(p) = From(EndFrom(p))
  <2>1. p \in 1 .. Len(text) => p \in 1 .. Len(text) + 1 /\ p <= Len(text)
    BY <1>0
  <2> QED
    BY <1>0, <2>1, FromIs
<1>4. p \in 1 .. Len(text) + 1 /\ C \notin {Nul, "\n"} => EndOfLine(p) = EndOfLine(p + 1)
  BY <1>0, LineEndIs DEF C
<1> USE DEF AtToken, At, Go
<1>5. CASE Newline \/ Ignored
  <2>1. /\ place = "next" /\ place' = "next" /\ p' = p + 1 /\ C # Nul
        /\ C \notin Letters \cup Digits \cup Quotes \cup Singles \cup {"#"}
    <3>1. /\ "\n" \notin Letters \cup HexDigits \cup Singles \cup Quotes
          /\ Digits \subseteq HexDigits /\ "#" # "\n"
      BY Classes
    <3> QED
      BY <1>5, <3>1 DEF Newline, Ignored, Nul
  <2>2. EndFrom(p) = p + 1 /\ p \in 1 .. Len(text) /\ p' <= Len(text) + 1
        /\ TokenAt(p, EndFrom(p)) = <<>>
    <3>1. p \in 1 .. Len(text) /\ p' <= Len(text) + 1
      BY <1>0, <2>1
    <3>2. Char(text, p) \notin Letters \cup Digits \cup Quotes \cup Singles \cup {"#"}
      BY <2>1 DEF C
    <3>3. EndFrom(p) = p + 1
      BY <3>2, EndFromIs
    <3>4. TokenAt(p, p + 1) = <<>>
      BY <3>2, TokenAtIs
    <3> QED
      BY <3>1, <3>3, <3>4
  <2> QED
    BY <1>0, <1>1, <1>2, <1>3, <2>1, <2>2, RestIs, RestAfter DEF Keeps
<1>6. CASE Directive
  <2>1. /\ place = "next" /\ place' = "line" /\ p' = p + 1 /\ C = "#" /\ C # Nul
        /\ C \notin {Nul, "\n"}
    BY <1>6 DEF Directive, Nul
  <2>2. EndFrom(p) = EndOfLine(p) /\ p \in 1 .. Len(text) + 1 /\ p' <= Len(text) + 1
    BY <1>0, <2>1, EndFromIs DEF C
  <2>3. EndOfLine(p) = EndOfLine(p')
    BY <1>4, <2>1, <2>2
  <2>4. TokenAt(p, EndFrom(p)) = <<>>
    BY <2>1, Classes, TokenAtIs DEF C
  <2>5. Rest = From(EndOfLine(p)) /\ Rest' = From(EndOfLine(p'))
    BY <1>0, <1>1, <1>3, <2>1, <2>2, <2>4, RestIs, RestAfter
  <2> QED
    BY <1>2, <2>2, <2>3, <2>5 DEF Keeps
<1>7. CASE LineComment
  <2>1. /\ place = "next" /\ place' = "line" /\ p' = p + 2 /\ C = "/" /\ C # Nul
        /\ D = "/" /\ D # Nul /\ C \notin {Nul, "\n"}
    BY <1>7 DEF LineComment, Nul
  <2>2. EndFrom(p) = EndOfLine(p) /\ p \in 1 .. Len(text) + 1 /\ p + 1 \in 1 .. Len(text) + 1
        /\ p' <= Len(text) + 1 /\ (p + 1) + 1 = p'
    BY <1>0, <2>1, EndFromIs DEF C, D
  <2>3. EndOfLine(p) = EndOfLine(p + 1) /\ EndOfLine(p + 1) = EndOfLine(p')
    <3>1. Char(text, p + 1) \notin {Nul, "\n"}
      BY <2>1 DEF D
    <3>2. EndOfLine(p + 1) = EndOfLine((p + 1) + 1)
      BY <1>0, <2>2, <3>1, LineEndIs
    <3> QED
      BY <1>4, <2>1, <2>2, <3>2
  <2>4. TokenAt(p, EndFrom(p)) = <<>>
    <3>1. Slashed(p)
      BY <2>1 DEF Slashed, C, D
    <3> QED
      BY <3>1, TokenAtIs
  <2>5. Rest = From(EndOfLine(p)) /\ Rest' = From(EndOfLine(p'))
    BY <1>0, <1>1, <1>3, <2>1, <2>2, <2>4, RestIs, RestAfter
  <2> QED
    BY <1>2, <2>2, <2>3, <2>5 DEF Keeps
<1>8. CASE RestOfLine
  <2>1. /\ place = "line" /\ place' = "line" /\ p' = p + 1 /\ C \notin {Nul, "\n"}
    BY <1>8 DEF RestOfLine
  <2>2. p \in 1 .. Len(text) + 1 /\ p' <= Len(text) + 1
    BY <1>0, <2>1
  <2> QED
    BY <1>0, <1>2, <1>4, <2>1, <2>2, RestIs, RestAfter DEF Keeps
<1>9. CASE LineEnds
  <2>1. /\ place = "line" /\ place' = "next" /\ p' = p /\ C \in {Nul, "\n"}
        /\ p <= Len(text) + 1
    BY <1>0, <1>9 DEF LineEnds
  <2>2. EndOfLine(p) = p
    BY <1>0, <2>1, LineEndIs DEF C
  <2> QED
    BY <1>0, <1>1, <1>2, <2>1, <2>2, RestIs, RestAfter DEF Keeps
<1>10. CASE Comment
  <2>1. /\ place = "next" /\ place' = "comment" /\ p' = p + 2 /\ C = "/" /\ C # Nul
        /\ D = "*" /\ D # Nul
    BY <1>10 DEF Comment, Nul
  <2>2. EndFrom(p) = EndOfComment(p) /\ p \in 1 .. Len(text) /\ p' <= Len(text) + 1
        /\ p' - 2 = p
    BY <1>0, <2>1, EndFromIs DEF C, D
  <2>3. TokenAt(p, EndFrom(p)) = <<>>
    <3>1. Slashed(p)
      BY <2>1 DEF Slashed, C, D
    <3> QED
      BY <3>1, TokenAtIs
  <2>4. Rest = From(EndOfComment(p)) /\ Rest' = From(EndOfComment(p))
    BY <1>0, <1>1, <1>3, <2>1, <2>2, <2>3, RestIs, RestAfter
  <2> QED
    BY <1>2, <2>2, <2>4 DEF Keeps
<1>11. CASE InComment
  <2>1. /\ place = "comment" /\ p' = p + 1 /\ C # Nul
        /\ place' = IF C = "*" /\ D = "/" THEN "closing" ELSE "comment"
    BY <1>11 DEF InComment, Closes
  <2>2. /\ p \in 1 .. Len(text) /\ p' <= Len(text) + 1 /\ p - 2 \in Int /\ p - 2 >= -1
        /\ (p - 2) + 2 = p /\ (p - 2) + 3 = p + 1 /\ (p - 2) + 4 = p + 2
        /\ (p - 2) + 1 = p' - 2 /\ p' + 1 = p + 2
    BY <1>0, <2>1
  <2>3. CASE C = "*" /\ D = "/"
    <3>1. p < Len(text)
      <4>1. D # Nul
        BY <2>3 DEF Nul
      <4>2. p + 1 \in 1 .. Len(text)
        BY <1>0, <4>1
      <4> QED
        BY <1>0, <4>2
    <3>2. EndOfComment(p - 2) = p + 2
      BY <1>0, <2>2, <2>3, <3>1, CommentEndIs DEF C, D
    <3>3. place' = "closing"
      BY <2>1, <2>3
    <3> QED
      BY <1>0, <1>2, <2>1, <2>2, <3>2, <3>3, RestIs, RestAfter DEF Keeps
  <2>4. CASE ~(C = "*" /\ D = "/")
    <3>1. EndOfComment(p - 2) = EndOfComment(p' - 2)
      BY <1>0, <2>2, <2>4, CommentEndIs DEF C, D
    <3>2. place' = "comment"
      BY <2>1, <2>4
    <3> QED
      BY <1>0, <1>2, <2>1, <2>2, <3>1, <3>2, RestIs, RestAfter DEF Keeps
  <2> QED
    BY <2>3, <2>4
<1>12. CASE CommentEnds
  <2>1. /\ place' = "next" /\ p' = p + 1 /\ p <= Len(text) + 1
        /\ place = "closing" \/ (place = "comment" /\ C = Nul)
    BY <1>12 DEF CommentEnds
  <2>2. CASE place = "closing"
    <3>1. C = "/" /\ C # Nul
      BY <2>2 DEF InPlace, Nul
    <3>2. p' <= Len(text) + 1
      BY <1>0, <2>1, <3>1
    <3> QED
      BY <1>0, <1>1, <1>2, <2>1, <2>2, <3>2, RestIs, RestAfter DEF Keeps
  <2>3. CASE place = "comment" /\ C = Nul
    <3>1. /\ p = Len(text) + 1 /\ ~(p' <= Len(text) + 1)
          /\ p - 2 \in Int /\ p - 2 >= -1 /\ (p - 2) + 2 >= Len(text)
      BY <1>0, <2>1, <2>3
    <3>2. EndOfComment(p - 2) = 0
      BY <1>0, <3>1, CommentEndIs
    <3> QED
      BY <2>3, <3>1, <3>2, RestIs DEF From, Falls
  <2> QED
    BY <2>1, <2>2, <2>3
<1>13. CASE Done
  <2>1. place = "next" /\ place' = "done" /\ p' = p /\ p <= Len(text) + 1
    BY <1>0, <1>13 DEF Done
  <2> QED
    BY <1>0, <1>1, <1>2, <2>1, RestIs, RestAfter DEF Keeps
<1> QED
  BY <1>5, <1>6, <1>7, <1>8, <1>9, <1>10, <1>11, <1>12, <1>13

\* A token is taken when it is the one that stands there.
LEMMA Taken ==
  ASSUME text \in Seq(Characters), text' = text, ~negative',
         NEW tk, NEW v, NEW i \in 1 .. Len(text), NEW q \in 1 .. Len(text) + 1,
         Emit(tk, v, i, q), Rest = From(i), EndFrom(i) = q,
         TokenAt(i, q) = <<Worth(Token(tk, v, i, q))>>
  PROVE  Takes
<1> DEFINE t == Token(tk, v, i, q)
<1>1. tokens' = Append(tokens, t) /\ p' = q /\ place' = "next"
  BY DEF Emit
<1>2. /\ Len(text) \in Nat /\ q # 0 /\ i \in 1 .. Len(text) + 1 /\ i <= Len(text)
      /\ q <= Len(text) + 1
  OBVIOUS
<1>3. Rest' = From(q)
  BY <1>1, RestAfter
<1>4. Rest = <<Worth(t)>> \o Rest'
  BY <1>2, <1>3, FromIs
<1>5. \E T : Rest' \in Seq(T)
  <2>1. From(q) = CTokensFrom[q]
    BY <1>2 DEF From
  <2> QED
    BY <1>3, <2>1, FromSeq
<1> HIDE DEF t
<1> QED
  BY <1>1, <1>2, <1>4, <1>5 DEF Takes

\* But for a character the worth of a token is what it says.
LEMMA WorthIs ==
  ASSUME NEW tk, NEW v, NEW i, NEW q, Char(text, i) # "'" \/ q # i + 2
  PROVE  Worth(Token(tk, v, i, q)) = Token(tk, v, i, q)
BY DEF Worth, Token

\* A step through a name, an operator or a sign.
LEMMA NamesStep ==
  ASSUME Typed, Signed, InName, [Next]_vars,
         Name \/ MoreOfName \/ NameEnds \/ Minus \/ Operator
  PROVE  Keeps \/ Takes
<1>0. /\ text' = text /\ text \in Seq(Characters) /\ Len(text) \in Nat /\ p \in Nat /\ p > 0
      /\ start \in Nat /\ start > 0
      /\ C # Nul => p \in 1 .. Len(text) /\ p + 1 \in 1 .. Len(text) + 1
      /\ D # Nul => p + 1 \in 1 .. Len(text)
  BY Frozen, InText
<1>1. /\ Nul \notin Letters \cup HexDigits \cup Singles \cup Quotes
      /\ Digits \subseteq HexDigits /\ "'" \notin Letters /\ "'" \notin Singles
  BY Classes DEF Quotes
<1> USE DEF AtToken, At, Go
<1>4. CASE Name
  <2>1. /\ place = "next" /\ place' = "name" /\ p' = p + 1 /\ start' = p /\ C \in Letters
        /\ tokens' = tokens
    BY <1>4 DEF Name
  <2>2. p' <= Len(text) + 1
    BY <1>0, <1>1, <2>1
  <2>3. ~negative
    BY <1>4, Unsigned
  <2> QED
    BY <1>0, <2>1, <2>2, <2>3, RestIs, RestAfter DEF Keeps
<1>5. CASE MoreOfName
  <2>1. /\ place = "name" /\ place' = "name" /\ p' = p + 1 /\ start' = start
        /\ C \in Letters \cup Digits /\ tokens' = tokens
    BY <1>5 DEF MoreOfName, same
  <2>2. p' <= Len(text) + 1
    BY <1>0, <1>1, <2>1
  <2> QED
    BY <1>0, <2>1, <2>2, RestIs, RestAfter DEF Keeps
<1>6. CASE NameEnds
  <2>1. /\ place = "name" /\ C \notin Letters \cup Digits
        /\ p <= Len(text) + 1 /\ Emit("Id", 0, start, p)
    BY <1>6 DEF NameEnds
  <2>2. /\ start < p /\ Char(text, start) \in Letters
        /\ \A k \in start .. p - 1 : Char(text, k) \in Letters \cup Digits
    BY <2>1 DEF InName
  <2>3. start \in 1 .. Len(text) /\ p \in start + 1 .. Len(text) + 1
        /\ p \in 1 .. Len(text) + 1
    BY <1>0, <2>1, <2>2
  <2>4. Longest(start, IsName) = p
    BY <1>0, <2>1, <2>2, <2>3, LongestName DEF C
  <2>5. EndFrom(start) = p
    BY <2>2, <2>4, EndFromIs
  <2>6. Rest = From(start)
    BY <2>1, RestIs
  <2>7. TokenAt(start, p) = <<Worth(Token("Id", 0, start, p))>>
    <3>1. Char(text, start) # "'"
      BY <1>1, <2>2
    <3>2. TokenAt(start, p) = <<Token("Id", 0, start, p)>>
      BY <2>2, TokenAtIs
    <3>3. Worth(Token("Id", 0, start, p)) = Token("Id", 0, start, p)
      BY <3>1, WorthIs
    <3> QED
      BY <3>2, <3>3
  <2>8. ~negative'
    BY <1>6, Unsigned
  <2>9. Takes
    BY <1>0, <2>1, <2>3, <2>5, <2>6, <2>7, <2>8, Taken
  <2> QED
    BY <2>9
<1>7. CASE Minus
  <2>1. /\ place = "next" /\ place' = "next" /\ p' = p + 1 /\ C = "-" /\ D \in Digits
        /\ start' = p /\ negative' = TRUE /\ tokens' = tokens
    BY <1>7 DEF Minus
  <2>2. ~negative
    BY <2>1, Classes DEF Signed
  <2>3. p' <= Len(text) + 1
    <3>1. C # Nul
      BY <2>1 DEF Nul
    <3> QED
      BY <1>0, <2>1, <3>1
  <2> QED
    BY <1>0, <2>1, <2>2, <2>3, RestIs, RestAfter DEF Keeps
<1>8. CASE Operator
  <2>1. place = "next" /\ C \in Singles /\ ~(C = "/" /\ D \in {"/", "*"})
        /\ ~(C = "-" /\ D \in Digits)
    BY <1>8 DEF Operator
  <2> DEFINE two == <<C, D>> \in Doubles
             q == IF two THEN p + 2 ELSE p + 1
             tk == IF two THEN C \o D ELSE C
  <2>2. Emit(tk, 0, p, q)
    BY <1>8 DEF Operator
  <2>3. p \in 1 .. Len(text) /\ ~Slashed(p) /\ ~Minused(p) /\ Char(text, p) \in Singles
    BY <1>0, <1>1, <2>1 DEF Slashed, Minused, C, D
  <2>4. /\ EndFrom(p) = Longest(p, IsOperator)
        /\ Longest(p, IsOperator) \in p + 1 .. Len(text) + 1
        /\ Longest(p, IsOperator) = q
    BY <1>0, <2>3, EndFromIs, LongestOperator DEF C, D
  <2>5. q \in 1 .. Len(text) + 1 /\ EndFrom(p) = q
    BY <1>0, <2>3, <2>4
  <2>6. q = p + 2 <=> two
    BY <1>0
  <2>7. ~negative /\ ~negative'
    BY <1>8, Unsigned
  <2>8. Rest = From(p)
    BY <2>1, <2>7, RestIs
  <2>9. TokenAt(p, q) = <<Worth(Token(tk, 0, p, q))>>
    <3>1. TokenAt(p, q) = <<Token(IF q = p + 2 THEN C \o D ELSE C, 0, p, q)>>
      BY <2>3, TokenAtIs DEF C, D
    <3>2. Char(text, p) # "'"
      BY <1>1, <2>3
    <3> HIDE DEF q, two
    <3> QED
      BY <2>6, <3>1, <3>2, WorthIs
  <2> HIDE DEF q, tk, two
  <2>10. Takes
    BY <1>0, <2>2, <2>3, <2>5, <2>7, <2>8, <2>9, Taken
  <2> QED
    BY <2>10
<1> QED
  BY <1>4, <1>5, <1>6, <1>7, <1>8

\* A step through a number.
LEMMA NumbersStep ==
  ASSUME Typed, Signed, InNumber, Valued, [Next]_vars,
         Number \/ Digit \/ HexDigit \/ NumberEnds
  PROVE  Keeps \/ Takes
<1>0. /\ text' = text /\ text \in Seq(Characters) /\ Len(text) \in Nat /\ p \in Nat /\ p > 0
      /\ start \in Nat /\ start > 0 /\ First \in Nat /\ First > 0
      /\ C # Nul => p \in 1 .. Len(text) /\ p + 1 \in 1 .. Len(text) + 1
      /\ D # Nul => p + 1 \in 1 .. Len(text)
      /\ negative \in BOOLEAN
  BY Frozen, InText DEF First, Typed
<1>1. /\ Nul \notin HexDigits /\ Digits \subseteq HexDigits /\ OctalDigits \subseteq Digits
      /\ "0" \in OctalDigits /\ {"x", "X"} \cap OctalDigits = {} /\ "'" \notin Digits
  BY Classes DEF Quotes
<1> USE DEF AtToken, At, Go
<1>2. CASE Number
  <2>1. /\ place = "next" /\ place' \in Numbers /\ p' = p + 1 /\ C \in Digits
        /\ tokens' = tokens /\ start' = IF negative THEN start ELSE p
    BY <1>2 DEF Number, Numbers
  <2>2. p' <= Len(text) + 1
    BY <1>0, <1>1, <2>1
  <2> QED
    BY <1>0, <2>1, <2>2, RestIs, RestAfter DEF Keeps
<1>3. CASE Digit \/ HexDigit
  <2>1. /\ p' = p + 1 /\ place \in Numbers /\ place' \in Numbers
        /\ tokens' = tokens /\ start' = start
    BY <1>3 DEF Digit, HexDigit, Counted, Numbers
  <2>2. C \in Digits \/ D \in HexDigits
    BY <1>1, <1>3 DEF Digit, HexDigit, Counted
  <2>3. p' <= Len(text) + 1
    BY <1>0, <1>1, <2>1, <2>2
  <2> QED
    BY <1>0, <2>1, <2>3, RestIs, RestAfter DEF Keeps
<1>4. CASE NumberEnds
  <2> DEFINE q == IF place = "hex" THEN p + 1 ELSE p
  <2>1. /\ place \in Numbers /\ p <= Len(text) + 1
        /\ \/ place = "hex" /\ D \notin HexDigits
           \/ place = "decimal" /\ C \notin Digits
           \/ place = "octal" /\ C \notin OctalDigits
        /\ Emit("Num", ival', start, q) /\ ~negative'
        /\ ival' = IF negative THEN -ival ELSE ival
    BY <1>4 DEF NumberEnds, Counted, Numbers
  <2>2. /\ First < p
        /\ place = "decimal" =>
             /\ Char(text, First) # "0"
             /\ \A k \in First .. p - 1 : Char(text, k) \in Digits
        /\ place = "octal" =>
             /\ Char(text, First) = "0" /\ Char(text, First + 1) \notin {"x", "X"}
             /\ \A k \in First .. p - 1 : Char(text, k) \in OctalDigits
        /\ place = "hex" =>
             /\ Char(text, First) = "0" /\ Char(text, First + 1) \in {"x", "X"}
             /\ \A k \in First + 2 .. p : Char(text, k) \in HexDigits
    BY <2>1 DEF InNumber
  <2>3. First \in 1 .. Len(text) /\ First \in First .. p - 1
    BY <1>0, <2>1, <2>2
  <2>4. Char(text, First) \in Digits
    BY <1>1, <2>1, <2>2, <2>3 DEF Numbers
  <2>5. place = "hex" => p \in 1 .. Len(text)
    <3> SUFFICES ASSUME place = "hex" PROVE C # Nul
      BY <1>0
    <3>1. p = First + 1 \/ p \in First + 2 .. p
      BY <1>0, <2>2
    <3> QED
      BY <1>1, <2>2, <3>1 DEF C, Nul
  <2>6. q \in First + 1 .. Len(text) + 1 /\ q \in Nat \ {0}
    BY <1>0, <2>1, <2>2, <2>5
  <2>7. q - 1 \in First .. Len(text)
    BY <1>0, <2>6
  <2>8. IsNumber(SubSeq(text, First, q - 1))
    <3>1. CASE place = "hex"
      <4>1. q - 1 = p
        BY <1>0, <3>1
      <4>2. /\ Char(text, First) = "0" /\ q - 1 > First
            /\ Char(text, First + 1) \in {"x", "X"}
            /\ \A k \in First + 2 .. q - 1 : Char(text, k) \in HexDigits
        BY <2>2, <3>1, <4>1
      <4> HIDE DEF q
      <4> QED
        BY <1>0, <2>3, <2>7, <4>2, NumberIn
    <3>2. CASE place = "octal"
      <4>1. q = p
        BY <3>2
      <4>2. /\ Char(text, First) = "0"
            /\ \A k \in First .. q - 1 : Char(text, k) \in OctalDigits
        BY <2>2, <3>2, <4>1
      <4> HIDE DEF q
      <4> QED
        BY <1>0, <2>3, <2>7, <4>2, NumberIn
    <3>3. CASE place = "decimal"
      <4>1. q = p
        BY <3>3
      <4>2. /\ Char(text, First) \notin {Nul, "0"}
            /\ \A k \in First .. q - 1 : Char(text, k) \in Digits
        BY <1>1, <2>2, <2>4, <3>3, <4>1
      <4> HIDE DEF q
      <4> QED
        BY <1>0, <2>3, <2>7, <4>2, NumberIn
    <3> QED
      BY <2>1, <3>1, <3>2, <3>3 DEF Numbers
  <2>9. ASSUME NEW k \in q .. Len(text) PROVE ~IsNumber(SubSeq(text, First, k))
    <3>0. k \in First .. Len(text) /\ k > First
      BY <1>0, <2>6
    <3>1. CASE place = "hex"
      <4>1. /\ p + 1 \in First + 2 .. k /\ p + 1 \in First .. k /\ First + 1 \in First .. k
        BY <1>0, <2>2, <3>0, <3>1
      <4>2. Char(text, p + 1) \notin HexDigits /\ Char(text, First + 1) \notin OctalDigits
            /\ Char(text, First) = "0"
        BY <1>1, <2>1, <2>2, <3>1 DEF D
      <4> QED
        BY <1>0, <2>3, <3>0, <4>1, <4>2, NumberIn
    <3>2. CASE place = "octal"
      <4>1. p \in First .. k
        BY <1>0, <2>2, <3>0, <3>2
      <4>2. /\ Char(text, p) \notin OctalDigits /\ Char(text, First) = "0"
            /\ Char(text, First + 1) \notin {"x", "X"}
        BY <2>1, <2>2, <3>2 DEF C
      <4> QED
        BY <1>0, <2>3, <3>0, <4>1, <4>2, NumberIn
    <3>3. CASE place = "decimal"
      <4>1. p \in First .. k
        BY <1>0, <2>2, <3>0, <3>3
      <4>2. Char(text, p) \notin Digits /\ Char(text, First) # "0"
        BY <2>1, <2>2, <3>3 DEF C
      <4> QED
        BY <1>0, <2>3, <3>0, <4>1, <4>2, NumberIn
    <3> QED
      BY <2>1, <3>1, <3>2, <3>3 DEF Numbers
  <2>11. ValueOf(First, q - 1) = ival
    <3>1. CASE place = "hex"
      <4>1. q - 1 = p /\ ival = Positional(First + 2, p, 16)
        BY <1>0, <3>1 DEF Valued
      <4>2. IsHex(SubSeq(text, First, q - 1))
        <5>1. /\ Char(text, First) = "0" /\ q - 1 > First
              /\ Char(text, First + 1) \in {"x", "X"}
              /\ \A k \in First + 2 .. q - 1 : Char(text, k) \in HexDigits
          BY <2>2, <3>1, <4>1
        <5> HIDE DEF q
        <5> QED
          BY <1>0, <2>3, <2>7, <5>1, KindIs
      <4> HIDE DEF q
      <4>3. ValueOf(First, q - 1) = Positional(First + 2, q - 1, 16)
        BY <1>0, <2>3, <2>7, <4>2, ValueIs
      <4> QED
        BY <4>1, <4>3
    <3>2. CASE place = "octal"
      <4>1. q = p /\ ival = Positional(First, p - 1, 8)
        BY <3>2 DEF Valued
      <4>2. IsOctal(SubSeq(text, First, q - 1))
        <5>1. /\ Char(text, First) = "0"
              /\ \A k \in First .. q - 1 : Char(text, k) \in OctalDigits
          BY <2>2, <3>2, <4>1
        <5> HIDE DEF q
        <5> QED
          BY <1>0, <2>3, <2>7, <5>1, KindIs
      <4> HIDE DEF q
      <4>3. ValueOf(First, q - 1) = Positional(First, q - 1, 8)
        BY <1>0, <2>3, <2>7, <4>2, ValueIs
      <4> QED
        BY <4>1, <4>3
    <3>3. CASE place = "decimal"
      <4>1. q = p /\ ival = Positional(First, p - 1, 10)
        BY <3>3 DEF Valued
      <4>2. IsDecimal(SubSeq(text, First, q - 1))
        <5>1. /\ Char(text, First) \notin {Nul, "0"}
              /\ \A k \in First .. q - 1 : Char(text, k) \in Digits
          BY <1>1, <2>2, <2>4, <3>3, <4>1
        <5> HIDE DEF q
        <5> QED
          BY <1>0, <2>3, <2>7, <5>1, KindIs
      <4> HIDE DEF q
      <4>3. ValueOf(First, q - 1) = Positional(First, q - 1, 10)
        BY <1>0, <2>3, <2>7, <4>2, ValueIs
      <4> QED
        BY <4>1, <4>3
    <3> QED
      BY <2>1, <3>1, <3>2, <3>3 DEF Numbers
  <2> HIDE DEF q
  <2>10. Longest(First, IsNumber) = q
    BY <1>0, <2>3, <2>4, <2>6, <2>8, <2>9, LongestNumber
  <2>12. start \in 1 .. Len(text) /\ q \in 1 .. Len(text) + 1 /\ Char(text, start) # "'"
    <3>1. negative => Char(text, start) = "-" /\ First = start + 1
      BY DEF Signed, First
    <3>2. ~negative => First = start
      BY DEF First
    <3>3. q \in 1 .. Len(text) + 1
      BY <1>0, <2>6
    <3>4. CASE negative
      BY <1>0, <2>3, <3>1, <3>3, <3>4
    <3>5. CASE ~negative
      BY <1>1, <2>3, <2>4, <3>2, <3>3, <3>5
    <3> QED
      BY <3>4, <3>5
  <2>13. EndFrom(start) = q /\ TokenAt(start, q) = <<Token("Num", ival', start, q)>>
    <3>1. CASE negative
      <4>1. First = start + 1 /\ ival' = -ival
        BY <2>1, <3>1 DEF First
      <4>2. Minused(start)
        BY <2>4, <3>1, <4>1 DEF Signed, Minused
      <4> QED
        BY <2>10, <2>11, <4>1, <4>2, EndFromIs, TokenAtIs
    <3>2. CASE ~negative
      <4>1. First = start /\ ival' = ival
        BY <2>1, <3>2 DEF First
      <4> QED
        BY <2>4, <2>10, <2>11, <4>1, EndFromIs, TokenAtIs
    <3> QED
      BY <3>1, <3>2
  <2>14. TokenAt(start, q) = <<Worth(Token("Num", ival', start, q))>>
    BY <2>12, <2>13, WorthIs
  <2>15. Rest = From(start)
    BY <2>1, RestIs
  <2>16. Takes
    BY <1>0, <2>1, <2>12, <2>13, <2>14, <2>15, Taken
  <2> QED
    BY <2>16
<1> QED
  BY <1>2, <1>3, <1>4

LEMMA Within ==
  ASSUME NEW a \in Nat, NEW b \in Nat, NEW c \in Nat, b <= c - 1
  PROVE  \A j \in a + 1 .. b : j \in a + 1 .. c - 1
OBVIOUS

\* And a step through a literal, which may lead behind the text.
LEMMA LiteralsStep ==
  ASSUME Typed, Signed, InQuote, InQuote', Valued, [Next]_vars,
         Literal \/ InLiteral \/ LiteralEnds
  PROVE  Keeps \/ Takes \/ Falls
<1>0. /\ text' = text /\ text \in Seq(Characters) /\ Len(text) \in Nat /\ p \in Nat /\ p > 0
      /\ start \in Nat /\ start > 0
      /\ C # Nul => p \in 1 .. Len(text) /\ p + 1 \in 1 .. Len(text) + 1
      /\ C = Nul /\ p <= Len(text) + 1 => p = Len(text) + 1
  BY Frozen, InText
<1>1. Nul \notin Quotes /\ Quotes = {"'", "\""}
  BY Classes DEF Quotes
<1> USE DEF AtToken, At, Go
<1>2. ASSUME place = "literal", start <= Len(text)
      PROVE  EndFrom(start) = EndOfLiteral(start) /\ Rest = From(start)
             /\ (EndOfLiteral(start) = 0 => Rest = <<Open>>)
  <2>1. EndFrom(start) = EndOfLiteral(start)
    BY <1>2, EndFromIs DEF InQuote
  <2>2. start \in 1 .. Len(text) + 1
    BY <1>0, <1>2
  <2>3. Rest = From(start)
    BY <1>2, RestIs
  <2> QED
    BY <1>0, <1>2, <2>1, <2>2, <2>3, FromIs
<1>3. CASE Literal
  <2>1. /\ place = "next" /\ place' = "literal" /\ p' = p + 1 /\ start' = p /\ C \in Quotes
        /\ tokens' = tokens
    BY <1>3 DEF Literal
  <2>2. p' <= Len(text) + 1
    <3>1. C # Nul
      BY <1>1, <2>1
    <3> QED
      BY <1>0, <2>1, <3>1
  <2>3. ~negative
    BY <1>3, Unsigned
  <2> QED
    BY <1>0, <2>1, <2>2, <2>3, RestIs, RestAfter DEF Keeps
<1>4. CASE InLiteral
  <2>1. /\ place = "literal" /\ place' = "literal" /\ start' = start /\ C # Nul
        /\ p' \in {p + 1, p + 2} /\ tokens' = tokens
    BY <1>4 DEF InLiteral
  <2>2. CASE p' <= Len(text) + 1
    BY <1>0, <2>1, <2>2, RestIs, RestAfter DEF Keeps
  <2>3. CASE ~(p' <= Len(text) + 1)
    <3>1. start < p /\ start <= Len(text)
      BY <1>0, <2>1 DEF InQuote
    <3>2. (\A j \in start + 1 .. p - 1 : ~Shut(start, j))'
            <=> \A j \in start' + 1 .. p' - 1 : ~Shut(start', j)
      BY <1>0 DEF Shut, Escaped, Char
    <3>3. \A j \in start + 1 .. p' - 1 : ~Shut(start, j)
      BY <2>1, <3>2 DEF InQuote
    <3>4. \A j \in start + 1 .. Len(text) : j \in start + 1 .. p' - 1
      <4>1. p' \in Nat /\ Len(text) <= p' - 1
        BY <1>0, <2>1, <2>3
      <4> QED
        BY <1>0, <4>1, Within
    <3>5. EndOfLiteral(start) = 0
      BY <1>0, <3>3, <3>4, LiteralEndIs
    <3> QED
      BY <1>2, <2>1, <2>3, <3>1, <3>5 DEF Falls
  <2> QED
    BY <2>2, <2>3
<1>5. CASE LiteralEnds
  <2> DEFINE tk == IF quote = "'" THEN "Num" ELSE "String"
  <2>1. /\ place = "literal" /\ C \in {Nul, quote}
        /\ p <= Len(text) + 1 /\ Emit(tk, ival', start, p + 1)
        /\ ival' = IF quote = "'" THEN ival ELSE 0
    BY <1>5 DEF LiteralEnds
  <2>2. /\ start < p /\ Char(text, start) = quote /\ quote \in Quotes
        /\ ~Escaped(start, p) /\ \A j \in start + 1 .. p - 1 : ~Shut(start, j)
    BY <2>1 DEF InQuote
  <2>3. start <= Len(text) /\ start \in 1 .. Len(text)
    BY <1>0, <2>1, <2>2
  <2>4. CASE C = Nul
    <3>0. p' = p + 1
      BY <2>1 DEF Emit
    <3>1. p = Len(text) + 1 /\ ~(p' <= Len(text) + 1)
      BY <1>0, <2>1, <2>4, <3>0
    <3>2. \A j \in start + 1 .. Len(text) : j \in start + 1 .. p - 1
      BY <1>0, <3>1
    <3>3. EndOfLiteral(start) = 0
      BY <1>0, <2>2, <3>2, LiteralEndIs
    <3> QED
      BY <1>2, <2>1, <2>3, <3>1, <3>3 DEF Falls
  <2>5. CASE C # Nul
    <3>1. p \in 1 .. Len(text) /\ p + 1 \in 1 .. Len(text) + 1
      BY <1>0, <2>5
    <3>2. p \in start + 1 .. Len(text)
      BY <1>0, <2>2, <3>1
    <3>3. Shut(start, p)
      BY <2>1, <2>2, <2>5 DEF Shut, C
    <3>4. EndOfLiteral(start) = p + 1
      BY <1>0, <2>2, <3>2, <3>3, LiteralEndIs
    <3>5. EndFrom(start) = p + 1 /\ Rest = From(start)
      BY <1>2, <2>1, <2>3, <3>4
    <3>6. ~negative'
      BY <1>5, Unsigned
    <3>7. TokenAt(start, p + 1) = <<Worth(Token(tk, ival', start, p + 1))>>
      <4>1. CASE quote = "'"
        <5>1. tk = "Num" /\ ival' = ival
          BY <2>1, <4>1
        <5>2. TokenAt(start, p + 1) = <<Token("Num", LastChar(start, p + 1), start, p + 1)>>
          BY <2>2, <4>1, TokenAtIs
        <5>3. CASE p = start + 1
          <6>1. p + 1 = start + 2
            BY <1>0, <5>3
          <6>2. LastChar(start, p + 1) = 0
            BY <6>1 DEF LastChar
          <6>3. Worth(Token("Num", ival, start, p + 1)) = Token("Num", 0, start, p + 1)
            BY <2>2, <4>1, <6>1 DEF Worth, Token
          <6> QED
            BY <5>1, <5>2, <6>2, <6>3
        <5>4. CASE p # start + 1
          <6>1. p + 1 # start + 2 /\ p > start + 1
            BY <1>0, <2>2, <5>4
          <6>2. ival = LastChar(start, p + 1)
            BY <2>1, <6>1 DEF Valued
          <6> QED
            BY <5>1, <5>2, <6>1, <6>2, WorthIs
        <5> QED
          BY <5>3, <5>4
      <4>2. CASE quote # "'"
        <5>1. tk = "String" /\ ival' = 0 /\ Char(text, start) = "\"" /\ "\"" # "'"
          BY <1>1, <2>1, <2>2, <4>2
        <5>2. TokenAt(start, p + 1) = <<Token("String", 0, start, p + 1)>>
          BY <2>2, <5>1, TokenAtIs
        <5>3. Worth(Token("String", 0, start, p + 1)) = Token("String", 0, start, p + 1)
          BY <5>1, WorthIs
        <5> QED
          BY <5>1, <5>2, <5>3
      <4> QED
        BY <4>1, <4>2
    <3> HIDE DEF tk
    <3>8. Takes
      BY <1>0, <2>1, <2>3, <3>1, <3>5, <3>6, <3>7, Taken
    <3> QED
      BY <3>8
  <2> QED
    BY <2>4, <2>5
<1> QED
  BY <1>3, <1>4, <1>5

LEMMA Moved ==
  ASSUME NEW T, NEW W \in Seq(T), NEW w \in T, NEW R \in Seq(T)
  PROVE  W \o (<<w>> \o R) = Append(W, w) \o R
OBVIOUS

LEMMA AgreesKept ==
  ASSUME Typed, Signed, InName, InNumber, InQuote, InPlace, Valued, Agrees, [Next]_vars
  PROVE  Agrees'
<1>0. /\ text' = text /\ p \in Nat /\ Len(text) \in Nat /\ Len(text)' = Len(text)
      /\ InQuote' /\ CTokens' = CTokens /\ \E T : tokens \in Seq(T)
  BY Frozen, InQuoteKept, InText, Same DEF CTokens, Typed
<1>1. Worths(tokens)' = Worths(tokens') /\ Open' = Open
  BY <1>0 DEF Worths, Worth, Char, Open, Token
<1> SUFFICES IF p' <= Len(text) + 1 THEN CTokens = Worths(tokens') \o Rest'
             ELSE Open \in Range(CTokens)
  BY <1>0, <1>1 DEF Agrees, Range
<1>2. CASE PastTheEnd
  <2>1. p' = p /\ ~(p <= Len(text) + 1)
    BY <1>0, <1>2 DEF PastTheEnd, Go
  <2> QED
    BY <2>1 DEF Agrees
<1>3. CASE UNCHANGED vars
  <2>1. p' = p /\ place' = place /\ start' = start /\ negative' = negative
        /\ tokens' = tokens
    BY <1>3 DEF vars
  <2>2. Rest' = Rest \/ place \notin Places \/ place = "undefined"
    BY <1>0, <2>1, RestIs, RestAfter DEF Places, Numbers
  <2>3. CASE place = "undefined"
    BY <2>1, <2>3, <1>0 DEF Agrees, InPlace
  <2> QED
    BY <2>1, <2>2, <2>3 DEF Agrees, Typed
<1>4. CASE Next /\ ~PastTheEnd
  <2>1. p <= Len(text) + 1
    BY <1>4 DEF Next, Newline, Ignored, Directive, LineComment, RestOfLine, LineEnds,
       Comment, InComment, CommentEnds, Name, MoreOfName, NameEnds, Minus, Number, Digit,
       HexDigit, NumberEnds, Operator, Literal, InLiteral, LiteralEnds, Done, AtToken, At
  <2>2. Keeps \/ Takes \/ Falls
    BY <1>0, <1>4, BlanksKeep, NamesStep, NumbersStep, LiteralsStep DEF Next
  <2>3. CTokens = Worths(tokens) \o Rest
    BY <2>1 DEF Agrees
  <2>4. CASE Keeps
    BY <2>3, <2>4 DEF Keeps
  <2>5. PICK T : tokens \in Seq(T)
    BY <1>0
  <2>6. /\ Len(tokens) \in Nat /\ DOMAIN tokens = 1 .. Len(tokens)
        /\ Worths(tokens) = [k \in 1 .. Len(tokens) |-> Worth(tokens[k])]
    BY <2>5 DEF Worths
  <2> DEFINE V == {Worth(tokens[k]) : k \in 1 .. Len(tokens)}
  <2>7. Worths(tokens) \in Seq(V) /\ Len(Worths(tokens)) = Len(tokens)
    <3>1. \A k \in 1 .. Len(tokens) : Worth(tokens[k]) \in V
      OBVIOUS
    <3> HIDE DEF V
    <3> QED
      BY <2>6, <3>1
  <2> HIDE DEF V
  <2>8. CASE Takes
    <3>1. PICK t : tokens' = Append(tokens, t) /\ Rest = <<Worth(t)>> \o Rest'
      BY <2>8 DEF Takes
    <3>2. PICK R : Rest' \in Seq(R)
      BY <2>8 DEF Takes
    <3> DEFINE A == V \cup R \cup {Worth(t)}
    <3>3. Worths(tokens) \in Seq(A) /\ Rest' \in Seq(A) /\ Worth(t) \in A
      BY <2>7, <3>2
    <3> HIDE DEF A
    <3>4. Worths(tokens) \o (<<Worth(t)>> \o Rest') = Append(Worths(tokens), Worth(t)) \o Rest'
      BY <3>3, Moved
    <3>5. Worths(tokens') = Append(Worths(tokens), Worth(t))
      <4>1. /\ DOMAIN tokens' = 1 .. Len(tokens) + 1 /\ tokens'[Len(tokens) + 1] = t
            /\ \A k \in 1 .. Len(tokens) : tokens'[k] = tokens[k]
        BY <2>5, <3>1
      <4>2. Worths(tokens') = [k \in 1 .. Len(tokens) + 1 |-> Worth(tokens'[k])]
        BY <4>1 DEF Worths
      <4> DEFINE X == Append(Worths(tokens), Worth(t))
      <4>3. /\ DOMAIN X = 1 .. Len(tokens) + 1 /\ X[Len(tokens) + 1] = Worth(t)
            /\ \A k \in 1 .. Len(tokens) : X[k] = Worth(tokens[k])
            /\ X = [k \in 1 .. Len(tokens) + 1 |-> X[k]]
        BY <2>6, <2>7, <3>3
      <4> HIDE DEF X
      <4>4. \A k \in 1 .. Len(tokens) + 1 : k \in 1 .. Len(tokens) \/ k = Len(tokens) + 1
        BY <2>6
      <4>5. \A k \in 1 .. Len(tokens) + 1 : X[k] = Worth(tokens'[k])
        BY <4>1, <4>3, <4>4
      <4>6. Worths(tokens') = X
        BY <4>2, <4>3, <4>5
      <4> QED
        BY <4>6 DEF X
    <3> QED
      BY <2>3, <2>8, <3>1, <3>4, <3>5 DEF Takes
  <2>9. CASE Falls
    <3> DEFINE W == Worths(tokens)
               X == W \o <<Open>>
    <3>1. CTokens = X /\ W \in Seq(V) /\ Len(W) \in Nat
      BY <2>3, <2>6, <2>7, <2>9 DEF Falls
    <3> HIDE DEF W
    <3>2. Len(W) + 1 \in DOMAIN X /\ X[Len(W) + 1] = Open
      BY <3>1
    <3> HIDE DEF X
    <3> QED
      BY <2>9, <3>1, <3>2 DEF Falls, Range
  <2> QED
    BY <2>2, <2>4, <2>8, <2>9
<1> QED
  BY <1>2, <1>3, <1>4

-----------------------------------------------------------------------------
(* What follows of every execution. *)

LEMMA ScannedInit ==
  ASSUME Init
  PROVE  Scanned
<1>1. /\ text \in Seq(Characters) /\ Len(text) \in Nat
      /\ p = 1 /\ line = 1 /\ tokens = <<>> /\ place = "next"
      /\ start = 1 /\ negative = FALSE
  BY TextsAssumption DEF Init
<1>2. Typed
  <2>1. \E T : tokens \in Seq(T)
    <3>1. tokens \in Seq({})
      BY <1>1
    <3> QED
      BY <3>1
  <2>2. p \in Nat \ {0} /\ start \in Nat \ {0} /\ line \in Nat /\ place \in Places
    BY <1>1 DEF Places
  <2>3. negative \in BOOLEAN
    BY <1>1
  <2> QED
    BY <1>1, <2>1, <2>2, <2>3 DEF Typed
<1>3. DOMAIN tokens = {}
  BY <1>1
<1>4. Lines
  <2>1. Seen = 1
    BY <1>1 DEF Seen
  <2>2. Breaks(Seen, tokens) = {}
    BY <2>1 DEF Breaks
  <2>3. Cardinality(Breaks(Seen, tokens)) = 0
    BY <2>2, FS_EmptySet
  <2> QED
    BY <1>1, <2>3 DEF Lines
<1>5. Signed /\ InName /\ InNumber /\ InQuote /\ InPlace /\ Behind /\ Valued
  BY <1>1, <1>3 DEF Signed, InName, InNumber, InQuote, InPlace, Behind, Numbers, Valued
<1>6. Agrees
  <2>1. 1 \in 1 .. Len(text) + 1 /\ p <= Len(text) + 1
    BY <1>1
  <2>2. PICK T : CTokensFrom[1] \in Seq(T)
    BY <1>1, <2>1, FromSeq
  <2>3. Worths(tokens) = <<>>
    BY <1>1, <1>3 DEF Worths
  <2>4. Rest = CTokensFrom[1]
    BY <1>1, RestIs DEF From
  <2>5. <<>> \o CTokensFrom[1] = CTokensFrom[1]
    BY <2>2
  <2> QED
    BY <2>1, <2>3, <2>4, <2>5 DEF Agrees, CTokens
<1> QED
  BY <1>2, <1>4, <1>5, <1>6 DEF Scanned

\* The invariant is kept by every step.
LEMMA ScannedAlways == Spec => []Scanned
<1>1. Init => Scanned
  BY ScannedInit
<1>2. Scanned /\ [Next]_vars => Scanned'
  <2> SUFFICES ASSUME Scanned, [Next]_vars PROVE Scanned'
    OBVIOUS
  <2>1. /\ Typed /\ Behind /\ Lines /\ Signed /\ InName /\ InNumber /\ InQuote /\ InPlace
        /\ Valued /\ Agrees
    BY DEF Scanned
  <2>2. Typed' /\ Behind' /\ Lines'
    BY <2>1, TypedKept, LinesKept
  <2>3. Signed' /\ InName' /\ InNumber' /\ InQuote' /\ InPlace'
    BY <2>1, SignedKept, InNameKept, InNumberKept, InQuoteKept, InPlaceKept
  <2>4. Valued' /\ Agrees'
    BY <2>1, ValuedKept, AgreesKept
  <2> QED
    BY <2>2, <2>3, <2>4 DEF Scanned
<1> QED
  BY <1>1, <1>2, PTL DEF Spec

\* Of every text the line reported with an error counts all newlines but those
\* within literals: none is missed in a comment or behind a directive, and none
\* is counted twice when one token ends and the next begins (c4.c, 239-250).
THEOREM LinesCountedAlways == Spec => []LinesCounted
<1>1. Scanned => LinesCounted
  <2> SUFFICES ASSUME Scanned, place = "done"
               PROVE  line = 1 + Cardinality({k \in 1 .. Len(text) :
                                                text[k] = "\n" /\ ~Quoted(k)})
    BY DEF LinesCounted
  <2>1. p = Len(text) + 1 /\ Len(text) \in Nat /\ Seen = p
    BY DEF Scanned, InPlace, Typed, Seen
  <2>2. line = 1 + Cardinality(Breaks(p, tokens))
    BY <2>1 DEF Scanned, Lines
  <2>3. Breaks(p, tokens) = {k \in 1 .. Len(text) : text[k] = "\n" /\ ~Quoted(k)}
    <3>1. (Len(text) + 1) - 1 = Len(text)
      BY <2>1
    <3>2. \A k \in 1 .. Len(text) : Char(text, k) = text[k]
      BY <2>1 DEF Char
    <3> QED
      BY <2>1, <3>1, <3>2 DEF Breaks, InQuotes, Quoted
  <2> QED
    BY <2>2, <2>3
<1> QED
  BY <1>1, ScannedAlways, PTL

\* At the end of the text nothing is left.
LEMMA AllFound ==
  ASSUME Scanned, place = "done"
  PROVE  Worths(tokens) = CTokens
<1>1. /\ text \in Seq(Characters) /\ Len(text) \in Nat /\ p = Len(text) + 1
      /\ Agrees /\ \E T : tokens \in Seq(T)
  BY DEF Scanned, Typed, InPlace
<1>2. p \in 1 .. Len(text) + 1 /\ p > Len(text) /\ p <= Len(text) + 1
  BY <1>1
<1>3. Rest = <<>>
  BY <1>1, <1>2, RestIs, FromIs
<1>4. CTokens = Worths(tokens) \o <<>>
  BY <1>1, <1>2, <1>3 DEF Agrees
<1>5. PICK V : Worths(tokens) \in Seq(V)
  <2> DEFINE V == {Worth(tokens[k]) : k \in DOMAIN tokens}
  <2>1. \A k \in DOMAIN tokens : Worth(tokens[k]) \in V
    OBVIOUS
  <2> HIDE DEF V
  <2>2. DOMAIN tokens = 1 .. Len(tokens) /\ Len(tokens) \in Nat
    BY <1>1
  <2>3. Worths(tokens) \in Seq(V)
    BY <2>1, <2>2 DEF Worths
  <2> QED
    BY <2>3
<1> QED
  BY <1>4, <1>5

\* next leaves every text either at the 0 that ends it, and then the text
\* closes each comment and each literal it opens, or by reading behind that 0,
\* and then it leaves one open (c4.c, 303 and 322).
THEOREM StaysInTextAlways == Spec => []StaysInText
<1>1. Scanned => StaysInText
  <2> SUFFICES ASSUME Scanned PROVE StaysInText
    OBVIOUS
  <2>1. /\ text \in Seq(Characters) /\ Len(text) \in Nat /\ p \in Nat /\ InPlace
        /\ IF p <= Len(text) + 1 THEN CTokens = Worths(tokens) \o Rest
           ELSE Open \in Range(CTokens)
        /\ \E T : tokens \in Seq(T)
    BY DEF Scanned, Typed, Agrees
  <2>2. ASSUME place = "done" PROVE Open \notin Range(CTokens)
    <3>1. CTokens = Worths(tokens)
      BY <2>2, AllFound
    <3>2. ASSUME NEW k \in DOMAIN tokens PROVE Worth(tokens[k]) # Open
      <4>1. tokens[k].at # 0
        BY <2>2 DEF Scanned, Behind
      <4>2. Worth(tokens[k]).at = tokens[k].at
        BY DEF Worth
      <4> QED
        BY <4>1, <4>2 DEF Open, Token
    <3> QED
      BY <3>1, <3>2 DEF Worths, Range
  <2>3. ASSUME place = "undefined" PROVE Open \in Range(CTokens)
    <3>1. ~(p <= Len(text) + 1)
      BY <2>1, <2>3 DEF InPlace
    <3> QED
      BY <2>1, <3>1
  <2> QED
    BY <2>2, <2>3 DEF StaysInText
<1> QED
  BY <1>1, ScannedAlways, PTL

\* Of every text next finds the tokens that C does, each in its place and worth
\* what it is worth in C, but that it takes a minus for the sign of the number
\* it touches (c4.c, 232-355).
THEOREM TokensAsCAlways == Spec => []TokensAsC
<1>1. Scanned => TokensAsC
  BY AllFound DEF TokensAsC
<1> QED
  BY <1>1, ScannedAlways, PTL

-----------------------------------------------------------------------------
(* The numbers of the command line: my_atoi goes through its digits once, as *)
(* next does, but takes a letter for its distance from the character 0.      *)

AtoiDigits(w) ==
  IF w = <<"0">> THEN <<>> ELSE IF Char(w, 1) = "0" THEN SubSeq(w, 3, Len(w)) ELSE w
Runs(w) ==
  LET i[k \in 0 .. Len(AtoiDigits(w))] ==
        IF k = 0 THEN 0 ELSE i[k - 1] * Radix(w) + Code[AtoiDigits(w)[k]] - 48
  IN  i

LEMMA CodesAre ==
  /\ \A c \in HexDigits : Code[c] \in Nat /\ Code[c] >= 48
  /\ \A c \in HexDigits :
       /\ DigitValue[c] \in Nat /\ Code[c] - 48 >= DigitValue[c]
       /\ (Code[c] - 48 = DigitValue[c]) <=> c \in Digits
<1>1. ASSUME NEW c \in Digits
      PROVE  Code[c] \in Nat /\ Code[c] >= 48 /\ Code[c] - 48 = DigitValue[c]
  <2>1. Code[c] \in 48 .. 57
    BY CodeAssumption
  <2> QED
    BY <2>1, DigitsAre
<1>2. ASSUME NEW c \in HexLetters
      PROVE  Code[c] \in Nat /\ Code[c] >= 48 /\ Code[c] - 48 > DigitValue[c]
  <2>1. Code[c] \in (65 .. 70) \cup (97 .. 102)
    BY CodeAssumption
  <2> QED
    BY <2>1, DigitsAre
<1>3. ASSUME NEW c \in HexDigits
      PROVE  DigitValue[c] \in Nat /\ (c \in Digits \/ (c \notin Digits /\ c \in HexLetters))
  BY DigitsAre DEF HexDigits
<1> QED
  BY <1>1, <1>2, <1>3

LEMMA RunsAre ==
  ASSUME NEW w, Len(AtoiDigits(w)) \in Nat, Radix(w) \in Nat,
         \A k \in 1 .. Len(AtoiDigits(w)) : AtoiDigits(w)[k] \in HexDigits
  PROVE  /\ my_atoi(w) = Runs(w)[Len(AtoiDigits(w))] /\ Runs(w)[0] = 0
         /\ \A k \in 1 .. Len(AtoiDigits(w)) :
              Runs(w)[k] = Runs(w)[k - 1] * Radix(w) + (Code[AtoiDigits(w)[k]] - 48)
         /\ \A k \in 0 .. Len(AtoiDigits(w)) : Runs(w)[k] \in Nat
<1> DEFINE ds == AtoiDigits(w)
           m == Len(ds)
           radix == Radix(w)
           e(k) == Code[ds[k]]
           Is(f) == f = [k \in 0 .. m |-> IF k = 0 THEN 0 ELSE f[k - 1] * radix + e(k) - 48]
           g == [k \in 1 .. m |-> [v \in Nat |-> v * radix + e(k) - 48]]
<1>1. my_atoi(w) = Runs(w)[m]
  BY DEF my_atoi, Runs, AtoiDigits
<1>2. Runs(w) = CHOOSE f : Is(f)
  BY DEF Runs
<1>3. \A k \in 1 .. m : e(k) \in Nat /\ e(k) >= 48
  BY CodesAre
<1>4. m \in Nat /\ radix \in Nat
  OBVIOUS
<1> HIDE DEF ds, m, radix, e
<1>5. ASSUME NEW k \in 1 .. m, NEW v \in Nat PROVE v * radix + e(k) - 48 \in Nat
  <2>1. v * radix \in Nat
    BY <1>4
  <2> QED
    BY <1>3, <2>1
<1>6. \E f : Is(f)
  <2>1. \A k \in 1 .. m, v \in Nat : g[k][v] = v * radix + e(k) - 48
    OBVIOUS
  <2>2. \A k \in 1 .. m, v \in Nat : g[k][v] \in Nat
    BY <1>5, <2>1
  <2> HIDE DEF g
  <2>3. PICK f \in [0 .. m -> Nat] :
          \A k \in 0 .. m : f[k] = IF k = 0 THEN 0 ELSE g[k][f[k - 1]]
    <3>1. Iterable(m, Nat, 0, g)
      BY <1>4, <2>2 DEF Iterable
    <3>2. \E f : Iterated(f, m, Nat, 0, g)
      BY <3>1, Iterates, Zenon
    <3> QED
      BY <3>2 DEF Iterated
  <2>4. ASSUME NEW k \in 0 .. m
        PROVE  f[k] = IF k = 0 THEN 0 ELSE f[k - 1] * radix + e(k) - 48
    <3>1. k # 0 => k \in 1 .. m /\ f[k - 1] \in Nat
      BY <1>4, <2>3
    <3> QED
      BY <2>1, <2>3, <3>1
  <2>5. f = [k \in 0 .. m |-> f[k]]
    BY <2>3
  <2>6. Is(f)
    BY <2>4, <2>5
  <2> QED
    BY <2>6
<1>7. Is(Runs(w))
  <2> HIDE DEF Is
  <2> QED
    BY <1>2, <1>6
<1> DEFINE f == Runs(w)
<1> HIDE DEF f
<1>8. f = [k \in 0 .. m |-> IF k = 0 THEN 0 ELSE f[k - 1] * radix + e(k) - 48]
  BY <1>7 DEF f
<1>9. f[0] = 0
  BY <1>4, <1>8
<1>10. \A k \in 1 .. m : f[k] = f[k - 1] * radix + e(k) - 48
  BY <1>4, <1>8
<1>11. \A k \in 0 .. m : f[k] \in Nat
  <2>1. \A k \in 1 .. m : f[k - 1] \in Nat => f[k] \in Nat
    BY <1>5, <1>10
  <2>2. f[0] \in Nat
    BY <1>9
  <2> QED
    BY <1>4, <2>1, <2>2, Everywhere
<1>12. \A k \in 1 .. m : f[k] = f[k - 1] * radix + (e(k) - 48)
  <2> SUFFICES ASSUME NEW k \in 1 .. m PROVE f[k] = f[k - 1] * radix + (e(k) - 48)
    OBVIOUS
  <2>1. f[k - 1] * radix \in Nat
    BY <1>4, <1>11
  <2> QED
    BY <1>3, <1>10, <2>1
<1> QED
  BY <1>1, <1>9, <1>11, <1>12 DEF f, ds, m, radix, e

\* Of two numbers the one that is not the smaller stays so, and equal to the
\* other if it was and the new digits are.
LEMMA Grown ==
  ASSUME NEW radix \in {8, 10, 16}, NEW a \in Nat, NEW b \in Nat, NEW d \in Nat, NEW e \in Nat,
         a >= b, d >= e
  PROVE  /\ a * radix + d >= b * radix + e
         /\ (a * radix + d = b * radix + e) <=> a = b /\ d = e
<1>1. CASE radix = 8
  BY <1>1
<1>2. CASE radix = 10
  BY <1>2
<1>3. CASE radix = 16
  BY <1>3
<1> QED
  BY <1>1, <1>2, <1>3

\* What my_atoi makes of the digits from i on is at least what they are worth,
\* and more if there is a letter.
LEMMA RunsFrom ==
  ASSUME text \in Seq(Characters), Radix(text) \in {8, 10, 16}, NEW i \in 1 .. Len(text) + 1,
         Len(AtoiDigits(text)) = Len(text) + 1 - i,
         \A k \in i .. Len(text) :
           /\ AtoiDigits(text)[k - i + 1] = Char(text, k) /\ Char(text, k) \in HexDigits
  PROVE  (my_atoi(text) = Positional(i, Len(text), Radix(text)))
           <=> \A k \in i .. Len(text) : Char(text, k) \in Digits
<1> DEFINE radix == Radix(text)
           m == Len(text) + 1 - i
           r == Runs(text)
           q(n) == Positional(i, i + n - 1, radix)
           T == {n \in Nat : n <= m =>
                   /\ q(n) \in Nat /\ r[n] >= q(n)
                   /\ (r[n] = q(n)) <=> \A k \in i .. i + n - 1 : Char(text, k) \in Digits}
<1>1. /\ Len(text) \in Nat /\ i \in Nat \ {0} /\ m \in Nat /\ i <= Len(text) + 1
      /\ radix \in {8, 10, 16} /\ radix \in Nat
  OBVIOUS
<1>2. \A n \in 1 .. m : i + n - 1 \in i .. Len(text) /\ (i + n - 1) - i + 1 = n
  BY <1>1
<1>3. \A n \in 1 .. m : AtoiDigits(text)[n] = Char(text, i + n - 1)
                        /\ Char(text, i + n - 1) \in HexDigits
  <2> SUFFICES ASSUME NEW n \in 1 .. m
               PROVE  AtoiDigits(text)[n] = Char(text, i + n - 1)
                      /\ Char(text, i + n - 1) \in HexDigits
    OBVIOUS
  <2>1. i + n - 1 \in i .. Len(text) /\ (i + n - 1) - i + 1 = n
    BY <1>2
  <2>2. /\ AtoiDigits(text)[(i + n - 1) - i + 1] = Char(text, i + n - 1)
        /\ Char(text, i + n - 1) \in HexDigits
    BY <2>1
  <2> QED
    BY <2>1, <2>2
<1>4. /\ my_atoi(text) = r[m] /\ r[0] = 0
      /\ \A n \in 1 .. m : r[n] = r[n - 1] * radix + (Code[Char(text, i + n - 1)] - 48)
      /\ \A n \in 0 .. m : r[n] \in Nat
  <2>1. \A k \in 1 .. Len(AtoiDigits(text)) : AtoiDigits(text)[k] \in HexDigits
    BY <1>3
  <2>2. Len(AtoiDigits(text)) = m
    OBVIOUS
  <2>3. /\ my_atoi(text) = Runs(text)[Len(AtoiDigits(text))] /\ Runs(text)[0] = 0
        /\ \A k \in 1 .. Len(AtoiDigits(text)) :
             Runs(text)[k] = Runs(text)[k - 1] * Radix(text) + (Code[AtoiDigits(text)[k]] - 48)
        /\ \A k \in 0 .. Len(AtoiDigits(text)) : Runs(text)[k] \in Nat
    <3>1. Len(AtoiDigits(text)) \in Nat /\ Radix(text) \in Nat
      BY <1>1, <2>2
    <3> QED
      BY <2>1, <3>1, RunsAre
  <2> HIDE DEF m
  <2>4. \A k \in 1 .. m : AtoiDigits(text)[k] = Char(text, i + k - 1)
    BY <1>3
  <2> QED
    BY <2>2, <2>3, <2>4
<1> HIDE DEF r, radix, q
<1>5. 0 \in T
  <2>1. i + 0 - 1 \in 0 .. Len(text) /\ i + 0 - 1 < i
    BY <1>1
  <2>2. q(0) = 0
    BY <1>1, <2>1, Horner DEF q
  <2>3. \A k \in i .. i + 0 - 1 : Char(text, k) \in Digits
    BY <1>1
  <2> QED
    BY <1>4, <2>2, <2>3
<1>6. ASSUME NEW n \in Nat, n \in T PROVE n + 1 \in T
  <2> SUFFICES ASSUME n + 1 <= m
               PROVE  /\ q(n + 1) \in Nat /\ r[n + 1] >= q(n + 1)
                      /\ (r[n + 1] = q(n + 1))
                           <=> \A k \in i .. i + (n + 1) - 1 : Char(text, k) \in Digits
    OBVIOUS
  <2> DEFINE c == Char(text, i + n)
  <2>1. /\ n + 1 \in 1 .. m /\ n \in 0 .. m /\ n <= m /\ (n + 1) - 1 = n
        /\ i + (n + 1) - 1 = i + n /\ i + n - 1 \in 0 .. Len(text) - 1
        /\ (i + n - 1) + 1 = i + n /\ i + n >= i
    BY <1>1
  <2>2. c \in HexDigits
    BY <1>3, <2>1
  <2>3. DigitValue[c] \in Nat /\ Code[c] - 48 \in Nat /\ Code[c] - 48 >= DigitValue[c]
        /\ ((Code[c] - 48 = DigitValue[c]) <=> c \in Digits)
    <3> HIDE DEF c
    <3> QED
      BY <2>2, CodesAre
  <2>4. AreDigits(i, i + n)
    <3> SUFFICES ASSUME NEW k \in i .. i + n PROVE Char(text, k) \in HexDigits
      BY DEF AreDigits
    <3>1. k - i + 1 \in 1 .. m /\ i + (k - i + 1) - 1 = k
      BY <1>1, <2>1
    <3>2. Char(text, i + (k - i + 1) - 1) \in HexDigits
      BY <1>3, <3>1
    <3> QED
      BY <3>1, <3>2
  <2>5. q(n + 1) = q(n) * radix + DigitValue[c]
    <3> DEFINE j == i + n - 1
    <3>1. j \in 0 .. Len(text) - 1 /\ j + 1 = i + n /\ j + 1 >= i
      BY <2>1
    <3> HIDE DEF j
    <3>2. Positional(i, j + 1, radix) = Positional(i, j, radix) * radix
                                          + DigitValue[Char(text, j + 1)]
      BY <1>1, <2>4, <3>1, Horner
    <3> QED
      BY <2>1, <3>1, <3>2 DEF q, j
  <2>6. r[n + 1] = r[n] * radix + (Code[c] - 48)
    BY <1>4, <2>1
  <2>7. /\ q(n) \in Nat /\ r[n] >= q(n) /\ r[n] \in Nat
        /\ (r[n] = q(n)) <=> \A k \in i .. i + n - 1 : Char(text, k) \in Digits
    BY <1>4, <1>6, <2>1
  <2>8. (\A k \in i .. i + n : Char(text, k) \in Digits)
          <=> (\A k \in i .. i + n - 1 : Char(text, k) \in Digits) /\ c \in Digits
    <3>1. /\ i + n \in i .. i + n
          /\ \A k \in i .. i + n - 1 : k \in i .. i + n
          /\ \A k \in i .. i + n : k # i + n => k \in i .. i + n - 1
      BY <1>1
    <3> QED
      BY <3>1
  <2> DEFINE d == Code[c] - 48
             v == DigitValue[c]
             a == r[n]
             b == q(n)
  <2>9. /\ r[n + 1] = a * radix + d /\ q(n + 1) = b * radix + v
        /\ a \in Nat /\ b \in Nat /\ d \in Nat /\ v \in Nat /\ a >= b /\ d >= v
    BY <2>3, <2>5, <2>6, <2>7
  <2>10. (a = b <=> \A k \in i .. i + n - 1 : Char(text, k) \in Digits)
         /\ (d = v <=> c \in Digits)
    BY <2>3, <2>7
  <2> HIDE DEF a, b, c, d, v
  <2>11. /\ r[n + 1] >= q(n + 1)
         /\ (r[n + 1] = q(n + 1)) <=> a = b /\ d = v
    BY <1>1, <2>9, Grown
  <2>12. q(n + 1) \in Nat
    BY <1>1, <2>9
  <2> QED
    BY <2>1, <2>8, <2>10, <2>11, <2>12
<1>7. m \in T
  <2> HIDE DEF T, m
  <2>1. Nat \subseteq T
    BY <1>5, <1>6, Induct
  <2> QED
    BY <1>1, <2>1
<1>8. i + m - 1 = Len(text) /\ m <= m
  BY <1>1
<1> HIDE DEF m
<1>9. (r[m] = q(m)) <=> \A k \in i .. i + m - 1 : Char(text, k) \in Digits
  BY <1>7
<1> QED
  BY <1>4, <1>8, <1>9 DEF q, radix

\* Without its first two digits an octal number is worth the same only if the
\* second is 0.
LEMMA Skipped ==
  ASSUME text \in Seq(Characters), Len(text) >= 2, Char(text, 1) = "0",
         \A k \in 1 .. Len(text) : Char(text, k) \in OctalDigits
  PROVE  (Positional(3, Len(text), 8) = Positional(1, Len(text), 8)) <=> Char(text, 2) = "0"
<1> DEFINE N == Len(text)
           q(j) == Positional(1, j, 8)
           s(j) == Positional(3, j, 8)
           c(j) == Char(text, j)
           T == {n \in Nat : n + 2 <= N =>
                   /\ q(n + 2) \in Nat /\ s(n + 2) \in Nat /\ q(n + 2) >= s(n + 2)
                   /\ (q(n + 2) = s(n + 2)) <=> c(2) = "0"}
<1>1. N \in Nat /\ N >= 2 /\ \A k \in 1 .. N : c(k) \in Digits /\ c(k) \in HexDigits
  BY Classes
<1>2. \A j \in 0 .. N : AreDigits(1, j) /\ AreDigits(3, j)
  BY <1>1 DEF AreDigits
<1>3. \A k \in 1 .. N : DigitValue[c(k)] \in Nat
  BY <1>1, DigitsAre
<1>4. (DigitValue[c(2)] = 0) <=> c(2) = "0"
  BY <1>1, DigitsAre, CodeAssumption
<1>5. DigitValue[c(1)] = 0
  BY DigitsAre
<1>6. /\ q(0) = 0 /\ s(2) = 0
      /\ \A j \in 0 .. N - 1 : q(j + 1) = q(j) * 8 + DigitValue[c(j + 1)]
      /\ \A j \in 2 .. N - 1 : s(j + 1) = s(j) * 8 + DigitValue[c(j + 1)]
  <2>1. /\ 0 \in 0 .. N /\ 0 < 1 /\ 2 \in 0 .. N /\ 2 < 3 /\ 1 \in Nat \ {0} /\ 3 \in Nat \ {0}
        /\ 8 \in Nat /\ \A j \in 0 .. N - 1 : j + 1 >= 1 /\ j + 1 \in 0 .. N
        /\ \A j \in 2 .. N - 1 : j + 1 >= 3 /\ j + 1 \in 0 .. N /\ j \in 0 .. N - 1
    BY <1>1
  <2>2. /\ q(0) = 0
        /\ \A j \in 0 .. N - 1 : q(j + 1) = q(j) * 8 + DigitValue[c(j + 1)]
    BY <1>1, <1>2, <2>1, Horner
  <2>3. /\ s(2) = 0
        /\ \A j \in 2 .. N - 1 : s(j + 1) = s(j) * 8 + DigitValue[c(j + 1)]
    BY <1>1, <1>2, <2>1, Horner
  <2> QED
    BY <2>2, <2>3
<1> HIDE DEF N, q, s, c
<1>7. 0 \in T
  <2>1. q(1) = 0
    <3>1. 0 \in 0 .. N - 1 /\ 0 + 1 = 1
      BY <1>1
    <3>2. q(0 + 1) = q(0) * 8 + DigitValue[c(0 + 1)]
      BY <1>6, <3>1
    <3> QED
      BY <1>5, <1>6, <3>1, <3>2
  <2>2. q(2) = DigitValue[c(2)]
    <3>1. 1 \in 0 .. N - 1 /\ 1 + 1 = 2 /\ DigitValue[c(2)] \in Nat
      BY <1>1, <1>3
    <3>2. q(1 + 1) = q(1) * 8 + DigitValue[c(1 + 1)]
      BY <1>6, <3>1
    <3> QED
      BY <2>1, <3>1, <3>2
  <2>3. DigitValue[c(2)] \in Nat
    BY <1>1, <1>3
  <2>4. 0 + 2 = 2
    OBVIOUS
  <2> QED
    BY <1>4, <1>6, <2>2, <2>3, <2>4
<1>8. ASSUME NEW n \in Nat, n \in T PROVE n + 1 \in T
  <2> SUFFICES ASSUME (n + 1) + 2 <= N
               PROVE  /\ q((n + 1) + 2) \in Nat /\ s((n + 1) + 2) \in Nat
                      /\ q((n + 1) + 2) >= s((n + 1) + 2)
                      /\ (q((n + 1) + 2) = s((n + 1) + 2)) <=> c(2) = "0"
    OBVIOUS
  <2> DEFINE j == n + 2
             d == DigitValue[c(j + 1)]
             a == q(j)
             b == s(j)
  <2>1. /\ j \in 2 .. N - 1 /\ j \in 0 .. N - 1 /\ (n + 1) + 2 = j + 1 /\ j <= N
        /\ j + 1 \in 1 .. N
    BY <1>1
  <2>2. a \in Nat /\ b \in Nat /\ a >= b /\ (a = b <=> c(2) = "0")
    BY <1>8, <2>1
  <2>3. d \in Nat
    BY <1>3, <2>1
  <2>4. q(j + 1) = a * 8 + d /\ s(j + 1) = b * 8 + d
    BY <1>6, <2>1
  <2> HIDE DEF j, d, a, b
  <2>5. /\ q(j + 1) \in Nat /\ s(j + 1) \in Nat /\ q(j + 1) >= s(j + 1)
        /\ (q(j + 1) = s(j + 1)) <=> a = b
    BY <2>2, <2>3, <2>4
  <2> QED
    BY <2>1, <2>2, <2>5
<1>9. N - 2 \in T
  <2>1. Nat \subseteq T
    <3> HIDE DEF T
    <3> QED
      BY <1>7, <1>8, Induct
  <2>2. N - 2 \in Nat
    BY <1>1
  <2> HIDE DEF T
  <2> QED
    BY <2>1, <2>2
<1>10. (N - 2) + 2 = N /\ N <= N
  BY <1>1
<1>11. (q(N) = s(N)) <=> c(2) = "0"
  BY <1>9, <1>10
<1> QED
  BY <1>11 DEF q, s, c, N

\* A text that is one number is one token, which is worth it.
LEMMA OneNumber ==
  ASSUME Scanned, place = "done", Len(tokens) = 1, IsNumber(text), Char(text, 1) \in Digits
  PROVE  Len(text) >= 1 /\ tokens[1].ival = ValueOf(1, Len(text))
<1>0. text \in Seq(Characters) /\ Len(text) \in Nat /\ \E T : tokens \in Seq(T)
  BY DEF Scanned, Typed
<1>1. Len(text) >= 1
  <2>1. Nul \notin Digits
    BY Classes
  <2>2. ASSUME Len(text) < 1 PROVE FALSE
    <3>1. Char(text, 1) = Nul
      BY <1>0, <2>2 DEF Char
    <3> QED
      BY <2>1, <3>1
  <2> QED
    BY <1>0, <2>2
<1> DEFINE q == Len(text) + 1
           v == ValueOf(1, Len(text))
<1>2. /\ 1 \in 1 .. Len(text) /\ q \in 1 + 1 .. Len(text) + 1 /\ q - 1 = Len(text)
      /\ q \in 1 .. Len(text) + 1 /\ q > Len(text) /\ 1 \in 1 .. Len(text) + 1 /\ q # 0
      /\ \A k \in q .. Len(text) : FALSE
  BY <1>0, <1>1
<1>3. SubSeq(text, 1, Len(text)) = text
  BY <1>0
<1>4. Longest(1, IsNumber) = q
  BY <1>0, <1>2, <1>3, LongestNumber
<1>5. EndFrom(1) = q
  BY <1>4, EndFromIs
<1>6. From(1) = TokenAt(1, q) \o From(q)
  <2>1. 1 <= Len(text) /\ EndFrom(1) # 0
    BY <1>2, <1>5
  <2> QED
    BY <1>0, <1>2, <1>5, <2>1, FromIs
<1>7. From(q) = <<>>
  BY <1>0, <1>2, FromIs
<1> DEFINE t == Token("Num", v, 1, q)
<1>8. TokenAt(1, q) = <<t>>
  BY <1>2, TokenAtIs
<1>9. CTokens = <<t>>
  <2>1. CTokens = From(1)
    BY DEF CTokens, From
  <2> HIDE DEF t
  <2> QED
    BY <1>6, <1>7, <1>8, <2>1
<1>10. Worths(tokens) = <<t>>
  BY <1>9, AllFound
<1>11. Worth(tokens[1]) = t
  <2>1. 1 \in DOMAIN tokens
    BY <1>0
  <2>2. Worths(tokens)[1] = Worth(tokens[1])
    BY <2>1 DEF Worths
  <2> HIDE DEF t
  <2> QED
    BY <1>10, <2>2
<1>12. tokens[1].at = 1
  <2>1. Worth(tokens[1]).at = tokens[1].at
    BY DEF Worth
  <2>2. t.at = 1
    BY DEF Token
  <2> QED
    BY <1>11, <2>1, <2>2
<1>13. Worth(tokens[1]) = tokens[1]
  <2>1. Char(text, 1) # "'"
    BY Classes DEF Quotes
  <2> QED
    BY <1>12, <2>1 DEF Worth
<1>14. tokens[1].ival = v
  <2>1. t.ival = v
    BY DEF Token
  <2> QED
    BY <1>11, <1>13, <2>1
<1> QED
  BY <1>1, <1>14

\* The three radixes.
LEMMA AtoiIs ==
  ASSUME text \in Seq(Characters), Len(text) >= 1, IsNumber(text), Char(text, 2) # "X"
  PROVE  (my_atoi(text) = ValueOf(1, Len(text))) <=>
           IF IsHex(text) THEN All(SubSeq(text, 3, Len(text)), Digits)
           ELSE Len(text) >= 2 /\ Char(text, 1) = "0" => Char(text, 2) = "0"
<1> DEFINE N == Len(text)
           w == AtoiDigits(text)
<1>1. /\ N \in Nat /\ 1 \in 1 .. N /\ N \in 1 .. N
      /\ SubSeq(text, 1, N) = text
  OBVIOUS
<1>2. /\ IsDecimal(text) <=>
           Char(text, 1) \notin {Nul, "0"} /\ \A k \in 1 .. N : Char(text, k) \in Digits
      /\ IsOctal(text) <=>
           Char(text, 1) = "0" /\ \A k \in 1 .. N : Char(text, k) \in OctalDigits
      /\ IsHex(text) <=>
           /\ Char(text, 1) = "0" /\ N > 1 /\ Char(text, 1 + 1) \in {"x", "X"}
           /\ \A k \in 1 + 2 .. N : Char(text, k) \in HexDigits
  BY <1>1, KindIs
<1>3. /\ IsDecimal(text) => ValueOf(1, N) = Positional(1, N, 10)
      /\ IsOctal(text) => ValueOf(1, N) = Positional(1, N, 8)
      /\ IsHex(text) => ValueOf(1, N) = Positional(1 + 2, N, 16)
  BY <1>1, ValueIs
<1>4. /\ Digits \subseteq HexDigits /\ OctalDigits \subseteq Digits /\ 1 + 1 = 2 /\ 1 + 2 = 3
      /\ "x" \notin OctalDigits /\ "X" \notin OctalDigits
  BY Classes
<1>5. text = <<"0">> => N = 1 /\ Char(text, 1) = "0"
  BY DEF Char
<1>6. \A k \in 1 .. N : text[k] = Char(text, k)
  BY <1>1 DEF Char
<1>7. ASSUME N >= 2
      PROVE  /\ Len(SubSeq(text, 3, N)) = N - 2
             /\ \A k \in 3 .. N : SubSeq(text, 3, N)[k - 3 + 1] = Char(text, k)
  <2>1. \A k \in 3 .. N : text[k] \in Characters
    BY <1>1
  <2>2. /\ Len(SubSeq(text, 3, N)) = IF 3 <= N THEN N - 3 + 1 ELSE 0
        /\ \A k \in 1 .. N - 3 + 1 : SubSeq(text, 3, N)[k] = text[3 + k - 1]
    BY <1>1, <2>1, SubSeqProperties
  <2>3. \A k \in 3 .. N : k - 3 + 1 \in 1 .. N - 3 + 1 /\ 3 + (k - 3 + 1) - 1 = k
    BY <1>1
  <2>4. ASSUME NEW k \in 3 .. N PROVE SubSeq(text, 3, N)[k - 3 + 1] = Char(text, k)
    BY <1>1, <1>6, <2>2, <2>3
  <2> QED
    BY <1>1, <1>7, <2>2, <2>4
<1>8. CASE IsDecimal(text)
  <2>1. Char(text, 1) # "0" /\ ~IsHex(text)
    BY <1>2, <1>8
  <2>2. w = text /\ Radix(text) = 10
    BY <1>5, <2>1 DEF AtoiDigits, Radix
  <2>3. \A k \in 1 .. N : w[k - 1 + 1] = Char(text, k) /\ Char(text, k) \in HexDigits
    <3>1. \A k \in 1 .. N : k - 1 + 1 = k
      BY <1>1
    <3> QED
      BY <1>2, <1>4, <1>6, <1>8, <2>2, <3>1
  <2>4. Len(w) = Len(text) + 1 - 1 /\ 1 \in 1 .. Len(text) + 1
    BY <1>1, <2>2
  <2>5. \A k \in 1 .. N : Char(text, k) \in Digits
    BY <1>2, <1>8
  <2>6. my_atoi(text) = Positional(1, N, 10)
    BY <2>2, <2>3, <2>4, <2>5, RunsFrom
  <2> QED
    BY <1>3, <1>8, <2>1, <2>6
<1>9. CASE IsOctal(text) /\ N = 1
  <2>1. text = <<"0">> /\ ~IsHex(text) /\ Radix(text) = 10
    BY <1>1, <1>2, <1>6, <1>9 DEF Radix
  <2>2. my_atoi(text) = 0
    <3>1. w = <<>>
      BY <2>1 DEF AtoiDigits
    <3>2. Len(w) = 0 /\ \A k \in 1 .. Len(w) : w[k] \in HexDigits
      BY <3>1
    <3> QED
      BY <2>1, <3>2, RunsAre
  <2>3. Positional(1, N, 8) = 0
    <3>1. /\ 0 \in 0 .. N /\ 0 \in 0 .. N - 1 /\ 0 + 1 >= 1 /\ 0 + 1 = 1 /\ 0 < 1
          /\ 1 \in Nat \ {0} /\ 8 \in Nat
      BY <1>9
    <3>2. AreDigits(1, 1)
      BY <1>2, <1>4, <1>9 DEF AreDigits
    <3>3. Positional(1, 0, 8) = 0
      BY <1>1, <3>1, Horner
    <3>4. Positional(1, 0 + 1, 8) = Positional(1, 0, 8) * 8 + DigitValue[Char(text, 0 + 1)]
      BY <1>1, <3>1, <3>2, Horner
    <3>5. DigitValue[Char(text, 1)] = 0
      BY <1>2, <1>9, DigitsAre
    <3> QED
      BY <1>9, <3>1, <3>3, <3>4, <3>5
  <2> QED
    BY <1>3, <1>9, <2>1, <2>2, <2>3
<1>10. CASE IsOctal(text) /\ N # 1
  <2>0. N >= 2 /\ 2 \in 1 .. N
    BY <1>1, <1>10
  <2>1. /\ Char(text, 1) = "0" /\ \A k \in 1 .. N : Char(text, k) \in OctalDigits
        /\ Char(text, 2) \in OctalDigits
    BY <1>2, <1>10, <2>0
  <2>2. ~IsHex(text)
    BY <1>2, <1>4, <2>1
  <2>3. w = SubSeq(text, 3, N) /\ Radix(text) = 8
    BY <1>4, <1>5, <1>10, <2>1 DEF AtoiDigits, Radix
  <2>4. /\ Len(w) = Len(text) + 1 - 3 /\ 3 \in 1 .. Len(text) + 1
        /\ \A k \in 3 .. N : w[k - 3 + 1] = Char(text, k) /\ Char(text, k) \in Digits
        /\ \A k \in 3 .. N : Char(text, k) \in HexDigits
    <3>1. \A k \in 3 .. N : k \in 1 .. N
      BY <1>1
    <3> QED
      BY <1>1, <1>4, <1>7, <2>0, <2>1, <2>3, <3>1
  <2>5. my_atoi(text) = Positional(3, N, 8)
    <3> HIDE DEF w
    <3> QED
      BY <2>3, <2>4, RunsFrom DEF w
  <2>6. (Positional(3, N, 8) = Positional(1, N, 8)) <=> Char(text, 2) = "0"
    BY <2>0, <2>1, Skipped
  <2> QED
    BY <1>3, <1>10, <2>0, <2>1, <2>2, <2>5, <2>6
<1>11. CASE IsHex(text)
  <2>0. N >= 2 /\ Char(text, 1) = "0" /\ Char(text, 2) = "x"
        /\ \A k \in 3 .. N : Char(text, k) \in HexDigits
    BY <1>1, <1>2, <1>4, <1>11
  <2>1. w = SubSeq(text, 3, N) /\ Radix(text) = 16
    BY <1>1, <1>5, <2>0 DEF AtoiDigits, Radix
  <2>2. /\ Len(w) = Len(text) + 1 - 3 /\ 3 \in 1 .. Len(text) + 1
        /\ \A k \in 3 .. N : w[k - 3 + 1] = Char(text, k)
    BY <1>1, <1>7, <2>0, <2>1
  <2>3. (my_atoi(text) = Positional(3, N, 16)) <=> \A k \in 3 .. N : Char(text, k) \in Digits
    <3> HIDE DEF w
    <3> QED
      BY <2>0, <2>1, <2>2, RunsFrom DEF w
  <2>4. All(SubSeq(text, 3, N), Digits) <=> \A k \in 3 .. N : Char(text, k) \in Digits
    <3>1. /\ \A k \in 3 .. N : k - 2 \in 1 .. N - 2 /\ k - 3 + 1 = k - 2
          /\ \A k \in 1 .. N - 2 : k + 2 \in 3 .. N /\ (k + 2) - 3 + 1 = k
      BY <1>1
    <3>2. Len(w) = N - 2
      BY <1>1, <2>2
    <3>3. \A k \in 1 .. N - 2 : Char(w, k) = w[k]
      BY <3>2 DEF Char
    <3> HIDE DEF w
    <3>4. ASSUME All(w, Digits), NEW k \in 3 .. N PROVE Char(text, k) \in Digits
      <4>1. k - 2 \in 1 .. N - 2 /\ k - 3 + 1 = k - 2
        BY <3>1
      <4>2. Char(w, k - 2) \in Digits
        BY <3>2, <3>4, <4>1 DEF All
      <4> QED
        BY <2>2, <3>3, <4>1, <4>2
    <3>5. ASSUME \A k \in 3 .. N : Char(text, k) \in Digits, NEW k \in 1 .. N - 2
          PROVE  Char(w, k) \in Digits
      <4>1. k + 2 \in 3 .. N /\ (k + 2) - 3 + 1 = k
        BY <3>1
      <4>2. w[(k + 2) - 3 + 1] = Char(text, k + 2) /\ Char(text, k + 2) \in Digits
        BY <2>2, <3>5, <4>1
      <4> QED
        BY <3>3, <4>1, <4>2
    <3> QED
      BY <2>1, <3>2, <3>4, <3>5 DEF All
  <2> QED
    BY <1>3, <1>4, <1>11, <2>3, <2>4
<1> QED
  BY <1>8, <1>9, <1>10, <1>11 DEF IsNumber

\* A number on the command line is worth what the same number is in a program
\* exactly when it is not hexadecimal with a letter nor octal with a second
\* digit that is not 0 (c4.c, 220-227), however long it is.
THEOREM ArgumentsAsNumbersAlways == Spec => []ArgumentsAsNumbers
<1>1. Scanned => ArgumentsAsNumbers
  <2> SUFFICES ASSUME Scanned, place = "done", Len(tokens) = 1, IsNumber(text),
                      Char(text, 2) # "X"
               PROVE  (my_atoi(text) = tokens[1].ival) <=>
                        IF IsHex(text) THEN All(SubSeq(text, 3, Len(text)), Digits)
                        ELSE Len(text) >= 2 /\ Char(text, 1) = "0" => Char(text, 2) = "0"
    BY DEF ArgumentsAsNumbers
  <2>1. text \in Seq(Characters) /\ Len(text) \in Nat
    BY DEF Scanned, Typed
  <2>2. Len(text) >= 1
    <3>1. ASSUME ~(Len(text) >= 1) PROVE FALSE
      <4>1. Char(text, 1) = Nul /\ Nul # "0"
        BY <2>1, <3>1 DEF Char, Nul
      <4> QED
        BY <4>1 DEF IsNumber, IsDecimal, IsOctal, IsHex
    <3> QED
      BY <3>1
  <2>3. Char(text, 1) \in Digits
    <3>1. 1 \in 1 .. Len(text) /\ "0" \in Digits
      BY <2>1, <2>2 DEF Digits
    <3> QED
      BY <3>1 DEF IsNumber, IsDecimal, IsOctal, IsHex, All
  <2>4. tokens[1].ival = ValueOf(1, Len(text))
    BY <2>3, OneNumber
  <2> QED
    BY <2>1, <2>2, <2>4, AtoiIs
<1> QED
  BY <1>1, ScannedAlways, PTL

=============================================================================
