---------------------------- MODULE SchemeReading ----------------------------
(***************************************************************************)
(* The loops of the two tokenizers, tokenize of scheme_internal.cpp        *)
(* (551-569) and l4_tokenize of scheme.c (311-335), and the recursive      *)
(* descent of read_from (580-598), a character and a token at a time.      *)
(* SchemeReader says what they compute.                                    *)
(***************************************************************************)
EXTENDS SchemeReader

CONSTANT Texts

VARIABLES
  text,      \* what lisp_parse is given
  blanks,    \* the blanks of the tokenizer that runs
  s, t,      \* its two pointers into text
  tokens,
  calls,     \* the lists of the calls of read_from that are open
  place, result

vars == <<text, blanks, s, t, tokens, calls, place, result>>

Init ==
  /\ text \in Texts /\ blanks \in {Spaces, {" "}}
  /\ s = 1 /\ t = 1 /\ tokens = <<>> /\ calls = <<>>
  /\ place = "loop" /\ result = Nil

Ended == s > Len(text)
\* Mutant: a word goes on to the next blank.
InWord_Blanks(i) == i <= Len(text) /\ Char(text, i) \notin blanks
InWord(i) == i <= Len(text) /\ Char(text, i) \notin blanks \cup Parens

\* while(*s): one more round, which first skips blanks.  Nothing calls
\* l4_tokenize, and its tokens are not read.
NextRound ==
  /\ place = "loop"
  /\ place' = IF ~Ended THEN "blanks" ELSE IF blanks = Spaces THEN "read" ELSE "done"
  /\ UNCHANGED <<text, blanks, s, t, tokens, calls, result>>
SkipBlank ==
  /\ place = "blanks" /\ ~Ended /\ Char(text, s) \in blanks
  /\ s' = s + 1
  /\ UNCHANGED <<text, blanks, t, tokens, calls, place, result>>
TakeParen ==
  /\ place = "blanks" /\ ~Ended /\ Char(text, s) \in Parens
  /\ tokens' = Append(tokens, Char(text, s)) /\ s' = s + 1
  /\ place' = "loop"
  /\ UNCHANGED <<text, blanks, t, calls, result>>
\* Behind the last blanks the word that starts here is empty.
StartWord ==
  /\ place = "blanks" /\ (Ended \/ InWord(s))
  /\ t' = s /\ place' = "word"
  /\ UNCHANGED <<text, blanks, s, tokens, calls, result>>
MoreOfWord ==
  /\ place = "word" /\ InWord(t)
  /\ t' = t + 1
  /\ UNCHANGED <<text, blanks, s, tokens, calls, place, result>>
TakeWord ==
  /\ place = "word" /\ ~InWord(t)
  /\ tokens' = Append(tokens, SubSeq(text, s, t - 1)) /\ s' = t
  /\ place' = "loop"
  /\ UNCHANGED <<text, blanks, t, calls, result>>

\* Mutant: the outermost list takes every cell.
Deliver_Outermost(open, c) ==
  IF open = <<>> THEN calls' = open /\ result' = c /\ place' = "done"
  ELSE calls' = [open EXCEPT ![1] = Append(@, c)] /\ UNCHANGED <<result, place>>
\* read_from returns c to the call around it, or to read.
Deliver(open, c) ==
  IF open = <<>> THEN calls' = open /\ result' = c /\ place' = "done"
  ELSE /\ calls' = [open EXCEPT ![Len(open)] = Append(@, c)]
       /\ UNCHANGED <<result, place>>

\* An inner call leaves the rest of the tokens to the one around it.
OpenList ==
  /\ place = "read" /\ tokens # <<>> /\ Head(tokens) = Open
  /\ calls' = Append(calls, <<>>) /\ tokens' = Tail(tokens)
  /\ UNCHANGED <<text, blanks, s, t, place, result>>
CloseList ==
  /\ place = "read" /\ tokens # <<>> /\ Head(tokens) = Close /\ calls # <<>>
  /\ Deliver(Front(calls), List(Last(calls))) /\ tokens' = Tail(tokens)
  /\ UNCHANGED <<text, blanks, s, t>>
ReadAtom ==
  /\ place = "read" /\ tokens # <<>> /\ Head(tokens) # Open
  /\ Head(tokens) = Close => calls = <<>>
  /\ Deliver(calls, Atom(Head(tokens))) /\ tokens' = Tail(tokens)
  /\ UNCHANGED <<text, blanks, s, t>>
\* The end of the tokens is looked for behind an element, not behind a "(".
EndOfTokens ==
  /\ place = "read" /\ tokens = <<>>
  /\ place' = IF calls # <<>> /\ Last(calls) = <<>> THEN "undefined" ELSE "failed"
  /\ UNCHANGED <<text, blanks, s, t, tokens, calls, result>>

Next ==
  \/ NextRound \/ SkipBlank \/ TakeParen \/ StartWord \/ MoreOfWord \/ TakeWord
  \/ OpenList \/ CloseList \/ ReadAtom \/ EndOfTokens

Spec == Init /\ [][Next]_vars

-----------------------------------------------------------------------------
(***************************************************************************)
(* Properties.                                                             *)
(***************************************************************************)

TypeOK ==
  /\ s \in 1 .. Len(text) + 1 /\ t \in 1 .. Len(text) + 1
  /\ place \in {"loop", "blanks", "word", "read", "done", "failed", "undefined"}
  /\ \A i \in DOMAIN tokens : \A k \in 1 .. Len(tokens[i]) :
       Char(tokens[i], k) \notin blanks /\ (Char(tokens[i], k) \in Parens => Len(tokens[i]) = 1)

\* Whatever the text, lisp_parse ends with the cell, the exception or the
\* unchecked read of a token that Read gives for it: the expression the
\* parentheses of the tokens enclose, found by counting them.  l4_tokenize
\* splits at spaces alone.
ReadsByDepth ==
  IF blanks # Spaces THEN place = "done" => tokens = l4_tokenize(text)
  ELSE LET r == Read(text)
       IN  /\ place = "done" => r = [outcome |-> "read", cell |-> result]
           /\ place \in {"failed", "undefined"} => r.outcome = place

\* What to_string prints of a cell that was read is read as the same cell,
\* though it erases a blank without looking whose it is; but not the symbol of
\* no characters a text of blanks is read as.
PrintsWhatItRead ==
  place = "done" /\ blanks = Spaces /\ result # Symbol("") =>
    Read(ToText(result)) = [outcome |-> "read", cell |-> result]

=============================================================================
