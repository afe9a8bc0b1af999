-------------------------- MODULE MC_StackMachine ---------------------------
(* Small programs: every operator beside every other, statements within    *)
(* statements, functions, scopes and types.                                *)
EXTENDS StackMachine

LOCAL S == INSTANCE CSamples
LOCAL C == INSTANCE Compiler

Samples == S!Samples
Messages == S!Messages
Undefineds == S!Undefineds

\* TLC evaluates a definition once, and what is given to a constant each time.
Written == S!PhraseTexts
TextsGiven == Written
Derived == S!DerivedTexts
LanguageOfThem == Derived
Accepts(t) == C!Parse(t).ok

Meanings ==
  LET sources == Programs
  IN  [p \in sources |-> S!Meaning(p)]
TwoArguments == <<2, 24000>>

\* The depth at each place is found by following control, from the beginning of
\* the program and of each function it calls.  A set of one element is a way to
\* have TLC compute it once.
Following(words, t) ==
  LET called == IF Instruction(words[t[1]]) = "JSR" THEN {<<Place(words[t[1] + 1]), 0>>} ELSE {}
  IN  {x \in Behind(words, t[1], t[2]) \cup called : x[1] \in DOMAIN words}
RECURSIVE Reached(_, _, _)
Reached(words, seen, new) ==
  IF new = {} THEN seen
  ELSE UNION {Reached(words, s, UNION {Following(words, t) : t \in new} \ s) :
                s \in {{t : t \in seen \cup new}}}
DepthsIn(c) ==
  IF ~c.ok THEN <<>>
  ELSE CHOOSE depth \in
         {[n \in {t[1] : t \in seen} |-> (CHOOSE t \in seen : t[1] = n)[2]] :
            seen \in {Reached(c.e, {}, {<<Place(c.sym["main"].val), 0>>})}} : TRUE

Compiled(p) ==
  CHOOSE image \in {c @@ [depth |-> DepthsIn(c)] : c \in {C!Parse(S!Tokens(p))}} : TRUE

=============================================================================
