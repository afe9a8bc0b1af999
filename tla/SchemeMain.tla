----------------------------- MODULE SchemeMain -----------------------------
(***************************************************************************)
(* The scheme program (scheme.c, 562-796): parse_args and read_file, the   *)
(* unit tests of run_tests, and main's read, eval, print and clean up.     *)
(*                                                                         *)
(* A word of the command line is an option or stands for the code or the   *)
(* file it names.                                                          *)
(***************************************************************************)
EXTENDS SchemeEval

CONSTANTS
  Expressions, \* the cells read_from makes, with the cells in their lists
  Lines,      \* the command lines typed, sequences of words
  Source,     \* Source[w]: what Read makes of the text a word stands for
  Files,      \* the words that name files
  Tests,      \* the unit tests: [code, expected], the code read as well
  Written(_), \* to_string of a cell, SchemeReader's ToText
  MaxDepth    \* the calls of eval a program of Loops may have open
CONSTANTS
  Meant,      \* Meant[w]: the answer, output and success of the reference on w
  Departs,    \* programs that end with another answer than the reference's
  Crashes,    \* programs that leave what C++ defines, the reference ending well
  Loops       \* programs whose recursion is in tail position only

Options == {"-d", "-h", "-e", "-t", "-?"}
BuiltIn == "built in"          \* the g_code main starts with
Null == "null"                 \* argv[argc]

\* A cell that has been read has cells that have been read in its list.
IsReading(r) == r.outcome = "read" => r.cell \in Expressions
\* Words are options or stand for code; those that follow -e do.
ASSUME SchemeAssumption ==
  /\ \A c \in Expressions :
       c = Cell(c.type, c.val, c.list, c.proc) /\ c.list \in Seq(Expressions)
  /\ \A w \in DOMAIN Source : IsReading(Source[w])
  /\ Tests \in Seq(Range(Tests)) /\ \A i \in DOMAIN Tests : IsReading(Tests[i].code)
  /\ BuiltIn \in DOMAIN Source /\ Files \subseteq DOMAIN Source
  /\ \A line \in Lines :
       /\ line \in Seq(Options \cup DOMAIN Source)
       /\ \A i \in 2 .. Len(line) : line[i - 1] = "-e" => line[i] \in DOMAIN Source

VARIABLES
  args,               \* the command line, without the program's name
  argv, argc,         \* parse_args's variables
  g_tests, g_code,
  g_source_mallocd,   \* read_file has returned a block
  answers,            \* what has been printed of the values
  TEST_fail

mainvars == <<args, argv, argc, g_tests, g_code, g_source_mallocd>>
evalvars == <<frames, value, memory>>
reports == <<answers, TEST_fail>>
vars == <<evalvars, outcome, mainvars, reports>>

Init ==
  /\ args \in Lines
  /\ argv = 1 /\ argc = Len(args)
  /\ g_tests = FALSE /\ g_code = BuiltIn /\ g_source_mallocd = FALSE
  /\ answers = <<>> /\ TEST_fail = 0
  /\ phase = "args" /\ exitcode = 0
  /\ EvalInit

-----------------------------------------------------------------------------
WordAt(k) == IF k <= Len(args) THEN args[k] ELSE Null
Reading(words) == phase = "args" /\ argc > 0 /\ WordAt(argv) \in words

\* --argc; ++argv.
Advance(n) == argv' = argv + n /\ argc' = argc - n
Finish(how, c) ==
  phase' = how /\ exitcode' = c /\ UNCHANGED <<evalvars, mainvars, reports>>

SetFlag ==
  /\ Reading({"-d", "-t"})
  /\ g_tests' = (g_tests \/ args[argv] = "-t")
  /\ Advance(1)
  /\ UNCHANGED <<args, g_code, g_source_mallocd, evalvars, outcome, reports>>
\* The check for a missing operand asks for argc = 0, which the loop excludes:
\* behind a last -e the code is the null pointer.
TakeCode ==
  /\ Reading({"-e"})
  /\ g_code' = WordAt(argv + 1)
  /\ Advance(2)
  /\ UNCHANGED <<args, g_tests, g_source_mallocd, evalvars, outcome, reports>>
HelpOrUnknown == Reading({"-h", "-?"}) /\ Finish("exited", 1)
\* read_file
ReadFile ==
  /\ Reading(Files)
  /\ g_code' = args[argv] /\ g_source_mallocd' = TRUE
  /\ Advance(1)
  /\ UNCHANGED <<args, g_tests, evalvars, outcome, reports>>
ReadFileFails == Reading(Files) /\ \E c \in {3, 4, 5} : Finish("exited", c)

\* Mutant: no environment is made.
Setup_NoEnvironment ==
  /\ phase = "args" /\ argc <= 0 /\ phase' = "parse"
  /\ UNCHANGED <<evalvars, exitcode, mainvars, reports>>
\* env_new and add_globals, then main or run_tests.
Setup ==
  /\ phase = "args" /\ argc <= 0
  /\ envs' = <<[outer |-> 0, vars |-> [n \in DOMAIN Globals |->
                                         [cell |-> Globals[n], writes |-> 1]]]>>
  /\ phase' = IF g_tests /\ Tests = <<>> THEN "tested" ELSE "parse"
  /\ UNCHANGED <<frames, value, results, code, run, output, exitcode, mainvars, reports>>

\* lisp_parse into a new cell; it catches what read_from, or a string made of
\* a null pointer, throws.
Parsed ==
  IF g_tests THEN Tests[run + 1].code
  ELSE IF g_code = Null THEN [outcome |-> "failed", cell |-> Nil]
  ELSE Source[g_code]

Parse ==
  /\ phase = "parse" /\ Parsed.outcome = "read"
  /\ code' = Reset(Parsed.cell, Number("0")) /\ run' = run + 1
  /\ frames' = <<Enter(Pointer("code", run + 1, "", 0), 1)>>
  /\ phase' = "eval"
  /\ UNCHANGED <<value, envs, results, output, exitcode, mainvars, reports>>

AfterTest(n) == IF n = Len(Tests) THEN "tested" ELSE "parse"
\* A test that cannot be parsed fails, and the next one follows.
ParseFails ==
  /\ phase = "parse" /\ Parsed.outcome = "failed"
  /\ IF g_tests
     THEN /\ run' = run + 1 /\ TEST_fail' = TEST_fail + 1
          /\ phase' = AfterTest(run + 1)
          /\ UNCHANGED <<frames, value, envs, results, code, output, exitcode,
                         mainvars, answers>>
     ELSE Finish("exited", 1)
ParseUndefined ==
  phase = "parse" /\ Parsed.outcome = "undefined" /\ Finish("undefined", 0)

Eval == EvalNext /\ UNCHANGED <<mainvars, reports>>

\* eval has returned to run_single_test or main, which prints the cell and
\* frees the parsed code.
Evaluated == phase = "eval" /\ frames = <<>> /\ Readable(value[1])
Text == Written(CellAt(value[1]))
NextTest ==
  /\ Evaluated /\ g_tests
  /\ TEST_fail' = TEST_fail + (IF Text = Tests[run].expected THEN 0 ELSE 1)
  /\ answers' = Append(answers, Text)
  /\ value' = <<>>
  /\ phase' = AfterTest(run)
  /\ UNCHANGED <<frames, memory, exitcode, mainvars>>
ReturnTests == phase = "tested" /\ Finish("exited", IF TEST_fail > 0 THEN 1 ELSE 0)
PrintResult ==
  /\ Evaluated /\ ~g_tests
  /\ answers' = Append(answers, Text)
  /\ value' = <<>>
  /\ phase' = "printed"
  /\ UNCHANGED <<frames, memory, exitcode, mainvars, TEST_fail>>
PrintUndefined ==
  /\ phase = "eval" /\ frames = <<>> /\ ~Readable(value[1])
  /\ Finish("undefined", 0)

\* free(g_code) if read_file has run, whatever g_code is by now.
CleanUp ==
  /\ phase = "printed" /\ (g_source_mallocd => g_code \in Files)
  /\ Finish("exited", 0)
CleanUpUndefined ==
  /\ phase = "printed" /\ g_source_mallocd /\ g_code \notin Files
  /\ Finish("undefined", 0)

Next ==
  \/ SetFlag \/ TakeCode \/ HelpOrUnknown \/ ReadFile \/ ReadFileFails \/ Setup
  \/ Parse \/ ParseFails \/ ParseUndefined
  \/ Eval
  \/ NextTest \/ ReturnTests \/ PrintResult \/ PrintUndefined
  \/ CleanUp \/ CleanUpUndefined

Spec == Init /\ [][Next]_vars

-----------------------------------------------------------------------------
(***************************************************************************)
(* Properties.                                                             *)
(***************************************************************************)

\* Which word the program runs, read off the whole line: a word that follows
\* an odd run of -e is an operand, and the last operand or file is the code.
IsOperand(k) ==
  \E j \in 1 .. k - 1 :
    /\ \A i \in j .. k - 1 : args[i] = "-e"
    /\ j = 1 \/ args[j - 1] # "-e"
    /\ (k - j) % 2 = 1
SourceWords ==
  {k \in DOMAIN args : IsOperand(k) \/ args[k] \notin Options}
Chosen == IF SourceWords = {} THEN BuiltIn ELSE args[Max(SourceWords)]
Mixed == g_source_mallocd /\ g_code \notin Files

\* The variables keep to their types, and an environment's outer one is older
\* than itself, so that a lookup ends (environment::find and has).
TypeOK ==
  /\ phase \in {"args", "parse", "eval", "printed", "tested", "exited", "undefined"}
  /\ exitcode \in {0, 1, 3, 4, 5}
  /\ Len(value) <= 1 /\ run \in 0 .. Len(Tests) + 1
  /\ argv \in 1 .. Len(args) + 2 /\ argc <= Len(args)
  /\ \A e \in DOMAIN envs : envs[e].outer \in 0 .. e - 1
  /\ \A i \in DOMAIN frames : frames[i].env \in DOMAIN envs

\* What the program prints, and the value it ends with, are those of the
\* reference eval the library keeps (scheme_internal.cpp, 491-545), run on the
\* code the command line names, unless and only unless the program is one of
\* Departs.  These evaluate a lambda expression again before its closure is
\* applied (scheme.c, 457), set! a variable of an outer environment (447), or
\* assign the variable of an operator by one of its operands (478, 500).
AnswersAsReference ==
  phase = "printed" =>
    (Meant[Chosen].ok /\ answers = <<Meant[Chosen].text>> /\ output = Meant[Chosen].output
       <=> Chosen \notin Departs)

\* A closure is applied in the environment it was made in, and set! assigns
\* the variable that its name refers to, as in the "reference implementation"
\* (scheme_internal.cpp, 489 and 505-513).
ScopesAsReference ==
  phase = "printed" => answers = <<Meant[Chosen].text>>

\* main has given the code up with a message, "Unknown symbol" or "Invalid
\* call" of eval or that of a text which could not be parsed.
StoppedWithMessage ==
  phase = "exited" /\ ~g_tests /\ envs # <<>> /\ answers = <<>>

\* A program stops with a message only where the reference does not end well,
\* a -e without code excepted (TakeCode); so does it leave what C++ defines,
\* but that Crashes, which take a procedure out of a list (scheme_internal.cpp,
\* 144-153) or assign a variable from a part of itself (239), do so where the
\* reference ends well, and that FILE -e CODE frees a word of argv (scheme.c,
\* 794); and it ends well only where the reference does or on one of Departs.
StopsAsReference ==
  /\ StoppedWithMessage => ~Meant[Chosen].ok \/ g_code = Null
  /\ phase = "undefined" /\ ~Mixed => (Meant[Chosen].ok <=> Chosen \in Crashes)
  /\ phase = "printed" => Meant[Chosen].ok \/ Chosen \in Departs

\* All of the unit tests of run_tests pass, each of them evaluated in the
\* environment, and over the closures, the earlier ones left; none of them ends
\* the program before the last has run (scheme.c, 600-648).
TestsPass ==
  /\ TEST_fail = 0
  /\ g_tests => phase # "undefined"
  /\ g_tests /\ phase = "exited" /\ envs # <<>> => run = Len(Tests) /\ exitcode = 0

\* The code a call of eval is working on outlives the call: no assignment made
\* by an inner call destroys it.
RunningCodeLive == phase = "eval" => \A i \in DOMAIN frames : Live(frames[i].x)

\* Recursion in tail position takes no calls of eval: the branch of an if, the
\* last expression of a begin and the body of a lambda go on in the same one
\* (README.md and the comments "recurse" of scheme.c, 433-518).
LoopsShareOneCall == Chosen \in Loops => Len(frames) <= MaxDepth

=============================================================================
