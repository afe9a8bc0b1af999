----------------------------- MODULE SchemeEval -----------------------------
(***************************************************************************)
(* eval of scheme.c (357-539) with the system calls it makes.  Unlike the  *)
(* library's own eval it works on pointers: to the parsed code, to the     *)
(* variables of environments, to the cells that procedures returned, and   *)
(* to any cell inside one of these.                                        *)
(*                                                                         *)
(* A pointer names one of those and a path of indices into it.  Assigning  *)
(* to a variable replaces the cells inside it, so a pointer to one of them *)
(* is good only while the variable has been written as often as when the   *)
(* pointer was made; so are pointers into code only until it is freed.     *)
(***************************************************************************)
EXTENDS SchemeProcs

VARIABLES
  frames,    \* the calls of eval that are open, the running one last
  value,     \* what a call returned and its caller has not taken: <<>> or <<p>>
  envs,      \* environments, each with its outer_ and its variables
  results,   \* the cells of cell_new, which nothing frees
  code,      \* the parsed expression
  run,       \* how many expressions have been parsed
  output,    \* what print has written
  phase, exitcode

memory == <<envs, results, code, run, output>>
outcome == <<phase, exitcode>>

Pointer(in, at, name, writes) ==
  [in |-> in, at |-> at, name |-> name, writes |-> writes, path |-> <<>>]
ToNil == Pointer("nil", 0, "", 0)
ToCode == Pointer("code", run, "", 0)
ToVariable(e, name) == Pointer("variable", e, name, envs[e].vars[name].writes)
ToResult(k) == Pointer("result", k, "", 0)

\* cell_index and cell_front; an index past the end is a pointer to no cell.
\* Inside a variable the cell is one that the last assignment put there.
Index(i, p) ==
  [p EXCEPT !.path = Append(@, i + 1),
            !.writes = IF p.in = "variable" /\ p.path = <<>>
                       THEN envs[p.at].vars[p.name].writes ELSE @]

NoCell == [Nil EXCEPT !.type = "none"]
Below(c, i) == IF i \in DOMAIN c.list THEN c.list[i] ELSE NoCell
\* The cell the first k indices of path lead to, for each k.
Along(c, path) ==
  LET cell[k \in 0 .. Len(path)] == IF k = 0 THEN c ELSE Below(cell[k - 1], path[k])
  IN  cell
Inside(c, path) == Along(c, path)[Len(path)]
CellAt(p) ==
  CASE p.in = "nil" -> Inside(Nil, p.path)
    [] p.in = "code" -> Inside(code, p.path)
    [] p.in = "result" -> Inside(results[p.at], p.path)
    [] p.in = "variable" -> Inside(envs[p.at].vars[p.name].cell, p.path)

\* No assignment or delete has destroyed the cell since the pointer was made.
Live(p) ==
  CASE p.in = "variable" ->
         p.path = <<>> \/ p.writes = envs[p.at].vars[p.name].writes
    [] p.in = "code" -> p.at = run
    [] OTHER -> TRUE
Readable(p) == Live(p) /\ CellAt(p).type # "none"

Enter(x, e) ==
  [x |-> x, env |-> e, at |-> "eval", i |-> 0, proc |-> ToNil, exps |-> <<>>]
top == frames[Len(frames)]
X == CellAt(top.x)

EvalInit ==
  /\ frames = <<>> /\ value = <<>>
  /\ envs = <<>> /\ results = <<>>
  /\ code = Number("0") /\ run = 0
  /\ output = <<>>

-----------------------------------------------------------------------------
At(place) ==
  phase = "eval" /\ value = <<>> /\ frames # <<>> /\ top.at = place
\* The call above has returned to the running one.
BackAt(place) ==
  phase = "eval" /\ value # <<>> /\ frames # <<>> /\ top.at = place /\ Live(top.x)

Return(p) == frames' = Front(frames) /\ value' = <<p>>
Continue(f) == frames' = [frames EXCEPT ![Len(frames)] = f] /\ value' = <<>>
Call(f, x) ==
  /\ frames' = Append([frames EXCEPT ![Len(frames)] = f], Enter(x, f.env))
  /\ value' = <<>>
Stop(how, c) ==
  phase' = how /\ exitcode' = c /\ UNCHANGED <<frames, value, memory>>

\* The first environment from e outwards where the name appears, or 0.
FindFrom(e, name) ==
  LET found[d \in 0 .. Len(envs)] ==
        IF d = 0 \/ name \in DOMAIN envs[d].vars THEN d ELSE found[envs[d].outer]
  IN  found[e]

\* A Symbol is looked up, a Number is itself, and what is empty is nil.
EvalSymbol ==
  /\ At("eval") /\ Readable(top.x) /\ X.type = "Symbol"
  /\ LET found == FindFrom(top.env, X.val)
     IN  found # 0 /\ Return(ToVariable(found, X.val))
  /\ UNCHANGED <<memory, outcome>>
UnknownSymbol ==
  /\ At("eval") /\ Readable(top.x) /\ X.type = "Symbol"
  /\ FindFrom(top.env, X.val) = 0
  /\ Stop("exited", 1)
EvalNumber ==
  /\ At("eval") /\ Readable(top.x) /\ X.type = "Number"
  /\ Return(top.x)
  /\ UNCHANGED <<memory, outcome>>
EvalEmpty ==
  /\ At("eval") /\ Readable(top.x) /\ X.type \notin {"Symbol", "Number"}
  /\ IsEmpty(X)
  /\ Return(ToNil)
  /\ UNCHANGED <<memory, outcome>>

IsForm == X.type \notin {"Symbol", "Number", "none"} /\ ~IsEmpty(X)
Keywords == {"quote", "if", "set!", "define", "lambda", "begin"}
HasKeyword(words) == X.list[1].type = "Symbol" /\ X.list[1].val \in words
Form(words) == At("eval") /\ Live(top.x) /\ IsForm /\ HasKeyword(words)

EvalQuote ==
  Form({"quote"}) /\ Return(Index(1, top.x)) /\ UNCHANGED <<memory, outcome>>

EvalIf ==
  /\ Form({"if"})
  /\ Call([top EXCEPT !.at = "if"], Index(1, top.x))
  /\ UNCHANGED <<memory, outcome>>
\* Mutant: the default is taken for the last index that exists.
IndexDefault_Early(i, default, p) ==
  IF i + 1 >= Len(CellAt(p).list) THEN default ELSE Index(i, p)
\* cell_index_default
IndexDefault(i, default, p) ==
  IF i >= Len(CellAt(p).list) THEN default ELSE Index(i, p)
\* The branch replaces the expression of the same call: no recursion.
TakeBranch ==
  /\ BackAt("if") /\ Readable(value[1])
  /\ LET c == CellAt(value[1])
     IN  Continue([top EXCEPT !.at = "eval",
                   !.x = IF c.type = "Symbol" /\ c.val = "#f"
                         THEN IndexDefault(3, ToNil, top.x)
                         ELSE Index(2, top.x)])
  /\ UNCHANGED <<memory, outcome>>

EvalBinding ==
  /\ Form({"set!", "define"})
  /\ Call([top EXCEPT !.at = "bind"], Index(2, top.x))
  /\ UNCHANGED <<memory, outcome>>
\* The pointer leads into the variable that is being assigned.
Overlaps(p, e, name) ==
  p.in = "variable" /\ p.at = e /\ p.name = name /\ p.path # <<>>

\* Mutant: the variable that the name refers to is assigned.
Assigned_Found(e, name) == LET f == FindFrom(e, name) IN IF f = 0 THEN e ELSE f
\* env_set assigns in the environment it is given, for set! too.
Assigned(e, name) == e

\* operator[] of a map makes the entry that is missing.
WithEntry(vars, name, new) ==
  [n \in DOMAIN vars \cup {name} |-> IF n = name THEN new ELSE vars[n]]
\* env_set: (*env)[name->val] = *value.
Bind ==
  /\ BackAt("bind") /\ Readable(value[1]) /\ Readable(Index(1, top.x))
  /\ LET name == CellAt(Index(1, top.x)).val
         e == Assigned(top.env, name)
         old == IF name \in DOMAIN envs[e].vars THEN envs[e].vars[name].writes ELSE 0
         new == [cell |-> CellAt(value[1]), writes |-> old + 1]
     IN  /\ ~Overlaps(value[1], e, name)
         /\ envs' = [envs EXCEPT ![e].vars = WithEntry(@, name, new)]
  /\ Return(value[1])
  /\ UNCHANGED <<results, code, run, output, outcome>>

\* SYS3_CELL_SETTYPE and SYS3_CELL_SETENV, on the cell the pointer leads to.
Closed(c, path, e) ==
  LET old == Along(c, path)
      new[k \in 0 .. Len(path)] ==
        IF k = Len(path) THEN [old[k] EXCEPT !.type = "Lambda", !.env = e]
        ELSE [old[k] EXCEPT !.list[path[k + 1]] = new[k + 1]]
  IN  new[0]

\* cell_set_lambda turns the expression itself into the closure.
EvalLambda ==
  /\ Form({"lambda"})
  /\ LET p == top.x
     IN  CASE p.in = "code" ->
                code' = Closed(code, p.path, top.env) /\ UNCHANGED <<envs, results>>
           [] p.in = "result" ->
                /\ results' = [results EXCEPT ![p.at] = Closed(@, p.path, top.env)]
                /\ UNCHANGED <<envs, code>>
           [] p.in = "variable" ->
                /\ envs' = [envs EXCEPT ![p.at].vars[p.name].cell =
                                          Closed(@, p.path, top.env)]
                /\ UNCHANGED <<results, code>>
  /\ Return(top.x)
  /\ UNCHANGED <<run, output, outcome>>

\* begin drops every value but the last, whose expression replaces the call's.
NextOfBegin(i) ==
  IF i < Len(X.list) - 1
  THEN Call([top EXCEPT !.at = "begin", !.i = i + 1], Index(i, top.x))
  ELSE Continue([top EXCEPT !.at = "eval", !.x = Index(i, top.x)])
EvalBegin == Form({"begin"}) /\ NextOfBegin(1) /\ UNCHANGED <<memory, outcome>>
BackInBegin == BackAt("begin") /\ NextOfBegin(top.i) /\ UNCHANGED <<memory, outcome>>

\* (proc exp*): the operator, then each argument, of which exps gets a copy.
EvalOperator ==
  /\ At("eval") /\ Live(top.x) /\ IsForm /\ ~HasKeyword(Keywords)
  /\ Call([top EXCEPT !.at = "operator"], Index(0, top.x))
  /\ UNCHANGED <<memory, outcome>>
TakeOperator ==
  /\ BackAt("operator")
  /\ Continue([top EXCEPT !.at = "operands", !.i = 1, !.proc = value[1]])
  /\ UNCHANGED <<memory, outcome>>
EvalOperand ==
  /\ At("operands") /\ Live(top.x) /\ top.i < Len(X.list)
  /\ Call(top, Index(top.i, top.x))
  /\ UNCHANGED <<memory, outcome>>
TakeOperand ==
  /\ BackAt("operands") /\ Readable(value[1])
  /\ Continue([top EXCEPT !.i = @ + 1, !.exps = Append(@, CellAt(value[1]))])
  /\ UNCHANGED <<memory, outcome>>

Applying == At("operands") /\ Live(top.x) /\ top.i = Len(X.list) /\ Readable(top.proc)
Procedure == CellAt(top.proc)

\* env_new_args takes a value for every name.
Accepts == Len(Procedure.list) >= 2 /\ Len(top.exps) >= Len(Procedure.list[2].list)

\* Mutant: the body is evaluated by a call of its own.
EnterBody_Nested(e) ==
  /\ frames' = Append([frames EXCEPT ![Len(frames)].at = "return"],
                      Enter(Index(2, top.proc), e))
  /\ value' = <<>>
EnterBody(e) == Continue(Enter(Index(2, top.proc), e))

\* Mutant: names are looked up in the environment of the caller.
Captured_Caller == top.env
\* cell_env_get
Captured == Procedure.env

\* The call that applied a Lambda goes on with its body.
ApplyLambda ==
  /\ Applying /\ Procedure.type = "Lambda" /\ Accepts
  /\ LET bound == Bindings(Procedure.list[2].list, top.exps)
     IN  envs' = Append(envs, [outer |-> Captured,
                               vars |-> [n \in DOMAIN bound |->
                                           [cell |-> bound[n], writes |-> 1]]])
  /\ EnterBody(Len(envs) + 1)
  /\ UNCHANGED <<results, code, run, output, outcome>>
\* c_call_proc resets a new cell from what the procedure returns.
ApplyProc ==
  /\ Applying /\ Procedure.type = "Proc" /\ Defined(Procedure.proc, top.exps)
  /\ results' = Append(results, Reset(Result(Procedure.proc, top.exps), Number("0")))
  /\ output' = IF Procedure.proc = "print" THEN Append(output, top.exps) ELSE output
  /\ Return(ToResult(Len(results) + 1))
  /\ UNCHANGED <<envs, code, run, outcome>>
InvalidCall ==
  /\ Applying /\ Procedure.type \notin {"Lambda", "Proc"}
  /\ Stop("exited", 1)

\* A cell that does not exist, or no longer, is read; a variable is assigned
\* from a part of itself; a list of arguments is too short for its reader.
Undefined ==
  \/ phase = "eval" /\ frames # <<>> /\ ~Live(top.x)
  \/ At("eval") /\ ~Readable(top.x)
  \/ (BackAt("if") \/ BackAt("operands")) /\ ~Readable(value[1])
  \/ /\ BackAt("bind")
     /\ \/ ~Readable(value[1]) \/ ~Readable(Index(1, top.x))
        \/ LET name == CellAt(Index(1, top.x)).val
           IN  Overlaps(value[1], Assigned(top.env, name), name)
  \/ At("operands") /\ top.i >= Len(X.list) /\ ~Readable(top.proc)
  \/ Applying /\ Procedure.type = "Lambda" /\ ~Accepts
  \/ Applying /\ Procedure.type = "Proc" /\ ~Defined(Procedure.proc, top.exps)
EvalUndefined == Undefined /\ Stop("undefined", 0)

EvalNext ==
  \/ EvalSymbol \/ UnknownSymbol \/ EvalNumber \/ EvalEmpty
  \/ EvalQuote \/ EvalIf \/ TakeBranch \/ EvalBinding \/ Bind
  \/ EvalLambda \/ EvalBegin \/ BackInBegin
  \/ EvalOperator \/ TakeOperator \/ EvalOperand \/ TakeOperand
  \/ ApplyLambda \/ ApplyProc \/ InvalidCall \/ EvalUndefined

=============================================================================
