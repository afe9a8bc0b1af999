# c4-lisp in TLA+

Specifications of c4-lisp: the C4 virtual machine of `core/c4.c`, which compiles
C files into processes and runs them in turn, and the platform libraries it loads
for them. The modules are read from the source; every definition is tied to its
lines by `map` in `PROJECT.json`.

## The system

| Component | Source | State | Operations |
|---|---|---|---|
| Command line | `core/c4.c` `main` 1396-1495 | `argc`, `argv`, the option variables, file names in `vm_processes` | one branch per option, the usage check, the main file |
| Process memory | `core/c4.c` 545-655, 950-1314, 1497-1520 | malloc'd blocks, `code_pages`, the pool pointers of each process, the globals `sym`, `e`, `data` | read a source, `create_process`, `create_c_image`, `minimize_pool_usage`, `free_process`, `early_exit` |
| Compiler | `core/c4.c` 231-554, 657-806 | token, identifier table, emitted code | `next`, `expr`, `stmt`, `partial_parse` |
| Instruction set | `core/c4.c` 844-936, 1098-1139 | registers, stack, data and code segments | one branch of `run_cycle` per opcode; the stack `create_c_image` lays out |
| Scheduler and process lifecycle | `core/c4.c` 817-947, 1277-1297, 1497-1545; `core/main.cpp` | slots, `vm_proc_count`, magic number, `B_halted`, `B_exitcode`, the slice counter | start, slice, exit, collect |
| Platform runtimes | `core/syscalls.cpp`, `include/core/solar.hpp` | the global `syscalls_runtime`, the map of runtimes, each process's `B_platform` | `platform_init`, `process_changed`, `platform_get`, the system calls |
| c4-internal | `c4_modules/c4-internal` | suspended activations of `run_cycle` | the machine's own process functions as system calls |
| Scheme interpreter | `platform/scheme/scheme.c` | open calls of `eval`, pointers to cells, the options, the file read | `parse_args`, `read_file`, `run_tests`, `eval`, clean up |
| Scheme platform library | `platform/scheme/scheme_internal.cpp`, `syscalls.c` | cells, environments, the texts it tokenizes | `tokenize`, `read_from`, `to_string`, the built-in procedures, one system call per operation `eval` needs |
| Standalone Lisps, chasm, samples, scripts | `platform/lisp`, `lispalone.c`, `c4_modules/c4-assembler`, `c4_samples`, `bin` | | |

How they interact: `main` turns the command line into file names, loads each into
a process (compiler, process memory), and then calls `run_cycle` on one slot after
the other. An instruction of a program may be a system call, which goes through
the global runtime to a library; a library may call back into `run_cycle`
(c4-internal). Everything is one thread: what interleaves is the slices of
processes, and what they share is the globals. The behaviours that are hard to
test are therefore what one process leaves in the globals for the next, what is
left behind when a step fails halfway, and the order of the steps at the
beginning and the end of a slice.

What makes each component correct: every process keeps the runtime, the exit code
and the turn that are its own (scheduler, runtimes, c4-internal); what is
started is what the user asked for (command line); whatever allocation fails, a
process owns live memory, once, and gives it back (process memory); compiled code
computes what the program means and what has no meaning is refused (compiler and
instruction set); a text is split into the tokens C, or Lisp, defines and read no
further than its end (both readers); an expression has the value the library's
reference gives it, and what a pointer names outlives the pointer (interpreter).

## Modules

`Platform.tla` has the state of `syscalls.cpp` and, for each of its functions, an
operator that the machine's actions use: `AfterInit` is `platform_init` with all its
ways to fail, `RuntimeFor` is `process_changed`, `Dispatch` says whether a system call
returns, throws (the `null_*` functions) or jumps through a null pointer.
Loading a library is a Boolean the environment chooses. `MapEmpty` is the inverted
`runtime_map::empty()`.

`C4VM.tla` extends it with `main`'s start and scheduling loops and `run_cycle`.
A program is nondeterministic: while a slice lasts, each instruction is an action
and any may come next (`Instruction` stands for all that touch only registers and
memory; `ExitInstruction`, `UnknownInstruction`, the four outcomes of a system call,
`InitPlatform`, `ChangeInnerProcess` are those that touch the machine). The
beginning of a slice is one action (`BeginSlice`, 827-842), and so is its end with
the rest of `main`'s loop body (`EndSlice`, `EndSliceHalted`: 939-947, 1526-1540 and
`free_process`). A slot holds nothing, a file name (the file did not compile) or a
process; the process of slot `s` is called `s`.

`Microprocesses.tla` is the abstract specification: processes that wait, are ready, have
exited or are gone; one has the turn; each has a runtime of its own that only
its own actions change; the machine ends with the last exit code, or
because a call threw or crashed. It has no slots, counters, global
runtime or `B_platform`. `C4VM` refines it under the mapping at its end: the runtime of
a process is the global one while it is active and its `B_platform` otherwise.

`C4Internal.tla` extends `C4VM` with child processes that a program creates and runs
through c4-internal. `frames` is the C stack of suspended `run_cycle` activations; the
outermost belongs to `main`'s slot. `own` is a history variable: the runtime that
each process asked for itself.

`CommandLine.tla` is `main`'s argument loop, an action per branch, with `argv` as an
index that may run past the end, and two readings of the line that have no moving position. One is
the usage text's: a word is an operand if the option before it takes one (`Usage`). The other is what `main` does:
the word behind the operand of `-r` is dropped as well, and `-L` under C4 starts `lisp4.c` (`Place`). The number `my_atoi` makes of a
word is a parameter, which may be negative: it subtracts `'0'` from every character, so `--` is -33.

`ProcessMemory.tla` follows memory: blocks are named by what they were
allocated for, every `malloc` may fail, and the actions are the stages of loading
(read, allocate, image, compile, minimise, compile again, set), then running and
cleaning up. A compilation that fails stops before it lays out the stack, or behind it when `main` has no
body (1108): then the program counter has become 0 on the way (1136), which the second compilation of `-M` does not take back.

`Compiler.tla` is `partial_parse`, `stmt` and `expr`: a record `c` holds the globals
(`tk` as a position in a sequence of tokens, `e` as the sequence of words emitted, `ty`,
`loc`, `data`, the symbol table) and each operator stands for the branch of the code
that parses one construct; a message and `exit(-1)` or `return 0` clear `c.ok`. It
begins with tokens; the characters are `CLexer`'s. `Instructions`
numbers the opcodes, `CValues` has C's arithmetic.

`CLexer.tla` is `next` by characters: an action for each of its branches and of the rounds
of its loops, with `p` as an index into the text, and `my_atoi`. A text is a sequence of
one-character strings, so that the prover can reason about it, and `Nul` is the 0 behind it. The
reference, `CTokens`, cuts the text at the longest token that C allows at each place and gives a number the sum of its digits,
each times the power of the radix for its place.

`StackMachine.tla` takes one process from its source to its exit code: `create_c_image`
lays out the stack (`CreateImage`), then there is one action for each kind of instruction,
on addresses in bytes and words in memory. An address outside code, data
and stack, a division by zero or an instruction that is none is `Undefined`. Which process
runs and for how long is left to `C4VM`. `frames` and `depths` are history variables: where
each open call was made, how deep the stack was at each instruction executed, and whether a store has
hit what an open call keeps on the stack (`wild`: C has no meaning for the rest of such a program). The
code comes with the depth of the stack at each place, and `CodeAssumption` says that it is `Balanced`: no
instruction disagrees with the depths of the places it can go to, calls go to an `ENT`, operands are inside the code.
`MC_StackMachine` computes the depths from the words `Compiler` emits, and TLC evaluates the
assumption for every program of the run.

`CProgram.tla` is the reference: syntax trees, the tokens they are written with, and
what they mean, computed on the tree with the precedences of C's grammar and an address
for each variable. It knows nothing of the compiler but the dialect: `||` and `&&` have the
value of the operand that decides, an integer has a pointer added unscaled, `char` is
signed. `CGrammar.tla` is the reference for what is refused: it derives expressions by length, as C's grammar does, with
whether each may be assigned to. Four of its rules are marked as the compiler's own, which takes for a place whatever ends
in a word that looks like a load (`c4.c:445`): `9 = a`, `+a = 9`, `a && a = 9` and `a ? a : a = 9`, with brackets or without.
`CSamples.tla` is the set of programs, of texts derived and not derived, and of programs with names that mean nothing or two things.

`SchemeCells.tla` has the values of the Scheme library, a cell with its list by value as in
`std::vector`, and `SchemeProcs.tla` its built-in procedures, with the comparison of cells as a parameter:
`operator==` recurses over lists. `SchemeReader.tla` says what the text
side computes (`Tokens`, `Read` by counting parentheses, `ToText`), and `SchemeReading.tla` has the
loops that compute it: the two tokenizers a character at a time, and the descent of
`read_from` with its open calls as a stack.

`SchemeEval.tla` is `eval` of `scheme.c`: an action for each branch and for each return of an
inner call; `frames` is the C stack. It works on pointers: into the parsed code, into variables
of environments, into results. A pointer into a variable carries the number of times the variable had
been written; when it has been written again, the cells it named are destroyed and using it
is `undefined`. `SchemeMain.tla` is the rest of the program around it; what the reader makes of a
text, and what is printed of a cell, are parameters (`Source`, `Written`), which `MC_Scheme` takes from `SchemeReader`. `SchemeReference.tla` is the `eval` by value that
`scheme_internal.cpp` keeps under the heading "reference implementation" behind an `#if false`.
`SchemeSamples.tla` has the unit tests of `run_tests` and the programs.

`C4VM_proofs`, `C4Internal_proofs`, `CommandLine_proofs`, `ProcessMemory_proofs`,
`StackMachine_proofs`, `SchemeMain_proofs` and `CLexer_proofs` hold the proofs, `Induction` the lemmas that stand in for
the induction theorems of the library; `MC_*` give constants their values for TLC.

## What the runs show

| Run | States | Question |
|---|---|---|
| `vm` | 40,564 | lifecycle, slot count, runtime ownership; no starvation; `main` ends unless a program runs for ever; refinement of `Microprocesses` and of its fairness |
| `platform_first_run` | violated | the "first run" block runs on later calls and loses the caller's runtime |
| `internal_nesting` | 177,042 | activations nest; other slots are neither affected nor starved |
| `internal_platform` | violated | after running a child, the caller has the child's runtime |
| `command_line` | 427,840 | what is started, with which arguments and options, for every command line of up to four words, and lines of six to eight words whose `-r` fill `vm_processes` |
| `command_line_usage` | violated | behind the operand of `-r` one more word is dropped, which the usage text gives a meaning |
| `memory` | 27,312 | who owns what, whichever allocation fails, and what is left behind |
| `stack_machine` | 86,134 | 1,533 programs compiled and executed against the meaning of their syntax trees; stack discipline of calls, branches and loops; 21,803 texts, of which those that the grammar derives are accepted and the others refused |
| `lexer` | 167,525 | every text of a few characters: the tokens of C, line numbers, the end of the text, `my_atoi` |
| `reading` | 259,355 | every Lisp text of up to five characters: tokens, nesting, printing |
| `scheme` | 7,667 | the unit tests and thirty programs: pointers against values, what stops, what stays alive |
| `scheme_scopes` | violated | a lambda expression evaluated twice makes one closure, and `set!` binds where it stands |

The four violated properties are disagreements of the code with its own comments or
README, the usage text, or with the evaluator it names as its reference; `findings` in `PROJECT.json` quotes the lines. More came up while
modelling, and is now part of what the passing properties say:

* `AcceptsTheLanguage` states the four places that C does not have and the compiler accepts, as rules of
  `CGrammar`, among 21,803 texts: every sequence of up to five tokens, longer ones of fewer operators, a program without any one of its
  brackets, semicolons or commas, and declarations without the comma between two names, which are accepted as well.
* `StartsAsRead` says which word behind `-r` is dropped (`c4.c:1438`, 1487); that this is not what the usage
  text says is the run `command_line_usage`. When `-r a.c` ends the line
  `argc` becomes -1, and `ArgumentsExist` is about the lines where it is positive.
  `StartsAsRead` also says which lines write behind `vm_processes`: those that name more files than it has slots.
* `OnlyFailuresLeak` names the blocks of a failed start: its stack is not freed when the
  compilation fails (`c4.c:1252`, although 1251 says it does what `free_process` does).
* A second compilation (`-M`) that fails leaves `B_sym`, `B_e` and `B_data` dangling (`c4.c:1208`, 1272), which nothing in
  `c4.c` reads. The three pools are put back, the program counter is not: when `main` is missing from the second compilation only,
  because an include was not found again, the process is kept with the 0 written at 1136 and will fetch its first instruction through it
  (845). `ProcessesIntact` excepts this case and no other.
* `TokensAsC` makes one token of a minus and the digit it touches, so that `a-1` does not parse, and
  `ArgumentsAsNumbers` says which numbers `my_atoi` gets wrong.
* `StaysInText`: an open comment or literal makes `next` read behind the text.
* `AnswersAsReference` and `StopsAsReference` compare with the library's `eval` as it stands, and are exact: the
  programs of `Departing` end with another answer than the reference's, those of `Lost` leave what C++ defines where the reference
  ends well, and no other does either. A lambda evaluated again before its closure is applied, `set!` of a variable outside, and an operator rebound by
  its own operand answer otherwise; a procedure taken out of a list (its address is lost) and a variable assigned from a part of itself
  are undefined. `StopsAsReference` excepts `FILE -e CODE`, where `scheme` frees a word of `argv` (`scheme.c:794`), and a last `-e` without code, which stops.
* `TestsPass` also says that none of the unit tests ends the program before the last.
* A slice of one cycle executes nothing, so with `-c 1` `main` spins for ever (`NoStarvation` needs a
  count of 2), and a failed allocation of a list node loses `code_pages` (`SearchLostList`).

### Bounds

`MC_C4VM`: three slots, so that a slot can be empty, hold a name, or hold a process
while another runs and a third waits; two libraries of which one lacks an entry point,
so that two processes can have different runtimes and a call can crash; slices of two
instructions, enough for a change of runtime followed by its use. The code
has 32 slots and 1000 cycles; nothing depends on the numbers but the edge at
0 and 1: `-c 1` starves everybody, and so do 0 and the negative numbers that `my_atoi` can give
(`while(--rem_cycle > 0)`, `c4.c:844`), for which `CycleCount = 0` stands. The theorems hold for all of them.
`MC_C4Internal`: two slots, a child and a grandchild, so that three activations are
open at once. `MC_CommandLine`: four words (and, after two `-r`, two more: the overflow of `vm_processes`), enough for two options with operands, or
one with a file and an argument.
`MC_ProcessMemory`: two files, so that a failure of the first meets the second; one
include per compilation.
`MC_StackMachine`: expressions of two operators (every one as the left and as the right
operand of every other, and in the branches of `?:`), two statements in each other,
and programs for functions, recursion, scopes, pointers, `char`, `enum` and `sizeof`: a wrong precedence,
jump or offset shows with two constructs. The texts that may be no programs go up to nine tokens: a missing operand or bracket
shows in five, and a branch of `?:` that is assigned to in nine. `StackWords = 60` and `DataWords = 3` suffice
for all of them (`Finishes` would fail), and `Bits = 16` is the width of `| ^ & ~`, larger than
any value they compute. No sample increments a `char` past 127, where the value of `c++` in the code is -129.
`MC_Lexer`: every text of four or five characters over an alphabet for numbers, one for comments and
literals, and two for operators; the longest token that a branch decides on one at a time is three characters
long (`'\n`), and one more shows what follows it. `MC_Reading`: five characters give lists in lists
with an atom, and every way a text can end early. `MC_Scheme`: the texts of `run_tests` in order, in one
environment, and programs chosen for what a value-passing evaluator cannot get wrong; every
action that stops the program is reached by a program of `Bad` or `Lost` or a command line.

`CHECK_DEADLOCK FALSE` is set where the program ends: in `done` and `crashed`, or when
the argument loop, the scanner, the reader or the interpreter returns.

### Fairness

`FairSpec` is weak fairness of `Next`: the machine is one thread which never
waits for anything but the operating system, so it goes on while it can. A
program that blocks in `read` or `getchar` stops all of them; the liveness properties are
about machines where no call blocks for ever. No fairness is assumed of
the program's choice among instructions: that every loaded process has a turn again and again
follows from the slices, and `ServesMicroprocesses` derives from it the strong
fairness that `Microprocesses` asks for. Safety runs, and the findings about
states, assume none. The `Spec` of `StackMachine` has weak fairness of `Next` for
`Finishes`: a process gets its next instruction because `C4VM` starves none.

## What is proved

For every number of slots, libraries, exit codes and cycles, under
`PlatformAssumption` and `VMAssumption` (at least one slot; the null runtime, the null pointer
and the libraries are different; slots are process names):

* `TypeCorrect`, and `RunningIsLoadedAlways`, `ValidIffLoadedAlways`, `ExitedIsOverAlways`,
  `CountIsOccupiedAlways`, `RuntimesOwnedAlways`: the safety invariants of the run `vm`.
* `Implements`: `Spec => ImplementsMicroprocesses`, the refinement as a theorem.

The invariants are not inductive one by one. `LifeInv` is: it ties `main`'s index, the
argument of `run_cycle`, the active process, the slots and the fields of the
processes together. "The process that runs is loaded" survives the end of a
slice only because the magic number and the slot are cleared together, and the
count is the number of occupied slots only because a slot that is collected was
occupied, which in turn needs that the index is a slot. While `main` is still starting processes
the slots from `i` on are names (`StartOrder`): without it a second start of
the same slot could not be excluded. `OwnInv` adds that every runtime a
process or the global points to is in the map. The refinement uses these and, for each
concrete action, one lemma that names the abstract step or the stutter it maps to.

For every number of files and includes, under `MemoryAssumption`: `MemoryTypeCorrect` and
`ProcessesIntactAlways`. The inductive invariant `MemInv` says what the process under
construction owns at each stage; what is behind it is
untouched because each step frees only blocks of one process and texts, and
blocks of different processes are different. The theorem excepts what the property does, the program counter of 0 after a second compilation
without `main`.

`SourcesLiveAlways` and `OnlyFailuresLeakAlways` rest on two more
invariants. `ListInv`: what the list of sources holds is live, is there once, and was read for a file or an include
already counted, so a new text is new to the list. `HeapInv`: a block not yet allocated belongs to a
process not yet started, and every block in use is owned by a loaded process, by the one under construction, by the list, or was left behind by
a failed one. They need `NullAssumption`: the null pointer is no list and no pools.

For any set of command lines and any number of slots, under `CommandLineAssumption`:

* `CommandLineTypeCorrect` and `ArgumentsExistAlways`. `LineInv` keeps `argv` and `argc` in step, the position and the number of words left, even where an
  option without its operand has moved both past the end, and says that the main file is the last one entered.
* `StartsAsReadAlways` and `OptionsAsGivenAlways`: the loop agrees with the second of the two readings, natively and under C4.
  It gives each word of the line its `Place` by recursion over the
  words. `LineRead` says that `argv` always stands at a place for a word, that no word before it ended the options,
  that the files entered so far are those of the `-r` passed, by rank, that every variable has the value
  of the last option passed that sets it, and that the pool is the largest asked for (`Scanned`, `FilesEntered`, `Effects`). `LispRead` is the other
  end of the options: `-L` under C4 has entered `lisp4.c` and set `argc` and `argv` behind itself.
  The numbers of words are any integers, so `vm_cycle_count` is one too; only the pool is never smaller than at first.

For any number of slots and children and any depth, under `InternalAssumption`:

* `CallersWaitAlways`. `NestInv` says that each suspended activation waits for a child of its own, and that the
  callers grow older towards the bottom of the stack. The numbering of processes by
  creation (the last clause of the assumption) makes every caller different from the process that runs: only so
  does a process that exits not halt a caller of its own.
* `BystandersKeepRuntimeAlways`. `platform_init` also writes to the active process,
  which after `ChangeToChild` or a nested slice is not the one that runs. `Installed` says that it never is the process of another slot without
  children, and that the global runtime is never null while a program runs.

For any expressions the reader can make, any tests and any command lines, under `SchemeAssumption`
(what has been read is a cell whose list was read as well; the words of a line are options or
stand for code):

* `TypesKept`: the variables of the interpreter keep their types and each environment's outer one is older, so
  that a look-up (a loop along the outer environments) ends.
* `RunningCodeAlwaysLive`: while a call of `eval` works on code that lies in a variable (the body of
  a closure), no inner call assigns that variable, though `set!` and `define` destroy the cells they replace.
  `Sound` is the inductive invariant. It says of the environments: a call of `eval` works in one at least as young as its
  caller's, code that lies in a variable is run in an environment younger than the variable's, and a call
  assigns only in its own environment, so never where running code lies. For the types it needs a set of cells that is closed under
  taking a cell of a list, and that every pointer names something that is there. The attempt
  to prove it found an error of the model: an element of a variable's list is a cell of the last assignment, not of the one
  the pointer to the variable was made after, and `Index` says so now.

For every text of characters (`TextsAssumption`), of any length, in `CLexer_proofs`; of ASCII it is assumed only where it has the digits
and the letters of hexadecimal ones (`CodeAssumption`, which TLC evaluates on the table):

* `TokensAsCAlways`: the tokens `next` finds are those of C, in their places and with their values, but for the value of `''`,
  which is whatever number was read before (`Worth`).
* `LinesCountedAlways`: the line `next` reports counts each newline once, but those within literals.
* `StaysInTextAlways`: it reads behind a text exactly when the text leaves a comment or a literal open.
* `ArgumentsAsNumbersAlways`: which numbers of the command line `my_atoi` reads as a program would.

`Scanned` says of each place in `next` what has been seen of the token it is in: the letters of a name, the digits
of a number and why it has this radix, a quotation mark that nothing behind it has closed; and (`Valued`) what the digits so far
are worth. With it the lemmas about the reference (`LongestName`, `LongestNumber`, `LongestOperator`, `CommentEndIs`,
`LiteralEndIs`) show that the step that ends a token ends it where C does, so that `Agrees`, "the tokens of C
are those found and, behind them, the ones of the text from here on", passes from each token to the next. A backslash
is where this is delicate: `Backslash` and `Plain` show that skipping the character behind each one is the same as counting
them backwards from the quotation mark. `Horner` is for the numbers: the scanner multiplies what it has by the radix at each digit, the
reference sums powers. For `my_atoi` two such runs are compared (`RunsFrom`, `Skipped`): one that is not behind stays so, and is
equal in the end only if it never got ahead, at a letter or at the digit left out.

For any balanced code, in `StackMachine_proofs`, whatever its length, the size of the stack and the depth of recursion, under
`MemoryAssumption` (code, data and stack are apart, and `create_c_image` has room) and `CodeAssumption`:

* `StackDiscipline`, and from it `StackTypesKept`, `CallsReturnAlways` and `DepthByPlaceAlways`.

`StackInv` is to `run_cycle` what the soundness of a bytecode verifier is to its interpreter. `Chain`: each call was made at a
place where the stack was as deep as the code says, and lies below the base of the call before it, the first one being
made by `create_c_image`. `Held`: the return address and the saved base of each stand where `LEV` looks for them; at an `ENT` the last base is
not there yet. `InCall`: `bp` and `sp` are as far apart as the code says of the place. A push writes below `bp`, so below everything that
is held; `ENT` writes just where the open call has nothing yet; and a store of the program that hits one of those words sets
`wild`, behind which nothing is claimed but types. What a word of the code can
be is a case of its own: `main` returns to the two instructions on the stack (`Homeward`),
and a call to an address where no memory is (`Lost`) ends there. `CallsReturn` and
`DepthByPlace` were once stated without `wild`; the proof showed that they hold of C programs and not of every balanced code, since an
assignment through a pointer may change a return address. `ReturnsItsMeaning` says that no sample does.

Two techniques are shared. The library's induction theorems take an operator as a parameter, which the provers
cannot instantiate; `Induction` has the same for sets, from the well-foundedness of `<` (`Induct`, `Everywhere`). A recursive
function (`CTokensFrom`, `Place`, `Powers`, the look-up of a name) is shown to satisfy its equation by building it from the end of the text, the line or the
chain of environments, or from its first value on (`Iterates`), and is from then on used by that equation alone.

Only model-checked:

* liveness (`NoStarvation`, `Termination`, `ServesMicroprocesses`, `Finishes`), which the prover cannot do;
* `ReturnsItsMeaning` and `AcceptsTheLanguage`, and that the compiler emits balanced code: the compiler is a system of `RECURSIVE`
  operators, and what it emits for every tree is an induction over data;
* `AnswersAsReference`, `StopsAsReference`, `TestsPass`, `LoopsShareOneCall`: they compare with a recursive reference, or are
  about given programs;
* the Lisp reader (`SchemeReading`), whose reference is recursive over nested lists.

## What is not modelled

Of the C machine: string literals in compiled programs; the calls of the C library as instructions
of `StackMachine` (`printf`, `malloc`, the system calls; `C4VM` has the system calls as
outcomes); integers have no width but in the bit operators. The
search of an include through the paths is one step, and pools are never full. `printf` output, the
source listing of `-s` and `-X`, debugging output and formatting are left out. A slot that holds a name and
is rejected has two words of `argv`'s memory overwritten (`c4.c:829`), of which nothing is read again.
Of c4-internal: `parse`, `process_setmeta`, `process_setregisters` and the tables of opcodes and
symbols, which write memory of a program and nothing of the machine.

Of the Scheme library: the wrappers nothing in `src/` calls (`c_list`, `c_env_get`, the iterators),
the REPL behind `_STANDALONE`, and the table of signal numbers. `l4_tokenize` is
modelled, though nothing calls it.

`platform/lisp/lisp.c` and `c4_src/lisp.c` do not compile as they stand and the files of `c_src` are stubs of
it; `eval` of `lispalone.c` is never called and its `map_set` is empty: none of them has behaviour to check.
`chasm.c` is a program of its own, a near copy of the compiler of `c4.c` that prints what it emits.
Samples and scripts have no state of the machine. `dlopen` and the C library are external and
nondeterministic.

## Plan

Done: `Platform`, `C4VM`, `Microprocesses` and the refinement, `C4Internal`, `CommandLine` and `ProcessMemory`, all
with proofs; `Compiler` and `StackMachine` against `CProgram`; `CLexer` with proofs; the Scheme reader, interpreter and program
against the library's reference, the interpreter with proofs; the stack discipline of `StackMachine` for all
balanced code.

Open, in the order of their use:

1. The Lisp reader on sequences of characters, as `CLexer` has them, and that each tokenizer takes the tokens
   its reference gives.
2. `read_include`'s search loop as steps, with its retry when `malloc` fails.
3. Pools of bounded size in `Compiler`, with the undefined outcome when one is full.
