# Taipan in TLA+

Taipan is a Python interpreter in Go (a fork of gpython) for running untrusted
programs under limits. Its particular feature is the *pause*: a program may call
functions that the host supplies, and such a call ends `Run` with a
`FunctionCall` and a `Snapshot`. The host answers with `Resume` or
`ResumeWithError`, as often as the program asks, and in the end gets `Complete`
or `Error`. These modules specify that engine; the interpreter loop and the
compiler under it, for control flow, expressions, names and the bytecode itself;
generators; the binding of arguments; the objects of the language with their
operators; the lexer; and the life of an interpreter context. TLC checks them on
small instances, and TLAPS proves the main results about the engine, one frame
of the interpreter, the context, generators, the arithmetic of machine words,
slices and ranges for all values of the constants.

Line numbers in the modules and below refer to the sources of this commit.

## 1. Inventory

| component | source | state | operations | what makes it correct | modelled by |
|---|---|---|---|---|---|
| Execution engine | `taipan.go`, `vm/ext_call.go` | `Snapshot` (frames, capture file, output), the reply | `RunWithLimits`, `Resume`, `ResumeWithError`, `runSnapshot`, `mergePausedFrames`, `closeSnapshot` | the call stack survives pauses; results reach their call sites; one final reply; resources released once | `Engine`, `HostProtocol`, `EngineProperties`, and the proofs in `EngineProofs`, `EngineBudgetProofs`, `EngineCallSiteProofs` |
| Execution budget | `py/execution.go` | instruction count, call depth, output bytes, host context | `BeforeOpcode`, `EnterCall`, `ExitCall`, `RestoreCallDepth`, `ReserveOutput`, `CheckContext` | limits hold for the whole program; a spent budget is final | `Engine`, `EngineBudgetProofs` |
| Interpreter loop | `vm/eval.go`, `vm/vm.go`, `py/frame.go` | frame: `Lasti`, `Stack`, `Blockstack`; `Vm`: `why`, `retval`, `curexc`, `exc` | opcodes, unwinding, `Call`, `EvalCode` | block stack and value stack agree; finally and `__exit__` run; no panic; user code is asked in the order of the text | `Engine` (frames), `Unwinder` (one frame) with `FrameShapes` and `UnwinderProofs`, `Expressions`, `Names` (the other opcodes) |
| Compiler | `compile/compile.go` | loop stack, labels, constants | one case per statement and expression | compiled code means what the statement means | `ControlFlow`, `Expressions`, `Names` |
| Assembler | `compile/instructions.go`, `py/code.go` | positions and sizes of instructions | repeated passes until labels settle; line table; stack depth | jumps land on their labels; lines and depths are right | `Assembler` |
| Scope analysis | `symtable/symtable.go` | scope tree, flags of names | `Parse`, `AnalyzeName`, `AnalyzeCells`, `AnalyzeBlock` | every name gets the scope of its binding | `Scopes`, with `Names` and `NamesMeaning` |
| Interpreter context | `stdlib/stdlib.go`, `py/module.go`, `py/run.go` | `closed`, busy `WaitGroup`, `closeOnce`, `done` | `RunCode`, `ModuleInit`, `ResolveAndCompile`, `Close`, `Done` | Close waits for calls, tells modules once, signals once | `ContextLifecycle`, `ContextProofs` |
| Generators, iteration | `py/generator.go`, `py/sequence.go`, `py/iterator.go`, `py/enumerate.go`, `py/filter.go`, `py/zip.go` | `Running`, `Frame.Yielded`, `Lasti`; positions | `Send`, `Next`, `Iterate`, the opcodes that yield and ask | each item once, in order; a finished generator stays finished; never two executions of a frame | `Iteration`, `IterationMeaning`, and the proofs in `IterationProofs`, `IterationMeaningProofs` |
| Argument binding | `vm/eval.go` (EvalCode), `py/args.go`, `py/method.go`, `py/boundmethod.go` | none | bind positional, keyword, default, star arguments; parse by format | each parameter bound once or an error | `Binding` |
| Numbers | `py/int.go`, `bigint.go`, `bool.go`, `float.go`, `complex.go`, `arithmetic.go` | the values | operators and their methods | exact whatever the sizes | `IntObjects`, `FloatObjects`, `NumberMethods`, `Operators`, `ObjectProofs` |
| Sequences | `py/range.go`, `slice.go`, `list.go`, `tuple.go`, `string.go`, `bytes.go` | the items | length, item, slice, assignment, joining, searching, sorting | one notion of index and slice everywhere; a refused change changes nothing | `Ranges`, `SequenceObjects`, `TextObjects`, `ObjectProofs` |
| Sets, dictionaries | `py/set.go`, `py/dict.go` | Go maps | algebra, comparison, entry and removal | answers do not depend on the order of a map | `Collections` |
| Classes | `py/type.go`, `py/internal.go`, `py/exception.go` | dictionaries, bases, order | building, attributes, instances, matching of exceptions | the language's order of ancestors; attributes along it | `Classes` |
| Lexer | `parser/lexer.go` | indentation stack, bracket counters, queue of tokens | `Lex` states | INDENT and DEDENT balance; layout changes nothing | `Lexer` |
| f-string rewrite | `fstring_rewrite.go` | none | text to text | the string made means what the f-string says | `FStrings` |
| Builtins, sys | `stdlib/builtin`, `stdlib/sys` | none but the output | `print`, callbacks, those that iterate, `__build_class__`, `sorted` | output is counted before it is written | `Engine`, `Iteration`, `SequenceObjects`, `Classes` |
| Parser, AST | `parser/grammar.y`, `y.go`, `ast/` | none | generated | | not modelled |
| Files, pytest helpers, import | `py/file.go`, `pytest/`, `py/import.go` | | | | not modelled |

How they interact. The host calls the engine on its own goroutine. The engine
runs the innermost frame of the snapshot with `vm.RunFrame`, and pushes its
result on the next. A frame calls others by Go recursion (`Vm.Call`,
`EvalCode`, `RunFrame`), directly, through a builtin, or through an iterator. An
external call returns through that recursion as an error of type
`FrameExitExtCall`, to which every `Vm.Call` on the way appends its frame. Every
iteration of a frame's loop asks the budget first. The interpreter context is
closed with the snapshot. Nothing else is shared but the host's
`context.Context`, cancelled by other goroutines, and the interpreter context,
which several may close.

Behaviours that are hard to test: pauses at several depths after each other and
the merging of their frames; errors, limits and cancellations between any two
steps of that; errors that are swallowed on the way (by handlers, `FOR_ITER`,
`__exit__`); break, continue, return and exceptions that cross each other in one
frame; Close against calls that start and end; generators that ask each other in
chains and rings; arithmetic at the ends of the machine word; changes refused
half way; answers that depend on the order of a Go map; jumps whose size depends
on the sizes of others. `PROJECT.json` lists them as hazards, each at its line
with the properties that cover it.

The engine, the interpreter's unwinding, the context and the generators are
state machines: what is hard there is the order of steps. The compiler, the
assembler, the symbol table, the lexer and the objects run to their end on one
goroutine before anything else happens; each is an operator from what it is given
to what it makes, and what is hard is the number of cases.

## 2. Modules and the code

### Engine

Frames are ids, and `frame` keeps of each what the engine needs: how it was
entered, how many handlers it has, what it waits for (`want`) and what it was
given (`got`). `active` is the Go stack of `runFrame` activations. `control` says
where the single goroutine is: with the host, in `runSnapshot` between frames
("driver"), before an injected exception ("inject"), at an opcode, or on the way
out of a frame by return, by error, or by a pause.

| code | actions |
|---|---|
| `RunWithLimits`, its early returns | `Run`, `Refuse` |
| `Resume`, `ResumeWithError` | `ResumeWithResult`, `ResumeWithError` |
| `runSnapshot`'s loop | `DriverAborts`, `DriverInjects`, `DriverRuns`, `ReturnToDriver`, `Complete`, `Fail`, `Pause` |
| `runFrame`'s loop | `BudgetRefuses`, `Inject`, `Step`, `EnterTry`, `LeaveTry`, `OpcodeRaises`, `OpcodeReturns` |
| `Vm.Call`, `EvalCode` | `Call`, `CallRefused`, `CallExternal`, `ReturnToCaller`, `RaiseInCaller`, `PauseCaller` |
| `do_FOR_ITER` | `RaiseEndsLoop`, `PauseEndsLoop` |
| `print` | `Output`, `OutputRefused` |

Which opcode comes next is left open; what Go does with it is not. A frame that
pauses while unwinding the Go stack is collected in `ext.paused`;
`MergePausedFrames` is `mergePausedFrames`.

`HostProtocol` is the abstract specification: an execution is new, running,
waiting for one answer, finished or refused. It never asks for the same call
twice, always comes back from running, and holds its resources until it ends.
`EngineProperties` states the properties and the refinement mapping.

Left out of Engine: the context check in `EnterCall`, which can only fail
where `BeforeOpcode` could a moment earlier (`OpcodeRaises` covers what follows);
output through `sys.stdout.write`, which the budget does not count (`print` counts
whatever its `file` is, builtin.go:229); a host that keeps the `FunctionCall` of
an earlier pause, or resumes an execution that has ended. Of the opcodes under
which Python frames run, only `CALL_FUNCTION` (`PauseCaller`) and `FOR_ITER`
(`PauseEndsLoop`) are there: any other one (`YIELD_FROM`, the unpacking opcodes,
an operator, a subscript or an attribute with a method of the program's own,
`SETUP_WITH`) makes an exception of a pause that comes through it, as of every
error (eval.go:1818-1826). `Init` lets only one
execution exist, since executions share nothing.

### Unwinder and ControlFlow

`Unwinder` is one frame at full detail of control: one action per opcode that
touches the block stack, the value stack or `vm.why`, and one action per case of
the unwinding loop of `runFrame` (eval.go:1840-1916). The variables are split as
in the code: those of the frame survive a pause; those of `Vm` are made anew by
the next `runFrame`, so `CallFunction` clears them. Every panic of these opcodes
(an empty stack or block stack, a block of the wrong type, both a result and an
exception) is part of the predicate `Panicking`, and no action is possible there.
User code and the host appear as *answers*: whether a test is true, an iterator
has another item, `__enter__` or `__exit__` raise or return True, and whether an
external call returns or raises. A binding stands for any store (STORE_FAST in a
function), as the next opcode to run does not depend on which; it is logged, and
so are `__enter__`, `__exit__` and external calls.

`ControlFlow` holds the statements twice: `CompileModule` is the compiler with
its loop stack, statement by statement, with instructions counted instead of
bytes; `ExecBlock` is what the statements mean, written as structured semantics
(a block is left normally or by break, continue, return or raise). A statement
the compiler refuses is the pseudo instruction `SyntaxError`. `MCUnwinder`
builds the programs, compiles them and runs them.

The interpreter checks nothing before it pops, and is safe only because compiled
code is as it is. `FrameShapes` says how it must be. It translates no code of
the repository; it is the check that a verifier of byte code would make. A
*shape* is what may be known of a frame without running it: the place, why it
unwinds, the blocks, and a *slot* for each value (a known integer, something that
is not nil, the last entry of an exception, ...). `Accepts` is what an opcode
needs of a shape, `Steps` and `Unwound` are the shapes it may lead to, and code
is `Verified` with a set of shapes that has the start, is accepted throughout and
is closed under `Leads`. `UnwinderProofs` shows that verified code is safe
(section 4), and `MCUnwinder` finds the shapes of every program of the run.

Left out: yielding, chained and typed exceptions beyond "matches" and "does not
match", several handlers on one try (the chain of tests is there with one), a
pause inside `__enter__` or `__exit__`, names that user code deletes, and errors
of loads, of `iter()` and of comparisons: the frame meets them as it meets the
exception of a `raise` statement at the same place.

### Iteration

Objects are generators, iterators over a sequence, or adapters that ask others.
An ask is a Go call: `active` is the stack of those not answered yet, `result`
what the last one returned. A generator is its frame (`lasti`, `top` of its
stack, `yielded`, `running`) and its code, with one action per opcode. Five ways
to ask from outside (`next`, `send`, `list`, `all`, `for`) differ in what they
take for the end.

| code | definitions |
|---|---|
| `Generator.Send`, `Next` | `Send`, `Leave` |
| `YIELD_VALUE`, `RETURN_VALUE`, a raise | `Yields`, `YieldsTop`, `ReturnValue`, `Raises` |
| `FOR_ITER`, `YIELD_FROM`, a call of `next` | `AsksFor`, `ForIter`, `YieldFrom`, `NextAnswers` |
| `enumerate`, `filter`, `zip` | `AdapterAsks`, `AdapterFails`, `EnumerateNext`, `FilterNext`, `ZipNext` |
| `Iterate` and the builtins above it | `Begin`, `AskAgain`, `Hear` |

Left out: `throw` and `close`, which the code does not implement; `map`, which
steps as `filter` does; a pause of a generator's frame (in `Engine`). A list
iterator goes through a copy, so its sequence is fixed.

`IterationMeaning` says what programs mean, for objects that make a *tree*: each is
asked at one place of one other, or from outside, and code is straight but for the
loops that give on what they are given (`IsTree`). The constant `Meaning` gives to
each object the items it gives in all, how it ends, and how many items come before
each place of its code; `MeaningAssumption` says place by place what that has to be
(`GeneratorMeans`, `ZipMeans`, ...), so that nothing has to be defined by recursion
and the module can be proved about. That there is such a meaning is not taken on
trust: `MCIteration` computes it from the statements of the programs (`MeaningOf`),
without a look at the opcodes, and TLC checks the assumption for the tree worlds
of the run. What has been heard from outside is logged in `heard`, with the
number of items that came out `before`. In worlds that are no trees (rings) only
`NeverReentered`, `FinishedStaysFinished` and `EveryAskAnswers` say something.

### Names: Scopes, Names, NamesMeaning

`Scopes` is the symbol table: `Parse` fills a table per block from its
statements, `Analyze` gives each name its scope, block by block, with the sets
`bound`, `free` and the promotion to cells. `Names` is what the compiler makes of
the names of a block by those scopes (local, global, cell or class lookups,
closures) and the part of the interpreter that runs them: frames, cells, locals
dictionaries. `NamesMeaning` says what the same program means, from its text
alone: who binds a name, and that each call binds anew. `NamesResolve` compares
the two, note by note.

Two kinds of programs are not among the inputs, as the code does not do what the
language says (section 5): decorated functions with defaults, and imports of more
than two parts within functions.

### Expressions

Expressions, comprehensions, calls and assignments, with the compiler
(`Code` and `Stmt`, to lists of opcodes with relative jumps), a machine with one
stack (`Step`, `Run`), and their meaning as structured semantics (`Meaning`). Every atom may be
false, may raise, may be iterable or a dictionary, and may fail in the middle of an iteration;
what user code is asked is logged in order. The machine's stack must be empty at
the end. The frame of a comprehension starts without the names its code stores to
(`StoredNames`, from the opcodes), and the meaning hides the names its targets bind
(`Bound`, from the text): `[x for y in a if x for x in b]` is a NameError whatever
`x` is outside. The errors of the interpreter itself are there too: unpacking,
`*` and loops over what is not iterable, `**` of what is not a dictionary, keys
that are not strings, members of sets that are no Go keys.

Left out: docstrings, annotations, the constant table, `yield` as an expression,
what an operator answers (terms stand for it, and can be iterated; the operators of
numbers are in `NumberMethods`), comprehensions whose unset names are read in a
comprehension within them (a cell, and an UnboundLocalError), and orders of sets
and dictionaries other than that of entry (`Collections` has them).

### Assembler

`Assemble` repeats the passes of `Instructions.Assemble` until nothing moves.
`StackDepth` is its walk, `Lnotab` the line table, `Bytes` the bytecode and
`Program` the way the interpreter reads it back with `EXTENDED_ARG`. `MaxByte`
is the greatest value of a byte (255 in the code), so that arguments that need
two bytes or four, and steps of lines too long for a byte, come up in programs of
six instructions.

### Binding and Classes

`Binding` has `EvalCode`'s way from arguments to local variables and cells,
`ParseTupleAndKeywords` and `UnpackTuple` for builtins by their formats, and the
binding of methods. `Classes` has a world of classes and instances, which are the
same Go type: building a class with its order of ancestors (`MroImplementation`
and its merge), reading, setting and deleting attributes with their descriptors,
instances and `__init__`, and which handler catches what. A metaclass of one's
own is only ever chosen or refused, never run.

### Objects: IntObjects, FloatObjects, NumberMethods, Operators, Ranges, SequenceObjects, TextObjects, Collections

`IntObjects` has machine words of `Width` bits (64 in the code) that wrap
around, and big integers; `Operators` has `py/arithmetic.go`: which object's
method is asked first, and when the other's. A method is one operator for the
family of Go methods that differ in their names only. Floats are whole values with
`Mantissa` significant bits below 2^(`MaxExponent`+1) (53 and 1023 in the code), and
the infinities: `RoundedFloat` is the hardware's rounding to the nearest, ties to
even, `BigFloat` the conversion of `bigint.go` with its overflow, and every sum,
product, quotient and conversion rounds where the code's does. A quotient that is
not whole is a fraction. `Ranges` and `SequenceObjects` have indices, slices and what reads and
changes lists and tuples, with the panics of Go where a loop runs outside, after what it
has done by then. Items are compared by `ItemEq` (`py.Eq`), lists and tuples within
them by their items; items are numbers, lists, tuples and objects without `==`. A
string is the sequence of its bytes with its characters; positions of one kind
become the other's as in the code. What depends on the order of a Go map is the
set of possible answers. Left out: formatting and parsing of numbers, `%` of
strings, floats with fractions and NaN, most of bytes, strings, sets and
dictionaries as the items of lists.

### Lexer and FStrings

A source is lines of lexical elements (blanks, names, brackets, quotes, `#`, a
backslash, the end of the line). `Lexer` has one operator per state of `Lex`, with
the queue of tokens, the indentation stack, the counters of open brackets and the
reading of a string over several lines. `FStrings` is the whole of
`fstring_rewrite.go` over the characters it tells apart, and an evaluator of what
it makes (`Evaluated`). Numbers, operators and escapes are names to the lexer.

### ContextLifecycle

One goroutine uses the context, as `py/run.go` demands, with nested calls
(`ModuleInit` imports, an import runs code); any number call `Close`. The steps
of `pushBusy` (look at `closed`, add) and of `Close` (wait, set `closed`, tell
the modules, signal) are separate actions, as nothing makes them atomic.
`sync.WaitGroup` and `sync.Once` are external: a sleeping `Wait` is woken and
looks at the counter again; the panic of a reused WaitGroup and that of a
negative counter end the process.

Left out: importing and path resolution (the API offers built-in modules only).

## 3. What the runs check

| run | shows |
|---|---|
| `engine` | safety of the engine: `DepthAccounting`, `DepthLimited`, `CallStackKept`, `EveryFrameWaits`, `ResultsReachTheirCallSite`, `OutputDelivered` |
| `engine_protocol` | `ImplementsHostProtocol` (refinement with its liveness), `ExhaustedRunFails`, `InterruptedRunFails`, `EveryCallReturns` |
| `context` | `CountIsExact`, `CountedCallsHoldDone`, `ClosesOnce`, `EveryCloseReturns` |
| `unwinder` | `RunsAsWritten` (compiled programs behave as their statements mean), `BlocksNest`, `NeverPanics`, `LeavesALoop`, `HandledOnlyInHandlers`, `EveryProgramEnds`; and that the code of each of them is verified (`CompiledCodeIsVerified`, the hypothesis of the theorems), while some with a stray break is not |
| `iteration` | `NeverReentered`, `FinishedStaysFinished`, `ItemsAsWritten` (what is asked for comes out as the programs mean, each item once), `ValuesArrive`, `EveryAskAnswers` |
| `language` | one property per algorithm or family of objects, over bounded inputs: `NumbersExact`, `RangesExact`, `SlicesExact`, `ListsExact`, `TextsCharacterwise`, `CollectionsExact`, `CallsBind`, `ClassesInherit`, `SourcesNest`, `NamesReachTheirScope`, `CodeIsWhatWasCompiled`, `ExpressionsRunAsWritten` |
| `handlers_after_resume`, `calls_in_loops`, `resume_context`, `refused_calls`, `done_is_idle`, `stray_break` | one divergence each, section 5 |

Bounds.

* `engine`: two contexts (so that the one of Run and that of Resume can differ;
  interchangeable, hence the symmetry), six instructions, call depth 2, output
  limit 2 with writes of size 2, four frames, one handler per frame. Four frames
  and six instructions allow a second pause at another depth after a first, with
  a return between; depth 2 and output 2 are both exceeded. 3.5 million states.
* `engine_protocol`: the same with four instructions and three frames and without
  symmetry, which liveness does not allow. Two pauses still fit.
* `context`: three goroutines that close, nesting 3: one closes, one finds the
  `Once` running, one finds it done.
* `unwinder`: every compound statement (try with each kind of handler, with a
  finally clause, or with a bare handler and one; with; for; while; if) whose blocks hold each simple
  statement, and every such statement with another in one of its blocks, in a
  loop; else clauses throughout. The sibling of a nested statement is a step,
  raise, break or return. That is 7546 programs, after leaving out those the
  compiler refuses, those with a stray break (section 5) and those with both an
  external call and a bare raise, which a pause makes fail (section 5). Four
  answers of the world allow two turns of an outer loop with a
  different inner course each; every later answer is 0 (no more items, false, an
  error), which ends every loop.
* `iteration`: three objects. The first asks the others in every way a generator
  of two statements, `zip`, `enumerate` or `filter` can; the others are
  generators that stop or raise before, between or after two yields, iterators,
  or generators that ask in a line of three or back in a ring. Three asks from
  outside, in any mixture, see an object before, at and after its end. One value
  is sent, as values are only carried.
* `language`: a case is an area and the inputs of its laws. `Init` chooses the
  first input and a step the others, so that the cases are independent and the
  workers share them; the laws are action properties about the case a step makes.
  `Width = 5` makes every machine word an input: all pairs of integers around and
  beyond the word, all triples of a range, slices with parts at and beyond both
  ends of lists of four items. `Mantissa = 3` and `MaxExponent = 7`: words of five
  bits already need rounding, ties in both directions among them, and the BigInts go
  beyond the largest float, 224. Lists hold lists and tuples two deep, and pairs for
  a dictionary are tuples of one, two and three items with keys of both kinds, or no
  tuples. Texts of four characters of one byte and two;
  sets of three members out of seven that are equal across types; code objects
  with all combinations of three positional and two keyword-only parameters,
  `*args`, `**kwargs` and defaults; class hierarchies of four classes; lines of
  each kind two at a time and indentations of four lines; f-strings of three
  pieces; blocks of two statements within two others of every kind; programs of
  six instructions with `MaxByte = 2`; each form of an expression within each
  other. About 780 000 cases.

Deadlock is not checked where the system really stops: a host need not answer,
an execution, a program or a process ends, and a case of `language` is one step.

Fairness. `Engine!Spec` has weak fairness of `EngineStep` alone: an API call runs
on the caller's goroutine until it returns. The host's steps (answer, cancel)
have none. `ContextLifecycle!Spec` assumes that closing goroutines run and that
every call of the user ends, which the instruction budget enforces.
`Iteration!Spec` has weak fairness of `Running`, the one goroutine that executes
what is active; nobody has to ask. `Unwinder!Spec`
includes the host's answer: a program that is never answered has no outcome.

Why the properties are not vacuous: for each one a changed operator stands
beside the code's own (`BlockNotLowered`, `RestoreOneTooFew`, `MergeOuterFirst`,
`CompileForElse`, ...), a slip that the property must expose when it replaces
the original; `PROJECT.json` pairs them. These operators are used nowhere else.

## 4. What is proved

`EngineProofs`, `EngineBudgetProofs`, `EngineCallSiteProofs`, `UnwinderProofs`,
`ContextProofs`, `IterationProofs`, `IterationMeaningProofs` and `ObjectProofs` are
checked by TLAPS. Their assumptions are the named ones of the modules: limits are
positive, `Calls` is a set of known call kinds, nesting is positive, a machine
word has two bits or more, and the code of a generator is such as the compiler
makes (it ends with its return and its jumps stay in it), and the meaning of a tree
is one that its programs allow (`MeaningAssumption`).
`UnwinderProofs` has one more hypothesis, below.

The engine:

* `EngineTypeOK`. `TypeOK` is not inductive: a step reads `active`'s last element
  or `snap.frames[index]`. `TypeInv` adds `Shape` (where `index` and `active`
  stand for each value of `control`) and `Existing` (every frame mentioned has
  been created).
* `EngineCallStackKept`. `StackInv` adds `PauseInFlight`: a pause on its way out
  always has its frames behind it. One lemma per form of step: the Go stack grows
  at its end, loses its end, or hands its end to `ext.paused`; `MergePausedFrames`
  joins two chains at the frame at `index`.
* `EngineDepthAccounting`, on top of `StackInv`, from lemmas on the cardinality of
  `EnteredAbove` when the Go stack grows and shrinks. It is why the unmatched
  `ExitCall`s of frames that pause do no harm: `RestoreCallDepth` sets the count.
* `EngineDepthLimited`: never are more counted calls under way than the limit.
  `DepthLimited` speaks of the program's stack and `EnterCall` looks at the counter;
  the accounting ties the two together, so that only a frame that enters can add
  one, and it does so below the limit.
* `EngineFramesWait` and `EngineResults`, from `EngineWaits`: each frame of the Go
  stack waits for the next one, each frame of a snapshot for the one inside it,
  the innermost for the call that is pending; a frame that is executed waits for
  none, and `got` and `want` of a frame differ only while it waits. The order of
  the frames, from `StackInv`, is what makes `mergePausedFrames` keep all this.
* `EngineOutputDelivered` and `EngineKeepsProtocol`, from `HostInv`: the file is
  open exactly while the execution lives (`Lifetime`), its size is the budget's
  count (`Captured`), and calls are numbered within the budget (`CallsCounted`).
  `EngineKeepsProtocol` is the safety half of the refinement.

One frame of the interpreter:

* `UnwinderTypeOK`, `UnwinderBlocksNest`, `UnwinderNeverPanics`,
  `UnwinderLeavesALoop`, `UnwinderHandledOnlyInHandlers`, for programs of any length
  and nesting, whatever the world answers and however often it is asked. Over
  arbitrary code all of them are false (`POP_TOP` first panics), so they have the
  hypothesis `ProgramsVerified`: each program has a set of shapes that passes the
  check. It is no empty one: TLC finds such a set for each of the 7546 programs of
  the run, of every compound statement in every other, and for the 304 with a bare
  raise beside an external call (`CompiledCodeIsVerified`); it fails for some
  program with a stray break, the code bug of section 5, as it should.
* The invariant `ShapeInv`: some shape of the program's set describes the frame,
  its blocks exactly and its values slot by slot (`RunsInShape`); a paused frame
  has a shape to go on in for a result and one for an error (`PausesInShape`);
  a frame that has ended has no blocks; an exception is set exactly while the frame
  unwinds for it (`RaisesWhy`), and one is being handled only under a handler
  (`HandlesOnly`). One lemma for each action shows that the shape it leads to
  describes the frame after it. The five properties follow from any lawful shape.
  The hard steps are those where a slot speaks of several values: the entries of
  an exception, which a handler pops by number, and which `WITH_CLEANUP` moves
  down by one under the block whose level it then lowers (eval.go:859-897).

Context and generators:

* `ContextTypeOK`, `ContextCountIsExact`, `ContextCallsHoldDone`,
  `ContextClosesOnce`, from `ContextInv`: the count against the nesting in every
  phase of `pushBusy`, and which goroutine may be how far in `Close`.
* `IterationNeverReentered` and `IterationFinishedStaysFinished`, for any number of
  objects, rings of them too, any code and any asks. `NeverReentered` alone is not
  inductive: a frame that waits must be past the opcode that asked (`Waiting`), or
  its answer would meet another one; `FramesInv` adds that a frame is past its
  return only when it is executed no more and its `yielded` is reset, which is what
  `Send` looks at; `CallsInv` also keeps the call from outside at the bottom
  (`Outside`) and an adapter within what it asks (`PartsFit`). One lemma for each way
  of entering and leaving a frame, and each action cites the one it is an instance
  of. The second theorem follows from `Returned`: a frame is entered only when it has
  not started or has yielded.
* `IterationValuesArrive`, for trees of any size and depth. `TreeInv` adds who waits
  for whom (`ChainInv`): each call waits for what its object asks at the place where
  it is, and that is the call above it; as no two places of a tree ask the same
  object, only the frame of the `yield from` can answer for what it asks.
  `Passes(g, k, o)` then follows one `yield from` at place `k` of `g` through its
  life: nothing has happened to `o` before `g` comes there; while `o` is executed
  both have been sent the same; between, `g` has at most the one value more that is
  on its stack. `EndsWith` compares the two logs, and grows by one value at each.
* `IterationItemsAsWritten`, for trees of any size and depth, asked from outside in
  any mixture. The invariant says that there are numbers, `given`, of the items each
  object has given, and objects that have not ended, `unended`, such that everything
  is where its meaning says it is (`AsWritten`): each generator in the statement that
  its number of items leads to (`StatementAsWritten`: about to execute it, waiting
  in it, giving on, or going round), each adapter with the parts it has taken, the
  answer on its way the right item of the right object (`AnswerAsWritten`), and the
  ask from outside with the items since the last (`AskAsWritten`). The numbers are
  no variable of the model: a lemma per action names those after the step. This
  holds until the object asked from outside has ended, and no longer, as a generator
  that has raised after a yield runs on (section 5). For the rest of the property,
  that nothing comes after a stop, `AtTheEnd(past)` describes a set of objects none
  of which can give anything because it is one of them that would have to; whatever
  answers with the StopIteration of a builtin is in such a set (`StopsForGood`),
  every step keeps the sets (`EndsAreKept`), and so the log says so (`Late`).

Objects, for words of any width (64 bits in the code, 5 in the run `language`) and
all operands:

* `SumsExact`, `DifferencesExact`, `ProductsExact`, `ShiftsExact`, `DivisionsExact`,
  `BigDivisionsExact`: the guards of `int.go` and `bigint.go`, computed in words that
  wrap, choose the Int or the BigInt so that the answer is exact. The exceptions are
  those of `Undetected` (section 5) and no others: for differences and products the
  theorems say *exact if and only if not `Undetected`*. The argument for all of them
  is that `Wrap(n)` is the one word congruent to `n`, so that a guard that wraps is
  compared with the exact one case by case.
* `IndicesExact` and `SlicesChoose`: `IndexIntCheck` and `Slice.GetIndices` give the
  positions the language means, for sequences of every length and parts that are any
  words. The chosen positions are an arithmetic progression, and its number of terms
  is what the division in `GetIndices` computes.
* `RangesOfTheLanguage`: length, items and iterator of a range, where the distance of
  its ends and one step beyond its last item are words.

The provers know neither exponentiation nor induction over an operator. Powers of
two come from the number of subsets of an interval (`PowersOfTwo`, `PowersAdd`),
and induction over the naturals from the cardinality of finite sets (`LeastNumber`:
a set of naturals that is not empty has a least member).

Only model-checked:

* all liveness (`EveryCallReturns`, `ExhaustedRunFails`, `InterruptedRunFails`,
  `EveryCloseReturns`, `EveryProgramEnds`, `EveryAskAnswers`, the fairness of the
  protocol), which is out of the prover's reach;
* `RunsAsWritten` and that the compiler's code is always verified: both need
  induction over programs, through `ControlFlow`'s recursive operators, which the
  SMT backend does not take;
* that the programs of the run have the meaning that `IterationMeaning` assumes:
  it is computed by recursion over their statements (`MCIteration`);
* the rest of the run `language`: slices of ranges (whose sums may wrap), operators
  on bits, floats, and lists, texts, collections, calls, classes, the lexer, names,
  the assembler and expressions. Most of these modules declare recursive operators,
  or compute with folds; `LeastNumber` gives induction over numbers but none over
  such data, as the library's induction theorems take an operator that no installed
  prover can instantiate.

## 5. Divergences found

1. `taipan.go:260`. After a resume, an exception that leaves the innermost frame
   ends the execution; frames outside it with a `try` are not asked
   (`handlers_after_resume`).
2. `vm/eval.go:1197`. `FOR_ITER` takes any error for the end of the loop, so an
   external call made by a generator under a `for` is lost (`calls_in_loops`).
3. `taipan.go:111`. Opcodes after `Resume` obey the context of the first Run and
   not the one Resume was given (`resume_context`).
4. `stdlib/stdlib.go:265`. A call on a closed context panics instead of failing
   (`refused_calls`).
5. `stdlib/stdlib.go:171`. A call that races Close can run after Done
   (`done_is_idle`).
6. `compile/compile.go:1217`. A `break` in a `try` or `with` that is in no loop
   compiles, and the interpreter panics (`stray_break`).

Met on the way, stated, and in no run so far: a builtin whose callback pauses is
given the callback's result as its own (`BuiltinResultsReachTheirCallSite`);
a bare `raise` fails in a handler that was paused and resumed, as `vm.exc` is
not part of the frame (`RunsAsWritten` over the programs `Forgetful`); a reused
WaitGroup makes `Close` panic (`WaitWakes`).

The modules of the language follow the code where it does not do what Python, or
a comment beside it, says. Their properties name these cases, show that they
differ, or leave them to a premise; none of them is a finding of a run.

* Numbers (`Undetected`, `Uneven`): `int.go:312` takes a difference above the
  largest Int for one that fits; `int.go:336` the product with the smallest Int
  for a small one, as `int.go:472` does the smallest Int divided by -1;
  `int.go:543` checks the wrong
  operand of a reflected shift; `int.go:647` rounds past the word. Bools have no
  arithmetic, `True == 2**70` and its mirror image differ, `//` by a float zero is
  infinite. `pow(x, y, z)` of a negative `z` is the remainder that is not negative,
  and of a zero `z` it is `x**y` (`bigint.go:339`), where its text says "equivalent to
  (x**y) % z" (`builtin.go:259-260`): `%` has the sign of `z` (`int.go:479-482`) and
  raises for zero. `pow(-16, 0, -4)` is 1 and not -3. `PowersExact` says that the
  answer is the documented one exactly where that does not matter (`SignIgnored`).
* Floats (`Blurred`, `Coarse`, `TwiceRounded`, `Beyond`): an integer is rounded to a
  float before it is compared with one, so that unequal numbers may be equal (2^53+1
  and 2.0^53); never do two compare the wrong way round (`Consistent`). A BigInt is rounded
  twice on its way to a float (`bigint.go:137`), and one too large is unequal to every
  float, a TypeError or an OverflowError, as the operator has it. `//` and `%` of
  floats round the quotient before they take its floor; processors that fuse the
  multiplication and the subtraction may differ from this. A float of 2^63 becomes
  whatever integer the machine makes of it (`Unspecified`).
* Ranges: `range(5, 1, 0)` divides by zero and `range(0, 10, 0)` never ends;
  lengths and positions wrap; slices of ranges with a negative step are wrong;
  equality ignores the other's step when its own is 1.
* Lists and tuples: a slice whose stop is before its start (`list.go:217`, `:265`,
  `tuple.go:94`) duplicates, lengthens or panics; a right side that raises leaves
  the list cut; assigning to a slice with a negative step does nothing
  (`list.go:237`, `:268`); extended slices whose positions fall outside assign or
  delete what comes before that and then panic (`LoopEnds`); `tuple.go:113` concatenates wrongly; `extend` ignores
  what is not a list.
* Strings: `startswith` with a position cuts bytes; negative ends in `find` and
  `count` mean the whole string, negative starts panic (doc: `string.go:150-168`);
  `split(sep, -1)` is empty; `+=` on bytes may write into the original.
* Sets and dictionaries: members are told apart as Go keys, so `{1}` and `{True}`
  differ and `==` is not symmetric; members that are no Go keys panic;
  `dict(mapping)` is refused although its text (`dict.go`) offers it, and so are
  pairs that are no tuples; a tuple with fewer than two items panics. A pair
  whose key is not a string is dropped without an error (`dict.go:117`), where the
  text (`dict.go:19-22`) has `d[k] = v`, which raises a KeyError (`dict.go:241`);
  `PairsEnterExact` says that the two agree exactly where all keys are strings.
* Calls: `args.go:460` leaves a required parameter unset when an optional one is
  given by keyword.
* Classes: special methods of a class are found on its own instances only, a class
  does not show what its bases have, an explicit metaclass is dropped, a class
  below an exception is an exception instance that catches nothing.
* Iteration: a generator that has raised after a yield runs on past the raise
  (`generator.go:93`); a loop ends on any error (`eval.go:1191`); `list` hands on
  a StopIteration that a frame has raised, where `for` and `all` end; generators'
  frames are not counted against the depth (`eval.go:2204`, against
  `README.md:268`); `zip()` never ends; `next(enumerate(x))` is refused.
* Names: `compile.go:568-622` pushes decorators above defaults, so a decorated
  function with defaults takes its decorator for one (`eval.go:1490` expects the
  other order); in a function `import a.b.c` declares `a.b` (`symtable.go:359`);
  `eval.go:1335` pushes two values.
* Assembler: relative jumps whose size changes panic (`instructions.go:447`); when
  places pass 64 KB that reaches short ones too. Traceback lines (`eval.go:93`)
  are those of the following instruction.
* Expressions: more than 255 arguments wrap into the count of keywords
  (`compile.go:1432`); unpacking takes an iterator's failure for its end
  (`eval.go:505-522`); `**` of any mapping but a dict is a SystemError
  (`eval.go:1684`); dictionary displays with keys that are not strings raise a
  KeyError; a set display with a tuple in it panics.
* Engine: a run refused because an input has the name of an external function
  leaves the capture file open and on disk (`taipan.go:151`); the protocol promises
  nothing of a refused execution, so `ImplementsHostProtocol` does not notice.
* f-strings: `f"100%"` is `100%%`; slices and `!=` are refused as format
  specifications; the expression made has the precedence of `%`, so an f-string
  before `.`, `[` or after `*` means something else.

## 6. Plan

Done: the engine with its abstract protocol and proofs of all its safety; the
context and the generators with theirs, down to the items that a tree of generators
gives; one frame with the compiler of control
flow, and the proof that verified code is safe in it; names,
expressions and the assembler; calls, classes and objects, with proofs about
integers, indices, slices and ranges; the lexer and f-strings.

Next, in this order:

1. **Integers**: the operators on bits, and the powers, for any width.
2. **Names** and **Assembler**: what can be said of them without induction, once
   their operators are recursive functions.
3. A second host that keeps old `FunctionCall`s, and builtins that call back, if
   the state space allows; a generator that pauses within a `yield from`.

## 7. Not modelled

* The parser (`grammar.y`, `y.go`) and the AST: generated tables and
  constructors, with no state between calls. What programs mean is modelled from
  the AST on.
* Import, path resolution and the module store: the API offers built-in modules
  only, through a restricted import.
* File objects, `compile`, `open`, `input`, the pytest helpers and the builtins
  that evaluate source: stripped by the API, or used by tests only.
* Formatting and parsing of numbers and texts, `repr`, messages of exceptions and
  the printing of tracebacks: text that nothing decides by.
* `throw` and `close` of generators: not implemented by the code.
