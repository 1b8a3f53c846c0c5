--------------------------------- MODULE Names ---------------------------------
(***************************************************************************)
(* From names to values: the opcodes compile/compile.go chooses for the    *)
(* names of a block by their scopes, the cells it hands to the blocks      *)
(* within, and what vm/eval.go makes of them.                              *)
(*                                                                         *)
(* Programs are lists of statements about names.  Uses, deletions and      *)
(* calls are each in a try of their own, so that what goes wrong is noted  *)
(* and the program goes on; what is noted is the log of the machine.       *)
(***************************************************************************)
EXTENDS Scopes

LOCAL INSTANCE Naturals
LOCAL INSTANCE Sequences
LOCAL INSTANCE SequencesExt

-------------------------------------------------------------------------------
(* Compiling a block: its code has the names of its slots and its opcodes. *)

IndexIn(seq, x) == CHOOSE i \in DOMAIN seq : seq[i] = x
MayBeNamed(block, x) == x \in DOMAIN block.table.scopes

\* The family of opcodes for a name; what has no scope is looked up by name.
OpType(block, x) ==
    LET scope == IF MayBeNamed(block, x) THEN block.table.scopes[x] ELSE "invalid"
    IN CASE scope \in {"free", "cell"} -> "DEREF"
         [] scope = "local"           -> IF block.table.type = "function" THEN "FAST" ELSE "NAME"
         [] scope = "global implicit" -> IF block.table.type = "function" THEN "GLOBAL" ELSE "NAME"
         [] scope = "global explicit" -> "GLOBAL"
         [] scope = "invalid"         -> "NAME"

\* Cells are numbered before free variables.
Slot(block, x) ==
    LET cells == CellVars(block)
    IN IF x \in ToSet(cells) THEN IndexIn(cells, x) ELSE Len(cells) + IndexIn(FreeVars(block), x)

NameOp(block, x, ctx) ==
    LET type == OpType(block, x)
    IN [op |-> <<ctx, IF ctx = "LOAD" /\ type = "DEREF" /\ block.table.type = "class"
                      THEN "CLASSDEREF" ELSE type>>,
        name |-> x, slot |-> IF type = "DEREF" THEN Slot(block, x) ELSE 0]

\* A name of a class that is also free in a method is taken from around,
\* __class__ from the class itself.
GetRefType(block, x) ==
    IF block.table.type = "class" /\ x = ClassVar THEN "cell" ELSE block.table.scopes[x]

\* A changed MakeClosure: free variables are numbered like cells.
MakeClosureUnshifted(block, child) ==
    LET free == FreeVars(child)
    IN [i \in DOMAIN free |->
          IF GetRefType(block, free[i]) = "cell" THEN IndexIn(CellVars(block), free[i])
          ELSE IndexIn(FreeVars(block), free[i])]
\* The cells of this block that a block within it is made with, in the order of
\* the free variables of that.
MakeClosure(block, child) ==
    LET free == FreeVars(child)
    IN [i \in DOMAIN free |->
          IF GetRefType(block, free[i]) = "cell" THEN IndexIn(CellVars(block), free[i])
          ELSE Len(CellVars(block)) + IndexIn(FreeVars(block), free[i])]

\* Arguments that are in cells start there.
InitCell2arg(block) ==
    LET cells == CellVars(block) args == block.table.varnames
    IN [i \in DOMAIN cells |-> IF cells[i] \in ToSet(args) THEN IndexIn(args, cells[i]) ELSE 0]

Loads(block, xs) == [i \in DOMAIN xs |-> NameOp(block, xs[i], "LOAD")]
LoadConst(v)     == [op |-> <<"LOAD", "CONST">>, value |-> v]
CallFunction(k)  == [op |-> <<"CALL", "FUNCTION">>, n |-> k]
\* The function of statement s, compiled from its block within this one.
Closure(block, s, child, defaults) ==
    [op |-> <<"MAKE", "CLOSURE">>, n |-> defaults, name |-> s.name,
     cells |-> MakeClosure(block, child), block |-> child,
     body |-> IF s.do = "comp" THEN <<[do |-> "take", name |-> s.target]>> \o s.body ELSE s.body]

\* Defaults are pushed before decorators, and both before the function.
CompileFunc(block, s, child, decorators) ==
    Loads(block, s.defaults) \o Loads(block, decorators)
        \o <<Closure(block, s, child, Len(s.defaults))>>
        \o [i \in DOMAIN decorators |-> CallFunction(1)]
CompileClass(block, s, child) ==
    <<Closure(block, s, child, 0), [op |-> <<"BUILD", "CLASS">>, name |-> s.name],
      NameOp(block, s.name, "STORE")>>
Comprehension(block, s, child) ==
    <<Closure(block, s, child, 0), NameOp(block, s.iter, "LOAD"), CallFunction(1)>>
\* import a.b.c binds a.
Import(block, s) == <<LoadConst(s.value), NameOp(block, s.parts[1], "STORE")>>

\* What statement s of a block becomes; n blocks start in the statements up to it.
OpcodesFor(block, s, n) ==
    LET Load(x)  == NameOp(block, x, "LOAD")
        Store(x) == NameOp(block, x, "STORE")
        child    == block.children[n]
    IN CASE s.do = "use"    -> <<Load(s.name), [op |-> <<"PRINT", "EXPR">>]>>
         [] s.do \in {"super", "global", "nonlocal"} -> <<>>
         [] s.do = "bind"   -> <<LoadConst(s.value), Store(s.name)>>
         [] s.do = "take"   -> <<Load(Argument), Store(s.name)>>
         [] s.do = "import" -> Import(block, s)
         [] s.do = "del"    -> <<NameOp(block, s.name, "DELETE")>>
         [] s.do = "call"   -> <<Load(s.name), CallFunction(0)>>
         [] s.do = "def"    -> CompileFunc(block, s, child, s.decorators) \o <<Store(s.name)>>
         [] s.do = "lambda" -> CompileFunc(block, s, child, <<>>) \o <<CallFunction(0)>>
         [] s.do = "class"  -> CompileClass(block, s, child)
         [] s.do = "comp"   -> Comprehension(block, s, child)

-------------------------------------------------------------------------------
(* Running: the machine m has the globals and the cells of the program, its log, *)
(* and the frame that runs: its block, stack, local variables, locals           *)
(* dictionary and the cells it can reach.                                      *)

Unset    == [is |-> "unset", n |-> 0]
NoneVal  == [is |-> "None", n |-> 0]
Class(x) == [is |-> "class", n |-> x]
\* A builtin to decorate with, which returns what it is given.
Decorator == 93
Builtins  == [x \in {Decorator} |-> [is |-> "identity", n |-> 0]]

Read(dict, x)     == IF x \in DOMAIN dict THEN dict[x] ELSE Unset
Put(dict, x, v)   == [y \in DOMAIN dict \cup {x} |-> IF y = x THEN v ELSE dict[y]]
Push(m, v)        == [m EXCEPT !.stack = Append(@, v)]
PopN(m, k)        == [m EXCEPT !.stack = SubSeq(@, 1, Len(@) - k)]
TopN(m, k)        == SubSeq(m.stack, Len(m.stack) - k + 1, Len(m.stack))
Top(m)            == Last(m.stack)
Fail(m)           == [m EXCEPT !.failed = TRUE]

\* The locals of a module are its globals.
LocalsOf(m) == IF m.block.table.type = "module" THEN m.globals ELSE m.locals
LookupGlobal(m, x) ==
    IF Read(m.globals, x) = Unset THEN Read(Builtins, x) ELSE Read(m.globals, x)
Lookup(m, x) == IF Read(LocalsOf(m), x) = Unset THEN LookupGlobal(m, x) ELSE Read(LocalsOf(m), x)

Found(m, op) ==
    CASE op.op[2] = "FAST"   -> Read(m.fast, op.name)
      [] op.op[2] = "GLOBAL" -> IF op.op[1] = "LOAD" THEN LookupGlobal(m, op.name)
                                ELSE Read(m.globals, op.name)
      [] op.op[2] = "NAME"   -> IF op.op[1] = "LOAD" THEN Lookup(m, op.name)
                                ELSE Read(LocalsOf(m), op.name)
      [] op.op[2] \in {"DEREF", "CLASSDEREF"} -> m.cells[m.cellAndFree[op.slot]]

Stored(m, op, v) ==
    CASE op.op[2] = "FAST"   -> [m EXCEPT !.fast = Put(@, op.name, v)]
      [] op.op[2] = "GLOBAL" \/ (op.op[2] = "NAME" /\ m.block.table.type = "module") ->
           [m EXCEPT !.globals = Put(@, op.name, v)]
      [] op.op[2] = "NAME" /\ m.block.table.type # "module" ->
           [m EXCEPT !.locals = Put(@, op.name, v)]
      [] op.op[2] = "DEREF"  -> [m EXCEPT !.cells[m.cellAndFree[op.slot]] = v]

\* LOAD_CLASSDEREF pushes what it finds in the locals and then the cell too.
LoadClassDeref(m, op) ==
    LET own == Read(m.locals, op.name)
    IN IF own = Unset THEN m ELSE Push(m, own)
Load(m, op) ==
    LET m2 == IF op.op[2] = "CLASSDEREF" THEN LoadClassDeref(m, op) ELSE m
    IN CASE op.op[2] = "CONST" -> Push(m, op.value)
         [] op.op[2] # "CONST" -> IF Found(m, op) = Unset THEN Fail(m2) ELSE Push(m2, Found(m, op))

\* The function takes the values on top of the stack for its defaults.
MakeFunction(m, op) ==
    Push(PopN(m, op.n),
         [is |-> "function", n |-> op.name, block |-> op.block, body |-> op.body,
          closure |-> [i \in DOMAIN op.cells |-> m.cellAndFree[op.cells[i]]],
          defaults |-> TopN(m, op.n)])

\* A frame for the code of f, with its arguments, some of them in cells.
NewFrame(m, f, args) ==
    LET params   == f.block.table.varnames
        given    == args \o SubSeq(f.defaults, Len(args) + Len(f.defaults) - Len(params) + 1,
                                   Len(f.defaults))
        cellvars == CellVars(f.block)
        arg      == InitCell2arg(f.block)
        InCell(x) == x \in ToSet(cellvars)
    IN [m EXCEPT !.block = f.block, !.stack = <<>>, !.locals = << >>,
          !.fast  = [x \in {x \in ToSet(params) : ~InCell(x)} |-> given[IndexIn(params, x)]],
          !.cells = @ \o [i \in DOMAIN cellvars |-> IF arg[i] = 0 THEN Unset ELSE given[arg[i]]],
          !.cellAndFree = [i \in DOMAIN cellvars |-> Len(m.cells) + i] \o f.closure]
Return(m, caller) ==
    [caller EXCEPT !.globals = m.globals, !.cells = m.cells, !.log = m.log]

Makes(s) == s.do \in {"def", "class", "lambda", "comp"}

RECURSIVE RunBody(_, _)
Call(m, f, args) ==
    LET missing == Len(f.block.table.varnames) - Len(args)
    IN IF f.is = "identity" THEN Push(m, args[1])
       ELSE IF f.is # "function" THEN Fail(m)
       ELSE IF missing < 0 \/ missing > Len(f.defaults) THEN Fail(m)
       ELSE Push(Return(RunBody(NewFrame(m, f, args), f.body), m), NoneVal)

\* __build_class__ runs the body, which returns its cell for __class__ if it has one.
BuildClass(m, op) ==
    LET ran   == RunBody(NewFrame(m, Top(m), <<>>), Top(m).body)
        class == IF ran.block.needsClassClosure
                 THEN [ran EXCEPT !.cells[ran.cellAndFree[1]] = Class(op.name)] ELSE ran
    IN Push(Return(class, PopN(m, 1)), Class(op.name))

Do(m, op) ==
    CASE m.failed -> m
      [] ~m.failed /\ op.op[1] = "LOAD"  -> Load(m, op)
      [] ~m.failed /\ op.op[1] = "STORE" -> Stored(PopN(m, 1), op, Top(m))
      [] ~m.failed /\ op.op[1] = "DELETE" ->
           IF Found(m, op) = Unset THEN Fail(m) ELSE Stored(m, op, Unset)
      [] ~m.failed /\ op.op[1] = "PRINT" ->
           [PopN(m, 1) EXCEPT !.log = Append(@, <<Top(m).is, Top(m).n>>)]
      [] ~m.failed /\ op.op[1] = "MAKE"  -> MakeFunction(m, op)
      [] ~m.failed /\ op.op[1] = "BUILD" -> BuildClass(m, op)
      [] ~m.failed /\ op.op[1] = "CALL"  ->
           Call(PopN(m, op.n + 1), m.stack[Len(m.stack) - op.n], TopN(m, op.n))

\* Every statement is a try of its own.
RunStatement(m, s, n) ==
    LET ran == FoldLeft(Do, m, OpcodesFor(m.block, s, n))
    IN [ran EXCEPT !.failed = FALSE, !.stack = <<>>,
                   !.log = IF ran.failed THEN Append(@, <<"error", 0>>) ELSE @]
RunBody(m, body) ==
    LET Run(r, i) == RunStatement(r, body[i], Len(SelectSeq(SubSeq(body, 1, i), Makes)))
    IN FoldLeft(Run, m, [i \in DOMAIN body |-> i])

\* What a module with these statements notes down.
RunModule(body) ==
    LET block == Analyze(body)
    IN IF block.error THEN <<<<"SyntaxError", 0>>>>
       ELSE RunBody([block |-> block, globals |-> << >>, locals |-> << >>, fast |-> << >>,
                     cells |-> <<>>, cellAndFree |-> <<>>, stack |-> <<>>, failed |-> FALSE,
                     log |-> <<>>], body).log
===============================================================================
