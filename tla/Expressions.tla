------------------------------ MODULE Expressions ------------------------------
(***************************************************************************)
(* Expressions and assignments, twice: what compile/compile.go makes of    *)
(* them and vm/eval.go does with that, on a stack of values (Execute); and *)
(* what they mean, from left to right (Meaning).                           *)
(*                                                                         *)
(* An expression has its kind in is and what it is made of in parts.  What *)
(* user code is asked to do is in the log, in order; its answers are terms *)
(* of what it was given, some true, some false.                            *)
(***************************************************************************)
LOCAL INSTANCE Integers
LOCAL INSTANCE Sequences
LOCAL INSTANCE SequencesExt
LOCAL INSTANCE FiniteSetsExt

\* The greatest number in a byte.
CONSTANT MaxByte
Base == MaxByte + 1

-------------------------------------------------------------------------------
(* Values: n tells atoms and strings apart; what fails ends in an error when    *)
(* it is iterated.  A dictionary has, in of, each value that entered it before  *)
(* its key, a string.  A collection is true when it is not empty, the answer of *)
(* user code when an odd number of what it was given is.                        *)

Value(made, n, of, true, fails) ==
    [made |-> made, n |-> n, of |-> of, true |-> true, fails |-> fails]
Leaf(n)        == Value("atom", n, <<>>, TRUE, FALSE)
Const(x)       == Value("const", x, <<>>, FALSE, FALSE)
String(n)      == Value("string", n, <<>>, TRUE, FALSE)
Term(made, of) ==
    Value(made, 0, of,
          IF made \in {"tuple", "list", "set", "dict"} THEN of # <<>>
          ELSE Len(SelectSeq(of, LAMBDA v : v.true)) % 2 = 1,
          FALSE)

\* What iterating gives: a string has one character; a set or a dictionary lists
\* its members in the order they came in, one of those Go's maps may take.
Once(of) == FoldLeft(LAMBDA seen, v : IF v \in ToSet(seen) THEN seen ELSE Append(seen, v), <<>>, of)
Keys(v)  == [i \in 1 .. Len(v.of) \div 2 |-> v.of[2 * i]]
Items(v) == CASE v.made = "string" -> <<v>>
              [] v.made = "dict"   -> Once(Keys(v))
              [] v.made = "set"    -> Once(v.of)
              [] OTHER             -> v.of
Iterates(v) == v.made \notin {"atom", "const"}
Iterator(v) == [v EXCEPT !.made = "iterator", !.of = Items(v)]
\* A key has the value that entered last.
Entries(v) ==
    LET keys == Keys(v)
    IN {<<keys[i].n, v.of[2 * i - 1]>> :
            i \in {j \in DOMAIN keys : \A k \in DOMAIN keys : k > j => keys[k] # keys[j]}}

\* What values do not enter a collection: only strings are keys, and a Go map
\* takes neither tuples nor dictionaries for the members of a set.
Refusal(made, values) ==
    CASE made = "dict" /\ values[2].made # "string" -> "KeyError"
      [] made = "set" /\ (\E v \in ToSet(values) : v.made \in {"tuple", "dict"}) -> "panic"
      [] OTHER -> "no"

\* None, and AssertionError.
NoneName  == 0
ErrorName == 9
Expr(is, parts) == [is |-> is, parts |-> parts]
\* An expression with value v, which may raise.
Atom(v, raises) == [is |-> "atom", value |-> v, raises |-> raises]
Name(x)         == [is |-> "name", name |-> x]
\* keys are pairs of a name and an expression; star and kwargs have one or none.
CallOf(parts, keys, star, kwargs) ==
    [is |-> "call", parts |-> parts, keys |-> keys, star |-> star, kwargs |-> kwargs]
\* A clause of a comprehension, and one that makes values, or keys and values.
For(target, iter, ifs) == [target |-> target, iter |-> iter, ifs |-> ifs]
Comp(kind, elts, clauses) == [is |-> "comp", kind |-> kind, parts |-> elts, clauses |-> clauses]

Did(op, of) == [op |-> op, of |-> of, kw |-> {}]

-------------------------------------------------------------------------------
(* Compiling.  Jumps say how many instructions they pass over.                 *)

I(op, arg)  == [op |-> op, arg |-> arg]
SyntaxError == <<I("SyntaxError", 0)>>
LoadConst(v) == <<[op |-> "LOAD_CONST", value |-> v]>>

\* Pieces with a jump after each but the last to a place past the end of them.
Joined(pieces, jump, past) ==
    LET n    == Len(pieces)
        \* the pieces after the i-th, and their jumps
        Over(i) == Len(FlattenSeq(SubSeq(pieces, i + 1, n))) + n - i - 1 + past
    IN FlattenSeq([i \in 1 .. n |->
           IF i = n THEN pieces[i] ELSE Append(pieces[i], I(jump, Over(i)))])

NameOp(x, ctx) ==
    <<I(CASE ctx \in {"Load", "AugLoad"} -> "LOAD_NAME" [] ctx = "Del" -> "DELETE_NAME"
          [] ctx \in {"Store", "AugStore"} -> "STORE_NAME", x)>>

\* What follows the object and the index of a subscript, by its context.
Subscript(ctx) ==
    CASE ctx = "AugLoad"  -> <<I("DUP_TOP_TWO", 0), I("BINARY_SUBSCR", 2)>>
      [] ctx = "Load"     -> <<I("BINARY_SUBSCR", 2)>>
      [] ctx = "AugStore" -> <<I("ROT_THREE", 0), I("STORE_SUBSCR", 3)>>
      [] ctx = "Store"    -> <<I("STORE_SUBSCR", 3)>>
      [] ctx = "Del"      -> <<I("DELETE_SUBSCR", 2)>>

Attribute(ctx) ==
    CASE ctx = "AugLoad"  -> <<I("DUP_TOP", 0), I("LOAD_ATTR", 1)>>
      [] ctx = "Load"     -> <<I("LOAD_ATTR", 1)>>
      [] ctx = "AugStore" -> <<I("ROT_TWO", 0), I("STORE_ATTR", 2)>>
      [] ctx = "Store"    -> <<I("STORE_ATTR", 2)>>
      [] ctx = "Del"      -> <<I("DELETE_ATTR", 1)>>

BuildOf == [tuple |-> "BUILD_TUPLE", list |-> "BUILD_LIST", set |-> "BUILD_SET",
            slice |-> "BUILD_SLICE", dims |-> "BUILD_TUPLE"]

RECURSIVE Code(_, _), Generator(_, _, _)
Codes(es, ctx) == FlattenSeq([i \in DOMAIN es |-> Code(es[i], ctx)])

\* The first starred target takes what the others leave.
TupleOrList(e, ctx) ==
    LET n       == Len(e.parts)
        starred == {i \in 1 .. n : e.parts[i].is = "starred"}
        first   == Min(starred)
        targets == [i \in 1 .. n |-> IF starred # {} /\ i = first THEN e.parts[i].parts[1]
                                     ELSE e.parts[i]]
    IN CASE ctx = "Load"  -> Codes(e.parts, ctx) \o <<I(BuildOf[e.is], n)>>
         [] ctx = "Del"   -> Codes(e.parts, ctx)
         [] ctx = "Store" ->
              IF starred = {} THEN <<I("UNPACK_SEQUENCE", n)>> \o Codes(e.parts, ctx)
              ELSE IF first - 1 >= Base THEN SyntaxError
              ELSE <<I("UNPACK_EX", (first - 1) + (n - first) * Base)>> \o Codes(targets, ctx)

\* A changed Compare: the first operand is compared with all others.
CompareWithFirst(e) ==
    LET n     == Len(e.parts)
        chain == [i \in 1 .. n - 1 |->
                    (IF i = n - 1 THEN <<>> ELSE <<I("DUP_TOP", 0)>>) \o Code(e.parts[i + 1], "Load")
                    \o <<I("COMPARE_OP", 2)>>]
    IN Code(e.parts[1], "Load") \o Joined(chain, "JUMP_IF_FALSE_OR_POP", 1)
       \o IF n = 2 THEN <<>> ELSE <<I("JUMP_FORWARD", 2), I("ROT_TWO", 0), I("POP_TOP", 0)>>
\* a < b < c keeps b below the answer of the first comparison.
Compare(e) ==
    LET n     == Len(e.parts)
        chain == [i \in 1 .. n - 1 |->
                    Code(e.parts[i + 1], "Load")
                    \o (IF i = n - 1 THEN <<>> ELSE <<I("DUP_TOP", 0), I("ROT_THREE", 0)>>)
                    \o <<I("COMPARE_OP", 2)>>]
    IN Code(e.parts[1], "Load") \o Joined(chain, "JUMP_IF_FALSE_OR_POP", 1)
       \o IF n = 2 THEN <<>> ELSE <<I("JUMP_FORWARD", 2), I("ROT_TWO", 0), I("POP_TOP", 0)>>

IfExp(e) ==
    LET code == [i \in 1 .. 3 |-> Code(e.parts[i], "Load")]
    IN code[1] \o <<I("POP_JUMP_IF_FALSE", Len(code[2]) + 1)>>
       \o code[2] \o <<I("JUMP_FORWARD", Len(code[3]))>> \o code[3]

\* A dictionary display evaluates every value before its key.
Dict(e) ==
    <<I("BUILD_MAP", 0)>> \o
    FlattenSeq([i \in 1 .. Len(e.parts) \div 2 |->
                  Code(e.parts[2 * i], "Load") \o Code(e.parts[2 * i - 1], "Load")
                  \o <<I("STORE_MAP", 0)>>])

\* The counts of arguments share the argument of the opcode, a byte each.
CallHelper(e) ==
    LET keys == [i \in DOMAIN e.keys |-> e.keys[i][1]]
        op   == CASE e.star # <<>> /\ e.kwargs # <<>> -> "CALL_FUNCTION_VAR_KW"
                  [] e.star # <<>> /\ e.kwargs = <<>> -> "CALL_FUNCTION_VAR"
                  [] e.star = <<>> /\ e.kwargs # <<>> -> "CALL_FUNCTION_KW"
                  [] OTHER -> "CALL_FUNCTION"
    IN IF ~IsInjective(keys) THEN SyntaxError
       ELSE Codes(e.parts, "Load")
            \o FlattenSeq([i \in DOMAIN keys |-> LoadConst(String(keys[i])) \o Code(e.keys[i][2], "Load")])
            \o Codes(e.star \o e.kwargs, "Load")
            \o <<I(op, Len(e.parts) - 1 + Len(keys) * Base)>>

\* The clauses of a comprehension from the k-th on: the first gets its iterator,
\* the others make theirs.
AddOf == [list |-> "LIST_APPEND", set |-> "SET_ADD", dict |-> "MAP_ADD"]
Generator(e, k, n) ==
    LET clause == e.clauses[k]
        iter   == IF k = 1 THEN <<I("LOAD_ARGUMENT", 0)>>
                  ELSE Code(clause.iter, "Load") \o <<I("GET_ITER", 0)>>
        target == Code(clause.target, "Store")
        body   == IF k < n THEN Generator(e, k + 1, n)
                  ELSE Codes(Reverse(e.parts), "Load") \o <<I(AddOf[e.kind], k + 1)>>
        ifs    == [i \in DOMAIN clause.ifs |-> Code(clause.ifs[i], "Load")]
        \* what lies between the start and the end of the i-th condition
        Back(i) == -(1 + Len(target) + Len(FlattenSeq(SubSeq(ifs, 1, i))) + i)
        tests  == FlattenSeq([i \in DOMAIN ifs |->
                                 Append(ifs[i], I("POP_JUMP_IF_FALSE", Back(i)))])
        all    == target \o tests \o body
    IN iter \o <<I("FOR_ITER", Len(all) + 1)>> \o all \o <<I("JUMP_ABSOLUTE", -(Len(all) + 2))>>

Comprehension(e) ==
    Code(e.clauses[1].iter, "Load")
    \o <<I("GET_ITER", 0),
         [op |-> "COMPREHENSION", kind |-> e.kind, code |-> Generator(e, 1, Len(e.clauses))]>>

Code(e, ctx) ==
    LET Load(es) == Codes(es, "Load")
    IN CASE e.is = "atom"      -> <<[op |-> "EVAL", of |-> e]>>
         [] e.is = "const"     -> LoadConst(Const(NoneName))
         [] e.is = "name"      -> NameOp(e.name, ctx)
         [] e.is = "starred"   -> SyntaxError
         [] e.is = "and"       -> Joined([i \in DOMAIN e.parts |-> Load(<<e.parts[i]>>)],
                                         "JUMP_IF_FALSE_OR_POP", 0)
         [] e.is = "or"        -> Joined([i \in DOMAIN e.parts |-> Load(<<e.parts[i]>>)],
                                         "JUMP_IF_TRUE_OR_POP", 0)
         [] e.is = "unary"     -> Load(e.parts) \o <<I("UNARY", 1)>>
         [] e.is = "binary"    -> Load(e.parts) \o <<I("BINARY", 2)>>
         [] e.is = "compare"   -> Compare(e)
         [] e.is = "if"        -> IfExp(e)
         [] e.is = "dict"      -> Dict(e)
         [] e.is = "call"      -> CallHelper(e)
         [] e.is = "comp"      -> Comprehension(e)
         [] e.is \in {"tuple", "list"} -> TupleOrList(e, ctx)
         [] e.is \in {"set", "slice", "dims"} -> Load(e.parts) \o <<I(BuildOf[e.is], Len(e.parts))>>
         [] e.is = "attribute" -> (IF ctx = "AugStore" THEN <<>> ELSE Load(e.parts)) \o Attribute(ctx)
         [] e.is = "subscript" -> (IF ctx = "AugStore" THEN <<>> ELSE Load(e.parts)) \o Subscript(ctx)

Assign(s) ==
    Code(s.value, "Load") \o
    FlattenSeq([i \in DOMAIN s.targets |->
                  (IF i = Len(s.targets) THEN <<>> ELSE <<I("DUP_TOP", 0)>>)
                  \o Code(s.targets[i], "Store")])
AugAssign(s) ==
    Code(s.targets[1], "AugLoad") \o Code(s.value, "Load") \o <<I("INPLACE", 2)>>
    \o Code(s.targets[1], "AugStore")
AssertStmt(s) ==
    LET message == Codes(s.targets, "Load")
        called  == IF message = <<>> THEN <<>> ELSE message \o <<I("CALL_FUNCTION", 1)>>
    IN Code(s.value, "Load") \o <<I("POP_JUMP_IF_TRUE", Len(called) + 2)>>
       \o LoadConst(Const(ErrorName)) \o called \o <<I("RAISE_VARARGS", 1)>>
Stmt(s) ==
    CASE s.do = "assign" -> Assign(s)
      [] s.do = "aug"    -> AugAssign(s)
      [] s.do = "del"    -> Codes(s.targets, "Del")
      [] s.do = "assert" -> AssertStmt(s)
      [] s.do = "expr"   -> Code(s.value, "Load") \o <<I("POP_TOP", 0)>>

-------------------------------------------------------------------------------
(* Running.  The machine has its place in the code, its stack with the top     *)
(* last, the iterator a comprehension is called with, and what both machine    *)
(* and meaning have: the names, the log, and the exception raised, if any.     *)

Start(env) == [pc |-> 1, stack |-> <<>>, argument |-> NoneName, env |-> env, log |-> <<>>,
               raised |-> "no"]

Raise(s, kind) == [s EXCEPT !.raised = kind]
Push(s, v)     == [s EXCEPT !.stack = Append(@, v)]
DropN(s, k)    == [s EXCEPT !.stack = SubSeq(@, 1, Len(@) - k)]
TopN(s, k)     == SubSeq(s.stack, Len(s.stack) - k + 1, Len(s.stack))
Top(s)         == Last(s.stack)
Peek(s, k)     == s.stack[Len(s.stack) - k + 1]
Jump(s, k)     == [s EXCEPT !.pc = @ + k]
Log(s, did)    == [s EXCEPT !.log = Append(@, did)]
Bind(env, x, v) == [y \in DOMAIN env \cup {x} |-> IF y = x THEN v ELSE env[y]]
Without(env, names) == [y \in DOMAIN env \ names |-> env[y]]
Unbind(env, x)  == Without(env, {x})

\* An operation asks user code about the values on top, and has an answer.
Operate(s, op, k) == Push(Log(DropN(s, k), Did(op, TopN(s, k))), Term(op, TopN(s, k)))

\* The items taken by before names, a starred one where there is one, and after
\* names.  An iterable that fails has ended, but while the rest is listed.
UnpackIterable(v, before, starred, after) ==
    LET of == Items(v)
        n  == Len(of)
    IN IF ~Iterates(v) THEN [error |-> "TypeError", items |-> <<>>]
       ELSE IF n < before THEN [error |-> "ValueError", items |-> <<>>]
       ELSE IF ~starred THEN [error |-> IF n > before THEN "ValueError" ELSE "no", items |-> of]
       ELSE IF v.fails THEN [error |-> "error", items |-> <<>>]
       ELSE IF n < before + after THEN [error |-> "ValueError", items |-> <<>>]
       ELSE [error |-> "no",
             items |-> SubSeq(of, 1, before)
                       \o <<Term("list", SubSeq(of, before + 1, n - after))>>
                       \o SubSeq(of, n - after + 1, n)]
UnpackEx(s, before, starred, after) ==
    LET u == UnpackIterable(Top(s), before, starred, after)
    IN IF u.error # "no" THEN Raise(s, u.error)
       ELSE [DropN(s, 1) EXCEPT !.stack = @ \o Reverse(u.items)]

BuildAs == [BUILD_TUPLE |-> "tuple", BUILD_LIST |-> "list", BUILD_SET |-> "set",
            BUILD_SLICE |-> "slice"]
Build(s, made, k) ==
    IF Refusal(made, TopN(s, k)) # "no" THEN Raise(s, Refusal(made, TopN(s, k)))
    ELSE Push(DropN(s, k), Term(made, TopN(s, k)))
\* Adds values to the collection at depth k below them.
AddTo(s, values, k) ==
    LET t     == DropN(s, Len(values))
        at    == Len(t.stack) - k + 1
        error == Refusal(t.stack[at].made, values)
    IN IF error # "no" THEN Raise(t, error)
       ELSE [t EXCEPT !.stack[at] = Term(@.made, @.of \o values)]

\* Arguments by name: from pairs on the stack, and from a dictionary.
Call(s, argc, star, kwargs) ==
    LET nargs   == argc % Base
        nkwargs == (argc \div Base) % Base
        pairs   == TopN(s, 2 * nkwargs)
        rest    == DropN(s, 2 * nkwargs)
        args    == TopN(rest, nargs)
        fn      == Peek(rest, nargs + 1)
        given   == {<<pairs[2 * i - 1].n, pairs[2 * i]>> : i \in 1 .. nkwargs}
        more    == UNION {Entries(v) : v \in ToSet(kwargs)}
        kw      == given \cup more
        all     == <<fn>> \o args \o FlattenSeq([i \in DOMAIN star |-> Items(star[i])])
    IN IF \E i \in 1 .. nkwargs : pairs[2 * i - 1].made # "string" THEN Raise(s, "TypeError")
       ELSE IF \E v \in ToSet(kwargs) : v.made # "dict" THEN Raise(s, "SystemError")
       ELSE IF \E a \in given, b \in more : a[1] = b[1] THEN Raise(s, "TypeError")
       ELSE IF \E v \in ToSet(star) : ~Iterates(v) THEN Raise(s, "TypeError")
       ELSE IF \E v \in ToSet(star) : v.fails THEN Raise(s, "error")
       ELSE Push(Log(DropN(rest, nargs + 1), [op |-> "CALL", of |-> all, kw |-> kw]),
                 Term("call", all))

\* FOR_ITER takes an iterator that fails for one that has ended.
ForIter(s, over) ==
    LET it == Top(s)
    IN IF it.of = <<>> THEN Jump(DropN(s, 1), over)
       ELSE Push(Push(DropN(s, 1), [it EXCEPT !.of = Tail(@)]), Head(it.of))

RECURSIVE Run(_, _)
\* A comprehension runs in a frame of its own.  The names its code stores to are
\* fast locals of that frame, unset at first, whatever they are outside; the code
\* within it in another frame has its own.
StoredNames(code) == {code[i].arg : i \in {j \in DOMAIN code : code[j].op = "STORE_NAME"}}
Called(s, i) ==
    LET own == Run(i.code, [s EXCEPT !.pc = 1, !.stack = <<Term(i.kind, <<>>)>>,
                                     !.argument = Top(s),
                                     !.env = Without(@, StoredNames(i.code))])
    IN Push([DropN(s, 1) EXCEPT !.log = own.log, !.raised = own.raised], Last(own.stack))

Step(s, i) ==
    LET t == Top(s)
        two == TopN(s, 2) three == TopN(s, 3)
        Asks == {"UNARY", "BINARY", "INPLACE", "COMPARE_OP", "BINARY_SUBSCR", "LOAD_ATTR"}
        Tells == {"STORE_SUBSCR", "DELETE_SUBSCR", "STORE_ATTR", "DELETE_ATTR"}
        bytes == <<i.arg % Base, i.arg \div Base>>
    IN CASE i.op = "EVAL" ->
              LET asked == Log(s, Did("EVAL", <<i.of.value>>))
              IN IF i.of.raises THEN Raise(asked, "error") ELSE Push(asked, i.of.value)
         [] i.op = "LOAD_CONST"    -> Push(s, i.value)
         [] i.op = "LOAD_ARGUMENT" -> Push(s, s.argument)
         [] i.op = "LOAD_NAME"     -> IF i.arg \in DOMAIN s.env THEN Push(s, s.env[i.arg])
                                      ELSE Raise(s, "NameError")
         [] i.op = "STORE_NAME"    -> [DropN(s, 1) EXCEPT !.env = Bind(@, i.arg, t)]
         [] i.op = "DELETE_NAME"   -> IF i.arg \in DOMAIN s.env
                                      THEN [s EXCEPT !.env = Unbind(@, i.arg)]
                                      ELSE Raise(s, "NameError")
         [] i.op \in Asks          -> Operate(s, i.op, i.arg)
         [] i.op \in Tells         -> Log(DropN(s, i.arg), Did(i.op, TopN(s, i.arg)))
         [] i.op \in DOMAIN BuildAs -> Build(s, BuildAs[i.op], i.arg)
         [] i.op = "BUILD_MAP"     -> Push(s, Term("dict", <<>>))
         [] i.op = "STORE_MAP"     -> AddTo(s, two, 1)
         [] i.op \in {"LIST_APPEND", "SET_ADD"} -> AddTo(s, <<t>>, i.arg)
         [] i.op = "MAP_ADD"       -> AddTo(s, two, i.arg)
         [] i.op = "POP_TOP"       -> DropN(s, 1)
         [] i.op = "DUP_TOP"       -> Push(s, t)
         [] i.op = "DUP_TOP_TWO"   -> [s EXCEPT !.stack = @ \o two]
         [] i.op = "ROT_TWO"       -> [DropN(s, 2) EXCEPT !.stack = @ \o <<two[2], two[1]>>]
         [] i.op = "ROT_THREE"     -> [DropN(s, 3) EXCEPT !.stack = @ \o <<three[3], three[1], three[2]>>]
         [] i.op \in {"JUMP_FORWARD", "JUMP_ABSOLUTE"} -> Jump(s, i.arg)
         [] i.op = "POP_JUMP_IF_TRUE"  -> IF t.true THEN Jump(DropN(s, 1), i.arg) ELSE DropN(s, 1)
         [] i.op = "POP_JUMP_IF_FALSE" -> IF t.true THEN DropN(s, 1) ELSE Jump(DropN(s, 1), i.arg)
         [] i.op = "JUMP_IF_TRUE_OR_POP"  -> IF t.true THEN Jump(s, i.arg) ELSE DropN(s, 1)
         [] i.op = "JUMP_IF_FALSE_OR_POP" -> IF t.true THEN DropN(s, 1) ELSE Jump(s, i.arg)
         [] i.op = "UNPACK_SEQUENCE" -> UnpackEx(s, i.arg, FALSE, 0)
         [] i.op = "UNPACK_EX"       -> UnpackEx(s, bytes[1], TRUE, bytes[2])
         [] i.op = "GET_ITER"      -> IF Iterates(t) THEN Push(DropN(s, 1), Iterator(t))
                                      ELSE Raise(s, "TypeError")
         [] i.op = "FOR_ITER"      -> ForIter(s, i.arg)
         [] i.op = "COMPREHENSION" -> Called(s, i)
         [] i.op = "CALL_FUNCTION" -> Call(s, i.arg, <<>>, <<>>)
         [] i.op = "CALL_FUNCTION_VAR" -> Call(DropN(s, 1), i.arg, <<t>>, <<>>)
         [] i.op = "CALL_FUNCTION_KW"  -> Call(DropN(s, 1), i.arg, <<>>, <<t>>)
         [] i.op = "CALL_FUNCTION_VAR_KW" -> Call(DropN(s, 2), i.arg, <<two[1]>>, <<t>>)
         [] i.op = "RAISE_VARARGS" -> Raise(Log(s, Did("RAISE", <<t>>)), "AssertionError")

Run(code, s) ==
    IF s.raised # "no" \/ s.pc > Len(code) THEN s
    ELSE Run(code, Step([s EXCEPT !.pc = @ + 1], code[s.pc]))

RECURSIVE Refused(_)
Refused(code) == \E i \in DOMAIN code :
    code[i].op = "SyntaxError" \/ (code[i].op = "COMPREHENSION" /\ Refused(code[i].code))

-------------------------------------------------------------------------------
(* What it means.  r has the names, the log and the exception, the value v of  *)
(* the last expression and vs of the last list of them, and what a             *)
(* comprehension has collected.                                                *)

Meant(env) == [env |-> env, log |-> <<>>, raised |-> "no", v |-> Const(NoneName), vs |-> <<>>,
               collected |-> <<>>]
Fine(r)        == r.raised = "no"
Ask(r, op, of) == IF Fine(r) THEN [Log(r, Did(op, of)) EXCEPT !.v = Term(op, of)] ELSE r
Tell(r, op, of) == IF Fine(r) THEN Log(r, Did(op, of)) ELSE r

Starred(e) == {i \in DOMAIN e.parts : e.parts[i].is = "starred"}
Inside(e) ==
    CASE e.is \in {"atom", "const", "name"} -> {}
      [] e.is = "call" -> ToSet(e.parts \o e.star \o e.kwargs) \cup {k[2] : k \in ToSet(e.keys)}
      [] e.is = "comp" -> ToSet(e.parts)
                          \cup UNION {{c.iter} \cup ToSet(c.ifs) : c \in ToSet(e.clauses)}
      [] OTHER -> ToSet(e.parts)

\* One starred target among others in a list of them, and keywords once each.
RECURSIVE Legal(_, _), Encodable(_)
Legal(e, ctx) ==
    LET list == e.is \in {"tuple", "list"} /\ ctx = "Store"
    IN /\ e.is # "starred"
       /\ e.is = "call" => IsInjective([i \in DOMAIN e.keys |-> e.keys[i][1]])
       /\ IF list
          THEN /\ Cardinality(Starred(e)) <= 1
               /\ \A i \in Starred(e) : i <= Base /\ Legal(e.parts[i].parts[1], ctx)
               /\ \A i \in DOMAIN e.parts \ Starred(e) : Legal(e.parts[i], ctx)
          ELSE \A x \in Inside(e) : Legal(x, "Load")
\* A byte holds the number of arguments of every call, and of keywords.
Encodable(e) ==
    /\ e.is = "call" => Len(e.parts) - 1 <= MaxByte /\ Len(e.keys) <= MaxByte
    /\ \A x \in Inside(e) : Encodable(x)

RECURSIVE Eval(_, _), Set(_, _, _)
EvalAll(es, r) ==
    LET Next(q, e) == LET x == Eval(e, q)
                      IN IF Fine(x) THEN [x EXCEPT !.vs = Append(q.vs, x.v)] ELSE x
    IN FoldLeft(Next, [r EXCEPT !.vs = <<>>], es)
Made(r, made) == [r EXCEPT !.v = Term(made, r.vs)]

\* a < b < c is a < b and then, when it is true, b < c.
RECURSIVE Chain(_, _, _)
Chain(v, rest, r) ==
    LET x == Eval(rest[1], r) c == Ask(x, "COMPARE_OP", <<v, x.v>>)
    IN IF ~Fine(c) \/ Len(rest) = 1 \/ ~c.v.true THEN c ELSE Chain(x.v, Tail(rest), c)

Calls(e, r) ==
    LET x      == EvalAll(e.parts \o [i \in DOMAIN e.keys |-> e.keys[i][2]] \o e.star \o e.kwargs, r)
        n      == Len(e.parts)
        k      == Len(e.keys)
        given  == {<<e.keys[i][1], x.vs[n + i]>> : i \in 1 .. k}
        named  == e.kwargs # <<>>
        listed == e.star # <<>>
        star   == x.vs[n + k + 1]
        more   == IF named THEN Entries(Last(x.vs)) ELSE {}
        all    == SubSeq(x.vs, 1, n) \o IF listed THEN Items(star) ELSE <<>>
    IN IF ~Fine(x) THEN x
       ELSE IF named /\ Last(x.vs).made # "dict" THEN Raise(x, "SystemError")
       ELSE IF \/ \E a \in given, b \in more : a[1] = b[1]
               \/ listed /\ ~Iterates(star) THEN Raise(x, "TypeError")
       ELSE IF listed /\ star.fails THEN Raise(x, "error")
       ELSE [Log(x, [op |-> "CALL", of |-> all, kw |-> given \cup more]) EXCEPT !.v = Term("call", all)]

\* {key: value, ...} evaluates and enters one pair at a time.
Entered(e, r) ==
    LET Enter(d, i) ==
            LET x == EvalAll(<<e.parts[2 * i], e.parts[2 * i - 1]>>, d.r)
            IN IF ~Fine(x) THEN [d EXCEPT !.r = x]
               ELSE [r |-> Raise(x, Refusal("dict", x.vs)), of |-> d.of \o x.vs]
        all == FoldLeft(Enter, [r |-> r, of |-> <<>>], [i \in 1 .. Len(e.parts) \div 2 |-> i])
    IN [all.r EXCEPT !.v = Term("dict", all.of)]

\* The names a target binds.
RECURSIVE Bound(_)
Bound(t) == CASE t.is = "name" -> {t.name}
              [] t.is \in {"tuple", "list", "starred"} -> UNION {Bound(p) : p \in ToSet(t.parts)}
              [] OTHER -> {}

\* The items of the k-th clause and of those within it, one by one.
RECURSIVE Loop(_, _, _, _), Holds(_, _)
Holds(ifs, r) ==
    IF ifs = <<>> THEN [r EXCEPT !.v = Leaf(0)]
    ELSE LET x == Eval(ifs[1], r)
         IN IF Fine(x) /\ x.v.true THEN Holds(Tail(ifs), x) ELSE x
Loop(e, k, over, r) ==
    LET Visit(q, item) ==
            LET ok    == Holds(e.clauses[k].ifs, Set(e.clauses[k].target, item, q))
                inner == Eval(e.clauses[k + 1].iter, ok)
                taken == EvalAll(Reverse(e.parts), ok)
            IN CASE ~Fine(q) -> q
                 [] Fine(q) /\ (~Fine(ok) \/ ~ok.v.true) -> ok
                 [] Fine(q) /\ Fine(ok) /\ ok.v.true /\ k < Len(e.clauses) ->
                      Loop(e, k + 1, inner.v, inner)
                 [] Fine(q) /\ Fine(ok) /\ ok.v.true /\ k = Len(e.clauses) ->
                      IF Fine(taken) THEN [Raise(taken, Refusal(e.kind, taken.vs)) EXCEPT !.collected = @ \o taken.vs]
                      ELSE taken
    IN IF ~Fine(r) THEN r
       ELSE IF ~Iterates(over) THEN Raise(r, "TypeError")
       ELSE FoldLeft(Visit, r, Items(over))
\* Only the first iterable is evaluated outside.  A name that the targets bind is
\* the comprehension's own everywhere else in it, before it is bound too.
Collected(e, r) ==
    LET x   == Eval(e.clauses[1].iter, r)
        own == UNION {Bound(c.target) : c \in ToSet(e.clauses)}
        ran == Loop(e, 1, x.v, [x EXCEPT !.collected = <<>>, !.env = Without(@, own)])
    IN IF ~Fine(x) THEN x
       ELSE [ran EXCEPT !.env = x.env, !.collected = r.collected, !.v = Term(e.kind, ran.collected)]

Eval(e, r) ==
    LET first == Eval(e.parts[1], r)
        all   == EvalAll(e.parts, r)
        Asks  == [unary |-> "UNARY", binary |-> "BINARY", attribute |-> "LOAD_ATTR",
                  subscript |-> "BINARY_SUBSCR"]
    IN CASE ~Fine(r) -> r
         [] Fine(r) /\ e.is = "atom"  ->
              LET a == [Log(r, Did("EVAL", <<e.value>>)) EXCEPT !.v = e.value]
              IN IF e.raises THEN Raise(a, "error") ELSE a
         [] Fine(r) /\ e.is = "const" -> [r EXCEPT !.v = Const(NoneName)]
         [] Fine(r) /\ e.is = "name"  -> IF e.name \in DOMAIN r.env THEN [r EXCEPT !.v = r.env[e.name]]
                                         ELSE Raise(r, "NameError")
         [] Fine(r) /\ e.is \in {"and", "or"} ->
              IF ~Fine(first) \/ Len(e.parts) = 1 \/ first.v.true = (e.is = "or") THEN first
              ELSE Eval([e EXCEPT !.parts = Tail(@)], first)
         [] Fine(r) /\ e.is = "if"    -> IF ~Fine(first) THEN first
                                         ELSE Eval(e.parts[IF first.v.true THEN 2 ELSE 3], first)
         [] Fine(r) /\ e.is = "compare" ->
              IF Fine(first) THEN Chain(first.v, Tail(e.parts), first) ELSE first
         [] Fine(r) /\ e.is \in DOMAIN Asks -> Ask(all, Asks[e.is], all.vs)
         [] Fine(r) /\ e.is \in {"tuple", "list", "slice"} -> Made(all, e.is)
         [] Fine(r) /\ e.is = "set"   -> IF Fine(all) THEN Made(Raise(all, Refusal("set", all.vs)), "set")
                                         ELSE all
         [] Fine(r) /\ e.is = "dims"  -> Made(all, "tuple")
         [] Fine(r) /\ e.is = "dict"  -> Entered(e, r)
         [] Fine(r) /\ e.is = "call"  -> Calls(e, r)
         [] Fine(r) /\ e.is = "comp"  -> Collected(e, r)

\* Assigning v to a target: a list of targets takes as many items as it has.
Set(t, v, r) ==
    LET all  == EvalAll(t.parts, r)
        n    == Len(t.parts)
        star == IF Starred(t) = {} THEN 0 ELSE Min(Starred(t))
        of   == Items(v)
        rest == Len(of) - (n - 1)
        Item(i) == CASE star = 0 \/ i < star -> of[i]
                     [] star > 0 /\ i = star -> Term("list", SubSeq(of, i, i + rest - 1))
                     [] star > 0 /\ i > star -> of[i + rest - 1]
        Target(i) == IF i = star THEN t.parts[i].parts[1] ELSE t.parts[i]
        Give(q, i) == Set(Target(i), Item(i), q)
    IN CASE ~Fine(r) -> r
         [] Fine(r) /\ t.is = "name"      -> [r EXCEPT !.env = Bind(@, t.name, v)]
         [] Fine(r) /\ t.is = "attribute" -> Tell(all, "STORE_ATTR", <<v>> \o all.vs)
         [] Fine(r) /\ t.is = "subscript" -> Tell(all, "STORE_SUBSCR", <<v>> \o all.vs)
         [] Fine(r) /\ t.is \in {"tuple", "list"} ->
              IF ~Iterates(v) THEN Raise(r, "TypeError")
              ELSE IF star > 0 /\ v.fails /\ Len(of) >= star - 1 THEN Raise(r, "error")
              ELSE IF rest < 0 \/ (star = 0 /\ rest # 1) THEN Raise(r, "ValueError")
              ELSE FoldLeft(Give, r, [i \in 1 .. n |-> i])

Change(t, value, r) ==
    LET all == EvalAll(t.parts, r)
        at  == all.vs
        old == IF t.is = "name" THEN Eval(t, r)
               ELSE IF t.is = "attribute" THEN Ask(all, "LOAD_ATTR", at)
               ELSE Ask(all, "BINARY_SUBSCR", at)
        new == Eval(value, old)
        did == Ask(new, "INPLACE", <<old.v, new.v>>)
    IN IF t.is = "name" THEN Set(t, did.v, did)
       ELSE IF t.is = "attribute" THEN Tell(did, "STORE_ATTR", <<did.v>> \o at)
       ELSE Tell(did, "STORE_SUBSCR", <<did.v>> \o at)

RECURSIVE Delete(_, _)
Delete(r, t) ==
    LET all == EvalAll(t.parts, r)
    IN CASE ~Fine(r) -> r
         [] Fine(r) /\ t.is = "name" -> IF t.name \in DOMAIN r.env
                                        THEN [r EXCEPT !.env = Unbind(@, t.name)]
                                        ELSE Raise(r, "NameError")
         [] Fine(r) /\ t.is = "attribute" -> Tell(all, "DELETE_ATTR", all.vs)
         [] Fine(r) /\ t.is = "subscript" -> Tell(all, "DELETE_SUBSCR", all.vs)
         [] Fine(r) /\ t.is \in {"tuple", "list"} -> FoldLeft(Delete, r, t.parts)

Meaning(s, env) ==
    LET x       == Eval(s.value, Meant(env))
        Give(q, t) == Set(t, x.v, q)
        error   == Const(ErrorName)
        message == EvalAll(s.targets, x)
        called  == IF message.vs = <<>> THEN message
                   ELSE Ask(message, "CALL", <<error>> \o message.vs)
        thrown  == IF message.vs = <<>> THEN error ELSE Term("call", <<error>> \o message.vs)
    IN CASE s.do = "expr"   -> x
         [] s.do = "assign" -> FoldLeft(Give, x, s.targets)
         [] s.do = "aug"    -> Change(s.targets[1], s.value, Meant(env))
         [] s.do = "del"    -> FoldLeft(Delete, Meant(env), s.targets)
         [] s.do = "assert" ->
              IF Fine(x) /\ ~x.v.true
              THEN IF Fine(called) THEN Raise(Log(called, Did("RAISE", <<thrown>>)), "AssertionError")
                   ELSE called
              ELSE x

\* Running what was compiled asks of user code what the language says, in the
\* order it says, and gives, binds and raises the same; and it leaves nothing on
\* the stack.  Two things are as the code has them: an iterable that fails while
\* it is unpacked or looped over has ended, unless its rest is being listed; and
\* a call with more arguments than a byte holds is not what it was.
MeansAsWritten(s, env) ==
    LET code  == Stmt(s)
        ran   == Run(code, Start(env))
        meant == Meaning(s, env)
        ctx   == IF s.do = "assign" THEN "Store" ELSE "Load"
        legal == Legal(s.value, "Load") /\ \A t \in ToSet(s.targets) : Legal(t, ctx)
        exprs == {s.value} \cup ToSet(s.targets)
    IN /\ Refused(code) = ~legal
       /\ legal /\ (\A e \in exprs : Encodable(e)) =>
             /\ ran.log = meant.log /\ ran.raised = meant.raised /\ ran.env = meant.env
             /\ ran.raised = "no" => ran.stack = <<>>
===============================================================================
