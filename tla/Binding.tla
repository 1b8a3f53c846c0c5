-------------------------------- MODULE Binding --------------------------------
(***************************************************************************)
(* How the arguments of a call reach the parameters: of a function of the  *)
(* language (EvalCode in vm/eval.go), of a builtin (ParseTupleAndKeywords  *)
(* and UnpackTuple in py/args.go), and through a method.                   *)
(*                                                                         *)
(* Keyword arguments are a function from names to objects.  A refusal is a *)
(* TypeError; which of several reasons it names depends on the order of a  *)
(* Go map and is left out.                                                 *)
(***************************************************************************)
EXTENDS Ranges

LOCAL INSTANCE SequencesExt
LOCAL INSTANCE FiniteSetsExt

Nil == [type |-> "nil"]

Lesser(a, b) == IF a < b THEN a ELSE b

-------------------------------------------------------------------------------
(* Functions.  code: the names of its positional and keyword-only parameters, *)
(* whether it has *args and **kwargs, and the parameters its cells capture.   *)

Parameters(code) == code.positional \o code.kwonly

\* Positional arguments fill the first parameters.
Placed(code, args) ==
    [j \in 1 .. Len(Parameters(code)) |->
        IF j <= Len(code.positional) /\ j <= Len(args) THEN args[j] ELSE Nil]

\* Keyword arguments fill the parameters of their names, unless they are filled.
Unexpected(code, kws) ==
    IF code.varkw THEN {} ELSE {k \in DOMAIN kws : ~Contains(Parameters(code), k)}

\* A changed Twice: a keyword takes the place of a positional argument.
TwiceAllowed(code, locals, kws) == {}
Twice(code, locals, kws) ==
    {j \in DOMAIN locals : locals[j] # Nil /\ Parameters(code)[j] \in DOMAIN kws}

Named(code, locals, kws) ==
    [j \in DOMAIN locals |->
        IF Parameters(code)[j] \in DOMAIN kws THEN kws[Parameters(code)[j]] ELSE locals[j]]

\* The last positional parameters have defaults, counted from the end; without
\* one a parameter that is not filled is missing.
WithoutDefault(code, defs) == Len(code.positional) - Len(defs)

MissingPositional(code, args, locals, defs) ==
    {j \in Len(args) + 1 .. WithoutDefault(code, defs) : locals[j] = Nil}

Defaulted(code, args, locals, defs) ==
    LET m == WithoutDefault(code, defs)
    IN IF Len(args) >= Len(code.positional) THEN locals
       ELSE [j \in DOMAIN locals |->
                IF locals[j] = Nil /\ j > m /\ j <= Len(code.positional) THEN defs[j - m]
                                                                         ELSE locals[j]]

MissingKwOnly(code, locals, kwdefs) ==
    {j \in Len(code.positional) + 1 .. Len(Parameters(code)) :
        locals[j] = Nil /\ Parameters(code)[j] \notin DOMAIN kwdefs}

KwDefaulted(code, locals, kwdefs) ==
    [j \in DOMAIN locals |->
        IF locals[j] = Nil /\ j > Len(code.positional) THEN kwdefs[Parameters(code)[j]]
                                                       ELSE locals[j]]

\* A captured parameter moves from its local variable into a cell.
Captured(code, locals) ==
    [cells  |-> [c \in DOMAIN code.cell2arg |->
                    IF code.cell2arg[c] = 0 THEN Nil ELSE locals[code.cell2arg[c]]],
     locals |-> [j \in DOMAIN locals |->
                    IF Contains(code.cell2arg, j) THEN Nil ELSE locals[j]]]

BindArguments(code, args, kws, defs, kwdefs) ==
    LET placed   == Placed(code, args)
        named    == Named(code, placed, kws)
        full     == Defaulted(code, args, named, defs)
        excess   == SubSeq(args, Lesser(Len(args), Len(code.positional)) + 1, Len(args))
        captured == Captured(code, KwDefaulted(code, full, kwdefs))
    IN IF \/ Unexpected(code, kws) # {}
          \/ Twice(code, placed, kws) # {}
          \/ excess # <<>> /\ ~code.varargs
          \/ MissingPositional(code, args, named, defs) # {}
          \/ MissingKwOnly(code, full, kwdefs) # {}
       THEN TypeError
       ELSE [type |-> "bound", locals |-> captured.locals, cells |-> captured.cells,
             varargs |-> IF code.varargs THEN excess ELSE <<>>,
             varkw |-> IF code.varkw THEN DOMAIN kws \ ToSet(Parameters(code)) ELSE {}]

-------------------------------------------------------------------------------
(* Builtins.  A format is the codes of its parameters with their modifiers,    *)
(* and the marks "|" before the optional and "$" before the keyword-only ones. *)

ParseFormat(format) ==
    LET Codes(s) == SelectSeq(s, LAMBDA op : op.code \notin {"|", "$"})
        Mark(c) == SelectInSeq(format, LAMBDA op : op.code = c)
        Before(p) == Len(Codes(SubSeq(format, 1, p - 1)))
    IN [ops    |-> Codes(format),
        min    |-> IF Mark("|") = 0 THEN Len(Codes(format)) ELSE Before(Mark("|")),
        kwOnly |-> IF Mark("$") = 0 THEN 65535 ELSE Before(Mark("$"))]

CheckNumberOfArgs(nargs, nresults, min, max) ==
    /\ IF min = max THEN nargs = max ELSE nargs <= max /\ nargs >= min
    /\ nargs <= nresults

\* Which arguments a code lets through: "i" an Int and neither a Bool nor a
\* BigInt, "Z*" none.
Accepts(op, arg) ==
    CASE op.code = "O" -> TRUE
      [] op.code = "Z" -> op.modifier # "*" /\ arg.type \in {"str", "None"}
      [] op.code = "z" -> arg.type \in {"str", "None"} \cup (IF op.modifier = "" THEN {} ELSE {"bytes"})
      [] op.code = "U" -> arg.type = "str"
      [] op.code = "s" -> arg.type \in {"str"} \cup (IF op.modifier = "" THEN {} ELSE {"bytes"})
      [] op.code = "y" -> arg.type = "bytes"
      [] op.code \in {"i", "n"} -> arg.type = "int"
      [] op.code = "p" -> arg.type = "bool"
      [] op.code = "d" -> arg.type \in {"int", "float"}
      [] OTHER -> FALSE

Converted(op, arg) == IF op.code = "d" THEN [type |-> "float", num |-> arg.num] ELSE arg

\* Every parameter in turn takes the argument at its place or under its name,
\* and keeps its default when there is neither; a parameter that was required is
\* no exception.
ParseTupleAndKeywords(args, kws, format, kwlist, defaults) ==
    LET f    == ParseFormat(format)
        n    == Len(f.ops)
        Keyword(i) == IF i <= Len(kwlist) /\ kwlist[i] \in DOMAIN kws THEN kws[kwlist[i]] ELSE Nil
        Passed(i)   == IF i <= Len(args) THEN args[i] ELSE Keyword(i)
    IN IF \/ ~CheckNumberOfArgs(Len(args) + Cardinality(DOMAIN kws), Len(defaults), f.min, n)
          \/ ~(DOMAIN kws \subseteq ToSet(kwlist))
          \/ \E i \in 1 .. Lesser(n, Len(args)) : i > f.kwOnly \/ Keyword(i) # Nil
          \/ \E i \in 1 .. n : Passed(i) # Nil /\ ~Accepts(f.ops[i], Passed(i))
       THEN TypeError
       ELSE [type |-> "results",
             values |-> [i \in 1 .. n |->
                            IF Passed(i) = Nil THEN defaults[i] ELSE Converted(f.ops[i], Passed(i))]]

UnpackTuple(args, kws, min, max, defaults) ==
    IF DOMAIN kws # {} \/ ~CheckNumberOfArgs(Len(args), Len(defaults), min, max)
    THEN TypeError
    ELSE [type |-> "results",
          values |-> [i \in DOMAIN defaults |-> IF i <= Len(args) THEN args[i] ELSE defaults[i]]]

-------------------------------------------------------------------------------
(* Methods.  A function or a builtin read from an instance is bound to it, one *)
(* read from the class is not; a classmethod is bound to the class.            *)

BoundMethod(self, callee) == [type |-> "boundmethod", self |-> self, callee |-> callee]

\* What reading callee with __get__ gives: instance is None for a class's own.
Get(callee, instance, owner) ==
    CASE callee.type \in {"function", "method"} ->
           IF instance = NoneObj THEN callee ELSE BoundMethod(instance, callee)
      [] callee.type = "classmethod"  -> BoundMethod(owner, callee.callable)
      [] callee.type = "staticmethod" -> callee.callable
      [] callee.type = "property"     -> IF callee.fget = Nil THEN Exception("AttributeError")
                                         ELSE [type |-> "got", from |-> instance]
      [] OTHER -> callee

\* A builtin takes self apart from its arguments, anything else as the first of
\* them.  A builtin that is not bound has its module for self.
BuiltinCall(method, self, args, kws) ==
    IF \/ DOMAIN kws # {} /\ ~method.keywords
       \/ method.arity \in {0, 1} /\ Len(args) # method.arity
    THEN TypeError
    ELSE [type |-> "called", callee |-> method, self |-> self, args |-> args]

Call(callee, args, kws) ==
    CASE callee.type = "method"   -> BuiltinCall(callee, callee.module, args, kws)
      [] callee.type = "function" -> [type |-> "called", callee |-> callee, self |-> Nil, args |-> args]
      [] callee.type = "boundmethod" /\ callee.callee.type = "method" ->
           BuiltinCall(callee.callee, callee.self, args, kws)
      [] callee.type = "boundmethod" /\ callee.callee.type = "function" ->
           [type |-> "called", callee |-> callee.callee, self |-> Nil,
            args |-> <<callee.self>> \o args]
      [] OTHER -> TypeError

-------------------------------------------------------------------------------
(* What a call should do. *)

\* A parameter of a function gets the argument the language gives it, and the
\* call is refused when some parameter gets none or two, or some argument has no
\* parameter.  No argument is lost: those without a parameter are in *args and
\* **kwargs, and those a cell captures in the cell.
BindingExact(code, args, kws, defs, kwdefs) ==
    LET out   == BindArguments(code, args, kws, defs, kwdefs)
        names == Parameters(code)
        p     == Len(code.positional)
        \* all the values the parameter j could have, in the order of preference
        ByPlace(j) == IF j <= p /\ j <= Len(args) THEN <<args[j]>> ELSE <<>>
        ByName(j)  == IF names[j] \in DOMAIN kws THEN <<kws[names[j]]>> ELSE <<>>
        ByDefault(j) ==
            IF j <= p THEN IF p - j < Len(defs) THEN <<defs[Len(defs) - (p - j)]>> ELSE <<>>
            ELSE IF names[j] \in DOMAIN kwdefs THEN <<kwdefs[names[j]]>> ELSE <<>>
        Value(j) == (ByPlace(j) \o ByName(j) \o ByDefault(j))[1]
        refused == \/ Len(args) > p /\ ~code.varargs
                   \/ ~code.varkw /\ ~(DOMAIN kws \subseteq ToSet(names))
                   \/ \E j \in DOMAIN names :
                          \/ Len(ByPlace(j) \o ByName(j)) = 2
                          \/ ByPlace(j) \o ByName(j) \o ByDefault(j) = <<>>
        Seen(j) == IF Contains(code.cell2arg, j)
                   THEN out.cells[CHOOSE c \in DOMAIN code.cell2arg : code.cell2arg[c] = j]
                   ELSE out.locals[j]
    IN /\ (out = TypeError) <=> refused
       /\ ~refused =>
              /\ \A j \in DOMAIN names : Seen(j) = Value(j)
              /\ Len(args) = Lesser(Len(args), p) + Len(out.varargs)
              /\ \A i \in DOMAIN out.varargs : out.varargs[i] = args[p + i]
              /\ out.varkw = DOMAIN kws \ ToSet(names)

\* A builtin's arguments all arrive, each at one parameter; a required parameter
\* stays without one only when a keyword stands for another, optional one.
ParsingExact(args, kws, format, kwlist, defaults) ==
    LET f   == ParseFormat(format)
        out == ParseTupleAndKeywords(args, kws, format, kwlist, defaults)
        set == {i \in DOMAIN defaults : out.values[i] # Nil}
    IN out # TypeError =>
           /\ Cardinality(set) = Len(args) + Cardinality(DOMAIN kws)
           /\ \A i \in set : i > f.kwOnly => i > Len(args)
           /\ (1 .. f.min) \subseteq set \/ \E i \in f.min + 1 .. Len(kwlist) : kwlist[i] \in DOMAIN kws
           /\ DOMAIN kws = {} => set = 1 .. Len(args)

\* However a method is reached, the object it is read from comes first, once.
MethodCallExact(callee, instance, owner, args, kws) ==
    LET got == Get(callee, instance, owner)
        out == Call(got, args, kws)
    IN /\ callee.type = "function" =>
              out.args = (IF instance = NoneObj THEN args ELSE <<instance>> \o args)
       /\ callee.type = "classmethod" => out.args = <<owner>> \o args
       /\ callee.type = "staticmethod" => out.args = args
       /\ callee.type = "method" /\ out # TypeError =>
              /\ out.args = args
              /\ out.self = IF instance = NoneObj THEN callee.module ELSE instance
===============================================================================
