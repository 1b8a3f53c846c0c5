------------------------------ MODULE MCLanguage ------------------------------
(***************************************************************************)
(* The objects and the algorithms of the language, checked against what    *)
(* they should do over small inputs.  A case is an area and the inputs of  *)
(* its laws, given one after the other so that cases are independent; the  *)
(* machine word has Width = 5 bits, so that every number is a small one.   *)
(***************************************************************************)
EXTENDS Classes

Values == INSTANCE Collections
Lexing == INSTANCE Lexer
Naming == INSTANCE NamesMeaning
Formatting == INSTANCE FStrings

CONSTANT MaxByte
Assembling == INSTANCE Assembler
Expressing == INSTANCE Expressions

LOCAL INSTANCE SequencesExt
LOCAL INSTANCE TLC

VARIABLE case

Case(area, inputs) == [area |-> area, in |-> inputs]
At(area, n) == case.area = area /\ Len(case.in) = n
\* The step gives a case of the area the last of its inputs: the laws are about
\* the cases that steps make.
Is(area) == case'.area = area /\ Len(case'.in) > 1

UpToLen(n, S) == UNION {[1 .. k -> S] : k \in 0 .. n}
PartialMaps(K, V) == UNION {[k -> V] : k \in SUBSET K}

-------------------------------------------------------------------------------
(* Numbers: every machine word, integers beyond it on both sides, some of them *)
(* beyond every float of three bits and an exponent of 7, and a few floats and *)
(* complex numbers.                                                           *)

Ints     == {IntObj(n) : n \in IntRange}
Reals    == Ints \cup {BoolObj(TRUE), BoolObj(FALSE)}
                 \cup {BigObj(n) : n \in ((-40 .. 40) \ IntRange) \cup {0, IntMin, 127, 128, -128, -200}}
                 \cup {FloatObj(n) : n \in (-4 .. 4) \cup {8, -12, 16, 20, 40}}
Complex  == {Values!ComplexObj(n, m) : n, m \in -1 .. 1} \cup {Values!ComplexObj(8, 3)}
Numbers  == Reals \cup Complex
Moduli   == {NoneObj, IntObj(0), IntObj(3), IntObj(-4), BigObj(17)}

CheckNumbers ==
    /\ At("numbers", 1)
    /\ \E b \in Numbers, m \in Moduli :
           /\ m = NoneObj \/ (b.type # "complex" /\ b.num \in -3 .. 4)
           /\ case' = Case("numbers", case.in \o <<b, m>>)

\* Arithmetic on the integer types is exact whatever their sizes, but for the
\* pairs named in NumberMethods, for which it is shown to be wrong; beside a float
\* an integer is the float nearest to it, and the answer is rounded once; division,
\* powers and comparisons of all number types agree with what the objects stand
\* for.
NumbersExact ==
    [][ Is("numbers") =>
            LET a == case'.in[1] b == case'.in[2] m == case'.in[3]
                real == "complex" \notin {a.type, b.type}
            IN /\ m = NoneObj /\ real => Values!OperatorsExact(a, b) /\ Values!DivisionsAgree(a, b)
               /\ m = NoneObj => Values!UnariesExact(a) /\ Values!ConversionExact(a)
                                 /\ Values!ComparisonsNumeric(a, b) /\ Values!ComplexExact(a, b)
               /\ real /\ b.num \in -3 .. 4 => Values!PowersExact(a, b, m) ]_case

-------------------------------------------------------------------------------
(* Ranges and slices: every triple of machine words, and lists of four items. *)

Parts  == {NoneObj, IntObj(IntMin), IntObj(IntMax)} \cup {IntObj(n) : n \in -3 .. 3}
Slices == {Slice(a, b, c) : a, b, c \in Parts}
Items  == UpToLen(4, {IntObj(n) : n \in 10 .. 11})

CheckRanges ==
    /\ At("ranges", 1)
    /\ \E stop, step \in IntRange : case' = Case("ranges", case.in \o <<stop, step>>)

\* range() and its items, length and iterator agree with the language where no
\* sum leaves the machine word.
RangesExact == [][ Is("ranges") => RangeExact(case'.in[1], case'.in[2], case'.in[3]) ]_case

CheckSlices ==
    /\ At("slices", 1)
    /\ \/ \E n \in 0 .. 6 : case' = Case("slices", case.in \o <<IntObj(n)>>)
       \/ \E a, c \in {0, 2}, b \in -1 .. 5 : case' = Case("slices", case.in \o <<RangeObj(a, b, c + 1)>>)
       \/ \E items \in Items : case' = Case("slices", case.in \o <<Values!ListObj(items)>>)

\* A slice chooses the same items everywhere: of a length, of a range, of a list
\* and of a tuple.
SlicesExact ==
    [][ Is("slices") =>
            LET s == case'.in[1] x == case'.in[2]
            IN CASE x.type = "int"   -> SliceExact(s, x.num)
                 [] x.type = "range" -> RangeSliceExact(x, s)
                 [] x.type = "list"  -> Values!ReadingExact(x.items, s) ]_case

-------------------------------------------------------------------------------
(* Lists: what changes them, joins them, compares and sorts them. *)

Sides == {[items |-> i, raises |-> r] : i \in UpToLen(2, {IntObj(20)}) , r \in BOOLEAN}
Mixed == {IntObj(1), IntObj(2), BoolObj(TRUE), Values!ListObj(<<>>)}
Nested == Mixed \cup {Values!ListObj(<<IntObj(1)>>), Values!ListObj(<<BoolObj(TRUE)>>),
                      Values!TupleObj(<<Values!ListObj(<<IntObj(2)>>)>>), [type |-> "function"]}
\* Items with the same key that are not the same, and one that has none.
Sorted == UpToLen(4, Mixed)

CheckWriting ==
    /\ At("writing", 1)
    /\ \E items \in Items, value \in Sides : case' = Case("writing", case.in \o <<items, value>>)

CheckLists ==
    /\ At("lists", 1)
    /\ \/ /\ Len(case.in[1]) <= 2
          /\ \/ \E b \in UpToLen(2, Mixed), n \in Ints : case' = Case("lists", case.in \o <<b, n>>)
             \/ \E b \in UpToLen(2, Nested) : case' = Case("lists", case.in \o <<b, IntObj(2)>>)
       \/ \E k, r \in BOOLEAN : case' = Case("lists", case.in \o <<[keyed |-> k, reverse |-> r]>>)

\* Assigning to and deleting a slice changes just the items it chooses, and
\* nothing when it is refused, but for the cases SequenceObjects names; lists are
\* joined and repeated, compared item by item however deep they nest, and sorted
\* with and without a key and backwards, while comparisons may raise.
ListsExact ==
    [][ /\ Is("writing") => /\ Values!WritingExact(case'.in[2], case'.in[1], case'.in[3])
                            /\ Values!RefusedLeavesAlone(case'.in[2], case'.in[1], case'.in[3])
        /\ Is("lists") =>
              IF Len(case'.in) = 2 THEN Values!SortingExact(case'.in[1], case'.in[2])
              ELSE /\ Values!JoiningExact(case'.in[1], case'.in[2], case'.in[3])
                   /\ Values!EqualityExact(case'.in[1], case'.in[2]) ]_case

-------------------------------------------------------------------------------
(* Strings: of characters of one byte and two, with and without blanks. *)

Texts  == UpToLen(4, {97, 233})
Short  == UpToLen(2, {97, 233})
Blanked == UpToLen(5, {97, 32})

CheckTexts ==
    \/ /\ At("texts", 1)
       /\ \/ \E s \in Slices : case' = Case("texts", case.in \o <<s>>)
          \/ \E b \in Short : case' = Case("texts", case.in \o <<b, "order">>)
          \/ \E sub \in Short, beg, end \in -2 .. 5 : case' = Case("texts", case.in \o <<sub, beg, end>>)
          \/ \E sep, new \in Short, max \in {-2, -1, 0, 1, 2} :
                case' = Case("texts", case.in \o <<sep, max, new, "split">>)
    \/ /\ At("words", 1)
       /\ \E max \in -2 .. 3 : case' = Case("words", case.in \o <<max>>)

\* A string behaves as the sequence of its characters, however many bytes they
\* take: when it is read, compared, searched, split and stripped.
TextsCharacterwise ==
    [][ /\ Is("words") => Values!WordsExact(case'.in[1], case'.in[2])
        /\ Is("texts") =>
              LET x == case'.in[1]
              IN CASE Len(case'.in) = 2 -> Values!CharacterwiseReading(x, case'.in[2])
                   [] Len(case'.in) = 3 -> Values!CharacterwiseOrder(x, case'.in[2])
                   [] Len(case'.in) = 4 -> Values!SearchingExact(x, case'.in[2], case'.in[3], case'.in[4])
                   [] Len(case'.in) = 5 -> Values!SplittingExact(x, case'.in[2], case'.in[3], case'.in[4]) ]_case

-------------------------------------------------------------------------------
(* Sets and dictionaries, in every order of Go's maps. *)

Members == {IntObj(1), BoolObj(TRUE), FloatObj(1), IntObj(2), BoolObj(FALSE),
            Values!StrObj(<<97>>), [type |-> "function"]}
SmallSets == {Values!SetObj(S) : S \in {T \in SUBSET Members : Cardinality(T) <= 3}}
Keys == {<<97>>, <<98>>}
Pairs == {Values!TupleObj(<<Values!StrObj(k), v>>) : k \in Keys, v \in {IntObj(1), NoneObj}}
             \cup {Values!TupleObj(<<IntObj(1), NoneObj>>)}
PairLists == {<<>>} \cup {<<[items |-> p, raises |-> r]>> : p \in UpToLen(3, Pairs), r \in BOOLEAN}
                 \cup {[i \in 1 .. 2 |-> [items |-> <<>>, raises |-> r]] : r \in BOOLEAN}
Dicts(V) == [Keys -> V \cup {Values!NoEntry}]
NoEntries == [k \in Keys |-> Values!NoEntry]

CheckCollections ==
    \/ At("sets", 1) /\ \E b \in SmallSets : case' = Case("sets", case.in \o <<b>>)
    \/ /\ At("dicts", 1)
       /\ \/ \E args \in PairLists : case' = Case("dicts", case.in \o <<args, "made">>)
          \/ \E d \in Dicts(Members) : case' = Case("dicts", case.in \o <<d>>)

\* The answers of sets and dictionaries do not depend on the order Go's maps are
\* walked in, and are those of sets and of functions; pairs enter a
\* dictionary as dict documents it where their keys are strings, and only there.
CollectionsExact ==
    [][ /\ Is("sets") => /\ Values!SetComparisonExact(case'.in[1], case'.in[2])
                         /\ Values!SetAlgebraExact(case'.in[1], case'.in[2])
        /\ Is("dicts") =>
              IF Len(case'.in) = 2 THEN Values!DictComparisonExact(case'.in[1], case'.in[2])
              ELSE /\ Values!DictionaryExact(NoEntries, case'.in[2], case'.in[1])
                   /\ Values!PairsEnterExact(NoEntries, case'.in[2]) ]_case

-------------------------------------------------------------------------------
(* Calls: of functions with up to three positional and two keyword-only       *)
(* parameters, of builtins by their formats, of methods by how they are read. *)

Codes == {[positional |-> p, kwonly |-> k, varargs |-> v, varkw |-> w, cell2arg |-> c] :
             p \in Prefixes(<<"a", "b", "c">>), k \in Prefixes(<<"x", "y">>),
             v \in BOOLEAN, w \in BOOLEAN, c \in {<<>>, <<1, 0>>}}
Arguments == Prefixes(<<IntObj(1), IntObj(2), IntObj(3), IntObj(4)>>)
Keywords  == {[k \in K |-> IntObj(5)] : K \in SUBSET {"a", "c", "x", "z"}}
Defaults  == Prefixes(<<IntObj(6), IntObj(7)>>)
KwDefaults == {[k \in K |-> IntObj(8)] : K \in SUBSET {"x", "y"}}

Op(code, modifier) == [code |-> code, modifier |-> modifier]
Formats == {<<Op("O", "")>>, <<Op("O", ""), Op("O", "")>>,
            <<Op("s", ""), Op("|", ""), Op("O", ""), Op("i", "")>>,
            <<Op("O", ""), Op("|", ""), Op("$", ""), Op("O", ""), Op("O", "")>>,
            <<Op("|", ""), Op("z", "*"), Op("p", "")>>,
            <<Op("d", ""), Op("Z", "*"), Op("y", "#")>>, <<Op("U", ""), Op("q", "")>>}
Passed == {[type |-> t, num |-> 0] : t \in {"str", "bytes", "int", "bool", "float", "None"}}
KwList == <<"k1", "k2", "k3">>

Builtin(arity, keywords) ==
    [type |-> "method", arity |-> arity, keywords |-> keywords, module |-> IntObj(9)]
Callees == {[type |-> "function"], Builtin(0, FALSE), Builtin(1, FALSE), Builtin(2, FALSE),
            Builtin(2, TRUE), [type |-> "classmethod", callable |-> [type |-> "function"]],
            [type |-> "staticmethod", callable |-> [type |-> "function"]]}

CheckCalls ==
    \/ /\ At("functions", 1)
       /\ \E args \in Arguments, kws \in Keywords, defs \in Defaults, kwdefs \in KwDefaults :
              LET code == case.in[1]
              IN /\ Len(defs) <= Len(code.positional)
                 /\ code.cell2arg # <<>> => code.positional # <<>>
                 /\ case' = Case("functions", case.in \o <<args, kws, defs, kwdefs>>)
    \/ /\ At("builtins", 1)
       /\ \E args \in UpToLen(2, Passed), kws \in PartialMaps(ToSet(KwList), {[type |-> "str", num |-> 1]}),
             kwlist \in {<<>>, SubSeq(KwList, 1, Len(ParseFormat(case.in[1]).ops))} :
              case' = Case("builtins", case.in \o <<args, kws, kwlist>>)
    \/ /\ At("methods", 1)
       /\ \E instance \in {NoneObj, IntObj(0)}, args \in Arguments, kws \in Keywords :
              case' = Case("methods", case.in \o <<instance, args, kws>>)

\* A call gives every parameter the argument the language gives it, refuses the
\* calls the language refuses, and loses no argument, whether a function, a
\* builtin or a method is called.
CallsBind ==
    [][ /\ Is("functions") => BindingExact(case'.in[1], case'.in[2], case'.in[3], case'.in[4], case'.in[5])
        /\ Is("builtins") =>
              LET format == case'.in[1]
                  n      == Len(ParseFormat(format).ops)
              IN ParsingExact(case'.in[2], case'.in[3], format, case'.in[4], [i \in 1 .. n |-> Nil])
        /\ Is("methods") =>
              MethodCallExact(case'.in[1], case'.in[2], [type |-> "class", id |-> 0], case'.in[3], case'.in[4]) ]_case

-------------------------------------------------------------------------------
(* Classes: four class statements one after the other, each with the bases the *)
(* case gives it, as far as those exist; and the exceptions Go makes.          *)

Root == [x \in {ObjectType, TypeType} |->
            IF x = ObjectType THEN Fields(TypeType, NoType, <<>>, <<ObjectType>>, <<>>, FALSE)
            ELSE Fields(TypeType, ObjectType, <<ObjectType>>, <<TypeType, ObjectType>>, <<>>, FALSE)]
Entered(W, id, made) ==
    IF made.type # "class" THEN W
    ELSE id :> made.fields @@ W
Declare(W, id, bases, dict) ==
    IF ToSet(bases) \subseteq DOMAIN W THEN Entered(W, id, BuildClass(W, id, bases, dict)) ELSE W
World(decl, dicts) ==
    LET made[k \in 0 .. Len(decl)] ==
            IF k = 0 THEN Root ELSE Declare(made[k - 1], k + 1, decl[k], dicts[k])
    IN made[Len(decl)]

Empty == [k \in {} |-> NoneObj]
Fun   == [type |-> "function"]
Prop(set) == [type |-> "property", fget |-> Fun, fset |-> set, fdel |-> Nil]
ClassDicts == {Empty} \cup {[k \in {"x"} |-> v] : v \in {IntObj(1), Fun, Prop(Nil), Prop(Fun),
                                       [type |-> "classmethod", callable |-> Fun]}}
                  \cup {[k \in {"__init__"} |-> Fun]}
Shapes == {<<a, b, c>> : a \in {<<>>}, b \in {<<>>, <<2>>}, c \in {<<>>, <<2>>, <<3>>, <<2, 3>>, <<3, 2>>}}

\* Exceptions as Go makes them: one below object, two below it, one below those.
Failing == LET base == Entered(Root, 2, NewType(Root, 2, ObjectType, TRUE))
               one  == Entered(base, 3, NewType(base, 3, 2, TRUE))
               two  == Entered(one, 4, NewType(one, 4, 2, TRUE))
           IN Entered(two, 5, NewType(two, 5, 4, TRUE))

CheckClasses ==
    \/ /\ At("orders", 1)
       /\ \E d \in {<<>>} \cup UNION {[1 .. n -> 2 .. 4] : n \in 1 .. 2},
             last \in UNION {[1 .. n -> 2 .. 5] : n \in 1 .. 3} :
              case' = Case("orders", case.in \o <<d, last>>)
    \/ /\ At("attributes", 1)
       /\ \E a, b, c \in ClassDicts : case' = Case("attributes", case.in \o <<<<a, b, c>>>>)
    \/ /\ At("exceptions", 1)
       /\ \E err \in 2 .. 5 : case' = Case("exceptions", case.in \o <<err>>)

\* Every hierarchy of classes has the order of its ancestors the language gives
\* it or is refused; attributes are found, set and deleted along that order, and
\* handlers catch along it.
ClassesInherit ==
    [][ /\ Is("orders") =>
              \A W \in {World(Append(case'.in[1], case'.in[2]), [k \in 1 .. 4 |-> Empty])} :
                  ToSet(case'.in[3]) \subseteq DOMAIN W => MroExact(W, 6, case'.in[3])
        /\ Is("attributes") =>
              \A W \in {World(case'.in[1], case'.in[2])} :
                  4 \in DOMAIN W => /\ AttributesExact(9 :> Alloc(4) @@ W, 9, "x", IntObj(7))
                                    /\ InstancesExact(W, 4, 9, <<IntObj(7)>>)
        /\ Is("exceptions") => CatchingExact(Failing, case'.in[2], case'.in[1]) ]_case

-------------------------------------------------------------------------------
(* Sources: lines of every kind one or two at a time, and the indentations of  *)
(* four lines of a name each; and f-strings of up to three pieces, among       *)
(* comments and strings.                                                       *)

Indents == {<<>>, <<" ">>, <<" ", " ">>, <<"tab">>, <<" ", "tab">>, [i \in 1 .. 8 |-> " "]}
Bodies == {<<>>, <<"NAME">>, <<"NAME", "#">>, <<"(", "NAME">>, <<")">>, <<"[">>, <<"}", "]">>,
           <<"'", "'", "'">>, <<"'", "NAME", "'">>, <<"'", "backslash">>, <<"NAME", "backslash">>,
           <<"#", "'">>, <<"?">>}
Lines == {i \o b \o <<"newline">> : i \in {<<>>, <<" ">>, <<"tab">>}, b \in Bodies}
             \cup {<<"NAME", "return">>}
LastLines == Lines \cup Bodies \cup {<<" ", "NAME">>}
Said(chars)     == Formatting!Piece("text", chars)
Braced(chars)  == Formatting!Piece("expr", chars)
FPieces ==
    {Said(<<c>>) : c \in {"a", "%", "s", "#"}}
    \cup {Said(<<"backslash", "a">>), Said(<<"backslash", "{">>),
          Formatting!Piece("brace", <<"{">>), Formatting!Piece("brace", <<"}">>)}
    \cup {Braced(e) : e \in {<<"a">>, <<" ", "f", " ">>, <<" ">>, <<"a", ":", "s">>, <<"a", "!", "a">>,
              <<" ", "{", "a", ":", "s", "}">>, <<"dq", "}", ":", "dq">>, <<" ", "{", "{", "}", "}">>}}
Marks == {<<"'">>, <<"'", "'", "'">>}
Unchanged == {<<"a">>, <<"#", "f", "'", "newline">>, <<"'", "f", "dq", "'">>, <<"a", "f", "'", "{", "'">>,
              <<"dq", "#", "dq">>, <<"'", "backslash", "'", "f", "'">>, <<"'", "'">>}
FParts == {[is |-> "code", chars |-> c] : c \in Unchanged}
              \cup {[is |-> "f", chars |-> Formatting!Source(m, <<p>>)] : m \in Marks, p \in FPieces}
              \cup {[is |-> "f", chars |-> <<"f", "'", "{", "a", "'">>]}
Empties == {<<"newline">>, <<" ", "newline">>, <<"tab", "#", "'", "newline">>, <<"return">>}

CheckSources ==
    \/ /\ At("sources", 1)
       /\ \E last \in LastLines, mode \in {"exec", "eval", "single"} :
              case' = Case("sources", case.in \o <<last, mode>>)
    \/ /\ At("blocks", 1)
       /\ \E more \in UpToLen(3, Indents) : case' = Case("blocks", case.in \o <<more>>)
    \/ /\ At("f-strings", 1)
       /\ \E more \in UpToLen(2, FPieces), mark \in Marks :
              case' = Case("f-strings", case.in \o <<more, mark>>)
    \/ /\ At("f-sources", 1)
       /\ \E more \in UpToLen(1, FParts) : case' = Case("f-sources", <<case.in[1] \o more, "">>)

\* Blocks begin and end where the indentation of the lines says, every source is
\* read to its end, and blank lines and comments change nothing; and before it is
\* read its f-strings, and nothing else in it, become strings that mean the same.
SourcesNest ==
    [][ /\ Is("sources") =>
              LET source == Append(case'.in[1], case'.in[2]) mode == case'.in[3]
              IN /\ Lexing!EndsBalanced(source, mode)
                 /\ \A at \in 0 .. Len(source), line \in Empties : Lexing!LayoutFree(source, at, line, mode)
        /\ Is("blocks") => Lexing!BlocksExact(<<case'.in[1]>> \o case'.in[2])
        /\ Is("f-sources") => Formatting!RewrittenInPlace(case'.in[1])
        /\ Is("f-strings") => Formatting!FStringMeans(case'.in[3], <<case'.in[1]>> \o case'.in[2]) ]_case

-------------------------------------------------------------------------------
(* Names: functions, classes, lambdas and comprehensions within each other two *)
(* deep, in a module or in a function that binds a name of its own.            *)

X     == 1
Inner == 3
Outer == 2
Other == 5
Whole == 6

Token(n)   == [is |-> "value", n |-> n]
Does(d, x) == [do |-> d, name |-> x]
Binds(x, n) == [do |-> "bind", name |-> x, value |-> Token(n)]
Imports(parts) == [do |-> "import", parts |-> parts, value |-> Token(50)]
Defines(f, params, body) ==
    [do |-> "def", name |-> f, params |-> params, defaults |-> params, decorators |-> <<>>,
     body |-> body]
Decorated(def) == [def EXCEPT !.decorators = <<Naming!Decorator>>]

Simple(n)   == {Does(d, X) : d \in {"use", "del", "global", "nonlocal"}} \cup {Binds(X, n)}
AtMostOne(n) == {<<>>} \cup {<<s>> : s \in Simple(n)}
Innermost ==
    AtMostOne(10) \cup (Simple(10) \X Simple(11))
    \cup {<<s, Does("use", Other)>> : s \in Simple(10)}
    \cup {<<Does("use", Other), s>> : s \in Simple(10)}
    \cup {<<Does("super", 0), Does("use", Naming!ClassVar)>>,
          <<Does("use", Naming!ClassVar), Does("use", X)>>, <<Imports(<<X>>)>>,
          <<Does("use", X), Imports(<<X, Other>>), Does("global", X), Does("use", X)>>}

\* The body in a function that is called after what comes late, in a class, or,
\* where there are only expressions, in a lambda or a comprehension.
Around(name, late, body) ==
    {<<d>> \o late \o <<Does("call", name)>> :
        d \in {Defines(name, <<X>>, body), Defines(name, <<>>, body),
               Decorated(Defines(name, <<>>, body))}}
    \cup {<<[do |-> "class", name |-> 4, body |-> body]>> \o late}
    \cup (IF \E i \in DOMAIN body : body[i].do \notin {"use", "lambda", "comp"} THEN {}
          ELSE {<<[do |-> "lambda", name |-> 0, params |-> p, defaults |-> p, body |-> body]>> \o late :
                   p \in {<<>>, <<X>>}}
               \cup {<<[do |-> "comp", name |-> 0, iter |-> X, target |-> t, body |-> body]>> \o late :
                        t \in {X, Other}})
Wrapped(body) ==
    <<Binds(Other, 40), Defines(Whole, <<>>, <<Binds(Other, 41)>> \o body), Does("call", Whole),
      Does("use", X)>>

CheckNames ==
    \/ /\ At("scopes", 1)
       /\ \E pre, late \in AtMostOne(20) :
              /\ pre = <<>> \/ late = <<>>
              /\ \E n \in Around(Inner, late, case.in[1]) : case' = Case("scopes", <<pre \o n, "inner">>)
    \/ /\ At("scopes", 2)
       /\ \E pre \in {<<>>, <<Binds(X, 30)>>},
             late \in {<<>>, <<Binds(X, 31)>>, <<Does("global", X)>>} :
              \E n \in Around(Outer, late, case.in[1]) :
                  case' \in {Case("scopes", <<pre \o n, "module", 0>>),
                             Case("scopes", <<Wrapped(pre \o n), "module", 0>>)}

\* Every use, binding and deletion of a name, however the blocks around it nest,
\* reaches the variable that the language's scopes give it; a program is refused
\* exactly when they refuse it.
NamesReachTheirScope ==
    [][ case'.area = "scopes" /\ Len(case'.in) = 3 => Naming!NamesResolve(case'.in[1]) ]_case

-------------------------------------------------------------------------------
(* Code: programs of up to six instructions, with jumps of both kinds to every *)
(* label, whose places and arguments are soon too large for two bytes.         *)

Instr(kind, op, arg) == [kind |-> kind, op |-> op, arg |-> arg]
Instructions ==
    {Instr("label", "", 0), Instr("op", "POP_TOP", 0), Instr("op", "DUP_TOP_TWO", 0),
     Instr("arg", "BUILD_TUPLE", 2), Instr("arg", "LOAD_CONST", 30),
     Instr("jump absolute", "JUMP_ABSOLUTE", 0), Instr("jump absolute", "JUMP_IF_TRUE_OR_POP", 0),
     Instr("jump absolute", "POP_JUMP_IF_FALSE", 0), Instr("jump relative", "JUMP_FORWARD", 0),
     Instr("jump relative", "FOR_ITER", 0), Instr("jump relative", "SETUP_EXCEPT", 0)}
LinesOfCode == {<<1, 1, 2, 2, 3, 5>>, <<2, 1, 8, 9, 9, 9>>, <<7, 7, 1, 8, 9, 9>>}

Labels(code) == {i \in DOMAIN code : code[i].kind = "label"}
Linked(code, absolute, relative, lines) ==
    [i \in DOMAIN code |->
        [kind |-> code[i].kind, op |-> code[i].op, arg |-> code[i].arg, line |-> lines[i],
         dest |-> CASE code[i].kind = "jump absolute" -> absolute
                    [] code[i].kind = "jump relative" -> relative
                    [] OTHER -> 0]]

CheckCode ==
    /\ At("code", 1)
    /\ \E rest \in UpToLen(2, Instructions), lead \in {<<>>, <<Instr("arg", "LOAD_NAME", 0)>>},
          lines \in LinesOfCode :
           LET code  == lead \o case.in[1] \o rest \o <<Instr("op", "RETURN_VALUE", 0)>>
               jumps == \E i \in DOMAIN code : Assembling!IsJump(code[i])
           IN \E absolute, relative \in IF jumps THEN Labels(code) ELSE {0} :
                  case' = Case("code", <<Linked(code, absolute, relative, lines), "linked">>)

\* What the interpreter reads is the program that was compiled: its instructions,
\* jumps that lead to their labels, lines, and a stack as deep as it needs.
CodeIsWhatWasCompiled ==
    [][ Is("code") =>
            LET code == case'.in[1]
            IN /\ Assembling!JumpsLand(code)  /\ Assembling!NarrowAssembles(code)
               /\ Assembling!LinesFound(code) /\ Assembling!StackSuffices(code) ]_case

-------------------------------------------------------------------------------
(* Expressions: a form of the language within another, where any atom may be   *)
(* false, raise, or be iterable and fail, and an iterable may be a dictionary; *)
(* and assignments to targets of every shape.                                  *)

Truth(n, true) == [Expressing!Leaf(n) EXCEPT !.true = true]
Sure(n, true)  == Expressing!Atom(Truth(n, true), FALSE)
Listing(n, true, of, fails) == Expressing!Value("iterable", n, of, true, fails)
Item(n) == Listing(n, n % 2 = 1, <<Truth(n + 100, TRUE), Truth(n + 200, FALSE)>>, FALSE)
Iterable(n, k, fails) ==
    Expressing!Atom(Listing(n, TRUE, [i \in 1 .. k |-> Item(10 * n + i)], fails), FALSE)
Word(n)    == Expressing!Atom(Expressing!String(n), FALSE)
\* A dictionary with the keys 1 and 3.
Mapping(n) ==
    Expressing!Atom(Expressing!Value("dict", n, <<Truth(n + 300, TRUE), Expressing!String(1),
                                                 Truth(n + 400, FALSE), Expressing!String(3)>>,
                                     TRUE, FALSE), FALSE)
Pieces(n) == {Sure(n, FALSE), Iterable(n, 2, FALSE)}
Local(x)  == Expressing!Name(x)
Expr(is, parts) == Expressing!Expr(is, parts)
Called(parts, keys, star, kwargs) == Expressing!CallOf(parts, keys, star, kwargs)
Clause(target, iter, ifs) == Expressing!For(target, iter, ifs)
Made(kind, elts, clauses) == Expressing!Comp(kind, elts, clauses)

\* The forms with the parts p, q and r.
Forms(p, q, r) ==
    {Expr(is, <<p>>) : is \in {"unary", "attribute"}}
    \cup {Expr(is, <<p, q>>) : is \in {"binary", "compare", "subscript"}}
    \cup {Expr(is, <<p, q, r>>) : is \in {"and", "or", "compare", "if", "tuple", "list", "set"}}
    \cup {Expr("compare", <<p, q, r, q>>), Expr("dict", <<p, q, r, p>>),
          Expr("dict", <<Word(1), p, Word(4), q, Word(1), r>>),
          Expr("subscript", <<p, Expr("slice", <<q, r>>)>>),
          Expr("subscript", <<p, Expr("dims", <<q, Expr("slice", <<r, q>>)>>)>>)}
    \cup {Called(<<p, q, r>>, <<>>, <<>>, <<>>), Called(<<p, q, r, p>>, <<>>, <<>>, <<>>),
          Called(<<p>>, <<<<1, q>>, <<2, r>>>>, <<>>, <<>>),
          Called(<<p>>, <<<<1, q>>, <<1, r>>>>, <<>>, <<>>), Called(<<p, q>>, <<>>, <<r>>, <<>>),
          Called(<<p, q>>, <<<<2, p>>>>, <<>>, <<r>>), Called(<<p>>, <<<<1, q>>>>, <<>>, <<r>>),
          Called(<<p>>, <<>>, <<q>>, <<r>>)}
    \cup {Made("list", <<p>>, <<Clause(Local(1), q, <<>>)>>),
          Made("set", <<p>>, <<Clause(Local(2), q, <<Local(2), r>>)>>),
          Made("dict", <<q, p>>, <<Clause(Local(1), q, <<>>), Clause(Local(3), r, <<Local(3)>>)>>),
          Made("dict", <<Local(3), p>>, <<Clause(Local(1), q, <<>>), Clause(Local(3), r, <<Local(1)>>)>>),
          Made("list", <<Local(1)>>, <<Clause(Local(2), q, <<r>>),
                                        Clause(Expr("tuple", <<Local(1), Local(3)>>), p, <<>>)>>)}

Within == {Local(1), Local(3), Expressing!Atom(Truth(2, TRUE), TRUE), Iterable(2, 2, TRUE)}
              \cup UNION {Forms(p, q, Mapping(6)) : p \in Pieces(4), q \in Pieces(5)}
Around3(x) ==
    UNION {Forms(x, q, r) \cup Forms(q, x, r) \cup Forms(q, r, x) : q \in Pieces(1),
                                                               r \in {Sure(7, FALSE), Mapping(7)}}

Environment == [x \in {1} |-> Truth(40, TRUE)]
Statement(do, targets, value) == [do |-> do, targets |-> targets, value |-> value]

\* Places whose object is x, and names beside one of those.
Places(x) == {Expr("attribute", <<x>>), Expr("subscript", <<x, Sure(3, TRUE)>>)}
                 \cup (IF x = Local(1) THEN {Local(1), Local(2)} ELSE {})
Star(t)   == Expr("starred", <<t>>)
Targets(x) ==
    LET a == Local(2) IN
    Places(x)
    \cup UNION {{Expr("tuple", <<a, t>>), Expr("list", <<Star(t), a>>), Expr("tuple", <<a, Star(t), a>>),
                 Expr("list", <<a, Expr("tuple", <<t, Star(a)>>), Star(t)>>),
                 Expr("tuple", <<a, a, a, Star(t)>>), Star(t), Expr("tuple", <<Star(a), Star(t)>>)} :
                    t \in Places(x)}
Values0 == {Iterable(8, k, f) : k \in 0 .. 4, f \in BOOLEAN}
               \cup {Expressing!Atom(Truth(8, FALSE), TRUE)}

CheckExpressions ==
    \/ /\ At("expressions", 1)
       /\ \E e \in Around3(case.in[1]) :
              case' = Case("expressions", <<Statement("expr", <<>>, e), Environment>>)
    \/ /\ At("expressions", 1)
       /\ LET x == case.in[1] v == Sure(9, TRUE) IN
          \/ \E t \in Targets(x), v0 \in Values0, more \in {<<>>, <<Local(3)>>} :
                case' = Case("expressions", <<Statement("assign", more \o <<t>>, v0), Environment>>)
          \/ \E t \in Places(v) \cup Places(x) :
                case' = Case("expressions", <<Statement("aug", <<t>>, x), Environment>>)
          \/ \E t, u \in Places(x) :
                case' \in {Case("expressions", <<Statement("del", <<t, u>>, v), Environment>>),
                           Case("expressions", <<Statement("del", <<Expr("tuple", <<t, u>>)>>, v), Environment>>)}
          \/ case' \in {Case("expressions", <<Statement("assert", <<>>, x), Environment>>),
                        Case("expressions", <<Statement("assert", <<v>>, x), Environment>>),
                        Case("expressions", <<Statement("assert", <<x>>, Sure(1, FALSE)), Environment>>)}

\* Whatever raises, is false or runs out on the way, a statement asks of user
\* code what it says in the order it says it, binds and raises what it should,
\* and leaves no value behind.
ExpressionsRunAsWritten ==
    [][ Is("expressions") => Expressing!MeansAsWritten(case'.in[1], case'.in[2]) ]_case

-------------------------------------------------------------------------------
Init ==
    \/ \E a \in Numbers  : case = Case("numbers", <<a>>)
    \/ \E a \in IntRange : case = Case("ranges", <<a>>)
    \/ \E s \in Slices   : case \in {Case("slices", <<s>>), Case("writing", <<s>>)}
    \/ \E l \in Sorted \cup UpToLen(2, Nested) : case = Case("lists", <<l>>)
    \/ \E t \in Texts    : case = Case("texts", <<t>>)
    \/ \E t \in Blanked  : case = Case("words", <<t>>)
    \/ \E a \in SmallSets : case = Case("sets", <<a>>)
    \/ \E d \in Dicts(Members)   : case = Case("dicts", <<d>>)
    \/ \E c \in Codes    : case = Case("functions", <<c>>)
    \/ \E f \in Formats  : case = Case("builtins", <<f>>)
    \/ \E c \in Callees  : case = Case("methods", <<c>>)
    \/ \E s \in Shapes   : case \in {Case("orders", <<s>>), Case("attributes", <<s>>)}
    \/ \E e \in 2 .. 5   : case = Case("exceptions", <<e>>)
    \/ \E l \in {<<>>} \cup {<<l>> : l \in Lines} : case = Case("sources", <<l>>)
    \/ \E i \in Indents  : case = Case("blocks", <<i>>)
    \/ \E p \in FPieces \cup {Said(<<"}">>)} : case = Case("f-strings", <<p>>)
    \/ \E p \in UpToLen(1, FParts) : case = Case("f-sources", <<p>>)
    \/ \E b \in Innermost : case = Case("scopes", <<b>>)
    \/ \E a, b \in Instructions : case = Case("code", <<<<a, b>>>>)
    \/ \E e \in Within : case = Case("expressions", <<e>>)

Next == \/ CheckNumbers \/ CheckRanges \/ CheckSlices \/ CheckWriting \/ CheckLists
        \/ CheckTexts \/ CheckCollections \/ CheckCalls \/ CheckClasses \/ CheckSources
        \/ CheckNames \/ CheckCode \/ CheckExpressions
===============================================================================
