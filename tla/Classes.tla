-------------------------------- MODULE Classes --------------------------------
(***************************************************************************)
(* Classes, their instances and attributes: py/type.go, the attribute      *)
(* functions of py/internal.go and the matching of exceptions.             *)
(*                                                                         *)
(* A class and an instance of one are the same Go type, *Type, told apart  *)
(* by nothing but what their fields hold.  A world is a function from      *)
(* their numbers to their fields; dict is a function from names to what    *)
(* they name, all in one name space.                                       *)
(***************************************************************************)
EXTENDS Binding

LOCAL INSTANCE SequencesExt

CONSTANTS ObjectType, TypeType,     \* the numbers of object and type
          NoType                    \* no type, Go's nil
ASSUME TypesAssumption == ObjectType # TypeType /\ NoType \notin {ObjectType, TypeType}

AttributeError == Exception("AttributeError")

Fields(objectType, base, bases, mro, dict, exception) ==
    [objectType |-> objectType, base |-> base, bases |-> bases, mro |-> mro,
     dict |-> dict, exception |-> exception]

\* A class or an instance as an object among others.
Ref(o) == [type |-> "class", id |-> o]

Bound(d, name) == name \in DOMAIN d

-------------------------------------------------------------------------------
(* The method resolution order *)

\* A changed TailContains: the first class of the tail is not looked at.
TailContainsLater(list, whence, o) == \E j \in whence + 2 .. Len(list) : list[j] = o
TailContains(list, whence, o) == \E j \in whence + 1 .. Len(list) : list[j] = o

CheckDuplicates(bases) == \A i, j \in 1 .. Len(bases) : i # j => bases[i] # bases[j]

\* The first list's head that no list has in its tail; 0 when there is none.
Candidate(lists, remain) ==
    SelectInSeq([i \in DOMAIN lists |-> i], LAMBDA i :
        /\ remain[i] <= Len(lists[i])
        /\ \A j \in DOMAIN lists : ~TailContains(lists[j], remain[j], lists[i][remain[i]]))

\* Heads move to the end of acc one by one; remain says where each list stands.
Pmerge(acc, lists) ==
    LET picks == FoldLeft(LAMBDA n, l : n + Len(l), 0, lists)
        merged[k \in 0 .. picks] ==
            IF k = 0 THEN [acc |-> acc, remain |-> [i \in DOMAIN lists |-> 1]]
            ELSE LET before == merged[k - 1]
                     i == Candidate(lists, before.remain)
                     c == lists[i][before.remain[i]]
                     Heads(j) == before.remain[j] <= Len(lists[j]) /\ lists[j][before.remain[j]] = c
                 IN IF i = 0 THEN before
                    ELSE [acc |-> Append(before.acc, c),
                          remain |-> [j \in DOMAIN lists |->
                                         before.remain[j] + IF Heads(j) THEN 1 ELSE 0]]
        final == merged[picks]
    IN IF \A i \in DOMAIN lists : final.remain[i] > Len(lists[i])
       THEN [type |-> "mro", classes |-> final.acc] ELSE TypeError

MroImplementation(W, t, bases) ==
    IF ~CheckDuplicates(bases) THEN TypeError
    ELSE Pmerge(<<t>>, Append([i \in DOMAIN bases |-> W[bases[i]].mro], bases))

\* A type that is not ready has no mro, and its bases are followed instead.
IsSubtype(W, a, b) ==
    IF W[a].mro # <<>> THEN Contains(W[a].mro, b)
    ELSE LET up[k \in 0 .. Cardinality(DOMAIN W)] ==
                 IF k = 0 THEN a ELSE IF up[k - 1] = NoType THEN NoType ELSE W[up[k - 1]].base
         IN b = ObjectType \/ \E k \in DOMAIN up : up[k] = b

-------------------------------------------------------------------------------
(* Making classes and instances *)

\* The most derived of the bases' types.
CalculateMetaclass(W, metatype, bases) ==
    FoldLeft(LAMBDA winner, b :
                 LET t == W[b].objectType
                 IN IF winner = NoType THEN NoType
                    ELSE IF IsSubtype(W, winner, t) THEN winner
                    ELSE IF IsSubtype(W, t, winner) THEN t ELSE NoType,
             metatype, bases)

\* Every class's solid base is object, so the first base is the best one.
BestBase(bases) == bases[1]

\* An instance: its class is its type and its base, and it has no mro.
Alloc(t) == Fields(t, t, <<>>, <<>>, <<>>, FALSE)

\* Ready: the mro, and whether the type is one of an exception, which comes
\* from its base.
Ready(W, id, t) ==
    LET mro == MroImplementation(W, id, t.bases)
    IN IF IsException(mro) THEN mro
       ELSE [type |-> "class",
             fields |-> [t EXCEPT !.mro = mro.classes,
                                  !.exception = @ \/ (t.base # NoType /\ W[t.base].exception)]]

\* The name a class is shown with leaves its dict, and slots are not done.
NewClass(W, id, winner, bases, dict) ==
    IF Bound(dict, "__slots__") THEN Exception("SystemError")
    ELSE LET own == [k \in DOMAIN dict \ {"__qualname__"} |-> dict[k]]
         IN Ready(W, id, Fields(winner, BestBase(bases), bases, <<>>, own, FALSE))

TypeNew(W, id, metatype, bases, dict) ==
    LET winner == CalculateMetaclass(W, metatype, bases)
    IN IF winner = NoType THEN TypeError
       ELSE NewClass(W, id, winner, IF bases = <<>> THEN <<ObjectType>> ELSE bases, dict)

\* A type that Go makes a subclass of t: t is also its type, and its base is
\* found to be object.
NewType(W, id, t, exception) ==
    Ready(W, id, Fields(t, ObjectType, <<t>>, <<>>, <<>>, W[t].exception \/ exception))

\* The class statement calls the metaclass, the type of the first base: type
\* makes a class, the type of an exception an exception, and object, the type of
\* what Go makes below it, takes no arguments.
BuildClass(W, id, bases, dict) ==
    LET meta   == IF bases = <<>> THEN TypeType ELSE W[bases[1]].objectType
        winner == CalculateMetaclass(W, meta, bases)
    IN IF winner = NoType THEN TypeError
       ELSE IF winner = TypeType THEN TypeNew(W, id, winner, bases, dict)
       ELSE IF W[winner].exception THEN [type |-> "exception", base |-> winner]
       ELSE TypeError

-------------------------------------------------------------------------------
(* Attributes *)

Lookup(W, t, name) ==
    LET i == SelectInSeq(W[t].mro, LAMBDA b : Bound(W[b].dict, name))
    IN IF i = 0 THEN Nil ELSE W[W[t].mro[i]].dict[name]

NativeGetAttrOrNil(W, t, name) ==
    IF Bound(W[t].dict, name) THEN W[t].dict[name] ELSE Lookup(W, t, name)

\* What a special method is looked for with: the object itself, its type, and
\* the object's own mro, which an instance does not have.
GetAttrOrNil(W, o, name) ==
    LET t == W[o].objectType
    IN IF Bound(W[o].dict, name) THEN W[o].dict[name]
       ELSE IF Bound(W[t].dict, name) THEN W[t].dict[name]
       ELSE Lookup(W, o, name)

\* The call of a special method with the object and args.
Answered(callee, o, args) ==
    [type |-> "called", callee |-> callee, self |-> Nil, args |-> <<Ref(o)>> \o args]
TypeCall(W, o, name, args) ==
    LET fn == GetAttrOrNil(W, o, name)
    IN IF fn = Nil THEN NotImplemented
       ELSE IF fn.type = "function" THEN Answered(fn, o, args) ELSE TypeError

\* Methods of the Go type come before anything of the language.
GoMethods == {"__call__", "__eq__", "__ne__", "__str__", "__repr__"}

GetAttrString(W, o, key) ==
    LET hook == TypeCall(W, o, "__getattribute__", <<key>>)
        last == TypeCall(W, o, "__getattr__", <<key>>)
        t    == W[o].objectType
        found == NativeGetAttrOrNil(W, t, key)
    IN CASE hook # NotImplemented -> hook
         [] hook = NotImplemented /\ key \in GoMethods ->
              BoundMethod(Ref(o), [type |-> "method", name |-> key])
         [] hook = NotImplemented /\ key \notin GoMethods ->
              IF Bound(W[o].dict, key) THEN W[o].dict[key]
              ELSE IF found # Nil THEN Get(found, Ref(o), Ref(t))
              ELSE IF last # NotImplemented THEN last
              ELSE AttributeError

\* A property writes somewhere else; everything else writes the object's dict.
Written(W, o, key, value) ==
    [W EXCEPT ![o].dict = [k \in DOMAIN @ \cup {key} |-> IF k = key THEN value ELSE @[k]]]
Removed(W, o, key) ==
    [W EXCEPT ![o].dict = [k \in DOMAIN @ \ {key} |-> @[k]]]
Kept(W, answer) == [world |-> W, answer |-> answer]

SetAttrString(W, o, key, value) ==
    LET setter == NativeGetAttrOrNil(W, W[o].objectType, key)
        hook   == TypeCall(W, o, "__setattr__", <<key, value>>)
    IN CASE setter.type = "property" ->
              Kept(W, IF setter.fset = Nil THEN AttributeError ELSE Answered(setter.fset, o, <<value>>))
         [] setter.type # "property" /\ hook # NotImplemented -> Kept(W, hook)
         [] setter.type # "property" /\ hook = NotImplemented ->
              Kept(Written(W, o, key, value), NoneObj)

DeleteAttrString(W, o, key) ==
    LET deleter == NativeGetAttrOrNil(W, W[o].objectType, key)
        hook    == TypeCall(W, o, "__delattr__", <<key>>)
    IN CASE deleter.type = "property" ->
              Kept(W, IF deleter.fdel = Nil THEN AttributeError ELSE Answered(deleter.fdel, o, <<>>))
         [] deleter.type # "property" /\ hook # NotImplemented -> Kept(W, hook)
         [] deleter.type # "property" /\ hook = NotImplemented ->
              IF Bound(W[o].dict, key) THEN Kept(Removed(W, o, key), NoneObj)
              ELSE Kept(W, AttributeError)

\* Calling a class: a new instance, and its __init__ called with it.  Only
\* object itself minds arguments nobody takes.
ObjectNew(W, t, id, args) ==
    IF t = ObjectType /\ args # <<>> THEN Kept(W, TypeError)
    ELSE Kept([x \in DOMAIN W \cup {id} |-> IF x = id THEN Alloc(t) ELSE W[x]], Ref(id))
ObjectInit(W, o, args) ==
    LET init == GetAttrOrNil(W, W[o].objectType, "__init__")
    IN IF init = Nil THEN NoneObj ELSE Answered(init, o, args)
Instantiate(W, t, id, args) ==
    LET made == ObjectNew(W, t, id, args)
    IN IF IsException(made.answer) THEN made
       ELSE Kept(made.world, ObjectInit(made.world, id, args))

-------------------------------------------------------------------------------
(* Exceptions.  A handler's expression is a class, a tuple of such, or any      *)
(* object; what was raised is an exception and known by its class.              *)

MakeException(W, x) ==
    CASE x.type = "exception" -> x
      [] x.type = "class"     -> IF W[x.id].exception THEN [type |-> "exception", base |-> x.id] ELSE TypeError
      [] OTHER                -> Exception("SystemError")

MatchesClass(W, err, exc) ==
    /\ exc.type = "class"
    /\ IF W[err].exception /\ W[exc.id].exception THEN IsSubtype(W, err, exc.id) ELSE err = exc.id

ExceptionGivenMatches(W, err, exc) ==
    IF exc.type = "tuple" THEN \E i \in DOMAIN exc.items : MatchesClass(W, err, exc.items[i])
    ELSE MatchesClass(W, err, exc)

\* str(e) is its first argument; without one the code reads past the end.
ExceptionStr(args) == IF args = <<>> THEN Panic ELSE args[1]

-------------------------------------------------------------------------------
(* What classes should do. *)

Before(list, x, y) == \E i, j \in DOMAIN list : i < j /\ list[i] = x /\ list[j] = y

\* A class is refused only when no order of its ancestors keeps the order of its
\* bases and of each of their orders; otherwise its order keeps them all, starts
\* with the class and names every ancestor once.
MroExact(W, id, bases) ==
    LET out     == MroImplementation(W, id, bases)
        lists   == Append([i \in DOMAIN bases |-> W[bases[i]].mro], bases)
        members == UNION {ToSet(lists[i]) : i \in DOMAIN lists}
        After(x, S) == \E y \in S, i \in DOMAIN lists : Before(lists[i], y, x)
        orderly == \A S \in (SUBSET members) \ {{}} : \E x \in S : ~After(x, S)
    IN IF ~CheckDuplicates(bases) \/ ~orderly THEN out = TypeError
       ELSE /\ out # TypeError
            /\ out.classes[1] = id
            /\ ToSet(out.classes) = {id} \cup members
            /\ Len(out.classes) = Cardinality(members) + 1
            /\ \A i \in DOMAIN lists : \A x, y \in ToSet(lists[i]) :
                   Before(lists[i], x, y) => Before(out.classes, x, y)

\* An instance has the attributes of its class and of the class's ancestors, the
\* first in the order, functions bound to it.  What is set on it hides them from
\* it alone, unless a property takes the value, and what is deleted shows them
\* again.  A special method counts only where the instance's own class has it,
\* and a class does not show what its ancestors have.
AttributesExact(W, o, key, value) ==
    LET t     == W[o].objectType
        owners == SelectSeq(W[t].mro, LAMBDA b : Bound(W[b].dict, key))
        inClass == IF owners = <<>> THEN AttributeError ELSE Get(W[owners[1]].dict[key], Ref(o), Ref(t))
        set   == SetAttrString(W, o, key, value)
        unset == DeleteAttrString(set.world, o, key)
        isProperty == owners # <<>> /\ W[owners[1]].dict[key].type = "property"
        special == GetAttrOrNil(W, o, key)
    IN /\ ~Bound(W[o].dict, key) => GetAttrString(W, o, key) = inClass
       /\ IF isProperty THEN set.world = W /\ unset.world = W
          ELSE /\ GetAttrString(set.world, o, key) = value
               /\ \A x \in DOMAIN W \ {o} : GetAttrString(set.world, x, key) = GetAttrString(W, x, key)
               /\ GetAttrString(unset.world, o, key) = inClass
               /\ DeleteAttrString(unset.world, o, key).answer = AttributeError
       /\ special # Nil <=> Bound(W[o].dict, key) \/ Bound(W[t].dict, key)
       /\ GetAttrString(W, t, key) # AttributeError <=> Bound(W[t].dict, key)

\* A new instance is initialised by the first __init__ in the order, once and
\* with itself first.
InstancesExact(W, t, id, args) ==
    LET owners == SelectSeq(W[t].mro, LAMBDA b : Bound(W[b].dict, "__init__"))
        made   == Instantiate(W, t, id, args)
    IN IF owners = <<>> THEN t = ObjectType \/ made.answer = NoneObj
       ELSE /\ made.answer.callee = W[owners[1]].dict["__init__"]
            /\ made.answer.args = <<Ref(id)>> \o args
            /\ IsSubtype(made.world, made.world[id].objectType, t)

\* A handler catches the exceptions of its class and of those below it; no class
\* can be declared below an exception, what the class statement gives instead
\* catches nothing.
CatchingExact(W, err, exc) ==
    LET declared == BuildClass(W, Cardinality(DOMAIN W), <<exc>>, <<>>)
    IN /\ ExceptionGivenMatches(W, err, Ref(exc)) <=> Contains(W[err].mro, exc)
       /\ W[exc].exception => declared \in {TypeError} \cup [type : {"exception"}, base : DOMAIN W]
       /\ W[exc].exception => ~ExceptionGivenMatches(W, err, declared)
       /\ MakeException(W, Ref(err)).base = err

===============================================================================
