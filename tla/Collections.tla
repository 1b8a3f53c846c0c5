------------------------------ MODULE Collections ------------------------------
(***************************************************************************)
(* Sets and dictionaries: py/set.go and py/dict.go.  Both are Go maps: a   *)
(* set's keys are objects, told apart by type and value where == of the    *)
(* language would not tell, a dictionary's are strings.  Go goes through a *)
(* map in any order, so what stops at the first of several things may      *)
(* answer any of them: such an operation is the set of its answers.        *)
(***************************************************************************)
EXTENDS TextObjects

LOCAL INSTANCE SequencesExt

SetObj(items) == [type |-> "set", members |-> items]

KeyError == Exception("KeyError")

\* A Go map refuses a slice or a map as a key, by stopping the program.
Hashable(o) == o.type \notin {"tuple", "bytes", "dict"}

WithKeys(items, answer) == IF \A o \in items : Hashable(o) THEN answer ELSE Panic

NewSetFromItems(items) == WithKeys(ToSet(items), SetObj(ToSet(items)))

SetAdd(s, item) == WithKeys({item}, SetObj(s.members \cup {item}))

\* set(v) keeps what was iterated over until the iterator raised, and drops it.
SequenceSet(value) ==
    IF value.raises THEN ValueError ELSE NewSetFromItems(value.items)

-------------------------------------------------------------------------------
(* The algebra of sets, for nothing but sets on both sides. *)

OfSets(a, b, members) == IF b.type # "set" THEN TypeError ELSE SetObj(members)

SetAnd(a, b) == OfSets(a, b, {i \in b.members : i \in a.members})
SetOr(a, b)  == OfSets(a, b, a.members \cup {i \in b.members : i \notin a.members})
SetSub(a, b) == OfSets(a, b, a.members \ {i \in b.members : i \in a.members})
SetXor(a, b) == OfSets(a, b, (a.members \ b.members) \cup (b.members \ a.members))

\* For every member of the left set, in any order, some member of the right one
\* is looked for, in any order; a comparison that raises ends both.
Found(i, b) == \E j \in b : Texts!Eq(i, j) = True
Fails(i, b) == \E j \in b : IsException(Texts!Eq(i, j))
Lost(i, b)  == ~Found(i, b) /\ ~Fails(i, b)

\* A changed SetEq: a set is equal to a larger one that has its members.
SetEqWithin(a, b) ==
    IF b.type # "set" THEN {NotImplemented}
    ELSE {o \in {True, False, TypeError} :
            CASE o = True      -> \A i \in a.members : Found(i, b.members)
              [] o = False     -> \E i \in a.members : Lost(i, b.members)
              [] o = TypeError -> \E i \in a.members : Fails(i, b.members)}
SetEq(a, b) ==
    IF b.type # "set" THEN {NotImplemented}
    ELSE IF Cardinality(a.members) # Cardinality(b.members) THEN {False}
    ELSE {o \in {True, False, TypeError} :
            CASE o = True      -> \A i \in a.members : Found(i, b.members)
              [] o = False     -> \E i \in a.members : Lost(i, b.members)
              [] o = TypeError -> \E i \in a.members : Fails(i, b.members)}

SetNe(a, b) == {IF o.type = "bool" THEN Negated(o) ELSE o : o \in SetEq(a, b)}

-------------------------------------------------------------------------------
(* Dictionaries *)

DictObj(d) == [type |-> "dict", entries |-> d]

\* A name no dictionary has.
NoEntry == [type |-> "missing"]
Names(d) == {k \in DOMAIN d : d[k] # NoEntry}

IsKey(o) == o.type = "str"

DictGetitem(d, key) ==
    IF IsKey(key) /\ d[key.bytes] # NoEntry THEN d[key.bytes] ELSE KeyError

DictSetitem(d, key, value) ==
    IF IsKey(key) THEN [entries |-> [d EXCEPT ![key.bytes] = value], answer |-> NoneObj]
    ELSE [entries |-> d, answer |-> KeyError]

DictDelitem(d, key) ==
    IF IsKey(key) /\ d[key.bytes] # NoEntry
    THEN [entries |-> [d EXCEPT ![key.bytes] = NoEntry], answer |-> NoneObj]
    ELSE [entries |-> d, answer |-> KeyError]

DictContains(d, key) == IF IsKey(key) THEN BoolObj(d[key.bytes] # NoEntry) ELSE KeyError

\* get(key, default): a key that is not a string has no default.
DictGet(d, args) ==
    CASE Len(args) \notin 1 .. 2 -> TypeError
      [] Len(args) \in 1 .. 2 /\ ~IsKey(args[1]) -> KeyError
      [] Len(args) \in 1 .. 2 /\ IsKey(args[1])  ->
           IF d[args[1].bytes] # NoEntry THEN d[args[1].bytes]
           ELSE IF Len(args) = 2 THEN args[2] ELSE NoneObj

\* dict(pairs, **kwargs), where pairs is what is iterated over and may be left out:
\* a pair whose key is not a string is passed over, one that is no tuple refused,
\* one that is too short read past its end.
DictNew(empty, args, kwargs) ==
    LET Enter(d, pair) ==
            CASE IsException(d) -> d
              [] d.type = "dict" /\ pair.type # "tuple" -> TypeError
              [] d.type = "dict" /\ pair.type = "tuple" ->
                   IF Len(pair.items) = 0 THEN Panic
                   ELSE IF ~IsKey(pair.items[1]) THEN d
                   ELSE IF Len(pair.items) = 1 THEN Panic
                   ELSE DictObj([d.entries EXCEPT ![pair.items[1].bytes] = pair.items[2]])
        list == IF args = <<>> THEN ListObj(<<>>) ELSE SequenceList(args[1])
        read == IF IsException(list) THEN list ELSE FoldLeft(Enter, DictObj(empty), list.items)
    IN IF Len(args) > 1 THEN TypeError
       ELSE IF IsException(read) THEN read
       ELSE DictObj([k \in DOMAIN empty |->
                        IF kwargs[k] # NoEntry THEN kwargs[k] ELSE read.entries[k]])

DictEq(a, b) ==
    LET Of(k) == IF b[k] = NoEntry THEN False ELSE Texts!Eq(a[k], b[k])
    IN IF Cardinality(Names(a)) # Cardinality(Names(b)) THEN {False}
       ELSE {o \in {True, False, TypeError} :
               IF o = True THEN \A k \in Names(a) : Of(k) \notin {False, TypeError}
               ELSE \E k \in Names(a) : Of(k) = o}

DictNe(a, b) == {IF o.type = "bool" THEN Negated(o) ELSE o : o \in DictEq(a, b)}

\* items() is a copy, in the order the map happens to be walked in; keys(),
\* values() and iterating are copies of the same kind, of one half each.
DictItems(d) ==
    {[i \in 1 .. Len(order) |-> <<StrObj(order[i]), d[order[i]]>>] : order \in SetToSeqs(Names(d))}

-------------------------------------------------------------------------------
(* What sets and dictionaries should do. *)

\* No member stands for what another one stands for.
OneOfEach(s) == \A i, j \in s.members : i # j => Texts!Eq(i, j) = False
Comparable(a, b) == \A i \in a.members, j \in b.members : ~IsException(Texts!Eq(i, j))

\* Sets without two members that are equal are compared as sets, whatever the
\* order of the map: the answer is one, the same from both sides, and != its
\* opposite.  With such members the two sides may differ.
SetComparisonExact(a, b) ==
    /\ OneOfEach(a) /\ OneOfEach(b) /\ Comparable(a, b) =>
           LET same == /\ \A i \in a.members : \E j \in b.members : Texts!Eq(i, j) = True
                       /\ \A j \in b.members : \E i \in a.members : Texts!Eq(i, j) = True
           IN /\ SetEq(a, b) = {BoolObj(same)} /\ SetEq(b, a) = {BoolObj(same)}
              /\ SetNe(a, b) = {BoolObj(~same)}
    /\ True \in SetEq(a, b) => \A i \in a.members : \E j \in b.members : Texts!Eq(i, j) = True
    /\ SetEq(a, b) # {}

\* The operators obey the laws of sets, and comparing with == agrees with them
\* where members are told apart by more than their type.
SetAlgebraExact(a, b) ==
    /\ SetOr(a, b).members = (SetXor(a, b).members \cup SetAnd(a, b).members)
    /\ SetXor(a, b) = SetOr(SetSub(a, b), SetSub(b, a))
    /\ SetAnd(a, b) = SetSub(a, SetSub(a, b))
    /\ SetAnd(a, b) = SetAnd(b, a) /\ SetOr(a, b) = SetOr(b, a)
    /\ SetSub(a, b) = SetObj({}) /\ SetSub(b, a) = SetObj({}) <=> a = b

Paired(pair) == pair.type = "tuple" /\ Len(pair.items) = 2

\* A dictionary is made of at most one iterable, which may raise.  Made of pairs
\* whose keys are strings, and of keywords, it has the last value given to a name,
\* a keyword's before any pair's, and gives it back; equal dictionaries are
\* those with the same names and equal values, and deleting what was entered
\* restores what was not there.
DictionaryExact(empty, args, kwargs) ==
    LET d == DictNew(empty, args, kwargs)
        pairs == IF args = <<>> THEN <<>> ELSE args[1].items
        Latest(k) == {i \in 1 .. Len(pairs) : pairs[i].items[1] = StrObj(k)
                        /\ \A j \in i + 1 .. Len(pairs) : pairs[j].items[1] # StrObj(k)}
    IN IF Len(args) > 1 THEN d = TypeError
       ELSE IF args # <<>> /\ args[1].raises THEN d = ValueError
       ELSE (\A i \in 1 .. Len(pairs) : Paired(pairs[i]) /\ IsKey(pairs[i].items[1])) =>
           /\ d.type = "dict"
           /\ \A k \in DOMAIN empty :
                  LET key == StrObj(k)
                      got == DictGetitem(d.entries, key)
                  IN /\ kwargs[k] # NoEntry => got = kwargs[k]
                     /\ kwargs[k] = NoEntry /\ Latest(k) # {} =>
                            got = pairs[CHOOSE i \in Latest(k) : TRUE].items[2]
                     /\ kwargs[k] = NoEntry /\ Latest(k) = {} => got = KeyError
                     /\ DictContains(d.entries, key) = BoolObj(got # KeyError)
                     /\ DictGet(d.entries, <<key, TypeError>>) = IF got = KeyError THEN TypeError ELSE got
                     /\ got # KeyError =>
                            LET less == DictDelitem(d.entries, key).entries
                            IN /\ DictGetitem(less, key) = KeyError
                               /\ DictSetitem(less, key, got).entries = d.entries
                               /\ DictEq(less, d.entries) = {False}
           /\ \A items \in DictItems(d.entries) :
                  /\ Len(items) = Cardinality(Names(d.entries))
                  /\ \A i \in DOMAIN items : DictGetitem(d.entries, items[i][1]) = items[i][2]

\* Pairs make the dictionary that setting each value at its key would, one after
\* the other, as dict documents it, but for keys that are not strings: setting those
\* raises, and here they are passed over.
PairsEnterExact(empty, args) ==
    LET Set(d, pair) ==
            IF d.answer # NoneObj THEN d ELSE DictSetitem(d.entries, pair.items[1], pair.items[2])
        Made(pairs) == FoldLeft(Set, [entries |-> empty, answer |-> NoneObj], pairs)
    IN Len(args) = 1 /\ ~args[1].raises /\ (\A i \in DOMAIN args[1].items : Paired(args[1].items[i])) =>
           LET made == Made(args[1].items)
           IN (DictNew(empty, args, empty)
                   = IF made.answer = NoneObj THEN DictObj(made.entries) ELSE made.answer)
                  <=> (\A i \in DOMAIN args[1].items : IsKey(args[1].items[i].items[1]))

DictComparisonExact(a, b) ==
    LET answers == {Texts!Eq(a[k], b[k]) : k \in Names(a) \cap Names(b)}
    IN TypeError \notin answers =>
           /\ DictEq(a, b) = {BoolObj(Names(a) = Names(b) /\ answers \subseteq {True})}
           /\ DictEq(b, a) = DictEq(a, b)
           /\ DictNe(a, b) = {BoolObj(True \notin DictEq(a, b))}
===============================================================================
