---------------------------- MODULE SequenceObjects ----------------------------
(***************************************************************************)
(* Lists and tuples: py/list.go, py/tuple.go and the conversions of        *)
(* py/sequence.go, as functions of the items.                              *)
(***************************************************************************)
EXTENDS NumberMethods, Ranges

LOCAL INSTANCE SequencesExt

ListObj(items)  == [type |-> "list", items |-> items]
TupleObj(items) == [type |-> "tuple", items |-> items]
Nil             == [type |-> "nil"]     \* a place in an array that nobody filled

\* What an operation that changes a list leaves, and what it answers.
Change(items, answer) == [items |-> items, answer |-> answer]
Changed(items) == Change(items, NoneObj)

\* Go's s[:i] and s[i:].
UpTo(s, i) == SubSeq(s, 1, i)
From(s, i) == SubSeq(s, i + 1, Len(s))

-------------------------------------------------------------------------------
(* Reading *)

Taken(items, ix) == [k \in 1 .. ix.count |-> items[ix.start + (k - 1) * ix.step + 1]]

ItemAt(items, key) ==
    LET i == IndexIntCheck(key, Len(items)) IN IF IsException(i) THEN i ELSE items[i.num + 1]

ListGetitem(l, key) ==
    IF key.type # "slice" THEN ItemAt(l.items, key)
    ELSE LET ix == GetIndices(key, Len(l.items))
         IN IF IsException(ix) THEN ix ELSE ListObj(Taken(l.items, ix))

\* A tuple's slice with a step of one is a Go slice of it, whose bounds have to
\* be in order.
TupleGetitem(t, key) ==
    IF key.type # "slice" THEN ItemAt(t.items, key)
    ELSE LET ix == GetIndices(key, Len(t.items))
         IN CASE IsException(ix) -> ix
              [] ix.type = "indices" /\ ix.step # 1 -> TupleObj(Taken(t.items, ix))
              [] ix.type = "indices" /\ ix.step = 1 ->
                   IF ix.start > ix.stop THEN Panic
                   ELSE TupleObj(From(UpTo(t.items, ix.stop), ix.start))

-------------------------------------------------------------------------------
(* Changing a list.  The loops over an extended slice run while i < stop: they *)
(* do nothing for a falling slice, whose start is above, unless the slice is   *)
(* empty, and step outside, with what they have done done, when the last       *)
(* addition wraps around.                                                      *)

FallsOff(ix) ==
    IF ix.step < 0 THEN ix.start < ix.stop
    ELSE ix.count > 0 /\ ix.start + ix.count * ix.step > IntMax

LoopCount(ix) == IF ix.step < 0 THEN 0 ELSE ix.count
LoopEnds(ix)  == IF FallsOff(ix) THEN Panic ELSE NoneObj

\* A changed SetPlainSlice: what was in the slice stays, after what is assigned.
SetPlainSliceInserts(items, ix, value) ==
    LET head == UpTo(items, ix.start) \o value.items
    IN IF value.raises THEN Change(head, ValueError)
       ELSE Changed(head \o From(items, ix.start))
\* value is what the right side iterates over: its items, and whether it raises
\* after them.  The tail is put aside and the items are appended one by one; an
\* exception between the two leaves the list without the tail.
SetPlainSlice(items, ix, value) ==
    LET head == UpTo(items, ix.start) \o value.items
    IN IF value.raises THEN Change(head, ValueError)
       ELSE Changed(head \o From(items, ix.stop))

SetExtendedSlice(items, ix, value) ==
    LET Overwritten ==
            [p \in 1 .. Len(items) |->
                LET ks == {k \in 1 .. LoopCount(ix) : ix.start + (k - 1) * ix.step + 1 = p}
                IN IF ks = {} THEN items[p] ELSE value.items[CHOOSE k \in ks : TRUE]]
    IN CASE value.raises -> Change(items, ValueError)
         [] ~value.raises /\ Len(value.items) # ix.count -> Change(items, ValueError)
         [] ~value.raises /\ Len(value.items) = ix.count ->
              Change(Overwritten, LoopEnds(ix))

ListSetSlice(items, s, value) ==
    LET ix == GetIndices(s, Len(items))
    IN CASE IsException(ix) -> Change(items, ix)
         [] ix.type = "indices" /\ ix.step = 1 -> SetPlainSlice(items, ix, value)
         [] ix.type = "indices" /\ ix.step # 1 -> SetExtendedSlice(items, ix, value)

ListSetItem(items, key, value) ==
    LET i == IndexIntCheck(key, Len(items))
    IN IF IsException(i) THEN Change(items, i) ELSE Changed(ReplaceAt(items, i.num + 1, value))

\* One item after the other goes, the later ones moving down meanwhile; the loop
\* over an empty falling slice takes the items one more place down each time.
DelSlice(items, ix) ==
    LET gone == IF ix.step < 0 /\ FallsOff(ix)
                THEN {ix.start + k * (ix.step - 1) + 1 : k \in 0 .. Len(items)}
                ELSE {ix.start + (k - 1) * ix.step + 1 : k \in 1 .. LoopCount(ix)}
        left == SelectSeq([p \in 1 .. Len(items) |-> <<p, items[p]>>],
                          LAMBDA x : x[1] \notin gone)
    IN [p \in 1 .. Len(left) |-> left[p][2]]

ListDelItem(items, key) ==
    IF key.type # "slice"
    THEN LET i == IndexIntCheck(key, Len(items))
         IN IF IsException(i) THEN Change(items, i) ELSE Changed(RemoveAt(items, i.num + 1))
    ELSE LET ix == GetIndices(key, Len(items))
         IN CASE IsException(ix) -> Change(items, ix)
              [] ix.type = "indices" /\ ix.step = 1 ->
                   Changed(UpTo(items, ix.start) \o From(items, ix.stop))
              [] ix.type = "indices" /\ ix.step # 1 ->
                   Change(DelSlice(items, ix), LoopEnds(ix))

\* extend takes the items of a list, and silently nothing of anything else.
ListExtendMethod(items, args) ==
    CASE Len(args) # 1 -> Change(items, TypeError)
      [] Len(args) = 1 /\ args[1].type = "list" -> Changed(items \o args[1].items)
      [] Len(args) = 1 /\ args[1].type # "list" -> Changed(items)

ListAppendMethod(items, args) ==
    IF Len(args) # 1 THEN Change(items, TypeError) ELSE Changed(Append(items, args[1]))

-------------------------------------------------------------------------------
(* Operators *)

\* The items count times over, in an array of that many machine words.
Repeated(items, count) ==
    LET m == Len(items)
        n == Wrap(count * m)
    IN CASE n <= 0 -> <<>>
         [] n > 0 /\ n % m = 0 -> [k \in 1 .. n |-> items[((k - 1) % m) + 1]]
         [] n > 0 /\ n % m # 0 -> <<Panic>>

\* Items are numbers, lists and tuples, or have no == at all.  Two lists, or two
\* tuples, are asked whether their own items are equal.
RECURSIVE AllEqual(_, _)

ItemEq(x, y) ==
    IF x.type = y.type /\ x.type \in {"list", "tuple"} THEN AllEqual(x.items, y.items) ELSE Num!Eq(x, y)

\* The first two items that differ, or cannot tell, decide.
AllEqual(a, b) ==
    LET answers == [i \in 1 .. Len(a) |-> ItemEq(a[i], b[i])]
        first   == SelectInSeq(answers, LAMBDA x : IsException(x) \/ x = False)
    IN IF Len(a) # Len(b) THEN False
       ELSE IF first = 0 THEN True ELSE answers[first]

Negated(o) == IF o.type = "bool" THEN BoolObj(o = False) ELSE o

ListMethod(name, a, b) ==
    CASE name \in {"add", "iadd"} /\ b.type = "list" -> ListObj(a.items \o b.items)
      [] name = "radd" /\ b.type = "list"            -> ListObj(b.items \o a.items)
      [] name \in {"mul", "rmul", "imul"} /\ IsSmall(b) -> ListObj(Repeated(a.items, b.num))
      [] name = "eq" /\ b.type = "list"              -> AllEqual(a.items, b.items)
      [] name = "ne" /\ b.type = "list"              -> Negated(AllEqual(a.items, b.items))
      [] OTHER -> NotImplemented

\* The right operand is copied to the place where it would end when the left
\* one is as long as it.
TupleAdd(a, b) ==
    [k \in 1 .. Len(a) + Len(b) |->
        CASE k \in Len(b) + 1 .. 2 * Len(b) -> b[k - Len(b)]
          [] k \notin Len(b) + 1 .. 2 * Len(b) /\ k <= Len(a) -> a[k]
          [] OTHER -> Nil]

TupleMethod(name, a, b) ==
    CASE name \in {"add", "iadd"} /\ b.type = "tuple" -> TupleObj(TupleAdd(a.items, b.items))
      [] name = "radd" /\ b.type = "tuple"            -> TupleObj(TupleAdd(b.items, a.items))
      [] name \in {"mul", "rmul", "imul"} /\ IsSmall(b) -> TupleObj(Repeated(a.items, b.num))
      [] name = "eq" /\ b.type = "tuple"              -> AllEqual(a.items, b.items)
      [] name = "ne" /\ b.type = "tuple"              -> Negated(AllEqual(a.items, b.items))
      [] OTHER -> NotImplemented

SequenceMethod(name, a, b) ==
    CASE a.type = "list"  -> ListMethod(name, a, b)
      [] a.type = "tuple" -> TupleMethod(name, a, b)
      [] OTHER -> NumberMethod(name, a, b)

SequenceUnary(name, a) ==
    CASE a.type \in {"list", "tuple"} /\ name = "len"  -> IntObj(Len(a.items))
      [] a.type \in {"list", "tuple"} /\ name = "bool" -> BoolObj(a.items # <<>>)
      [] OTHER -> NumberUnary(name, a)

Seqs == INSTANCE Operators WITH
    Unary <- SequenceUnary, Method <- SequenceMethod, PowMethod <- NumberPow

\* obj in seq: the first item that is equal, or cannot tell, decides.
SequenceContains(items, obj) ==
    LET answers == [i \in 1 .. Len(items) |-> ItemEq(items[i], obj)]
        first   == SelectInSeq(answers, LAMBDA x : IsException(x) \/ x = True)
    IN IF first = 0 THEN False ELSE answers[first]

\* tuple(v), list(v) and set(v) of what v iterates over.
SequenceTuple(value) == IF value.raises THEN ValueError ELSE TupleObj(value.items)
SequenceList(value)  == IF value.raises THEN ValueError ELSE ListObj(value.items)

\* The tuple is a list's array, turned around in place.
TupleReverse(items) == [i \in 1 .. Len(items) |-> items[Len(items) + 1 - i]]

-------------------------------------------------------------------------------
(* Sorting.  Go's stable sort of up to twenty items is an insertion sort that  *)
(* asks Less for neighbours; a comparison that raises counts as "not less", is *)
(* remembered when it is the first, and does not stop the sort.                *)

Key(keyed, x) ==
    IF ~keyed THEN x ELSE IF x.type = "list" THEN TypeError ELSE Num!Neg(x)

Compared(s, x, y) ==
    LET kx == Key(s.keyed, x)
        ky == Key(s.keyed, y)
    IN IF IsException(kx) THEN kx ELSE IF IsException(ky) THEN ky
       ELSE IF s.reverse THEN Seqs!Lt(ky, kx) ELSE Seqs!Lt(kx, ky)

Less(s, x, y) == Compared(s, x, y) = True

\* Item i sinks below the ones that are not less than it.
SwapNeighbours(items, j) == [items EXCEPT ![j] = items[j - 1], ![j - 1] = items[j]]

Sink(s, state, i) ==
    LET sunk[j \in 1 .. i] ==
            \* the state when item j has just arrived at place j
            IF j = i THEN state
            ELSE LET before == sunk[j + 1]
                     answer == Compared(s, before.items[j + 1], before.items[j])
                 IN IF before.still THEN before
                    ELSE [items |-> IF answer = True THEN SwapNeighbours(before.items, j + 1)
                                                     ELSE before.items,
                          still |-> answer # True,
                          error |-> IF before.error = NoneObj /\ IsException(answer)
                                    THEN answer ELSE before.error]
    IN [sunk[1] EXCEPT !.still = FALSE]

SortInPlace(items, s) ==
    LET sorted[i \in 0 .. Len(items)] ==
            IF i <= 1 THEN [items |-> items, still |-> FALSE, error |-> NoneObj]
            ELSE Sink(s, sorted[i - 1], i)
    IN Change(sorted[Len(items)].items, sorted[Len(items)].error)
-------------------------------------------------------------------------------
(* What lists and tuples should do. *)

\* Reading by a slice gives the items the slice chooses, in its order; a tuple
\* says the same but for a slice by one whose start is above its stop.
ReadingExact(items, s) ==
    LET ix   == GetIndices(s, Len(items))
        list == ListGetitem(ListObj(items), s)
        tuple == TupleGetitem(TupleObj(items), s)
    IN IF IsException(ix) THEN list = ix /\ tuple = ix
       ELSE /\ list.items = [k \in 1 .. ix.count |-> items[ix.start + (k - 1) * ix.step + 1]]
            /\ IF ix.step = 1 /\ ix.start > ix.stop THEN tuple = Panic
               ELSE tuple.items = list.items

\* Whether an assignment or a deletion does what the language says: the slice
\* rises, starts below its stop when it takes every item, and stays inside the
\* machine words.
Sound(ix) ==
    IF ix.step = 1 THEN ix.start <= ix.stop ELSE ix.step > 0 /\ ~FallsOff(ix)

\* An item outside the slice stays where the ones before it leave it, and the
\* ones inside are the new ones: reading the slice of the result back gives
\* them, and deleting it gives the others.
WritingExact(items, s, value) ==
    LET ix   == GetIndices(s, Len(items))
        set  == ListSetSlice(items, s, value)
        del  == ListDelItem(items, s)
        Others == [p \in 1 .. Len(items) |-> <<p - 1, items[p]>>]
        rest == SelectSeq(Others, LAMBDA x : x[1] \notin Chosen(s, Len(items)))
    IN ix.type = "indices" /\ Sound(ix) =>
           /\ del.answer = NoneObj
           /\ del.items = [p \in 1 .. Len(rest) |-> rest[p][2]]
           /\ set.answer = NoneObj =>
                  /\ Len(set.items) = Len(items) - ix.count + Len(value.items)
                  /\ \A k \in 1 .. Len(value.items) :
                         set.items[ix.start + (k - 1) * ix.step + 1] = value.items[k]
                  /\ \A p \in 1 .. Len(items) : p - 1 \notin Chosen(s, Len(items)) =>
                         set.items[IF p <= ix.start \/ ix.step # 1 THEN p
                                   ELSE p - ix.count + Len(value.items)] = items[p]
           /\ ~value.raises /\ (ix.step = 1 \/ Len(value.items) = ix.count) =>
                  set.answer = NoneObj

\* A change refused with an exception leaves the list as it was, but for the tail
\* a plain slice loses to a right side that raises.
RefusedLeavesAlone(items, s, value) ==
    LET ix  == GetIndices(s, Len(items))
        set == ListSetSlice(items, s, value)
        del == ListDelItem(items, s)
        Refused(change) == IsException(change.answer) /\ change.answer # Panic
    IN /\ Refused(set) /\ ~(ix.type = "indices" /\ ix.step = 1) => set.items = items
       /\ Refused(del) => del.items = items

\* + joins, for tuples only when the right one is empty or as long as the left
\* one; * repeats; in place they say the same.
JoiningExact(a, b, n) ==
    LET times == Seqs!Mul(ListObj(a), n)
    IN /\ Seqs!Add(ListObj(a), ListObj(b)) = ListObj(a \o b)
       /\ Seqs!IAdd(ListObj(a), ListObj(b)) = ListObj(a \o b)
       /\ (Seqs!Add(TupleObj(a), TupleObj(b)) = TupleObj(a \o b))
              <=> (b = <<>> \/ Len(a) = Len(b))
       /\ Seqs!Add(ListObj(a), TupleObj(b)) = TypeError
       /\ Seqs!Mul(n, ListObj(a)) = times /\ Seqs!IMul(ListObj(a), n) = times
       /\ n.num * Len(a) \in IntRange =>
              /\ Len(times.items) = IF n.num > 0 THEN n.num * Len(a) ELSE 0
              /\ \A k \in 1 .. n.num : SubSeq(times.items, (k - 1) * Len(a) + 1, k * Len(a)) = a

\* Objects that are the same number, or sequences of one kind with the same
\* items; two objects without an == cannot tell.
RECURSIVE Alike(_, _)
Alike(x, y) ==
    \/ "num" \in DOMAIN x /\ "num" \in DOMAIN y /\ x.num = y.num
    \/ /\ "items" \in DOMAIN x /\ x.type = y.type /\ Len(x.items) = Len(y.items)
       /\ \A i \in DOMAIN x.items : Alike(x.items[i], y.items[i])
CannotTell(x, y) == DOMAIN x = {"type"} /\ x = y

FirstOf(S) == CHOOSE i \in S : \A j \in S : i <= j

\* Sequences of one length are equal when all their items are, to any depth; the
\* first two that are not decide otherwise, or make the comparison an error; !=
\* is the opposite, and `in` stops at the first item that is equal, or an error.
EqualityExact(a, b) ==
    LET eq == Seqs!Eq(ListObj(a), ListObj(b))
        unlike == {i \in DOMAIN a \cap DOMAIN b : ~Alike(a[i], b[i])}
        Stops(x) == {i \in DOMAIN a : Alike(a[i], x) \/ CannotTell(a[i], x)}
    IN /\ eq = CASE Len(a) # Len(b) -> False
                  [] Len(a) = Len(b) /\ unlike = {} -> True
                  [] OTHER -> IF CannotTell(a[FirstOf(unlike)], b[FirstOf(unlike)]) THEN TypeError ELSE False
       /\ Seqs!Ne(ListObj(a), ListObj(b)) = Negated(eq)
       /\ eq = Seqs!Eq(TupleObj(a), TupleObj(b))
       /\ Seqs!Eq(ListObj(a), TupleObj(b)) = False
       /\ \A k \in DOMAIN b :
              SequenceContains(a, b[k]) =
                  IF Stops(b[k]) = {} THEN False
                  ELSE IF Alike(a[FirstOf(Stops(b[k]))], b[k]) THEN True ELSE TypeError

\* Sorting loses and invents no item even when comparisons raise, and says so
\* when one did; otherwise the keys rise (fall, in reverse) and equal ones keep
\* their order.
SortingExact(items, s) ==
    LET out == SortInPlace(items, s)
        Count(seq, x) == Cardinality({i \in 1 .. Len(seq) : seq[i] = x})
    IN /\ Len(out.items) = Len(items)
       /\ \A i \in 1 .. Len(items) : Count(out.items, items[i]) = Count(items, items[i])
       /\ out.answer = NoneObj =>
              \A i, j \in 1 .. Len(items) : i < j =>
                  /\ ~Less(s, out.items[j], out.items[i])
                  /\ out.items[i] # out.items[j] /\ ~Less(s, out.items[i], out.items[j]) =>
                         \E p, q \in 1 .. Len(items) :
                             p < q /\ items[p] = out.items[i] /\ items[q] = out.items[j]
       /\ (\A i, j \in 1 .. Len(items) : i # j => ~IsException(Compared(s, items[i], items[j])))
              => out.answer = NoneObj
       /\ (Len(items) > 1 /\ \A i, j \in 1 .. Len(items) :
              i # j => IsException(Compared(s, items[i], items[j]))) => IsException(out.answer)
===============================================================================
