-------------------------------- MODULE Ranges --------------------------------
(***************************************************************************)
(* Indices, slices and ranges: py/slice.go, py/range.go and the index      *)
(* helpers of py/internal.go.  All of them compute in machine words.       *)
(***************************************************************************)
EXTENDS IntObjects, Sequences, FiniteSets

NoneObj == [type |-> "None"]

TypeError  == Exception("TypeError")
IndexError == Exception("IndexError")
ValueError == Exception("ValueError")
Panic      == Exception("panic")      \* not an exception: the Go program stops

\* The number of an answer that is one, or the exception it is.
Bind(o, Op(_)) == IF IsException(o) THEN o ELSE Op(o.num)

Index(o) ==
    CASE IsSmall(o)        -> IntObj(o.num)
      [] o.type = "bigint" -> BigIntAsInt(o.num)
      [] OTHER             -> TypeError

FromTheEnd(i, length) == IF i < 0 THEN Wrap(i + length) ELSE i

IndexIntCheck(o, max) ==
    Bind(Index(o), LAMBDA i : IF FromTheEnd(i, max) \in 0 .. max - 1
                              THEN IntObj(FromTheEnd(i, max)) ELSE IndexError)

-------------------------------------------------------------------------------
(* Slices *)

Slice(start, stop, step) == [type |-> "slice", start |-> start, stop |-> stop, step |-> step]

SliceNew(args) ==
    CASE Len(args) = 1 -> Slice(NoneObj, args[1], NoneObj)
      [] Len(args) = 2 -> Slice(args[1], args[2], NoneObj)
      [] Len(args) = 3 -> Slice(args[1], args[2], args[3])
      [] OTHER         -> TypeError

\* A bound of a slice, brought to where the positions 0 .. length - 1 end.
Clipped(i, length, step) ==
    LET j == FromTheEnd(i, length)
    IN IF j < 0 THEN (IF step < 0 THEN -1 ELSE 0)
       ELSE IF j >= length THEN (IF step < 0 THEN length - 1 ELSE length)
       ELSE j

SliceStep(o) ==
    IF o = NoneObj THEN IntObj(1)
    ELSE Bind(Index(o), LAMBDA n : IF n = 0 THEN ValueError
                                   ELSE IntObj(IF n < -IntMax THEN -IntMax ELSE n))

SliceBound(o, length, step, default) ==
    IF o = NoneObj THEN IntObj(default)
    ELSE Bind(Index(o), LAMBDA i : IntObj(Clipped(i, length, step)))

SliceLength(start, stop, step) ==
    IF (step < 0 /\ stop >= start) \/ (step > 0 /\ start >= stop) THEN 0
    ELSE Quo(IF step < 0 THEN stop - start + 1 ELSE stop - start - 1, step) + 1

GetIndices(s, length) ==
    Bind(SliceStep(s.step), LAMBDA step :
    Bind(SliceBound(s.start, length, step, IF step < 0 THEN length - 1 ELSE 0), LAMBDA start :
    Bind(SliceBound(s.stop, length, step, IF step < 0 THEN -1 ELSE length), LAMBDA stop :
        [type |-> "indices", start |-> start, stop |-> stop, step |-> step,
         count |-> SliceLength(start, stop, step)])))

\* Two slices are compared as Go values.
SliceEq(a, b) == IF b.type # "slice" THEN NotImplemented ELSE BoolObj(a = b)

-------------------------------------------------------------------------------
(* Ranges *)

\* The length is computed once, in machine words; -step of the smallest word is
\* that word again, and a step of 0 between a start and a lower stop divides by
\* zero.
Span(start, stop, step)   == IF step > 0 THEN <<start, stop>> ELSE <<stop, start>>
Stride(step)              == IF step > 0 THEN step ELSE Wrap(-step)
DividesByZero(start, stop, step) == step = 0 /\ stop < start

ComputeRangeLength(start, stop, step) ==
    LET lo == Span(start, stop, step)[1]
        hi == Span(start, stop, step)[2]
    IN IF lo >= hi THEN 0
       ELSE Wrap(Quo(Wrap(hi - lo - 1), Stride(step)) + 1)

RangeObj(start, stop, step) ==
    IF DividesByZero(start, stop, step) THEN Panic
    ELSE [type |-> "range", start |-> start, stop |-> stop, step |-> step,
          length |-> ComputeRangeLength(start, stop, step)]

RangeNew(args) ==
    IF Len(args) \notin 1 .. 3 THEN TypeError
    ELSE Bind(Index(args[1]), LAMBDA start :
         IF Len(args) = 1 THEN RangeObj(0, start, 1)
         ELSE Bind(Index(args[2]), LAMBDA stop :
              Bind(IF Len(args) = 3 THEN Index(args[3]) ELSE IntObj(1), LAMBDA step :
                   RangeObj(start, stop, step))))

ComputeItem(r, i) == Wrap(r.start + Wrap(i * r.step))

RangeGetitem(r, key) ==
    Bind(Index(key), LAMBDA i :
        LET j == FromTheEnd(i, r.length)
        IN IF j < 0 \/ j >= r.length THEN IndexError ELSE IntObj(ComputeItem(r, j)))

\* An iterator's position after k calls of __next__, and whether the next one
\* ends it.  The position wraps around as any machine word does.
RangePosition(r, k) == Wrap(r.start + k * r.step)
\* A changed RangeExhausted: the stop is included.
RangeExhaustedLate(r, i) == IF r.step >= 0 THEN i > r.stop ELSE i < r.stop
RangeExhausted(r, i) == IF r.step >= 0 THEN i >= r.stop ELSE i <= r.stop

DefaultIndex(o, default) == IF o = NoneObj THEN IntObj(default) ELSE Index(o)

\* A changed Between: a bound before the start stays there.
BetweenFromBelow(i, length) == IF i > length THEN length ELSE i
Between(i, length) == IF i < 0 THEN 0 ELSE IF i > length THEN length ELSE i

\* A slice of a range: the defaults are those of a rising slice whatever the
\* step, and a falling one turns the range it found around.
ComputeRangeSlice(r, s) ==
    Bind(DefaultIndex(s.start, 0), LAMBDA start :
    Bind(DefaultIndex(s.stop, r.length), LAMBDA stop :
    Bind(DefaultIndex(s.step, 1), LAMBDA step :
        LET from == Between(FromTheEnd(start, r.length), r.length)
            to   == Between(FromTheEnd(stop, r.length), r.length)
            a    == ComputeItem(r, from)
            b    == ComputeItem(r, to)
            by   == Wrap(step * r.step)
        IN CASE step = 0 -> ValueError
             [] step # 0 /\ by < 0 /\ from < to  -> RangeObj(Wrap(b - 1), Wrap(a - 1), by)
             [] step # 0 /\ by < 0 /\ from >= to -> RangeObj(Wrap(b + 1), Wrap(a + 1), by)
             [] step # 0 /\ by >= 0              -> RangeObj(a, b, by))))

\* A left range that counts by one does not look at the step of the other.
RangeEq(a, b) ==
    IF b.type # "range" THEN NotImplemented
    ELSE BoolObj(/\ a.length = b.length
                 /\ \/ a.length = 0
                    \/ a.start = b.start /\ (a.step = 1 \/ a.step = b.step))
-------------------------------------------------------------------------------
(* What slices and ranges should be. *)

\* The positions a slice of 0 .. length - 1 stands for.
Chosen(s, length) ==
    LET step == IF s.step = NoneObj THEN 1 ELSE s.step.num
        Normal(o, default) ==
            IF o = NoneObj THEN default ELSE IF o.num < 0 THEN o.num + length ELSE o.num
        first == Normal(s.start, IF step < 0 THEN length - 1 ELSE 0)
        last  == Normal(s.stop, IF step < 0 THEN -1 ELSE length)
        from  == IF step < 0 THEN (IF first >= length THEN length - 1 ELSE first)
                             ELSE (IF first < 0 THEN 0 ELSE first)
    IN {k \in 0 .. length - 1 :
            /\ IF step < 0 THEN k <= first /\ k > last ELSE k >= first /\ k < last
            /\ (k - from) % Abs(step) = 0}

\* A slice has the positions it stands for, in the order of its step, for every
\* machine word its bounds and its step are.
SliceExact(s, length) ==
    LET ix == GetIndices(s, length)
        At(k) == ix.start + k * ix.step
    IN IF s.step # NoneObj /\ s.step.num = 0 THEN ix = ValueError
       ELSE /\ {At(k) : k \in 0 .. ix.count - 1} = Chosen(s, length)
            /\ ix.count = Cardinality(Chosen(s, length))

\* How many items an iterator gives before it ends; Many when it never does.
Many == 2^Width
Given(r) ==
    LET ends == {k \in 0 .. Many - 1 : RangeExhausted(r, RangePosition(r, k))}
    IN IF ends = {} THEN Many ELSE CHOOSE k \in ends : \A j \in ends : k <= j

\* The range of the language: start, start + step, ... before stop.
TrueLength(start, stop, step) ==
    IF step > 0 THEN IF start >= stop THEN 0 ELSE ((stop - start - 1) \div step) + 1
    ELSE IF start <= stop THEN 0 ELSE ((start - stop - 1) \div (-step)) + 1

\* A range is the range of the language when a machine word holds the distance of
\* its ends and one step beyond its last item is still a machine
\* word; then its length, its items and its iterator agree.
RangeExact(start, stop, step) ==
    LET r == RangeObj(start, stop, step)
        n == TrueLength(start, stop, step)
    IN /\ step # 0 /\ Abs(stop - start) <= IntMax /\ start + n * step \in IntRange =>
              /\ r.length = n
              /\ Given(r) = n
              /\ \A i \in 0 .. n - 1 :
                     /\ RangeGetitem(r, IntObj(i)) = IntObj(start + i * step)
                     /\ RangeGetitem(r, IntObj(i - n)) = IntObj(start + i * step)
       /\ step = 0 => r = Panic \/ r.length = 0 \/ Given(r) = Many

\* A slice of a rising range by a rising step is the range of the items the
\* slice chooses.
RangeSliceExact(r, s) ==
    LET part == ComputeRangeSlice(r, s)
        ix   == GetIndices(s, r.length)
    IN r.step > 0 /\ ix.type = "indices" /\ ix.step > 0 =>
           /\ part.length = ix.count
           /\ \A k \in 0 .. ix.count - 1 :
                  ComputeItem(part, k) = ComputeItem(r, ix.start + k * ix.step)
===============================================================================
