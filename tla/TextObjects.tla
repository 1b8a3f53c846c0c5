------------------------------ MODULE TextObjects ------------------------------
(***************************************************************************)
(* Strings and bytes: py/string.go and py/bytes.go.  A string is the Go    *)
(* string of its UTF-8 bytes and is indexed by characters: the code        *)
(* converts between positions of the two kinds.                            *)
(***************************************************************************)
EXTENDS SequenceObjects

LOCAL INSTANCE SequencesExt

StrObj(bytes)   == [type |-> "str", bytes |-> bytes]
BytesObj(bytes) == [type |-> "bytes", bytes |-> bytes]

\* Characters of one byte and of two are enough to tell the positions apart.
UTF8Char(c) == IF c < 128 THEN <<c>> ELSE <<192 + (c \div 64), 128 + (c % 64)>>
UTF8(chars) == FlattenSeq([i \in 1 .. Len(chars) |-> UTF8Char(chars[i])])

IsStart(byte)  == byte < 128 \/ byte >= 192
RuneStarts(s)  == {i \in 0 .. Len(s) - 1 : IsStart(s[i + 1])}
Spaces         == {9, 10, 13, 32}

\* Go's s[a:b].
GoSlice(s, a, b) == IF a < 0 \/ b > Len(s) \/ a > b THEN Panic ELSE StrObj(SubSeq(s, a + 1, b))

-------------------------------------------------------------------------------
(* Positions *)

StrLen(s) == Cardinality(RuneStarts(s))

\* A changed BytePos: every character is taken for a byte.
BytePosOfByte(s, n) == IF n > Len(s) THEN Len(s) ELSE n
\* The byte where the n-th character starts, the end when there is none.
BytePos(s, n) ==
    LET at == {i \in RuneStarts(s) : Cardinality({j \in RuneStarts(s) : j < i}) = n}
    IN IF at = {} THEN Len(s) ELSE CHOOSE i \in at : TRUE

\* The characters from start to stop: byte positions at once when every
\* character is a byte, a search for both otherwise.
StrSlice(s, start, stop, length) ==
    IF start >= stop THEN StrObj(<<>>)
    ELSE IF length = Len(s) THEN GoSlice(s, start, stop)
    ELSE IF start <= 0 /\ stop >= length THEN StrObj(s)
    ELSE LET startI == BytePos(s, start)
             stopI  == BytePos(From(s, startI), stop - start) + startI
         IN GoSlice(s, startI, stopI)

\* []rune(s), and the rune at a byte position.
RuneAt(s, i) ==
    LET next == {j \in RuneStarts(s) : j > i}
        end  == IF next = {} THEN Len(s) ELSE CHOOSE j \in next : \A k \in next : j <= k
    IN SubSeq(s, i + 1, end)

AsRunes(s) == [n \in 1 .. StrLen(s) |-> RuneAt(s, BytePos(s, n - 1))]

StrGetitem(s, key) ==
    LET length == StrLen(s)
        ix     == GetIndices(key, length)
        i      == IndexIntCheck(key, length)
    IN IF key.type = "slice"
       THEN CASE IsException(ix) -> ix
              [] ix.type = "indices" /\ ix.step = 1 -> StrSlice(s, ix.start, ix.stop, length)
              [] ix.type = "indices" /\ ix.step # 1 -> StrObj(FlattenSeq(Taken(AsRunes(s), ix)))
       ELSE IF IsException(i) THEN i
       ELSE StrObj(RuneAt(s, BytePos(s, i.num)))

-------------------------------------------------------------------------------
(* Searching *)

\* Where sub is in s, from the left and without overlaps; an empty sub is before
\* every character and at the end.
Matches(s, sub) ==
    LET Here(i) == i + Len(sub) <= Len(s) /\ SubSeq(s, i + 1, i + Len(sub)) = sub
        from[i \in 0 .. Len(s) + 1] ==
            IF i > Len(s) THEN <<>>
            ELSE IF sub = <<>> THEN (IF i = Len(s) \/ i \in RuneStarts(s) THEN <<i>> ELSE <<>>) \o from[i + 1]
            ELSE IF Here(i) THEN <<i>> \o from[i + Len(sub)] ELSE from[i + 1]
    IN from[0]

StrContains(s, item) ==
    IF item.type # "str" THEN TypeError ELSE BoolObj(Matches(s, item.bytes) # <<>>)

\* The bounds of count and find: a negative end is the end, a negative start is
\* left as it is.
SearchStart(beg, size) == IF beg > size THEN size ELSE beg
SearchEnd(end, size)   == IF end < 0 \/ end > size THEN size ELSE end

\* args: sub, and the bounds that were given.
Argument(args, n, default) == IF Len(args) >= n THEN args[n] ELSE default

SearchPart(s, args) ==
    LET size == StrLen(s)
    IN StrSlice(s, SearchStart(Argument(args, 2, 0), size),
                   SearchEnd(Argument(args, 3, size), size), size)

StrCount(s, args) ==
    LET part == SearchPart(s, args)
    IN IF IsException(part) THEN part ELSE IntObj(Len(Matches(part.bytes, args[1])))

StrFind(s, args) ==
    LET size   == StrLen(s)
        before == StrSlice(s, 0, SearchStart(Argument(args, 2, 0), size), size)
        part   == SearchPart(s, args)
        found  == Matches(part.bytes, args[1])
    IN IF IsException(part) THEN part
       ELSE IF found = <<>> THEN IntObj(-1)
       ELSE IntObj(StrLen(before.bytes) + StrLen(UpTo(part.bytes, found[1])))

\* startswith(prefix, start) cuts bytes where the others count characters.
StrStartsWith(s, prefixes, start) ==
    LET rest == GoSlice(s, start, Len(s))
    IN IF IsException(rest) THEN rest
       ELSE BoolObj(\E p \in prefixes : IsPrefix(p, rest.bytes))

StrEndsWith(s, suffixes) == BoolObj(\E p \in suffixes : IsSuffix(p, s))

-------------------------------------------------------------------------------
(* Taking apart and putting together *)

\* strings.SplitN: n pieces at most, none for n = 0, all of them for n < 0; an
\* empty separator separates the characters.
SplitN(s, sep, n) ==
    LET all  == IF sep = <<>> THEN Matches(SubSeq(s, 1, Len(s)), sep) ELSE Matches(s, sep)
        cuts == IF sep = <<>> THEN SelectSeq(all, LAMBDA i : i \notin {0, Len(s)}) ELSE all
        used == IF n < 0 \/ Len(cuts) < n THEN cuts ELSE UpTo(cuts, n - 1)
        Begin(k) == IF k = 1 THEN 0 ELSE used[k - 1] + Len(sep)
        End(k)   == IF k > Len(used) THEN Len(s) ELSE used[k]
    IN IF n = 0 \/ (sep = <<>> /\ s = <<>>) THEN <<>>
       ELSE [k \in 1 .. Len(used) + 1 |-> SubSeq(s, Begin(k) + 1, End(k))]

\* Words, the blanks between them merged until n are found and the rest of the
\* string kept as it is from its first letter on.
FieldsN(s, n) ==
    LET Step(state, c) ==
            LET blank == c[1] \in Spaces
            IN IF n < 0 \/ Len(state.out) < n
               THEN CASE blank /\ state.cur # <<>> -> [out |-> Append(state.out, state.cur), cur |-> <<>>]
                      [] blank /\ state.cur = <<>> -> state
                      [] ~blank -> [state EXCEPT !.cur = @ \o c]
               ELSE IF Len(state.out) = n /\ state.cur = <<>> /\ blank THEN state
               ELSE [state EXCEPT !.cur = @ \o c]
        last == FoldLeft(Step, [out |-> <<>>, cur |-> <<>>], AsRunes(s))
    IN IF last.cur = <<>> THEN last.out ELSE Append(last.out, last.cur)

\* split(): -2 stands for "not given", and one more is what SplitN takes.
NotGiven == -2
StrSplit(s, sep, max) ==
    CASE sep.type = "str"  -> SplitN(s, sep.bytes, max + 1)
      [] sep.type = "None" -> FieldsN(s, max)
      [] OTHER             -> <<TypeError>>

\* strings.Replace: the first count matches, all of them when count is negative.
StrReplace(s, old, new, count) ==
    LET all  == Matches(s, old)
        used == IF count < 0 \/ count > Len(all) THEN all ELSE UpTo(all, count)
        Piece(k) == SubSeq(s, (IF k = 1 THEN 0 ELSE used[k - 1] + Len(old)) + 1,
                              IF k > Len(used) THEN Len(s) ELSE used[k])
    IN FlattenSeq([k \in 1 .. Len(used) + 1 |->
                       Piece(k) \o (IF k <= Len(used) THEN new ELSE <<>>)])

\* strip, lstrip and rstrip: the characters of chars, or blanks, at either end.
StripSet(chars) ==
    IF chars.type = "None" THEN {<<c>> : c \in Spaces} ELSE ToSet(AsRunes(chars.bytes))

Trim(s, left, right, Drop) ==
    LET runes == AsRunes(s)
        keep  == {i \in 1 .. Len(runes) : runes[i] \notin Drop}
        first == IF left THEN CHOOSE i \in keep : \A j \in keep : i <= j ELSE 1
        last  == IF right THEN CHOOSE i \in keep : \A j \in keep : i >= j ELSE Len(runes)
    IN IF keep = {} THEN (IF left \/ right THEN <<>> ELSE s)
       ELSE FlattenSeq(SubSeq(runes, first, last))

Strip(s, chars)  == Trim(s, TRUE, TRUE, StripSet(chars))
LStrip(s, chars) == Trim(s, TRUE, FALSE, StripSet(chars))
RStrip(s, chars) == Trim(s, FALSE, TRUE, StripSet(chars))

\* join() stops at the first item that is not a string, and at an iterator that
\* raises.
StrJoin(s, value) ==
    LET bad == SelectInSeq(value.items, LAMBDA x : x.type # "str")
        parts == [i \in 1 .. Len(value.items) |->
                     (IF i = 1 THEN <<>> ELSE s) \o value.items[i].bytes]
    IN IF bad # 0 THEN TypeError
       ELSE IF value.raises THEN ValueError
       ELSE StrObj(FlattenSeq(parts))

-------------------------------------------------------------------------------
(* Operators *)

\* Bytes one after the other, a prefix first.
Below(a, b) ==
    LET differ == {i \in 1 .. Len(a) : i <= Len(b) /\ a[i] # b[i]}
        first  == CHOOSE i \in differ : \A j \in differ : i <= j
    IN IF differ = {} THEN Len(a) < Len(b) ELSE a[first] < b[first]

ByteComparison(name, a, b) ==
    BoolObj(CASE name = "lt" -> Below(a, b)      [] name = "ge" -> ~Below(a, b)
              [] name = "gt" -> Below(b, a)      [] name = "le" -> ~Below(b, a)
              [] name = "eq" -> a = b            [] name = "ne" -> a # b)

StrMethod(name, a, b) ==
    CASE name \in {"add", "iadd"} /\ b.type = "str" -> StrObj(a.bytes \o b.bytes)
      [] name = "radd" /\ b.type = "str"            -> StrObj(b.bytes \o a.bytes)
      [] name \in {"mul", "rmul", "imul"} /\ IsSmall(b) ->
           StrObj(FlattenSeq([i \in 1 .. b.num |-> a.bytes]))
      [] name \in Comparisons /\ b.type = "str"     -> ByteComparison(name, a.bytes, b.bytes)
      [] OTHER -> NotImplemented

BytesMethod(name, a, b) ==
    CASE name \in {"add", "iadd"} /\ b.type = "bytes" -> BytesObj(a.bytes \o b.bytes)
      [] name \in Comparisons /\ b.type = "bytes"     -> ByteComparison(name, a.bytes, b.bytes)
      [] OTHER -> NotImplemented

TextMethod(name, a, b) ==
    CASE a.type = "str"   -> StrMethod(name, a, b)
      [] a.type = "bytes" -> BytesMethod(name, a, b)
      [] OTHER -> SequenceMethod(name, a, b)

TextUnary(name, a) ==
    CASE a.type = "str" /\ name = "len"  -> IntObj(StrLen(a.bytes))
      [] a.type = "str" /\ name = "bool" -> BoolObj(a.bytes # <<>>)
      [] a.type = "bytes"                -> NotImplemented
      [] OTHER -> SequenceUnary(name, a)

Texts == INSTANCE Operators WITH
    Unary <- TextUnary, Method <- TextMethod, PowMethod <- NumberPow

\* bytes(source, encoding, errors), whose source is nothing, a string, a count,
\* or something to iterate over; a value of an iteration has to be a byte.
GreatestByte == 255

BytesFromObject(value) ==
    LET made == [i \in 1 .. Len(value.items) |->
                    Bind(Index(value.items[i]), LAMBDA n : IF n \in 0 .. GreatestByte THEN IntObj(n) ELSE ValueError)]
        bad == SelectInSeq(made, IsException)
    IN IF bad # 0 THEN made[bad]
       ELSE IF value.raises THEN ValueError
       ELSE BytesObj([i \in 1 .. Len(made) |-> made[i].num])

BytesNew(x, encoding) ==
    LET named == encoding # "none"
    IN CASE x.type = "nothing" -> IF named THEN TypeError ELSE BytesObj(<<>>)
         [] x.type = "str" ->
              CASE encoding = "none"  -> TypeError
                [] encoding = "utf-8" -> BytesObj(x.bytes)
                [] OTHER              -> Exception("NotImplementedError")
         [] x.type \in {"int", "bigint"} ->
              Bind(IF x.type = "int" THEN x ELSE BigIntAsInt(x.num), LAMBDA n :
                   IF n < 0 THEN ValueError ELSE BytesObj([i \in 1 .. n |-> 0]))
         [] x.type = "bytes" -> IF named THEN TypeError ELSE x
         [] x.type = "iterable" -> IF named THEN TypeError ELSE BytesFromObject(x)
         [] OTHER -> TypeError
-------------------------------------------------------------------------------
(* What strings should do: the same as the sequence of their characters. *)

\* Length, indexing and slicing count characters, whatever their bytes.
CharacterwiseReading(chars, s) ==
    LET text == UTF8(chars)
        ix   == GetIndices(s, Len(chars))
    IN /\ StrLen(text) = Len(chars)
       /\ IF IsException(ix) THEN StrGetitem(text, s) = ix
          ELSE StrGetitem(text, s) = StrObj(UTF8(Taken(chars, ix)))
       /\ \A i \in -Len(chars) - 1 .. Len(chars) :
              StrGetitem(text, IntObj(i)) =
                  IF i \in -Len(chars) .. Len(chars) - 1
                  THEN StrObj(UTF8(<<chars[IF i < 0 THEN i + Len(chars) + 1 ELSE i + 1]>>))
                  ELSE IndexError

\* Strings are ordered as their characters are, and + and in are those of
\* sequences.
CharacterwiseOrder(a, b) ==
    LET Less_(x, y) ==
            \E n \in 0 .. Len(x) :
                /\ n < Len(y) /\ UpTo(x, n) = UpTo(y, n)
                /\ n = Len(x) \/ (n < Len(x) /\ x[n + 1] < y[n + 1])
        one == StrObj(UTF8(a))
        two == StrObj(UTF8(b))
    IN /\ Texts!Lt(one, two) = BoolObj(Less_(a, b))
       /\ Texts!Ge(one, two) = BoolObj(~Less_(a, b))
       /\ Texts!Eq(one, two) = BoolObj(a = b)
       /\ Texts!Add(one, two) = StrObj(UTF8(a \o b))
       /\ StrContains(one.bytes, two) =
              BoolObj(\E i \in 0 .. Len(a) - Len(b) : SubSeq(a, i + 1, i + Len(b)) = b)
       /\ StrStartsWith(one.bytes, {two.bytes}, 0) = BoolObj(IsPrefix(b, a))
       /\ StrEndsWith(one.bytes, {two.bytes}) = BoolObj(IsSuffix(b, a))
       /\ Texts!Eq(one, BytesObj(two.bytes)) = False
       /\ Texts!Add(one, BytesObj(two.bytes)) = TypeError

\* find gives the first character where a non-empty sub starts between a start
\* and an end counted from the left, count how many such places there are that do
\* not overlap; a negative start is not counted from the end but cuts the Go
\* string below its first byte, when every character is a byte.
SearchingExact(chars, sub, beg, end) ==
    LET s     == UTF8(chars)
        stop  == IF end > Len(chars) THEN Len(chars) ELSE end
        at    == {i \in beg .. stop - Len(sub) : SubSeq(chars, i + 1, i + Len(sub)) = sub}
        args  == <<UTF8(sub), beg, end>>
        found == StrFind(s, args)
        count == StrCount(s, args)
    IN sub # <<>> /\ end >= 0 =>
           /\ beg >= 0 => found.num = IF at = {} THEN -1 ELSE CHOOSE i \in at : \A j \in at : i <= j
           /\ beg >= 0 => /\ count.num <= Cardinality(at)
                          /\ count.num * Len(sub) >= Cardinality(at)
           /\ beg < 0 /\ Len(s) = Len(chars) /\ stop > beg => found = Panic /\ count = Panic

\* The pieces of a split put together again are the string; no piece but the
\* last has the separator in it, and the last has none either when there is room
\* for more pieces.  Replacing is splitting and joining with something else.
SplittingExact(chars, sep, max, new) ==
    LET s      == UTF8(chars)
        by     == UTF8(sep)
        pieces == StrSplit(s, StrObj(by), max)
        Items(p) == [items |-> [i \in 1 .. Len(p) |-> StrObj(p[i])], raises |-> FALSE]
        all    == StrSplit(s, StrObj(by), NotGiven)
    IN sep # <<>> =>
           /\ max = -1 <=> pieces = <<>>
           /\ max # -1 =>
                  /\ StrJoin(by, Items(pieces)) = StrObj(s)
                  /\ max >= 0 => Len(pieces) <= max + 1
                  /\ \A i \in 1 .. Len(pieces) :
                         i < Len(pieces) \/ max < 0 \/ Len(pieces) < max + 1 =>
                             Matches(pieces[i], by) = <<>>
           /\ StrObj(StrReplace(s, by, UTF8(new), -1)) = StrJoin(UTF8(new), Items(all))
           /\ StrReplace(s, by, by, max) = s
           /\ Len(all) = StrCount(s, <<by>>).num + 1

\* Without a separator the words are the runs of characters that are not blank;
\* with a bound the last piece keeps what is left, from its first letter on.
WordsExact(chars, max) ==
    LET s     == UTF8(chars)
        all   == StrSplit(s, NoneObj, NotGiven)
        some  == StrSplit(s, NoneObj, max)
        NonBlank(p) == SelectSeq(p, LAMBDA c : c \notin Spaces)
    IN /\ \A i \in 1 .. Len(all) : all[i] # <<>> /\ NonBlank(all[i]) = all[i]
       /\ FlattenSeq(all) = NonBlank(s)
       /\ max >= 0 => /\ Len(some) = IF Len(all) > max THEN max + 1 ELSE Len(all)
                      /\ UpTo(some, Len(some) - 1) = UpTo(all, Len(some) - 1)
                      /\ FlattenSeq([i \in 1 .. Len(some) |-> NonBlank(some[i])]) = NonBlank(s)
       /\ Strip(s, NoneObj) = LStrip(RStrip(s, NoneObj), NoneObj)
       /\ Strip(s, NoneObj) = RStrip(LStrip(s, NoneObj), NoneObj)
       /\ \E i, j \in 0 .. Len(chars) :
              /\ Strip(s, NoneObj) = SubSeq(s, i + 1, j)
              /\ \A k \in (1 .. i) \cup (j + 1 .. Len(s)) : s[k] \in Spaces
              /\ i < j => s[i + 1] \notin Spaces /\ s[j] \notin Spaces
===============================================================================
