------------------------------ MODULE IntObjects ------------------------------
(***************************************************************************)
(* Integers of the language: py/int.go, py/bigint.go and py/bool.go.       *)
(*                                                                         *)
(* An Int is a machine word of Width bits that wraps around, a BigInt any  *)
(* integer, and the operations move values between the two.  A method of   *)
(* an object answers an object, NotImplemented or an exception, each a     *)
(* record with a "type".                                                   *)
(***************************************************************************)
EXTENDS Integers

CONSTANTS
    Width,        \* bits of a machine word: 64 in the program
    Mantissa,     \* bits of a number that a float keeps: 53
    MaxExponent   \* bits of the largest integer converted to a float: 1023

ASSUME WidthAssumption == Width \in Nat /\ Width >= 2
\* Floats are coarser than machine words, and reach beyond them.
ASSUME FloatAssumption == Mantissa \in 1 .. Width - 1 /\ MaxExponent \in Nat /\ MaxExponent >= Width

IntMax == 2^(Width - 1) - 1
IntMin == -(2^(Width - 1))

IntRange == IntMin .. IntMax

\* What a machine operation leaves of the exact result n.
Wrap(n) == ((n - IntMin) % 2^Width) + IntMin

-------------------------------------------------------------------------------
(* Objects and answers. *)

IntObj(n)  == [type |-> "int", num |-> n]
BigObj(n)  == [type |-> "bigint", num |-> n]
BoolObj(b) == [type |-> "bool", num |-> IF b THEN 1 ELSE 0]
FloatObj(n) == [type |-> "float", num |-> n]

True  == BoolObj(TRUE)
False == BoolObj(FALSE)

NotImplemented == [type |-> "NotImplemented"]
Exception(class) == [type |-> "exception", class |-> class]

IsException(o) == o.type = "exception"

DivisionByZero     == Exception("ZeroDivisionError")
NegativeShiftCount == Exception("ValueError")
OverflowError      == Exception("OverflowError")
CantConvert        == Exception("TypeError")

\* The two results of a division, or the one answer given instead of them.
Two(q, r)  == [type |-> "two", quo |-> q, rem |-> r]
Quotient(d)  == IF d.type = "two" THEN d.quo ELSE d
Remainder(d) == IF d.type = "two" THEN d.rem ELSE d

\* What convertToInt and ConvertToBigInt accept, and what both make of it.
IsSmall(o)   == o.type \in {"int", "bool"}
IsInteger(o) == o.type \in {"int", "bool", "bigint"}

\* A method that works on the two numbers when the other object is one of
\* those, and leaves the operation to it when it is not.
WithInt(b, Op(_))    == IF IsSmall(b) THEN Op(b.num) ELSE NotImplemented
WithBigInt(b, Op(_)) == IF IsInteger(b) THEN Op(b.num) ELSE NotImplemented

\* A BigInt that fits a machine word becomes an Int.
MaybeInt(n) == IF n \in IntRange THEN IntObj(n) ELSE BigObj(n)

\* A BigInt as a machine word.
BigIntAsInt(n) == IF n \in IntRange THEN IntObj(n) ELSE OverflowError

\* Go's division truncates towards zero.
Abs(n)    == IF n < 0 THEN -n ELSE n
Quo(a, b) == LET q == Abs(a) \div Abs(b) IN IF (a < 0) = (b < 0) THEN q ELSE -q
Rem(a, b) == a - b * Quo(a, b)

-------------------------------------------------------------------------------
(* Bits.  An integer has a bit for every position, the sign from some      *)
(* position on.                                                            *)

Bit(n, i) == (n \div 2^i) % 2

\* The integer whose bits are those of a and b combined by F; High positions
\* are enough for both.
Bitwise(a, b, High, F(_, _)) ==
    LET sum[i \in 0 .. High] ==
            IF i = High THEN -(2^High) * F(Bit(a, i), Bit(b, i))
            ELSE 2^i * F(Bit(a, i), Bit(b, i)) + sum[i + 1]
    IN sum[0]

AndBit(x, y) == x * y
OrBit(x, y)  == x + y - x * y
XorBit(x, y) == (x + y) % 2

IntAnd(a, b) == Bitwise(a, b, Width - 1, AndBit)
IntOr(a, b)  == Bitwise(a, b, Width - 1, OrBit)
IntXor(a, b) == Bitwise(a, b, Width - 1, XorBit)

\* Twice the width is enough for the BigInts of an instance.
BigAnd(a, b) == Bitwise(a, b, 2 * Width, AndBit)
BigOr(a, b)  == Bitwise(a, b, 2 * Width, OrBit)
BigXor(a, b) == Bitwise(a, b, 2 * Width, XorBit)

-------------------------------------------------------------------------------
(* Int: the operations of the machine, guarded against overflow. *)

\* The largest number whose square is below IntMax.
SqrtIntMax == CHOOSE n \in 0 .. IntMax : n * n < IntMax /\ (n + 1) * (n + 1) >= IntMax

IntAdd(a, b) ==
    LET overflow == IF a >= 0 THEN b > Wrap(IntMax - a) ELSE b < Wrap(IntMin - a)
    IN IF overflow THEN MaybeInt(a + b) ELSE IntObj(Wrap(a + b))

\* For a negative b the guard reads "less" where an overflow is "more": nearly
\* every difference takes the long way round, and the ones that overflow do not.
IntSub(a, b) ==
    LET overflow == IF b >= 0 THEN a < Wrap(IntMin + b) ELSE a < Wrap(IntMax + b)
    IN IF overflow THEN MaybeInt(a - b) ELSE IntObj(Wrap(a - b))

\* Go negates a machine word in the machine too: -IntMin is IntMin.
WrapAbs(a) == IF a < 0 THEN Wrap(-a) ELSE a

IntMul(a, b) ==
    IF WrapAbs(a) <= SqrtIntMax /\ WrapAbs(b) <= SqrtIntMax
    THEN IntObj(Wrap(a * b))
    ELSE MaybeInt(a * b)

ShiftLeft(a, b)  == Wrap(a * 2^b)
ShiftRight(a, b) == a \div 2^b

IntLshift(a, b) ==
    IF b < 0 THEN NegativeShiftCount
    ELSE IF ShiftRight(ShiftLeft(a, b), b) # a THEN BigObj(a * 2^b)
    ELSE IntObj(ShiftLeft(a, b))

\* A negative count is refused; with counted the other way round, the guard
\* still looks at the number that is shifted, and a negative count shifts
\* everything out.
IntRshift(a, b) == IF b < 0 THEN NegativeShiftCount ELSE IntObj(ShiftRight(a, b))
IntRrshift(a, b) ==
    IF b < 0 THEN NegativeShiftCount
    ELSE IntObj(IF a < 0 THEN 0 ELSE ShiftRight(b, a))

\* A changed IntDivMod: the division of the machine, which rounds towards zero.
IntDivModTowardsZero(a, b) ==
    IF b = 0 THEN DivisionByZero ELSE Two(IntObj(Wrap(Quo(a, b))), IntObj(Rem(a, b)))
\* Floor division from the machine's.
IntDivMod(a, b) ==
    IF b = 0 THEN DivisionByZero
    ELSE LET q == Wrap(Quo(a, b))
             r == Rem(a, b)
         IN IF (a < 0) # (b < 0) /\ r # 0
            THEN Two(IntObj(Wrap(q - 1)), IntObj(Wrap(r + b)))
            ELSE Two(IntObj(q), IntObj(r))

\* round(a, digits): the digits below the last one kept become zeros, a half
\* rounds away from zero.  The digits a machine word cannot count are a
\* BigInt's business.
RoundTo(a, scale) ==
    LET up == 2 * (Abs(a) % scale) >= scale
        r  == (Abs(a) - (Abs(a) % scale)) + IF up THEN scale ELSE 0
    IN IF a < 0 THEN -r ELSE r

MaxScale == CHOOSE d \in 1 .. Width : 10^d > IntMax /\ 10^(d - 1) <= IntMax

IntRound(a, digits) ==
    IF digits >= 0 THEN IntObj(a)
    ELSE IF digits <= -MaxScale \/ a = IntMin THEN BigObj(RoundTo(a, 10^(-digits)))
    ELSE IntObj(Wrap(RoundTo(a, 10^(-digits))))

-------------------------------------------------------------------------------
(* The float of an integer. *)

BitLen(n) == CHOOSE k \in 0 .. Abs(n) : Abs(n) < 2^k /\ (k = 0 \/ 2^(k - 1) <= Abs(n))

\* The integer nearest to p / q, of two the even one.
NearestTo(p, q) ==
    LET below == p \div q
        rest  == p % q
    IN IF 2 * rest > q \/ (2 * rest = q /\ below % 2 = 1) THEN below + 1 ELSE below

\* What the machine makes of an integer of any size.
RoundedFloat(n) ==
    LET unit == 2^(BitLen(n) - Mantissa)
        r    == NearestTo(Abs(n), unit) * unit
    IN IF BitLen(n) <= Mantissa THEN n ELSE IF n < 0 THEN -r ELSE r

\* A BigInt is first shifted down to what a machine word holds, and only then
\* rounded.  One of as many bits as a float's largest power is refused.
BigFloat(n) ==
    LET over == BitLen(n) - (Width - 1)
    IN IF BitLen(n) > MaxExponent THEN OverflowError
       ELSE FloatObj(IF over > 0 THEN RoundedFloat(ShiftRight(n, over)) * 2^over ELSE RoundedFloat(n))

-------------------------------------------------------------------------------
(* BigInt: the operations of exact integers. *)

BigDivMod(a, b) ==
    IF b = 0 THEN DivisionByZero
    ELSE LET below == (a < 0) # (b < 0) /\ Rem(a, b) # 0
         IN IF below THEN Two(MaybeInt(Quo(a, b) - 1), MaybeInt(Rem(a, b) + b))
                     ELSE Two(MaybeInt(Quo(a, b)), MaybeInt(Rem(a, b)))

\* a to the power of b, in the remainders of a modulus m when there is one that
\* is not 0, whatever its sign.  A negative power is a float's business.
FloatPower(a, b) == [type |-> "floatpower", base |-> a, power |-> b]

Power(a, b) == IF b = 0 THEN 1 ELSE a^b

NegativePower(a, b) ==
    LET x == BigFloat(a)
        y == BigFloat(b)
    IN IF IsException(x) THEN x ELSE IF IsException(y) THEN y ELSE FloatPower(x.num, y.num)

BigPow(a, b, m) ==
    IF b < 0 THEN IF m.type = "None" THEN NegativePower(a, b) ELSE Exception("TypeError")
    ELSE IF m.type = "None" THEN MaybeInt(Power(a, b))
    ELSE IF m.num = 0 THEN MaybeInt(Power(a, b))
    ELSE MaybeInt(Power(a, b) % Abs(m.num))

BigShift(count, Op(_)) ==
    IF count \notin IntRange THEN OverflowError
    ELSE IF count < 0 THEN NegativeShiftCount
    ELSE MaybeInt(Op(count))

BigRound(a, digits) ==
    IF digits >= 0 THEN BigObj(a) ELSE BigObj(RoundTo(a, 10^(-digits)))

-------------------------------------------------------------------------------
(* The methods by name: __add__ is "add", and "radd" and "iadd" are its        *)
(* reflected and its in-place form.                                            *)

IntSum(name, a, b) ==
    WithInt(b, LAMBDA y : CASE name \in {"add", "radd", "iadd"} -> IntAdd(a.num, y)
                            [] name \in {"sub", "isub"}         -> IntSub(a.num, y)
                            [] name = "rsub"                    -> IntSub(y, a.num)
                            [] name \in {"mul", "rmul", "imul"} -> IntMul(a.num, y))

IntDivision(name, a, b) ==
    LET d == WithInt(b, LAMBDA y : IF name \in {"rdivmod", "rfloordiv", "rmod"}
                                   THEN IntDivMod(y, a.num) ELSE IntDivMod(a.num, y))
    IN CASE name \in {"divmod", "rdivmod"}                  -> d
         [] name \in {"floordiv", "rfloordiv", "ifloordiv"} -> Quotient(d)
         [] name \in {"mod", "rmod", "imod"}                -> Remainder(d)

IntShift(name, a, b) ==
    WithInt(b, LAMBDA y : CASE name \in {"lshift", "ilshift"} -> IntLshift(a.num, y)
                            [] name = "rlshift"               -> IntLshift(y, a.num)
                            [] name \in {"rshift", "irshift"} -> IntRshift(a.num, y)
                            [] name = "rrshift"               -> IntRrshift(a.num, y))

IntBits(name, a, b) ==
    WithInt(b, LAMBDA y : CASE name \in {"and", "rand", "iand"} -> IntObj(IntAnd(a.num, y))
                            [] name \in {"xor", "rxor", "ixor"} -> IntObj(IntXor(a.num, y))
                            [] name \in {"or", "ror", "ior"}    -> IntObj(IntOr(a.num, y)))

\* Both kinds of integer raise to a power as BigInts.
IntegerPow(a, b, m) ==
    IF m.type # "None" /\ ~IsInteger(m) THEN NotImplemented
    ELSE WithBigInt(b, LAMBDA y : BigPow(a.num, y, m))
IntegerRpow(a, b) == WithBigInt(b, LAMBDA y : BigPow(y, a.num, [type |-> "None"]))

Holds(name, x, y) ==
    CASE name = "lt" -> x < y  [] name = "le" -> x <= y [] name = "eq" -> x = y
      [] name = "ne" -> x # y  [] name = "gt" -> x > y  [] name = "ge" -> x >= y

IntComparison(name, a, b) == WithInt(b, LAMBDA y : BoolObj(Holds(name, a.num, y)))

BigSum(name, a, b) ==
    WithBigInt(b, LAMBDA y : CASE name \in {"add", "radd", "iadd"} -> MaybeInt(a.num + y)
                               [] name \in {"sub", "isub"}         -> MaybeInt(a.num - y)
                               [] name = "rsub"                    -> MaybeInt(y - a.num)
                               [] name \in {"mul", "rmul", "imul"} -> MaybeInt(a.num * y))

BigDivision(name, a, b) ==
    LET d == WithBigInt(b, LAMBDA y : IF name \in {"rdivmod", "rfloordiv", "rmod"}
                                      THEN BigDivMod(y, a.num) ELSE BigDivMod(a.num, y))
    IN CASE name \in {"divmod", "rdivmod"}                  -> d
         [] name \in {"floordiv", "rfloordiv", "ifloordiv"} -> Quotient(d)
         [] name \in {"mod", "rmod", "imod"}                -> Remainder(d)

BigShifts(name, a, b) ==
    WithBigInt(b, LAMBDA y :
        CASE name \in {"lshift", "ilshift"} -> BigShift(y, LAMBDA n : a.num * 2^n)
             [] name = "rlshift"               -> BigShift(a.num, LAMBDA n : y * 2^n)
             [] name \in {"rshift", "irshift"} -> BigShift(y, LAMBDA n : ShiftRight(a.num, n))
             [] name = "rrshift"               -> BigShift(a.num, LAMBDA n : ShiftRight(y, n)))

BigBits(name, a, b) ==
    WithBigInt(b, LAMBDA y : CASE name \in {"and", "rand", "iand"} -> MaybeInt(BigAnd(a.num, y))
                               [] name \in {"xor", "rxor", "ixor"} -> MaybeInt(BigXor(a.num, y))
                               [] name \in {"or", "ror", "ior"}    -> MaybeInt(BigOr(a.num, y)))

BigComparison(name, a, b) == WithBigInt(b, LAMBDA y : BoolObj(Holds(name, a.num, y)))

\* A bool has no arithmetic of its own, and equals what convertToBool takes for
\* a truth value; everything else is unlike it.
BoolComparison(name, a, b) ==
    LET alike == b.type \in {"bool", "int", "float"} /\ b.num \in {0, 1}
    IN CASE name = "eq" -> BoolObj(alike /\ a.num = b.num)
         [] name = "ne" -> BoolObj(~alike \/ a.num # b.num)
         [] OTHER       -> NotImplemented

IntUnary(name, a) ==
    CASE name = "neg" -> IF a.num = IntMin THEN BigObj(-IntMin) ELSE IntObj(-a.num)
      [] name = "abs" -> IF a.num = IntMin THEN BigObj(-IntMin) ELSE IntObj(Abs(a.num))
      [] name = "invert" -> IntObj(-a.num - 1)
      [] name = "bool"   -> BoolObj(a.num # 0)
      [] name \in {"pos", "int", "index", "trunc", "floor", "ceil"} -> a

BigUnary(name, a) ==
    CASE name = "neg" -> BigObj(-a.num)
      [] name = "abs" -> BigObj(Abs(a.num))
      [] name = "invert" -> BigObj(-a.num - 1)
      [] name = "bool"   -> BoolObj(a.num # 0)
      [] name = "index"  -> BigIntAsInt(a.num)
      [] name \in {"pos", "int", "trunc", "floor", "ceil"} -> a

BoolUnary(name, a) ==
    CASE name = "bool" -> a [] name = "index" -> IntObj(a.num) [] OTHER -> NotImplemented
===============================================================================
