----------------------------- MODULE NumberMethods -----------------------------
(***************************************************************************)
(* The operators on numbers: which method of which number answers, and     *)
(* what the answers should be.                                             *)
(***************************************************************************)
EXTENDS FloatObjects

Sums        == {"add", "radd", "iadd", "sub", "rsub", "isub", "mul", "rmul", "imul"}
TrueDivs    == {"truediv", "rtruediv", "itruediv"}
FloorDivs   == {"floordiv", "rfloordiv", "ifloordiv"}
Divisions   == {"divmod", "rdivmod", "mod", "rmod", "imod"}
Shifts      == {"lshift", "rlshift", "ilshift", "rshift", "rrshift", "irshift"}
Bits        == {"and", "rand", "iand", "xor", "rxor", "ixor", "or", "ror", "ior"}
Comparisons == {"lt", "le", "eq", "ne", "gt", "ge"}

IntMethod(name, a, b) ==
    CASE name \in Sums                  -> IntSum(name, a, b)
      [] name \in TrueDivs              -> IntegerTrueDiv(name, a, b)
      [] name \in FloorDivs \cup Divisions -> IntDivision(name, a, b)
      [] name \in Shifts                -> IntShift(name, a, b)
      [] name \in Bits                  -> IntBits(name, a, b)
      [] name \in Comparisons           -> IntComparison(name, a, b)
      [] name = "rpow"                  -> IntegerRpow(a, b)

BigIntMethod(name, a, b) ==
    CASE name \in Sums                  -> BigSum(name, a, b)
      [] name \in TrueDivs              -> IntegerTrueDiv(name, a, b)
      [] name \in FloorDivs \cup Divisions -> BigDivision(name, a, b)
      [] name \in Shifts                -> BigShifts(name, a, b)
      [] name \in Bits                  -> BigBits(name, a, b)
      [] name \in Comparisons           -> BigComparison(name, a, b)
      [] name = "rpow"                  -> IntegerRpow(a, b)

FloatMethod(name, a, b) ==
    CASE name \in Sums        -> FloatSum(name, a, b)
      [] name \in TrueDivs    -> FloatTrueDiv(name, a, b)
      [] name \in FloorDivs   -> FloatFloorDiv(name, a, b)
      [] name \in Divisions   -> FloatDivision(name, a, b)
      [] name \in Comparisons -> FloatComparison(name, a, b)
      [] OTHER                -> NotImplemented

NumberMethod(name, a, b) ==
    CASE a.type = "int"    -> IntMethod(name, a, b)
      [] a.type = "bigint" -> BigIntMethod(name, a, b)
      [] a.type = "float"  -> FloatMethod(name, a, b)
      [] a.type = "bool" /\ name \in Comparisons       -> BoolComparison(name, a, b)
      [] a.type = "complex" /\ name \in Sums           -> ComplexSum(name, a, b)
      [] a.type = "complex" /\ name \in Comparisons    -> ComplexComparison(name, a, b)
      [] OTHER -> NotImplemented

NumberUnary(name, a) ==
    IF name = "float" /\ a.type \in {"int", "bigint"} THEN ConvertToFloat(a)
    ELSE CASE a.type = "int"     -> IF name = "len" THEN NotImplemented ELSE IntUnary(name, a)
           [] a.type = "bigint"  -> IF name = "len" THEN NotImplemented ELSE BigUnary(name, a)
           [] a.type = "bool"    -> BoolUnary(name, a)
           [] a.type = "float"   -> FloatUnary(name, a)
           [] a.type = "complex" -> ComplexUnary(name, a)
           [] OTHER -> NotImplemented

NumberPow(a, b, m) ==
    IF a.type \in {"int", "bigint"} THEN IntegerPow(a, b, m) ELSE NotImplemented

Num == INSTANCE Operators WITH
    Unary <- NumberUnary, Method <- NumberMethod, PowMethod <- NumberPow

-------------------------------------------------------------------------------
(* What the operators should answer. *)

Operators == {"add", "sub", "mul", "floordiv", "mod", "lshift", "rshift", "and", "or", "xor"}

Result(op, a, b) ==
    CASE op = "add"      -> Num!Add(a, b)      [] op = "sub"    -> Num!Sub(a, b)
      [] op = "mul"      -> Num!Mul(a, b)      [] op = "mod"    -> Num!Mod(a, b)
      [] op = "floordiv" -> Num!FloorDiv(a, b) [] op = "lshift" -> Num!Lshift(a, b)
      [] op = "rshift"   -> Num!Rshift(a, b)   [] op = "and"    -> Num!And(a, b)
      [] op = "or"       -> Num!Or(a, b)       [] op = "xor"    -> Num!Xor(a, b)

InPlace(op, a, b) ==
    CASE op = "add"      -> Num!IAdd(a, b)      [] op = "sub"    -> Num!ISub(a, b)
      [] op = "mul"      -> Num!IMul(a, b)      [] op = "mod"    -> Num!IMod(a, b)
      [] op = "floordiv" -> Num!IFloorDiv(a, b) [] op = "lshift" -> Num!ILshift(a, b)
      [] op = "rshift"   -> Num!IRshift(a, b)   [] op = "and"    -> Num!IAnd(a, b)
      [] op = "or"       -> Num!IOr(a, b)       [] op = "xor"    -> Num!IXor(a, b)

\* The floor of x / y, and what is left of x.
Floor(x, y)   == IF y > 0 THEN x \div y ELSE (-x) \div (-y)
Modulo(x, y)  == x - y * Floor(x, y)

\* A number that k bits hold, but for zeros below them.
HasBits(n, k) == \E e \in 0 .. MaxExponent + 1 : n % 2^e = 0 /\ Abs(n) < 2^(e + k)

\* No float is nearer to n than f, and of two f is the even one.
ClosestFloat(f, n) ==
    LET away == Abs(n - f)
    IN /\ HasBits(f, Mantissa)
       /\ \A g \in n - away + 1 .. n + away - 1 : ~HasBits(g, Mantissa)
       /\ HasBits(2 * n - f, Mantissa) /\ f # n => HasBits(f, Mantissa - 1)

\* Where a BigInt is rounded twice: what is shifted out of it tells it from the
\* half way between two floats, and the float below that is the even one.
TwiceRounded(n) ==
    LET out == 2^(BitLen(n) - (Width - 1))
        top == n \div out
    IN /\ BitLen(n) >= Width
       /\ n % out # 0
       /\ HasBits(top, Mantissa + 1) /\ ~HasBits(top, Mantissa)
       /\ \E e \in 0 .. Width : top % 2^(e + 2) = 2^e

\* An integer with no float.
Beyond(o) == o.type = "bigint" /\ Abs(o.num) >= 2^MaxExponent

\* The float of an integer is the nearest one but for those, and there is one but
\* for those beyond; a float that is whole is that integer.
ConversionExact(a) ==
    LET f == Num!MakeFloat(a)
    IN /\ a.type \in {"int", "bigint"} =>
              IF Beyond(a) THEN f = OverflowError
              ELSE f.type = "float" /\ (ClosestFloat(f.num, a.num) <=> ~(a.type = "bigint" /\ TwiceRounded(a.num)))
       /\ a.type = "float" => (Num!MakeInt(a) = MaybeInt(a.num)) <=> a.num # IntMax + 1

OnlyIntegers == {"lshift", "rshift", "and", "or", "xor"}

\* The number a real is beside a float: itself, or its float.
AsReal(o) == IF o.type = "bool" THEN o.num ELSE Num!MakeFloat(o).num

\* The exact answer, in the one form a number has: a float when one of the two
\* is, an Int when it fits a machine word, a BigInt otherwise.  Beside an integer
\* with no float a float has no operators.
Expected(op, a, b) ==
    LET aFloat  == "float" \in {a.type, b.type}
        Of(o)   == IF aFloat THEN AsReal(o) ELSE o.num
        Made(n) == IF ~aFloat THEN MaybeInt(n)
                   ELSE IF Abs(RoundedFloat(n)) < 2^(MaxExponent + 1) THEN FloatObj(RoundedFloat(n))
                   ELSE Infinite
        x == Of(a)
        y == Of(b)
    IN CASE aFloat /\ (op \in OnlyIntegers \/ Beyond(a) \/ Beyond(b)) -> Exception("TypeError")
         [] op = "add" -> Made(x + y)
         [] op = "sub" -> Made(x - y)
         [] op = "mul" -> Made(x * y)
         [] op \in {"floordiv", "mod"} /\ y = 0 -> DivisionByZero
         [] op = "floordiv" /\ y # 0 -> Made(Floor(x, y))
         [] op = "mod" /\ y # 0      -> Made(Modulo(x, y))
         [] op \in {"lshift", "rshift"} /\ y \notin IntRange -> OverflowError
         [] op \in {"lshift", "rshift"} /\ y \in IntRange /\ y < 0 -> NegativeShiftCount
         [] op = "lshift" /\ y \in 0 .. IntMax -> Made(x * 2^y)
         [] op = "rshift" /\ y \in 0 .. IntMax -> Made(Floor(x, 2^y))
         [] op = "and" -> Made(BigAnd(x, y))
         [] op = "or"  -> Made(x + y - BigAnd(x, y))
         [] op = "xor" -> Made(x + y - 2 * BigAnd(x, y))

\* Where the code does not detect an overflow: a difference above the largest
\* Int, a product with the smallest Int, whose absolute value the code takes
\* for a small one, and the smallest Int divided by -1.
Undetected(op, x, y) ==
    \/ op = "sub" /\ x - y > IntMax
    \/ /\ op = "mul" /\ IntMin \in {x, y} /\ x * y \notin IntRange
       /\ WrapAbs(x) <= SqrtIntMax /\ WrapAbs(y) <= SqrtIntMax
    \/ op = "floordiv" /\ x = IntMin /\ y = -1

\* Where it answers otherwise than its own methods do elsewhere: bools have no
\* operators between themselves, a bool is shifted by a negative count without
\* a complaint, and // of floats does not look for a zero.
Uneven(op, a, b) ==
    \/ a.type = "bool" /\ b.type = "bool"
    \/ op = "rshift" /\ a.type = "bool" /\ b.type = "int" /\ b.num < 0
    \/ op = "floordiv" /\ "float" \in {a.type, b.type} /\ b.num = 0 /\ ~Beyond(a)

Machine(a, b) == IsSmall(a) /\ IsSmall(b) /\ "int" \in {a.type, b.type}

Differs(op, a, b) == Uneven(op, a, b) \/ (Machine(a, b) /\ Undetected(op, a.num, b.num))

\* Where // and % of floats round on the way: the quotient, before its floor, or
\* the product that is taken away.
Coarse(op, a, b) ==
    /\ op \in {"floordiv", "mod"} /\ "float" \in {a.type, b.type} /\ ~Beyond(a) /\ ~Beyond(b)
    /\ Abs(AsReal(a)) + Abs(AsReal(b)) > 2^Mantissa

\* Every operator gives the exact answer, rounded once where a float is involved,
\* for every pair of numbers but those, and for each of the first another one;
\* in place it gives the same.
OperatorsExact(a, b) ==
    \A op \in Operators :
        /\ ~Coarse(op, a, b) => ((Result(op, a, b) = Expected(op, a, b)) <=> ~Differs(op, a, b))
        /\ InPlace(op, a, b) = Result(op, a, b)

\* divmod is the two divisions at once, and / is the fraction of the two floats,
\* or refuses.
DivisionsAgree(a, b) ==
    LET d == Num!DivMod(a, b)
        q == Num!TrueDiv(a, b)
    IN /\ a.type # "bool" \/ b.type # "bool" =>
              /\ Remainder(d) = Num!Mod(a, b)
              /\ "float" \in {a.type, b.type} \/ Quotient(d) = Num!FloorDiv(a, b)
       /\ CASE "bool" \in {a.type, b.type} /\ "float" \notin {a.type, b.type} ->
                   q = Exception("TypeError")
            [] Beyond(a) \/ Beyond(b) -> q = OverflowError
            [] b.num = 0 -> q.type = "exception" /\ q.class = "ZeroDivisionError"
            [] OTHER -> IF q.type = "float" THEN q.num * AsReal(b) = AsReal(a)
                        ELSE q.over[1] * AsReal(b) = AsReal(a) * q.over[2]

\* round to tens: the nearest multiple, a half away from zero.
Rounded(n) == LET r == ((Abs(n) + 5) \div 10) * 10 IN IF n < 0 THEN -r ELSE r

\* The operators on one number, on the rare forms of it too: a BigInt that
\* would fit an Int.
UnariesExact(a) ==
    a.type \in {"int", "bigint"} =>
        /\ Num!Neg(a).num = -a.num
        /\ Num!Abs(a).num = Abs(a.num)
        /\ Num!Invert(a).num = -a.num - 1
        /\ Num!Pos(a) = a
        /\ Num!Not(a) = BoolObj(a.num = 0)
        /\ Num!MakeInt(a) = a
        /\ a.type = "int" => \A o \in {Num!Neg(a), Num!Abs(a), Num!Invert(a)} :
                                 o = MaybeInt(o.num)
        /\ LET r == IF a.type = "int" THEN IntRound(a.num, -1) ELSE BigRound(a.num, -1)
           IN (r.num = Rounded(a.num)) <=> ~(a.type = "int" /\ a.num # IntMin /\ MaxScale > 1
                                               /\ Rounded(a.num) \notin IntRange)

\* Where the sign of a modulus is ignored, or that it is zero.
SignIgnored(n, m) == m = 0 \/ (m < 0 /\ Modulo(n, m) # 0)

\* Powers, with a modulus and without one: a negative power is a float's, or
\* refused, and with a modulus the answer is what % leaves of the power, as pow
\* documents it, but for those: there it is not.
PowersExact(a, b, m) ==
    a.type \in {"int", "bigint"} /\ b.type \in {"int", "bool"} =>
        LET p == Num!Pow(a, b, m)
            n == Power(a.num, b.num)
        IN CASE b.num < 0 /\ m.type # "None" -> p = Exception("TypeError")
             [] b.num < 0 /\ m.type = "None" ->
                    p = IF Beyond(a) THEN OverflowError ELSE FloatPower(AsReal(a), b.num)
             [] b.num >= 0 /\ m.type = "None" -> p = MaybeInt(n)
             [] b.num >= 0 /\ m.type # "None" ->
                    (p = IF m.num = 0 THEN DivisionByZero ELSE MaybeInt(Modulo(n, m.num)))
                        <=> ~SignIgnored(n, m.num)

\* An integer beside a float that it is not told from: its float is another
\* number.
Blurred(a, b) == "float" \in {a.type, b.type} /\ (AsReal(a) # a.num \/ AsReal(b) # b.num)

\* A float beside an integer with no float.
Apart(a, b) == "float" \in {a.type, b.type} /\ (Beyond(a) \/ Beyond(b))

\* Exactly one of less, equal and greater, with which the other two agree, and
\* never the one that is the other way round.
Consistent(a, b) ==
    /\ <<Num!Lt(a, b), Num!Eq(a, b), Num!Gt(a, b)>> \in
           {<<True, False, False>>, <<False, True, False>>, <<False, False, True>>}
    /\ Num!Le(a, b) = Num!Not(Num!Gt(a, b))
    /\ Num!Ge(a, b) = Num!Not(Num!Lt(a, b))
    /\ Num!Lt(a, b) = True => a.num < b.num
    /\ Num!Gt(a, b) = True => a.num > b.num

\* The comparisons of two real numbers are those of what they denote, whatever
\* their types, and agree with each other; where rounding hides a difference the
\* two are equal.  Two bools are only equal or not; a bool does not know a BigInt
\* or a complex number, which know it, nor a float an integer that has none.
ComparisonsNumeric(a, b) ==
    LET ordered == {a.type, b.type} # {"bool"} /\ "complex" \notin {a.type, b.type} /\ ~Apart(a, b)
        stranger == (a.type = "bool" /\ b.type \in {"bigint", "complex"}) \/ Apart(a, b)
        same == IF "complex" \in {a.type, b.type} THEN Re(a) = Re(b) /\ Im(a) = Im(b) ELSE a.num = b.num
        known == {a.type, b.type} # {"bigint", "complex"}
        blurred == ordered /\ Blurred(a, b)
    IN /\ blurred => Consistent(a, b)
       /\ ordered /\ ~blurred =>
              /\ Num!Lt(a, b) = BoolObj(a.num < b.num)
              /\ Num!Le(a, b) = BoolObj(a.num <= b.num)
              /\ Num!Gt(a, b) = BoolObj(a.num > b.num)
              /\ Num!Ge(a, b) = BoolObj(a.num >= b.num)
       /\ ~ordered => \A o \in {Num!Lt(a, b), Num!Ge(b, a)} : o = Exception("TypeError")
       /\ known /\ ~stranger /\ ~blurred => Num!Eq(a, b) = BoolObj(same)
       /\ stranger => Num!Eq(a, b) = False
       /\ Num!Ne(a, b) = Num!Not(Num!Eq(a, b))

\* Sums and products of complex numbers are those of the plane.
ComplexExact(a, b) ==
    "complex" \in {a.type, b.type} /\ "bigint" \notin {a.type, b.type} =>
        /\ Num!Add(a, b) = Plus(a, b)
        /\ Num!Sub(a, b) = Minus(a, b)
        /\ Num!Mul(a, b) = Times(a, b)
===============================================================================
