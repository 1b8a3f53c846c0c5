----------------------------- MODULE FloatObjects -----------------------------
(***************************************************************************)
(* Floats and complex numbers: py/float.go and py/complex.go, on the       *)
(* values that are whole numbers.  Every result is rounded to the bits a   *)
(* float keeps; a quotient that is not whole is kept as the fraction the   *)
(* hardware rounds.                                                        *)
(***************************************************************************)
EXTENDS IntObjects

Fraction(a, b)    == [type |-> "fraction", over |-> <<a, b>>]
Infinite          == [type |-> "inf"]      \* beyond every float, or a division by zero nobody refused
ComplexObj(r, i)  == [type |-> "complex", re |-> r, im |-> i]

\* What the machine makes of a result.
MachineFloat(n) ==
    LET r == RoundedFloat(n) IN IF BitLen(r) > MaxExponent + 1 THEN Infinite ELSE FloatObj(r)

\* The float an object is converted to; a method leaves the operation to the
\* other object when that has none, a BigInt too large included.
ConvertToFloat(o) ==
    CASE o.type \in {"float", "bool"} -> FloatObj(o.num)
      [] o.type = "int"    -> FloatObj(RoundedFloat(o.num))
      [] o.type = "bigint" -> BigFloat(o.num)
      [] OTHER             -> NotImplemented

WithFloat(b, Op(_)) ==
    LET f == ConvertToFloat(b) IN IF f.type = "float" THEN Op(f.num) ELSE NotImplemented

\* What MakeFloat makes of an object: nothing of a bool, which is a TypeError
\* and not an operation left to the other object.
MadeFloat(o) == IF o.type \in {"float", "int", "bigint"} THEN ConvertToFloat(o) ELSE CantConvert

Ratio(a, b) == IF Rem(a, b) = 0 THEN FloatObj(Quo(a, b)) ELSE Fraction(a, b)

\* An integer divides by what MakeFloat makes of the other object.
IntegerTrueDiv(name, a, b) ==
    LET x == MadeFloat(a)
        y == MadeFloat(b)
        over == IF name = "rtruediv" THEN x ELSE y
        from == IF name = "rtruediv" THEN y ELSE x
    IN IF IsException(y) THEN y
       ELSE IF IsException(x) THEN x
       ELSE IF over.num = 0 THEN DivisionByZero
       ELSE Ratio(from.num, over.num)

FloatSum(name, a, b) ==
    WithFloat(b, LAMBDA y : CASE name \in {"add", "radd", "iadd"} -> MachineFloat(a.num + y)
                              [] name \in {"sub", "isub"}         -> MachineFloat(a.num - y)
                              [] name = "rsub"                    -> MachineFloat(y - a.num)
                              [] name \in {"mul", "rmul", "imul"} -> MachineFloat(a.num * y))

FloatTrueDiv(name, a, b) ==
    WithFloat(b, LAMBDA y :
        LET over == IF name = "rtruediv" THEN a.num ELSE y
            from == IF name = "rtruediv" THEN y ELSE a.num
        IN IF over = 0 THEN DivisionByZero ELSE Ratio(from, over))

\* The floor of the float nearest to a / b, which may be the integer above it:
\* of floats of three bits, 20 / 7 is 3.  Below 1 no float is so near.
FloorOfRounded(a, b) ==
    LET p     == Abs(a)
        q     == Abs(b)
        bits  == BitLen(p \div q)
        up    == IF bits < Mantissa THEN 2^(Mantissa - bits) ELSE 1
        down  == IF bits > Mantissa THEN 2^(bits - Mantissa) ELSE 1
        r     == NearestTo(p * up, q * down) * down      \* the quotient times up
    IN IF (a < 0) = (b < 0) THEN (IF p < q THEN 0 ELSE r \div up)
       ELSE IF p < q THEN (IF p = 0 THEN 0 ELSE -1) ELSE (-r) \div up

\* Alone among the divisions, // does not look for a zero.
FloorQuotient(a, b) == IF b = 0 THEN Infinite ELSE FloatObj(FloorOfRounded(a, b))

FloatFloorDiv(name, a, b) ==
    WithFloat(b, LAMBDA y : IF name = "rfloordiv" THEN FloorQuotient(y, a.num)
                                                  ELSE FloorQuotient(a.num, y))

\* A machine that fuses the product into the difference rounds once less.
FloatDivMod(a, b) ==
    IF b = 0 THEN DivisionByZero
    ELSE LET q == FloorQuotient(a, b)
             p == MachineFloat(q.num * b)
         IN Two(q, IF p = Infinite THEN Infinite ELSE MachineFloat(a - p.num))

FloatDivision(name, a, b) ==
    LET d == WithFloat(b, LAMBDA y : IF name \in {"rmod", "rdivmod"}
                                     THEN FloatDivMod(y, a.num) ELSE FloatDivMod(a.num, y))
    IN IF name \in {"divmod", "rdivmod"} THEN d ELSE Remainder(d)

FloatComparison(name, a, b) == WithFloat(b, LAMBDA y : BoolObj(Holds(name, a.num, y)))

\* The largest machine word is compared as the float above it, which then has no
\* machine word: what the machine makes of it is the machine's choice.
Unspecified == [type |-> "unspecified"]
FloatInt(n) == IF n = IntMax + 1 /\ RoundedFloat(IntMax) = n THEN Unspecified ELSE MaybeInt(n)

FloatUnary(name, a) ==
    CASE name = "neg"  -> FloatObj(-a.num)
      [] name = "abs"  -> FloatObj(Abs(a.num))
      [] name = "bool" -> BoolObj(a.num # 0)
      [] name = "int"  -> FloatInt(a.num)
      [] name \in {"pos", "float"} -> a
      [] OTHER -> NotImplemented

-------------------------------------------------------------------------------
(* Complex *)

Re(o) == IF o.type = "complex" THEN o.re ELSE IF o.type = "int" THEN RoundedFloat(o.num) ELSE o.num
Im(o) == IF o.type = "complex" THEN o.im ELSE 0

\* A BigInt is not converted.
WithComplex(b, answer) ==
    IF b.type \in {"complex", "float", "int", "bool"} THEN answer ELSE NotImplemented

Plus(a, b)  == ComplexObj(RoundedFloat(Re(a) + Re(b)), RoundedFloat(Im(a) + Im(b)))
Minus(a, b) == ComplexObj(RoundedFloat(Re(a) - Re(b)), RoundedFloat(Im(a) - Im(b)))
Product(x, y) == RoundedFloat(x * y)
Times(a, b) ==
    ComplexObj(RoundedFloat(Product(Re(a), Re(b)) - Product(Im(a), Im(b))),
               RoundedFloat(Product(Re(a), Im(b)) + Product(Im(a), Re(b))))

ComplexSum(name, a, b) ==
    WithComplex(b, CASE name \in {"add", "radd", "iadd"} -> Plus(a, b)
                     [] name \in {"sub", "isub"}         -> Minus(a, b)
                     [] name = "rsub"                    -> Minus(b, a)
                     [] name \in {"mul", "rmul", "imul"} -> Times(a, b))

\* Equality is defined, order is refused.
ComplexComparison(name, a, b) ==
    WithComplex(b, CASE name = "eq" -> BoolObj(Re(a) = Re(b) /\ Im(a) = Im(b))
                     [] name = "ne" -> BoolObj(Re(a) # Re(b) \/ Im(a) # Im(b))
                     [] OTHER       -> Exception("TypeError"))

ComplexUnary(name, a) ==
    CASE name = "neg" -> ComplexObj(-a.re, -a.im)
      [] name = "pos" -> a
      [] name \in {"int", "float"} -> CantConvert
      [] OTHER -> NotImplemented
===============================================================================
