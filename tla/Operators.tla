------------------------------- MODULE Operators -------------------------------
(***************************************************************************)
(* The operators of the language: py/arithmetic.go, with the truth value   *)
(* of py/internal.go.  An operator asks the left object's method first and *)
(* the right one's reflected method next, and gives up with a TypeError.   *)
(*                                                                         *)
(* The objects are those of whoever instantiates the module: what the      *)
(* method of that name of an object answers, NotImplemented when its type  *)
(* has no such method.                                                     *)
(***************************************************************************)

CONSTANTS
    Unary(_, _),        \* Unary(name, a)
    Method(_, _, _),    \* Method(name, a, b)
    PowMethod(_, _, _)  \* PowMethod(a, b, modulus): __pow__ has a third argument

NotImplemented == [type |-> "NotImplemented"]
Exception(class) == [type |-> "exception", class |-> class]
Unsupported == Exception("TypeError")
Truth(b) == [type |-> "bool", num |-> IF b THEN 1 ELSE 0]
None == [type |-> "None"]

\* The first answer that is one.
OrElse(first, next) == IF first # NotImplemented THEN first ELSE next

-------------------------------------------------------------------------------
(* One object *)

Asked(name, a) == OrElse(Unary(name, a), Unsupported)

Neg(a)    == Asked("neg", a)
Pos(a)    == Asked("pos", a)
Abs(a)    == Asked("abs", a)
Invert(a) == Asked("invert", a)

\* A conversion leaves alone what it is to make.
MakeInt(a)   == IF a.type = "int" THEN a ELSE Asked("int", a)
MakeFloat(a) == IF a.type = "float" THEN a ELSE Asked("float", a)

\* An object with neither truth value nor length is true.
MakeBool(a) ==
    IF a.type = "bool" THEN a
    ELSE LET length == Unary("len", a)
         IN OrElse(Unary("bool", a),
                   OrElse(IF length.type = "int" THEN Unary("bool", length) ELSE length,
                          Truth(TRUE)))

Not(a) ==
    LET b == MakeBool(a)
    IN IF b.type = "exception" THEN b
       ELSE IF b.type = "bool" THEN Truth(b.num = 0)
       ELSE Unsupported

-------------------------------------------------------------------------------
(* Two objects: the reflected method is asked only of an object of another     *)
(* type, an in-place method before either.                                     *)

Reflected(rname, a, b) == IF a.type # b.type THEN Method(rname, b, a) ELSE NotImplemented

Binary(name, rname, a, b) ==
    OrElse(Method(name, a, b), OrElse(Reflected(rname, a, b), Unsupported))

Add(a, b)      == Binary("add", "radd", a, b)
Sub(a, b)      == Binary("sub", "rsub", a, b)
Mul(a, b)      == Binary("mul", "rmul", a, b)
TrueDiv(a, b)  == Binary("truediv", "rtruediv", a, b)
FloorDiv(a, b) == Binary("floordiv", "rfloordiv", a, b)
Mod(a, b)      == Binary("mod", "rmod", a, b)
DivMod(a, b)   == Binary("divmod", "rdivmod", a, b)
Lshift(a, b)   == Binary("lshift", "rlshift", a, b)
Rshift(a, b)   == Binary("rshift", "rrshift", a, b)
And(a, b)      == Binary("and", "rand", a, b)
Xor(a, b)      == Binary("xor", "rxor", a, b)
Or(a, b)       == Binary("or", "ror", a, b)

IAdd(a, b)      == OrElse(Method("iadd", a, b), Add(a, b))
ISub(a, b)      == OrElse(Method("isub", a, b), Sub(a, b))
IMul(a, b)      == OrElse(Method("imul", a, b), Mul(a, b))
ITrueDiv(a, b)  == OrElse(Method("itruediv", a, b), TrueDiv(a, b))
IFloorDiv(a, b) == OrElse(Method("ifloordiv", a, b), FloorDiv(a, b))
IMod(a, b)      == OrElse(Method("imod", a, b), Mod(a, b))
ILshift(a, b)   == OrElse(Method("ilshift", a, b), Lshift(a, b))
IRshift(a, b)   == OrElse(Method("irshift", a, b), Rshift(a, b))
IAnd(a, b)      == OrElse(Method("iand", a, b), And(a, b))
IXor(a, b)      == OrElse(Method("ixor", a, b), Xor(a, b))
IOr(a, b)       == OrElse(Method("ior", a, b), Or(a, b))

\* With a modulus there is no reflected method.
Pow(a, b, c) ==
    OrElse(PowMethod(a, b, c),
           OrElse(IF c = None THEN Reflected("rpow", a, b) ELSE NotImplemented,
                  Unsupported))
IPow(a, b, c) == OrElse(PowMethod(a, b, c), Pow(a, b, c))

-------------------------------------------------------------------------------
(* Comparisons: the mirrored one is asked whatever the types, and two objects  *)
(* of different types that cannot tell are unequal.                            *)

Compare(name, mirrored, a, b, otherwise) ==
    OrElse(Method(name, a, b), OrElse(Method(mirrored, b, a), otherwise))

Gt(a, b) == Compare("gt", "lt", a, b, Unsupported)
Ge(a, b) == Compare("ge", "le", a, b, Unsupported)
Lt(a, b) == Compare("lt", "gt", a, b, Unsupported)
Le(a, b) == Compare("le", "ge", a, b, Unsupported)
Eq(a, b) == Compare("eq", "eq", a, b, IF a.type # b.type THEN Truth(FALSE) ELSE Unsupported)
Ne(a, b) == Compare("ne", "ne", a, b, IF a.type # b.type THEN Truth(TRUE) ELSE Unsupported)
===============================================================================
