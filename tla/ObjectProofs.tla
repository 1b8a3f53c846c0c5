----------------------------- MODULE ObjectProofs -----------------------------
(***************************************************************************)
(* Arithmetic of machine words, indices, slices and ranges, for words of   *)
(* any width and for all operands, where the run "language" has words of   *)
(* five bits.  What holds of powers of two, on which the size of a word    *)
(* rests, is proved from the number of subsets of a finite set, and        *)
(* induction over numbers from the number of its members.                  *)
(***************************************************************************)
EXTENDS NumberMethods, Ranges, FiniteSetTheorems, TLAPS

-------------------------------------------------------------------------------
(* Natural numbers: every set of them has a least one.  The sets below T's     *)
(* member n that have a member of T under them would otherwise be as many as   *)
(* those without n.                                                            *)
LEMMA LeastNumber ==
    ASSUME NEW T \in SUBSET Nat, T # {}
    PROVE  \E m \in T : \A k \in T : m <= k
<1> SUFFICES ASSUME \A m \in T : \E k \in T : k < m
             PROVE  FALSE
  OBVIOUS
<1>1. PICK n \in T : TRUE
  OBVIOUS
<1> DEFINE A == {x \in 0 .. n : \E m \in T : m <= x}
           B == A \ {n}
           f == [x \in A |-> x - 1]
<1>2. IsFiniteSet(A) /\ n \in A
  <2>1. IsFiniteSet(0 .. n)
    BY FS_Interval
  <2>2. A \in SUBSET (0 .. n) /\ n \in A
    OBVIOUS
  <2> QED BY <2>1, <2>2, FS_Subset
<1>3. \A x \in A : x - 1 \in B
  <2> SUFFICES ASSUME NEW x \in A PROVE x - 1 \in B
    OBVIOUS
  <2>1. PICK m \in T : m <= x
    OBVIOUS
  <2>2. PICK k \in T : k < m
    OBVIOUS
  <2> QED BY <2>1, <2>2
<1>4. f \in Bijection(A, B)
  <2>1. f \in [A -> B]
    BY <1>3
  <2>2. \A x, y \in A : f[x] = f[y] => x = y
    OBVIOUS
  <2>3. \A y \in B : \E x \in A : f[x] = y
    <3>1. ASSUME NEW y \in B PROVE y + 1 \in A /\ f[y + 1] = y
      OBVIOUS
    <3> QED BY <3>1
  <2> HIDE DEF f, A, B
  <2> QED BY <2>1, <2>2, <2>3 DEF Bijection, Injection, IsInjective, Surjection
<1>5. Cardinality(B) = Cardinality(A)
  <2> HIDE DEF f, A, B
  <2> QED BY <1>2, <1>4, FS_Bijection DEF ExistsBijection
<1>6. Cardinality(B) = Cardinality(A) - 1 /\ Cardinality(A) \in Nat
  <2> HIDE DEF A
  <2> QED BY <1>2, FS_RemoveElement, FS_CardinalityType
<1> HIDE DEF A, B
<1> QED BY <1>5, <1>6

(* What holds of 0 and is handed on holds of every number.                     *)
LEMMA Counting ==
    ASSUME NEW S, 0 \in S, \A n \in Nat : n \in S => n + 1 \in S
    PROVE  Nat \subseteq S
<1> SUFFICES ASSUME Nat \ S # {} PROVE FALSE
  OBVIOUS
<1>1. PICK m \in Nat \ S : \A k \in Nat \ S : m <= k
  BY LeastNumber
<1>2. m # 0 /\ m - 1 \in S
  BY <1>1
<1> QED BY <1>1, <1>2

(* A power of two is as many as a set of n members has subsets; one more       *)
(* member makes twice as many.                                                 *)
LEMMA Subsets ==
    ASSUME NEW n \in Nat
    PROVE  /\ IsFiniteSet(SUBSET (1 .. n))
           /\ Cardinality(SUBSET (1 .. n)) = 2^n
           /\ 2^n \in Nat
<1>1. IsFiniteSet(1 .. n) /\ Cardinality(1 .. n) = n
  BY FS_Interval
<1> QED BY <1>1, FS_SUBSET, FS_CardinalityType

LEMMA PowersOfTwo ==
    ASSUME NEW n \in Nat
    PROVE  2^n \in Nat /\ 2^n > 0 /\ 2^(n + 1) = 2 * 2^n
<1> DEFINE Old == SUBSET (1 .. n)
           With(T) == T \cup {n + 1}
           New == {With(T) : T \in Old}
           f   == [T \in Old |-> With(T)]
<1>1. /\ IsFiniteSet(Old) /\ Cardinality(Old) = 2^n /\ 2^n \in Nat
      /\ Cardinality(SUBSET (1 .. n + 1)) = 2^(n + 1) /\ 2^(n + 1) \in Nat
  <2>1. IsFiniteSet(Old) /\ Cardinality(Old) = 2^n /\ 2^n \in Nat
    BY Subsets
  <2>2. n + 1 \in Nat
    OBVIOUS
  <2>3. Cardinality(SUBSET (1 .. n + 1)) = 2^(n + 1) /\ 2^(n + 1) \in Nat
    BY <2>2, Subsets, Zenon
  <2> QED BY <2>1, <2>3, Zenon
<1>2. f \in Bijection(Old, New)
  <2>1. f \in [Old -> New] /\ \A U \in New : \E T \in Old : f[T] = U
    OBVIOUS
  <2>2. ASSUME NEW S \in Old, NEW T \in Old, With(S) = With(T) PROVE S = T
    <3>1. n + 1 \notin S /\ n + 1 \notin T
      OBVIOUS
    <3> QED BY <2>2, <3>1
  <2>3. \A S, T \in Old : f[S] = f[T] => S = T
    BY <2>2
  <2> HIDE DEF f, Old, New
  <2> QED BY <2>1, <2>3 DEF Bijection, Injection, IsInjective, Surjection
<1>3. IsFiniteSet(New) /\ Cardinality(New) = 2^n
  <2> HIDE DEF f, Old, New
  <2> QED BY <1>1, <1>2, FS_Bijection DEF ExistsBijection
<1>4. SUBSET (1 .. n + 1) = Old \cup New
  <2>1. ASSUME NEW U \in SUBSET (1 .. n + 1) PROVE U \in Old \cup New
    <3>1. CASE n + 1 \notin U
      BY <3>1
    <3>2. CASE n + 1 \in U
      <4>1. U \ {n + 1} \in Old /\ U = With(U \ {n + 1})
        BY <3>2
      <4> QED BY <4>1
    <3> QED BY <3>1, <3>2
  <2>2. ASSUME NEW U \in Old \cup New PROVE U \in SUBSET (1 .. n + 1)
    OBVIOUS
  <2> QED BY <2>1, <2>2
<1>5. Old \cap New = {}
  OBVIOUS
<1>6. Cardinality(Old \cup New) = 2 * 2^n
  <2> HIDE DEF Old, New
  <2>1. Cardinality(Old \cup New)
            = Cardinality(Old) + Cardinality(New) - Cardinality(Old \cap New)
    BY <1>1, <1>3, FS_Union
  <2>2. Cardinality(Old \cap New) = 0
    BY <1>5, FS_EmptySet
  <2> QED BY <1>1, <1>3, <2>1, <2>2
<1>7. 2^n > 0
  <2>1. {} \in Old
    OBVIOUS
  <2> HIDE DEF Old
  <2> QED BY <1>1, <2>1, FS_EmptySet
<1>8. 2^(n + 1) = Cardinality(Old \cup New)
  BY <1>1, <1>4, Zenon
<1> HIDE DEF Old, New
<1> QED BY <1>1, <1>6, <1>7, <1>8

-------------------------------------------------------------------------------
(* The machine word.                                                           *)
Half == 2^(Width - 1)

LEMMA Words ==
    /\ Half \in Nat /\ Half >= 2 /\ 2^Width = 2 * Half
    /\ IntMax = Half - 1 /\ IntMin = -Half
    /\ IntMax \in Int /\ IntMin \in Int /\ IntRange = -Half .. Half - 1
<1>1. Width - 1 \in Nat /\ Width - 2 \in Nat
  BY WidthAssumption
<1>2. Half \in Nat /\ 2^Width = 2 * Half
  <2>1. 2^(Width - 1) \in Nat /\ 2^((Width - 1) + 1) = 2 * 2^(Width - 1)
    BY <1>1, PowersOfTwo
  <2>2. (Width - 1) + 1 = Width
    BY WidthAssumption
  <2> QED BY <2>1, <2>2 DEF Half
<1>3. Half >= 2
  <2>1. 2^(Width - 2) \in Nat /\ 2^(Width - 2) > 0 /\ 2^((Width - 2) + 1) = 2 * 2^(Width - 2)
    BY <1>1, PowersOfTwo
  <2>2. (Width - 2) + 1 = Width - 1
    BY WidthAssumption
  <2> QED BY <2>1, <2>2, <1>2 DEF Half
<1> QED BY <1>2, <1>3 DEF IntMax, IntMin, IntRange, Half

LEMMA Division ==
    ASSUME NEW a \in Int, NEW b \in Int, b > 0
    PROVE  /\ a \div b \in Int /\ a % b \in Int
           /\ 0 <= a % b /\ a % b < b /\ a = b * (a \div b) + (a % b)
OBVIOUS

LEMMA OneQuotient ==
    ASSUME NEW b \in Int, b > 0, NEW q \in Int, NEW p \in Int,
           NEW r \in Int, 0 <= r, r < b, NEW s \in Int, 0 <= s, s < b,
           b * q + r = b * p + s
    PROVE  q = p /\ r = s
<1>1. b * (q - p) = s - r /\ -b < s - r /\ s - r < b
  OBVIOUS
<1>2. ASSUME q - p >= 1 PROVE FALSE
  BY <1>1, <1>2, b * (q - p) >= b
<1>3. ASSUME q - p <= -1 PROVE FALSE
  BY <1>1, <1>3, b * (q - p) <= -b
<1>4. q = p
  BY <1>2, <1>3
<1> QED BY <1>1, <1>4

LEMMA QuotientIs ==
    ASSUME NEW b \in Int, b > 0, NEW q \in Int,
           NEW r \in Int, 0 <= r, r < b
    PROVE  (b * q + r) \div b = q /\ (b * q + r) % b = r
<1> DEFINE a == b * q + r
<1>1. a \in Int
  OBVIOUS
<1>2. /\ a \div b \in Int /\ a % b \in Int
      /\ 0 <= a % b /\ a % b < b /\ a = b * (a \div b) + (a % b)
  BY <1>1, Division
<1> QED BY <1>2, OneQuotient

(* What the machine leaves of a result is a machine word, differs from it by a *)
(* multiple of the number of words, and is the only word that does.            *)
LEMMA WrapIsWord ==
    ASSUME NEW n \in Int
    PROVE  /\ Wrap(n) \in Int /\ Wrap(n) \in IntRange
           /\ \E k \in Int : Wrap(n) = n + 2^Width * k
<1>1. n + Half \in Int /\ 2^Width > 0 /\ 2^Width \in Int
  BY Words
<1>2. PICK q \in Int, r \in Int :
          /\ r = (n + Half) % 2^Width
          /\ 0 <= r /\ r < 2^Width /\ n + Half = 2^Width * q + r
  <2> DEFINE a == n + Half
             b == 2^Width
  <2>1. a \in Int /\ b \in Int /\ b > 0
    BY <1>1
  <2> HIDE DEF a, b
  <2>2. \E q \in Int, r \in Int :
            r = a % b /\ 0 <= r /\ r < b /\ a = b * q + r
    BY <2>1, Division
  <2> QED BY <2>2 DEF a, b
<1>3. Wrap(n) = r - Half
  BY Words, <1>2 DEF Wrap
<1>4. -q \in Int /\ 2^Width * (-q) = -(2^Width * q)
  BY <1>1
<1>5. Wrap(n) = n + 2^Width * (-q)
  <2>1. 2^Width * q \in Int /\ Half \in Int
    BY <1>1, Words
  <2> QED BY <1>2, <1>3, <1>4, <2>1
<1>6. Wrap(n) \in Int /\ Wrap(n) \in IntRange
  <2>1. 0 <= r /\ r < 2 * Half /\ Half \in Int
    BY <1>2, Words
  <2>2. r - Half \in -Half .. Half - 1
    BY <2>1
  <2>3. Wrap(n) \in IntRange
    BY <1>3, <2>2, Words
  <2> QED BY <1>3, <2>1, <2>3
<1> QED BY <1>4, <1>5, <1>6

LEMMA OneWord ==
    ASSUME NEW v \in IntRange, NEW w \in IntRange,
           NEW k \in Int, v = w + 2^Width * k
    PROVE  v = w
<1>1. v \in Int /\ w \in Int /\ 2^Width \in Int /\ 2^Width > 0
  BY Words
<1>2. ASSUME k >= 1 PROVE FALSE
  BY <1>1, <1>2, 2^Width * k >= 2^Width, Words
<1>3. ASSUME k <= -1 PROVE FALSE
  BY <1>1, <1>3, 2^Width * k <= -(2^Width), Words
<1>4. k = 0
  BY <1>2, <1>3
<1> QED BY <1>1, <1>4

LEMMA WrapOfWord == ASSUME NEW n \in IntRange PROVE Wrap(n) = n
<1>1. n \in Int
  BY Words
<1>2. PICK k \in Int : Wrap(n) = n + 2^Width * k
  BY <1>1, WrapIsWord
<1> QED BY <1>1, <1>2, WrapIsWord, OneWord

LEMMA WrapAbsorbs ==
    ASSUME NEW n \in Int, NEW k \in Int
    PROVE  Wrap(n + 2^Width * k) = Wrap(n)
<1> DEFINE m == n + 2^Width * k
<1>1. m \in Int /\ 2^Width \in Int
  BY Words
<1>2. PICK i \in Int : Wrap(m) = m + 2^Width * i
  BY <1>1, WrapIsWord
<1>3. PICK j \in Int : Wrap(n) = n + 2^Width * j
  BY WrapIsWord
<1>4. k + i - j \in Int /\ Wrap(m) = Wrap(n) + 2^Width * (k + i - j)
  BY <1>1, <1>2, <1>3
<1>5. Wrap(m) \in IntRange /\ Wrap(n) \in IntRange
  BY <1>1, WrapIsWord
<1> QED BY <1>4, <1>5, OneWord

-------------------------------------------------------------------------------
(* Sums, differences and products of machine words.                            *)
LEMMA ObjectsApart ==
    ASSUME NEW m \in Int, NEW n \in Int
    PROVE  /\ IntObj(m) = IntObj(n) <=> m = n
           /\ IntObj(m) # BigObj(n)
<1>1. IntObj(m).num = m /\ IntObj(n).num = n
  BY DEF IntObj
<1>2. IntObj(m).type = "int" /\ BigObj(n).type = "bigint"
  BY DEF IntObj, BigObj
<1> QED BY <1>1, <1>2

(* An Int made of a result that left the machine word is not the exact one.    *)
LEMMA WrappedOrExact ==
    ASSUME NEW n \in Int
    PROVE  IntObj(Wrap(n)) = MaybeInt(n) <=> n \in IntRange
<1>1. ASSUME n \in IntRange PROVE IntObj(Wrap(n)) = MaybeInt(n)
  BY <1>1, WrapOfWord DEF MaybeInt
<1>2. ASSUME n \notin IntRange PROVE IntObj(Wrap(n)) # MaybeInt(n)
  BY <1>2, WrapIsWord, ObjectsApart DEF MaybeInt
<1> QED BY <1>1, <1>2

LEMMA InWord ==
    ASSUME NEW n \in Int PROVE n \in IntRange <=> IntMin <= n /\ n <= IntMax
BY Words

(* The sum of two machine words is exact, an Int when it is a word and a       *)
(* BigInt otherwise; the guard of intAdd (int.go:270-295) is computed in words *)
(* as well.                                                                    *)
THEOREM SumsExact ==
    \A a, b \in IntRange : IntAdd(a, b) = MaybeInt(a + b)
<1> SUFFICES ASSUME NEW a \in IntRange, NEW b \in IntRange
             PROVE  IntAdd(a, b) = MaybeInt(a + b)
  OBVIOUS
<1> DEFINE over == IF a >= 0 THEN b > Wrap(IntMax - a) ELSE b < Wrap(IntMin - a)
<1>1. /\ a \in Int /\ b \in Int /\ a + b \in Int /\ IntMin \in Int /\ IntMax \in Int
      /\ IntMin <= a /\ a <= IntMax /\ IntMin <= b /\ b <= IntMax
      /\ IntMin < 0 /\ 0 < IntMax /\ IntMin = -IntMax - 1
  BY Words, InWord
<1>2. a >= 0 => Wrap(IntMax - a) = IntMax - a
  BY <1>1, WrapOfWord, InWord
<1>3. a < 0 => Wrap(IntMin - a) = IntMin - a
  BY <1>1, WrapOfWord, InWord
<1>4. over <=> a + b \notin IntRange
  BY <1>1, <1>2, <1>3, InWord
<1>5. IntAdd(a, b) = IF over THEN MaybeInt(a + b) ELSE IntObj(Wrap(a + b))
  BY DEF IntAdd
<1> HIDE DEF over
<1> QED BY <1>1, <1>4, <1>5, WrappedOrExact

(* A difference of two machine words is exact unless it is above the largest   *)
(* Int: then intSub (int.go:298-323) gives the wrong answer every time.        *)
THEOREM DifferencesExact ==
    \A a, b \in IntRange :
        IntSub(a, b) = MaybeInt(a - b) <=> ~Undetected("sub", a, b)
<1> SUFFICES ASSUME NEW a \in IntRange, NEW b \in IntRange
             PROVE  IntSub(a, b) = MaybeInt(a - b) <=> a - b <= IntMax
  BY Words DEF Undetected
<1> DEFINE over == IF b >= 0 THEN a < Wrap(IntMin + b) ELSE a < Wrap(IntMax + b)
<1>1. /\ a \in Int /\ b \in Int /\ a - b \in Int /\ IntMin \in Int /\ IntMax \in Int
      /\ IntMin <= a /\ a <= IntMax /\ IntMin <= b /\ b <= IntMax
      /\ IntMin < 0 /\ 0 < IntMax /\ IntMin = -IntMax - 1
  BY Words, InWord
<1>2. b >= 0 => Wrap(IntMin + b) = IntMin + b
  BY <1>1, WrapOfWord, InWord
<1>3. b < 0 => Wrap(IntMax + b) = IntMax + b
  BY <1>1, WrapOfWord, InWord
<1>4. IntSub(a, b) = IF over THEN MaybeInt(a - b) ELSE IntObj(Wrap(a - b))
  BY DEF IntSub
<1>5. over => a - b <= IntMax
  BY <1>1, <1>2, <1>3
<1>6. ~over => (a - b \in IntRange <=> a - b <= IntMax)
  BY <1>1, <1>2, <1>3, InWord
<1> HIDE DEF over
<1> QED BY <1>1, <1>4, <1>5, <1>6, WrappedOrExact

LEMMA RootOfIntMax ==
    /\ SqrtIntMax \in 0 .. IntMax
    /\ SqrtIntMax * SqrtIntMax < IntMax
<1>1. IntMax \in Nat /\ IntMax >= 1
  BY Words
<1> DEFINE T == {m \in Nat : (m + 1) * (m + 1) >= IntMax}
<1>2. IntMax \in T
  <2>1. (IntMax + 1) * (IntMax + 1) = IntMax * IntMax + IntMax + IntMax + 1
    BY <1>1
  <2>2. IntMax * IntMax >= 0 /\ IntMax * IntMax \in Int
    BY <1>1
  <2> QED BY <1>1, <2>1, <2>2
<1>3. PICK m \in T : \A k \in T : m <= k
  BY <1>2, LeastNumber
<1>4. m \in 0 .. IntMax
  BY <1>1, <1>2, <1>3
<1>5. m * m < IntMax
  <2>1. CASE m = 0
    BY <1>1, <2>1
  <2>2. CASE m # 0
    <3>1. m - 1 \in Nat /\ m - 1 \notin T
      BY <1>3, <1>4, <2>2, <1>1
    <3> QED BY <3>1, <1>1, <1>4
  <2> QED BY <2>1, <2>2
<1>6. \E n \in 0 .. IntMax : n * n < IntMax /\ (n + 1) * (n + 1) >= IntMax
  BY <1>3, <1>4, <1>5
<1> QED BY <1>6 DEF SqrtIntMax

(* A product of two machine words is exact unless the guard takes the smallest *)
(* Int, whose absolute value is itself, for a small number and the product is  *)
(* no word (intMul, int.go:326-343).                                           *)
THEOREM ProductsExact ==
    \A a, b \in IntRange :
        IntMul(a, b) = MaybeInt(a * b) <=> ~Undetected("mul", a, b)
<1> SUFFICES ASSUME NEW a \in IntRange, NEW b \in IntRange
             PROVE  IntMul(a, b) = MaybeInt(a * b) <=> ~Undetected("mul", a, b)
  OBVIOUS
<1> DEFINE small == WrapAbs(a) <= SqrtIntMax /\ WrapAbs(b) <= SqrtIntMax
<1>1. /\ a \in Int /\ b \in Int /\ a * b \in Int /\ IntMin \in Int /\ IntMax \in Int
      /\ IntMin <= a /\ a <= IntMax /\ IntMin <= b /\ b <= IntMax
      /\ IntMin < 0 /\ 0 < IntMax /\ IntMin = -IntMax - 1
  BY Words, InWord
<1>2. IntMul(a, b) = IF small THEN IntObj(Wrap(a * b)) ELSE MaybeInt(a * b)
  BY DEF IntMul
<1>3. Undetected("mul", a, b) <=> IntMin \in {a, b} /\ a * b \notin IntRange /\ small
  BY DEF Undetected
<1>4. ASSUME small, IntMin \notin {a, b} PROVE a * b \in IntRange
  <2> DEFINE s == SqrtIntMax
  <2>1. s \in Int /\ 0 <= s /\ s * s < IntMax
    BY RootOfIntMax, <1>1
  <2>2. ASSUME NEW c \in IntRange, c # IntMin, WrapAbs(c) <= s
        PROVE  c \in Int /\ -s <= c /\ c <= s
    <3>1. c \in Int /\ IntMin < c /\ c <= IntMax
      BY <2>2, <1>1, InWord, Words
    <3>2. CASE c < 0
      <4>1. Wrap(-c) = -c
        BY <3>1, <3>2, <1>1, InWord, WrapOfWord
      <4> QED BY <2>2, <2>1, <3>1, <3>2, <4>1 DEF WrapAbs
    <3> QED BY <2>2, <2>1, <3>1, <3>2 DEF WrapAbs
  <2>3. -s <= a /\ a <= s /\ -s <= b /\ b <= s
    BY <1>4, <2>2
  <2> HIDE DEF s
  <2>4. -(s * s) <= a * b /\ a * b <= s * s /\ s * s \in Int
    BY <1>1, <2>1, <2>3
  <2> QED BY <1>1, <2>1, <2>4, InWord
<1> HIDE DEF small
<1> QED BY <1>1, <1>2, <1>3, <1>4, WrappedOrExact

(* Exponents add up: by counting from 0.                                       *)
LEMMA PowersAdd ==
    ASSUME NEW m \in Nat, NEW n \in Nat
    PROVE  2^(m + n) = 2^m * 2^n
<1> DEFINE S == {k \in Nat : 2^(m + k) = 2^m * 2^k}
<1>1. 0 \in S
  <2>1. 2^0 = 1 /\ 2^m \in Nat /\ m + 0 = m
    BY PowersOfTwo
  <2> QED BY <2>1
<1>2. ASSUME NEW k \in Nat, k \in S PROVE k + 1 \in S
  <2>1. 2^(k + 1) = 2 * 2^k /\ 2^k \in Nat /\ 2^m \in Nat
    BY PowersOfTwo
  <2>2. m + k \in Nat /\ m + (k + 1) = (m + k) + 1
    OBVIOUS
  <2>3. 2^((m + k) + 1) = 2 * 2^(m + k)
    BY <2>2, PowersOfTwo
  <2>4. 2 * (2^m * 2^k) = 2^m * (2 * 2^k)
    BY <2>1
  <2> QED BY <1>2, <2>1, <2>2, <2>3, <2>4
<1>3. Nat \subseteq S
  <2> HIDE DEF S
  <2> QED BY <1>1, <1>2, Counting
<1> QED BY <1>3

(* A number shifted to the left is exact for every count, and an Int only when *)
(* it is a word; the guard shifts back what is left (intLshift,                *)
(* int.go:346-358).  A word with Width zeros at its end is 0, which shifts     *)
(* back to 0.                                                                  *)
THEOREM ShiftsExact ==
    \A a, b \in IntRange : b >= 0 => IntLshift(a, b) =
        IF a * 2^b \in IntRange THEN IntObj(a * 2^b) ELSE BigObj(a * 2^b)
<1> SUFFICES ASSUME NEW a \in IntRange, NEW b \in IntRange, b >= 0
             PROVE  IntLshift(a, b) =
                    IF a * 2^b \in IntRange THEN IntObj(a * 2^b) ELSE BigObj(a * 2^b)
  OBVIOUS
<1> DEFINE p == 2^b
           x == a * p
           w == Wrap(x)
<1>1. a \in Int /\ b \in Nat /\ Width \in Nat /\ Width >= 2
  BY Words, WidthAssumption
<1>2. p \in Nat /\ p > 0
  BY <1>1, PowersOfTwo
<1>3. x \in Int
  BY <1>1, <1>2
<1>4. IntLshift(a, b) = IF w \div p # a THEN BigObj(x) ELSE IntObj(w)
  BY <1>1 DEF IntLshift, ShiftRight, ShiftLeft
<1>5. CASE x \in IntRange
  <2>1. w = x
    BY <1>5, WrapOfWord
  <2>2. x = p * a + 0
    BY <1>1, <1>2
  <2>3. x \div p = a
    <3> HIDE DEF p, x
    <3> QED BY <2>2, <1>1, <1>2, QuotientIs
  <2> QED BY <1>4, <1>5, <2>1, <2>3
<1>6. CASE x \notin IntRange
  <2>1. PICK k \in Int : w = x + 2^Width * k
    BY <1>3, WrapIsWord
  <2>2. w \in Int /\ w \in IntRange
    BY <1>3, WrapIsWord
  <2>3. ASSUME w \div p = a PROVE FALSE
    <3> DEFINE r == w % p
    <3>1. r \in Int /\ 0 <= r /\ r < p /\ w = p * a + r
      <4> HIDE DEF w, p
      <4> QED BY <2>2, <2>3, <1>2, Division
    <3>2. p * a = x
      BY <1>1, <1>2
    <3>3. 2^Width * k = r
      <4> DEFINE y == 2^Width * k
      <4>1. y \in Int /\ w = x + y
        BY <2>1, Words
      <4>2. w = x + r
        BY <3>1, <3>2
      <4> HIDE DEF w, x, r, y
      <4>3. y = r
        BY <1>3, <2>2, <3>1, <4>1, <4>2
      <4> QED BY <4>3 DEF y
    <3>4. 2^Width \in Int /\ 2^Width > 0
      BY Words
    <3> HIDE DEF w, x, r, p
    <3>5. r # 0
      BY <3>1, <3>2, <1>3, <1>6, <2>2
    <3>6. k >= 1 /\ r >= 2^Width
      BY <3>1, <3>3, <3>4, <3>5
    <3>7. b > Width
      <4> SUFFICES ASSUME b <= Width PROVE FALSE
        BY <1>1
      <4>1. Width - b \in Nat /\ b + (Width - b) = Width
        BY <1>1
      <4>2. 2^Width = p * 2^(Width - b) /\ 2^(Width - b) \in Nat /\ 2^(Width - b) > 0
        BY <1>1, <4>1, PowersAdd, PowersOfTwo DEF p
      <4>3. p * 2^(Width - b) >= p
        BY <1>2, <4>2
      <4> QED BY <1>2, <3>1, <3>4, <3>6, <4>2, <4>3
    <3>8. PICK c \in Int : x = 2^Width * c
      <4>1. b - Width \in Nat /\ Width + (b - Width) = b
        BY <1>1, <3>7
      <4>2. p = 2^Width * 2^(b - Width) /\ 2^(b - Width) \in Nat
        BY <1>1, <4>1, PowersAdd, PowersOfTwo DEF p
      <4>3. x = 2^Width * (2^(b - Width) * a)
        BY <1>1, <3>4, <4>2 DEF x
      <4> QED BY <1>1, <4>2, <4>3
    <3>9. w = 0
      <4>1. w = 0 + 2^Width * (c + k) /\ c + k \in Int
        BY <2>1, <3>4, <3>8
      <4>2. 0 \in IntRange
        BY Words
      <4> QED BY <2>2, <4>1, <4>2, OneWord
    <3> QED
      <4>1. p * a = -r
        BY <3>1, <3>2, <3>9, <1>3
      <4>2. p * a >= p \/ p * a <= -p \/ a = 0
        BY <1>1, <1>2
      <4> QED BY <1>1, <1>2, <3>1, <3>5, <4>1, <4>2
  <2> QED BY <1>4, <1>6, <2>3
<1> QED BY <1>5, <1>6

(* Division of two words.  Within: the remainder has the sign of the divisor   *)
(* and is smaller.                                                             *)
Within(r, b) == IF b > 0 THEN 0 <= r /\ r < b ELSE b < r /\ r <= 0

LEMMA AbsIs ==
    ASSUME NEW n \in Int
    PROVE  /\ Abs(n) \in Nat /\ (n # 0 => Abs(n) > 0)
           /\ n >= 0 => Abs(n) = n
           /\ n <= 0 => Abs(n) = -n
BY DEF Abs

LEMMA FloorIs ==
    ASSUME NEW a \in Int, NEW b \in Int, b # 0, NEW q \in Int, NEW r \in Int,
           a = b * q + r, Within(r, b)
    PROVE  Floor(a, b) = q /\ Modulo(a, b) = r
<1>1. CASE b > 0
  <2>1. a \div b = q
    BY <1>1, QuotientIs DEF Within
  <2>2. Floor(a, b) = q
    BY <1>1, <2>1 DEF Floor
  <2> QED BY <2>2 DEF Modulo
<1>2. CASE b < 0
  <2> DEFINE c == -b
             s == -r
  <2>1. c \in Int /\ c > 0 /\ s \in Int /\ 0 <= s /\ s < c
    BY <1>2 DEF Within
  <2>2. -a = c * q + s
    BY <2>1
  <2>3. (c * q + s) \div c = q
    <3> HIDE DEF c, s
    <3> QED BY <2>1, QuotientIs
  <2>4. Floor(a, b) = q
    BY <1>2, <2>2, <2>3 DEF Floor
  <2> QED BY <2>4 DEF Modulo
<1> QED BY <1>1, <1>2

(* Go's quotient and remainder: the remainder has the sign of the number that  *)
(* is divided.                                                                 *)
LEMMA GoDivision ==
    ASSUME NEW a \in Int, NEW b \in Int, b # 0
    PROVE  /\ Quo(a, b) \in Int /\ Rem(a, b) \in Int
           /\ a = b * Quo(a, b) + Rem(a, b)
           /\ a >= 0 => 0 <= Rem(a, b) /\ Rem(a, b) < Abs(b)
           /\ a < 0 => -Abs(b) < Rem(a, b) /\ Rem(a, b) <= 0
           /\ (a < 0) = (b < 0) => Quo(a, b) >= 0
           /\ (a < 0) # (b < 0) => Quo(a, b) <= 0
<1> DEFINE A == Abs(a)
           B == Abs(b)
           q == A \div B
           r == A % B
<1>1. A \in Nat /\ B \in Nat /\ B > 0
  BY AbsIs
<1>2. q \in Int /\ r \in Int /\ 0 <= r /\ r < B /\ A = B * q + r
  <2> HIDE DEF A, B
  <2> QED BY <1>1, Division
<1>3. q >= 0
  <2> HIDE DEF A, B, q, r
  <2> QED BY <1>1, <1>2
<1>4. Quo(a, b) = IF (a < 0) = (b < 0) THEN q ELSE -q
  BY DEF Quo
<1>5. /\ a < 0 => A = -a
      /\ a >= 0 => A = a
      /\ b < 0 => B = -b
      /\ b > 0 => B = b
  BY AbsIs
<1>6. Rem(a, b) = a - b * Quo(a, b)
  BY DEF Rem
<1> HIDE DEF A, B, q, r
<1>7. CASE a >= 0 /\ b > 0
  <2>1. Quo(a, b) = q /\ a = b * q + r
    BY <1>2, <1>4, <1>5, <1>7
  <2> QED BY <1>1, <1>2, <1>3, <1>5, <1>6, <1>7, <2>1 DEF B
<1>8. CASE a >= 0 /\ b < 0
  <2>1. Quo(a, b) = -q /\ a = (-b) * q + r
    BY <1>2, <1>4, <1>5, <1>8
  <2>2. b * (-q) = (-b) * q /\ b * (-q) \in Int
    BY <1>2
  <2> QED BY <1>1, <1>2, <1>3, <1>5, <1>6, <1>8, <2>1, <2>2 DEF B
<1>9. CASE a < 0 /\ b > 0
  <2>1. Quo(a, b) = -q /\ -a = b * q + r
    BY <1>2, <1>4, <1>5, <1>9
  <2>2. b * (-q) = -(b * q) /\ b * q \in Int
    BY <1>2
  <2> QED BY <1>1, <1>2, <1>3, <1>5, <1>6, <1>9, <2>1, <2>2 DEF B
<1>10. CASE a < 0 /\ b < 0
  <2>1. Quo(a, b) = q /\ -a = (-b) * q + r
    BY <1>2, <1>4, <1>5, <1>10
  <2>2. (-b) * q = -(b * q) /\ b * q \in Int
    BY <1>2
  <2> QED BY <1>1, <1>2, <1>3, <1>5, <1>6, <1>10, <2>1, <2>2 DEF B
<1> QED BY <1>7, <1>8, <1>9, <1>10

(* A floored quotient is no further from 0 than what is divided, and only the  *)
(* smallest Int divided by -1 is no word.                                      *)
LEMMA QuotientInWord ==
    ASSUME NEW a \in IntRange, NEW b \in IntRange, b # 0, ~(a = IntMin /\ b = -1),
           NEW q \in Int, NEW r \in Int, a = b * q + r, Within(r, b)
    PROVE  q \in IntRange /\ r \in IntRange
<1>1. /\ a \in Int /\ b \in Int /\ IntMin \in Int /\ IntMax \in Int
      /\ IntMin <= a /\ a <= IntMax /\ IntMin <= b /\ b <= IntMax
      /\ IntMin < -1 /\ 0 < IntMax /\ IntMin = -IntMax - 1
  BY Words, InWord
<1>2. r \in IntRange
  BY <1>1, InWord DEF Within
<1>3. CASE b > 0
  <2>1. 0 <= r /\ r < b
    BY <1>3 DEF Within
  <2>2. ASSUME q > IntMax PROVE FALSE
    <3>1. b * q >= q
      BY <1>1, <1>3, <2>2
    <3> QED BY <1>1, <2>1, <2>2, <3>1
  <2>3. ASSUME q < IntMin PROVE FALSE
    <3>1. b * (q + 1) <= q + 1
      BY <1>1, <1>3, <2>3
    <3>2. b * (q + 1) = b * q + b /\ b * q \in Int
      BY <1>1
    <3> QED BY <1>1, <2>1, <2>3, <3>1, <3>2
  <2> QED BY <1>1, <1>2, <2>2, <2>3, InWord
<1>4. CASE b < 0
  <2>1. b < r /\ r <= 0
    BY <1>4 DEF Within
  <2>2. ASSUME q > IntMax PROVE FALSE
    <3>1. b * q <= -q /\ b * q \in Int
      BY <1>1, <1>4, <2>2
    <3>2. a <= -q
      BY <1>1, <2>1, <3>1
    <3>3. a = IntMin /\ q = IntMax + 1 /\ b * q = -q
      BY <1>1, <2>1, <2>2, <3>1, <3>2
    <3>4. b = -1
      BY <1>1, <1>4, <3>3
    <3> QED BY <3>3, <3>4
  <2>3. ASSUME q < IntMin PROVE FALSE
    <3>1. b * (q + 1) >= -(q + 1)
      BY <1>1, <1>4, <2>3
    <3>2. b * (q + 1) = b * q + b /\ b * q \in Int
      BY <1>1
    <3> QED BY <1>1, <2>1, <2>3, <3>1, <3>2
  <2> QED BY <1>1, <1>2, <2>2, <2>3, InWord
<1> QED BY <1>1, <1>3, <1>4

(* // and % of two machine words are the floor and what is left of it, both    *)
(* words, but for the smallest Int divided by -1: Int.divMod (int.go:468-485)  *)
(* corrects the machine's division, which rounds towards zero.                 *)
THEOREM DivisionsExact ==
    \A a, b \in IntRange : b # 0 /\ ~Undetected("floordiv", a, b) =>
        /\ IntDivMod(a, b) = Two(IntObj(Floor(a, b)), IntObj(Modulo(a, b)))
        /\ Floor(a, b) \in IntRange
        /\ Within(Modulo(a, b), b) /\ a = b * Floor(a, b) + Modulo(a, b)
<1> SUFFICES ASSUME NEW a \in IntRange, NEW b \in IntRange,
                    b # 0, ~(a = IntMin /\ b = -1)
             PROVE  /\ IntDivMod(a, b) = Two(IntObj(Floor(a, b)), IntObj(Modulo(a, b)))
                    /\ Floor(a, b) \in IntRange
                    /\ Within(Modulo(a, b), b) /\ a = b * Floor(a, b) + Modulo(a, b)
  BY DEF Undetected
<1> DEFINE q == Quo(a, b)
           r == Rem(a, b)
           below == (a < 0) # (b < 0) /\ r # 0
           Q == IF below THEN q - 1 ELSE q
           R == IF below THEN r + b ELSE r
<1>1. a \in Int /\ b \in Int
  BY Words
<1>2. /\ q \in Int /\ r \in Int /\ a = b * q + r
      /\ a >= 0 => 0 <= r /\ r < Abs(b)
      /\ a < 0 => -Abs(b) < r /\ r <= 0
      /\ (a < 0) = (b < 0) => q >= 0
      /\ (a < 0) # (b < 0) => q <= 0
  BY <1>1, GoDivision
<1>3. Q \in Int /\ R \in Int /\ a = b * Q + R /\ Within(R, b)
  <2>1. /\ b > 0 => Abs(b) = b
        /\ b < 0 => Abs(b) = -b
    BY <1>1, AbsIs
  <2>2. b * (q - 1) = b * q - b /\ b * q \in Int
    BY <1>1, <1>2
  <2> HIDE DEF q, r
  <2> QED BY <1>1, <1>2, <2>1, <2>2 DEF Within
<1>4. Floor(a, b) = Q /\ Modulo(a, b) = R /\ Q \in IntRange /\ R \in IntRange
  <2> HIDE DEF Q, R
  <2> QED BY <1>1, <1>3, FloorIs, QuotientInWord
<1>5. q \in IntRange /\ Wrap(q) = q
  <2>1. 0 \in IntRange /\ IntMax \in Int /\ IntMin \in Int
    BY Words
  <2>2. ~below => q = Q
    OBVIOUS
  <2>3. below => q = Q + 1 /\ q <= 0
    BY <1>2
  <2> HIDE DEF Q, q, below
  <2>4. q \in IntRange
    BY <1>2, <1>3, <1>4, <2>1, <2>2, <2>3, InWord
  <2> QED BY <2>4, WrapOfWord
<1>6. IntDivMod(a, b) = IF below THEN Two(IntObj(Wrap(q - 1)), IntObj(Wrap(r + b)))
                                 ELSE Two(IntObj(q), IntObj(r))
  BY <1>5 DEF IntDivMod
<1>7. below => Wrap(q - 1) = Q /\ Wrap(r + b) = R
  <2>1. Wrap(Q) = Q /\ Wrap(R) = R
    <3> HIDE DEF Q, R
    <3> QED BY <1>4, WrapOfWord
  <2> QED BY <2>1
<1>8. IntDivMod(a, b) = Two(IntObj(Q), IntObj(R))
  BY <1>6, <1>7
<1> HIDE DEF Q, R
<1> QED BY <1>3, <1>4, <1>8

(* Integers beyond the word are divided the same way, and what comes out is an *)
(* Int whenever it fits (BigInt.divMod, bigint.go:289-306).                    *)
THEOREM BigDivisionsExact ==
    \A a, b \in Int : b # 0 =>
        BigDivMod(a, b) = Two(MaybeInt(Floor(a, b)), MaybeInt(Modulo(a, b)))
<1> SUFFICES ASSUME NEW a \in Int, NEW b \in Int, b # 0
             PROVE  BigDivMod(a, b) = Two(MaybeInt(Floor(a, b)), MaybeInt(Modulo(a, b)))
  OBVIOUS
<1> DEFINE q == Quo(a, b)
           r == Rem(a, b)
           below == (a < 0) # (b < 0) /\ r # 0
           Q == IF below THEN q - 1 ELSE q
           R == IF below THEN r + b ELSE r
<1>1. /\ q \in Int /\ r \in Int /\ a = b * q + r
      /\ a >= 0 => 0 <= r /\ r < Abs(b)
      /\ a < 0 => -Abs(b) < r /\ r <= 0
  BY GoDivision
<1>2. Q \in Int /\ R \in Int /\ a = b * Q + R /\ Within(R, b)
  <2>1. /\ b > 0 => Abs(b) = b
        /\ b < 0 => Abs(b) = -b
    BY AbsIs
  <2>2. b * (q - 1) = b * q - b /\ b * q \in Int
    BY <1>1
  <2> HIDE DEF q, r
  <2> QED BY <1>1, <2>1, <2>2 DEF Within
<1>3. Floor(a, b) = Q /\ Modulo(a, b) = R
  <2> HIDE DEF Q, R
  <2> QED BY <1>2, FloorIs
<1>4. BigDivMod(a, b) = IF below THEN Two(MaybeInt(q - 1), MaybeInt(r + b))
                                 ELSE Two(MaybeInt(q), MaybeInt(r))
  BY DEF BigDivMod
<1> QED BY <1>3, <1>4

-------------------------------------------------------------------------------
(* Indices and slices.  A part of a slice is None or a machine word.           *)
Part == {NoneObj} \cup {IntObj(n) : n \in IntRange}

WordSlices == {Slice(a, b, c) : a, b, c \in Part}

LEMMA IntObjIs ==
    ASSUME NEW n
    PROVE  /\ IntObj(n).num = n /\ IntObj(n).type = "int" /\ IntObj(n) # NoneObj
           /\ ~IsException(IntObj(n)) /\ Index(IntObj(n)) = IntObj(n)
<1>1. IntObj(n).num = n /\ IntObj(n).type = "int" /\ NoneObj.type = "None"
  BY DEF IntObj, NoneObj
<1> QED BY <1>1 DEF IsException, Index, IsSmall

LEMMA FromTheEndIs ==
    ASSUME NEW i \in IntRange, NEW length \in 0 .. IntMax
    PROVE  FromTheEnd(i, length) = IF i < 0 THEN i + length ELSE i
<1>1. /\ i \in Int /\ length \in Int /\ IntMin \in Int /\ IntMax \in Int
      /\ IntMin <= i /\ i <= IntMax /\ 0 <= length /\ length <= IntMax
      /\ IntMin = -IntMax - 1
  BY Words, InWord
<1>2. CASE i < 0
  <2>1. Wrap(i + length) = i + length
    BY <1>1, <1>2, InWord, WrapOfWord
  <2> QED BY <1>2, <2>1 DEF FromTheEnd
<1>3. CASE ~(i < 0)
  BY <1>3 DEF FromTheEnd
<1> QED BY <1>2, <1>3

(* An index of a sequence of any length is one of its positions, counted from  *)
(* the end when it is negative, or is refused (IndexIntCheck, internal.go:132). *)
THEOREM IndicesExact ==
    \A i \in IntRange, max \in 0 .. IntMax :
        IndexIntCheck(IntObj(i), max) =
            IF i \in 0 .. max - 1 THEN IntObj(i)
            ELSE IF i \in -max .. -1 THEN IntObj(i + max)
            ELSE IndexError
<1> SUFFICES ASSUME NEW i \in IntRange, NEW max \in 0 .. IntMax
             PROVE  IndexIntCheck(IntObj(i), max) =
                        IF i \in 0 .. max - 1 THEN IntObj(i)
                        ELSE IF i \in -max .. -1 THEN IntObj(i + max)
                        ELSE IndexError
  OBVIOUS
<1>1. i \in Int /\ max \in Int
  BY Words
<1>2. FromTheEnd(i, max) = IF i < 0 THEN i + max ELSE i
  BY FromTheEndIs
<1>3. IndexIntCheck(IntObj(i), max) =
        IF FromTheEnd(i, max) \in 0 .. max - 1
        THEN IntObj(FromTheEnd(i, max)) ELSE IndexError
  BY IntObjIs DEF IndexIntCheck, Bind
<1> QED BY <1>1, <1>2, <1>3

(* The bounds of a slice end up where the code clips them.                     *)
Default(part, default) == IF part = NoneObj THEN default ELSE part.num
StepOf(s) ==
    LET n == Default(s.step, 1) IN IF n < -IntMax THEN -IntMax ELSE n
Start(s, length, step) ==
    IF s.start = NoneObj THEN IF step < 0 THEN length - 1 ELSE 0
                         ELSE Clipped(s.start.num, length, step)
Stop(s, length, step) ==
    IF s.stop = NoneObj THEN IF step < 0 THEN -1 ELSE length
                        ELSE Clipped(s.stop.num, length, step)

LEMMA SliceStepIs ==
    ASSUME NEW s \in WordSlices
    PROVE  /\ s.step # NoneObj /\ s.step.num = 0 => SliceStep(s.step) = ValueError
           /\ ~(s.step # NoneObj /\ s.step.num = 0) =>
                SliceStep(s.step) = IntObj(StepOf(s))
<1>1. s.step \in Part
  BY DEF WordSlices, Slice
<1>2. CASE s.step = NoneObj
  <2>1. ~(1 < -IntMax)
    BY Words
  <2> QED BY <1>2, <2>1 DEF SliceStep, StepOf, Default
<1>3. CASE s.step # NoneObj
  <2>1. PICK n \in IntRange : s.step = IntObj(n)
    BY <1>1, <1>3 DEF Part
  <2> QED BY <1>3, <2>1, IntObjIs DEF SliceStep, StepOf, Default, Bind
<1> QED BY <1>2, <1>3

LEMMA SliceBoundIs ==
    ASSUME NEW part \in Part, NEW length, NEW step, NEW default
    PROVE  SliceBound(part, length, step, default) =
             IntObj(IF part = NoneObj THEN default ELSE Clipped(part.num, length, step))
<1>1. CASE part = NoneObj
  BY <1>1 DEF SliceBound
<1>2. CASE part # NoneObj
  <2>1. PICK n \in IntRange : part = IntObj(n)
    BY <1>2 DEF Part
  <2> QED BY <1>2, <2>1, IntObjIs DEF SliceBound, Bind
<1> QED BY <1>1, <1>2

LEMMA GetIndicesIs ==
    ASSUME NEW s \in WordSlices, NEW length
    PROVE  /\ s.step # NoneObj /\ s.step.num = 0 => GetIndices(s, length) = ValueError
           /\ ~(s.step # NoneObj /\ s.step.num = 0) =>
                LET step  == StepOf(s)
                    start == Start(s, length, step)
                    stop  == Stop(s, length, step)
                IN  GetIndices(s, length) =
                        [type |-> "indices", start |-> start, stop |-> stop, step |-> step,
                         count |-> SliceLength(start, stop, step)]
<1>1. s.start \in Part /\ s.stop \in Part
  BY DEF WordSlices, Slice
<1>2. IsException(ValueError)
  BY DEF IsException, ValueError, Exception
<1>3. CASE s.step # NoneObj /\ s.step.num = 0
  BY <1>2, <1>3, SliceStepIs DEF GetIndices, Bind
<1>4. CASE ~(s.step # NoneObj /\ s.step.num = 0)
  <2> DEFINE step  == StepOf(s)
             start == Start(s, length, step)
             stop  == Stop(s, length, step)
  <2>1. SliceStep(s.step) = IntObj(step)
    BY <1>4, SliceStepIs
  <2>2. SliceBound(s.start, length, step, IF step < 0 THEN length - 1 ELSE 0) = IntObj(start)
    BY <1>1, SliceBoundIs DEF Start
  <2>3. SliceBound(s.stop, length, step, IF step < 0 THEN -1 ELSE length) = IntObj(stop)
    BY <1>1, SliceBoundIs DEF Stop
  <2> HIDE DEF step, start, stop
  <2>4. GetIndices(s, length) =
            [type |-> "indices", start |-> start, stop |-> stop, step |-> step,
             count |-> SliceLength(start, stop, step)]
    BY <2>1, <2>2, <2>3, IntObjIs DEF GetIndices, Bind
  <2> QED BY <1>4, <2>4 DEF step, start, stop
<1> QED BY <1>3, <1>4

(* The numbers from a on by steps of st, n of them.                            *)
Progression(a, st, n) == {a + k * st : k \in 0 .. n - 1}

LEMMA ProgressionCounts ==
    ASSUME NEW a \in Int, NEW st \in Int, st # 0, NEW n \in Nat
    PROVE  Cardinality(Progression(a, st, n)) = n
<1> DEFINE D == 0 .. n - 1
           P == Progression(a, st, n)
           f == [k \in D |-> a + k * st]
<1>1. IsFiniteSet(D) /\ Cardinality(D) = n
  BY FS_Interval
<1>2. f \in [D -> P] /\ \A x \in P : \E k \in D : f[k] = x
  BY DEF Progression
<1>3. ASSUME NEW j \in D, NEW k \in D, f[j] = f[k] PROVE j = k
  <2>1. (j - k) * st = 0
    BY <1>3
  <2> QED BY <2>1
<1>4. f \in Bijection(D, P)
  <2> HIDE DEF f, D, P
  <2> QED BY <1>2, <1>3 DEF Bijection, Injection, IsInjective, Surjection
<1> HIDE DEF f, D
<1> QED BY <1>1, <1>4, FS_Bijection DEF ExistsBijection, P

(* Every d-th number from a up to b, and from a down to b.                     *)
LEMMA MultipleIs ==
    ASSUME NEW x \in Int, NEW d \in Int, d > 0
    PROVE  x % d = 0 <=> \E k \in Int : x = d * k
<1>1. ASSUME x % d = 0 PROVE \E k \in Int : x = d * k
  BY <1>1, Division
<1>2. ASSUME NEW k \in Int, x = d * k PROVE x % d = 0
  <2>1. (d * k + 0) % d = 0
    BY QuotientIs
  <2> QED BY <1>2, <2>1
<1> QED BY <1>1, <1>2

LEMMA Rising ==
    ASSUME NEW a \in Int, NEW b \in Int, a <= b, NEW d \in Int, d > 0
    PROVE  /\ ((b - a) \div d) + 1 \in Nat
           /\ \A x : x \in Progression(a, d, ((b - a) \div d) + 1)
                     <=> x \in a .. b /\ (x - a) % d = 0
<1> DEFINE q == (b - a) \div d
<1>1. PICK r \in Int : 0 <= r /\ r < d /\ b - a = d * q + r /\ q \in Int
  <2> DEFINE c == b - a
  <2>1. c \in Int
    OBVIOUS
  <2>2. /\ c \div d \in Int /\ c % d \in Int
        /\ 0 <= c % d /\ c % d < d /\ c = d * (c \div d) + (c % d)
    BY <2>1, Division
  <2> QED BY <2>2
<1> HIDE DEF q
<1>2. q >= 0
  <2>1. ASSUME q <= -1 PROVE FALSE
    <3>1. d * q <= -d
      BY <1>1, <2>1
    <3> QED BY <1>1, <3>1
  <2> QED BY <1>1, <2>1
<1>3. ASSUME NEW k \in 0 .. q PROVE a + k * d \in a .. b /\ ((a + k * d) - a) % d = 0
  <2>1. k * d >= 0 /\ k * d <= d * q /\ k * d \in Int /\ d * q \in Int
    BY <1>1, <1>2
  <2>2. a + k * d \in a .. b
    BY <1>1, <2>1
  <2>3. (a + k * d) - a = d * k
    BY <1>1
  <2> QED BY <2>2, <2>3, MultipleIs
<1>4. ASSUME NEW x \in a .. b, (x - a) % d = 0 PROVE \E k \in 0 .. q : x = a + k * d
  <2>1. PICK k \in Int : x - a = d * k
    <3>1. x - a \in Int
      OBVIOUS
    <3> QED BY <1>4, <3>1, MultipleIs
  <2>2. k >= 0
    <3>1. ASSUME k <= -1 PROVE FALSE
      <4>1. d * k <= -d
        BY <3>1
      <4> QED BY <2>1, <4>1
    <3> QED BY <3>1
  <2>3. k <= q
    <3>1. ASSUME k >= q + 1 PROVE FALSE
      <4>1. d * k >= d * q + d
        BY <1>1, <3>1
      <4>2. d * q \in Int /\ d * k \in Int
        BY <1>1
      <4> QED BY <1>1, <2>1, <4>1, <4>2
    <3> QED BY <1>1, <3>1
  <2> QED BY <1>1, <2>1, <2>2, <2>3
<1>5. Progression(a, d, q + 1) = {a + k * d : k \in 0 .. q}
  BY <1>1 DEF Progression
<1>6. \A x : x \in Progression(a, d, q + 1) <=> x \in a .. b /\ (x - a) % d = 0
  BY <1>3, <1>4, <1>5
<1>7. q + 1 \in Nat
  BY <1>1, <1>2
<1> QED BY <1>6, <1>7 DEF q

LEMMA Falling ==
    ASSUME NEW a \in Int, NEW b \in Int, b <= a, NEW d \in Int, d > 0
    PROVE  /\ ((a - b) \div d) + 1 \in Nat
           /\ \A x : x \in Progression(a, -d, ((a - b) \div d) + 1)
                     <=> x \in b .. a /\ (x - a) % d = 0
<1> DEFINE n == ((a - b) \div d) + 1
<1>1. /\ n \in Nat
      /\ \A x : x \in Progression(-a, d, n) <=> x \in -a .. -b /\ (x - (-a)) % d = 0
  <2> DEFINE A == -a
             B == -b
  <2>1. A \in Int /\ B \in Int /\ A <= B /\ B - A = a - b
    OBVIOUS
  <2> HIDE DEF A, B
  <2>2. /\ ((B - A) \div d) + 1 \in Nat
        /\ \A x : x \in Progression(A, d, ((B - A) \div d) + 1)
                  <=> x \in A .. B /\ (x - A) % d = 0
    BY <2>1, Rising
  <2>3. /\ n \in Nat
        /\ \A x : x \in Progression(A, d, n) <=> x \in A .. B /\ (x - A) % d = 0
    BY <2>1, <2>2
  <2> QED BY <2>3 DEF A, B
<1> HIDE DEF n
<1>2. ASSUME NEW x \in Int
      PROVE  /\ x \in Progression(a, -d, n) <=> -x \in Progression(-a, d, n)
             /\ (x - a) % d = 0 <=> (-x - (-a)) % d = 0
  <2>1. ASSUME NEW k \in 0 .. n - 1
        PROVE  x = a + k * (-d) <=> -x = -a + k * d
    <3>1. k * (-d) = -(k * d) /\ k * d \in Int
      BY <1>1
    <3> QED BY <3>1
  <2>2. x \in Progression(a, -d, n) <=> -x \in Progression(-a, d, n)
    BY <2>1 DEF Progression
  <2>3. \A k \in Int : x - a = d * k <=> (-x) - (-a) = d * (-k)
    <3>1. ASSUME NEW k \in Int PROVE x - a = d * k <=> (-x) - (-a) = d * (-k)
      <4>1. d * (-k) = -(d * k) /\ d * k \in Int
        OBVIOUS
      <4> QED BY <4>1
    <3> QED BY <3>1
  <2>4. (\E k \in Int : x - a = d * k) <=> (\E k \in Int : (-x) - (-a) = d * k)
    <3>1. ASSUME NEW k \in Int, (-x) - (-a) = d * k
          PROVE  \E j \in Int : x - a = d * j
      <4>1. d * (-k) = -(d * k) /\ d * k \in Int /\ -k \in Int
        OBVIOUS
      <4>2. x - a = d * (-k)
        BY <3>1, <4>1
      <4> QED BY <4>1, <4>2
    <3>2. ASSUME NEW k \in Int, x - a = d * k
          PROVE  \E j \in Int : (-x) - (-a) = d * j
      <4>1. -k \in Int /\ (-x) - (-a) = d * (-k)
        BY <2>3, <3>2
      <4> QED BY <4>1
    <3> QED BY <3>1, <3>2
  <2>5. x - a \in Int /\ (-x) - (-a) \in Int
    OBVIOUS
  <2>6. (x - a) % d = 0 <=> ((-x) - (-a)) % d = 0
    BY <2>4, <2>5, MultipleIs
  <2> QED BY <2>2, <2>6
<1>3. \A x \in Progression(a, -d, n) : x \in Int
  BY <1>1 DEF Progression
<1>4. \A x \in Int : -x \in -a .. -b <=> x \in b .. a
  OBVIOUS
<1> QED BY <1>1, <1>2, <1>3, <1>4 DEF n

(* Where a slice goes: from its start by its step as often as SliceLength says,*)
(* which is every position that is chosen.                                     *)
Normal(part, length, default) ==
    IF part = NoneObj THEN default
    ELSE IF part.num < 0 THEN part.num + length ELSE part.num

LEMMA ClippedIs ==
    ASSUME NEW part \in Part, part # NoneObj, NEW length \in 0 .. IntMax, NEW step \in Int
    PROVE  /\ Normal(part, length, 0) \in Int
           /\ LET j == Normal(part, length, 0) IN
              Clipped(part.num, length, step) =
                IF j < 0 THEN (IF step < 0 THEN -1 ELSE 0)
                ELSE IF j >= length THEN (IF step < 0 THEN length - 1 ELSE length)
                ELSE j
<1>1. PICK n \in IntRange : part = IntObj(n)
  BY DEF Part
<1>2. part.num = n /\ n \in Int
  BY <1>1, IntObjIs, Words
<1> QED BY <1>2, FromTheEndIs DEF Normal, Clipped

LEMMA SliceLengthRises ==
    ASSUME NEW a \in Int, NEW b \in Int, NEW d \in Int, d > 0
    PROVE  /\ a >= b => SliceLength(a, b, d) = 0
           /\ a < b => SliceLength(a, b, d) = ((b - 1 - a) \div d) + 1
<1>1. CASE a >= b
  BY <1>1 DEF SliceLength
<1>2. CASE a < b
  <2> DEFINE c == b - 1 - a
  <2>1. c \in Int /\ c >= 0 /\ b - a - 1 = c
    BY <1>2
  <2> HIDE DEF c
  <2>2. Abs(c) = c /\ Abs(d) = d
    BY <2>1, AbsIs
  <2>3. Quo(c, d) = c \div d
    BY <2>1, <2>2 DEF Quo
  <2> QED BY <1>2, <2>1, <2>3 DEF SliceLength, c
<1> QED BY <1>1, <1>2

LEMMA SliceLengthFalls ==
    ASSUME NEW a \in Int, NEW b \in Int, NEW d \in Int, d > 0
    PROVE  /\ b >= a => SliceLength(a, b, -d) = 0
           /\ b < a => SliceLength(a, b, -d) = ((a - (b + 1)) \div d) + 1
<1>1. CASE b >= a
  BY <1>1 DEF SliceLength
<1>2. CASE b < a
  <2> DEFINE c == a - (b + 1)
             e == -d
  <2>1. c \in Int /\ c >= 0 /\ b - a + 1 = -c /\ -c \in Int
    BY <1>2
  <2>2. e \in Int /\ e < 0 /\ Abs(e) = d
    BY AbsIs
  <2>3. Abs(-c) = c
    <3> HIDE DEF c
    <3> QED BY <2>1, AbsIs
  <2>4. Quo(-c, e) = c \div d
    <3>1. CASE c > 0
      <4>1. (-c < 0) = (e < 0)
        BY <2>1, <2>2, <3>1
      <4> HIDE DEF c, e
      <4> QED BY <2>2, <2>3, <4>1 DEF Quo
    <3>2. CASE c = 0
      <4>1. 0 \div d = 0
        <5>1. (d * 0 + 0) \div d = 0
          BY QuotientIs
        <5>2. d * 0 + 0 = 0
          OBVIOUS
        <5> QED BY <5>1, <5>2
      <4>2. Quo(-c, e) = IF (-c < 0) = (e < 0) THEN 0 ELSE -0
        <5> HIDE DEF c, e
        <5> QED BY <2>2, <2>3, <3>2, <4>1 DEF Quo
      <4> QED BY <3>2, <4>1, <4>2
    <3> QED BY <2>1, <3>1, <3>2
  <2>5. SliceLength(a, b, e) = Quo(b - a + 1, e) + 1
    <3> HIDE DEF e
    <3> QED BY <1>2, <2>2 DEF SliceLength
  <2> QED BY <2>1, <2>4, <2>5
<1> QED BY <1>1, <1>2

\* A bound clipped to the positions, for a slice that rises or falls.
Clip(j, length, step) ==
    IF j < 0 THEN (IF step < 0 THEN -1 ELSE 0)
    ELSE IF j >= length THEN (IF step < 0 THEN length - 1 ELSE length)
    ELSE j

First(s, length, step) == Normal(s.start, length, IF step < 0 THEN length - 1 ELSE 0)
Final(s, length, step) == Normal(s.stop, length, IF step < 0 THEN -1 ELSE length)

LEMMA BoundsClipped ==
    ASSUME NEW s \in WordSlices, NEW length \in 0 .. IntMax, NEW step \in Int
    PROVE  /\ First(s, length, step) \in Int /\ Final(s, length, step) \in Int
           /\ Start(s, length, step) = Clip(First(s, length, step), length, step)
           /\ Stop(s, length, step) = Clip(Final(s, length, step), length, step)
<1>1. s.start \in Part /\ s.stop \in Part /\ length \in Int /\ length >= 0
  BY Words DEF WordSlices, Slice
<1>2. ASSUME NEW part \in Part, part # NoneObj, NEW default
      PROVE  /\ Normal(part, length, default) \in Int
             /\ Clipped(part.num, length, step) = Clip(Normal(part, length, default), length, step)
  <2>1. Normal(part, length, default) = Normal(part, length, 0)
    BY <1>2 DEF Normal
  <2> QED BY <1>2, <2>1, ClippedIs DEF Clip
<1>3. /\ First(s, length, step) \in Int
      /\ Start(s, length, step) = Clip(First(s, length, step), length, step)
  <2>1. CASE s.start = NoneObj
    BY <1>1, <2>1 DEF First, Start, Normal, Clip
  <2>2. CASE s.start # NoneObj
    BY <1>1, <1>2, <2>2 DEF First, Start
  <2> QED BY <2>1, <2>2
<1>4. /\ Final(s, length, step) \in Int
      /\ Stop(s, length, step) = Clip(Final(s, length, step), length, step)
  <2>1. CASE s.stop = NoneObj
    BY <1>1, <2>1 DEF Final, Stop, Normal, Clip
  <2>2. CASE s.stop # NoneObj
    BY <1>1, <1>2, <2>2 DEF Final, Stop
  <2> QED BY <2>1, <2>2
<1> QED BY <1>3, <1>4

LEMMA ChosenIs ==
    ASSUME NEW s \in WordSlices, NEW length \in 0 .. IntMax
    PROVE  LET step  == Default(s.step, 1)
               first == First(s, length, step)
               last  == Final(s, length, step)
               from  == IF step < 0 THEN (IF first >= length THEN length - 1 ELSE first)
                                    ELSE (IF first < 0 THEN 0 ELSE first)
           IN  Chosen(s, length) =
                 {k \in 0 .. length - 1 :
                    /\ IF step < 0 THEN k <= first /\ k > last ELSE k >= first /\ k < last
                    /\ (k - from) % Abs(step) = 0}
BY DEF Chosen, Default, First, Final, Normal

LEMMA StepIs ==
    ASSUME NEW s \in WordSlices
    PROVE  /\ Default(s.step, 1) \in IntRange
           /\ s.step # NoneObj => Default(s.step, 1) = s.step.num
           /\ s.step = NoneObj => Default(s.step, 1) = 1
<1>1. s.step \in Part /\ 1 \in IntRange
  BY Words DEF WordSlices, Slice
<1>2. CASE s.step = NoneObj
  BY <1>1, <1>2 DEF Default
<1>3. CASE s.step # NoneObj
  <2>1. PICK n \in IntRange : s.step = IntObj(n)
    BY <1>1, <1>3 DEF Part
  <2> QED BY <1>3, <2>1, IntObjIs DEF Default
<1> QED BY <1>2, <1>3

LEMMA ChosenRising ==
    ASSUME NEW s \in WordSlices, NEW length \in 0 .. IntMax, Default(s.step, 1) > 0
    PROVE  LET step  == StepOf(s)
               start == Start(s, length, step)
               stop  == Stop(s, length, step)
               count == SliceLength(start, stop, step)
           IN  /\ step \in Int /\ step # 0 /\ start \in Int /\ count \in Nat
               /\ Chosen(s, length) = Progression(start, step, count)
<1> DEFINE d     == Default(s.step, 1)
           start == Start(s, length, d)
           stop  == Stop(s, length, d)
           first == First(s, length, d)
           last  == Final(s, length, d)
           from  == IF first < 0 THEN 0 ELSE first
           count == SliceLength(start, stop, d)
<1>1. d \in Int /\ d > 0 /\ StepOf(s) = d /\ Abs(d) = d /\ length \in Int /\ length >= 0
  <2>1. d \in Int /\ IntMax \in Int /\ -IntMax < 0
    BY StepIs, Words
  <2>2. d > 0
    OBVIOUS
  <2>3. StepOf(s) = d
    BY <2>1 DEF StepOf
  <2> HIDE DEF d
  <2> QED BY <2>1, <2>2, <2>3, AbsIs, Words
<1>2. /\ first \in Int /\ last \in Int
      /\ start = Clip(first, length, d) /\ stop = Clip(last, length, d)
  BY <1>1, BoundsClipped
<1>3. Chosen(s, length) = {k \in 0 .. length - 1 : k >= first /\ k < last /\ (k - from) % d = 0}
  <2> DEFINE F == IF d < 0 THEN (IF first >= length THEN length - 1 ELSE first)
                          ELSE (IF first < 0 THEN 0 ELSE first)
  <2>1. Chosen(s, length) =
            {k \in 0 .. length - 1 :
                /\ IF d < 0 THEN k <= first /\ k > last ELSE k >= first /\ k < last
                /\ (k - F) % Abs(d) = 0}
    BY ChosenIs
  <2>2. ~(d < 0) /\ F = from /\ Abs(d) = d
    BY <1>1
  <2> HIDE DEF d, first, last, from, F
  <2> QED BY <2>1, <2>2
<1> HIDE DEF d, start, stop, first, last, count
<1>4. /\ start \in 0 .. length /\ stop \in 0 .. length
      /\ \A k \in 0 .. length - 1 : k >= first /\ k < last <=> k >= start /\ k < stop
  BY <1>1, <1>2 DEF Clip
<1>5. CASE start >= stop
  <2>1. count = 0
    BY <1>1, <1>4, <1>5, SliceLengthRises DEF count
  <2>2. Chosen(s, length) = {}
    BY <1>3, <1>4, <1>5
  <2>3. Progression(start, d, 0) = {}
    BY DEF Progression
  <2> QED BY <1>1, <1>4, <2>1, <2>2, <2>3 DEF start, stop, count
<1>6. CASE start < stop
  <2>1. from = start
    BY <1>1, <1>2, <1>4, <1>6 DEF Clip
  <2> HIDE DEF from
  <2> DEFINE b == stop - 1
  <2>2. Chosen(s, length) = {x \in start .. b : (x - start) % d = 0}
    BY <1>3, <1>4, <2>1
  <2>3. start \in Int /\ b \in Int /\ start <= b /\ stop \in Int
    BY <1>1, <1>4, <1>6
  <2>4. count = ((b - start) \div d) + 1
    BY <1>1, <1>6, <2>3, SliceLengthRises DEF count
  <2> HIDE DEF b
  <2>5. /\ ((b - start) \div d) + 1 \in Nat
        /\ \A x : x \in Progression(start, d, ((b - start) \div d) + 1)
                  <=> x \in start .. b /\ (x - start) % d = 0
    BY <1>1, <2>3, Rising
  <2> QED BY <1>1, <2>2, <2>3, <2>4, <2>5 DEF start, stop, count
<1> QED BY <1>4, <1>5, <1>6

LEMMA OnlyZero ==
    ASSUME NEW y \in Int, NEW d \in Int, d > 0, -d < y, y <= 0
    PROVE  y % d = 0 <=> y = 0
<1>1. ASSUME y % d = 0 PROVE y = 0
  <2>1. PICK k \in Int : y = d * k
    BY <1>1, MultipleIs
  <2>2. ~(k >= 1) /\ ~(k <= -1)
    <3>1. k >= 1 => d * k >= d
      OBVIOUS
    <3>2. k <= -1 => d * k <= -d
      OBVIOUS
    <3> QED BY <2>1, <3>1, <3>2
  <2> QED BY <2>1, <2>2
<1>2. ASSUME y = 0 PROVE y % d = 0
  <2>1. y = d * 0
    BY <1>2
  <2> QED BY <2>1, MultipleIs
<1> QED BY <1>1, <1>2

LEMMA ChosenFalling ==
    ASSUME NEW s \in WordSlices, NEW length \in 0 .. IntMax, Default(s.step, 1) < 0
    PROVE  LET step  == StepOf(s)
               start == Start(s, length, step)
               stop  == Stop(s, length, step)
               count == SliceLength(start, stop, step)
           IN  /\ step \in Int /\ step # 0 /\ start \in Int /\ count \in Nat
               /\ Chosen(s, length) = Progression(start, step, count)
<1> DEFINE n     == Default(s.step, 1)
           d     == -n
           m     == StepOf(s)
           e     == -m
           start == Start(s, length, m)
           stop  == Stop(s, length, m)
           first == First(s, length, m)
           last  == Final(s, length, m)
           from  == IF first >= length THEN length - 1 ELSE first
           count == SliceLength(start, stop, m)
<1>1. /\ n \in Int /\ n < 0 /\ d \in Int /\ d > 0 /\ Abs(n) = d
      /\ m \in Int /\ m < 0 /\ e \in Int /\ e > 0 /\ m = -e
      /\ length \in Int /\ length >= 0
      /\ d = e \/ (d > e /\ e >= length)
  <2>1. n \in Int /\ IntMax \in Int /\ 0 < IntMax /\ length <= IntMax
    BY StepIs, Words
  <2>2. n < 0
    OBVIOUS
  <2>3. m = IF n < -IntMax THEN -IntMax ELSE n
    BY DEF StepOf
  <2> HIDE DEF n, m
  <2> QED BY <2>1, <2>2, <2>3, AbsIs
<1>2. /\ first \in Int /\ last \in Int
      /\ start = Clip(first, length, m) /\ stop = Clip(last, length, m)
  BY <1>1, BoundsClipped
<1>3. Chosen(s, length) = {k \in 0 .. length - 1 : k <= first /\ k > last /\ (k - from) % d = 0}
  <2> DEFINE fst == First(s, length, n)
             lst == Final(s, length, n)
             F == IF n < 0 THEN (IF fst >= length THEN length - 1 ELSE fst)
                          ELSE (IF fst < 0 THEN 0 ELSE fst)
  <2>1. Chosen(s, length) =
            {k \in 0 .. length - 1 :
                /\ IF n < 0 THEN k <= fst /\ k > lst ELSE k >= fst /\ k < lst
                /\ (k - F) % Abs(n) = 0}
    BY ChosenIs
  <2>2. fst = first /\ lst = last
    BY <1>1 DEF First, Final
  <2>3. n < 0 /\ F = from /\ Abs(n) = d
    BY <1>1, <2>2
  <2> HIDE DEF n, d, first, last, from, F, fst, lst
  <2> QED BY <2>1, <2>2, <2>3
<1> HIDE DEF n, d, m, e, start, stop, first, last, count
<1>4. /\ start \in -1 .. length - 1 /\ stop \in -1 .. length - 1
      /\ \A k \in 0 .. length - 1 : k <= first /\ k > last <=> k <= start /\ k > stop
  BY <1>1, <1>2 DEF Clip
<1>5. CASE stop >= start
  <2>1. count = 0
    BY <1>1, <1>4, <1>5, SliceLengthFalls DEF count
  <2>2. Chosen(s, length) = {}
    BY <1>3, <1>4, <1>5
  <2>3. Progression(start, m, 0) = {}
    BY DEF Progression
  <2> QED BY <1>1, <1>4, <2>1, <2>2, <2>3 DEF start, stop, count, m
<1>6. CASE stop < start
  <2>1. from = start
    BY <1>1, <1>2, <1>4, <1>6 DEF Clip
  <2> HIDE DEF from
  <2> DEFINE b == stop + 1
  <2>2. Chosen(s, length) = {x \in b .. start : (x - start) % d = 0}
    BY <1>3, <1>4, <2>1
  <2>3. /\ start \in Int /\ b \in Int /\ b <= start /\ stop \in Int
        /\ start < length /\ 0 <= b
    BY <1>1, <1>4, <1>6
  <2>4. count = ((start - b) \div e) + 1
    BY <1>1, <1>6, <2>3, SliceLengthFalls DEF count
  <2> HIDE DEF b
  <2>5. /\ ((start - b) \div e) + 1 \in Nat
        /\ \A x : x \in Progression(start, -e, ((start - b) \div e) + 1)
                  <=> x \in b .. start /\ (x - start) % e = 0
    BY <1>1, <2>3, Falling
  <2>6. \A x \in b .. start : (x - start) % d = 0 <=> (x - start) % e = 0
    <3>1. CASE d = e
      BY <3>1
    <3>2. CASE d > e /\ e >= length
      <4>1. ASSUME NEW x \in b .. start
            PROVE  (x - start) % d = 0 <=> (x - start) % e = 0
        <5> DEFINE y == x - start
        <5>1. y \in Int /\ -e < y /\ -d < y /\ y <= 0
          BY <1>1, <2>3, <3>2
        <5> HIDE DEF y
        <5>2. (y % d = 0 <=> y = 0) /\ (y % e = 0 <=> y = 0)
          BY <1>1, <5>1, OnlyZero
        <5> QED BY <5>2 DEF y
      <4> QED BY <4>1
    <3> QED BY <1>1, <3>1, <3>2
  <2>7. Chosen(s, length) = Progression(start, m, count)
    BY <1>1, <2>2, <2>4, <2>5, <2>6
  <2>8. m # 0 /\ count \in Nat
    BY <1>1, <2>4, <2>5
  <2> QED BY <1>1, <2>3, <2>7, <2>8 DEF start, stop, count, m
<1> QED BY <1>4, <1>5, <1>6

(* A slice with any words for its parts, of anything of any length, goes       *)
(* through exactly the positions it stands for, in the order of its step, and  *)
(* as often as it says (Slice.GetIndices, slice.go:57).                        *)
THEOREM SlicesChoose ==
    \A s \in WordSlices, length \in 0 .. IntMax : SliceExact(s, length)
<1> SUFFICES ASSUME NEW s \in WordSlices, NEW length \in 0 .. IntMax
             PROVE  SliceExact(s, length)
  OBVIOUS
<1>1. CASE s.step # NoneObj /\ s.step.num = 0
  <2>1. GetIndices(s, length) = ValueError
    BY <1>1, GetIndicesIs
  <2> QED BY <1>1, <2>1 DEF SliceExact
<1>2. CASE ~(s.step # NoneObj /\ s.step.num = 0)
  <2> DEFINE step  == StepOf(s)
             start == Start(s, length, step)
             stop  == Stop(s, length, step)
             count == SliceLength(start, stop, step)
             ix    == GetIndices(s, length)
  <2>1. ix = [type |-> "indices", start |-> start, stop |-> stop, step |-> step,
              count |-> count]
    BY <1>2, GetIndicesIs
  <2>2. /\ step \in Int /\ step # 0 /\ start \in Int /\ count \in Nat
        /\ Chosen(s, length) = Progression(start, step, count)
    <3>1. Default(s.step, 1) \in Int /\ Default(s.step, 1) # 0
      BY <1>2, StepIs, Words
    <3>2. CASE Default(s.step, 1) > 0
      BY <3>2, ChosenRising
    <3>3. CASE Default(s.step, 1) < 0
      BY <3>3, ChosenFalling
    <3> QED BY <3>1, <3>2, <3>3
  <2> HIDE DEF step, start, stop, count
  <2>3. ix.start = start /\ ix.step = step /\ ix.count = count
    BY <2>1
  <2>4. Cardinality(Chosen(s, length)) = count
    BY <2>2, ProgressionCounts
  <2> HIDE DEF ix
  <2>5. {ix.start + k * ix.step : k \in 0 .. ix.count - 1} = Chosen(s, length)
    BY <2>2, <2>3 DEF Progression
  <2> QED BY <1>2, <2>3, <2>4, <2>5 DEF SliceExact, ix
<1> QED BY <1>1, <1>2

-------------------------------------------------------------------------------
(* Ranges.                                                                     *)

LEMMA WrapSum ==
    ASSUME NEW x \in Int, NEW y \in Int
    PROVE  Wrap(x + Wrap(y)) = Wrap(x + y)
<1>1. PICK k \in Int : Wrap(y) = y + 2^Width * k
  BY WrapIsWord
<1>2. 2^Width * k \in Int
  BY Words
<1>3. x + Wrap(y) = (x + y) + 2^Width * k /\ x + y \in Int
  BY <1>1, <1>2
<1> QED BY <1>3, WrapAbsorbs

(* So many steps of d from 0 reach c and one less does not.                    *)
LEMMA StepsTo ==
    ASSUME NEW c \in Int, c > 0, NEW d \in Int, d > 0
    PROVE  LET n == ((c - 1) \div d) + 1 IN
           /\ n \in Nat /\ n > 0 /\ n <= c
           /\ (n - 1) * d < c /\ c <= n * d
<1> DEFINE q == (c - 1) \div d
<1>1. PICK r \in Int : q \in Int /\ 0 <= r /\ r < d /\ c - 1 = d * q + r
  <2> DEFINE e == c - 1
  <2>1. e \in Int
    OBVIOUS
  <2>2. /\ e \div d \in Int /\ e % d \in Int
        /\ 0 <= e % d /\ e % d < d /\ e = d * (e \div d) + (e % d)
    BY <2>1, Division
  <2> QED BY <2>2
<1> HIDE DEF q
<1>2. q >= 0
  <2>1. q <= -1 => d * q <= -d
    BY <1>1
  <2> QED BY <1>1, <2>1
<1>3. d * q >= q /\ d * q \in Int /\ q * d = d * q /\ (q + 1) * d = d * q + d
  BY <1>1, <1>2
<1>4. (q + 1) - 1 = q
  BY <1>1
<1>5. /\ q + 1 \in Nat /\ q + 1 > 0 /\ q + 1 <= c
      /\ ((q + 1) - 1) * d < c /\ c <= (q + 1) * d
  BY <1>1, <1>2, <1>3, <1>4
<1> QED BY <1>5 DEF q

\* How many items there are before stop, in the direction of the step.
Before(i, stop, step) == IF step > 0 THEN i < stop ELSE i > stop

LEMMA TrueLengthIs ==
    ASSUME NEW start \in Int, NEW stop \in Int, NEW step \in Int, step # 0
    PROVE  LET n == TrueLength(start, stop, step) IN
           /\ n \in Nat /\ n <= Abs(stop - start)
           /\ ~Before(start + n * step, stop, step)
           /\ n > 0 => Before(start + (n - 1) * step, stop, step)
<1> DEFINE n == TrueLength(start, stop, step)
<1>1. CASE ~Before(start, stop, step)
  <2>1. n = 0
    BY <1>1 DEF TrueLength, Before
  <2>2. start + 0 * step = start /\ Abs(stop - start) \in Nat
    BY AbsIs
  <2> QED BY <1>1, <2>1, <2>2
<1>2. CASE Before(start, stop, step) /\ step > 0
  <2> DEFINE c == stop - start
  <2>1. c \in Int /\ c > 0 /\ stop - start - 1 = c - 1
    BY <1>2 DEF Before
  <2>2. n = ((c - 1) \div step) + 1
    BY <1>2, <2>1 DEF TrueLength, Before
  <2>3. Abs(c) = c
    <3> HIDE DEF c
    <3> QED BY <2>1, AbsIs
  <2>4. n \in Nat /\ n > 0 /\ n <= c /\ (n - 1) * step < c /\ c <= n * step
    <3> HIDE DEF c, n
    <3> QED BY <1>2, <2>1, <2>2, StepsTo
  <2> HIDE DEF n
  <2>5. n * step \in Int /\ (n - 1) * step \in Int
    BY <2>4
  <2>6. start + n * step >= stop /\ start + (n - 1) * step < stop
    BY <2>1, <2>4, <2>5
  <2> QED BY <1>2, <2>3, <2>4, <2>6 DEF Before, n
<1>3. CASE Before(start, stop, step) /\ step < 0
  <2> DEFINE c == start - stop
             d == -step
  <2>1. c \in Int /\ c > 0 /\ start - stop - 1 = c - 1 /\ d \in Int /\ d > 0
    BY <1>3 DEF Before
  <2>2. n = ((c - 1) \div d) + 1
    BY <1>3, <2>1 DEF TrueLength, Before
  <2>3. Abs(stop - start) = c
    BY <2>1, AbsIs
  <2>4. n \in Nat /\ n > 0 /\ n <= c /\ (n - 1) * d < c /\ c <= n * d
    <3> HIDE DEF c, d, n
    <3> QED BY <2>1, <2>2, StepsTo
  <2> HIDE DEF n
  <2>5. /\ n * step \in Int /\ (n - 1) * step \in Int
        /\ n * d = -(n * step) /\ (n - 1) * d = -((n - 1) * step)
    BY <2>4
  <2>6. start + n * step <= stop /\ start + (n - 1) * step > stop
    BY <2>1, <2>4, <2>5
  <2> QED BY <1>3, <2>3, <2>4, <2>6 DEF Before, n
<1> QED BY <1>1, <1>2, <1>3

(* The length in words is the true one when the distance of the ends is a      *)
(* word, for the smallest step too, which its negation leaves as it is.        *)
LEMMA RangeLengthIs ==
    ASSUME NEW start \in IntRange, NEW stop \in IntRange, NEW step \in IntRange, step # 0,
           Abs(stop - start) <= IntMax
    PROVE  ComputeRangeLength(start, stop, step) = TrueLength(start, stop, step)
<1> DEFINE n == TrueLength(start, stop, step)
<1>1. /\ start \in Int /\ stop \in Int /\ step \in Int /\ IntMin \in Int /\ IntMax \in Int
      /\ IntMin <= step /\ step <= IntMax /\ IntMin = -IntMax - 1 /\ IntMax > 0
      /\ 0 \in IntRange
  BY Words, InWord
<1>2. n \in Nat /\ n <= IntMax /\ Abs(stop - start) \in Nat
  <2>1. n \in Nat /\ n <= Abs(stop - start)
    BY <1>1, TrueLengthIs
  <2>2. Abs(stop - start) \in Nat
    BY <1>1, AbsIs
  <2> HIDE DEF n
  <2> QED BY <1>1, <2>1, <2>2
<1>3. Wrap(n) = n
  <2> HIDE DEF n
  <2> QED BY <1>1, <1>2, InWord, WrapOfWord
<1>4. CASE ~Before(start, stop, step)
  <2>1. n = 0
    BY <1>1, <1>4 DEF TrueLength, Before
  <2>2. ComputeRangeLength(start, stop, step) = 0
    BY <1>1, <1>4 DEF ComputeRangeLength, Span, Before
  <2> QED BY <2>1, <2>2
<1>5. CASE Before(start, stop, step) /\ step > 0
  <2> DEFINE x == stop - start - 1
  <2>1. x \in Int /\ x >= 0 /\ x < IntMax
    <3>1. stop - start \in Int /\ stop - start > 0
      BY <1>1, <1>5 DEF Before
    <3>2. Abs(stop - start) = stop - start
      BY <3>1, AbsIs
    <3> QED BY <1>1, <3>1, <3>2
  <2>2. Wrap(x) = x /\ Abs(x) = x /\ Abs(step) = step
    <3> HIDE DEF x
    <3> QED BY <1>1, <1>5, <2>1, InWord, WrapOfWord, AbsIs
  <2>3. Quo(x, step) = x \div step
    <3> HIDE DEF x
    <3> QED BY <1>1, <1>5, <2>1, <2>2 DEF Quo
  <2>4. n = (x \div step) + 1
    BY <1>5, <1>1 DEF TrueLength, Before
  <2>5. ComputeRangeLength(start, stop, step) = Wrap(Quo(Wrap(x), step) + 1)
    BY <1>5, <1>1 DEF ComputeRangeLength, Span, Stride, Before
  <2> HIDE DEF x, n
  <2> QED BY <1>3, <2>2, <2>3, <2>4, <2>5 DEF n
<1>6. CASE Before(start, stop, step) /\ step < 0
  <2> DEFINE x == start - stop - 1
             d == -step
             w == Wrap(d)
  <2>1. x \in Int /\ x >= 0 /\ x < IntMax /\ d \in Int /\ d > 0
    <3>1. stop - start \in Int /\ stop - start < 0
      BY <1>1, <1>6 DEF Before
    <3>2. Abs(stop - start) = -(stop - start)
      BY <3>1, AbsIs
    <3> QED BY <1>1, <1>6, <3>1, <3>2
  <2>2. Wrap(x) = x /\ Abs(x) = x
    <3> HIDE DEF x
    <3> QED BY <1>1, <2>1, InWord, WrapOfWord, AbsIs
  <2>3. Quo(x, w) = x \div d
    <3>1. CASE d <= IntMax
      <4>1. w = d /\ Abs(d) = d
        <5> HIDE DEF d
        <5> QED BY <1>1, <2>1, <3>1, InWord, WrapOfWord, AbsIs
      <4> HIDE DEF x, w, d
      <4> QED BY <1>1, <2>1, <2>2, <4>1 DEF Quo
    <3>2. CASE d > IntMax
      <4>1. d = Half /\ step = -Half /\ step = d + 2^Width * (-1)
        BY <1>1, <3>2, Words
      <4>2. w = step
        <5>1. Wrap(d + 2^Width * (-1)) = Wrap(d)
          <6> HIDE DEF d
          <6> QED BY <2>1, WrapAbsorbs
        <5>2. Wrap(step) = step
          BY WrapOfWord
        <5> QED BY <4>1, <5>1, <5>2
      <4>3. Abs(step) = d /\ d > x
        BY <1>1, <2>1, <3>2, AbsIs
      <4>4. x \div d = 0
        <5>1. (d * 0 + x) \div d = 0
          <6> HIDE DEF d, x
          <6> QED BY <2>1, <4>3, QuotientIs
        <5>2. d * 0 + x = x
          BY <2>1
        <5> QED BY <5>1, <5>2
      <4> HIDE DEF x, w, d
      <4>5. Quo(x, step) = IF (x < 0) = (step < 0) THEN 0 ELSE -0
        BY <2>2, <4>3, <4>4 DEF Quo
      <4> QED BY <4>2, <4>4, <4>5
    <3> QED BY <1>1, <2>1, <3>1, <3>2
  <2>4. n = (x \div d) + 1
    BY <1>6, <1>1 DEF TrueLength, Before
  <2>5. ComputeRangeLength(start, stop, step) = Wrap(Quo(Wrap(x), w) + 1)
    BY <1>6, <1>1 DEF ComputeRangeLength, Span, Stride, Before
  <2> HIDE DEF x, n, d, w
  <2> QED BY <1>3, <2>2, <2>3, <2>4, <2>5 DEF n
<1> QED BY <1>1, <1>4, <1>5, <1>6

LEMMA RangeGetitemIs ==
    ASSUME NEW r, r.start \in Int, r.step \in Int, r.length \in 0 .. IntMax,
           NEW i \in 0 .. r.length - 1, r.start + i * r.step \in IntRange
    PROVE  /\ RangeGetitem(r, IntObj(i)) = IntObj(r.start + i * r.step)
           /\ RangeGetitem(r, IntObj(i - r.length)) = IntObj(r.start + i * r.step)
<1> DEFINE start == r.start
           step == r.step
           n == r.length
<1>1. /\ n \in Int /\ i \in Int /\ 0 <= i /\ i < n /\ n <= IntMax /\ IntMax \in Int
      /\ IntMin \in Int /\ IntMin = -IntMax - 1
  BY Words
<1>2. i \in IntRange /\ i - n \in IntRange
  BY <1>1, InWord
<1>3. FromTheEnd(i, n) = i /\ FromTheEnd(i - n, n) = i
  <2>1. FromTheEnd(i, n) = i
    BY <1>1, <1>2, FromTheEndIs
  <2>2. FromTheEnd(i - n, n) = (i - n) + n
    <3>1. i - n < 0
      BY <1>1
    <3> QED BY <1>2, <3>1, FromTheEndIs
  <2> QED BY <1>1, <2>1, <2>2
<1>4. ComputeItem(r, i) = start + i * step
  <2>1. i * step \in Int
    BY <1>1
  <2>2. Wrap(start + Wrap(i * step)) = start + i * step
    BY <2>1, WrapSum, WrapOfWord
  <2> QED BY <2>2 DEF ComputeItem
<1>5. ASSUME NEW j, FromTheEnd(j, n) = i
      PROVE  RangeGetitem(r, IntObj(j)) = IntObj(start + i * step)
  BY <1>1, <1>4, <1>5, IntObjIs DEF RangeGetitem, Bind
<1> QED BY <1>3, <1>5

(* An iterator gives the items there are and then ends.                        *)
LEMMA GivenIs ==
    ASSUME NEW start \in IntRange, NEW stop \in IntRange, NEW step \in IntRange,
           step # 0, NEW n \in 0 .. IntMax, n = TrueLength(start, stop, step),
           start + n * step \in IntRange, NEW r,
           r = [type |-> "range", start |-> start, stop |-> stop, step |-> step, length |-> n]
    PROVE  Given(r) = n
<1> DEFINE ends == {k \in 0 .. Many - 1 : RangeExhausted(r, RangePosition(r, k))}
<1>1. /\ start \in Int /\ stop \in Int /\ step \in Int /\ n \in Nat
      /\ Many \in Int /\ n < Many
  <2>1. Half \in Int /\ n \in Nat /\ n < Half
    BY Words
  <2>2. Many = 2 * Half
    BY Words DEF Many
  <2> QED BY <2>1, <2>2, Words
<1>2. /\ ~Before(start + n * step, stop, step)
      /\ n > 0 => Before(start + (n - 1) * step, stop, step)
  BY <1>1, TrueLengthIs
<1>3. ASSUME NEW k \in 0 .. n
      PROVE  /\ RangePosition(r, k) = start + k * step
             /\ k < n => Before(start + k * step, stop, step)
  <2>1. /\ k * step \in Int /\ n * step \in Int /\ (n - 1) * step \in Int
        /\ step > 0 => /\ 0 <= k * step /\ k * step <= n * step
                       /\ k < n => k * step <= (n - 1) * step
        /\ step < 0 => /\ 0 >= k * step /\ k * step >= n * step
                       /\ k < n => k * step >= (n - 1) * step
    <3>1. k \in Int /\ 0 <= k /\ k <= n
      BY <1>1
    <3>2. step > 0 => /\ 0 <= k * step /\ k * step <= n * step
                      /\ k < n => k * step <= (n - 1) * step
      BY <1>1, <3>1
    <3>3. step < 0 => /\ 0 >= k * step /\ k * step >= n * step
                      /\ k < n => k * step >= (n - 1) * step
      BY <1>1, <3>1
    <3> QED BY <1>1, <3>1, <3>2, <3>3
  <2>2. start + k * step \in IntRange
    <3>1. step > 0 \/ step < 0
      BY <1>1
    <3>2. start + n * step \in Int /\ start + k * step \in Int
      BY <1>1, <2>1
    <3>3. /\ IntMin <= start /\ start <= IntMax
          /\ IntMin <= start + n * step /\ start + n * step <= IntMax
          /\ IntMin \in Int /\ IntMax \in Int
      BY <1>1, <3>2, InWord, Words
    <3>4. IntMin <= start + k * step /\ start + k * step <= IntMax
      BY <1>1, <2>1, <3>1, <3>3
    <3> QED BY <3>2, <3>4, InWord
  <2>3. r.start = start /\ r.step = step
    OBVIOUS
  <2>4. RangePosition(r, k) = start + k * step
    BY <2>2, <2>3, WrapOfWord DEF RangePosition
  <2>5. k < n => Before(start + k * step, stop, step)
    BY <1>1, <1>2, <2>1 DEF Before
  <2> QED BY <2>4, <2>5
<1>4. \A k \in 0 .. n : RangeExhausted(r, RangePosition(r, k)) <=> k = n
  <2>1. ASSUME NEW k \in 0 .. n
        PROVE  RangeExhausted(r, RangePosition(r, k)) <=> ~Before(start + k * step, stop, step)
    <3>1. r.stop = stop /\ r.step = step /\ start + k * step \in Int
      BY <1>1
    <3> QED BY <1>1, <1>3, <3>1 DEF RangeExhausted, Before
  <2>2. ASSUME NEW k \in 0 .. n PROVE k < n \/ k = n
    BY <1>1
  <2> QED BY <1>1, <1>2, <1>3, <2>1, <2>2
<1>5. n \in ends /\ \A j \in ends : n <= j
  <2>1. n \in ends
    BY <1>1, <1>4
  <2>2. ASSUME NEW j \in ends PROVE n <= j
    <3>1. j \in Int /\ 0 <= j /\ RangeExhausted(r, RangePosition(r, j))
      BY <1>1
    <3> QED BY <1>1, <1>4, <3>1
  <2> QED BY <2>1, <2>2
<1>6. ASSUME NEW k \in ends, \A j \in ends : k <= j PROVE k = n
  <2>1. k \in Int
    BY <1>1
  <2> HIDE DEF ends
  <2> QED BY <1>1, <1>5, <1>6, <2>1
<1>7. Given(r) = CHOOSE k \in ends : \A j \in ends : k <= j
  <2>1. ends # {}
    BY <1>5
  <2>2. Given(r) = IF ends = {} THEN Many ELSE CHOOSE k \in ends : \A j \in ends : k <= j
    BY DEF Given
  <2> HIDE DEF ends
  <2> QED BY <2>1, <2>2
<1> HIDE DEF ends
<1> QED BY <1>5, <1>6, <1>7

(* A range of any three words has the length, the items and the iterator of    *)
(* the language's range, if the distance of its ends and one step beyond its   *)
(* last item are words, for the smallest step too; a step of 0 panics or makes *)
(* an empty range (computeRangeLength, computeItem, range.go:138-157).         *)
THEOREM RangesOfTheLanguage ==
    \A start, stop, step \in IntRange : RangeExact(start, stop, step)
<1> SUFFICES ASSUME NEW start \in IntRange, NEW stop \in IntRange, NEW step \in IntRange
             PROVE  RangeExact(start, stop, step)
  OBVIOUS
<1> DEFINE r == RangeObj(start, stop, step)
           n == TrueLength(start, stop, step)
<1>1. start \in Int /\ stop \in Int /\ step \in Int /\ IntMax \in Int
  BY Words
<1>2. ASSUME step # 0, Abs(stop - start) <= IntMax, start + n * step \in IntRange
      PROVE  /\ r.length = n /\ Given(r) = n
             /\ \A i \in 0 .. n - 1 :
                    /\ RangeGetitem(r, IntObj(i)) = IntObj(start + i * step)
                    /\ RangeGetitem(r, IntObj(i - n)) = IntObj(start + i * step)
  <2>1. r = [type |-> "range", start |-> start, stop |-> stop, step |-> step, length |-> n]
    <3>1. ComputeRangeLength(start, stop, step) = n
      BY <1>2, RangeLengthIs
    <3> QED BY <1>2, <3>1 DEF RangeObj, DividesByZero
  <2>2. n \in 0 .. IntMax
    <3>1. n \in Nat /\ n <= Abs(stop - start) /\ Abs(stop - start) \in Nat
      <4>1. stop - start \in Int
        BY <1>1
      <4> QED BY <1>1, <1>2, <4>1, TrueLengthIs, AbsIs
    <3> HIDE DEF n
    <3> QED BY <1>1, <1>2, <3>1
  <2>3. r.length = n
    <3> HIDE DEF n, r
    <3> QED BY <2>1
  <2>4. Given(r) = n
    <3> HIDE DEF r
    <3> QED BY <1>2, <2>1, <2>2, GivenIs
  <2>5. ASSUME NEW i \in 0 .. n - 1 PROVE start + i * step \in IntRange
    <3> HIDE DEF n
    <3>1. i \in Int /\ 0 <= i /\ i <= n /\ n \in Int
      BY <2>2, <1>1
    <3>2. /\ i * step \in Int /\ n * step \in Int
          /\ step >= 0 => 0 <= i * step /\ i * step <= n * step
          /\ step < 0 => 0 >= i * step /\ i * step >= n * step
      <4>1. step >= 0 => 0 <= i * step /\ i * step <= n * step
        BY <1>1, <3>1
      <4>2. step < 0 => 0 >= i * step /\ i * step >= n * step
        BY <1>1, <3>1
      <4> QED BY <1>1, <3>1, <4>1, <4>2
    <3>3. start + n * step \in Int /\ start + i * step \in Int
      BY <1>1, <3>2
    <3> QED BY <1>1, <1>2, <3>2, <3>3, InWord, Words
  <2> HIDE DEF n, r
  <2>6. ASSUME NEW i \in 0 .. n - 1
        PROVE  /\ RangeGetitem(r, IntObj(i)) = IntObj(start + i * step)
               /\ RangeGetitem(r, IntObj(i - n)) = IntObj(start + i * step)
    <3>1. start + i * step \in IntRange
      BY <2>5
    <3>2. r.start = start /\ r.step = step
      BY <2>1
    <3>3. /\ RangeGetitem(r, IntObj(i)) = IntObj(r.start + i * r.step)
          /\ RangeGetitem(r, IntObj(i - r.length)) = IntObj(r.start + i * r.step)
      BY <1>1, <2>2, <2>3, <3>1, <3>2, RangeGetitemIs
    <3> QED BY <2>3, <3>2, <3>3
  <2> QED BY <2>3, <2>4, <2>6
<1>3. ASSUME step = 0 PROVE r = Panic \/ r.length = 0
  <2>1. CASE stop < start
    BY <1>3, <2>1 DEF RangeObj, DividesByZero
  <2>2. CASE ~(stop < start)
    <3>1. ComputeRangeLength(start, stop, step) = 0
      BY <1>1, <1>3, <2>2 DEF ComputeRangeLength, Span
    <3> QED BY <2>2, <3>1 DEF RangeObj, DividesByZero
  <2> QED BY <2>1, <2>2
<1> HIDE DEF r, n
<1> QED BY <1>2, <1>3 DEF RangeExact, r, n
===============================================================================
