------------------------- MODULE Conversions_proofs -------------------------
(***************************************************************************)
(* Conversions of numbers for all ranges of integers and all prime fields, *)
(* and lists for matrices of any size, whenever collections come.          *)
(***************************************************************************)
EXTENDS Conversions, TLAPS

(***************************************************************************)
(* Residues: division with remainder, and the remainder is unique.         *)
(***************************************************************************)
LEMMA DivMod ==
  ASSUME NEW p \in Nat \ {0}, NEW x \in Int
  PROVE  \E q \in Int : x = p * q + (x % p)
<1>1. (x \div p) \in Int
  OBVIOUS
<1>2. x % p = x - p * (x \div p)
  BY <1>1
<1>3. PICK q \in Int : x % p = x - p * q
  BY <1>1, <1>2
<1>4. p * q \in Int /\ x % p \in Int
  OBVIOUS
<1>5. x = p * q + (x % p)
  BY <1>3, <1>4
<1>6. QED
  BY <1>5

LEMMA ModUnique == ASSUME NEW p \in Nat \ {0}, NEW q \in Int, NEW x \in 0..(p-1) PROVE (p*q + x) % p = x
OBVIOUS

LEMMA ModRange == ASSUME NEW p \in Nat \ {0}, NEW x \in Int PROVE x % p \in 0..(p-1)
OBVIOUS

LEMMA ModDifference ==
  ASSUME NEW p \in Nat \ {0}, NEW x \in Int, NEW v \in 0..(p - 1)
  PROVE  (v - x) % p = 0 <=> v = x % p
<1>1. PICK q \in Int : x = p * q + (x % p)
  BY DivMod
<1>2. x % p \in 0..(p-1)
  OBVIOUS
<1>3. ASSUME v = x % p PROVE (v - x) % p = 0
  <2>1. v - x = p * (-q) + 0
    BY <1>1, <1>3
  <2>2. (p * (-q) + 0) % p = 0
    <3>1. 0 \in 0..(p-1) /\ -q \in Int
      OBVIOUS
    <3>2. QED
      BY <3>1, ModUnique
  <2>3. QED
    BY <2>1, <2>2
<1>4. ASSUME (v - x) % p = 0 PROVE v = x % p
  <2>0. v - x \in Int
    OBVIOUS
  <2>1. PICK s \in Int : v - x = p * s + 0
    BY <1>4, <2>0, DivMod
  <2>2. x = p * (-s) + v
    BY <2>1
  <2>3. -s \in Int
    OBVIOUS
  <2>4. (p * (-s) + v) % p = v
    BY <2>3, ModUnique
  <2>5. QED
    BY <2>2, <2>4
<1>5. QED
  BY <1>3, <1>4

LEMMA ModOfProduct ==
  ASSUME NEW p \in Nat \ {0}, NEW v \in Int, NEW d \in Int, NEW n \in Int, d % p = 0,
         (v * d - n) % p = 0
  PROVE  n % p = 0
<1>1. PICK q \in Int : d = p * q + 0
  BY DivMod
<1>2. v * d - n \in Int
  OBVIOUS
<1>3. PICK s \in Int : v * d - n = p * s + 0
  BY <1>2, DivMod
<1>4. v * q - s \in Int
  OBVIOUS
<1>5. n = p * (v * q - s) + 0
  <2>1. v * d = v * (p * q)
    BY <1>1
  <2>2. v * (p * q) = p * (v * q)
    OBVIOUS
  <2>3. n = v * d - p * s
    BY <1>3
  <2>4. p * (v * q) - p * s = p * (v * q - s)
    OBVIOUS
  <2>5. QED
    BY <2>1, <2>2, <2>3, <2>4
<1>6. 0 \in 0..(p-1)
  OBVIOUS
<1>7. QED
  BY <1>4, <1>5, <1>6, ModUnique

LEMMA CRemMod ==
  ASSUME NEW p \in Nat \ {0}, NEW n \in Int
  PROVE  (-((-n) % p)) % p = n % p
<1>0. -n \in Int
  OBVIOUS
<1>1. PICK q \in Int : -n = p * q + ((-n) % p)
  BY <1>0, DivMod
<1>2. PICK m : m = (-((-n) % p))
  OBVIOUS
<1>3. m \in Int /\ n = p * (-q) + m
  BY <1>1, <1>2
<1>4. PICK s \in Int : m = p * s + (m % p)
  BY <1>3, DivMod
<1>5. m % p \in 0..(p-1)
  BY <1>3
<1>6. n = p * (s - q) + (m % p)
  <2>1. p * (s - q) = p * s - p * q /\ p * (-q) = -(p * q)
    OBVIOUS
  <2>2. QED
    BY <1>3, <1>4, <1>5, <2>1
<1>7. (p * (s - q) + (m % p)) % p = m % p
  <2>1. s - q \in Int
    OBVIOUS
  <2>2. QED
    BY <1>5, <2>1, ModUnique
<1>8. QED
  BY <1>2, <1>6, <1>7

(***************************************************************************)
(* The residues a value of GAP stands for, as SI_number computes them.     *)
(***************************************************************************)
LEMMA IntegerResidue ==
  ASSUME NEW p \in Nat \ {0}, NEW g, g.num \in Int, g.den = 1
  PROVE  Quotients(g, p) = {g.num % p}
<1>1. g.num % p \in 0..(p - 1)
  OBVIOUS
<1>2. \A v \in 0..(p - 1) : (v * g.den - g.num) % p = 0 <=> v = g.num % p
  <2>1. SUFFICES ASSUME NEW v \in 0..(p - 1)
                 PROVE  (v * g.den - g.num) % p = 0 <=> v = g.num % p
    OBVIOUS
  <2>2. v * g.den - g.num = v - g.num
    OBVIOUS
  <2>3. QED
    BY <2>2, ModDifference
<1>3. QED
  BY <1>1, <1>2 DEF Quotients

LEMMA NoResidue ==
  ASSUME NEW p \in Nat \ {0}, NEW g, g.num \in Int, g.den \in Int, g.den % p = 0,
         g.num % p # 0
  PROVE  Quotients(g, p) = {}
<1>1. SUFFICES ASSUME NEW v \in 0..(p - 1), (v * g.den - g.num) % p = 0 PROVE FALSE
  BY DEF Quotients
<1>2. PICK d \in Int, n \in Int : d = g.den /\ n = g.num
  OBVIOUS
<1>3. v \in Int /\ d % p = 0 /\ (v * d - n) % p = 0
  BY <1>1, <1>2
<1>4. n % p = 0
  BY <1>3, ModOfProduct
<1>5. QED
  BY <1>2, <1>4

LEMMA ZpRight ==
  ASSUME NEW f \in Fields, f.kind = "Zp", NEW g \in GapNumbers
  PROVE  \/ FromGAPZp(f, g) \in ElementOf(f, g)
         \/ FromGAPZp(f, g) = Refused /\ ElementOf(f, g) = {}
<1> DEFINE p == f.char
<1>1. p \in Nat \ {0} /\ p > 1
  BY FieldsAssumption
<1>2. g.t \in {"int", "rat", "ffe", "other"} /\ g.num \in Int /\ g.den \in Nat \ {0}
  BY GapNumbersAssumption
<1>3. g.t = "int" => g.den = 1
  BY GapNumbersAssumption DEF GapInt
<1>4. \A x : n_Init(x, f) = Value("residue", x % p, 1)
  BY DEF n_Init
<1>5. CASE IS_INTOBJ(g)
  <2>1. g.t = "int"
    BY <1>5 DEF IS_INTOBJ
  <2>2. FromGAPZp(f, g) = Value("residue", CRem(g.num, p) % p, 1)
    <3>1. FromGAPZp(f, g) = n_Init(CRem(g.num, p), f)
      BY <1>5, <2>1 DEF FromGAPZp, IS_INTOBJ
    <3>2. QED
      BY <1>4, <3>1
  <2>3. CRem(g.num, p) % p = g.num % p
    <3>1. CASE g.num >= 0
      <4>1. CRem(g.num, p) = g.num % p
        BY <3>1 DEF CRem
      <4>2. g.num % p \in 0..(p - 1)
        BY <1>1, <1>2
      <4>3. QED
        BY <1>1, <4>1, <4>2
    <3>2. CASE ~(g.num >= 0)
      <4>1. CRem(g.num, p) = -((-g.num) % p)
        BY <3>2 DEF CRem
      <4>2. QED
        BY <1>1, <1>2, <4>1, CRemMod
    <3>3. QED
      BY <3>1, <3>2
  <2>4. Quotients(g, p) = {g.num % p}
    BY <1>1, <1>2, <1>3, <2>1, IntegerResidue
  <2>5. QED
    BY <2>1, <2>2, <2>3, <2>4 DEF ElementOf
<1>6. CASE g.t = "ffe"
  <2>1. ~IS_INTOBJ(g)
    BY <1>6 DEF IS_INTOBJ
  <2>2. CASE WrongField(f, g)
    <3>1. FromGAPZp(f, g) = Refused
      BY <1>6, <2>1, <2>2 DEF FromGAPZp
    <3>2. ElementOf(f, g) = {}
      BY <1>6, <2>2 DEF ElementOf, WrongField
    <3>3. QED
      BY <3>1, <3>2
  <2>3. CASE ~WrongField(f, g)
    <3>1. FromGAPZp(f, g) = Value("residue", g.num % p, 1)
      BY <1>4, <1>6, <2>1, <2>3 DEF FromGAPZp
    <3>2. g.char = p /\ g.degree = 1 /\ g.num \in 0..(p - 1)
      BY <1>6, <2>3, GapNumbersAssumption DEF WrongField
    <3>3. g.num % p = g.num
      BY <1>1, <3>2
    <3>4. QED
      BY <1>6, <3>1, <3>2, <3>3 DEF ElementOf
  <2>4. QED
    BY <2>2, <2>3
<1>7. CASE ~IS_INTOBJ(g) /\ g.t \in {"int", "rat"}
  <2>1. ElementOf(f, g) = {Value("residue", v, 1) : v \in Quotients(g, p)}
    BY <1>7 DEF ElementOf
  <2>2. CASE NumberMod(g, p) = {}
    <3>1. FromGAPZp(f, g) = Refused
      BY <1>7, <2>2 DEF FromGAPZp
    <3>2. Quotients(g, p) = {}
      <4>1. CASE g.den % p # 0
        BY <2>2, <4>1 DEF NumberMod
      <4>2. CASE g.den % p = 0
        <5>1. g.den >= p
          <6>1. g.den < p => g.den % p = g.den
            BY <1>1, <1>2
          <6>2. QED
            BY <1>1, <1>2, <4>2, <6>1
        <5>2. g.t = "rat"
          BY <1>1, <1>3, <1>7, <5>1
        <5>3. p \in 2..g.den
          BY <1>1, <1>2, <5>1
        <5>4. g.num % p # 0
          BY <4>2, <5>2, <5>3, GapNumbersAssumption
        <5>5. QED
          BY <1>1, <1>2, <4>2, <5>4, NoResidue
      <4>3. QED
        BY <4>1, <4>2
    <3>3. QED
      BY <2>1, <3>1, <3>2
  <2>3. CASE NumberMod(g, p) # {}
    <3>1. PICK v : v = CHOOSE w \in NumberMod(g, p) : TRUE
      OBVIOUS
    <3>2. v \in NumberMod(g, p)
      BY <2>3, <3>1
    <3>3. v \in Quotients(g, p) /\ v \in 0..(p - 1)
      BY <3>2 DEF NumberMod, Quotients
    <3>4. FromGAPZp(f, g) = Value("residue", CRem(v, p) % p, 1)
      BY <1>4, <1>7, <2>3, <3>1 DEF FromGAPZp
    <3>5. CRem(v, p) % p = v
      <4>1. v % p = v
        BY <1>1, <3>3
      <4>2. CRem(v, p) = v
        BY <3>3, <4>1 DEF CRem
      <4>3. QED
        BY <4>1, <4>2
    <3>6. QED
      BY <2>1, <3>3, <3>4, <3>5
  <2>4. QED
    BY <2>2, <2>3
<1>8. CASE g.t = "other"
  <2>1. FromGAPZp(f, g) = Refused
    BY <1>8 DEF FromGAPZp, IS_INTOBJ
  <2>2. ElementOf(f, g) = {}
    BY <1>8 DEF ElementOf
  <2>3. QED
    BY <2>1, <2>2
<1>9. QED
  BY <1>2, <1>5, <1>6, <1>7, <1>8

(***************************************************************************)
(* An integer that is not immediate for GAP is not immediate for Singular. *)
(***************************************************************************)
LEMMA LongIntegers ==
  ASSUME NEW g, g.t = "int", g.num \in Int
  PROVE  /\ FitsInt(g) => IS_INTOBJ(g)
         /\ ~IS_INTOBJ(g) => IntegerIn(g.num) = Mpz(g.num)
         /\ IntegerIn(g.num) = n_InitQ(g.num)
<1>1. g.num \in Signed(HalfSing) => g.num \in Signed(HalfGap)
  BY WidthsAssumption DEF Signed
<1>2. ~IS_INTOBJ(g) => g.num \notin Signed(HalfSing)
  BY <1>1 DEF IS_INTOBJ
<1>3. QED
  BY <1>2 DEF FitsInt, IntegerIn, n_InitQ

LEMMA QRight ==
  ASSUME NEW f \in Fields, f.kind = "Q", NEW g \in GapNumbers
  PROVE  \/ FromGAPQ(g) \in ElementOf(f, g)
         \/ FromGAPQ(g) = Refused /\ ElementOf(f, g) = {}
<1>1. g.t \in {"int", "rat", "ffe", "other"} /\ g.num \in Int
  BY GapNumbersAssumption
<1>2. CASE g.t = "int"
  <2>1. ElementOf(f, g) = {IntegerIn(g.num)}
    BY <1>2 DEF ElementOf
  <2>2. CASE IS_INTOBJ(g)
    <3>1. g.num \in Signed(HalfGap)
      BY <2>2 DEF IS_INTOBJ
    <3>2. FromGAPQ(g) = n_InitQ(g.num)
      BY <1>2, <3>1 DEF FromGAPQ, IS_INTOBJ
    <3>3. QED
      BY <1>1, <1>2, <2>1, <3>2, LongIntegers
  <2>3. CASE ~IS_INTOBJ(g)
    <3>1. g.num \notin Signed(HalfGap)
      BY <1>2, <2>3 DEF IS_INTOBJ
    <3>2. FromGAPQ(g) = Mpz(g.num)
      BY <1>2, <3>1 DEF FromGAPQ, IS_INTOBJ, _SI_GMP_FROM_GAP
    <3>3. QED
      BY <1>1, <1>2, <2>1, <2>3, <3>2, LongIntegers
  <2>4. QED
    BY <2>2, <2>3
<1>3. CASE g.t # "int"
  BY <1>1, <1>3 DEF FromGAPQ, ElementOf, IS_INTOBJ
<1>4. QED
  BY <1>2, <1>3

(***************************************************************************)
(* SI_number, whatever the field and whatever GAP passes.                  *)
(***************************************************************************)
LEMMA FromGAPRight ==
  ASSUME NEW f \in Fields, NEW g \in GapNumbers, NEW v, v = _SI_NUMBER_FROM_GAP(f, g)
  PROVE  \/ v \in ElementOf(f, g)
         \/ v = Refused /\ (ElementOf(f, g) = {} \/ f.kind = "other")
<1>1. f.kind \in {"Q", "Zp", "other"} /\ f.char \in Nat /\ (f.kind # "Q" => f.char > 1)
  BY FieldsAssumption
<1>2. g.num \in Int
  BY GapNumbersAssumption
<1>3. CASE FitsInt(g)
  <2>1. g.t = "int"
    BY <1>3 DEF FitsInt, IS_INTOBJ
  <2>2. v = n_Init(g.num, f)
    BY <1>3 DEF _SI_NUMBER_FROM_GAP
  <2>3. g.den = 1
    BY <2>1, GapNumbersAssumption DEF GapInt
  <2>4. CASE f.kind = "Q"
    BY <1>2, <2>1, <2>2, <2>4, LongIntegers DEF n_Init, ElementOf
  <2>5. CASE f.kind # "Q"
    <3>1. v = Value("residue", g.num % f.char, 1)
      BY <2>2, <2>5 DEF n_Init
    <3>2. Quotients(g, f.char) = {g.num % f.char}
      BY <1>1, <1>2, <2>3, <2>5, IntegerResidue
    <3>3. QED
      BY <2>1, <2>5, <3>1, <3>2 DEF ElementOf
  <2>6. QED
    BY <2>4, <2>5
<1>4. CASE ~FitsInt(g) /\ f.kind = "Zp"
  <2>1. v = FromGAPZp(f, g)
    BY <1>4 DEF _SI_NUMBER_FROM_GAP
  <2>2. QED
    BY <1>4, <2>1, ZpRight
<1>5. CASE ~FitsInt(g) /\ f.kind = "Q"
  <2>1. v = FromGAPQ(g)
    BY <1>5 DEF _SI_NUMBER_FROM_GAP
  <2>2. QED
    BY <1>5, <2>1, QRight
<1>6. CASE ~FitsInt(g) /\ f.kind = "other"
  BY <1>6 DEF _SI_NUMBER_FROM_GAP
<1>7. QED
  BY <1>1, <1>3, <1>4, <1>5, <1>6

(***************************************************************************)
(* What SI_bigint and SingObj::init make of an integer, and what SI_ToGAP  *)
(* makes of that.                                                          *)
(***************************************************************************)
SameInteger(g, v) ==
  \/ v = Value("int", g.num, 1) /\ g.num \in Signed(HalfInt) /\ g.num \in Signed(HalfGap)
  \/ v = IntegerIn(g.num)

LEMMA IntegerConverted ==
  ASSUME NEW g, g.t = "int", g.num \in Int
  PROVE  /\ SameInteger(g, _SI_BIGINT_FROM_GAP(g))
         /\ SameInteger(g, _SI_BIGINT_OR_INT_FROM_GAP(g))
<1>1. _SI_BIGINT_FROM_GAP(g) = IntegerIn(g.num)
  <2>1. CASE g.num \in Signed(HalfGap)
    <3>1. _SI_BIGINT_FROM_GAP(g) = n_InitQ(g.num)
      BY <2>1 DEF _SI_BIGINT_FROM_GAP, IS_INTOBJ
    <3>2. QED
      BY <3>1, LongIntegers
  <2>2. CASE g.num \notin Signed(HalfGap)
    <3>1. _SI_BIGINT_FROM_GAP(g) = Mpz(g.num) /\ ~IS_INTOBJ(g)
      BY <2>2 DEF _SI_BIGINT_FROM_GAP, IS_INTOBJ, _SI_GMP_FROM_GAP
    <3>2. QED
      BY <3>1, LongIntegers
  <2>3. QED
    BY <2>1, <2>2
<1>2. CASE g.num \in Signed(HalfGap) /\ g.num \in Signed(HalfInt)
  <2>1. _SI_BIGINT_OR_INT_FROM_GAP(g) = Value("int", g.num, 1)
    BY <1>2 DEF _SI_BIGINT_OR_INT_FROM_GAP, FitsInt, IS_INTOBJ
  <2>2. QED
    BY <1>1, <1>2, <2>1 DEF SameInteger
<1>3. CASE g.num \in Signed(HalfGap) /\ g.num \notin Signed(HalfInt)
  <2>1. _SI_BIGINT_OR_INT_FROM_GAP(g) = n_InitQ(g.num)
    BY <1>3 DEF _SI_BIGINT_OR_INT_FROM_GAP, FitsInt, IS_INTOBJ
  <2>2. QED
    BY <1>1, <2>1, LongIntegers DEF SameInteger
<1>4. CASE g.num \notin Signed(HalfGap)
  <2>1. _SI_BIGINT_OR_INT_FROM_GAP(g) = Mpz(g.num) /\ ~IS_INTOBJ(g)
    BY <1>4 DEF _SI_BIGINT_OR_INT_FROM_GAP, FitsInt, IS_INTOBJ, _SI_GMP_FROM_GAP
  <2>2. QED
    BY <1>1, <2>1, LongIntegers DEF SameInteger
<1>5. QED
  BY <1>2, <1>3, <1>4

Returned(v) == IF v.rep = "int" THEN INTOBJ_INT(v.num) ELSE _SI_BIGINT_OR_INT_TO_GAP(v)

LEMMA IntegerReturned ==
  ASSUME NEW g, g.num \in Int, NEW v, SameInteger(g, v)
  PROVE  Returned(v) = GapInt(g.num)
<1>1. CASE v = Value("int", g.num, 1) /\ g.num \in Signed(HalfGap)
  BY <1>1 DEF Returned, Value, INTOBJ_INT
<1>2. CASE v = IntegerIn(g.num) /\ g.num \in Signed(HalfSing)
  <2>1. v = Imm(g.num) /\ v.rep = "imm" /\ v.num = g.num
    BY <1>2 DEF IntegerIn, Imm, Value
  <2>2. g.num \in Signed(HalfGap)
    BY <1>2, WidthsAssumption DEF Signed
  <2>3. QED
    BY <2>1, <2>2 DEF Returned, _SI_BIGINT_OR_INT_TO_GAP, INTOBJ_INT
<1>3. CASE v = IntegerIn(g.num) /\ g.num \notin Signed(HalfSing)
  <2>1. v.rep = "mpz" /\ v.num = g.num
    BY <1>3 DEF IntegerIn, Mpz, Value
  <2>2. QED
    BY <2>1 DEF Returned, _SI_BIGINT_OR_INT_TO_GAP
<1>4. QED
  BY <1>1, <1>2, <1>3 DEF SameInteger

-----------------------------------------------------------------------------
(***************************************************************************)
(* The lists when the loops are at row a and column b (before row a if b   *)
(* is 0): the places filled so far, what is in them, and the bags.         *)
(***************************************************************************)
RowsAt(a, b) == IF b = 0 THEN 1..(a - 1) ELSE 1..a
FilledAt(a, b) == {p \in Cells : p[1] < a \/ (p[1] = a /\ p[2] < b)}
ElmsAt(a, b) == {<<List, k, <<k>>>> : k \in RowsAt(a, b)}
                \cup {<<<<p[1]>>, p[2], p>> : p \in FilledAt(a, b)}
BagsAt(a, b, l) == {List} \cup {<<k>> : k \in RowsAt(a, b)} \cup (FilledAt(a, b) \cap l)

LEMMA AtStart ==
  ASSUME NEW l
  PROVE  ElmsAt(1, 0) = {} /\ BagsAt(1, 0, l) = {List}
<1>1. RowsAt(1, 0) = {}
  BY DEF RowsAt
<1>2. FilledAt(1, 0) = {}
  BY DEF FilledAt, Cells
<1>3. QED
  BY <1>1, <1>2 DEF ElmsAt, BagsAt

LEMMA AtNewRow ==
  ASSUME NEW a \in 1..Rows, NEW l
  PROVE  /\ ElmsAt(a, 1) = ElmsAt(a, 0) \cup {<<List, a, <<a>>>>}
         /\ BagsAt(a, 1, l) = BagsAt(a, 0, l) \cup {<<a>>}
<1>1. RowsAt(a, 1) = RowsAt(a, 0) \cup {a}
  BY SizeAssumption DEF RowsAt
<1>2. FilledAt(a, 1) = FilledAt(a, 0)
  BY SizeAssumption DEF FilledAt, Cells
<1>3. QED
  BY <1>1, <1>2 DEF ElmsAt, BagsAt

LEMMA AtNextElm ==
  ASSUME NEW a \in 1..Rows, NEW b \in 1..Cols, NEW l
  PROVE  /\ ElmsAt(a, b + 1) = ElmsAt(a, b) \cup {<<<<a>>, b, <<a, b>>>>}
         /\ BagsAt(a, b + 1, l) = BagsAt(a, b, l) \cup ({<<a, b>>} \cap l)
<1>1. RowsAt(a, b + 1) = RowsAt(a, b)
  BY SizeAssumption DEF RowsAt
<1>2. FilledAt(a, b + 1) = FilledAt(a, b) \cup {<<a, b>>}
  BY SizeAssumption DEF FilledAt, Cells
<1>3. QED
  BY <1>1, <1>2 DEF ElmsAt, BagsAt

LEMMA AtEndOfRow ==
  ASSUME NEW a \in 1..Rows, NEW l
  PROVE  /\ ElmsAt(a + 1, 0) = ElmsAt(a, Cols + 1)
         /\ BagsAt(a + 1, 0, l) = BagsAt(a, Cols + 1, l)
<1>1. RowsAt(a + 1, 0) = RowsAt(a, Cols + 1)
  BY SizeAssumption DEF RowsAt
<1>2. FilledAt(a + 1, 0) = FilledAt(a, Cols + 1)
  BY SizeAssumption DEF FilledAt, Cells
<1>3. QED
  BY <1>1, <1>2 DEF ElmsAt, BagsAt

LEMMA AtEnd ==
  /\ RowsAt(Rows + 1, 0) = 1..Rows
  /\ FilledAt(Rows + 1, 0) = Cells
<1>1. RowsAt(Rows + 1, 0) = 1..Rows
  BY SizeAssumption DEF RowsAt
<1>2. FilledAt(Rows + 1, 0) = Cells
  BY SizeAssumption DEF FilledAt, Cells
<1>3. QED
  BY <1>1, <1>2

-----------------------------------------------------------------------------
(***************************************************************************)
(* The invariant.                                                          *)
(***************************************************************************)
NumbersInv ==
  /\ given = NoNumber => back = NoNumber
  /\ given # NoNumber =>
       /\ given \in GapNumbers
       /\ \/ field \in Fields /\ data = _SI_NUMBER_FROM_GAP(field, given)
          \/ /\ field = NoField
             /\ given.t = "int" => /\ SameInteger(given, data)
                                   /\ back \in {NoNumber, GapInt(given.num)}

(***************************************************************************)
(* An old bag with a young element was reported.                           *)
(***************************************************************************)
Reported == \A e \in elms : e[1] \in old /\ e[3] \in allocated \ old => e[1] \in changed

Places == IF r = 0 THEN allocated = {} /\ elms = {}
          ELSE /\ r \in 1..(Rows + 1) /\ c \in 0..(Cols + 1) /\ (r = Rows + 1 => c = 0)
               /\ elms = ElmsAt(r, c) /\ allocated = BagsAt(r, c, long)
ListsInv == /\ long \subseteq Cells /\ changed \subseteq old /\ old \subseteq allocated
            /\ Places /\ Reported

IInv == NumbersInv /\ ListsInv

LEMMA NumbersKept == NumbersInv /\ UNCHANGED nvars => NumbersInv'
BY DEF NumbersInv, nvars

LEMMA ListsUnchanged == ListsInv /\ UNCHANGED lvars => ListsInv'
BY DEF ListsInv, lvars, Places, Reported

LEMMA NumbersStep ==
  ASSUME NumbersInv, NumbersNext
  PROVE  NumbersInv'
<1> NoField \notin Fields /\ \A g \in GapNumbers : g # NoNumber /\ g.num \in Int
  BY FieldsAssumption, GapNumbersAssumption DEF NoField, NoNumber
<1>1. ASSUME NEW f \in Fields, NEW g \in GapNumbers, SI_number(f, g)
      PROVE  NumbersInv'
  BY <1>1 DEF SI_number, Convert, NumbersInv
<1>2. ASSUME NEW g \in GapNumbers, SI_bigint(g)
      PROVE  NumbersInv'
  <2>1. /\ given' = g /\ field' = NoField /\ data' = _SI_BIGINT_FROM_GAP(g)
        /\ back' = NoNumber
    BY <1>2 DEF SI_bigint, Convert, Free, NumbersInv
  <2>2. g.t = "int" => SameInteger(g, data')
    BY <2>1, IntegerConverted
  <2>3. g \in GapNumbers /\ g # NoNumber
    BY <1>2
  <2>4. QED
    BY <2>1, <2>2, <2>3 DEF NumbersInv
<1>3. ASSUME NEW g \in GapNumbers, InitInteger(g)
      PROVE  NumbersInv'
  <2>1. /\ given' = g /\ field' = NoField /\ data' = _SI_BIGINT_OR_INT_FROM_GAP(g)
        /\ back' = NoNumber /\ g.t = "int"
    BY <1>3 DEF InitInteger, Convert, Free, NumbersInv
  <2>2. SameInteger(g, data')
    BY <2>1, IntegerConverted
  <2>3. g \in GapNumbers /\ g # NoNumber
    BY <1>3
  <2>4. QED
    BY <2>1, <2>2, <2>3 DEF NumbersInv
<1>4. ASSUME SI_ToGAP
      PROVE  NumbersInv'
  <2>1. /\ given # NoNumber /\ UNCHANGED <<given, field, data>>
        /\ field = NoField => back' = Returned(data)
    BY <1>4 DEF SI_ToGAP, Returned
  <2>2. field = NoField /\ given.t = "int" => back' = GapInt(given.num)
    BY <2>1, IntegerReturned DEF NumbersInv
  <2>3. QED
    BY <2>1, <2>2 DEF NumbersInv
<1>5. ASSUME Forget
      PROVE  NumbersInv'
  BY <1>5 DEF Forget, NumbersInv
<1>6. QED
  BY <1>1, <1>2, <1>3, <1>4, <1>5 DEF NumbersNext

-----------------------------------------------------------------------------
(***************************************************************************)
(* The elements of the lists are the row lists and the entries.            *)
(***************************************************************************)
LEMMA ElmsShape ==
  ASSUME NEW a \in 1..(Rows + 1), NEW b \in 0..(Cols + 1), NEW e \in ElmsAt(a, b)
  PROVE  \/ \E k \in RowsAt(a, b) : e[1] = List /\ e[3] = <<k>>
         \/ \E p \in FilledAt(a, b) : e[1] = <<p[1]>> /\ e[3] = p /\ p[1] \in RowsAt(a, b)
<1>1. \A p \in FilledAt(a, b) : p[1] \in RowsAt(a, b)
  BY SizeAssumption DEF FilledAt, RowsAt, Cells
<1>2. QED
  BY <1>1 DEF ElmsAt

LEMMA Gathered ==
  ASSUME ListsInv, r # 0, NEW X
  PROVE  /\ List \in X => \A k \in RowsAt(r, c) : <<k>> \in Elements(X)
         /\ \A p \in FilledAt(r, c) \cap long :
              p[1] \in RowsAt(r, c) /\ (<<p[1]>> \in X => p \in Elements(X))
<1>1. elms = ElmsAt(r, c) /\ allocated = BagsAt(r, c, long) /\ r \in 1..(Rows + 1)
      /\ c \in 0..(Cols + 1)
  BY DEF ListsInv, Places
<1>2. ASSUME List \in X, NEW k \in RowsAt(r, c)
      PROVE  <<k>> \in Elements(X)
  <2>1. PICK e : e = <<List, k, <<k>>>>
    OBVIOUS
  <2>2. e \in elms /\ e[1] \in X /\ e[3] = <<k>>
    BY <1>1, <1>2, <2>1 DEF ElmsAt
  <2>3. <<k>> \in allocated
    BY <1>1, <1>2 DEF BagsAt
  <2>4. QED
    BY <2>2, <2>3 DEF Elements
<1>3. ASSUME NEW p \in FilledAt(r, c) \cap long, <<p[1]>> \in X
      PROVE  p \in Elements(X)
  <2>1. PICK e : e = <<<<p[1]>>, p[2], p>>
    OBVIOUS
  <2>2. e \in elms /\ e[1] \in X /\ e[3] = p
    BY <1>1, <1>3, <2>1 DEF ElmsAt
  <2>3. p \in allocated
    BY <1>1, <1>3 DEF BagsAt
  <2>4. QED
    BY <2>2, <2>3 DEF Elements
<1>4. \A p \in FilledAt(r, c) : p[1] \in RowsAt(r, c)
  BY <1>1, SizeAssumption DEF FilledAt, RowsAt, Cells
<1>5. QED
  BY <1>2, <1>3, <1>4

(***************************************************************************)
(* A collection, full or not, keeps all bags.                              *)
(***************************************************************************)
LEMMA CollectStep ==
  ASSUME ListsInv, NEW full \in BOOLEAN, Collect(full)
  PROVE  ListsInv'
<1> DEFINE young == allocated \ old
           Y == (OnStack \cup Elements(changed)) \cap young
<1>1. r # 0 /\ UNCHANGED <<long, r, c, elms>> /\ changed' = {} /\ old' = allocated'
  BY DEF Collect, Building
<1>2. allocated' = IF full THEN Below(OnStack) ELSE old \cup Below(Y)
  BY DEF Collect
<1>3. /\ elms = ElmsAt(r, c) /\ allocated = BagsAt(r, c, long)
      /\ changed \subseteq old /\ old \subseteq allocated
  BY <1>1 DEF ListsInv, Places
<1>4. List \in allocated /\ List \in OnStack
  BY <1>3 DEF BagsAt, OnStack
<1>5. \A X : X \subseteq allocated => Below(X) \subseteq allocated
  BY DEF Below, Elements
<1>6. OnStack \subseteq allocated /\ Y \subseteq allocated
  BY DEF OnStack
<1>7. allocated' \subseteq allocated
  BY <1>2, <1>3, <1>5, <1>6
<1>8. ASSUME full PROVE allocated \subseteq allocated'
  <2>1. List \in Below(OnStack)
    BY <1>4 DEF Below
  <2>2. \A k \in RowsAt(r, c) : <<k>> \in Elements(OnStack)
    BY <1>1, <1>4, Gathered
  <2>3. \A p \in FilledAt(r, c) \cap long : p \in Elements(Elements(OnStack))
    BY <1>1, <2>2, Gathered
  <2>4. allocated \subseteq Below(OnStack)
    BY <1>3, <2>1, <2>2, <2>3 DEF BagsAt, Below
  <2>5. QED
    BY <1>2, <1>8, <2>4
<1>9. ASSUME ~full PROVE allocated \subseteq allocated'
  <2>1. List \in old \/ List \in Y
    BY <1>4
  <2>2. ASSUME NEW k \in RowsAt(r, c)
        PROVE  <<k>> \in old \/ <<k>> \in Y \/ <<k>> \in Elements(Y)
    <3>1. CASE List \in Y
      BY <1>1, <3>1, Gathered
    <3>2. CASE List \in old /\ <<k>> \notin old
      <4>1. PICK e : e = <<List, k, <<k>>>>
        OBVIOUS
      <4>2. e \in elms /\ e[1] = List /\ e[3] = <<k>> /\ <<k>> \in allocated
        BY <1>3, <4>1 DEF ElmsAt, BagsAt
      <4>3. List \in changed
        BY <3>2, <4>2 DEF ListsInv, Reported
      <4>4. <<k>> \in Elements(changed)
        BY <1>1, <4>3, Gathered
      <4>5. QED
        BY <3>2, <4>2, <4>4
    <3>3. QED
      BY <2>1, <3>1, <3>2
  <2>3. ASSUME NEW p \in FilledAt(r, c) \cap long
        PROVE  p \in old \/ p \in Y \/ p \in Elements(Y) \/ p \in Elements(Elements(Y))
    <3>1. p[1] \in RowsAt(r, c)
      BY <1>1, Gathered
    <3>2. CASE <<p[1]>> \in Y
      BY <1>1, <3>2, Gathered
    <3>3. CASE <<p[1]>> \in Elements(Y)
      BY <1>1, <3>3, Gathered
    <3>4. CASE <<p[1]>> \in old /\ p \notin old
      <4>1. PICK e : e = <<<<p[1]>>, p[2], p>>
        OBVIOUS
      <4>2. e \in elms /\ e[1] = <<p[1]>> /\ e[3] = p /\ p \in allocated
        BY <1>3, <4>1 DEF ElmsAt, BagsAt
      <4>3. <<p[1]>> \in changed
        BY <3>4, <4>2 DEF ListsInv, Reported
      <4>4. p \in Elements(changed)
        BY <1>1, <4>3, Gathered
      <4>5. QED
        BY <3>4, <4>2, <4>4
    <3>5. QED
      BY <2>2, <3>1, <3>2, <3>3, <3>4
  <2>4. allocated \subseteq old \cup Below(Y)
    <3> HIDE DEF Y
    <3>1. QED
      BY <1>3, <2>1, <2>2, <2>3 DEF BagsAt, Below
  <2>5. QED
    BY <1>2, <1>9, <2>4
<1>10. allocated' = allocated
  BY <1>7, <1>8, <1>9
<1>11. Places'
  BY <1>1, <1>10 DEF ListsInv, Places
<1>12. Reported'
  BY <1>1 DEF Reported
<1>13. QED
  BY <1>1, <1>11, <1>12 DEF ListsInv

(***************************************************************************)
(* The steps of the loops.                                                 *)
(***************************************************************************)
LEMMA ToListStep ==
  ASSUME ListsInv, NEW places \in SUBSET Cells, ToList(places)
  PROVE  ListsInv'
<1>1. /\ r = 0 /\ r' = 1 /\ c' = 0 /\ long' = places
      /\ allocated' = allocated \cup {List} /\ UNCHANGED <<old, changed, elms>>
  <2>1. r >= 0 /\ r \in Int
    BY SizeAssumption DEF ListsInv, Places
  <2>2. QED
    BY <2>1 DEF ToList, Building, NEW_PLIST
<1>2. allocated = {} /\ elms = {} /\ old = {} /\ changed = {}
  BY <1>1 DEF ListsInv, Places
<1>3. Places'
  <2>1. elms' = ElmsAt(1, 0) /\ allocated' = BagsAt(1, 0, places)
    BY <1>1, <1>2, AtStart
  <2>2. QED
    BY <1>1, <2>1, SizeAssumption DEF Places
<1>4. Reported'
  BY <1>1, <1>2 DEF Reported
<1>5. QED
  BY <1>1, <1>2, <1>3, <1>4 DEF ListsInv

LEMMA NewRowStep ==
  ASSUME ListsInv, NewRow
  PROVE  ListsInv'
<1>1. /\ r # 0 /\ r <= Rows /\ c = 0 /\ c' = 1 /\ UNCHANGED <<long, r, old>>
      /\ allocated' = allocated \cup {<<r>>} /\ elms' = elms \cup {<<List, r, <<r>>>>}
      /\ changed' = changed \cup ({List} \cap old)
  BY DEF NewRow, Building, NEW_PLIST, SET_ELM_PLIST, CHANGED_BAG, tmp
<1>2. r \in 1..Rows /\ elms = ElmsAt(r, 0) /\ allocated = BagsAt(r, 0, long)
  BY <1>1, SizeAssumption DEF ListsInv, Places
<1>3. Places'
  <2>1. elms' = ElmsAt(r, 1) /\ allocated' = BagsAt(r, 1, long)
    BY <1>1, <1>2, AtNewRow
  <2>2. QED
    BY <1>1, <1>2, <2>1, SizeAssumption DEF Places
<1>4. \A e \in elms : e[3] # <<r>>
  <2>1. SUFFICES ASSUME NEW e \in elms PROVE e[3] # <<r>>
    OBVIOUS
  <2>2. \/ \E k \in RowsAt(r, 0) : e[3] = <<k>>
        \/ \E p \in FilledAt(r, 0) : e[3] = p
    <3>1. r \in 1..(Rows + 1) /\ 0 \in 0..(Cols + 1)
      BY <1>2, SizeAssumption
    <3>2. QED
      BY <1>2, <3>1, ElmsShape
  <2>3. \A k \in RowsAt(r, 0) : <<k>> # <<r>>
    BY <1>2, SizeAssumption DEF RowsAt
  <2>4. \A p \in FilledAt(r, 0) : p # <<r>>
    BY DEF FilledAt, Cells
  <2>5. QED
    BY <2>2, <2>3, <2>4
<1>5. Reported'
  <2>1. SUFFICES ASSUME NEW e \in elms', e[1] \in old, e[3] \in allocated' \ old
                 PROVE  e[1] \in changed'
    BY <1>1 DEF Reported
  <2>2. CASE e \in elms
    BY <1>1, <1>4, <2>1, <2>2 DEF ListsInv, Reported
  <2>3. CASE e = <<List, r, <<r>>>>
    BY <1>1, <2>1, <2>3
  <2>4. QED
    BY <1>1, <2>2, <2>3
<1>6. QED
  BY <1>1, <1>3, <1>5 DEF ListsInv

LEMMA NextElmStep ==
  ASSUME ListsInv, NextElm
  PROVE  ListsInv'
<1>1. /\ r # 0 /\ c \in 1..Cols /\ c' = c + 1 /\ UNCHANGED <<long, r, old>>
      /\ allocated' = allocated \cup ({<<r, c>>} \cap long)
      /\ elms' = elms \cup {<<<<r>>, c, <<r, c>>>>}
      /\ changed' = changed \cup ({<<r>>} \cap old)
  BY DEF NextElm, Building, NEW_PLIST, SET_ELM_PLIST, CHANGED_BAG, tmp
<1>2. r \in 1..Rows /\ elms = ElmsAt(r, c) /\ allocated = BagsAt(r, c, long)
  BY <1>1, SizeAssumption DEF ListsInv, Places
<1>3. Places'
  <2>1. elms' = ElmsAt(r, c + 1) /\ allocated' = BagsAt(r, c + 1, long)
    BY <1>1, <1>2, AtNextElm
  <2>2. c + 1 \in 0..(Cols + 1) /\ r \in 1..(Rows + 1) /\ r # Rows + 1
    BY <1>1, <1>2, SizeAssumption
  <2>3. QED
    BY <1>1, <2>1, <2>2 DEF Places
<1>4. \A e \in elms : e[3] # <<r, c>>
  <2>1. SUFFICES ASSUME NEW e \in elms PROVE e[3] # <<r, c>>
    OBVIOUS
  <2>2. \/ \E k \in RowsAt(r, c) : e[3] = <<k>>
        \/ \E p \in FilledAt(r, c) : e[3] = p
    <3>1. r \in 1..(Rows + 1) /\ c \in 0..(Cols + 1)
      BY <1>1, <1>2, SizeAssumption
    <3>2. QED
      BY <1>2, <3>1, ElmsShape
  <2>3. \A k \in RowsAt(r, c) : <<k>> # <<r, c>>
    OBVIOUS
  <2>4. \A p \in FilledAt(r, c) : p # <<r, c>>
    BY <1>1, <1>2, SizeAssumption DEF FilledAt, Cells
  <2>5. QED
    BY <2>2, <2>3, <2>4
<1>5. Reported'
  <2>1. SUFFICES ASSUME NEW e \in elms', e[1] \in old, e[3] \in allocated' \ old
                 PROVE  e[1] \in changed'
    BY <1>1 DEF Reported
  <2>2. CASE e \in elms
    BY <1>1, <1>4, <2>1, <2>2 DEF ListsInv, Reported
  <2>3. CASE e = <<<<r>>, c, <<r, c>>>>
    BY <1>1, <2>1, <2>3
  <2>4. QED
    BY <1>1, <2>2, <2>3
<1>6. QED
  BY <1>1, <1>3, <1>5 DEF ListsInv

LEMMA EndOfRowStep ==
  ASSUME ListsInv, EndOfRow
  PROVE  ListsInv'
<1>1. /\ r # 0 /\ c > Cols /\ r' = r + 1 /\ c' = 0
      /\ UNCHANGED <<long, allocated, old, changed, elms>>
  BY DEF EndOfRow, Building
<1>2. r \in 1..Rows /\ c = Cols + 1 /\ elms = ElmsAt(r, c) /\ allocated = BagsAt(r, c, long)
  BY <1>1, SizeAssumption DEF ListsInv, Places
<1>3. Places'
  <2>1. elms' = ElmsAt(r + 1, 0) /\ allocated' = BagsAt(r + 1, 0, long)
    BY <1>1, <1>2, AtEndOfRow
  <2>2. r + 1 \in 1..(Rows + 1) /\ r + 1 # 0
    BY <1>2, SizeAssumption
  <2>3. 0 \in 0..(Cols + 1)
    BY SizeAssumption
  <2>4. QED
    BY <1>1, <2>1, <2>2, <2>3 DEF Places
<1>4. QED
  BY <1>1, <1>3 DEF ListsInv, Reported

LEMMA ReturnStep ==
  ASSUME ListsInv, Return
  PROVE  ListsInv'
BY DEF Return, ListsInv, Places, Reported

-----------------------------------------------------------------------------
(***************************************************************************)
(* The inductive invariant.  Conversions of numbers and lists do not touch *)
(* each other, and proxies touch neither.                                  *)
(***************************************************************************)
THEOREM Invariance == Spec => []IInv
<1>1. Init => IInv
  BY DEF Init, ListsInit, IInv, NumbersInv, ListsInv, Places, Reported
<1>2. IInv /\ [Next]_vars => IInv'
  <2>1. SUFFICES ASSUME IInv, [Next]_vars PROVE IInv'
    OBVIOUS
  <2>2. NumbersInv /\ ListsInv
    BY <2>1 DEF IInv
  <2>3. CASE UNCHANGED <<lvars, nvars>>
    BY <2>2, <2>3, NumbersKept, ListsUnchanged DEF IInv
  <2>4. CASE ListsNext /\ UNCHANGED nvars
    <3>1. ListsInv'
      BY <2>2, <2>4, ToListStep, CollectStep, NewRowStep, NextElmStep, EndOfRowStep,
         ReturnStep DEF ListsNext
    <3>2. QED
      BY <2>2, <2>4, <3>1, NumbersKept DEF IInv
  <2>5. CASE NumbersNext /\ UNCHANGED lvars
    BY <2>2, <2>5, NumbersStep, ListsUnchanged DEF IInv
  <2>6. QED
    BY <2>1, <2>3, <2>4, <2>5 DEF Next, vars
<1>3. QED
  BY <1>1, <1>2, PTL DEF Spec

(***************************************************************************)
(* SI_number (number.cc) is right for all integers, rationals and elements *)
(* of finite fields, over Q and every prime field.                         *)
(***************************************************************************)
THEOREM NumberSafety == Spec => []NumberRight
<1>1. IInv => NumberRight
  <2>1. SUFFICES ASSUME NumbersInv, given # NoNumber, field # NoField
                 PROVE  \/ data \in ElementOf(field, given)
                        \/ /\ data = Refused
                           /\ ElementOf(field, given) = {} \/ field.kind = "other"
    BY DEF IInv, NumberRight
  <2>2. given \in GapNumbers /\ field \in Fields /\ data = _SI_NUMBER_FROM_GAP(field, given)
    BY <2>1 DEF NumbersInv
  <2>3. QED
    BY <2>2, FromGAPRight
<1>2. QED
  BY <1>1, Invariance, PTL

(***************************************************************************)
(* Integers survive the way to Singular and back, whatever the widths of   *)
(* immediate integers and of the C type int.                               *)
(***************************************************************************)
THEOREM IntegerSafety == Spec => []IntegersKept
<1>1. IInv => IntegersKept
  <2>1. SUFFICES ASSUME NumbersInv, given.t = "int", field = NoField
                 PROVE  /\ \/ data.rep = "int" /\ IntOf(data) = given.num
                           \/ data = IntegerIn(given.num)
                        /\ back \in {NoNumber, GapInt(given.num)}
    BY DEF IInv, IntegersKept
  <2>2. given # NoNumber /\ NoField \notin Fields
    BY <2>1, FieldsAssumption DEF NoNumber, NoField
  <2>3. given \in GapNumbers /\ SameInteger(given, data) /\ back \in {NoNumber, GapInt(given.num)}
    BY <2>1, <2>2 DEF NumbersInv
  <2>4. ASSUME data = Value("int", given.num, 1), given.num \in Signed(HalfInt)
        PROVE  data.rep = "int" /\ IntOf(data) = given.num
    <3>1. data.rep = "int" /\ data.num = given.num
      BY <2>4 DEF Value
    <3>2. PICK n \in Int : n = given.num /\ n + HalfInt \in 0..(2 * HalfInt - 1)
      BY <2>4, WidthsAssumption DEF Signed
    <3>3. (n + HalfInt) % (2 * HalfInt) = n + HalfInt
      BY <3>2, WidthsAssumption
    <3>4. QED
      BY <3>1, <3>2, <3>3, WidthsAssumption DEF IntOf
  <2>5. QED
    BY <2>3, <2>4 DEF SameInteger
<1>2. QED
  BY <1>1, Invariance, PTL

(***************************************************************************)
(* The lists for matrices (matrix.cc) of any size keep what was stored in  *)
(* them, whenever full and partial collections come.                       *)
(***************************************************************************)
THEOREM ListSafety == Spec => []ListsKept
<1>1. IInv => ListsKept
  <2>1. SUFFICES ASSUME ListsInv PROVE ListsKept
    BY DEF IInv
  <2>2. CASE r = 0
    <3>1. elms = {} /\ ~(r > Rows)
      BY <2>1, <2>2, SizeAssumption DEF ListsInv, Places
    <3>2. QED
      BY <3>1 DEF ListsKept
  <2>3. CASE r # 0
    <3>1. /\ elms = ElmsAt(r, c) /\ allocated = BagsAt(r, c, long)
          /\ r \in 1..(Rows + 1) /\ c \in 0..(Cols + 1) /\ (r = Rows + 1 => c = 0)
      BY <2>1, <2>3 DEF ListsInv, Places
    <3>2. ASSUME NEW e \in elms
          PROVE  /\ e[1] \in allocated
                 /\ Len(e[3]) = 1 \/ e[3] \in long => e[3] \in allocated
      <4>1. CASE \E k \in RowsAt(r, c) : e[1] = List /\ e[3] = <<k>>
        BY <3>1, <4>1 DEF BagsAt
      <4>2. CASE \E p \in FilledAt(r, c) : /\ e[1] = <<p[1]>> /\ e[3] = p
                                           /\ p[1] \in RowsAt(r, c)
        <5>1. PICK p \in FilledAt(r, c) : /\ e[1] = <<p[1]>> /\ e[3] = p
                                          /\ p[1] \in RowsAt(r, c)
          BY <4>2
        <5>2. Len(p) = 2
          BY DEF FilledAt, Cells
        <5>3. QED
          BY <3>1, <5>1, <5>2 DEF BagsAt
      <4>3. QED
        BY <3>1, <3>2, <4>1, <4>2, ElmsShape
    <3>3. ASSUME r > Rows
          PROVE  elms = {<<List, k, <<k>>>> : k \in 1..Rows}
                        \cup {<<<<p[1]>>, p[2], p>> : p \in Cells}
      <4>1. r = Rows + 1 /\ c = 0
        BY <3>1, <3>3, SizeAssumption
      <4>2. elms = ElmsAt(Rows + 1, 0)
        BY <3>1, <4>1
      <4>3. QED
        BY <4>2, AtEnd DEF ElmsAt
    <3>4. QED
      BY <3>2, <3>3 DEF ListsKept
  <2>4. QED
    BY <2>2, <2>3
<1>2. QED
  BY <1>1, Invariance, PTL

-----------------------------------------------------------------------------
(***************************************************************************)
(* Proxies: the positions used up so far have led from list to list.       *)
(***************************************************************************)
Followed ==
  \/ pos = 1 /\ current = obj
  \/ /\ pos = 2 /\ obj.type = "list" /\ proxy[1] \in 1..obj.rows
     /\ current = obj.parts[proxy[1]]
  \/ /\ pos = 3 /\ Len(proxy) = 2 /\ obj.type = "list" /\ proxy[1] \in 1..obj.rows
     /\ obj.parts[proxy[1]].type = "list"
     /\ proxy[2] \in 1..obj.parts[proxy[1]].rows
     /\ current = obj.parts[proxy[1]].parts[proxy[2]]

FollowInv ==
  /\ pc \in {"gap", "follow", "done"} /\ error \in BOOLEAN
  /\ pos \in 1..(Len(proxy) + 1) /\ {current.type, currgtype} \subseteq Types \cup {"NULL"}
  /\ IF pc = "gap" THEN proxy = <<>> ELSE obj \in Objects /\ proxy \in Proxies
  /\ pc = "follow" => ~error /\ currgtype = current.type /\ Followed
  /\ RightPart

LEMMA NoObject == NULL.type = "NULL" /\ "NULL" \notin Types
BY DEF NULL, Leaf, Types

LEMMA ProxyShape ==
  ASSUME NEW p \in Proxies
  PROVE  /\ Len(p) \in {1, 2} /\ p[1] \in Index
         /\ Len(p) = 2 => p[2] \in Index
BY DEF Proxies

LEMMA Positions ==
  ASSUME NEW i \in Index, NEW n \in Nat, Big \notin 1..n
  PROVE  /\ i # Big => i \in Nat /\ i >= 1
         /\ i \in 1..n <=> i # Big /\ i <= n
<1>1. i # Big => i \in 1..MaxIndex
  BY DEF Index
<1>2. MaxIndex \in Nat
  BY BoundsAssumption
<1>3. CASE i = Big
  BY <1>3
<1>4. CASE i # Big
  BY <1>1, <1>2, <1>4
<1>5. QED
  BY <1>3, <1>4

(***************************************************************************)
(* The ways FOLLOW_SUBOBJ ends.                                            *)
(***************************************************************************)
LEMMA Found ==
  ASSUME FollowInv, pc = "follow", NEW part, NEW t \in Types, Finish(part, t),
         part.type \in Types, t # "matrix" => t = part.type,
         LeftOver(obj, proxy) \/ part = Part(obj, proxy)
  PROVE  FollowInv'
<1>1. /\ pc' = "done" /\ current' = part /\ currgtype' = t
      /\ UNCHANGED <<obj, proxy, pos, error>>
  BY DEF Finish
<1>2. ~error /\ part # NULL
  BY NoObject DEF FollowInv
<1>3. RightPart'
  <2>1. /\ LeftOver(obj', proxy') <=> LeftOver(obj, proxy)
        /\ Part(obj', proxy') = Part(obj, proxy)
    BY <1>1
  <2>2. ~LeftOver(obj', proxy') => /\ error' <=> Part(obj', proxy') = NULL
                                   /\ current' = Part(obj', proxy')
    BY <1>1, <1>2, <2>1
  <2>3. ~error' /\ currgtype' # "matrix" => currgtype' = current'.type
    BY <1>1
  <2>4. QED
    BY <2>2, <2>3 DEF RightPart
<1>5. QED
  BY <1>1, <1>3 DEF FollowInv

LEMMA NotFound ==
  ASSUME FollowInv, pc = "follow", SetError, LeftOver(obj, proxy) \/ Part(obj, proxy) = NULL
  PROVE  FollowInv'
<1>1. /\ pc' = "done" /\ current' = NULL /\ error' = TRUE
      /\ UNCHANGED <<obj, proxy, pos, currgtype>>
  BY DEF SetError
<1>2. RightPart'
  <2>1. /\ LeftOver(obj', proxy') <=> LeftOver(obj, proxy)
        /\ Part(obj', proxy') = Part(obj, proxy)
    BY <1>1
  <2>2. QED
    BY <1>1, <2>1 DEF RightPart
<1>3. NULL.type = "NULL" /\ currgtype \in Types \cup {"NULL"}
  BY NoObject DEF FollowInv
<1>4. QED
  BY <1>1, <1>2, <1>3 DEF FollowInv

(***************************************************************************)
(* What the positions stand for, at the first position and in a list.      *)
(***************************************************************************)
MatrixTypes == {"matrix", "intmat", "bigintmat"}
HasNo(o, i) == \/ o.type \notin {"ideal", "intvec", "list"}
               \/ i \notin 1..o.rows

LEMMA EntryOrNone ==
  ASSUME NEW o, NEW i
  PROVE  /\ HasNo(o, i) => Entry(o, i) = NULL
         /\ ~HasNo(o, i) => Entry(o, i) = o.parts[i]
         /\ Entry(NULL, i) = NULL
<1>1. NULL.type = "NULL"
  BY NoObject
<1>2. QED
  BY <1>1 DEF HasNo, Entry

LEMMA FirstPosition ==
  ASSUME NEW o, NEW p \in Proxies, o.type \notin MatrixTypes, HasNo(o, p[1])
  PROVE  Part(o, p) = NULL
BY ProxyShape, EntryOrNone DEF Part, MatrixTypes

LEMMA SecondPosition ==
  ASSUME NEW o, NEW p \in Proxies, Len(p) = 2, o.type = "list", p[1] \in 1..o.rows
  PROVE  /\ HasNo(o.parts[p[1]], p[2]) => Part(o, p) = NULL
         /\ ~HasNo(o.parts[p[1]], p[2]) => Part(o, p) = o.parts[p[1]].parts[p[2]]
<1>1. Entry(o, p[1]) = o.parts[p[1]]
  BY EntryOrNone DEF HasNo
<1>2. Part(o, p) = Entry(o.parts[p[1]], p[2])
  BY <1>1 DEF Part
<1>3. QED
  BY <1>2, EntryOrNone

(***************************************************************************)
(* The object a position is looked up in is one of Singular.               *)
(***************************************************************************)
LEMMA CurrentSound ==
  ASSUME FollowInv, pc = "follow", ~None
  PROVE  /\ Sound(current) /\ currgtype = current.type /\ proxy[pos] \in Index
         /\ obj \in Objects /\ proxy \in Proxies /\ Len(proxy) \in {1, 2}
         /\ \/ pos = 1 /\ current = obj
            \/ /\ pos = 2 /\ Len(proxy) = 2 /\ obj.type = "list"
               /\ proxy[1] \in 1..obj.rows /\ current = obj.parts[proxy[1]]
<1>1. obj \in Objects /\ proxy \in Proxies /\ Followed /\ currgtype = current.type
  BY DEF FollowInv
<1>2. Len(proxy) \in {1, 2} /\ pos <= Len(proxy) /\ pos \in {1, 2}
  <2>1. PICK n \in {1, 2} : Len(proxy) = n
    BY <1>1, ProxyShape
  <2>2. pos \in 1..(n + 1)
    BY <2>1 DEF FollowInv
  <2>3. ~(n < pos)
    BY <2>1 DEF None
  <2>4. QED
    BY <2>1, <2>2, <2>3
<1>3. proxy[pos] \in Index
  BY <1>1, <1>2, ProxyShape
<1>4. CASE pos = 1
  <2>1. current = obj
    BY <1>1, <1>4 DEF Followed
  <2>2. QED
    BY <1>1, <1>2, <1>3, <1>4, <2>1, ObjectsAssumption
<1>5. CASE pos = 2
  <2>1. obj.type = "list" /\ proxy[1] \in 1..obj.rows /\ current = obj.parts[proxy[1]]
    BY <1>1, <1>5 DEF Followed
  <2>2. QED
    BY <1>1, <1>2, <1>3, <1>5, <2>1, ObjectsAssumption
<1>6. QED
  BY <1>2, <1>4, <1>5

LEMMA NoPartHere ==
  ASSUME FollowInv, pc = "follow", ~None, SetError, HasNo(current, proxy[pos]),
         pos = 1 => current.type \notin MatrixTypes
  PROVE  FollowInv'
<1>1. CASE pos = 1 /\ current = obj
  BY <1>1, CurrentSound, FirstPosition, NotFound
<1>2. CASE /\ pos = 2 /\ Len(proxy) = 2 /\ obj.type = "list"
           /\ proxy[1] \in 1..obj.rows /\ current = obj.parts[proxy[1]]
  BY <1>2, CurrentSound, SecondPosition, NotFound
<1>3. QED
  BY <1>1, <1>2, CurrentSound

(***************************************************************************)
(* Row by row every place of a matrix is one of its parts.                 *)
(***************************************************************************)
LEMMA RowByRow ==
  ASSUME NEW m \in Nat, NEW n \in Nat, NEW i \in 1..m, NEW j \in 1..n
  PROVE  (i - 1) * n + j \in 1..(m * n)
<1>1. PICK d \in Nat : m = i + d
  <2>1. m - i \in Nat /\ m = i + (m - i)
    OBVIOUS
  <2>2. QED
    BY <2>1
<1>2. m * n = (i - 1) * n + n + d * n
  <2>1. m = (i - 1) + 1 + d
    BY <1>1
  <2>2. ((i - 1) + 1 + d) * n = (i - 1) * n + n + d * n
    OBVIOUS
  <2>3. QED
    BY <2>1, <2>2
<1>3. d * n \in Nat /\ (i - 1) * n \in Nat
  <2>1. i - 1 \in Nat
    OBVIOUS
  <2>2. QED
    BY <2>1
<1>4. QED
  BY <1>2, <1>3

-----------------------------------------------------------------------------
LEMMA UseStep ==
  ASSUME FollowInv, NEW o \in Objects, NEW p \in Proxies, Use(o, p)
  PROVE  FollowInv'
<1>1. /\ pc' = "follow" /\ obj' = o /\ proxy' = p /\ pos' = 1 /\ current' = o
      /\ currgtype' = o.type /\ error' = FALSE
  BY DEF Use
<1>2. o.type \in Types
  BY ObjectsAssumption DEF Sound
<1>3. pos' \in 1..(Len(proxy') + 1)
  <2>1. PICK n \in {1, 2} : Len(p) = n
    BY ProxyShape
  <2>2. 1 \in 1..(n + 1)
    OBVIOUS
  <2>3. QED
    BY <1>1, <2>1, <2>2
<1>4. Followed'
  BY <1>1 DEF Followed
<1>5. RightPart'
  BY <1>1 DEF RightPart
<1>6. QED
  BY <1>1, <1>2, <1>3, <1>4, <1>5 DEF FollowInv

LEMMA EndOfPositionsStep ==
  ASSUME FollowInv, EndOfPositions
  PROVE  FollowInv'
<1>1. /\ pc = "follow" /\ Len(proxy) < pos /\ Finish(current, currgtype)
      /\ obj \in Objects /\ proxy \in Proxies /\ Followed
      /\ currgtype = current.type
  BY DEF EndOfPositions, None, FollowInv
<1>2. (Len(proxy) = 1 /\ pos = 2) \/ (Len(proxy) = 2 /\ pos = 3)
  <2>1. PICK n \in {1, 2} : Len(proxy) = n
    BY <1>1, ProxyShape
  <2>2. pos \in 1..(n + 1)
    BY <2>1 DEF FollowInv
  <2>3. n < pos
    BY <1>1, <2>1
  <2>4. QED
    BY <2>1, <2>2, <2>3
<1>3. obj.type = "list" /\ proxy[1] \in 1..obj.rows
  BY <1>1, <1>2 DEF Followed
<1>4. Sound(obj) /\ Sound(obj.parts[proxy[1]])
  BY <1>1, <1>3, ObjectsAssumption
<1>5. CASE pos = 2
  <2>1. Len(proxy) = 1 /\ current = obj.parts[proxy[1]]
    BY <1>1, <1>2, <1>5 DEF Followed
  <2>2. current = Part(obj, proxy)
    BY <1>3, <2>1 DEF Part, Entry
  <2>3. current.type \in Types
    BY <1>4, <2>1 DEF Sound
  <2>4. QED
    BY <1>1, <2>2, <2>3, Found
<1>6. CASE pos = 3
  <2>1. /\ Len(proxy) = 2 /\ obj.parts[proxy[1]].type = "list"
        /\ proxy[2] \in 1..obj.parts[proxy[1]].rows
        /\ current = obj.parts[proxy[1]].parts[proxy[2]]
    BY <1>1, <1>6 DEF Followed
  <2>2. current = Part(obj, proxy)
    BY <1>1, <1>3, <2>1, SecondPosition DEF HasNo
  <2>3. current.type \in Types
    BY <1>4, <2>1 DEF Sound
  <2>4. QED
    BY <1>1, <2>2, <2>3, Found
<1>7. QED
  BY <1>1, <1>2, <1>5, <1>6 DEF Followed

LEMMA NotImmediateStep ==
  ASSUME FollowInv, NotImmediate
  PROVE  FollowInv'
<1>1. pc = "follow" /\ ~None /\ proxy[pos] = Big /\ SetError
  BY DEF NotImmediate, IsIntObj
<1>2. HasNo(current, proxy[pos])
  BY <1>1, CurrentSound DEF HasNo, Sound
<1>3. CASE pos = 1 => current.type \notin MatrixTypes
  BY <1>1, <1>2, <1>3, NoPartHere
<1>4. CASE pos = 1 /\ current.type \in MatrixTypes
  <2>1. obj.type \in MatrixTypes /\ proxy[1] = Big /\ Sound(obj) /\ Len(proxy) \in {1, 2}
    BY <1>1, <1>4, CurrentSound
  <2>2. Entry(obj, proxy[1]) = NULL
    BY <2>1 DEF Entry, MatrixTypes
  <2>3. EntryAt(obj, proxy[1], proxy[2]) = NULL
    BY <2>1 DEF EntryAt, Sound
  <2>4. Part(obj, proxy) = NULL
    BY <2>1, <2>2, <2>3 DEF Part, MatrixTypes
  <2>5. QED
    BY <1>1, <2>4, NotFound
<1>5. QED
  BY <1>3, <1>4

LEMMA FollowVectorStep ==
  ASSUME FollowInv, FollowVector
  PROVE  FollowInv'
<1>1. /\ pc = "follow" /\ ~None /\ currgtype \in {"ideal", "intvec"}
      /\ proxy[pos] # Big
      /\ IF InLength(proxy[pos])
         THEN Finish(current.parts[proxy[pos]], PartType(currgtype))
         ELSE SetError
  BY DEF FollowVector, Step, IsIntObj
<1>2. /\ Sound(current) /\ current.type \in {"ideal", "intvec"} /\ currgtype = current.type
      /\ proxy[pos] \in Index /\ obj \in Objects /\ proxy \in Proxies
  BY <1>1, CurrentSound
<1>3. /\ current.rows \in Nat /\ Big \notin 1..current.rows
      /\ current.rows * current.cols = current.rows
      /\ current.type \in DOMAIN EntryType
      /\ EntryType[current.type] = PartType(currgtype)
      /\ EntryType[current.type] \in {"poly", "int"}
  <2>1. current.rows \in Nat /\ Big \notin 1..current.rows /\ current.cols = 1
    BY <1>2 DEF Sound
  <2>2. current.rows * 1 = current.rows
    BY <2>1
  <2>3. QED
    BY <1>2, <2>1, <2>2 DEF EntryType, PartType
<1>4. InLength(proxy[pos]) <=> proxy[pos] \in 1..current.rows
  BY <1>1, <1>2, <1>3, Positions DEF InLength
<1>5. CASE ~InLength(proxy[pos])
  BY <1>1, <1>2, <1>4, <1>5, NoPartHere DEF HasNo, MatrixTypes
<1>6. CASE InLength(proxy[pos])
  <2>0. PICK part : part = current.parts[proxy[pos]]
    OBVIOUS
  <2>1. part.type = PartType(currgtype) /\ part.type \in {"poly", "int"}
    BY <1>2, <1>3, <1>4, <1>6, <2>0 DEF Sound
  <2>2. ~HasNo(current, proxy[pos])
    BY <1>2, <1>4, <1>6 DEF HasNo
  <2>3. LeftOver(obj, proxy) \/ part = Part(obj, proxy)
    <3>1. CASE pos = 1 /\ current = obj
      <4>1. Entry(obj, proxy[1]) = part
        BY <2>0, <2>2, <3>1, EntryOrNone
      <4>2. CASE Len(proxy) = 1
        BY <4>1, <4>2 DEF Part
      <4>3. CASE Len(proxy) = 2
        BY <1>2, <2>1, <3>1, <4>1, <4>3 DEF LeftOver, NULL, Leaf
      <4>4. QED
        BY <1>2, <4>2, <4>3, ProxyShape
    <3>2. CASE /\ pos = 2 /\ Len(proxy) = 2 /\ obj.type = "list"
               /\ proxy[1] \in 1..obj.rows /\ current = obj.parts[proxy[1]]
      BY <1>2, <2>0, <2>2, <3>2, SecondPosition
    <3>3. QED
      BY <1>1, <3>1, <3>2, CurrentSound
  <2>4. Finish(part, part.type) /\ part.type \in Types
    BY <1>1, <1>6, <2>0, <2>1 DEF Types
  <2>5. QED
    BY <1>1, <2>3, <2>4, Found
<1>7. QED
  BY <1>5, <1>6

LEMMA FollowMatrixStep ==
  ASSUME FollowInv, FollowMatrix
  PROVE  FollowInv'
<1> DEFINE Inside == /\ pos + 1 <= Len(proxy) /\ IsIntObj(proxy[pos + 1])
                     /\ proxy[pos] <= current.rows /\ proxy[pos + 1] <= current.cols
<1>1. /\ pc = "follow" /\ ~None /\ currgtype \in MatrixTypes
      /\ proxy[pos] # Big
      /\ IF Inside
         THEN Finish(current.parts[RowWise(proxy[pos], proxy[pos + 1])], PartType(currgtype))
         ELSE SetError
  BY DEF FollowMatrix, Step, IsIntObj, MatrixTypes
<1>2. /\ Sound(current) /\ current.type \in MatrixTypes /\ currgtype = current.type
      /\ proxy[pos] \in Index /\ obj \in Objects /\ proxy \in Proxies
      /\ Len(proxy) \in {1, 2}
  BY <1>1, CurrentSound
<1>3. CASE /\ pos = 2 /\ Len(proxy) = 2 /\ obj.type = "list"
           /\ proxy[1] \in 1..obj.rows /\ current = obj.parts[proxy[1]]
  <2>1. ~Inside
    BY <1>3
  <2>2. HasNo(current, proxy[pos])
    BY <1>2 DEF HasNo, MatrixTypes
  <2>3. QED
    BY <1>1, <1>3, <2>1, <2>2, NoPartHere
<1>4. CASE pos = 1 /\ current = obj /\ Len(proxy) = 1
  <2>1. ~Inside
    BY <1>4
  <2>2. Part(obj, proxy) = NULL
    BY <1>2, <1>4 DEF Part, Entry, MatrixTypes
  <2>3. QED
    BY <1>1, <2>1, <2>2, NotFound
<1>5. CASE pos = 1 /\ current = obj /\ Len(proxy) = 2
  <2>1. /\ obj.rows \in Nat /\ Big \notin 1..obj.rows
        /\ obj.cols \in Nat /\ Big \notin 1..obj.cols
    BY <1>2, <1>5 DEF Sound
  <2>2. proxy[1] \in Index /\ proxy[2] \in Index /\ proxy[1] # Big
    BY <1>1, <1>2, <1>5, ProxyShape
  <2>3. /\ proxy[1] \in 1..obj.rows <=> proxy[1] <= obj.rows
        /\ proxy[2] \in 1..obj.cols <=> proxy[2] # Big /\ proxy[2] <= obj.cols
    BY <2>1, <2>2, Positions
  <2>4. Inside <=> proxy[1] \in 1..obj.rows /\ proxy[2] \in 1..obj.cols
    BY <1>5, <2>3 DEF IsIntObj
  <2>5. Part(obj, proxy) = EntryAt(obj, proxy[1], proxy[2])
    BY <1>2, <1>5 DEF Part, MatrixTypes
  <2>6. CASE ~Inside
    <3>1. Part(obj, proxy) = NULL
      BY <2>4, <2>5, <2>6 DEF EntryAt
    <3>2. QED
      BY <1>1, <2>6, <3>1, NotFound
  <2>7. CASE Inside
    <3>0. PICK k : k = (proxy[1] - 1) * obj.cols + proxy[2]
      OBVIOUS
    <3>1. k \in 1..(obj.rows * obj.cols)
      BY <2>1, <2>4, <2>7, <3>0, RowByRow
    <3>2. Finish(obj.parts[k], PartType(currgtype))
      BY <1>1, <1>5, <2>7, <3>0 DEF RowWise
    <3>3. obj.parts[k] = Part(obj, proxy)
      BY <2>4, <2>5, <2>7, <3>0 DEF EntryAt
    <3>4. obj.type \in DOMAIN EntryType /\ obj.parts[k].type = EntryType[obj.type]
      BY <1>2, <1>5, <3>1 DEF Sound, EntryType, MatrixTypes
    <3>5. /\ PartType(currgtype) \in Types /\ obj.parts[k].type \in Types
          /\ PartType(currgtype) # "matrix" => PartType(currgtype) = obj.parts[k].type
      BY <1>2, <1>5, <3>4 DEF PartType, EntryType, MatrixTypes, Types
    <3>6. QED
      BY <1>1, <3>2, <3>3, <3>5, Found
  <2>8. QED
    BY <2>6, <2>7
<1>6. QED
  BY <1>1, <1>3, <1>4, <1>5, CurrentSound

LEMMA FollowListStep ==
  ASSUME FollowInv, FollowList
  PROVE  FollowInv'
<1>1. pc = "follow" /\ ~None /\ currgtype = "list" /\ proxy[pos] # Big
  BY DEF FollowList, Step, IsIntObj
<1>2. /\ Sound(current) /\ current.type = "list" /\ currgtype = current.type
      /\ proxy[pos] \in Index /\ obj \in Objects /\ proxy \in Proxies
      /\ Len(proxy) \in {1, 2}
  BY <1>1, CurrentSound
<1>3. InLength(proxy[pos]) <=> proxy[pos] \in 1..current.rows
  <2>1. current.rows \in Nat /\ Big \notin 1..current.rows
    BY <1>2 DEF Sound
  <2>2. QED
    BY <1>1, <1>2, <2>1, Positions DEF InLength
<1>4. CASE ~InLength(proxy[pos])
  <2>1. SetError
    BY <1>4 DEF FollowList
  <2>2. QED
    BY <1>1, <1>2, <1>3, <1>4, <2>1, NoPartHere DEF HasNo, MatrixTypes
<1>5. CASE InLength(proxy[pos])
  <2>1. /\ current' = current.parts[proxy[pos]] /\ currgtype' = current'.type
        /\ pos' = pos + 1 /\ UNCHANGED <<pc, obj, proxy, error>>
    BY <1>5 DEF FollowList, NextPos, TypeOfPart
  <2>2. current'.type \in Types
    BY <1>2, <1>3, <1>5, <2>1 DEF Sound
  <2>3. Followed'
    <3>1. CASE pos = 1 /\ current = obj
      BY <1>2, <1>3, <1>5, <2>1, <3>1 DEF Followed
    <3>2. CASE /\ pos = 2 /\ Len(proxy) = 2 /\ obj.type = "list"
               /\ proxy[1] \in 1..obj.rows /\ current = obj.parts[proxy[1]]
      BY <1>2, <1>3, <1>5, <2>1, <3>2 DEF Followed
    <3>3. QED
      BY <1>1, <3>1, <3>2, CurrentSound
  <2>4. pos' \in 1..(Len(proxy') + 1)
    BY <1>1, <1>2, <2>1, CurrentSound
  <2>5. pc' = "follow" /\ ~error' /\ error' \in BOOLEAN
    BY <1>1, <2>1 DEF FollowInv
  <2>6. QED
    BY <1>2, <2>1, <2>2, <2>3, <2>4, <2>5 DEF FollowInv, RightPart
<1>6. QED
  BY <1>4, <1>5

LEMMA NoSubobjectsStep ==
  ASSUME FollowInv, NoSubobjects
  PROVE  FollowInv'
<1>1. /\ pc = "follow" /\ ~None /\ SetError
      /\ currgtype \notin {"ideal", "intvec", "matrix", "intmat", "bigintmat", "list"}
  BY DEF NoSubobjects
<1>2. currgtype = current.type
  BY <1>1, CurrentSound
<1>3. HasNo(current, proxy[pos]) /\ current.type \notin MatrixTypes
  BY <1>1, <1>2 DEF HasNo, MatrixTypes
<1>4. QED
  BY <1>1, <1>3, NoPartHere

LEMMA DoneStep ==
  ASSUME FollowInv, Done
  PROVE  FollowInv'
<1>1. /\ pc' = "gap" /\ proxy' = <<>> /\ pos' = 1 /\ current' = NULL
      /\ currgtype' = "NULL" /\ error' = FALSE
  BY DEF Done
<1>2. NULL.type = "NULL"
  BY NoObject
<1>3. pos' \in 1..(Len(proxy') + 1)
  BY <1>1
<1>4. RightPart'
  BY <1>1 DEF RightPart
<1>5. QED
  BY <1>1, <1>2, <1>3, <1>4 DEF FollowInv

LEMMA FollowStep ==
  ASSUME FollowInv, FollowNext
  PROVE  FollowInv'
BY UseStep, EndOfPositionsStep, NotImmediateStep, FollowVectorStep, FollowMatrixStep,
   FollowListStep, NoSubobjectsStep, DoneStep DEF FollowNext

(***************************************************************************)
(* Proxies (singobj.cc): positions lead to the part they stand for, of     *)
(* the type found for it, whatever the objects and however they nest.      *)
(***************************************************************************)
THEOREM ProxySafety == Spec => []FollowInv
<1>1. Init => FollowInv
  <2>1. SUFFICES ASSUME Init PROVE FollowInv
    OBVIOUS
  <2>2. /\ pc = "gap" /\ proxy = <<>> /\ pos = 1 /\ current = NULL /\ currgtype = "NULL"
        /\ error = FALSE
    BY <2>1 DEF Init, FollowInit
  <2>3. NULL.type = "NULL"
    BY NoObject
  <2>4. pos \in 1..(Len(proxy) + 1)
    BY <2>2
  <2>5. RightPart
    BY <2>2 DEF RightPart
  <2>6. QED
    BY <2>2, <2>3, <2>4, <2>5 DEF FollowInv
<1>2. FollowInv /\ [Next]_vars => FollowInv'
  <2>1. SUFFICES ASSUME FollowInv, [Next]_vars PROVE FollowInv'
    OBVIOUS
  <2>2. CASE UNCHANGED fvars
    <3>1. UNCHANGED <<pc, obj, proxy, pos, current, currgtype, error>>
      BY <2>2 DEF fvars
    <3>2. Followed' <=> Followed
      BY <3>1 DEF Followed
    <3>3. RightPart'
      BY <2>1, <3>1 DEF FollowInv, RightPart
    <3>4. QED
      BY <2>1, <3>1, <3>2, <3>3 DEF FollowInv
  <2>3. CASE FollowNext
    BY <2>1, <2>3, FollowStep
  <2>4. QED
    BY <2>1, <2>2, <2>3 DEF Next, vars
<1>3. QED
  BY <1>1, <1>2, PTL DEF Spec

THEOREM PartSafety == Spec => []RightPart
<1>1. FollowInv => RightPart
  BY DEF FollowInv
<1>2. QED
  BY <1>1, ProxySafety, PTL

-----------------------------------------------------------------------------
(***************************************************************************)
(* Types.  Every conversion gives a datum with a numerator and a           *)
(* denominator, for every field.                                           *)
(***************************************************************************)
IsDatum(v) == v.num \in Int /\ v.den \in Nat

LEMMA DatumValues ==
  ASSUME NEW rep, NEW n \in Int, NEW d \in Nat
  PROVE  IsDatum(Value(rep, n, d))
BY DEF IsDatum, Value

LEMMA DatumInit ==
  ASSUME NEW n \in Int
  PROVE  /\ IsDatum(Mpz(n)) /\ IsDatum(n_InitQ(n)) /\ IsDatum(Refused)
         /\ \A f \in Fields : IsDatum(n_Init(n, f))
<1>1. 0 \in Int /\ 1 \in Nat
  OBVIOUS
<1>2. IsDatum(Mpz(n)) /\ IsDatum(n_InitQ(n)) /\ IsDatum(Refused)
  BY <1>1, DatumValues DEF Mpz, Imm, n_InitQ, Refused
<1>3. ASSUME NEW f \in Fields PROVE IsDatum(n_Init(n, f))
  <2>1. CASE f.kind = "Q"
    BY <1>2, <2>1 DEF n_Init
  <2>2. CASE f.kind # "Q"
    <3>1. n % f.char \in Int
      BY <2>2, FieldsAssumption
    <3>2. QED
      BY <1>1, <2>2, <3>1, DatumValues DEF n_Init
  <2>3. QED
    BY <2>1, <2>2
<1>4. QED
  BY <1>2, <1>3

LEMMA DatumConverted ==
  ASSUME NEW g \in GapNumbers
  PROVE  /\ \A f \in Fields : IsDatum(_SI_NUMBER_FROM_GAP(f, g))
         /\ IsDatum(_SI_BIGINT_FROM_GAP(g)) /\ IsDatum(_SI_BIGINT_OR_INT_FROM_GAP(g))
<1>1. g.num \in Int /\ g.den \in Nat /\ 1 \in Nat
  BY GapNumbersAssumption
<1>2. IsDatum(Refused) /\ IsDatum(Mpz(g.num)) /\ IsDatum(n_InitQ(g.num))
  BY <1>1, DatumInit
<1>3. IsDatum(_SI_BIGINT_FROM_GAP(g))
  BY <1>2 DEF _SI_BIGINT_FROM_GAP, _SI_GMP_FROM_GAP
<1>4. IsDatum(_SI_BIGINT_OR_INT_FROM_GAP(g))
  BY <1>1, <1>2, DatumValues DEF _SI_BIGINT_OR_INT_FROM_GAP, _SI_GMP_FROM_GAP
<1>5. ASSUME NEW f \in Fields PROVE IsDatum(_SI_NUMBER_FROM_GAP(f, g))
  <2>1. IsDatum(FromGAPQ(g))
    <3>1. IsDatum(Value("rat", g.num, g.den))
      BY <1>1, DatumValues
    <3>2. QED
      BY <1>2, <3>1 DEF FromGAPQ, _SI_GMP_FROM_GAP
  <2>2. ASSUME f.kind = "Zp" PROVE IsDatum(FromGAPZp(f, g))
    <3>1. f.char \in Nat \ {0}
      BY <2>2, FieldsAssumption
    <3>2. \A n \in Int : CRem(n, f.char) \in Int
      BY <3>1 DEF CRem
    <3>3. IsDatum(n_Init(CRem(g.num, f.char), f)) /\ IsDatum(n_Init(g.num, f))
      BY <1>1, <3>2, DatumInit
    <3>4. PICK x : x = CHOOSE v \in NumberMod(g, f.char) : TRUE
      OBVIOUS
    <3>5. CASE IS_INTOBJ(g)
      <4>1. FromGAPZp(f, g) = n_Init(CRem(g.num, f.char), f)
        BY <3>5 DEF FromGAPZp, IS_INTOBJ
      <4>2. QED
        BY <3>3, <4>1
    <3>6. CASE ~IS_INTOBJ(g) /\ g.t = "ffe"
      BY <1>2, <3>3, <3>6 DEF FromGAPZp
    <3>7. CASE ~IS_INTOBJ(g) /\ g.t \in {"int", "rat"}
      <4>1. CASE NumberMod(g, f.char) = {}
        BY <1>2, <3>7, <4>1 DEF FromGAPZp
      <4>2. CASE NumberMod(g, f.char) # {}
        <5>1. x \in NumberMod(g, f.char)
          BY <3>4, <4>2
        <5>2. x \in Int
          BY <3>1, <5>1 DEF NumberMod, Quotients
        <5>3. IsDatum(n_Init(CRem(x, f.char), f))
          BY <3>2, <5>2, DatumInit
        <5>4. FromGAPZp(f, g) = n_Init(CRem(x, f.char), f)
          BY <3>4, <3>7, <4>2 DEF FromGAPZp
        <5>5. QED
          BY <5>3, <5>4
      <4>3. QED
        BY <4>1, <4>2
    <3>8. CASE ~IS_INTOBJ(g) /\ g.t \notin {"int", "rat", "ffe"}
      BY <1>2, <3>8 DEF FromGAPZp
    <3>9. QED
      BY <3>5, <3>6, <3>7, <3>8
  <2>3. IsDatum(n_Init(g.num, f))
    BY <1>1, DatumInit
  <2>4. QED
    BY <1>2, <2>1, <2>2, <2>3 DEF _SI_NUMBER_FROM_GAP
<1>6. QED
  BY <1>3, <1>4, <1>5

NumbersType ==
  /\ given \in GapNumbers \cup {NoNumber} /\ {field, currRing} \subseteq Fields \cup {NoField}
  /\ IsDatum(data) /\ back.t \in {"none", "int", "other"}

LEMMA NumbersTypeKept ==
  ASSUME NumbersType, [Next]_vars
  PROVE  NumbersType'
<1>1. CASE UNCHANGED nvars
  <2>1. UNCHANGED <<currRing, given, field, data, back>>
    BY <1>1 DEF nvars
  <2>2. IsDatum(data')
    BY <2>1 DEF NumbersType
  <2>3. QED
    BY <2>1, <2>2 DEF NumbersType
<1>2. ASSUME NEW g \in GapNumbers, NEW f \in Fields \cup {NoField}, NEW v, IsDatum(v),
             Convert(g, f, v)
      PROVE  NumbersType'
  <2>1. /\ given' = g /\ field' = f /\ data' = v /\ UNCHANGED back
        /\ currRing' \in {currRing, f}
    BY <1>2 DEF Convert
  <2>2. IsDatum(data')
    BY <1>2, <2>1
  <2>3. QED
    BY <2>1, <2>2 DEF NumbersType
<1>3. ASSUME NEW g \in GapNumbers, NEW f \in Fields, SI_number(f, g) PROVE NumbersType'
  BY <1>2, <1>3, DatumConverted DEF SI_number
<1>4. ASSUME NEW g \in GapNumbers, SI_bigint(g) PROVE NumbersType'
  BY <1>2, <1>4, DatumConverted DEF SI_bigint
<1>5. ASSUME NEW g \in GapNumbers, InitInteger(g) PROVE NumbersType'
  BY <1>2, <1>5, DatumConverted DEF InitInteger
<1>6. CASE SI_ToGAP
  <2>1. UNCHANGED <<currRing, given, field, data>>
    BY <1>6 DEF SI_ToGAP
  <2>2. back'.t \in {"int", "other"}
    <3>1. \A n : INTOBJ_INT(n).t \in {"int", "other"}
      BY DEF INTOBJ_INT, GapInt, GapOther
    <3>2. _SI_BIGINT_OR_INT_TO_GAP(data).t \in {"int", "other"}
      BY <3>1 DEF _SI_BIGINT_OR_INT_TO_GAP, GapInt
    <3>3. GapOther.t = "other"
      BY DEF GapOther
    <3>4. QED
      BY <1>6, <3>1, <3>2, <3>3 DEF SI_ToGAP
  <2>3. IsDatum(data')
    BY <2>1 DEF NumbersType
  <2>4. QED
    BY <2>1, <2>2, <2>3 DEF NumbersType
<1>7. CASE Forget
  <2>1. /\ given' = NoNumber /\ field' = NoField /\ data' = Refused /\ back' = NoNumber
        /\ UNCHANGED currRing
    BY <1>7 DEF Forget
  <2>2. IsDatum(data')
    <3>1. 0 \in Int
      OBVIOUS
    <3>2. QED
      BY <2>1, <3>1, DatumInit
  <2>3. back'.t = "none"
    BY <2>1 DEF NoNumber
  <2>4. QED
    BY <2>1, <2>2, <2>3 DEF NumbersType
<1>8. QED
  BY <1>1, <1>3, <1>4, <1>5, <1>6, <1>7 DEF Next, NumbersNext, vars

(***************************************************************************)
(* The column is in range between two lists as well.                       *)
(***************************************************************************)
ColumnType == c \in 0..(Cols + 1)

LEMMA ColumnKept ==
  ASSUME ColumnType, [Next]_vars
  PROVE  ColumnType'
<1>1. CASE UNCHANGED lvars
  BY <1>1 DEF lvars, ColumnType
<1>2. CASE ListsNext
  <2>1. ASSUME NEW places \in SUBSET Cells, ToList(places) PROVE ColumnType'
    BY <2>1, SizeAssumption DEF ToList, ColumnType
  <2>2. ASSUME NEW full \in BOOLEAN, Collect(full) PROVE ColumnType'
    BY <2>2 DEF Collect, ColumnType
  <2>3. ASSUME NewRow PROVE ColumnType'
    BY <2>3, SizeAssumption DEF NewRow, ColumnType
  <2>4. ASSUME NextElm PROVE ColumnType'
    BY <2>4, SizeAssumption DEF NextElm, ColumnType
  <2>5. ASSUME EndOfRow PROVE ColumnType'
    BY <2>5, SizeAssumption DEF EndOfRow, ColumnType
  <2>6. ASSUME Return PROVE ColumnType'
    BY <2>6 DEF Return, ColumnType
  <2>7. QED
    BY <1>2, <2>1, <2>2, <2>3, <2>4, <2>5, <2>6 DEF ListsNext
<1>3. QED
  BY <1>1, <1>2 DEF Next, vars

(***************************************************************************)
(* Proxies, numbers and lists (singobj.cc, number.cc, matrix.cc) stay of   *)
(* the types of TypeOK whatever objects, numbers and fields there are.     *)
(***************************************************************************)
THEOREM TypeCorrect == Spec => []TypeOK
<1>1. Init => NumbersType /\ ColumnType
  <2>1. SUFFICES ASSUME Init PROVE NumbersType /\ ColumnType
    OBVIOUS
  <2>2. /\ currRing = NoField /\ given = NoNumber /\ field = NoField /\ data = Refused
        /\ back = NoNumber /\ c = 0
    BY <2>1 DEF Init, ListsInit
  <2>3. IsDatum(data)
    <3>1. 0 \in Int
      OBVIOUS
    <3>2. QED
      BY <2>2, <3>1, DatumInit
  <2>4. NumbersType
    BY <2>2, <2>3 DEF NumbersType, NoNumber
  <2>5. ColumnType
    BY <2>2, SizeAssumption DEF ColumnType
  <2>6. QED
    BY <2>4, <2>5
<1>2. (NumbersType /\ ColumnType) /\ [Next]_vars => (NumbersType /\ ColumnType)'
  BY NumbersTypeKept, ColumnKept
<1>3. FollowInv /\ IInv /\ NumbersType /\ ColumnType => TypeOK
  <2>1. SUFFICES ASSUME FollowInv, IInv, NumbersType, ColumnType PROVE TypeOK
    OBVIOUS
  <2>2. /\ pc \in {"gap", "follow", "done"} /\ error \in BOOLEAN
        /\ proxy \in Proxies \cup {<<>>} /\ pos \in 1..(Len(proxy) + 1)
        /\ {current.type, currgtype} \subseteq Types \cup {"NULL"}
    BY <2>1 DEF FollowInv
  <2>3. /\ long \subseteq Cells /\ c \in 0..(Cols + 1)
        /\ changed \subseteq old /\ old \subseteq allocated
    BY <2>1 DEF IInv, ListsInv, ColumnType
  <2>4. r \in 0..(Rows + 1)
    <3>1. r = 0 \/ r \in 1..(Rows + 1)
      BY <2>1 DEF IInv, ListsInv, Places
    <3>2. QED
      BY <3>1, SizeAssumption
  <2>5. /\ given \in GapNumbers \cup {NoNumber}
        /\ {field, currRing} \subseteq Fields \cup {NoField}
        /\ data.num \in Int /\ data.den \in Nat /\ back.t \in {"none", "int", "other"}
    BY <2>1 DEF NumbersType, IsDatum
  <2>6. QED
    BY <2>2, <2>3, <2>4, <2>5 DEF TypeOK
<1>4. QED
  BY <1>1, <1>2, <1>3, ProxySafety, Invariance, PTL DEF Spec

=============================================================================
