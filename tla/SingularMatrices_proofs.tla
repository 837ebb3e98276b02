----------------------- MODULE SingularMatrices_proofs -----------------------
(***************************************************************************)
(* Matrices of any size, from lists of any length: what was copied belongs *)
(* to somebody, entries are where they were put, and the makers implement  *)
(* MatrixContents.                                                         *)
(***************************************************************************)
EXTENDS SingularMatrices, FiniteSetTheorems, TLAPS

(***************************************************************************)
(* Conversion to int.                                                      *)
(***************************************************************************)
LEMMA ToIntRange ==
  ASSUME NEW n \in Int
  PROVE  ToInt(n) \in CInt
<1>1. (n + HalfInt) % (2 * HalfInt) \in 0..(2 * HalfInt - 1)
  <2>1. 2 * HalfInt \in Nat \ {0} /\ n + HalfInt \in Int
    BY WidthAssumption
  <2>2. \A x \in Int, y \in Nat \ {0} : x % y \in 0..(y - 1)
    OBVIOUS
  <2>3. QED
    BY <2>1, <2>2
<1>2. QED
  BY <1>1, WidthAssumption DEF ToInt, CInt

LEMMA ToIntSame ==
  ASSUME NEW n \in CInt
  PROVE  ToInt(n) = n
<1>1. n + HalfInt \in 0..(2 * HalfInt - 1) /\ 2 * HalfInt \in Nat \ {0} /\ n \in Int
  BY WidthAssumption DEF CInt
<1>2. \A y \in Nat \ {0} : \A x \in 0..(y - 1) : x % y = x
  OBVIOUS
<1>3. (n + HalfInt) % (2 * HalfInt) = n + HalfInt
  BY <1>1, <1>2
<1>4. QED
  BY <1>1, <1>3, WidthAssumption DEF ToInt

(***************************************************************************)
(* Places in a matrix of m rows and n columns.                             *)
(***************************************************************************)
LEMMA PlaceType ==
  ASSUME NEW n \in Nat, NEW a \in Int, NEW b \in Int
  PROVE  MATELEM(n, a, b) \in Int
BY DEF MATELEM

LEMMA PlaceNext ==
  ASSUME NEW n \in Nat, NEW a \in Int, NEW b \in Int
  PROVE  /\ MATELEM(n, a, b + 1) = MATELEM(n, a, b) + 1
         /\ MATELEM(n, a + 1, 1) = MATELEM(n, a, n) + 1
         /\ MATELEM(n, 1, 1) = 1
         /\ MATELEM(n, a + 1, 1) = a * n + 1
<1>1. (a - 1) * n \in Int /\ a * n \in Int
  OBVIOUS
<1>2. (a - 1) * n + n = a * n
  OBVIOUS
<1>3. MATELEM(n, a, b) = (a - 1) * n + b /\ MATELEM(n, a, b + 1) = (a - 1) * n + (b + 1)
      /\ MATELEM(n, a, n) = (a - 1) * n + n
  BY DEF MATELEM
<1>4. MATELEM(n, a + 1, 1) = a * n + 1
  <2>1. (a + 1) - 1 = a
    OBVIOUS
  <2>2. QED
    BY <2>1 DEF MATELEM
<1>5. MATELEM(n, 1, 1) = 1
  <2>1. (1 - 1) * n = 0
    OBVIOUS
  <2>2. QED
    BY <2>1 DEF MATELEM
<1>6. QED
  BY <1>1, <1>2, <1>3, <1>4, <1>5

LEMMA Monotone ==
  ASSUME NEW n \in Nat, NEW a \in Int, NEW b \in Int, a <= b
  PROVE  a * n <= b * n
<1>1. b - a \in Nat
  OBVIOUS
<1>2. (b - a) * n \in Nat
  BY <1>1
<1>3. (b - a) * n = b * n - a * n /\ a * n \in Int /\ b * n \in Int
  OBVIOUS
<1>4. QED
  BY <1>2, <1>3

LEMMA PlaceRange ==
  ASSUME NEW m \in Nat, NEW n \in Nat, NEW a \in 1..m, NEW b \in 1..n
  PROVE  MATELEM(n, a, b) \in 1..(m * n)
<1>1. (a - 1) * n + n = a * n /\ (a - 1) * n \in Int /\ a * n \in Int /\ m * n \in Int
  OBVIOUS
<1>2. 0 * n <= (a - 1) * n
  <2>1. 0 <= a - 1 /\ a - 1 \in Int
    OBVIOUS
  <2>2. QED
    BY <2>1, Monotone
<1>3. a * n <= m * n
  BY Monotone
<1>4. 0 * n = 0
  OBVIOUS
<1>5. QED
  BY <1>1, <1>2, <1>3, <1>4 DEF MATELEM

LEMMA PlaceOrder ==
  ASSUME NEW n \in Nat, NEW a \in Int, NEW b \in 1..n, NEW x \in Int, NEW y \in 1..n, a < x
  PROVE  MATELEM(n, a, b) < MATELEM(n, x, y)
<1>1. (a - 1) * n + n = a * n /\ (a - 1) * n \in Int /\ (x - 1) * n \in Int /\ a * n \in Int
  OBVIOUS
<1>2. a * n <= (x - 1) * n
  <2>1. a <= x - 1 /\ x - 1 \in Int
    OBVIOUS
  <2>2. QED
    BY <2>1, Monotone
<1>3. QED
  BY <1>1, <1>2 DEF MATELEM

LEMMA PlaceUnique ==
  ASSUME NEW n \in Nat, NEW a \in Int, NEW b \in 1..n, NEW x \in Int, NEW y \in 1..n,
         MATELEM(n, a, b) = MATELEM(n, x, y)
  PROVE  a = x /\ b = y
<1>0. b \in Int /\ y \in Int
  OBVIOUS
<1>1. MATELEM(n, a, b) \in Int /\ MATELEM(n, x, y) \in Int
  BY <1>0, PlaceType
<1>2. a = x
  <2>1. ASSUME a < x PROVE FALSE
    <3>1. MATELEM(n, a, b) < MATELEM(n, x, y)
      BY <2>1, PlaceOrder
    <3>2. QED
      BY <1>1, <3>1
  <2>2. ASSUME x < a PROVE FALSE
    <3>1. MATELEM(n, x, y) < MATELEM(n, a, b)
      BY <2>2, PlaceOrder
    <3>2. QED
      BY <1>1, <3>1
  <2>3. QED
    BY <2>1, <2>2
<1>3. (a - 1) * n \in Int
  OBVIOUS
<1>4. QED
  BY <1>2, <1>3 DEF MATELEM

LEMMA NotEmpty ==
  ASSUME NEW m \in Nat \ {0}, NEW n \in Nat \ {0}
  PROVE  m * n \in Nat /\ 1 \in 1..(m * n)
<1>1. 1 \in 1..m /\ 1 \in 1..n /\ m * n \in Nat
  OBVIOUS
<1>2. MATELEM(n, 1, 1) \in 1..(m * n)
  BY <1>1, PlaceRange
<1>3. QED
  BY <1>1, <1>2

LEMMA IsMatrix ==
  ASSUME NEW m \in Nat \ {0}, NEW n \in Nat \ {0}, NEW e, DOMAIN e = 1..(m * n)
  PROVE  e # None
<1>1. 1 \in DOMAIN e
  BY NotEmpty
<1>2. 1 \notin DOMAIN None
  BY DEF None
<1>3. QED
  BY <1>1, <1>2

(***************************************************************************)
(* Counting the entries that are not 0.                                    *)
(***************************************************************************)
Support(e) == {k \in DOMAIN e : e[k] # 0}

LEMMA NotZeroOne ==
  ASSUME NEW v
  PROVE  NotZero(<<v>>) = IF v = 0 THEN 0 ELSE 1
<1>1. DOMAIN <<v>> = {1} /\ <<v>>[1] = v
  OBVIOUS
<1>2. CASE v = 0
  <2>1. {k \in DOMAIN <<v>> : <<v>>[k] # 0} = {}
    BY <1>1, <1>2
  <2>2. QED
    BY <1>2, <2>1, FS_EmptySet DEF NotZero
<1>3. CASE v # 0
  <2>1. {k \in DOMAIN <<v>> : <<v>>[k] # 0} = {1}
    BY <1>1, <1>3
  <2>2. QED
    BY <1>3, <2>1, FS_Singleton DEF NotZero
<1>4. QED
  BY <1>2, <1>3

LEMMA NotZeroZeros ==
  ASSUME NEW m, NEW n
  PROVE  NotZero(Zeros(m, n)) = 0
<1>1. {k \in DOMAIN Zeros(m, n) : Zeros(m, n)[k] # 0} = {}
  BY DEF Zeros
<1>2. QED
  BY <1>1, FS_EmptySet DEF NotZero

LEMMA SupportFinite ==
  ASSUME NEW N \in Nat, NEW e, DOMAIN e = 1..N
  PROVE  IsFiniteSet(Support(e)) /\ NotZero(e) \in Nat /\ NotZero(e) = Cardinality(Support(e))
<1>1. IsFiniteSet(1..N)
  BY FS_Interval
<1>2. IsFiniteSet(Support(e))
  BY <1>1, FS_Subset DEF Support
<1>3. NotZero(e) = Cardinality(Support(e))
  BY DEF NotZero, Support
<1>4. QED
  BY <1>2, <1>3, FS_CardinalityType

Updated(f, e, N, k, v) ==
  /\ DOMAIN e = 1..N /\ k \in 1..N
  /\ DOMAIN f = 1..N /\ f[k] = v /\ \A l \in 1..N : l # k => f[l] = e[l]

LEMMA NotZeroUpdated ==
  ASSUME NEW N \in Nat, NEW e, NEW k, NEW v, NEW f, Updated(f, e, N, k, v)
  PROVE  NotZero(f) = NotZero(e) - NotZero(<<e[k]>>) + NotZero(<<v>>)
<1>1. /\ DOMAIN e = 1..N /\ k \in 1..N
      /\ DOMAIN f = 1..N /\ f[k] = v /\ \A l \in 1..N : l # k => f[l] = e[l]
  BY DEF Updated
<1>2. PICK S : S = Support(e) \ {k}
  OBVIOUS
<1>3. IsFiniteSet(S) /\ k \notin S /\ Cardinality(S) \in Nat
  BY <1>1, <1>2, SupportFinite, FS_Subset, FS_CardinalityType
<1>4. Support(e) = (IF e[k] = 0 THEN S ELSE S \cup {k})
  BY <1>1, <1>2 DEF Support
<1>5. Support(f) = (IF v = 0 THEN S ELSE S \cup {k})
  BY <1>1, <1>2 DEF Support
<1>6. Cardinality(S \cup {k}) = Cardinality(S) + 1
  BY <1>3, FS_AddElement
<1>7. NotZero(e) = Cardinality(S) + NotZero(<<e[k]>>)
  <2>1. CASE e[k] = 0
    BY <1>1, <1>3, <1>4, <2>1, SupportFinite, NotZeroOne
  <2>2. CASE e[k] # 0
    BY <1>1, <1>3, <1>4, <1>6, <2>2, SupportFinite, NotZeroOne
  <2>3. QED
    BY <2>1, <2>2
<1>8. NotZero(f) = Cardinality(S) + NotZero(<<v>>)
  <2>0. NotZero(f) = Cardinality(Support(f))
    BY <1>1, SupportFinite
  <2>1. CASE v = 0
    BY <1>3, <1>5, <2>0, <2>1, NotZeroOne
  <2>2. CASE v # 0
    BY <1>3, <1>5, <1>6, <2>0, <2>2, NotZeroOne
  <2>3. QED
    BY <2>1, <2>2
<1>9. NotZero(<<e[k]>>) \in Nat /\ NotZero(<<v>>) \in Nat
  BY NotZeroOne
<1>10. QED
  BY <1>1, <1>3, <1>7, <1>8, <1>9

LEMMA ListsAreSeqs ==
  ASSUME NEW S, NEW n \in Nat, NEW l \in Lists(S, n)
  PROVE  l \in Seq(S) /\ Len(l) \in 1..n
<1>1. PICK k \in 1..n : l \in [1..k -> S]
  BY DEF Lists
<1>2. QED
  BY <1>1

-----------------------------------------------------------------------------
(***************************************************************************)
(* The inductive invariant.  A maker of polynomials has copied the         *)
(* elements before i, and the other entries are still 0; a maker of        *)
(* integers has stored the entries before row and col.                     *)
(***************************************************************************)
PolyEl == Poly \cup {Other, Hole}
IntEl == Int_(ListInts) \cup {Other, Hole}
OfPolys == {"matrix", "ideal"}
OfInts == {"intmat", "bigintmat"}

Basic == /\ currRing \in Rings \cup {NULL} /\ polys \in [Rings -> Nat] /\ mats \in Nat
         /\ op \in {"none"} \cup OfPolys \cup OfInts
Flags == leaked \in BOOLEAN /\ wild \in BOOLEAN

Idling == op = "none" => /\ rows = 0 /\ cols = 0 /\ row = 1 /\ col = 1 /\ i = 1
                         /\ r = NULL /\ mat = None /\ els = <<>>
Running == op # "none" =>
             /\ rows \in 1..MaxLen /\ cols \in 1..MaxLen
             /\ row \in 1..(rows + 1) /\ col \in 1..cols /\ (row = rows + 1 => col = 1)
             /\ obj = None /\ ~leaked /\ ~wild

PolysCall ==
  op \in OfPolys =>
    /\ els \in Seq(PolyEl) /\ Len(els) \in 1..MaxLen
    /\ i \in 1..(Len(els) + 1) /\ MATELEM(cols, row, col) = i
    /\ i = 1 => mat = None /\ r = NULL
    /\ i > 1 => /\ r \in Rings /\ DOMAIN mat = 1..(rows * cols)
                /\ \A k \in 1..(i - 1) : els[k] \in Poly /\ els[k].ring = r
                                         /\ mat[k] = els[k].v
                /\ \A k \in i..(rows * cols) : mat[k] = 0

Stored_(a, b) == /\ Len(els[a]) = cols /\ IntegerFits(op, els[a][b])
                 /\ mat[MATELEM(cols, a, b)] = els[a][b].v
Before(a, b) == a < row \/ (a = row /\ b < col)
IntsCall ==
  op \in OfInts =>
    /\ els \in Seq(Seq(IntEl)) /\ Len(els) = rows
    /\ i = 1 /\ r = NULL /\ DOMAIN mat = 1..(rows * cols)
    /\ op = "intmat" => \A k \in 1..(rows * cols) : mat[k] \in CInt
    /\ \A a \in 1..rows, b \in 1..cols : Before(a, b) => Stored_(a, b)

ObjOK ==
  obj # None =>
    /\ op = "none" /\ ~leaked /\ DOMAIN obj = {"type", "imm", "rows", "cols", "ring", "m"}
    /\ obj.type \in OfPolys \cup OfInts
    /\ obj.ring \in (IF obj.type \in OfPolys THEN Rings ELSE {NULL})
    /\ obj.rows \in 1..MaxLen /\ obj.cols \in 1..MaxLen
    /\ DOMAIN obj.m = 1..(obj.rows * obj.cols)
    /\ obj.type = "intmat" => \A k \in DOMAIN obj.m : obj.m[k] \in CInt

Copies ==
  ~leaked =>
    /\ \A q \in Rings :
         polys[q] = CopiesIn(q, mat, r)
                      + (IF obj = None THEN 0 ELSE CopiesIn(q, obj.m, obj.ring))
    /\ mats = (IF mat = None THEN 0 ELSE 1) + (IF obj = None THEN 0 ELSE 1)

LastOK ==
  /\ obj = None => last = None
  /\ last # None => /\ InRange(ToInt(last.row), ToInt(last.col))
                    /\ (obj.type = "intmat" => last.v \in CInt) =>
                         obj.m[Position(last.row, last.col)] = last.v

IInv == /\ Basic /\ Flags /\ Idling /\ Running /\ PolysCall /\ IntsCall
        /\ ObjOK /\ Copies /\ LastOK

LEMMA InitIInv == Init => IInv
<1>1. SUFFICES ASSUME Init PROVE IInv
  OBVIOUS
<1>2. Basic
  BY <1>1 DEF Init, Basic
<1>3. Flags
  BY <1>1 DEF Init, Flags
<1>4. Copies
  BY <1>1, RingsAssumption DEF Init, Copies, CopiesIn
<1>5. QED
  BY <1>1, <1>2, <1>3, <1>4 DEF Init, IInv, Idling, Running, PolysCall, IntsCall, ObjOK, LastOK,
     OfPolys, OfInts

(***************************************************************************)
(* A call begins.                                                          *)
(***************************************************************************)
LEMMA StartPolys ==
  ASSUME IInv, Ready, NEW o \in OfPolys, NEW l \in PolyLists, NEW m \in 1..MaxLen,
         NEW n \in 1..MaxLen, Start(o, l, m, n), UNCHANGED <<mats, mat>>
  PROVE  IInv'
<1>1. /\ op' = o /\ els' = l /\ rows' = m /\ cols' = n /\ i' = 1 /\ row' = 1 /\ col' = 1
      /\ r' = NULL /\ UNCHANGED <<currRing, obj, polys, last, mats, mat>>
  BY DEF Start
<1>2. op = "none" /\ obj = None /\ mat = None /\ r = NULL
  BY DEF Ready, IInv, Idling
<1>3. UNCHANGED <<leaked, wild>> /\ ~leaked /\ ~wild
  BY DEF Start, Ready
<1>4. l \in Seq(PolyEl) /\ Len(l) \in 1..MaxLen
  BY BoundsAssumption, ListsAreSeqs DEF PolyLists, PolyEl
<1>5. Basic'
  BY <1>1 DEF IInv, Basic
<1>6. Flags'
  BY <1>3 DEF IInv, Flags
<1>7. Running'
  BY <1>1, <1>2, <1>3, BoundsAssumption DEF Running
<1>8. PolysCall'
  <2>1. MATELEM(n, 1, 1) = 1
    BY BoundsAssumption, PlaceNext
  <2>2. QED
    BY <1>1, <1>2, <1>4, <2>1, BoundsAssumption DEF PolysCall
<1>9. Copies'
  BY <1>1, <1>2, <1>3 DEF IInv, Copies, CopiesIn
<1>10. QED
  BY <1>1, <1>2, <1>5, <1>6, <1>7, <1>8, <1>9
     DEF IInv, Idling, IntsCall, ObjOK, LastOK, OfPolys, OfInts

LEMMA StartInts ==
  ASSUME IInv, Ready, NEW o \in OfInts, NEW l \in Lists(IntLists, MaxDim), SI_intmat(o, l)
  PROVE  IInv'
<1> DEFINE m == Len(l)
           n == Len(l[1])
<1>1. /\ op' = o /\ els' = l /\ rows' = m /\ cols' = n /\ i' = 1 /\ row' = 1 /\ col' = 1
      /\ r' = NULL /\ UNCHANGED <<currRing, obj, polys, last>>
      /\ mat' = Zeros(m, n) /\ mats' = mats + 1
  BY DEF SI_intmat, Start
<1>2. op = "none" /\ obj = None /\ mat = None /\ r = NULL
  BY DEF Ready, IInv, Idling
<1>3. UNCHANGED <<leaked, wild>> /\ ~leaked /\ ~wild
  BY DEF SI_intmat, Start, Ready
<1>4. IntLists \subseteq Seq(IntEl) /\ \A x \in IntLists : Len(x) \in 1..MaxDim
  BY BoundsAssumption, ListsAreSeqs DEF IntLists, IntEl
<1>5. l \in Seq(IntLists) /\ m \in 1..MaxDim
  BY BoundsAssumption, ListsAreSeqs
<1>6. l \in Seq(Seq(IntEl)) /\ n \in 1..MaxDim
  <2>1. l[1] \in IntLists
    BY <1>5
  <2>2. QED
    BY <1>4, <1>5, <2>1
<1>7. m \in 1..MaxLen /\ n \in 1..MaxLen
  BY <1>5, <1>6, BoundsAssumption
<1> HIDE DEF m, n
<1>8. Basic'
  BY <1>1 DEF IInv, Basic
<1>9. Flags'
  BY <1>3 DEF IInv, Flags
<1>10. Running'
  BY <1>1, <1>2, <1>3, <1>7 DEF Running
<1>11. DOMAIN mat' = 1..(m * n) /\ \A k \in 1..(m * n) : mat'[k] = 0
  BY <1>1 DEF Zeros
<1>12. IntsCall'
  <2>1. 0 \in CInt
    BY WidthAssumption DEF CInt
  <2>2. \A a \in 1..m, b \in 1..n : ~Before(a, b)'
    BY <1>1, <1>7 DEF Before
  <2>3. Len(l) = m
    BY DEF m
  <2>4. QED
    BY <1>1, <1>6, <1>11, <2>1, <2>2, <2>3 DEF IntsCall
<1>13. Copies'
  <2>1. mat' # None
    <3>1. m \in Nat \ {0} /\ n \in Nat \ {0}
      BY <1>7
    <3>2. QED
      BY <1>11, <3>1, IsMatrix
  <2>2. mats' = 1
    BY <1>1, <1>2, <1>3 DEF IInv, Copies
  <2>3. \A q \in Rings : polys[q] = 0
    BY <1>2, <1>3, RingsAssumption DEF IInv, Copies, CopiesIn
  <2>4. QED
    BY <1>1, <1>2, <2>1, <2>2, <2>3, RingsAssumption DEF Copies, CopiesIn
<1>14. QED
  BY <1>1, <1>2, <1>8, <1>9, <1>10, <1>12, <1>13
     DEF IInv, Idling, PolysCall, ObjOK, LastOK, OfPolys, OfInts

(***************************************************************************)
(* A call ends without a matrix.                                           *)
(***************************************************************************)
LEMMA RunningFacts ==
  ASSUME IInv, op # "none"
  PROVE  /\ rows \in 1..MaxLen /\ cols \in 1..MaxLen /\ rows \in Nat \ {0} /\ cols \in Nat \ {0}
         /\ row \in 1..(rows + 1) /\ col \in 1..cols /\ (row = rows + 1 => col = 1)
         /\ obj = None /\ ~leaked /\ ~wild /\ last = None
         /\ op \in OfPolys \cup OfInts
         /\ r = NULL \/ (r \in Rings /\ r # NULL)
         /\ mat = None => r = NULL
         /\ mat # None => DOMAIN mat = 1..(rows * cols) /\ NotZero(mat) \in Nat
         /\ \A q \in Rings : polys[q] = CopiesIn(q, mat, r)
         /\ mats = IF mat = None THEN 0 ELSE 1
<1>1. /\ rows \in 1..MaxLen /\ cols \in 1..MaxLen
      /\ row \in 1..(rows + 1) /\ col \in 1..cols /\ (row = rows + 1 => col = 1)
      /\ obj = None /\ ~leaked /\ ~wild
  BY DEF IInv, Running
<1>2. last = None
  BY <1>1 DEF IInv, LastOK
<1>3. op \in OfPolys \cup OfInts
  BY DEF IInv, Basic
<1>4. rows \in Nat \ {0} /\ cols \in Nat \ {0}
  BY <1>1, BoundsAssumption
<1>5. mat # None => NotZero(mat) \in Nat \/ DOMAIN mat # 1..(rows * cols)
  <2>1. rows * cols \in Nat
    BY <1>4, NotEmpty
  <2>2. QED
    BY <2>1, SupportFinite
<1>6. CASE op \in OfPolys
  <2>1. i = 1 \/ i > 1
    BY <1>6 DEF IInv, PolysCall
  <2>4. /\ r = NULL \/ (r \in Rings /\ r # NULL)
        /\ mat # None => DOMAIN mat = 1..(rows * cols)
        /\ mat = None => r = NULL
    <3>1. CASE i = 1
      BY <1>6, <3>1 DEF IInv, PolysCall
    <3>2. CASE i > 1
      <4>1. r \in Rings /\ DOMAIN mat = 1..(rows * cols)
        BY <1>6, <3>2 DEF IInv, PolysCall
      <4>2. QED
        BY <1>4, <4>1, IsMatrix, RingsAssumption
    <3>3. QED
      BY <2>1, <3>1, <3>2
  <2>5. QED
    BY <1>1, <1>2, <1>3, <1>4, <1>5, <2>4, RingsAssumption DEF IInv, Copies, CopiesIn
<1>7. CASE op \in OfInts
  <2>1. r = NULL /\ DOMAIN mat = 1..(rows * cols)
    BY <1>7 DEF IInv, IntsCall
  <2>2. mat # None
    BY <1>4, <2>1, IsMatrix
  <2>3. QED
    BY <1>1, <1>2, <1>3, <1>4, <1>5, <2>1, <2>2, RingsAssumption DEF IInv, Copies, CopiesIn
<1>8. QED
  BY <1>3, <1>6, <1>7

LEMMA IdleInv ==
  ASSUME IInv, Idle, UNCHANGED <<currRing, last>>, obj' = None, last = None,
         polys' \in [Rings -> Nat], mats' \in Nat, Flags',
         leaked' \/ (mats' = 0 /\ \A q \in Rings : polys'[q] = 0)
  PROVE  IInv'
<1>1. /\ op' = "none" /\ els' = <<>> /\ rows' = 0 /\ cols' = 0
      /\ i' = 1 /\ row' = 1 /\ col' = 1 /\ r' = NULL /\ mat' = None
  BY DEF Idle
<1>2. Basic'
  BY <1>1 DEF IInv, Basic
<1>3. Copies'
  BY <1>1, RingsAssumption DEF Copies, CopiesIn
<1>4. QED
  BY <1>1, <1>2, <1>3 DEF IInv, Idling, Running, PolysCall, IntsCall, ObjOK, LastOK,
     OfPolys, OfInts

LEMMA RefuseStep ==
  ASSUME IInv, op # "none", Refuse
  PROVE  IInv'
<1>1. /\ polys' = DeleteCopies /\ mats' = IF mat = None THEN mats ELSE mats - 1
      /\ Idle /\ UNCHANGED <<currRing, obj, last>>
  BY DEF Refuse
<1>2. Flags'
  BY DEF Refuse, IInv, Flags
<1>3. polys \in [Rings -> Nat]
  BY DEF IInv, Basic
<1>4. mats' = 0
  BY <1>1, RunningFacts
<1>5. \A q \in Rings : polys[q] = CopiesIn(q, mat, r)
  BY RunningFacts
<1>6. polys' \in [Rings -> Nat] /\ \A q \in Rings : polys'[q] = 0
  <2>1. CASE r = NULL
    BY <1>1, <1>3, <1>5, <2>1, RingsAssumption DEF DeleteCopies, CopiesIn
  <2>2. CASE r # NULL
    <3>1. r \in Rings /\ mat # None /\ NotZero(mat) \in Nat
      BY <2>2, RunningFacts
    <3>2. polys' = [polys EXCEPT ![r] = @ - NotZero(mat)]
      BY <1>1, <2>2, <3>1 DEF DeleteCopies
    <3>3. polys[r] = NotZero(mat) /\ \A q \in Rings : q # r => polys[q] = 0
      BY <1>5, <3>1 DEF CopiesIn
    <3>4. QED
      BY <1>3, <3>1, <3>2, <3>3
  <2>3. QED
    BY <2>1, <2>2
<1>7. QED
  BY <1>1, <1>2, <1>4, <1>6, IdleInv, RunningFacts

LEMMA ErrorStep ==
  ASSUME IInv, op # "none", ErrorInGap
  PROVE  IInv'
<1>1. /\ Idle /\ UNCHANGED <<currRing, obj, polys, mats, last>>
  BY DEF ErrorInGap
<1>2. leaked' = (leaked \/ mat # None) /\ wild' = wild
  BY DEF ErrorInGap
<1>3. Flags'
  BY <1>2 DEF IInv, Flags
<1>4. polys' \in [Rings -> Nat] /\ mats' \in Nat
  BY <1>1 DEF IInv, Basic
<1>5. leaked' \/ (mats' = 0 /\ \A q \in Rings : polys'[q] = 0)
  <2>1. CASE mat = None
    <3>1. r = NULL /\ mats = 0 /\ \A q \in Rings : polys[q] = CopiesIn(q, mat, r)
      BY <2>1, RunningFacts
    <3>2. QED
      BY <1>1, <3>1, RingsAssumption DEF CopiesIn
  <2>2. CASE mat # None
    BY <1>2, <2>2
  <2>3. QED
    BY <2>1, <2>2
<1>6. QED
  BY <1>1, <1>3, <1>4, <1>5, IdleInv, RunningFacts

(***************************************************************************)
(* The next place is the next one row by row.                              *)
(***************************************************************************)
LEMMA NextPlaceRight ==
  ASSUME IInv, op # "none", row <= rows, NextPlace, UNCHANGED <<rows, cols>>
  PROVE  /\ MATELEM(cols, row, col) \in 1..(rows * cols)
         /\ MATELEM(cols', row', col') = MATELEM(cols, row, col) + 1
         /\ row' \in 1..(rows + 1) /\ col' \in 1..cols /\ (row' = rows + 1 => col' = 1)
         /\ \A a \in 1..rows, b \in 1..cols :
              Before(a, b)' <=> Before(a, b) \/ (a = row /\ b = col)
<1>1. /\ rows \in Nat \ {0} /\ cols \in Nat \ {0} /\ row \in 1..rows /\ col \in 1..cols
      /\ cols \in Nat /\ row \in Int /\ col \in Int
  BY RunningFacts
<1>2. MATELEM(cols, row, col) \in 1..(rows * cols)
  BY <1>1, PlaceRange
<1>3. CASE col = cols
  <2>1. row' = row + 1 /\ col' = 1
    BY <1>1, <1>3 DEF NextPlace
  <2>2. MATELEM(cols, row + 1, 1) = MATELEM(cols, row, col) + 1
    BY <1>1, <1>3, PlaceNext
  <2>3. \A a \in 1..rows, b \in 1..cols :
          Before(a, b)' <=> Before(a, b) \/ (a = row /\ b = col)
    BY <1>1, <1>3, <2>1 DEF Before
  <2>4. QED
    BY <1>1, <1>2, <2>1, <2>2, <2>3
<1>4. CASE col # cols
  <2>1. row' = row /\ col' = col + 1 /\ col' \in 1..cols
    BY <1>1, <1>4 DEF NextPlace
  <2>2. MATELEM(cols, row, col + 1) = MATELEM(cols, row, col) + 1
    BY <1>1, PlaceNext
  <2>3. \A a \in 1..rows, b \in 1..cols :
          Before(a, b)' <=> Before(a, b) \/ (a = row /\ b = col)
    BY <1>1, <2>1 DEF Before
  <2>4. QED
    BY <1>1, <1>2, <2>1, <2>2, <2>3
<1>5. QED
  BY <1>3, <1>4

(***************************************************************************)
(* A step that stores the polynomial v of the ring q in a matrix whose     *)
(* entries from i on are 0.                                                *)
(***************************************************************************)
Stores(e, v, q, entries) ==
  /\ op \in OfPolys /\ i <= Len(els) /\ row <= rows
  /\ e \in Poly /\ e = els[i] /\ q \in Rings /\ q = e.ring /\ v = e.v
  /\ DOMAIN entries = 1..(rows * cols)
  /\ \A k \in 1..(i - 1) : els[k] \in Poly /\ els[k].ring = q /\ entries[k] = els[k].v
  /\ \A k \in i..(rows * cols) : entries[k] = 0
  /\ Place(entries, v) /\ NextPlace /\ i' = i + 1 /\ r' = q
  /\ polys' = [polys EXCEPT ![q] = @ + NotZero(<<v>>)]
  /\ polys[q] = NotZero(entries) /\ \A s \in Rings : s # q => polys[s] = 0
  /\ mats' = 1 /\ currRing' \in Rings \cup {NULL}
  /\ UNCHANGED <<obj, op, els, rows, cols, last>>

LEMMA PolyStored ==
  ASSUME IInv, NEW e, NEW v, NEW q, NEW entries, Stores(e, v, q, entries),
         UNCHANGED <<leaked, wild>>
  PROVE  IInv'
<1>0. /\ op \in OfPolys /\ op # "none" /\ op \notin OfInts /\ i <= Len(els) /\ row <= rows
      /\ e \in Poly /\ e = els[i] /\ q \in Rings /\ q = e.ring /\ v = e.v /\ NextPlace
      /\ i' = i + 1 /\ r' = q /\ UNCHANGED <<obj, op, els, rows, cols, last>>
      /\ DOMAIN entries = 1..(rows * cols)
  BY DEF Stores, OfPolys, OfInts
<1>1. /\ rows \in Nat \ {0} /\ cols \in Nat \ {0}
      /\ obj = None /\ ~leaked /\ ~wild /\ last = None
      /\ rows \in 1..MaxLen /\ cols \in 1..MaxLen
  BY <1>0, RunningFacts
<1>2. /\ els \in Seq(PolyEl) /\ Len(els) \in 1..MaxLen /\ i \in 1..Len(els)
      /\ MATELEM(cols, row, col) = i /\ i \in Int
  BY <1>0 DEF IInv, PolysCall
<1>3. /\ i \in 1..(rows * cols) /\ MATELEM(cols', row', col') = i + 1
      /\ row' \in 1..(rows + 1) /\ col' \in 1..cols /\ (row' = rows + 1 => col' = 1)
  BY <1>0, <1>1, <1>2, NextPlaceRight
<1>4. mat' = [entries EXCEPT ![i] = v]
  BY <1>2 DEF Stores, Place
<1>5. rows * cols \in Nat
  BY <1>1, NotEmpty
<1>6. /\ DOMAIN mat' = 1..(rows * cols)
      /\ NotZero(mat') = NotZero(entries) - NotZero(<<entries[i]>>) + NotZero(<<v>>)
  <2>1. PICK N \in Nat : N = rows * cols
    BY <1>5
  <2>2. /\ DOMAIN entries = 1..N /\ i \in 1..N /\ DOMAIN mat' = 1..N /\ mat'[i] = v
        /\ \A l \in 1..N : l # i => mat'[l] = entries[l]
    BY <1>0, <1>3, <1>4, <2>1
  <2>3. Updated(mat', entries, N, i, v)
    BY <2>2 DEF Updated
  <2>4. NotZero(mat') = NotZero(entries) - NotZero(<<entries[i]>>) + NotZero(<<v>>)
    BY <2>3, NotZeroUpdated
  <2>5. QED
    BY <2>1, <2>2, <2>4
<1>7. mat'[i] = v /\ \A k \in 1..(rows * cols) : k # i => mat'[k] = entries[k]
  BY <1>0, <1>3, <1>4
<1>8. Flags'
  BY DEF IInv, Flags
<1>9. NotZero(<<entries[i]>>) = 0 /\ NotZero(<<v>>) \in Nat /\ NotZero(entries) \in Nat
  <2>1. entries[i] = 0
    BY <1>3 DEF Stores
  <2>2. QED
    BY <1>0, <1>5, <2>1, NotZeroOne, SupportFinite
<1>10. polys' \in [Rings -> Nat] /\ polys'[q] = NotZero(mat')
       /\ \A s \in Rings : s # q => polys'[s] = 0
  <2>1. polys \in [Rings -> Nat]
    BY DEF IInv, Basic
  <2>2. /\ polys' = [polys EXCEPT ![q] = @ + NotZero(<<v>>)]
        /\ polys[q] = NotZero(entries) /\ \A s \in Rings : s # q => polys[s] = 0
    BY DEF Stores
  <2>3. QED
    BY <1>0, <1>6, <1>9, <2>1, <2>2
<1>11. Basic'
  <2>1. mats' = 1 /\ currRing' \in Rings \cup {NULL}
    BY DEF Stores
  <2>2. QED
    BY <1>0, <1>10, <2>1 DEF IInv, Basic
<1>12. Running'
  BY <1>0, <1>1, <1>3 DEF Running
<1>13. PolysCall'
  <2>1. \A k \in 1..i : els[k] \in Poly /\ els[k].ring = q /\ mat'[k] = els[k].v
    <3>1. SUFFICES ASSUME NEW k \in 1..i
                   PROVE  els[k] \in Poly /\ els[k].ring = q /\ mat'[k] = els[k].v
      OBVIOUS
    <3>2. CASE k = i
      BY <1>0, <1>7, <3>2
    <3>3. CASE k # i
      <4>1. k \in 1..(i - 1) /\ k \in 1..(rows * cols)
        BY <1>2, <1>3, <1>5, <3>3
      <4>2. els[k] \in Poly /\ els[k].ring = q /\ entries[k] = els[k].v
        BY <4>1 DEF Stores
      <4>3. QED
        BY <1>7, <3>3, <4>1, <4>2
    <3>4. QED
      BY <3>2, <3>3
  <2>2. \A k \in (i + 1)..(rows * cols) : mat'[k] = 0
    <3>1. SUFFICES ASSUME NEW k \in (i + 1)..(rows * cols) PROVE mat'[k] = 0
      OBVIOUS
    <3>2. k \in i..(rows * cols) /\ k \in 1..(rows * cols) /\ k # i
      BY <1>2, <1>5
    <3>3. entries[k] = 0
      BY <3>2 DEF Stores
    <3>4. QED
      BY <1>7, <3>2, <3>3
  <2>3. i' - 1 = i /\ i' \in 1..(Len(els) + 1) /\ i' # 1
    BY <1>0, <1>2
  <2>4. QED
    BY <1>0, <1>2, <1>3, <1>6, <2>1, <2>2, <2>3 DEF PolysCall
<1>14. Copies'
  <2>1. mat' # None
    BY <1>1, <1>6, IsMatrix
  <2>2. mats' = 1
    BY DEF Stores
  <2>3. QED
    BY <1>0, <1>1, <1>10, <2>1, <2>2, RingsAssumption DEF Copies, CopiesIn
<1>15. QED
  BY <1>0, <1>1, <1>8, <1>11, <1>12, <1>13, <1>14 DEF IInv, Idling, IntsCall, ObjOK, LastOK

LEMMA FillPolyStep ==
  ASSUME IInv, FillPoly
  PROVE  IInv'
<1> DEFINE e == els[i]
<1>1. op \in OfPolys /\ op # "none" /\ i <= Len(els) /\ row <= rows
  BY DEF FillPoly, OfPolys
<1>2. /\ els \in Seq(PolyEl) /\ i \in 1..Len(els) /\ i \in Int
      /\ MATELEM(cols, row, col) = i
  BY <1>1 DEF IInv, PolysCall
<1>3. rows \in Nat \ {0} /\ cols \in Nat \ {0} /\ rows * cols \in Nat
  BY <1>1, RunningFacts, NotEmpty
<1>4. CASE e = Hole /\ ErrorInGap
  BY <1>1, <1>4, ErrorStep
<1>5. CASE Refuse
  BY <1>1, <1>5, RefuseStep
<1>6. ASSUME e \in Poly, i > 1, SameRing(e), Place(mat, e.v), NextPlace, i' = i + 1,
             polys' = [polys EXCEPT ![r] = @ + NotZero(<<e.v>>)],
             UNCHANGED <<currRing, obj, mats, op, els, rows, cols, r, last, leaked, wild>>
      PROVE  IInv'
  <2>1. /\ r \in Rings /\ DOMAIN mat = 1..(rows * cols)
        /\ \A k \in 1..(i - 1) : els[k] \in Poly /\ els[k].ring = r /\ mat[k] = els[k].v
        /\ \A k \in i..(rows * cols) : mat[k] = 0
    BY <1>1, <1>6 DEF IInv, PolysCall
  <2>2. mat # None /\ mats' = 1
    BY <1>1, <1>3, <1>6, <2>1, IsMatrix, RunningFacts
  <2>3. polys[r] = NotZero(mat) /\ \A q \in Rings : q # r => polys[q] = 0
    <3>1. \A q \in Rings : polys[q] = CopiesIn(q, mat, r)
      BY <1>1, RunningFacts
    <3>2. QED
      BY <2>1, <3>1 DEF CopiesIn
  <2>4. r = e.ring /\ currRing' \in Rings \cup {NULL} /\ r' = r
    BY <1>6 DEF SameRing, IInv, Basic
  <2>5. UNCHANGED <<obj, op, els, rows, cols, last, leaked, wild>>
    BY <1>6
  <2>6. Stores(e, e.v, r, mat)
    BY <1>1, <1>6, <2>1, <2>2, <2>3, <2>4, <2>5 DEF Stores
  <2>7. QED
    BY <2>5, <2>6, PolyStored
<1>7. ASSUME e \in Poly, i = 1, r' = e.ring, currRing' = e.ring,
             Place(Zeros(rows, cols), e.v), mats' = mats + 1, NextPlace, i' = i + 1,
             polys' = [polys EXCEPT ![e.ring] = @ + NotZero(<<e.v>>)],
             UNCHANGED <<obj, op, els, rows, cols, last, leaked, wild>>
      PROVE  IInv'
  <2>1. mat = None /\ r = NULL
    BY <1>1, <1>7 DEF IInv, PolysCall
  <2>2. mats' = 1 /\ \A q \in Rings : polys[q] = 0
    <3>1. mats = 0 /\ \A q \in Rings : polys[q] = CopiesIn(q, mat, r)
      BY <1>1, <2>1, RunningFacts
    <3>2. QED
      BY <1>7, <2>1, <3>1, RingsAssumption DEF CopiesIn
  <2>3. PICK z : z = Zeros(rows, cols)
    OBVIOUS
  <2>4. /\ DOMAIN z = 1..(rows * cols) /\ NotZero(z) = 0
        /\ \A k \in i..(rows * cols) : z[k] = 0
    BY <1>7, <2>3, NotZeroZeros DEF Zeros
  <2>5. e.ring \in Rings /\ Place(z, e.v)
    BY <1>7, <2>3 DEF Poly
  <2>6. \A k \in 1..(i - 1) : els[k] \in Poly /\ els[k].ring = e.ring /\ z[k] = els[k].v
    BY <1>7
  <2>7. polys[e.ring] = NotZero(z) /\ currRing' \in Rings \cup {NULL}
    BY <1>7, <2>2, <2>4, <2>5
  <2>8. Stores(e, e.v, e.ring, z)
    BY <1>1, <1>7, <2>2, <2>4, <2>5, <2>6, <2>7 DEF Stores
  <2>9. QED
    BY <1>7, <2>8, PolyStored
<1>8. QED
  BY <1>4, <1>5, <1>6, <1>7 DEF FillPoly

LEMMA FillIntStep ==
  ASSUME IInv, FillInt
  PROVE  IInv'
<1>1. op \in OfInts /\ op # "none" /\ op \notin OfPolys /\ row <= rows
  BY DEF FillInt, OfInts, OfPolys
<1>2. /\ rows \in Nat \ {0} /\ cols \in Nat \ {0} /\ rows \in 1..MaxLen /\ cols \in 1..MaxLen
      /\ obj = None /\ ~leaked /\ ~wild /\ last = None
      /\ row \in 1..rows /\ col \in 1..cols
  BY <1>1, RunningFacts
<1>3. PICK therow : therow = els[row]
  OBVIOUS
<1>4. PICK e : e = therow[col]
  OBVIOUS
<1>5. CASE Refuse
  BY <1>1, <1>5, RefuseStep
<1>6. CASE ErrorInGap
  BY <1>1, <1>6, ErrorStep
<1>7. ASSUME Len(therow) = cols, IntegerFits(op, e),
             Place(mat, IF op = "intmat" THEN ToInt(e.v) ELSE e.v), NextPlace,
             UNCHANGED <<currRing, obj, polys, mats, op, els, rows, cols,
                         i, r, last, leaked, wild>>
      PROVE  IInv'
  <2>0. UNCHANGED <<currRing, obj, polys, mats, op, els, rows, cols, i, r, last, leaked, wild>>
    BY <1>7
  <2>1. PICK k : k = MATELEM(cols, row, col)
    OBVIOUS
  <2>2. /\ k \in 1..(rows * cols) /\ row' \in 1..(rows + 1) /\ col' \in 1..cols
        /\ row' = rows + 1 => col' = 1
        /\ \A a \in 1..rows, b \in 1..cols :
             Before(a, b)' <=> Before(a, b) \/ (a = row /\ b = col)
    BY <1>1, <1>2, <1>7, <2>0, <2>1, NextPlaceRight
  <2>3. PICK v : v = e.v
    OBVIOUS
  <2>4. op = "intmat" => v \in CInt
    BY <1>7, <2>3 DEF IntegerFits
  <2>5. mat' = [mat EXCEPT ![k] = v]
    <3>1. (IF op = "intmat" THEN ToInt(v) ELSE v) = v
      BY <2>4, ToIntSame
    <3>2. QED
      BY <1>7, <2>1, <2>3, <3>1 DEF Place
  <2>6. DOMAIN mat = 1..(rows * cols) /\ i = 1 /\ r = NULL /\ els \in Seq(Seq(IntEl))
        /\ Len(els) = rows
    BY <1>1 DEF IInv, IntsCall
  <2>7. /\ DOMAIN mat' = 1..(rows * cols) /\ mat'[k] = v
        /\ \A x \in 1..(rows * cols) : x # k => mat'[x] = mat[x]
    BY <2>2, <2>5, <2>6
  <2>8. op = "intmat" => \A x \in 1..(rows * cols) : mat'[x] \in CInt
    BY <1>1, <2>4, <2>7 DEF IInv, IntsCall
  <2>9. \A a \in 1..rows, b \in 1..cols : Before(a, b)' => Stored_(a, b)'
    <3>1. SUFFICES ASSUME NEW a \in 1..rows, NEW b \in 1..cols, Before(a, b)'
                   PROVE  Stored_(a, b)'
      OBVIOUS
    <3>2. CASE a = row /\ b = col
      BY <1>3, <1>4, <1>7, <2>0, <2>1, <2>3, <2>7, <3>2 DEF Stored_
    <3>3. ASSUME ~(a = row /\ b = col) PROVE Stored_(a, b)'
      <4>1. Before(a, b)
        BY <2>2, <3>1, <3>3
      <4>2. Stored_(a, b)
        BY <1>1, <4>1 DEF IInv, IntsCall
      <4>3. MATELEM(cols, a, b) \in 1..(rows * cols)
        BY <1>2, PlaceRange
      <4>4. MATELEM(cols, a, b) # k
        <5>1. a \in Int /\ row \in Int
          BY <1>2
        <5>2. QED
          BY <1>2, <2>1, <3>3, <5>1, PlaceUnique
      <4>5. mat'[MATELEM(cols, a, b)] = mat[MATELEM(cols, a, b)]
        BY <2>7, <4>3, <4>4
      <4>6. QED
        BY <2>0, <4>2, <4>5 DEF Stored_, MATELEM
    <3>4. QED
      BY <3>2, <3>3
  <2>10. Basic' /\ Flags'
    BY <2>0 DEF IInv, Basic, Flags
  <2>11. Running'
    BY <1>2, <2>0, <2>2 DEF Running
  <2>12. IntsCall'
    BY <2>0, <2>6, <2>7, <2>8, <2>9 DEF IntsCall
  <2>13. Copies'
    <3>1. mat # None /\ mat' # None
      BY <1>2, <2>6, <2>7, IsMatrix
    <3>2. QED
      BY <1>2, <2>0, <2>6, <3>1, RingsAssumption DEF IInv, Copies, CopiesIn
  <2>14. QED
    BY <1>1, <1>2, <2>0, <2>10, <2>11, <2>12, <2>13
       DEF IInv, Idling, PolysCall, ObjOK, LastOK
<1>8. QED
  BY <1>3, <1>4, <1>5, <1>6, <1>7 DEF FillInt

(***************************************************************************)
(* The matrix goes to GAP.                                                 *)
(***************************************************************************)
LEMMA MadeFacts ==
  ASSUME IInv, Made
  PROVE  /\ op \in OfPolys \cup OfInts
         /\ DOMAIN mat = 1..(rows * cols) /\ mat # None /\ last = None
         /\ r \in (IF op \in OfPolys THEN Rings ELSE {NULL})
         /\ op \in OfPolys => i > 1
         /\ op \in OfInts => row = rows + 1
<1>1. op \in OfPolys \cup OfInts /\ op # "none"
  BY DEF IInv, Basic, Made
<1>2. /\ rows \in Nat \ {0} /\ cols \in Nat \ {0} /\ last = None
      /\ rows \in 1..MaxLen /\ row \in 1..(rows + 1)
  BY <1>1, RunningFacts DEF IInv, Running
<1>3. CASE op \in OfPolys
  <2>1. Len(els) \in 1..MaxLen /\ i \in 1..(Len(els) + 1) /\ MATELEM(cols, row, col) = i
    BY <1>3 DEF IInv, PolysCall
  <2>2. i > 1
    <3>1. CASE i > Len(els)
      BY <2>1, <3>1
    <3>2. ASSUME row > rows PROVE i > 1
      <4>1. row = rows + 1 /\ col = 1
        BY <1>1, <1>2, <3>2 DEF IInv, Running
      <4>2. MATELEM(cols, rows + 1, 1) = rows * cols + 1
        <5>1. cols \in Nat /\ rows \in Int /\ 1 \in Int
          BY <1>2
        <5>2. QED
          BY <5>1, PlaceNext
      <4>3. rows * cols \in Nat /\ 1 \in 1..(rows * cols)
        BY <1>2, NotEmpty
      <4>4. QED
        BY <2>1, <4>1, <4>2, <4>3
    <3>3. QED
      BY <3>1, <3>2 DEF Made
  <2>3. r \in Rings /\ DOMAIN mat = 1..(rows * cols)
    BY <1>3, <2>2 DEF IInv, PolysCall
  <2>4. QED
    BY <1>2, <1>3, <2>2, <2>3, IsMatrix DEF OfPolys, OfInts
<1>4. CASE op \in OfInts
  <2>1. r = NULL /\ DOMAIN mat = 1..(rows * cols)
    BY <1>4 DEF IInv, IntsCall
  <2>2. row = rows + 1
    BY <1>2, <1>4 DEF Made, OfInts
  <2>3. QED
    BY <1>1, <1>2, <1>4, <2>1, <2>2, IsMatrix DEF OfPolys, OfInts
<1>5. QED
  BY <1>1, <1>3, <1>4

LEMMA MadeStep ==
  ASSUME IInv, Made
  PROVE  IInv'
<1>1. /\ op' = "none" /\ els' = <<>> /\ rows' = 0 /\ cols' = 0
      /\ i' = 1 /\ row' = 1 /\ col' = 1 /\ r' = NULL /\ mat' = None
      /\ UNCHANGED <<currRing, polys, mats, last, leaked, wild>>
      /\ obj' = [type |-> op, imm |-> FALSE, rows |-> rows, cols |-> cols,
                 ring |-> r, m |-> mat]
  BY DEF Made, Idle
<1>2. /\ op \in OfPolys \cup OfInts /\ op # "none"
      /\ DOMAIN mat = 1..(rows * cols) /\ mat # None /\ last = None
      /\ r \in (IF op \in OfPolys THEN Rings ELSE {NULL})
  BY MadeFacts DEF Made
<1>3. obj = None /\ ~leaked /\ rows \in 1..MaxLen /\ cols \in 1..MaxLen
  BY <1>2, RunningFacts
<1>4. obj' # None
  <2>1. DOMAIN obj' # DOMAIN None
    BY <1>1 DEF None
  <2>2. QED
    BY <2>1
<1>5. ObjOK'
  <2>1. op = "intmat" => \A k \in 1..(rows * cols) : mat[k] \in CInt
    BY DEF IInv, IntsCall, OfInts
  <2>2. QED
    BY <1>1, <1>2, <1>3, <2>1 DEF ObjOK
<1>6. Basic' /\ Flags'
  BY <1>1 DEF IInv, Basic, Flags
<1>7. Copies'
  <2>1. /\ \A q \in Rings : polys[q] = CopiesIn(q, mat, r)
        /\ mats = 1
    BY <1>2, <1>3, RunningFacts
  <2>2. obj'.m = mat /\ obj'.ring = r
    BY <1>1
  <2>3. \A q \in Rings : CopiesIn(q, mat', r') = 0
    BY <1>1, RingsAssumption DEF CopiesIn
  <2>4. \A q \in Rings : CopiesIn(q, mat, r) \in Nat
    <3>1. rows * cols \in Nat
      BY <1>2, RunningFacts, NotEmpty
    <3>2. NotZero(mat) \in Nat
      BY <1>2, <3>1, SupportFinite
    <3>3. QED
      BY <3>2 DEF CopiesIn
  <2>5. \A q \in Rings : CopiesIn(q, obj'.m, obj'.ring) = CopiesIn(q, mat, r)
    BY <2>2
  <2>6. \A q \in Rings : polys'[q] = CopiesIn(q, mat', r') + CopiesIn(q, obj'.m, obj'.ring)
    BY <1>1, <2>1, <2>3, <2>4, <2>5
  <2>7. QED
    BY <1>1, <1>4, <2>1, <2>6 DEF Copies, CopiesIn
<1>8. QED
  BY <1>1, <1>2, <1>4, <1>5, <1>6, <1>7
     DEF IInv, Idling, Running, PolysCall, IntsCall, LastOK, OfPolys, OfInts

(***************************************************************************)
(* An entry is replaced.                                                   *)
(***************************************************************************)
LEMMA SetMatElmStep ==
  ASSUME IInv, ~wild, op = "none", obj # None, NEW x, NEW y,
         NEW e \in Poly \cup Int_(SetInts), SI_SetMatElm(x, y, e)
  PROVE  IInv'
<1>1. PICK k : k = Position(x, y)
  OBVIOUS
<1>2. PICK m : m = obj'.m
  OBVIOUS
<1>3. /\ ToInt(x) \in 1..obj.rows /\ ToInt(y) \in 1..obj.cols /\ obj.type # "ideal"
      /\ UNCHANGED <<currRing, mats, leaked>> /\ UNCHANGED call
      /\ last' = [row |-> x, col |-> y, v |-> e.v]
  BY DEF SI_SetMatElm, InRange
<1>4. UNCHANGED <<op, els, rows, cols, i, row, col, r, mat>>
  BY <1>3 DEF call
<1>5. /\ DOMAIN obj = {"type", "imm", "rows", "cols", "ring", "m"}
      /\ obj.rows \in 1..MaxLen /\ obj.cols \in 1..MaxLen
      /\ obj.rows \in Nat \ {0} /\ obj.cols \in Nat \ {0}
      /\ DOMAIN obj.m = 1..(obj.rows * obj.cols)
      /\ obj.ring \in (IF obj.type \in OfPolys THEN Rings ELSE {NULL})
      /\ obj.type = "intmat" => \A l \in DOMAIN obj.m : obj.m[l] \in CInt
      /\ obj.type \in OfPolys \cup OfInts
  BY BoundsAssumption DEF IInv, ObjOK
<1>6. PICK N \in Nat : N = obj.rows * obj.cols
  BY <1>5, NotEmpty
<1>7. k \in 1..N
  BY <1>1, <1>3, <1>5, <1>6, PlaceRange DEF Position
<1>8. mat = None /\ r = NULL
  BY DEF IInv, Idling
<1>9. polys \in [Rings -> Nat]
  BY DEF IInv, Basic
<1>10. NotZero(obj.m) \in Nat
  BY <1>5, <1>6, SupportFinite
<1>11. PICK v : /\ obj' = [obj EXCEPT !.m[k] = v]
                /\ v = IF obj.type = "intmat" THEN ToInt(e.v) ELSE e.v
                /\ obj.type = "intmat" => e.v \in Int
                /\ obj.type = "matrix" =>
                     polys' = [polys EXCEPT ![obj.ring] =
                                 @ - NotZero(<<obj.m[k]>>) + NotZero(<<v>>)]
                /\ obj.type # "matrix" => polys' = polys
                /\ wild' \in BOOLEAN
  <2>1. CASE /\ obj.type \in {"intmat", "bigintmat"} /\ e.t = "int"
             /\ obj' = [obj EXCEPT !.m[k] = Stored(e.v)] /\ UNCHANGED <<polys, wild>>
    <3>1. e \in Int_(SetInts)
      BY <2>1 DEF Poly
    <3>2. e.v \in Int
      BY <3>1, WidthAssumption DEF Int_
    <3>3. wild' \in BOOLEAN
      BY <2>1 DEF IInv, Flags
    <3>4. obj.type # "matrix"
      BY <2>1
    <3>5. QED
      BY <2>1, <3>2, <3>3, <3>4 DEF Stored
  <2>2. CASE /\ obj.type = "matrix" /\ e \in Poly /\ e.ring = obj.ring
             /\ wild' = (obj.m[k] # 0 /\ currRing # obj.ring)
             /\ obj' = [obj EXCEPT !.m[k] = e.v]
             /\ polys' = [polys EXCEPT ![obj.ring] =
                            @ - NotZero(<<obj.m[k]>>) + NotZero(<<e.v>>)]
    <3>1. wild' \in BOOLEAN
      BY <2>2
    <3>2. QED
      BY <2>2, <3>1
  <2>3. QED
    BY <1>1, <2>1, <2>2 DEF SI_SetMatElm
<1>12. /\ DOMAIN m = 1..N /\ m[k] = v /\ \A l \in 1..N : l # k => m[l] = obj.m[l]
       /\ DOMAIN obj' = DOMAIN obj /\ obj'.type = obj.type /\ obj'.ring = obj.ring
       /\ obj'.rows = obj.rows /\ obj'.cols = obj.cols
  BY <1>2, <1>5, <1>6, <1>7, <1>11
<1>13. obj' # None
  <2>1. DOMAIN obj' # DOMAIN None
    BY <1>5, <1>12 DEF None
  <2>2. QED
    BY <2>1
<1>14. NotZero(m) = NotZero(obj.m) - NotZero(<<obj.m[k]>>) + NotZero(<<v>>)
  <2>1. PICK old : old = obj.m
    OBVIOUS
  <2>2. Updated(m, old, N, k, v)
    BY <1>5, <1>6, <1>7, <1>12, <2>1 DEF Updated
  <2>3. NotZero(m) = NotZero(old) - NotZero(<<old[k]>>) + NotZero(<<v>>)
    BY <2>2, NotZeroUpdated
  <2>4. QED
    BY <2>1, <2>3
<1>15. NotZero(m) \in Nat /\ NotZero(<<v>>) \in Nat /\ NotZero(<<obj.m[k]>>) \in Nat
  BY <1>12, SupportFinite, NotZeroOne
<1>16. ObjOK'
  <2>1. obj.type = "intmat" => \A l \in 1..N : m[l] \in CInt
    <3>1. obj.type = "intmat" => v \in CInt
      BY <1>11, ToIntRange
    <3>2. QED
      BY <1>5, <1>6, <1>12, <3>1
  <2>2. QED
    BY <1>2, <1>3, <1>4, <1>5, <1>6, <1>12, <2>1 DEF IInv, ObjOK
<1>17. ~leaked /\ \A q \in Rings : polys[q] = CopiesIn(q, obj.m, obj.ring)
  <2>1. \A q \in Rings : CopiesIn(q, mat, r) = 0 /\ CopiesIn(q, obj.m, obj.ring) \in Nat
    BY <1>8, <1>10, RingsAssumption DEF CopiesIn
  <2>2. ~leaked
    BY DEF IInv, ObjOK
  <2>3. QED
    BY <1>9, <2>1, <2>2 DEF IInv, Copies
<1>18. ASSUME NEW q \in Rings
       PROVE  polys'[q] = CopiesIn(q, m, obj.ring) /\ polys'[q] \in Nat
  <2>1. polys[q] = CopiesIn(q, obj.m, obj.ring)
    BY <1>17
  <2>2. CASE obj.type = "matrix"
    <3>1. obj.ring \in Rings
      BY <1>5, <2>2 DEF OfPolys
    <3>2. CASE q = obj.ring
      BY <1>9, <1>11, <1>14, <1>15, <2>1, <2>2, <3>1, <3>2 DEF CopiesIn
    <3>3. CASE q # obj.ring
      BY <1>9, <1>11, <2>1, <2>2, <3>1, <3>3 DEF CopiesIn
    <3>4. QED
      BY <3>2, <3>3
  <2>3. CASE obj.type # "matrix"
    <3>1. obj.ring = NULL
      BY <1>3, <1>5, <2>3 DEF OfPolys
    <3>2. polys'[q] = 0
      BY <1>11, <2>1, <2>3, <3>1, RingsAssumption DEF CopiesIn
    <3>3. QED
      BY <3>1, <3>2, RingsAssumption DEF CopiesIn
  <2>4. QED
    BY <2>2, <2>3
<1>19. polys' \in [Rings -> Nat]
  <2>1. polys' = [q \in Rings |-> polys'[q]]
    BY <1>9, <1>11
  <2>2. QED
    BY <1>18, <2>1
<1>20. Basic' /\ Flags'
  BY <1>3, <1>4, <1>11, <1>19 DEF IInv, Basic, Flags
<1>21. Copies'
  <2>1. mats' = 1
    BY <1>3, <1>8, <1>17 DEF IInv, Copies
  <2>2. \A q \in Rings : CopiesIn(q, mat', r') = 0
    BY <1>4, <1>8, RingsAssumption DEF CopiesIn
  <2>3. \A q \in Rings : polys'[q] = CopiesIn(q, mat', r') + CopiesIn(q, obj'.m, obj'.ring)
    BY <1>2, <1>12, <1>18, <2>2
  <2>4. QED
    BY <1>4, <1>8, <1>13, <2>1, <2>3 DEF Copies, CopiesIn
<1>22. LastOK'
  <2>1. obj'.type = "intmat" /\ e.v \in CInt => v = e.v
    BY <1>11, <1>12, ToIntSame
  <2>2. obj'.type # "intmat" => v = e.v
    BY <1>11, <1>12
  <2>3. last'.row = x /\ last'.col = y /\ last'.v = e.v
    BY <1>3
  <2>4. Position(x, y)' = k
    BY <1>1, <1>12 DEF Position, MATELEM, ToInt
  <2>5. obj'.m[k] = v
    BY <1>2, <1>12
  <2>6. InRange(ToInt(x), ToInt(y))'
    BY <1>3, <1>12 DEF InRange, ToInt
  <2>7. QED
    BY <1>13, <2>1, <2>2, <2>3, <2>4, <2>5, <2>6 DEF LastOK, InRange, Position, MATELEM, ToInt
<1>23. QED
  BY <1>4, <1>13, <1>16, <1>20, <1>21, <1>22
     DEF IInv, Idling, Running, PolysCall, IntsCall, OfPolys, OfInts

LEMMA ImmutableStep ==
  ASSUME IInv, MakeImmutableSingObj
  PROVE  IInv'
<1>1. /\ obj # None /\ obj' = [obj EXCEPT !.imm = TRUE]
      /\ UNCHANGED <<currRing, polys, mats, last, leaked, wild>> /\ UNCHANGED call
  BY DEF MakeImmutableSingObj
<1>2. UNCHANGED <<op, els, rows, cols, i, row, col, r, mat>>
  BY <1>1 DEF call
<1>3. DOMAIN obj = {"type", "imm", "rows", "cols", "ring", "m"}
  BY <1>1 DEF IInv, ObjOK
<1>4. /\ DOMAIN obj' = DOMAIN obj /\ obj'.type = obj.type /\ obj'.ring = obj.ring
      /\ obj'.rows = obj.rows /\ obj'.cols = obj.cols /\ obj'.m = obj.m
  BY <1>1, <1>3
<1>5. obj' # None
  <2>1. DOMAIN obj' # DOMAIN None
    BY <1>3, <1>4 DEF None
  <2>2. QED
    BY <2>1
<1>6. ObjOK'
  BY <1>1, <1>2, <1>4 DEF IInv, ObjOK
<1>7. Copies'
  BY <1>1, <1>2, <1>4, <1>5 DEF IInv, Copies, CopiesIn
<1>8. LastOK'
  BY <1>1, <1>4, <1>5 DEF IInv, LastOK, InRange, Position
<1>9. QED
  BY <1>1, <1>2, <1>5, <1>6, <1>7, <1>8
     DEF IInv, Basic, Flags, Idling, Running, PolysCall, IntsCall, ObjOK, OfPolys, OfInts,
         Before, Stored_

LEMMA FreeStep ==
  ASSUME IInv, _SI_FreeFunc
  PROVE  IInv'
<1>1. /\ op = "none" /\ obj # None
      /\ polys' = IF obj.ring = NULL THEN polys
                  ELSE [polys EXCEPT ![obj.ring] = @ - NotZero(obj.m)]
      /\ mats' = mats - 1 /\ obj' = None /\ last' = None
      /\ UNCHANGED <<currRing, leaked, wild>> /\ UNCHANGED call
  BY DEF _SI_FreeFunc
<1>2. UNCHANGED <<op, els, rows, cols, i, row, col, r, mat>>
  BY <1>1 DEF call
<1>3. mat = None /\ r = NULL
  BY <1>1 DEF IInv, Idling
<1>4. /\ ~leaked /\ DOMAIN obj.m = 1..(obj.rows * obj.cols)
      /\ obj.ring \in Rings \cup {NULL}
      /\ obj.rows \in Nat \ {0} /\ obj.cols \in Nat \ {0}
  BY <1>1, BoundsAssumption DEF IInv, ObjOK
<1>5. NotZero(obj.m) \in Nat
  BY <1>4, NotEmpty, SupportFinite
<1>6. mats' = 0 /\ \A q \in Rings : polys[q] = CopiesIn(q, obj.m, obj.ring)
  <2>1. \A q \in Rings : CopiesIn(q, mat, r) = 0 /\ CopiesIn(q, obj.m, obj.ring) \in Nat
    BY <1>3, <1>5, RingsAssumption DEF CopiesIn
  <2>2. QED
    BY <1>1, <1>3, <1>4, <2>1 DEF IInv, Copies
<1>7. polys' \in [Rings -> Nat] /\ \A q \in Rings : polys'[q] = 0
  <2>1. polys \in [Rings -> Nat]
    BY DEF IInv, Basic
  <2>2. QED
    BY <1>1, <1>4, <1>5, <1>6, <2>1, RingsAssumption DEF CopiesIn
<1>8. Basic' /\ Flags'
  BY <1>1, <1>2, <1>6, <1>7 DEF IInv, Basic, Flags
<1>9. Copies'
  <2>1. mat' = None /\ r' = NULL /\ obj' = None
    BY <1>1, <1>2, <1>3
  <2>2. QED
    BY <1>6, <1>7, <2>1, RingsAssumption DEF Copies, CopiesIn
<1>10. QED
  BY <1>1, <1>2, <1>8, <1>9
     DEF IInv, Idling, Running, PolysCall, IntsCall, ObjOK, LastOK, OfPolys, OfInts

LEMMA SetCurrRingStep ==
  ASSUME IInv, NEW q \in Rings \cup {NULL}, SetCurrRing(q)
  PROVE  IInv'
<1>1. /\ currRing' = q /\ UNCHANGED <<obj, polys, mats, last, leaked, wild>>
      /\ UNCHANGED call
  BY DEF SetCurrRing
<1>2. QED
  BY <1>1 DEF IInv, Basic, Flags, Idling, Running, PolysCall, IntsCall, ObjOK, Copies,
     LastOK, call, Before, Stored_, CopiesIn, InRange, Position

LEMMA StutterStep ==
  ASSUME IInv, UNCHANGED vars
  PROVE  IInv'
BY DEF vars, call, IInv, Basic, Flags, Idling, Running, PolysCall, IntsCall, ObjOK, Copies,
   LastOK, Before, Stored_, CopiesIn, InRange, Position

LEMMA NextIInv ==
  ASSUME IInv, [Next]_vars
  PROVE  IInv'
<1>1. ASSUME Ready, NEW m \in 1..MaxDim, NEW n \in 1..MaxDim, NEW l \in PolyLists,
             SI_matrix_from_els(m, n, l)
      PROVE  IInv'
  <2>1. m \in 1..MaxLen /\ n \in 1..MaxLen
    BY BoundsAssumption
  <2>2. Start("matrix", l, m, n) /\ UNCHANGED <<mats, mat>> /\ "matrix" \in OfPolys
    BY <1>1 DEF SI_matrix_from_els, OfPolys
  <2>3. QED
    BY <1>1, <2>1, <2>2, StartPolys
<1>2. ASSUME Ready, NEW l \in PolyLists, SI_ideal_from_els(l)
      PROVE  IInv'
  <2>1. Len(l) \in 1..MaxLen /\ 1 \in 1..MaxLen
    BY BoundsAssumption, ListsAreSeqs DEF PolyLists
  <2>2. Start("ideal", l, 1, Len(l)) /\ UNCHANGED <<mats, mat>> /\ "ideal" \in OfPolys
    BY <1>2 DEF SI_ideal_from_els, OfPolys
  <2>3. PICK n : n = Len(l)
    OBVIOUS
  <2>4. QED
    BY <1>2, <2>1, <2>2, <2>3, StartPolys
<1>3. ASSUME Ready, NEW o \in OfInts, NEW l \in Lists(IntLists, MaxDim), SI_intmat(o, l)
      PROVE  IInv'
  BY <1>3, StartInts
<1>4. ASSUME ~wild, op = "none", obj # None, NEW a \in Indices, NEW b \in Indices,
             NEW e \in Poly \cup Int_(SetInts), SI_SetMatElm(a, b, e)
      PROVE  IInv'
  BY <1>4, SetMatElmStep
<1>5. ASSUME NEW q \in Rings \cup {NULL}, SetCurrRing(q)
      PROVE  IInv'
  BY <1>5, SetCurrRingStep
<1>6. QED
  BY <1>1, <1>2, <1>3, <1>4, <1>5, FillPolyStep, FillIntStep, MadeStep, ImmutableStep,
     FreeStep, StutterStep DEF Next, OfInts

-----------------------------------------------------------------------------
(***************************************************************************)
(* The invariant holds in every reachable state of matrix.cc's makers.     *)
(***************************************************************************)
THEOREM Invariance == Spec => []IInv
<1>1. Init => IInv
  BY InitIInv
<1>2. IInv /\ [Next]_vars => IInv'
  BY NextIInv
<1>3. QED
  BY <1>1, <1>2, PTL DEF Spec

(***************************************************************************)
(* The variables keep their types: no count of copies or matrices becomes  *)
(* negative and no loop leaves the matrix it fills.                        *)
(***************************************************************************)
THEOREM TypeCorrect == Spec => []TypeOK
<1>1. ASSUME IInv PROVE TypeOK
  <2>1. CASE op = "none"
    BY <1>1, <2>1, BoundsAssumption DEF IInv, Basic, Flags, Idling, ObjOK, TypeOK, OfPolys, OfInts
  <2>2. CASE op # "none"
    <3>1. /\ rows \in 0..MaxLen /\ cols \in 0..MaxLen /\ obj = None
          /\ row \in 1..(rows + 1) /\ col \in 1..(cols + 1)
      BY <1>1, <2>2, BoundsAssumption DEF IInv, Running
    <3>2. /\ i \in 1..(MaxLen + 1) /\ r \in Rings \cup {NULL}
          /\ mat # None => DOMAIN mat = 1..(rows * cols)
      <4>1. CASE op \in OfPolys
        <5>1. i \in 1..(Len(els) + 1) /\ Len(els) \in 1..MaxLen
          BY <1>1, <4>1 DEF IInv, PolysCall
        <5>2. QED
          BY <1>1, <4>1, <5>1, BoundsAssumption DEF IInv, PolysCall
      <4>2. CASE op \in OfInts
        BY <1>1, <4>2, BoundsAssumption DEF IInv, IntsCall
      <4>3. QED
        BY <1>1, <2>2, <4>1, <4>2 DEF IInv, Basic
    <3>3. QED
      BY <1>1, <3>1, <3>2 DEF IInv, Basic, Flags, TypeOK, OfPolys, OfInts
  <2>3. QED
    BY <2>1, <2>2
<1>2. QED
  BY <1>1, Invariance, PTL

(***************************************************************************)
(* However many elements are copied and however the call ends, every copy  *)
(* and every matrix belongs to the object or to the running call, unless   *)
(* a hole made GAP leave the kernel function.                              *)
(***************************************************************************)
THEOREM CopiesSafety == Spec => []CopiesOwned
<1>1. IInv => CopiesOwned
  BY DEF IInv, Copies, CopiesOwned
<1>2. QED
  BY <1>1, Invariance, PTL

(***************************************************************************)
(* _SI_MatElm reads what _SI_SetMatElm wrote, for every width of int and   *)
(* every size of matrix.                                                   *)
(***************************************************************************)
THEOREM ReadBackSafety == Spec => []ReadsBack
<1>1. ASSUME IInv, last # None, last.row \in CInt, last.col \in CInt,
             obj.type = "intmat" => last.v \in CInt
      PROVE  InRange(last.row, last.col) /\ MatElm(obj, last.row, last.col) = last.v
  <2>1. ToInt(last.row) = last.row /\ ToInt(last.col) = last.col
    BY <1>1, ToIntSame
  <2>2. QED
    BY <1>1, <2>1 DEF IInv, LastOK, MatElm, Position
<1>2. IInv => ReadsBack
  BY <1>1 DEF ReadsBack
<1>3. QED
  BY <1>2, Invariance, PTL

-----------------------------------------------------------------------------
(***************************************************************************)
(* Refinement.  Every step of SingularMatrices is a step of MatrixContents *)
(* or changes nothing there.                                               *)
(***************************************************************************)
AbstractStep == [Abstract!Next]_<<Given, Contents>>

Places(m, n) == (1..m) \X (1..n)

LEMMA PlacesFacts ==
  ASSUME NEW m \in Nat \ {0}, NEW n \in Nat \ {0}, NEW f, DOMAIN f = Places(m, n)
  PROVE  f # None /\ <<1, 1>> \in DOMAIN f
<1>1. <<1, 1>> \in Places(m, n)
  BY DEF Places
<1>2. DOMAIN f # DOMAIN None
  BY <1>1 DEF None
<1>3. QED
  BY <1>1, <1>2

LEMMA GivenPlaces ==
  ASSUME IInv, op # "none"
  PROVE  /\ Given # None /\ DOMAIN Given = Places(rows, cols)
         /\ \A a \in 1..rows, b \in 1..cols :
              Given[<<a, b>>] = IF op \in OfInts THEN GivenRow(els, a, b)
                                ELSE GivenList(els, MATELEM(cols, a, b))
         /\ Contents = None
<1>1. DOMAIN Given = Places(rows, cols)
  BY DEF Given, Places
<1>2. Given # None
  BY <1>1, RunningFacts, PlacesFacts
<1>3. \A a \in 1..rows, b \in 1..cols :
        Given[<<a, b>>] = IF op \in OfInts THEN GivenRow(els, a, b)
                          ELSE GivenList(els, MATELEM(cols, a, b))
  BY DEF Given, OfInts, MATELEM
<1>4. Contents = None
  BY RunningFacts DEF Contents
<1>5. QED
  BY <1>1, <1>2, <1>3, <1>4

LEMMA ContentsPlaces ==
  ASSUME IInv, obj # None
  PROVE  /\ Contents # None /\ DOMAIN Contents = Places(obj.rows, obj.cols)
         /\ \A p \in DOMAIN Contents :
              Contents[p] = [ring |-> obj.ring, v |-> obj.m[MATELEM(obj.cols, p[1], p[2])]]
         /\ obj.rows \in Nat \ {0} /\ obj.cols \in Nat \ {0}
         /\ obj.ring \in Rings \cup {NULL}
         /\ Given = None
<1>1. DOMAIN Contents = Places(obj.rows, obj.cols)
  BY DEF Contents, Places
<1>2. obj.rows \in Nat \ {0} /\ obj.cols \in Nat \ {0} /\ op = "none"
      /\ obj.ring \in Rings \cup {NULL}
  BY BoundsAssumption DEF IInv, ObjOK
<1>3. Contents # None
  BY <1>1, <1>2, PlacesFacts
<1>4. \A p \in DOMAIN Contents :
        Contents[p] = [ring |-> obj.ring, v |-> obj.m[MATELEM(obj.cols, p[1], p[2])]]
  BY DEF Contents, MATELEM
<1>5. Given = None
  BY <1>2 DEF Given
<1>6. QED
  BY <1>1, <1>2, <1>3, <1>4, <1>5

(***************************************************************************)
(* A maker is called: Ask.                                                 *)
(***************************************************************************)
LEMMA EntryOfPoly ==
  ASSUME NEW e \in Poly
  PROVE  Entry(e) \in Element /\ [ring |-> e.ring, v |-> 0] \in Element
<1>1. PICK z : z = [t |-> "poly", ring |-> e.ring, v |-> 0]
  OBVIOUS
<1>2. z \in Poly /\ Entry(z) = [ring |-> e.ring, v |-> 0]
  BY <1>1, RingsAssumption DEF Poly, Entry
<1>3. QED
  BY <1>2 DEF Element

LEMMA GivenListType ==
  ASSUME NEW l \in Seq(PolyEl), NEW k \in Int, k >= 1
  PROVE  GivenList(l, k) \in Element \cup {Bad}
<1>1. CASE l[1] \in Poly /\ k <= Len(l) /\ l[k] \in Poly
  BY <1>1, EntryOfPoly DEF GivenList
<1>2. CASE l[1] \in Poly /\ k > Len(l)
  BY <1>2, EntryOfPoly DEF GivenList
<1>3. QED
  BY <1>1, <1>2 DEF GivenList

LEMMA IntElement ==
  ASSUME NEW o \in OfInts, NEW e \in IntEl, IntegerFits(o, e)
  PROVE  Entry(e) \in Element /\ e.ring = NULL
<1>1. e \in Int_(ListInts)
  BY DEF IntEl, IntegerFits, Other, Hole
<1>2. e \in Int_(ListInts \cup SetInts \cup {0} \cup {ToInt(n) : n \in SetInts})
      /\ e.ring = NULL
  BY <1>1 DEF Int_
<1>3. QED
  BY <1>2 DEF Element

LEMMA AskStep ==
  ASSUME IInv, IInv', Ready, op' # "none", UNCHANGED obj
  PROVE  AbstractStep
<1>1. op = "none" /\ obj = None
  BY DEF Ready
<1>2. Given = None /\ Contents = None /\ Contents' = None
  BY <1>1 DEF Given, Contents
<1>3. DOMAIN Given' = Places(rows', cols') /\ rows' \in Nat \ {0} /\ cols' \in Nat \ {0}
      /\ cols' \in Nat
  <2>1. rows' \in 1..MaxLen /\ cols' \in 1..MaxLen
    BY DEF IInv, Running
  <2>2. QED
    BY <2>1, BoundsAssumption DEF Given, Places
<1>4. Given' # None
  BY <1>3, PlacesFacts
<1>5. ASSUME NEW p \in DOMAIN Given'
      PROVE  Given'[p] \in Element \cup {Bad}
  <2>1. PICK a \in 1..rows', b \in 1..cols' : p = <<a, b>>
    BY <1>3, <1>5 DEF Places
  <2>2. CASE op' \in OfPolys
    <3>1. Given'[p] = GivenList(els', MATELEM(cols', a, b))
      BY <1>3, <1>5, <2>1, <2>2 DEF Given, OfPolys, GivenList, MATELEM
    <3>2. els' \in Seq(PolyEl)
      BY <2>2 DEF IInv, PolysCall
    <3>3. MATELEM(cols', a, b) \in Int /\ MATELEM(cols', a, b) >= 1
      <4>1. MATELEM(cols', a, b) \in 1..(rows' * cols')
        BY <1>3, PlaceRange
      <4>2. rows' * cols' \in Nat
        BY <1>3, NotEmpty
      <4>3. QED
        BY <4>1, <4>2
    <3>4. QED
      BY <3>1, <3>2, <3>3, GivenListType
  <2>3. CASE op' \in OfInts
    <3>1. Given'[p] = GivenRow(els, a, b)'
      BY <1>3, <1>5, <2>1, <2>3 DEF Given, OfInts
    <3>2. els' \in Seq(Seq(IntEl)) /\ Len(els') = rows'
      BY <2>3 DEF IInv, IntsCall
    <3>3. els'[a] \in Seq(IntEl)
      BY <3>2
    <3>4. CASE Len(els'[a]) # cols' \/ ~IntegerFits(op', els'[a][b])
      BY <3>1, <3>4 DEF GivenRow
    <3>5. CASE ~(Len(els'[a]) # cols' \/ ~IntegerFits(op', els'[a][b]))
      <4>1. els'[a][b] \in IntEl
        BY <3>3, <3>5
      <4>2. Entry(els'[a][b]) \in Element
        BY <2>3, <3>5, <4>1, IntElement
      <4>3. QED
        BY <3>1, <3>5, <4>2 DEF GivenRow
    <3>6. QED
      BY <3>4, <3>5
  <2>4. QED
    BY <2>2, <2>3 DEF IInv, Basic
<1>6. Abstract!Ask
  BY <1>2, <1>4, <1>5 DEF Abstract!Ask, Abstract!None, None
<1>7. QED
  BY <1>6 DEF AbstractStep, Abstract!Next

(***************************************************************************)
(* The loops: an element is stored, or the request is refused because      *)
(* some entry is bad or two entries are of different rings.                *)
(***************************************************************************)
LEMMA Refusal ==
  ASSUME IInv, op # "none", NEW a \in 1..rows, NEW b \in 1..cols,
         \/ Given[<<a, b>>] = Bad
         \/ Given[<<a, b>>].ring # Given[<<1, 1>>].ring,
         Idle, UNCHANGED obj
  PROVE  AbstractStep
<1>1. rows \in Nat \ {0} /\ cols \in Nat \ {0}
  BY RunningFacts
<1>2. <<1, 1>> \in DOMAIN Given /\ <<a, b>> \in DOMAIN Given /\ Given # None
  BY <1>1, GivenPlaces, PlacesFacts DEF Places
<1>3. ~Abstract!Compatible(Abstract!Entries(Given))
  <2>1. Given[<<a, b>>] \in Abstract!Entries(Given) /\ Given[<<1, 1>>] \in Abstract!Entries(Given)
    BY <1>2 DEF Abstract!Entries
  <2>2. QED
    BY <2>1 DEF Abstract!Compatible
<1>4. Given' = None /\ Contents' = Contents
  BY DEF Given, Contents, Idle
<1>5. Abstract!Refuse
  BY <1>2, <1>3, <1>4 DEF Abstract!Refuse, Abstract!None, None
<1>6. QED
  BY <1>5 DEF AbstractStep, Abstract!Next

LEMMA GivenSame ==
  ASSUME UNCHANGED <<op, els, rows, cols>>, UNCHANGED obj
  PROVE  AbstractStep
BY DEF AbstractStep, Given, Contents, GivenRow, GivenList

LEMMA FillPolyRefines ==
  ASSUME IInv, FillPoly
  PROVE  AbstractStep
<1>1. PICK e : e = els[i]
  OBVIOUS
<1>2. op \in OfPolys /\ op # "none" /\ op \notin OfInts /\ i <= Len(els) /\ row <= rows
  BY DEF FillPoly, OfPolys, OfInts
<1>3. /\ els \in Seq(PolyEl) /\ i \in 1..Len(els) /\ MATELEM(cols, row, col) = i
      /\ i > 1 => r \in Rings /\ els[1] \in Poly /\ els[1].ring = r
  BY <1>2 DEF IInv, PolysCall
<1>4. row \in 1..rows /\ col \in 1..cols /\ 1 \in 1..rows /\ 1 \in 1..cols /\ cols \in Nat
  BY <1>2, RunningFacts
<1>5. Given[<<row, col>>] = GivenList(els, i) /\ Given[<<1, 1>>] = GivenList(els, 1)
  <2>1. MATELEM(cols, 1, 1) = 1
    <3>1. 1 \in Int
      OBVIOUS
    <3>2. QED
      BY <1>4, <3>1, PlaceNext
  <2>2. QED
    BY <1>2, <1>3, <1>4, <2>1, GivenPlaces
<1>6. ASSUME e \notin Poly PROVE Given[<<row, col>>] = Bad
  <2>1. i \in 1..Len(els) /\ ~(i > Len(els))
    BY <1>3
  <2>2. QED
    BY <1>1, <1>5, <1>6, <2>1 DEF GivenList
<1>7. CASE e = Hole /\ ErrorInGap
  <2>1. e \notin Poly
    BY <1>7 DEF Poly, Hole
  <2>2. QED
    BY <1>2, <1>4, <1>6, <1>7, <2>1, Refusal DEF ErrorInGap
<1>8. CASE e \notin Poly \cup {Hole} /\ Refuse
  BY <1>2, <1>4, <1>6, <1>8, Refusal DEF Refuse
<1>9. CASE e \in Poly /\ i > 1 /\ ~SameRing(e) /\ Refuse
  <2>1. ~(i > Len(els)) /\ ~(1 > Len(els))
    BY <1>3
  <2>2. Given[<<row, col>>].ring = e.ring /\ Given[<<1, 1>>].ring = r
    BY <1>1, <1>3, <1>5, <1>9, <2>1 DEF GivenList, Entry
  <2>3. Given[<<row, col>>].ring # Given[<<1, 1>>].ring
    BY <1>9, <2>2 DEF SameRing
  <2>4. QED
    BY <1>2, <1>4, <1>9, <2>3, Refusal DEF Refuse
<1>10. CASE UNCHANGED <<op, els, rows, cols>> /\ UNCHANGED obj
  BY <1>10, GivenSame
<1>11. QED
  BY <1>1, <1>7, <1>8, <1>9, <1>10 DEF FillPoly

LEMMA FillIntRefines ==
  ASSUME IInv, FillInt
  PROVE  AbstractStep
<1>1. op \in OfInts /\ op # "none" /\ row <= rows
  BY DEF FillInt, OfInts
<1>2. row \in 1..rows /\ col \in 1..cols
  BY <1>1, RunningFacts
<1>3. Given[<<row, col>>] = GivenRow(els, row, col)
  BY <1>1, <1>2, GivenPlaces
<1>4. CASE Len(els[row]) # cols /\ Refuse
  <2>1. Given[<<row, col>>] = Bad
    BY <1>3, <1>4 DEF GivenRow
  <2>2. QED
    BY <1>1, <1>2, <1>4, <2>1, Refusal DEF Refuse
<1>5. ASSUME els[row][col] = Hole, ErrorInGap PROVE AbstractStep
  <2>1. ~IntegerFits(op, els[row][col])
    BY <1>5 DEF IntegerFits, Hole
  <2>2. Given[<<row, col>>] = Bad
    BY <1>3, <2>1 DEF GivenRow
  <2>3. QED
    BY <1>1, <1>2, <1>5, <2>2, Refusal DEF ErrorInGap
<1>6. ASSUME ~IntegerFits(op, els[row][col]), Refuse PROVE AbstractStep
  <2>1. Given[<<row, col>>] = Bad
    BY <1>3, <1>6 DEF GivenRow
  <2>2. QED
    BY <1>1, <1>2, <1>6, <2>1, Refusal DEF Refuse
<1>7. CASE UNCHANGED <<op, els, rows, cols>> /\ UNCHANGED obj
  BY <1>7, GivenSame
<1>8. QED
  BY <1>4, <1>5, <1>6, <1>7 DEF FillInt

(***************************************************************************)
(* The matrix goes to GAP: Deliver.                                        *)
(***************************************************************************)
LEMMA MadeEntry ==
  ASSUME IInv, Made, NEW a \in 1..rows, NEW b \in 1..cols
  PROVE  Given[<<a, b>>] = [ring |-> r, v |-> mat[MATELEM(cols, a, b)]]
<1>1. op # "none" /\ op \in OfPolys \cup OfInts
  BY MadeFacts DEF Made
<1>2. rows \in Nat \ {0} /\ cols \in Nat \ {0} /\ cols \in Nat /\ rows \in Nat
  BY <1>1, RunningFacts
<1>3. PICK k : k = MATELEM(cols, a, b)
  OBVIOUS
<1>4. k \in 1..(rows * cols) /\ rows * cols \in Nat
  BY <1>2, <1>3, PlaceRange, NotEmpty
<1>5. CASE op \in OfPolys
  <2>1. /\ els \in Seq(PolyEl) /\ i \in 1..(Len(els) + 1) /\ i > 1
        /\ MATELEM(cols, row, col) = i
        /\ \A n \in 1..(i - 1) : els[n] \in Poly /\ els[n].ring = r /\ mat[n] = els[n].v
        /\ \A n \in i..(rows * cols) : mat[n] = 0
    BY <1>5, MadeFacts DEF IInv, PolysCall
  <2>2. els[1] \in Poly /\ els[1].ring = r
    BY <2>1
  <2>3. Given[<<a, b>>] = GivenList(els, k)
    BY <1>1, <1>3, <1>5, GivenPlaces DEF OfPolys, OfInts
  <2>4. i > Len(els) \/ i = rows * cols + 1
    <3>1. ASSUME row > rows PROVE i = rows * cols + 1
      <4>1. row = rows + 1 /\ col = 1
        BY <1>1, <1>2, <3>1 DEF IInv, Running
      <4>2. rows \in Int /\ 1 \in Int
        BY <1>2
      <4>3. MATELEM(cols, rows + 1, 1) = rows * cols + 1
        BY <1>2, <4>2, PlaceNext
      <4>4. QED
        BY <2>1, <4>1, <4>3
    <3>2. QED
      BY <3>1 DEF Made
  <2>5. CASE k > Len(els)
    <3>1. k \in i..(rows * cols)
      BY <1>4, <2>1, <2>4, <2>5
    <3>2. mat[k] = 0
      BY <2>1, <3>1
    <3>3. QED
      BY <1>3, <2>2, <2>3, <2>5, <3>2 DEF GivenList
  <2>6. CASE ~(k > Len(els))
    <3>1. k \in 1..(i - 1)
      BY <1>4, <2>1, <2>4, <2>6
    <3>2. els[k] \in Poly /\ els[k].ring = r /\ mat[k] = els[k].v
      BY <2>1, <3>1
    <3>3. QED
      BY <1>3, <2>2, <2>3, <2>6, <3>2 DEF GivenList, Entry
  <2>7. QED
    BY <2>5, <2>6
<1>6. CASE op \in OfInts
  <2>1. /\ els \in Seq(Seq(IntEl)) /\ Len(els) = rows /\ r = NULL
        /\ \A x \in 1..rows, y \in 1..cols : Before(x, y) => Stored_(x, y)
        /\ row = rows + 1
    BY <1>6, MadeFacts DEF IInv, IntsCall
  <2>2. Before(a, b)
    BY <1>2, <2>1 DEF Before
  <2>3. Stored_(a, b)
    BY <2>1, <2>2
  <2>4. PICK e : e = els[a][b]
    OBVIOUS
  <2>5. Len(els[a]) = cols /\ IntegerFits(op, e) /\ mat[k] = e.v
    BY <1>3, <2>3, <2>4 DEF Stored_
  <2>6. e \in IntEl
    <3>1. els[a] \in Seq(IntEl)
      BY <2>1
    <3>2. QED
      BY <2>4, <2>5, <3>1
  <2>7. e.ring = NULL
    BY <1>6, <2>5, <2>6, IntElement
  <2>8. Given[<<a, b>>] = GivenRow(els, a, b)
    BY <1>1, <1>6, GivenPlaces
  <2>9. GivenRow(els, a, b) = Entry(e)
    BY <2>4, <2>5 DEF GivenRow
  <2>10. QED
    BY <1>3, <2>1, <2>5, <2>7, <2>8, <2>9 DEF Entry
<1>7. QED
  BY <1>1, <1>5, <1>6

LEMMA OneRing ==
  ASSUME NEW f, NEW q \in Rings \cup {NULL}, \A p \in DOMAIN f : f[p].ring = q
  PROVE  Abstract!Compatible(Abstract!Entries(f))
<1>1. \A e \in Abstract!Entries(f) : e.ring = q
  BY DEF Abstract!Entries
<1>2. Bad.ring # q
  BY RingsAssumption DEF Bad
<1>3. QED
  BY <1>1, <1>2 DEF Abstract!Compatible

LEMMA MadeRefines ==
  ASSUME IInv, Made
  PROVE  AbstractStep
<1>1. /\ op # "none" /\ op' = "none"
      /\ obj' = [type |-> op, imm |-> FALSE, rows |-> rows, cols |-> cols,
                 ring |-> r, m |-> mat]
      /\ r \in Rings \cup {NULL}
  BY MadeFacts DEF Made, Idle
<1>2. Given # None /\ DOMAIN Given = Places(rows, cols)
  BY <1>1, GivenPlaces
<1>3. obj' # None
  <2>1. DOMAIN obj' # DOMAIN None
    BY <1>1 DEF None
  <2>2. QED
    BY <2>1
<1>4. Given' = None
  BY <1>1 DEF Given
<1>5. Contents' = [p \in Places(rows, cols) |->
                     [ring |-> r, v |-> mat[MATELEM(cols, p[1], p[2])]]]
  BY <1>1, <1>3 DEF Contents, Places, MATELEM
<1>6. Given = [p \in Places(rows, cols) |->
                 [ring |-> r, v |-> mat[MATELEM(cols, p[1], p[2])]]]
  <2>1. ASSUME NEW p \in Places(rows, cols)
        PROVE  (IF op \in {"intmat", "bigintmat"} THEN GivenRow(els, p[1], p[2])
                ELSE GivenList(els, (p[1] - 1) * cols + p[2]))
               = [ring |-> r, v |-> mat[MATELEM(cols, p[1], p[2])]]
    <3>1. PICK a \in 1..rows, b \in 1..cols : p = <<a, b>>
      BY <2>1 DEF Places
    <3>2. Given[p] = [ring |-> r, v |-> mat[MATELEM(cols, p[1], p[2])]]
      BY <3>1, MadeEntry
    <3>3. Given[p] = IF op \in {"intmat", "bigintmat"} THEN GivenRow(els, p[1], p[2])
                     ELSE GivenList(els, (p[1] - 1) * cols + p[2])
      BY <1>1, <2>1 DEF Given, Places
    <3>4. QED
      BY <3>2, <3>3
  <2>2. QED
    BY <1>1, <2>1 DEF Given, Places
<1>7. \A p \in DOMAIN Given : Given[p].ring = r
  BY <1>2, <1>6
<1>8. Abstract!Compatible(Abstract!Entries(Given))
  BY <1>1, <1>7, OneRing
<1>9. Abstract!Deliver
  BY <1>2, <1>4, <1>5, <1>6, <1>8 DEF Abstract!Deliver, Abstract!None, None
<1>10. QED
  BY <1>9 DEF AbstractStep, Abstract!Next

(***************************************************************************)
(* Access: SetElm and Drop.                                                *)
(***************************************************************************)
LEMMA SetMatElmRefines ==
  ASSUME IInv, op = "none", obj # None, NEW x, NEW y,
         NEW e \in Poly \cup Int_(SetInts), SI_SetMatElm(x, y, e)
  PROVE  AbstractStep
<1>1. PICK a, b : a = ToInt(x) /\ b = ToInt(y)
  OBVIOUS
<1>2. PICK k : k = Position(x, y)
  OBVIOUS
<1>3. a \in 1..obj.rows /\ b \in 1..obj.cols /\ obj.type # "ideal" /\ UNCHANGED op
  BY <1>1 DEF SI_SetMatElm, InRange, call
<1>4. /\ DOMAIN obj = {"type", "imm", "rows", "cols", "ring", "m"}
      /\ obj.rows \in Nat \ {0} /\ obj.cols \in Nat \ {0} /\ obj.cols \in Nat
      /\ DOMAIN obj.m = 1..(obj.rows * obj.cols)
      /\ obj.ring \in (IF obj.type \in OfPolys THEN Rings ELSE {NULL})
      /\ obj.type \in OfPolys \cup OfInts
  BY BoundsAssumption DEF IInv, ObjOK
<1>5. k = MATELEM(obj.cols, a, b) /\ k \in 1..(obj.rows * obj.cols)
  BY <1>1, <1>2, <1>3, <1>4, PlaceRange DEF Position
<1>6. PICK v : /\ obj' = [obj EXCEPT !.m[k] = v]
               /\ [ring |-> obj.ring, v |-> v] \in Element
  <2>1. ASSUME obj.type \in {"intmat", "bigintmat"}, e.t = "int",
               obj' = [obj EXCEPT !.m[k] = Stored(e.v)]
        PROVE  [ring |-> obj.ring, v |-> Stored(e.v)] \in Element
    <3>1. e \in Int_(SetInts)
      BY <2>1 DEF Poly
    <3>2. e.v \in SetInts /\ obj.ring = NULL
      BY <1>4, <2>1, <3>1 DEF Int_, OfPolys
    <3>3. Stored(e.v) \in ListInts \cup SetInts \cup {0} \cup {ToInt(n) : n \in SetInts}
      BY <3>2 DEF Stored
    <3>4. PICK z : z = [t |-> "int", ring |-> NULL, v |-> Stored(e.v)]
      OBVIOUS
    <3>5. z \in Int_(ListInts \cup SetInts \cup {0} \cup {ToInt(n) : n \in SetInts})
      BY <3>3, <3>4 DEF Int_
    <3>6. Entry(z) = [ring |-> obj.ring, v |-> Stored(e.v)]
      BY <3>2, <3>4 DEF Entry
    <3>7. QED
      BY <3>5, <3>6 DEF Element
  <2>2. ASSUME obj.type = "matrix", e \in Poly, e.ring = obj.ring,
               obj' = [obj EXCEPT !.m[k] = e.v]
        PROVE  [ring |-> obj.ring, v |-> e.v] \in Element
    BY <2>2, EntryOfPoly DEF Entry
  <2>3. QED
    BY <1>2, <2>1, <2>2 DEF SI_SetMatElm
<1>7. PICK new : new = [ring |-> obj.ring, v |-> v]
  OBVIOUS
<1>8. /\ DOMAIN obj' = DOMAIN obj /\ obj'.ring = obj.ring
      /\ obj'.rows = obj.rows /\ obj'.cols = obj.cols
      /\ obj'.m[k] = v /\ \A l \in 1..(obj.rows * obj.cols) : l # k => obj'.m[l] = obj.m[l]
  BY <1>4, <1>5, <1>6
<1>9. obj' # None
  <2>1. DOMAIN obj' # DOMAIN None
    BY <1>4, <1>8 DEF None
  <2>2. QED
    BY <2>1
<1>10. /\ Contents # None /\ DOMAIN Contents = Places(obj.rows, obj.cols) /\ Given = None
       /\ \A p \in DOMAIN Contents :
            Contents[p] = [ring |-> obj.ring, v |-> obj.m[MATELEM(obj.cols, p[1], p[2])]]
       /\ obj.ring \in Rings \cup {NULL}
  BY ContentsPlaces
<1>11. Contents' = [p \in Places(obj.rows, obj.cols) |->
                      [ring |-> obj.ring, v |-> obj'.m[MATELEM(obj.cols, p[1], p[2])]]]
  BY <1>8, <1>9 DEF Contents, Places, MATELEM
<1>12. <<a, b>> \in DOMAIN Contents
  BY <1>3, <1>10 DEF Places
<1>13. \A p \in Places(obj.rows, obj.cols) :
         [ring |-> obj.ring, v |-> obj'.m[MATELEM(obj.cols, p[1], p[2])]]
         = IF p = <<a, b>> THEN new ELSE Contents[p]
  <2>1. SUFFICES ASSUME NEW p \in Places(obj.rows, obj.cols)
                 PROVE  [ring |-> obj.ring, v |-> obj'.m[MATELEM(obj.cols, p[1], p[2])]]
                        = IF p = <<a, b>> THEN new ELSE Contents[p]
    OBVIOUS
  <2>2. PICK s \in 1..obj.rows, t \in 1..obj.cols : p = <<s, t>>
    BY <2>1 DEF Places
  <2>3. CASE p = <<a, b>>
    BY <1>5, <1>7, <1>8, <2>3
  <2>4. CASE p # <<a, b>>
    <3>1. MATELEM(obj.cols, s, t) \in 1..(obj.rows * obj.cols)
      BY <1>4, PlaceRange
    <3>2. MATELEM(obj.cols, s, t) # k
      <4>1. a \in Int /\ s \in Int
        BY <1>3, <1>4
      <4>2. QED
        BY <1>3, <1>4, <1>5, <2>2, <2>4, <4>1, PlaceUnique
    <3>3. obj'.m[MATELEM(obj.cols, s, t)] = obj.m[MATELEM(obj.cols, s, t)]
      BY <1>8, <3>1, <3>2
    <3>4. QED
      BY <1>10, <2>1, <2>2, <2>4, <3>3
  <2>5. QED
    BY <2>3, <2>4
<1>14. Contents' = [Contents EXCEPT ![<<a, b>>] = new]
  <2>1. Contents = [p \in Places(obj.rows, obj.cols) |-> Contents[p]]
    <3>1. Contents = [p \in Places(obj.rows, obj.cols) |->
                        [ring |-> obj.ring, v |-> obj.m[MATELEM(obj.cols, p[1], p[2])]]]
      BY DEF Contents, Places, MATELEM
    <3>2. QED
      BY <1>10, <3>1
  <2>2. QED
    BY <1>11, <1>12, <1>13, <2>1
<1>15. Abstract!Compatible(Abstract!Entries(Contents) \cup {new})
  <2>1. \A z \in Abstract!Entries(Contents) \cup {new} : z.ring = obj.ring
    BY <1>7, <1>10 DEF Abstract!Entries
  <2>2. Bad.ring # obj.ring
    BY <1>10, RingsAssumption DEF Bad
  <2>3. QED
    BY <2>1, <2>2 DEF Abstract!Compatible
<1>16. Given' = Given
  BY <1>3 DEF Given
<1>17. Abstract!SetElm(<<a, b>>, new)
  BY <1>10, <1>12, <1>14, <1>15, <1>16 DEF Abstract!SetElm, Abstract!None, None
<1>18. QED
  BY <1>6, <1>7, <1>12, <1>17 DEF AbstractStep, Abstract!Next

LEMMA FreeRefines ==
  ASSUME IInv, _SI_FreeFunc
  PROVE  AbstractStep
<1>1. op = "none" /\ op' = "none" /\ obj # None /\ obj' = None
  BY DEF _SI_FreeFunc, call
<1>2. Contents # None /\ Contents' = None /\ Given' = Given
  BY <1>1, ContentsPlaces DEF Given, Contents
<1>3. Abstract!Drop
  BY <1>2 DEF Abstract!Drop, Abstract!None, None
<1>4. QED
  BY <1>3 DEF AbstractStep, Abstract!Next

LEMMA ImmutableRefines ==
  ASSUME IInv, MakeImmutableSingObj
  PROVE  AbstractStep
<1>1. /\ obj # None /\ obj' = [obj EXCEPT !.imm = TRUE]
      /\ DOMAIN obj = {"type", "imm", "rows", "cols", "ring", "m"}
      /\ UNCHANGED <<op, els, rows, cols>>
  BY DEF MakeImmutableSingObj, call, IInv, ObjOK
<1>2. /\ DOMAIN obj' = DOMAIN obj /\ obj'.ring = obj.ring
      /\ obj'.rows = obj.rows /\ obj'.cols = obj.cols /\ obj'.m = obj.m
  BY <1>1
<1>3. obj' # None
  <2>1. DOMAIN obj' # DOMAIN None
    BY <1>1, <1>2 DEF None
  <2>2. QED
    BY <2>1
<1>4. Contents' = Contents
  BY <1>1, <1>2, <1>3 DEF Contents
<1>5. Given' = Given
  BY <1>1 DEF Given, GivenRow, GivenList
<1>6. QED
  BY <1>4, <1>5 DEF AbstractStep

LEMMA NextRefines ==
  ASSUME IInv, IInv', [Next]_vars
  PROVE  AbstractStep
<1>1. ASSUME Ready, NEW o \in OfPolys \cup OfInts, NEW l, NEW m, NEW n, Start(o, l, m, n)
      PROVE  AbstractStep
  BY <1>1, AskStep DEF Start, OfPolys, OfInts
<1>2. ASSUME Ready, NEW m, NEW n, NEW l, SI_matrix_from_els(m, n, l)
      PROVE  AbstractStep
  BY <1>1, <1>2 DEF SI_matrix_from_els, OfPolys
<1>3. ASSUME Ready, NEW l, SI_ideal_from_els(l)
      PROVE  AbstractStep
  BY <1>1, <1>3 DEF SI_ideal_from_els, OfPolys
<1>4. ASSUME Ready, NEW o \in {"intmat", "bigintmat"}, NEW l, SI_intmat(o, l)
      PROVE  AbstractStep
  BY <1>1, <1>4 DEF SI_intmat, OfInts
<1>5. ASSUME op = "none", obj # None, NEW a, NEW b,
             NEW e \in Poly \cup Int_(SetInts), SI_SetMatElm(a, b, e)
      PROVE  AbstractStep
  BY <1>5, SetMatElmRefines
<1>6. ASSUME NEW q, SetCurrRing(q) PROVE AbstractStep
  BY <1>6, GivenSame DEF SetCurrRing, call
<1>7. CASE UNCHANGED vars
  BY <1>7, GivenSame DEF vars, call
<1>8. QED
  BY <1>2, <1>3, <1>4, <1>5, <1>6, <1>7, FillPolyRefines, FillIntRefines, MadeRefines,
     FreeRefines, ImmutableRefines DEF Next

(***************************************************************************)
(* The makers and _SI_SetMatElm of matrix.cc implement MatrixContents:     *)
(* what GAP asked for, entry by entry, or a refusal.                       *)
(***************************************************************************)
THEOREM Refinement == Spec => ImplementsContents
<1>1. Init => Abstract!Init
  BY DEF Init, Given, Contents, Abstract!Init, Abstract!None, None
<1>2. IInv /\ IInv' /\ [Next]_vars => [Abstract!Next]_<<Given, Contents>>
  BY NextRefines DEF AbstractStep
<1>3. QED
  BY <1>1, <1>2, Invariance, PTL DEF Spec, ImplementsContents, Abstract!Spec

=============================================================================
