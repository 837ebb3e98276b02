-------------------------- MODULE SingularMatrices --------------------------
(***************************************************************************)
(* Matrices of Singular made from elements that GAP passes, and access to  *)
(* their entries: SI_matrix_from_els, SI_ideal_from_els, SI_intmat and     *)
(* SI_bigintmat, _SI_MatElm and _SI_SetMatElm.                             *)
(*                                                                         *)
(* Each maker fills a new matrix in a loop and gives it up when it meets   *)
(* an element it does not like.  Polynomials are copied, in the ring of    *)
(* the first one.  Immediate integers of GAP are longer than the C type    *)
(* int.                                                                    *)
(***************************************************************************)
EXTENDS Integers, Sequences, FiniteSets

CONSTANTS
  HalfInt,    \* the C type int is -HalfInt..(HalfInt - 1)
  Rings,      \* rings, all alive
  NULL,       \* no ring
  PolyValues, \* polynomials of a ring, 0 is one of them
  ListInts,   \* immediate integers in the lists given to SI_intmat
  SetInts,    \* immediate integers given to _SI_SetMatElm
  Indices,    \* row and column numbers given to _SI_SetMatElm
  MaxDim,     \* bound on rows and columns
  MaxLen      \* bound on lists of polynomials

ASSUME WidthAssumption ==
  HalfInt \in Nat \ {0} /\ ListInts \subseteq Int /\ SetInts \subseteq Int
ASSUME RingsAssumption ==
  NULL \notin Rings /\ "bad" \notin Rings \cup {NULL} /\ 0 \in PolyValues
ASSUME BoundsAssumption == MaxDim \in Nat /\ MaxLen \in Nat /\ MaxDim <= MaxLen

CInt == -HalfInt .. (HalfInt - 1)
ToInt(n) == ((n + HalfInt) % (2 * HalfInt)) - HalfInt

(***************************************************************************)
(* What a list may hold: polynomials, integers, other GAP objects, and     *)
(* holes, which are errors of GAP when they are read.                      *)
(***************************************************************************)
Poly == [t : {"poly"}, ring : Rings, v : PolyValues]
Int_(S) == [t : {"int"}, ring : {NULL}, v : S]
Other == [t |-> "other", ring |-> NULL, v |-> 0]
Hole == [t |-> "hole", ring |-> NULL, v |-> 0]

None == <<>>

VARIABLES
  currRing,
  obj,      \* the matrix object GAP has, or None
  polys,    \* copies of polynomials in matrices, those that are not 0
  mats,     \* matrices of Singular
  \* -- the call on the stack --
  op,       \* "none", "matrix", "ideal", "intmat" or "bigintmat"
  els,      \* the list; a list of rows for "intmat" and "bigintmat"
  rows, cols, i, row, col, r,
  mat,      \* the entries of the matrix in the making, row by row
  \* -- history --
  last,     \* the row, column and value of the last entry GAP has set
  leaked,   \* a hole was met while mat was allocated
  wild      \* a polynomial was deleted in a wrong ring

call == <<op, els, rows, cols, i, row, col, r, mat>>
vars == <<currRing, obj, polys, mats, call, last, leaked, wild>>

Zeros(m, n) == [k \in 1..(m * n) |-> 0]
MATELEM(n, a, b) == (a - 1) * n + b
NotZero(entries) == Cardinality({k \in DOMAIN entries : entries[k] # 0})

-----------------------------------------------------------------------------
(* The makers *)

Idle == /\ op' = "none" /\ els' = <<>> /\ rows' = 0 /\ cols' = 0
        /\ i' = 1 /\ row' = 1 /\ col' = 1 /\ r' = NULL /\ mat' = None

(***************************************************************************)
(* (The model makes no further matrix once one has leaked: this bounds     *)
(* what is lost.)                                                          *)
(***************************************************************************)
Ready == ~wild /\ ~leaked /\ op = "none" /\ obj = None

Start(o, l, m, n) ==
  /\ op' = o /\ els' = l /\ rows' = m /\ cols' = n
  /\ i' = 1 /\ row' = 1 /\ col' = 1 /\ r' = NULL
  /\ UNCHANGED <<currRing, obj, polys, last, leaked, wild>>

SI_matrix_from_els(m, n, l) ==
  /\ l # <<>>
  /\ Start("matrix", l, m, n)
  /\ UNCHANGED <<mats, mat>>

SI_ideal_from_els(l) ==
  /\ l # <<>>
  /\ Start("ideal", l, 1, Len(l))
  /\ UNCHANGED <<mats, mat>>

SI_intmat(o, l) ==
  /\ l # <<>> /\ l[1] # <<>>
  /\ Start(o, l, Len(l), Len(l[1]))
  /\ mat' = Zeros(Len(l), Len(l[1])) /\ mats' = mats + 1

(***************************************************************************)
(* id_Delete and ErrorQuit, if there is a matrix already.  (KeepCopies     *)
(* would free the matrix without its entries.)                             *)
(***************************************************************************)
KeepCopies == polys
DeleteCopies ==
  IF mat = None \/ r = NULL THEN polys
  ELSE [polys EXCEPT ![r] = @ - NotZero(mat)]

Refuse ==
  /\ polys' = DeleteCopies
  /\ mats' = IF mat = None THEN mats ELSE mats - 1
  /\ Idle
  /\ UNCHANGED <<currRing, obj, last, leaked, wild>>

(***************************************************************************)
(* ELM_LIST of a hole: the error of GAP leaves the matrix behind.          *)
(***************************************************************************)
ErrorInGap ==
  /\ leaked' = (leaked \/ mat # None)
  /\ Idle
  /\ UNCHANGED <<currRing, obj, polys, mats, last, wild>>

(***************************************************************************)
(* Where the next element goes.  (NextColumn forgets to end the row.)      *)
(***************************************************************************)
NextColumn == row' = row /\ col' = col + 1
NextPlace ==
  IF col + 1 > cols THEN row' = row + 1 /\ col' = 1
                    ELSE row' = row /\ col' = col + 1

Place(entries, v) == mat' = [entries EXCEPT ![MATELEM(cols, row, col)] = v]

(***************************************************************************)
(* The loop of SI_matrix_from_els and SI_ideal_from_els.  The first        *)
(* polynomial decides on the ring.  (AnyRing leaves out the comparison.)   *)
(***************************************************************************)
AnyRing(e) == TRUE
SameRing(e) == e.ring = r

FillPoly ==
  /\ op \in {"matrix", "ideal"} /\ i <= Len(els) /\ row <= rows
  /\ LET e == els[i] IN
     \/ e = Hole /\ ErrorInGap
     \/ e \notin Poly \cup {Hole} /\ Refuse
     \/ /\ e \in Poly /\ i > 1 /\ ~SameRing(e)
        /\ Refuse
     \/ /\ e \in Poly /\ i > 1 /\ SameRing(e)
        /\ Place(mat, e.v)
        /\ NextPlace /\ i' = i + 1
        /\ polys' = [polys EXCEPT ![r] = @ + NotZero(<<e.v>>)]
        /\ UNCHANGED <<currRing, obj, mats, op, els, rows, cols, r, last,
                       leaked, wild>>
     \/ /\ e \in Poly /\ i = 1
        /\ r' = e.ring /\ currRing' = e.ring
        /\ Place(Zeros(rows, cols), e.v) /\ mats' = mats + 1
        /\ NextPlace /\ i' = i + 1
        /\ polys' = [polys EXCEPT ![e.ring] = @ + NotZero(<<e.v>>)]
        /\ UNCHANGED <<obj, op, els, rows, cols, last, leaked, wild>>

(***************************************************************************)
(* The loops of SI_intmat and SI_bigintmat.                                *)
(***************************************************************************)
IntegerFits(o, e) == e.t = "int" /\ (o = "intmat" => e.v \in CInt)

FillInt ==
  /\ op \in {"intmat", "bigintmat"} /\ row <= rows
  /\ LET therow == els[row] IN
     \/ Len(therow) # cols /\ Refuse
     \/ /\ Len(therow) = cols
        /\ LET e == therow[col] IN
           \/ e = Hole /\ ErrorInGap
           \/ e # Hole /\ ~IntegerFits(op, e) /\ Refuse
           \/ /\ IntegerFits(op, e)
              /\ Place(mat, IF op = "intmat" THEN ToInt(e.v) ELSE e.v)
              /\ NextPlace
              /\ UNCHANGED <<currRing, obj, polys, mats, op, els, rows, cols,
                             i, r, last, leaked, wild>>

Made ==
  /\ op # "none"
  /\ row > rows \/ (op \in {"matrix", "ideal"} /\ i > Len(els))
  /\ obj' = [type |-> op, imm |-> FALSE, rows |-> rows, cols |-> cols,
             ring |-> r, m |-> mat]
  /\ Idle
  /\ UNCHANGED <<currRing, polys, mats, last, leaked, wild>>

-----------------------------------------------------------------------------
(* Access.  (AsInt would truncate big integers too.) *)

InRange(a, b) == a \in 1..obj.rows /\ b \in 1..obj.cols

AsInt(v) == ToInt(v)
Stored(v) == IF obj.type = "intmat" THEN ToInt(v) ELSE v

MatElm(o, row_, col_) == o.m[MATELEM(o.cols, ToInt(row_), ToInt(col_))]

(***************************************************************************)
(* _SI_SetMatElm.  Row and column are converted to int before the check.   *)
(* Ideals are no matrices.                                                 *)
(***************************************************************************)
Position(row_, col_) == MATELEM(obj.cols, ToInt(row_), ToInt(col_))

SI_SetMatElm(row_, col_, e) ==
  /\ ~obj.imm
  /\ obj.type # "ideal"
  /\ InRange(ToInt(row_), ToInt(col_))
  /\ LET k == Position(row_, col_) IN
     \/ /\ obj.type \in {"intmat", "bigintmat"} /\ e.t = "int"
        /\ obj' = [obj EXCEPT !.m[k] = Stored(e.v)]
        /\ UNCHANGED <<polys, wild>>
     \/ /\ obj.type = "matrix" /\ e \in Poly /\ e.ring = obj.ring
        /\ wild' = (obj.m[k] # 0 /\ currRing # obj.ring)
        /\ obj' = [obj EXCEPT !.m[k] = e.v]
        /\ polys' = [polys EXCEPT ![obj.ring] =
                       @ - NotZero(<<obj.m[k]>>) + NotZero(<<e.v>>)]
  /\ last' = [row |-> row_, col |-> col_, v |-> e.v]
  /\ UNCHANGED <<currRing, mats, call, leaked>>

MakeImmutableSingObj ==
  /\ ~wild /\ op = "none" /\ obj # None /\ ~obj.imm
  /\ obj' = [obj EXCEPT !.imm = TRUE]
  /\ UNCHANGED <<currRing, polys, mats, call, last, leaked, wild>>

_SI_FreeFunc ==
  /\ ~wild /\ op = "none" /\ obj # None
  /\ polys' = IF obj.ring = NULL THEN polys
              ELSE [polys EXCEPT ![obj.ring] = @ - NotZero(obj.m)]
  /\ mats' = mats - 1
  /\ obj' = None /\ last' = None
  /\ UNCHANGED <<currRing, call, leaked, wild>>

(***************************************************************************)
(* Any other call, of which only the current ring is of interest.          *)
(***************************************************************************)
SetCurrRing(q) ==
  /\ ~wild /\ op = "none"
  /\ currRing' = q
  /\ UNCHANGED <<obj, polys, mats, call, last, leaked, wild>>

-----------------------------------------------------------------------------
(* The specification *)

Init ==
  /\ currRing = NULL /\ obj = None
  /\ polys = [q \in Rings |-> 0] /\ mats = 0
  /\ op = "none" /\ els = <<>> /\ rows = 0 /\ cols = 0
  /\ i = 1 /\ row = 1 /\ col = 1 /\ r = NULL /\ mat = None
  /\ last = None /\ leaked = FALSE /\ wild = FALSE

Lists(S, n) == UNION {[1..k -> S] : k \in 1..n}
PolyLists == Lists(Poly \cup {Other, Hole}, MaxLen)
IntLists == Lists(Int_(ListInts) \cup {Other, Hole}, MaxDim)

Next ==
  \/ Ready /\ \E m, n \in 1..MaxDim, l \in PolyLists : SI_matrix_from_els(m, n, l)
  \/ Ready /\ \E l \in PolyLists : SI_ideal_from_els(l)
  \/ Ready /\ \E o \in {"intmat", "bigintmat"}, l \in Lists(IntLists, MaxDim) :
                SI_intmat(o, l)
  \/ FillPoly \/ FillInt \/ Made
  \/ /\ ~wild /\ op = "none" /\ obj # None
     /\ \E a, b \in Indices, e \in Poly \cup Int_(SetInts) : SI_SetMatElm(a, b, e)
  \/ MakeImmutableSingObj \/ _SI_FreeFunc
  \/ \E q \in Rings \cup {NULL} : SetCurrRing(q)

Spec == Init /\ [][Next]_vars

-----------------------------------------------------------------------------
(* Properties *)

(***************************************************************************)
(* Type invariant of the matrices (matrix.cc, cxxfuncs.cc).                *)
(***************************************************************************)
TypeOK ==
  /\ currRing \in Rings \cup {NULL} /\ r \in Rings \cup {NULL}
  /\ obj # None => /\ obj.ring \in Rings \cup {NULL}
                   /\ DOMAIN obj.m = 1..(obj.rows * obj.cols)
                   /\ obj.type = "intmat" => \A k \in DOMAIN obj.m : obj.m[k] \in CInt
  /\ polys \in [Rings -> Nat] /\ mats \in Nat
  /\ op \in {"none", "matrix", "ideal", "intmat", "bigintmat"}
  /\ rows \in 0..MaxLen /\ cols \in 0..MaxLen
  /\ row \in 1..(rows + 1) /\ col \in 1..(cols + 1) /\ i \in 1..(MaxLen + 1)
  /\ mat # None => DOMAIN mat = 1..(rows * cols)
  /\ leaked \in BOOLEAN /\ wild \in BOOLEAN

(***************************************************************************)
(* However a call ends, every polynomial that was copied and every matrix  *)
(* that was allocated belongs to the object GAP got or to the call that is *)
(* running, and to one of them only.  A hole in the list is the exception. *)
(***************************************************************************)
CopiesIn(q, entries, ring) == IF ring = q THEN NotZero(entries) ELSE 0
CopiesOwned ==
  ~leaked /\ ~wild =>
    /\ \A q \in Rings :
         polys[q] = CopiesIn(q, mat, r)
                      + (IF obj = None THEN 0 ELSE CopiesIn(q, obj.m, obj.ring))
    /\ mats = (IF mat = None THEN 0 ELSE 1) + (IF obj = None THEN 0 ELSE 1)

(***************************************************************************)
(* The makers and _SI_SetMatElm implement MatrixContents: the elements     *)
(* of a list become the entries, row by row, the rest is zero and surplus  *)
(* elements are not looked at.                                             *)
(***************************************************************************)
Entry(e) == [ring |-> e.ring, v |-> e.v]
Bad == [ring |-> "bad", v |-> 0]
GivenRow(l, a, b) ==
  IF Len(l[a]) # cols \/ ~IntegerFits(op, l[a][b]) THEN Bad ELSE Entry(l[a][b])
GivenList(l, k) ==
  IF l[1] \notin Poly THEN Bad
  ELSE IF k > Len(l) THEN [ring |-> l[1].ring, v |-> 0]
  ELSE IF l[k] \notin Poly THEN Bad ELSE Entry(l[k])
Given ==
  IF op = "none" THEN None
  ELSE [p \in (1..rows) \X (1..cols) |->
          IF op \in {"intmat", "bigintmat"} THEN GivenRow(els, p[1], p[2])
          ELSE GivenList(els, (p[1] - 1) * cols + p[2])]
Contents ==
  IF obj = None THEN None
  ELSE [p \in (1..obj.rows) \X (1..obj.cols) |->
          [ring |-> obj.ring, v |-> obj.m[(p[1] - 1) * obj.cols + p[2]]]]

Element == {Entry(e) : e \in Poly \cup Int_(ListInts \cup SetInts \cup {0}
                                          \cup {ToInt(n) : n \in SetInts})}
Abstract == INSTANCE MatrixContents
              WITH given <- Given, entry <- Contents, Element <- Element, Bad <- Bad
ImplementsContents == Abstract!Spec

(***************************************************************************)
(* _SI_MatElm gives back what _SI_SetMatElm has set, at a position that    *)
(* the matrix has, as long as row, column and the entry of an intmat are   *)
(* of type int: other immediate integers of GAP are truncated.             *)
(***************************************************************************)
ReadsBack ==
  (last # None /\ last.row \in CInt /\ last.col \in CInt
    /\ (obj.type = "intmat" => last.v \in CInt))
  => InRange(last.row, last.col) /\ MatElm(obj, last.row, last.col) = last.v

(***************************************************************************)
(* _SI_SetMatElm deletes the old polynomial in the ring of the matrix.     *)
(***************************************************************************)
DeletedInItsRing == ~wild

=============================================================================
