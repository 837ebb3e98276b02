---------------------------- MODULE Conversions -----------------------------
(***************************************************************************)
(* Values on their way between GAP and Singular: parts of objects          *)
(* (SubObjects), numbers (Numbers) and lists (GapLists), as SingObj::init, *)
(* SI_number, SI_bigint and SI_ToGAP convert them.  One at a time.         *)
(***************************************************************************)
EXTENDS SubObjects, Numbers, GapLists

CONSTANTS
  GapNumbers,  \* what GAP passes to the conversions of numbers
  Fields       \* coefficient fields: [kind, char]

(***************************************************************************)
(* The characteristic of a field other than Q is a prime here, whatever    *)
(* kind it is; rationals are reduced, and elements of a finite field of    *)
(* degree 1 are residues.                                                  *)
(***************************************************************************)
ASSUME FieldsAssumption ==
  \A f \in Fields : /\ f.kind \in {"Q", "Zp", "other"} /\ f.char \in Nat
                    /\ f.kind # "Q" => f.char > 1
ASSUME GapNumbersAssumption ==
  \A g \in GapNumbers :
    /\ g.t \in {"int", "rat", "ffe", "other"} /\ g.num \in Int /\ g.den \in Nat \ {0}
    /\ g.t = "int" => g = GapInt(g.num)
    /\ g.t = "rat" => \A p \in 2..g.den : g.den % p = 0 => g.num % p # 0
    /\ g.t = "ffe" /\ g.degree = 1 => g.num \in 0..(g.char - 1)

NoNumber == [t |-> "none", num |-> 0, den |-> 1]
NoField == [kind |-> "none", char |-> 0]

VARIABLES
  currRing, \* the coefficients of the current ring
  given,   \* the number GAP has passed
  field,   \* the coefficients it was passed for, NoField for integers
  data,    \* the datum of Singular it became, or Refused
  back     \* what GAP got back for that

nvars == <<currRing, given, field, data, back>>
vars == <<fvars, lvars, nvars>>

Ready == pc = "gap" /\ ~Building
Free == Ready /\ given = NoNumber

Convert(g, f, v) ==
  /\ Free
  /\ given' = g /\ field' = f /\ data' = v
  /\ currRing' = IF f = NoField THEN currRing ELSE f
  /\ UNCHANGED back

(***************************************************************************)
(* The three ways into Singular.  SingObj::init takes only integers here;  *)
(* SI_number makes the ring of the coefficients the current ring.          *)
(***************************************************************************)
SI_number(f, g) == Convert(g, f, _SI_NUMBER_FROM_GAP(f, g))
SI_bigint(g) == Convert(g, NoField, _SI_BIGINT_FROM_GAP(g))
InitInteger(g) ==
  /\ g.t = "int"
  /\ Convert(g, NoField, _SI_BIGINT_OR_INT_FROM_GAP(g))

(***************************************************************************)
(* The way back, for an int and a bigint: for numbers it returns fail.     *)
(***************************************************************************)
SI_ToGAP ==
  /\ Ready /\ given # NoNumber /\ data # Refused /\ back = NoNumber
  /\ back' = IF field # NoField THEN GapOther
             ELSE IF data.rep = "int" THEN INTOBJ_INT(data.num)
             ELSE _SI_BIGINT_OR_INT_TO_GAP(data)
  /\ UNCHANGED <<currRing, given, field, data>>

Forget ==
  /\ Ready /\ given # NoNumber
  /\ given' = NoNumber /\ field' = NoField /\ data' = Refused /\ back' = NoNumber
  /\ UNCHANGED currRing

Init ==
  /\ FollowInit /\ ListsInit
  /\ currRing = NoField
  /\ given = NoNumber /\ field = NoField /\ data = Refused /\ back = NoNumber

NumbersNext ==
  \/ \E g \in GapNumbers : \/ \E f \in Fields : SI_number(f, g)
                           \/ SI_bigint(g) \/ InitInteger(g)
  \/ SI_ToGAP \/ Forget

Next ==
  \/ ~Building /\ given = NoNumber /\ FollowNext /\ UNCHANGED <<lvars, nvars>>
  \/ pc = "gap" /\ given = NoNumber /\ ListsNext /\ UNCHANGED <<fvars, nvars>>
  \/ NumbersNext /\ UNCHANGED <<fvars, lvars>>

Spec == Init /\ [][Next]_vars

-----------------------------------------------------------------------------
(* Properties *)

(***************************************************************************)
(* Type invariant of FOLLOW_SUBOBJ (singobj.cc), of the lists in the       *)
(* making (matrix.cc) and of the numbers (number.cc).                      *)
(***************************************************************************)
TypeOK ==
  /\ pc \in {"gap", "follow", "done"} /\ error \in BOOLEAN
  /\ proxy \in Proxies \cup {<<>>} /\ pos \in 1..(Len(proxy) + 1)
  /\ {current.type, currgtype} \subseteq Types \cup {"NULL"}
  /\ long \subseteq Cells
  /\ r \in 0..(Rows + 1) /\ c \in 0..(Cols + 1)
  /\ changed \subseteq old /\ old \subseteq allocated
  /\ given \in GapNumbers \cup {NoNumber} /\ {field, currRing} \subseteq Fields \cup {NoField}
  /\ data.num \in Int /\ data.den \in Nat
  /\ back.t \in {"none", "int", "other"}

(***************************************************************************)
(* A part that is found is the one the positions stand for, an error means *)
(* that there is none.  (A position that is left over behind an element of *)
(* an ideal or an integer vector is the exception.)  And "currgtype is the *)
(* GAP type of the Singular object current", except for entries of         *)
(* matrices, so Singular takes the data for what it is.                    *)
(***************************************************************************)
LeftOver(o, p) ==
  Len(p) = 2 /\ o.type \in {"ideal", "intvec"} /\ Entry(o, p[1]) # NULL
RightPart ==
  pc = "done" =>
    /\ ~LeftOver(obj, proxy) => /\ error <=> Part(obj, proxy) = NULL
                                /\ current = Part(obj, proxy)
    /\ ~error /\ currgtype # "matrix" => currgtype = current.type

(***************************************************************************)
(* A number of Singular is the element of the field that the number of GAP *)
(* stands for, in the representation Singular compares, whatever range it  *)
(* is in; and it is refused only if there is none, or (documented, "not    *)
(* yet implemented") for other fields than Q and Z/p.                      *)
(***************************************************************************)
NumberRight ==
  (given # NoNumber /\ field # NoField) =>
    \/ data \in ElementOf(field, given)
    \/ data = Refused /\ (ElementOf(field, given) = {} \/ field.kind = "other")

(***************************************************************************)
(* An integer is the same integer in Singular, as an int only if it is one *)
(* there, else in the shortest representation, and GAP gets it back: at    *)
(* the limits of each of the three ranges as well.                         *)
(***************************************************************************)
IntegersKept ==
  (given.t = "int" /\ field = NoField) =>
    /\ \/ data.rep = "int" /\ IntOf(data) = given.num
       \/ data = IntegerIn(given.num)
    /\ back \in {NoNumber, GapInt(given.num)}

(***************************************************************************)
(* What was stored in a list stays there, whenever collections come, also  *)
(* when the list is older than its rows and they are older than their      *)
(* elements; and a list is returned when every place is filled.            *)
(***************************************************************************)
ListsKept ==
  /\ \A e \in elms : /\ e[1] \in allocated
                     /\ Len(e[3]) = 1 \/ e[3] \in long => e[3] \in allocated
  /\ r > Rows => elms = {<<List, k, <<k>>>> : k \in 1..Rows}
                        \cup {<<<<p[1]>>, p[2], p>> : p \in Cells}

=============================================================================
