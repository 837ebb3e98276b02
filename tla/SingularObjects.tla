--------------------------- MODULE SingularObjects ---------------------------
(***************************************************************************)
(* The T_SINGULAR objects that are no ring wrappers: the words of their    *)
(* bags, the Singular data they own, mutability and copies.  The state and *)
(* its operations; LowLevelMappings adds the functions that compute with   *)
(* the objects, and states the specification.                              *)
(*                                                                         *)
(* A bag starts with the type and a pointer to the data.  Objects of a     *)
(* type that may depend on a ring (HasRingTable) keep the ring in the      *)
(* third word.  A bag is as large as its object needs; only attributes, if *)
(* there are any, make it larger.  What a word means is decided by the     *)
(* type, each time the word is read.                                       *)
(***************************************************************************)
EXTENDS Integers, Sequences

CONSTANTS
  Bags,      \* the bags of these objects
  Data,      \* Singular data: polynomials, integer matrices, lists, ...
  Rings,     \* rings, all alive
  Attr,      \* attribute lists
  NULL,      \* the null pointer
  Garbage    \* what lies behind the end of a bag

ASSUME SentinelAssumption == /\ NULL \notin {0, 1} \cup Data \cup Rings \cup Attr
                             /\ Garbage \notin {NULL} \cup Rings \cup Attr

(***************************************************************************)
(* Types, as far as HasRingTable and IsCopyableSingularType tell them      *)
(* apart: intvec, intmat, bigintmat; poly, ideal, matrix, module, vector;  *)
(* list; int, bigint, string, link, package, proc; number, map,            *)
(* resolution.                                                             *)
(***************************************************************************)
Type == {"intmat", "poly", "list", "bigint", "number"}
HasRingTable(t) == t \in {"poly", "list", "number"}
IsCopyableSingularType(t) == t \in {"intmat", "poly", "list"}

VARIABLES
  type,     \* the type of an object without its lowest bit
  imm,      \* the lowest bit of the type: the object is immutable
  mem,      \* the words of the bag, <<>> while it is free
  alive,    \* the Singular data that is allocated
  content,  \* a value that every modification of the data changes
  currRing, \* the current ring of Singular
  \* -- history --
  place,    \* the ring whose memory and tables the data uses, or NULL
  attrs,    \* the attributes an object was made with, or NULL
  shared,   \* data that the kernel handed to a second object
  wild      \* what is no ring, or freed, or of another ring, was used

ovars == <<type, imm, mem, alive, content, currRing, place, attrs, shared, wild>>

Live == {b \in Bags : mem[b] # <<>>}

-----------------------------------------------------------------------------
(* libsing.h: the accessors *)

CXX_SINGOBJ(b) == mem[b][2]
CXXRING_SINGOBJ(b) == IF Len(mem[b]) >= 3 THEN mem[b][3] ELSE Garbage

BaseOfAll(t) == 2
BaseSize(t) == IF HasRingTable(t) THEN 4 ELSE 2

ATTRIB_SINGOBJ(b) ==
  IF Len(mem[b]) <= BaseSize(type[b]) THEN NULL
  ELSE mem[b][BaseSize(type[b]) + 1]

(***************************************************************************)
(* SET_ATTRIB_SINGOBJ: ResizeBag clears the words it adds.                 *)
(***************************************************************************)
WithAttrib(words, t, a) ==
  [i \in 1..(BaseSize(t) + 1) |->
     IF i = BaseSize(t) + 1 THEN a
     ELSE IF i <= Len(words) THEN words[i] ELSE NULL]

NEW_SINGOBJ(d) == <<"type", d>>
NEW_SINGOBJ_RING(d, r) == <<"type", d, r>>

-----------------------------------------------------------------------------
(* Making an object *)

(***************************************************************************)
(* A free bag gets the words, and the wrapper owns the data.  Data that    *)
(* two objects share is never handed out again by the allocator, so that   *)
(* every use after its first release is seen as one.                       *)
(***************************************************************************)
Unused == Data \ (alive \cup shared)

Fill(b, t, i, words, a) ==
  /\ ~wild
  /\ b \in Bags \ Live
  /\ type' = [type EXCEPT ![b] = t]
  /\ imm' = [imm EXCEPT ![b] = i]
  /\ mem' = [mem EXCEPT ![b] =
               IF a = NULL THEN words ELSE WithAttrib(words, t, a)]
  /\ attrs' = [attrs EXCEPT ![b] = a]

(***************************************************************************)
(* gapwrap: r is the ring of the call; it may be missing for a list.       *)
(***************************************************************************)
gapwrap(b, t, d, r, a) ==
  /\ d \in Unused
  /\ HasRingTable(t) /\ t # "list" => r # NULL
  /\ Fill(b, t, ~IsCopyableSingularType(t),
          IF HasRingTable(t) THEN NEW_SINGOBJ_RING(d, r) ELSE NEW_SINGOBJ(d), a)
  /\ alive' = alive \cup {d}
  /\ place' = [place EXCEPT ![d] = IF HasRingTable(t) THEN r ELSE NULL]
  /\ UNCHANGED <<content, currRing, shared, wild>>

(***************************************************************************)
(* _SI_intvec makes immutable objects, _SI_intmat mutable ones.            *)
(***************************************************************************)
_SI_intvec(b, d, i) ==
  /\ d \in Unused
  /\ Fill(b, "intmat", i, NEW_SINGOBJ(d), NULL)
  /\ alive' = alive \cup {d}
  /\ place' = [place EXCEPT ![d] = NULL]
  /\ UNCHANGED <<content, currRing, shared, wild>>

(***************************************************************************)
(* Any other function of the package may change the current ring.          *)
(***************************************************************************)
rChangeCurrRing(q) ==
  /\ ~wild
  /\ currRing' = q
  /\ UNCHANGED <<type, imm, mem, alive, content, place, attrs, shared, wild>>

-----------------------------------------------------------------------------
(* Copies.  (The first definitions of each are for the mutants.)  *)

SharedCopy(d) == {d}
FreshCopy(d) == Unused

(***************************************************************************)
(* The ring of an object, as _SI_ObjMarkFunc, _SI_FreeFunc and CopySingObj *)
(* read it.                                                                *)
(***************************************************************************)
ReadRing(s) == IF HasRingTable(type[s]) THEN CXXRING_SINGOBJ(s) ELSE NULL

NoRingForCopy(s) == NULL
RingForCopy(s) == ReadRing(s)

(***************************************************************************)
(* CopySingObj copies the data in the current ring, which it first changes *)
(* to that of the object if it has one, and wraps the copy with that ring. *)
(***************************************************************************)
CopySingObj(b, s, immutable) ==
  LET r == RingForCopy(s)
      q == IF r # NULL THEN r ELSE currRing
  IN  \E d \in FreshCopy(CXX_SINGOBJ(s)) :
        /\ Fill(b, type[s], immutable,
                IF r # NULL THEN NEW_SINGOBJ_RING(d, r) ELSE NEW_SINGOBJ(d),
                ATTRIB_SINGOBJ(s))
        /\ currRing' = q
        /\ alive' = alive \cup {d}
        /\ content' = [content EXCEPT ![d] = content[CXX_SINGOBJ(s)]]
        /\ place' = [place EXCEPT ![d] =
                       IF place[CXX_SINGOBJ(s)] = NULL THEN NULL ELSE q]
        /\ wild' = (wild \/ r = Garbage \/ CXX_SINGOBJ(s) \notin alive)
        /\ UNCHANGED shared

ShallowCopyObjSingular(b, s) ==
  /\ IsCopyableSingularType(type[s])
  /\ CopySingObj(b, s, FALSE)

CopyObjSingular(b, s, mut) ==
  /\ ~imm[s]
  /\ IsCopyableSingularType(type[s])
  /\ CopySingObj(b, s, ~mut)

MakeImmutableSingObj(s) ==
  /\ ~wild
  /\ imm' = [imm EXCEPT ![s] = TRUE]
  /\ UNCHANGED <<type, mem, alive, content, currRing, place, attrs, shared, wild>>

-----------------------------------------------------------------------------
(* Use and end of an object *)

MayModify(s) == TRUE
Modifiable(s) == ~imm[s]

(***************************************************************************)
(* SI_SetMatElm refuses an immutable matrix.  Of the types it accepts,     *)
(* "poly" stands for matrix: the value v is a polynomial over the ring of  *)
(* the matrix, and the old entry, unless it is zero, is deleted in the     *)
(* current ring, whichever that is.                                        *)
(***************************************************************************)
SI_SetMatElm(s) ==
  LET d == CXX_SINGOBJ(s)
  IN  /\ ~wild
      /\ Modifiable(s)
      /\ content' = [content EXCEPT ![d] = 1 - @]
      /\ \/ /\ type[s] = "intmat"
            /\ wild' = (d \notin alive)
         \/ \E v \in Live \ {s}, oldIsZero \in BOOLEAN :
              /\ type[s] = "poly" /\ type[v] = "poly"
              /\ CXXRING_SINGOBJ(v) = CXXRING_SINGOBJ(s)
              /\ wild' = \/ {d, CXX_SINGOBJ(v)} \ alive # {}
                         \/ ~oldIsZero /\ place[d] # currRing
      /\ UNCHANGED <<type, imm, mem, alive, currRing, place, attrs, shared>>

(***************************************************************************)
(* A collection marks the ring of an object it keeps, and frees the data   *)
(* of one it does not keep.                                                *)
(***************************************************************************)
_SI_ObjMarkFunc(s) ==
  /\ ~wild
  /\ ReadRing(s) = Garbage
  /\ wild' = TRUE
  /\ UNCHANGED <<type, imm, mem, alive, content, currRing, place, attrs, shared>>

_SI_FreeFunc(s) ==
  LET d == CXX_SINGOBJ(s)
  IN  /\ ~wild
      /\ mem' = [mem EXCEPT ![s] = <<>>]
      /\ alive' = alive \ {d}
      /\ content' = [content EXCEPT ![d] = 0]
      /\ place' = [place EXCEPT ![d] = NULL]
      /\ imm' = [imm EXCEPT ![s] = FALSE]
      /\ type' = [type EXCEPT ![s] = "bigint"]
      /\ attrs' = [attrs EXCEPT ![s] = NULL]
      /\ wild' = (ReadRing(s) = Garbage \/ d \notin alive)
      /\ UNCHANGED <<currRing, shared>>

-----------------------------------------------------------------------------

ObjectsInit ==
  /\ type = [b \in Bags |-> "bigint"]
  /\ imm = [b \in Bags |-> FALSE]
  /\ mem = [b \in Bags |-> <<>>]
  /\ alive = {}
  /\ content = [d \in Data |-> 0]
  /\ currRing = NULL
  /\ place = [d \in Data |-> NULL] /\ attrs = [b \in Bags |-> NULL]
  /\ shared = {}
  /\ wild = FALSE

ObjectsNext ==
  \/ \E b \in Bags, t \in Type, d \in Data, r \in Rings \cup {NULL},
        a \in Attr \cup {NULL} : gapwrap(b, t, d, r, a)
  \/ \E b \in Bags, d \in Data, i \in BOOLEAN : _SI_intvec(b, d, i)
  \/ \E b \in Bags, s \in Live : ShallowCopyObjSingular(b, s)
  \/ \E b \in Bags, s \in Live, mut \in BOOLEAN : CopyObjSingular(b, s, mut)
  \/ \E s \in Live : \/ MakeImmutableSingObj(s)
                     \/ SI_SetMatElm(s)
                     \/ _SI_ObjMarkFunc(s)
                     \/ _SI_FreeFunc(s)
  \/ \E q \in Rings : rChangeCurrRing(q)

=============================================================================
