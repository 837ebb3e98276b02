----------------------------- MODULE SubObjects -----------------------------
(***************************************************************************)
(* Proxy objects: GAP names a part of a Singular object by one or two      *)
(* positions, and FOLLOW_SUBOBJ finds that part when the proxy is used,    *)
(* one position or pair of positions after the other.  What it gives back  *)
(* to SingObj::init is a pointer and, apart from it, the type it has       *)
(* found: Singular will take the data for what the type says.              *)
(***************************************************************************)
EXTENDS Integers, Sequences

CONSTANTS
  Objects,  \* the Singular objects of the wrappers
  MaxIndex, \* bound on positions
  Big       \* a positive integer of GAP that is no immediate one

ASSUME BoundsAssumption == MaxIndex \in Nat /\ Big \notin 1..MaxIndex

(***************************************************************************)
(* An object has a type, a shape and parts; parts of lists are objects of  *)
(* any type, other parts have none.  NULL is a null pointer.               *)
(***************************************************************************)
Leaf(t, v) == [type |-> t, rows |-> 0, cols |-> 0, parts |-> <<>>, value |-> v]
Vector(t, parts) == [type |-> t, rows |-> Len(parts), cols |-> 1,
                     parts |-> parts, value |-> 0]
Matrix(t, m, n, parts) == [type |-> t, rows |-> m, cols |-> n,
                           parts |-> parts, value |-> 0]
NULL == Leaf("NULL", 0)

(***************************************************************************)
(* The types GAP has numbers for.                                          *)
(***************************************************************************)
Types == {"bigint", "bigintmat", "def", "ideal", "int", "intmat", "intvec",
          "link", "list", "map", "matrix", "module", "number", "package", "poly",
          "proc", "qring", "resolution", "ring", "string", "vector"}

(***************************************************************************)
(* What Singular keeps to: the entries of ideals, integer vectors and      *)
(* matrices all have one type, those of lists any, and sizes are of the C  *)
(* type int, so that immediate integers of GAP reach every place.          *)
(***************************************************************************)
EntryType == [ideal |-> "poly", intvec |-> "int", matrix |-> "poly",
              intmat |-> "int", bigintmat |-> "bigint"]
Sound(o) ==
  /\ o.type \in Types
  /\ \A n \in {o.rows, o.cols} : n \in Nat /\ Big \notin 1..n
  /\ o.type \in {"ideal", "intvec"} => o.cols = 1
  /\ o.type \in DOMAIN EntryType =>
       \A k \in 1..(o.rows * o.cols) : o.parts[k].type = EntryType[o.type]
  /\ o.type = "list" => \A k \in 1..o.rows : o.parts[k].type \in Types
ASSUME ObjectsAssumption ==
  \A o \in Objects :
    Sound(o) /\ (o.type = "list" => \A k \in 1..o.rows : Sound(o.parts[k]))

Index == 1..MaxIndex \cup {Big}
Proxies == {<<i>> : i \in Index} \cup (Index \X Index)

VARIABLES
  pc,        \* "gap" or "follow"
  obj,       \* the object of the wrapper
  proxy,     \* the positions of the proxy
  pos,       \* the next position to look at
  current,   \* the object the pointer refers to
  currgtype, \* the type FOLLOW_SUBOBJ gives it
  error      \* an error was set

fvars == <<pc, obj, proxy, pos, current, currgtype, error>>

IsIntObj(i) == i # Big
None == Len(proxy) < pos

-----------------------------------------------------------------------------

(***************************************************************************)
(* A proxy is an argument of a call.                                       *)
(***************************************************************************)
Use(o, p) ==
  /\ pc = "gap"
  /\ pc' = "follow"
  /\ obj' = o /\ proxy' = p
  /\ pos' = 1 /\ current' = o /\ currgtype' = o.type /\ error' = FALSE

Finish(part, t) ==
  /\ pc' = "done" /\ current' = part /\ currgtype' = t
  /\ UNCHANGED <<obj, proxy, pos, error>>

SetError ==
  /\ pc' = "done" /\ current' = NULL /\ error' = TRUE
  /\ UNCHANGED <<obj, proxy, pos, currgtype>>

EndOfPositions == pc = "follow" /\ None /\ Finish(current, currgtype)

Step(types) == pc = "follow" /\ ~None /\ currgtype \in types

NotImmediate ==
  /\ pc = "follow" /\ ~None /\ ~IsIntObj(proxy[pos])
  /\ SetError

(***************************************************************************)
(* Ideals and integer vectors have one position, matrices of all kinds     *)
(* two.  (BelowLength, ColumnWise, PairPos and OuterType are ways to get   *)
(* it wrong.)                                                              *)
(***************************************************************************)
BelowLength(i) == i < current.rows
InLength(i) == i <= current.rows

PartType(t) == CASE t = "ideal" -> "poly" [] t = "intvec" -> "int"
                 [] t = "intmat" -> "int" [] t = "bigintmat" -> "bigint"
                 [] t = "matrix" -> "matrix"

FollowVector ==
  /\ Step({"ideal", "intvec"}) /\ IsIntObj(proxy[pos])
  /\ IF InLength(proxy[pos])
     THEN Finish(current.parts[proxy[pos]], PartType(currgtype))
     ELSE SetError

ColumnWise(row, col) == (col - 1) * current.rows + row
RowWise(row, col) == (row - 1) * current.cols + col

FollowMatrix ==
  /\ Step({"matrix", "intmat", "bigintmat"}) /\ IsIntObj(proxy[pos])
  /\ IF /\ pos + 1 <= Len(proxy) /\ IsIntObj(proxy[pos + 1])
        /\ proxy[pos] <= current.rows /\ proxy[pos + 1] <= current.cols
     THEN Finish(current.parts[RowWise(proxy[pos], proxy[pos + 1])],
                 PartType(currgtype))
     ELSE SetError

(***************************************************************************)
(* Only a list is followed further.                                        *)
(***************************************************************************)
PairPos == pos + 2
NextPos == pos + 1
OuterType(part) == currgtype
TypeOfPart(part) == part.type

FollowList ==
  /\ Step({"list"}) /\ IsIntObj(proxy[pos])
  /\ IF InLength(proxy[pos])
     THEN /\ current' = current.parts[proxy[pos]]
          /\ currgtype' = TypeOfPart(current.parts[proxy[pos]])
          /\ pos' = NextPos
          /\ UNCHANGED <<pc, obj, proxy, error>>
     ELSE SetError

NoSubobjects ==
  /\ pc = "follow" /\ ~None /\ IsIntObj(proxy[pos])
  /\ currgtype \notin {"ideal", "intvec", "matrix", "intmat", "bigintmat", "list"}
  /\ SetError

(***************************************************************************)
(* The call has taken the part, or was refused.                            *)
(***************************************************************************)
Done ==
  /\ pc = "done" /\ pc' = "gap"
  /\ obj' = NULL /\ proxy' = <<>> /\ pos' = 1
  /\ current' = NULL /\ currgtype' = "NULL" /\ error' = FALSE

FollowInit ==
  /\ pc = "gap" /\ obj = NULL /\ proxy = <<>> /\ pos = 1
  /\ current = NULL /\ currgtype = "NULL" /\ error = FALSE

FollowNext ==
  \/ \E o \in Objects, p \in Proxies : Use(o, p)
  \/ EndOfPositions \/ NotImmediate
  \/ FollowVector \/ FollowMatrix \/ FollowList \/ NoSubobjects
  \/ Done

-----------------------------------------------------------------------------
(* The part that positions stand for                                       *)

Entry(o, i) ==
  IF o.type \in {"ideal", "intvec", "list"} /\ i \in 1..o.rows THEN o.parts[i]
  ELSE NULL
EntryAt(o, i, j) ==
  IF i \in 1..o.rows /\ j \in 1..o.cols THEN o.parts[(i - 1) * o.cols + j] ELSE NULL

Part(o, p) ==
  CASE Len(p) = 0 -> o
    [] Len(p) = 1 -> Entry(o, p[1])
    [] Len(p) = 2 -> IF o.type \in {"matrix", "intmat", "bigintmat"}
                     THEN EntryAt(o, p[1], p[2])
                     ELSE Entry(Entry(o, p[1]), p[2])

=============================================================================
