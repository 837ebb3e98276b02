------------------------------ MODULE GapLists ------------------------------
(***************************************************************************)
(* Matrices of Singular as lists of lists of GAP: the functions make a     *)
(* list, row lists, and integers that may need bags of their own, and any  *)
(* of these allocations may start a collection of the generational         *)
(* collector of GAP.                                                       *)
(***************************************************************************)
EXTENDS Integers

CONSTANTS
  Rows, Cols   \* the size of the matrix

ASSUME SizeAssumption == Rows \in Nat \ {0} /\ Cols \in Nat \ {0}

(***************************************************************************)
(* The bags: the list <<>>, its rows <<r>>, and the long integers in the   *)
(* rows <<r, c>>.                                                          *)
(***************************************************************************)
List == <<>>
Cells == (1..Rows) \X (1..Cols)

VARIABLES
  long,      \* the places of long integers
  r, c,      \* the row and the column to come
  allocated, \* the bags that exist
  old,       \* the bags that survived a collection
  changed,   \* the old bags reported since
  elms       \* <<bag, place, element>>: the lists so far

lvars == <<long, r, c, allocated, old, changed, elms>>

Building == r > 0
tmp == <<r>>

-----------------------------------------------------------------------------

(***************************************************************************)
(* GASMAN (NotChanged forgets to tell it).                                 *)
(***************************************************************************)
NotChanged(b) == changed
CHANGED_BAG(b) == changed \cup ({b} \cap old)

Elements(S) == {e[3] : e \in {x \in elms : x[1] \in S}} \cap allocated
Below(S) == S \cup Elements(S) \cup Elements(Elements(S))

(***************************************************************************)
(* The variables ret and tmp of the function are on the stack.             *)
(***************************************************************************)
OnStack == {List, tmp} \cap allocated

Collect(full) ==
  LET young == allocated \ old
      S == IF full THEN Below(OnStack)
           ELSE old \cup (Below((OnStack \cup Elements(changed)) \cap young))
  IN  /\ Building
      /\ allocated' = S /\ old' = S /\ changed' = {}
      /\ UNCHANGED <<long, r, c, elms>>

NEW_PLIST(b) == allocated' = allocated \cup {b}
SET_ELM_PLIST(b, i, e) == elms' = elms \cup {<<b, i, e>>}

ToList(places) ==
  /\ ~Building /\ allocated = {}
  /\ long' = places
  /\ r' = 1 /\ c' = 0
  /\ NEW_PLIST(List)
  /\ UNCHANGED <<old, changed, elms>>

NewRow ==
  /\ Building /\ r <= Rows /\ c = 0
  /\ c' = 1
  /\ NEW_PLIST(tmp)
  /\ SET_ELM_PLIST(List, r, tmp)
  /\ changed' = CHANGED_BAG(List)
  /\ UNCHANGED <<long, r, old>>

NextElm ==
  /\ Building /\ c \in 1..Cols
  /\ IF <<r, c>> \in long THEN NEW_PLIST(<<r, c>>) ELSE UNCHANGED allocated
  /\ SET_ELM_PLIST(tmp, c, <<r, c>>)
  /\ changed' = CHANGED_BAG(tmp)
  /\ c' = c + 1
  /\ UNCHANGED <<long, r, old>>

EndOfRow ==
  /\ Building /\ c > Cols
  /\ r' = r + 1 /\ c' = 0
  /\ UNCHANGED <<long, allocated, old, changed, elms>>

Return ==
  /\ Building /\ r > Rows
  /\ r' = 0
  /\ long' = {} /\ allocated' = {} /\ old' = {} /\ changed' = {} /\ elms' = {}
  /\ UNCHANGED c

ListsInit ==
  /\ long = {} /\ r = 0 /\ c = 0
  /\ allocated = {} /\ old = {} /\ changed = {} /\ elms = {}

ListsNext ==
  \/ \E places \in SUBSET Cells : ToList(places)
  \/ \E full \in BOOLEAN : Collect(full)
  \/ NewRow \/ NextElm \/ EndOfRow \/ Return

=============================================================================
