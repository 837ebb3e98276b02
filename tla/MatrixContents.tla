--------------------------- MODULE MatrixContents ---------------------------
(***************************************************************************)
(* What GAP may rely on when it makes a matrix of Singular from elements   *)
(* and then sets entries of it: the entries are the elements, each at its  *)
(* place, or the whole request is refused and nothing has happened.        *)
(***************************************************************************)
CONSTANTS
  Element,  \* what may be an entry: its ring and its value
  Bad       \* anything that may not

VARIABLES
  given,    \* the matrix GAP has asked for, or None
  entry     \* the matrix that was made, or None

None == <<>>
Entries(f) == {f[p] : p \in DOMAIN f}
Compatible(S) == Bad \notin S /\ \A e, f \in S : e.ring = f.ring

Init == given = None /\ entry = None

Ask == /\ given = None /\ entry = None
       /\ given' # None /\ \A p \in DOMAIN given' : given'[p] \in Element \cup {Bad}
       /\ UNCHANGED entry

Deliver == /\ given # None /\ Compatible(Entries(given))
           /\ entry' = given /\ given' = None

Refuse == /\ given # None /\ ~Compatible(Entries(given))
          /\ given' = None /\ UNCHANGED entry

SetElm(p, e) == /\ entry # None /\ p \in DOMAIN entry
                /\ Compatible(Entries(entry) \cup {e})
                /\ entry' = [entry EXCEPT ![p] = e]
                /\ UNCHANGED given

Drop == entry # None /\ entry' = None /\ UNCHANGED given

Next == \/ Ask \/ Deliver \/ Refuse \/ Drop
        \/ \E p \in DOMAIN entry, e \in Element : SetElm(p, e)

Spec == Init /\ [][Next]_<<given, entry>>
=============================================================================
