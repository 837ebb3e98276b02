---------------------------- MODULE RingLifetimes ----------------------------
(***************************************************************************)
(* What GAP and the interpreter may rely on: a ring lives from the moment  *)
(* it is made until the last of its holders releases it, at once then, and *)
(* never longer than that unless it was pinned.  An object is made in a    *)
(* ring that somebody holds, and the last holder never leaves while the    *)
(* ring has objects, so every object is freed in a living ring.            *)
(***************************************************************************)
EXTENDS Integers

CONSTANTS
  Rings,    \* the rings there may ever be
  Objects   \* the objects there may be at a time

VARIABLES
  life,     \* a ring is not made yet, alive or dead
  holders,  \* how many hold it
  objects,  \* the objects computed in it
  pinned    \* rings that are never deleted

Init ==
  /\ life = [r \in Rings |-> "none"]
  /\ holders = [r \in Rings |-> 0]
  /\ objects = [r \in Rings |-> {}]
  /\ pinned = {}

Make(r) ==
  /\ life[r] = "none"
  /\ life' = [life EXCEPT ![r] = "alive"]
  /\ holders' = [holders EXCEPT ![r] = 1]
  /\ pinned' \in {pinned, pinned \cup {r}}
  /\ UNCHANGED objects

Hold(r) ==
  /\ life[r] = "alive"
  /\ holders' = [holders EXCEPT ![r] = @ + 1]
  /\ UNCHANGED <<life, objects, pinned>>

Release(r) ==
  /\ holders[r] > 0
  /\ holders[r] = 1 => objects[r] = {}
  /\ holders' = [holders EXCEPT ![r] = @ - 1]
  /\ life' = IF holders[r] = 1 /\ r \notin pinned
             THEN [life EXCEPT ![r] = "dead"] ELSE life
  /\ UNCHANGED <<objects, pinned>>

Compute(r, o) ==
  /\ life[r] = "alive" /\ holders[r] > 0
  /\ \A q \in Rings : o \notin objects[q]
  /\ objects' = [objects EXCEPT ![r] = @ \cup {o}]
  /\ UNCHANGED <<life, holders, pinned>>

Free(r, o) ==
  /\ life[r] = "alive"
  /\ o \in objects[r]
  /\ objects' = [objects EXCEPT ![r] = @ \ {o}]
  /\ UNCHANGED <<life, holders, pinned>>

Next == \E r \in Rings : \/ Make(r) \/ Hold(r) \/ Release(r)
                         \/ \E o \in Objects : Compute(r, o) \/ Free(r, o)

Spec == Init /\ [][Next]_<<life, holders, objects, pinned>>
=============================================================================
