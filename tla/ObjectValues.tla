---------------------------- MODULE ObjectValues ----------------------------
(***************************************************************************)
(* What GAP may rely on when it computes with objects of Singular: each is *)
(* a value of its own.  It keeps its type as long as it exists, becomes    *)
(* immutable but never mutable again, and its value changes only by an     *)
(* operation on this very object while it is mutable: nothing that is made *)
(* from it, freed or modified elsewhere shows in it.  Objects that a       *)
(* function entangles lose all claims on their values.                     *)
(***************************************************************************)

CONSTANTS
  Objects,  \* the objects there may be
  Types,    \* the types of objects
  Values,   \* values
  Lost      \* the value of an object that shares its data

VARIABLE object  \* its type, mutability and value, or Free

Free == [type |-> "free", imm |-> FALSE, value |-> Lost]
Object == [type : Types, imm : BOOLEAN, value : Values]
Exists(b) == object[b].type # "free"

Init == object = [b \in Objects |-> Free]

(***************************************************************************)
(* b becomes one of S, and nothing else changes.                           *)
(***************************************************************************)
Becomes(b, S) ==
  /\ object'[b] \in S
  /\ object' = [object EXCEPT ![b] = object'[b]]

Make(b) == ~Exists(b) /\ Becomes(b, Object)
MakeImmutable(b) == Exists(b) /\ Becomes(b, {[object[b] EXCEPT !.imm = TRUE]})
Modify(b) == /\ Exists(b) /\ ~object[b].imm /\ object[b].value # Lost
             /\ Becomes(b, {[object[b] EXCEPT !.value = v] : v \in Values})
Delete(b) == Exists(b) /\ Becomes(b, {Free})

(***************************************************************************)
(* A function returns what it was given: the new object, which is mutable, *)
(* and the old one are entangled.                                          *)
(***************************************************************************)
Entangle(b, s) ==
  /\ ~Exists(b) /\ Exists(s)
  /\ object'[b] \in [type : Types, imm : {FALSE}, value : {Lost}]
  /\ object' = [object EXCEPT ![b] = object'[b], ![s].value = Lost]

(***************************************************************************)
(* In each step one object changes, or comes into being.                   *)
(***************************************************************************)
Next == \E b \in Objects :
  /\ object'[b] # object[b]
  /\ \/ Make(b) \/ MakeImmutable(b) \/ Modify(b) \/ Delete(b)
     \/ \E s \in Objects : Entangle(b, s)

Spec == Init /\ [][Next]_object
=============================================================================
