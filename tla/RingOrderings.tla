---------------------------- MODULE RingOrderings ----------------------------
(***************************************************************************)
(* How SI_ring turns a list of orderings into the blocks of a Singular     *)
(* ring: the method of ring.gi adds a default module ordering, then        *)
(* Func_SI_ring checks the orderings one by one and, when they cover the   *)
(* variables, goes through them again to compute the blocks.               *)
(*                                                                         *)
(* Only the number of variables matters, not their names, and of a list of *)
(* weights only its length.  Integers are small enough for the C type int. *)
(***************************************************************************)
EXTENDS Integers, Sequences

CONSTANTS
  Entries,    \* the orderings GAP may pass
  MaxVars,    \* bound on the number of variables
  MaxOrds     \* bound on the orderings GAP passes

(***************************************************************************)
(* The name of an ordering: "w" stands for wp, Wp, ws, Ws, "w?" for a name *)
(* of two letters starting with w or W that Singular does not know, "c"    *)
(* for c and C, "d" for lp, rp, dp, Dp, ls, rs, ds, Ds, "?" for any other  *)
(* name of one or two letters, and "bad" for what is no such name.         *)
(* What follows it is nothing, an integer, a list of integers, or another  *)
(* GAP object; n is the integer or the length of the list.                 *)
(***************************************************************************)
Name == {"M", "a", "w", "w?", "c", "d", "?", "bad"}
Spec_ == [tag : {"none", "int", "list", "other"}, n : Int]
Ordering == [name : Name, spec : Spec_]

ASSUME EntriesAssumption ==
  Entries \subseteq Ordering /\ \A e \in Entries : e.spec.tag = "list" => e.spec.n \in Nat
ASSUME BoundsAssumption == MaxVars \in Nat \ {0} /\ MaxOrds \in Nat \ {0}

VARIABLES
  pc,         \* "gap", "check", "build", "made" or "error"
  nrvars,     \* number of variables
  orderings,  \* the orderings, as GAP passes them
  i,          \* the ordering the loop is at
  covered,    \* the variables covered so far
  cPresent,   \* c_ord_is_present
  blocks,     \* ord, block0, block1 and the length of wvhdl
  err         \* why the call failed

vars == <<pc, nrvars, orderings, i, covered, cPresent, blocks, err>>

Entry(name, tag, n) == [name |-> name, spec |-> [tag |-> tag, n |-> n]]

-----------------------------------------------------------------------------
(* GAP: the list of orderings, and the methods of ring.gi *)

AddOrdering(e) ==
  /\ pc = "gap" /\ Len(orderings) < MaxOrds
  /\ orderings' = Append(orderings, e)
  /\ UNCHANGED <<pc, nrvars, i, covered, cPresent, blocks, err>>

AddModuleOrdering(ords) ==
  IF \A k \in 1..Len(ords) : ords[k].name # "c"
  THEN Append(ords, Entry("c", "int", 0)) ELSE ords

Call(n, ords) ==
  /\ pc = "gap"
  /\ nrvars' = n
  /\ orderings' = ords
  /\ i' = 1 /\ covered' = 0 /\ cPresent' = FALSE /\ blocks' = <<>>
  /\ IF n = 0 THEN pc' = "error" /\ err' = "empty"
              ELSE pc' = "check" /\ err' = "none"

(***************************************************************************)
(* The methods parse names given as a string.  An empty list is a string   *)
(* of GAP, and an empty string stands for one dummy variable; a string of  *)
(* spaces (blank) is not empty and names no variable.  Without orderings   *)
(* the names are parsed first, and the method with orderings, which then   *)
(* gets a list of them, parses them again if the list is empty.            *)
(***************************************************************************)
_ParseIndeterminatesDescription(n, blank) == IF n = 0 /\ ~blank THEN 1 ELSE n

SI_ring(n, blank, ords) ==
  Call(_ParseIndeterminatesDescription(n, blank), AddModuleOrdering(ords))
SI_ringDefault(n, blank) ==
  LET parsed == _ParseIndeterminatesDescription(n, blank)
  IN  SI_ring(parsed, FALSE, <<Entry("d", "int", parsed)>>)
_SI_ring(n) == Call(n, orderings)

-----------------------------------------------------------------------------
(* Func_SI_ring: the check.  (The first definitions are for the mutants.)  *)

Isqrt(n) == CHOOSE q \in 0..n : q * q <= n /\ (q + 1) * (q + 1) > n

(***************************************************************************)
(* covered += std::sqrt(n): the sum is rounded towards zero.               *)
(***************************************************************************)
PlusSqrt(c, n) == LET q == Isqrt(n) IN
  IF q * q = n \/ c + q >= 0 THEN c + q ELSE c + q + 1

AnySpec(e) == TRUE
SpecAccepted(e) ==
  CASE e.name = "bad"                  -> FALSE
    [] e.name \in {"M", "a", "w", "w?"} -> e.spec.tag = "list"
    [] e.name = "c"                    -> TRUE
    [] OTHER                           -> e.spec.tag = "int"

CoversLength(c, e) == IF e.name \in {"a", "c"} THEN c ELSE c + e.spec.n
Covers(c, e) ==
  CASE e.name = "M"            -> PlusSqrt(c, e.spec.n)
    [] e.name \in {"a", "c"}   -> c
    [] OTHER                   -> c + e.spec.n

Fail(why) == /\ pc' = "error" /\ err' = why
             /\ UNCHANGED <<nrvars, orderings, i, covered, cPresent,
                            blocks>>

CheckOrdering ==
  /\ pc = "check" /\ i <= Len(orderings)
  /\ LET e == orderings[i] IN
       IF ~SpecAccepted(e) THEN Fail("specification")
       ELSE IF e.name = "c" /\ cPresent THEN Fail("twice")
       ELSE /\ covered' = Covers(covered, e)
            /\ cPresent' = (cPresent \/ e.name = "c")
            /\ i' = i + 1
            /\ UNCHANGED <<pc, nrvars, orderings, blocks, err>>

CheckDone ==
  /\ pc = "check" /\ i > Len(orderings)
  /\ IF covered # nrvars THEN Fail("coverage")
     ELSE /\ pc' = "build" /\ i' = 1 /\ covered' = 0
          /\ UNCHANGED <<nrvars, orderings, cPresent, blocks, err>>

-----------------------------------------------------------------------------
(* Func_SI_ring: the blocks *)

NameAsGiven(name) == name
rOrderName(name) == IF name \in {"w?", "?"} THEN "d" ELSE name

(***************************************************************************)
(* Only a block given by an integer moves the start of the next one.       *)
(***************************************************************************)
NeverAdvances(c, e) == c
Advance(c, e) == IF e.spec.tag = "int" THEN c + e.spec.n ELSE c

Block(c, e) == [ord    |-> rOrderName(e.name),
                block0 |-> c + 1,
                block1 |-> c + e.spec.n,
                wvhdl  |-> IF e.spec.tag = "list" THEN e.spec.n ELSE 0]

(***************************************************************************)
(* ELM_LIST(tmp, 2) and LEN_LIST are errors of GAP when there is no second *)
(* entry, or when it is not a list.                                        *)
(***************************************************************************)
BuildBlock ==
  /\ pc = "build" /\ i <= Len(orderings)
  /\ LET e == orderings[i] IN
       IF e.spec.tag \in {"none", "other"} THEN Fail("entry")
       ELSE /\ blocks' = Append(blocks, Block(covered, e))
            /\ covered' = Advance(covered, e)
            /\ i' = i + 1
            /\ UNCHANGED <<pc, nrvars, orderings, cPresent, err>>

BuildDone ==
  /\ pc = "build" /\ i > Len(orderings)
  /\ pc' = "made"
  /\ UNCHANGED <<nrvars, orderings, i, covered, cPresent, blocks, err>>

-----------------------------------------------------------------------------
(* The specification *)

Init ==
  /\ pc = "gap" /\ nrvars = 0 /\ orderings = <<>>
  /\ i = 1 /\ covered = 0 /\ cPresent = FALSE
  /\ blocks = <<>> /\ err = "none"

Again ==
  /\ pc \in {"made", "error"}
  /\ pc' = "gap" /\ nrvars' = 0 /\ orderings' = <<>>
  /\ i' = 1 /\ covered' = 0 /\ cPresent' = FALSE
  /\ blocks' = <<>> /\ err' = "none"

Next ==
  \/ \E e \in Entries : AddOrdering(e)
  \/ \E n \in 0..MaxVars, blank \in BOOLEAN :
       /\ blank => n = 0
       /\ SI_ring(n, blank, orderings) \/ SI_ringDefault(n, blank)
  \/ \E n \in 0..MaxVars : _SI_ring(n)
  \/ CheckOrdering \/ CheckDone
  \/ BuildBlock \/ BuildDone
  \/ Again

Spec == Init /\ [][Next]_vars

-----------------------------------------------------------------------------
(* Properties *)

BlockOfVars == [ord : Name \ {"w?", "?", "bad"}, block0 : Int, block1 : Int, wvhdl : Nat]

(***************************************************************************)
(* Type invariant of SI_ring (cxxfuncs.cc, ring.gi).                       *)
(***************************************************************************)
TypeOK ==
  /\ pc \in {"gap", "check", "build", "made", "error"}
  /\ nrvars \in 0..MaxVars
  /\ orderings \in Seq(Ordering) /\ Len(orderings) <= MaxOrds + 1
  /\ i \in 1..(Len(orderings) + 1) /\ covered \in Int
  /\ cPresent \in BOOLEAN
  /\ blocks \in Seq(BlockOfVars)

(***************************************************************************)
(* The blocks that order variables, the blocks of a and c do not, and how  *)
(* they should divide the variables.                                       *)
(***************************************************************************)
Ordered == {k \in 1..Len(blocks) : blocks[k].ord \in {"M", "w", "d"}}
BlockVars(k) == blocks[k].block0..blocks[k].block1
Partition ==
  /\ UNION {BlockVars(k) : k \in Ordered} = 1..nrvars
  /\ \A k, l \in Ordered : k # l => BlockVars(k) \cap BlockVars(l) = {}

Sizes(ns) == \A k \in 1..Len(orderings) :
               orderings[k].spec.tag = "int" =>
                 IF orderings[k].name = "c" THEN orderings[k].spec.n = 0
                 ELSE orderings[k].spec.n \in ns
NoListFor(ns) == \A k \in 1..Len(orderings) :
                   orderings[k].spec.tag = "list" => orderings[k].name \notin ns
WeightsLast == \A k, l \in 1..Len(orderings) :
                 (k < l /\ orderings[k].name \in {"w", "w?"}) =>
                   orderings[l].name \in {"a", "c"}

(***************************************************************************)
(* The blocks of a ring divide its variables, if sizes are not negative,   *)
(* no matrix ordering is used, and a block with weights is the last one.   *)
(***************************************************************************)
WeightsLastPartition ==
  (pc = "made" /\ Sizes(Nat) /\ NoListFor({"M", "c"}) /\ WeightsLast)
    => Partition

(***************************************************************************)
(* "The orderings cover exactly all variables": the same, with blocks of   *)
(* weights anywhere.                                                       *)
(***************************************************************************)
WeightBlocksPartition ==
  (pc = "made" /\ Sizes(Nat) /\ NoListFor({"M", "c"})) => Partition

(***************************************************************************)
(* The verdict on coverage agrees with the sum of the sizes, negative ones *)
(* included: a matrix of n*n entries covers n variables.  (Matrices of     *)
(* another shape are left out.)                                            *)
(***************************************************************************)
Size(e) == CASE e.name \in {"a", "c"} -> 0
             [] e.name = "M" -> CHOOSE q \in 0..e.spec.n : q * q = e.spec.n
             [] OTHER -> e.spec.n
SizeSum[k \in 0..Len(orderings)] ==
  IF k = 0 THEN 0 ELSE SizeSum[k - 1] + Size(orderings[k])
Square(n) == \E q \in 0..n : q * q = n
SquareMatrices == \A k \in 1..Len(orderings) :
                    orderings[k].name = "M" => Square(orderings[k].spec.n)
CoverageRight ==
  (pc \in {"made", "error"} /\ err \in {"none", "coverage"} /\ SquareMatrices)
    => ((err = "none") <=> SizeSum[Len(orderings)] = nrvars)

(***************************************************************************)
(* Orderings that passed the check are not refused any more, after the     *)
(* arrays were allocated, unless c or C is followed by nothing or by       *)
(* something that is neither an integer nor a list.                        *)
(***************************************************************************)
RefusedOnlyForC ==
  err = "entry" =>
    \E k \in 1..Len(orderings) :
      orderings[k].name = "c" /\ orderings[k].spec.tag \in {"none", "other"}

=============================================================================
