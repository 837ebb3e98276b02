---------------------------- MODULE SingularCalls ----------------------------
(***************************************************************************)
(* The calls of GAP into the Singular interpreter: SI_CallFunc1, 2, 3 and  *)
(* M, SI_CallProc and SI_EVALUATE.                                         *)
(*                                                                         *)
(* A call puts the data of its arguments into parameter slots, hidden      *)
(* identifiers of the interpreter that every call uses again, runs a       *)
(* function, a procedure or a string, and wraps the results.  Procedures   *)
(* and strings need an identifier of the current ring: when there is none  *)
(* a fake one is entered for the time of the call.  The destructors of the *)
(* C++ objects on the stack take all of it back, unless ErrorQuit leaves   *)
(* the call by a longjmp.                                                  *)
(*                                                                         *)
(* Ring wrappers that GAP has stay: module SingularWrappers is about       *)
(* their collection.                                                       *)
(***************************************************************************)
EXTENDS Integers, Sequences, FiniteSets

CONSTANTS
  Rings,      \* ring structures
  GapRings,   \* those made by SI_ring; the others are declared in Singular
  NoRing,     \* the NULL ring
  MaxArgs,    \* bound on the arguments of a call, and so on the slots
  MaxResults, \* bound on the results of a procedure
  MaxTemps    \* bound on the temporary objects allocated at any time

ASSUME RingsAssumption == GapRings \subseteq Rings /\ NoRing \notin Rings
ASSUME BoundsAssumption == MaxArgs \in Nat /\ MaxResults \in Nat
                           /\ MaxTemps \in Nat

(***************************************************************************)
(* An argument: "plain" has no ring and borrows its data (a small integer, *)
(* an object without a ring, a proxy for a part of such an object), "temp" *)
(* is converted to a new Singular object (a large integer, a string),      *)
(* "object" depends on a ring (itself or as a proxy for one of its parts), *)
(* "ringless" is a list of a type that may depend on a ring, without one,  *)
(* and "ring" is a ring wrapper.  A "bad" argument is refused: a GAP       *)
(* object that is not Singular's (ring NoRing), or a proxy for a part that *)
(* the object of that ring does not have.                                  *)
(***************************************************************************)
Arg == [kind : {"plain", "temp", "ringless"}, ring : {NoRing}]
         \cup [kind : {"object", "ring"}, ring : Rings]
BadArg == [kind : {"bad"}, ring : Rings \cup {NoRing}]
Empty == [kind |-> "empty", ring |-> NoRing]

(***************************************************************************)
(* A result: "plain", "ringdep" (RingDependend()), a ring, or "unknown", a *)
(* type SingtoGAPType does not have.                                       *)
(***************************************************************************)
Result == [kind : {"plain", "ringdep", "unknown"}, ring : {NoRing}]
            \cup [kind : {"ring"}, ring : Rings]

VARIABLES
  sg,       \* Singular: a record, see Singular below
  slots,    \* the identifiers " libsing param i "
  wrapped,  \* the rings with a wrapper in GAP
  temps,    \* temporary objects allocated by SingObj::init
  \* -- the call on the stack --
  pc,       \* "gap", "init" (arguments), "start", "run" (string), "wrap"
  op,       \* "none", "func", "proc" or "eval"
  r,        \* the local variable r
  sing,     \* the SingularIdHdl objects, as the arguments they hold
  tmpHdl,   \* TempSetCurrRing has entered the fake identifier
  results,  \* the results still to be wrapped
  \* -- history --
  made,     \* the ring of the last result gapwrap has wrapped, and its kind
  escaped   \* ErrorQuit was called while C++ objects were on the stack

vars == <<sg, slots, wrapped, temps, pc, op, r, sing, tmpHdl, results, made,
          escaped>>
callVars == <<pc, op, r, sing, tmpHdl, results>>

(***************************************************************************)
(* curr is currRing, hdl is currRingHdl: NULL, the fake identifier, or the *)
(* identifier a string has declared for a ring; fake is the ring of the    *)
(* fake identifier, NoRing when there is no such identifier; named are the *)
(* rings with an identifier of their own.                                  *)
(***************************************************************************)
NULL == "NULL"
Fake == "fake"
Handle == {NULL, Fake} \cup Rings
ASSUME HandleAssumption == {NULL, Fake} \cap Rings = {}
Singular == [curr : Rings \cup {NoRing}, hdl : Handle,
             fake : Rings \cup {NoRing}, named : SUBSET Rings,
             ref : [Rings -> Int], alive : SUBSET Rings]

IDRING(s, h) == IF h = Fake THEN s.fake ELSE h

-----------------------------------------------------------------------------
(* Singular, as the interface uses it *)

rChangeCurrRing(s, q) == [s EXCEPT !.curr = q]

(***************************************************************************)
(* killhdl: the identifier goes, its ring loses a reference or is deleted, *)
(* and currRingHdl, if it is that identifier, becomes another one of the   *)
(* same ring.                                                              *)
(***************************************************************************)
Other(s, h) == LET q == IDRING(s, h) IN
  IF h # Fake /\ s.fake = q THEN Fake
  ELSE IF h = Fake /\ q \in s.named THEN q
  ELSE NULL

killhdl(s, h) ==
  LET q    == IDRING(s, h)
      last == s.ref[q] <= 0
  IN  [curr  |-> IF last /\ s.curr = q THEN NoRing ELSE s.curr,
       hdl   |-> IF s.hdl = h THEN (IF last THEN NULL ELSE Other(s, h))
                 ELSE s.hdl,
       fake  |-> IF h = Fake THEN NoRing ELSE s.fake,
       named |-> s.named \ {h},
       ref   |-> IF last THEN s.ref ELSE [s.ref EXCEPT ![q] = @ - 1],
       alive |-> IF last THEN s.alive \ {q} ELSE s.alive]

(***************************************************************************)
(* enterid replaces an identifier of the same name and level.              *)
(***************************************************************************)
enterid(s) == IF s.fake = NoRing THEN s ELSE killhdl(s, Fake)

-----------------------------------------------------------------------------
(* TempSetCurrRing.  (The first definitions of each are for the mutants.)  *)

HandleMissing(s) == s.hdl = NULL
HandleStale(s) == s.hdl = NULL \/ IDRING(s, s.hdl) # s.curr
NeedsFake(s) == s.curr # NoRing /\ HandleStale(s)

EnterFakeUncounted(s) == [enterid(s) EXCEPT !.fake = s.curr, !.hdl = Fake]
EnterFake(s) == LET t == enterid(s) IN
  [t EXCEPT !.fake = t.curr, !.hdl = Fake, !.ref[t.curr] = @ + 1]

TempSetCurrRing(s) ==
  /\ sg' = IF NeedsFake(s) THEN EnterFake(s) ELSE s
  /\ tmpHdl' = NeedsFake(s)

ForgetFake(s) == [s EXCEPT !.hdl = NULL]
KillFakeOnly(s) == [killhdl(s, Fake) EXCEPT !.hdl = s.hdl]
KillFake(s) == [killhdl(s, Fake) EXCEPT !.hdl = NULL]

-----------------------------------------------------------------------------
(* SingObj and SingularIdHdl *)

SetRingKeepingCurr(a) == UNCHANGED sg
SetRing(a) == sg' = IF a.kind \in {"object", "ringless", "bad"}
                       /\ (a.kind = "bad" => a.ring # NoRing)
                    THEN rChangeCurrRing(sg, a.ring) ELSE sg

(***************************************************************************)
(* SingularIdHdl::cleanup of every object in sing.                         *)
(***************************************************************************)
ResetLast == [i \in 1..MaxArgs |-> IF i = Len(sing) THEN Empty ELSE slots[i]]
ResetSlots ==
  [i \in 1..MaxArgs |-> IF i <= Len(sing) THEN Empty ELSE slots[i]]

Everything(s) == Len(s)
TempsIn(s) == Cardinality({i \in 1..Len(s) : s[i].kind = "temp"})

(***************************************************************************)
(* The call is over: its local variables are gone.                         *)
(***************************************************************************)
BackToGap == /\ pc' = "gap" /\ op' = "none" /\ r' = NoRing /\ sing' = <<>>
             /\ tmpHdl' = FALSE /\ results' = <<>>
             /\ made' = Empty

Destructors ==
  /\ sg' = IF tmpHdl THEN KillFake(sg) ELSE sg
  /\ slots' = ResetSlots
  /\ temps' = temps - TempsIn(sing)
  /\ BackToGap

-----------------------------------------------------------------------------
(* The calls *)

(***************************************************************************)
(* extractRing: SI_CallFunc* gets a ring wrapper or something else, and    *)
(* makes that ring, or none, the current ring.                             *)
(***************************************************************************)
CallFunc(ringOrZero) ==
  /\ pc = "gap"
  /\ ringOrZero \in wrapped \cup {NoRing}
  /\ sg' = rChangeCurrRing(sg, ringOrZero)
  /\ r' = ringOrZero
  /\ pc' = "init" /\ op' = "func"
  /\ UNCHANGED <<slots, wrapped, temps, sing, tmpHdl, results, made, escaped>>

CallProc ==
  /\ pc = "gap"
  /\ pc' = "init" /\ op' = "proc"
  /\ UNCHANGED <<sg, slots, wrapped, temps, r, sing, tmpHdl, results, made,
                 escaped>>

(***************************************************************************)
(* SingularIdHdl::init of the next argument.                               *)
(***************************************************************************)
FirstSlot(a) == slots' = [slots EXCEPT ![1] = a]
FillSlot(a) == slots' = [slots EXCEPT ![Len(sing) + 1] = a]

InitArg(a) ==
  /\ pc = "init" /\ Len(sing) < MaxArgs
  /\ a.ring \in wrapped \cup {NoRing}
  /\ a.kind = "temp" => temps < MaxTemps
  /\ temps' = IF a.kind = "temp" THEN temps + 1 ELSE temps
  /\ SetRing(a)
  /\ r' = IF a.kind \in {"object", "ringless", "ring"} THEN a.ring ELSE r
  /\ FillSlot(a)
  /\ sing' = Append(sing, a)
  /\ UNCHANGED <<wrapped, pc, op, tmpHdl, results, made, escaped>>

(***************************************************************************)
(* An argument is refused: the earlier ones are cleaned up, then ErrorQuit.*)
(***************************************************************************)
ArgError(a) ==
  /\ pc = "init" /\ Len(sing) < MaxArgs
  /\ a.ring \in wrapped \cup {NoRing}
  /\ SetRing(a)
  /\ slots' = ResetSlots
  /\ temps' = temps - TempsIn(sing)
  /\ BackToGap
  /\ UNCHANGED <<wrapped, escaped>>

StartFunc ==
  /\ pc = "init" /\ op = "func"
  /\ pc' = "start"
  /\ UNCHANGED <<sg, slots, wrapped, temps, op, r, sing, tmpHdl, results,
                 made, escaped>>

StartProc ==
  /\ pc = "init" /\ op = "proc"
  /\ TempSetCurrRing(IF r # NoRing THEN rChangeCurrRing(sg, r) ELSE sg)
  /\ pc' = "start"
  /\ UNCHANGED <<slots, wrapped, temps, op, r, sing, results, made, escaped>>

(***************************************************************************)
(* iiExprArith* or iiMake_proc fails, and the call returns fail.           *)
(***************************************************************************)
Fails ==
  /\ pc = "start" /\ op \in {"func", "proc"}
  /\ Destructors
  /\ UNCHANGED <<wrapped, escaped>>

(***************************************************************************)
(* It succeeds.  A ring it returns is one the interpreter can name or got  *)
(* as an argument.  A procedure leaves the current ring as it was.         *)
(***************************************************************************)
Succeeds(res) ==
  /\ pc = "start"
  /\ \/ op = "func" /\ Len(res) = 1
     \/ op = "proc" /\ Len(res) \in 1..MaxResults
  /\ \A i \in 1..Len(res) : res[i].kind = "ring" =>
       \/ res[i].ring \in sg.named \/ res[i].ring = sg.curr
       \/ \E j \in 1..Len(sing) : sing[j] = res[i]
  /\ results' = res
  /\ pc' = "wrap"
  /\ UNCHANGED <<sg, slots, wrapped, temps, op, r, sing, tmpHdl, made, escaped>>

-----------------------------------------------------------------------------
(* gapwrap *)

(***************************************************************************)
(* The ring of the object gapwrap makes from a result of that kind.        *)
(***************************************************************************)
RingAsGiven(kind) == r
ResultRing(kind) ==
  IF kind = "ringdep" /\ r = NoRing THEN sg.curr ELSE r

(***************************************************************************)
(* gapwrap calls ErrorQuit, with the arguments and the fake identifier     *)
(* still in place.                                                         *)
(***************************************************************************)
Refused(res) == \/ res.kind = "unknown"
                \/ res.kind = "ringdep" /\ r = NoRing /\ sg.curr = NoRing

WrapError ==
  /\ pc = "wrap" /\ results # <<>>
  /\ Refused(Head(results))
  /\ BackToGap
  /\ escaped' = (escaped \/ sing # <<>> \/ tmpHdl)
  /\ UNCHANGED <<sg, slots, wrapped, temps>>

(***************************************************************************)
(* The ring that gets a wrapper, and so a reference, if it has none yet.   *)
(***************************************************************************)
NeedsWrapper(res) ==
  CASE res.kind = "ring"    -> {res.ring}
    [] res.kind = "ringdep" -> IF r = NoRing THEN {sg.curr} ELSE {}
    [] OTHER                -> {}

WrapResult ==
  /\ pc = "wrap" /\ results # <<>>
  /\ ~Refused(Head(results))
  /\ LET res == Head(results)
         new == NeedsWrapper(res) \ wrapped
     IN  /\ wrapped' = wrapped \cup new
         /\ sg' = [sg EXCEPT !.ref =
                     [q \in Rings |-> IF q \in new THEN @[q] + 1 ELSE @[q]]]
         /\ made' = [kind |-> res.kind, ring |-> ResultRing(res.kind)]
  /\ results' = Tail(results)
  /\ UNCHANGED <<slots, temps, pc, op, r, sing, tmpHdl, escaped>>

Return ==
  /\ pc = "wrap" /\ results = <<>>
  /\ Destructors
  /\ UNCHANGED <<wrapped, escaped>>

-----------------------------------------------------------------------------
(* SI_EVALUATE and SI_SetCurrRing *)

Evaluate ==
  /\ pc = "gap"
  /\ TempSetCurrRing(sg)
  /\ pc' = "start" /\ op' = "eval"
  /\ UNCHANGED <<slots, wrapped, temps, r, sing, results, made, escaped>>

(***************************************************************************)
(* The commands of the string that concern rings: a declaration, setring   *)
(* and kill.                                                               *)
(***************************************************************************)
EvalStep(s) ==
  /\ pc \in {"start", "run"} /\ op = "eval"
  /\ sg' = s
  /\ pc' = "run"
  /\ UNCHANGED <<slots, wrapped, temps, op, r, sing, tmpHdl, results, made,
                 escaped>>

EvalRing(q) ==
  /\ q \notin sg.alive \cup GapRings
  /\ EvalStep([sg EXCEPT !.alive = @ \cup {q}, !.named = @ \cup {q},
                         !.ref[q] = 0, !.curr = q, !.hdl = q])

EvalSetRing(q) ==
  /\ q \in sg.named
  /\ EvalStep([sg EXCEPT !.curr = q, !.hdl = q])

EvalKill(q) ==
  /\ q \in sg.named
  /\ EvalStep(killhdl(sg, q))

EvalEnd ==
  /\ pc \in {"start", "run"} /\ op = "eval"
  /\ Destructors
  /\ UNCHANGED <<wrapped, escaped>>

SI_SetCurrRing(q) ==
  /\ pc = "gap" /\ q \in wrapped
  /\ sg' = rChangeCurrRing(sg, q)
  /\ UNCHANGED <<slots, wrapped, temps, callVars, made, escaped>>

-----------------------------------------------------------------------------
(* The specification *)

Init ==
  /\ sg = [curr |-> NoRing, hdl |-> NULL, fake |-> NoRing, named |-> {},
           ref |-> [q \in Rings |-> IF q \in GapRings THEN 1 ELSE 0],
           alive |-> GapRings]
  /\ slots = [i \in 1..MaxArgs |-> Empty]
  /\ wrapped = GapRings
  /\ temps = 0
  /\ pc = "gap" /\ op = "none" /\ r = NoRing /\ sing = <<>>
  /\ tmpHdl = FALSE /\ results = <<>>
  /\ made = Empty
  /\ escaped = FALSE

ResultLists == UNION {[1..n -> Result] : n \in 1..MaxResults}

Next ==
  \/ \E q \in Rings \cup {NoRing} : CallFunc(q)
  \/ CallProc
  \/ \E a \in Arg : InitArg(a)
  \/ \E a \in BadArg : ArgError(a)
  \/ StartFunc \/ StartProc
  \/ Fails
  \/ \E res \in ResultLists : Succeeds(res)
  \/ WrapError \/ WrapResult \/ Return
  \/ Evaluate \/ EvalEnd
  \/ \E q \in Rings : EvalRing(q) \/ EvalSetRing(q) \/ EvalKill(q)
  \/ \E q \in Rings : SI_SetCurrRing(q)

Spec == Init /\ [][Next]_vars

-----------------------------------------------------------------------------
(* Properties *)

(***************************************************************************)
(* Type invariant of the calls (calls.cc).                                 *)
(***************************************************************************)
TypeOK ==
  /\ sg \in Singular
  /\ slots \in [1..MaxArgs -> Arg \cup {Empty}]
  /\ wrapped \subseteq Rings
  /\ temps \in 0..MaxTemps
  /\ pc \in {"gap", "init", "start", "run", "wrap"}
  /\ op \in {"none", "func", "proc", "eval"}
  /\ r \in Rings \cup {NoRing}
  /\ sing \in Seq(Arg) /\ Len(sing) <= MaxArgs
  /\ tmpHdl \in BOOLEAN /\ escaped \in BOOLEAN
  /\ results \in Seq(Result)

(***************************************************************************)
(* When the function or procedure runs, slot i holds argument i, although  *)
(* all calls use the same slots (getSingularIdhdl).                        *)
(***************************************************************************)
SlotsMatchArgs ==
  pc = "start" => \A i \in 1..Len(sing) : slots[i] = sing[i]

(***************************************************************************)
(* While GAP code runs every slot is reset and every temporary object is   *)
(* freed, whichever way the call ended: returned, failed, or refused an    *)
(* argument.  It has to be: a slot borrows its data from a GAP object that *)
(* may be collected later.                                                 *)
(***************************************************************************)
SlotsReset == pc = "gap" => /\ \A i \in 1..MaxArgs : slots[i] = Empty
                            /\ temps = 0
NothingLeft == ~escaped => SlotsReset

(***************************************************************************)
(* A procedure or a string starts with an identifier of the current ring   *)
(* in currRingHdl, if there is a current ring.                             *)
(***************************************************************************)
RingHandleAtStart ==
  pc = "start" /\ op \in {"proc", "eval"} /\ sg.curr # NoRing =>
    sg.hdl # NULL /\ IDRING(sg, sg.hdl) = sg.curr

(***************************************************************************)
(* currRing and currRingHdl never refer to a deleted ring or to an         *)
(* identifier that was killed, whatever strings declare and kill and       *)
(* however calls end.                                                      *)
(***************************************************************************)
NoDanglingRing ==
  /\ sg.curr # NoRing => sg.curr \in sg.alive
  /\ sg.hdl = Fake => sg.fake # NoRing
  /\ sg.hdl \in Rings => sg.hdl \in sg.named
  /\ sg.fake # NoRing => sg.fake \in sg.alive
  /\ sg.named \subseteq sg.alive /\ wrapped \subseteq sg.alive

(***************************************************************************)
(* Every reference is accounted for: by the wrapper, the identifier of the *)
(* ring and the fake identifier.  A ring declared in Singular has one      *)
(* owner when its counter is 0, a ring made by SI_ring when it is 1.       *)
(***************************************************************************)
One(p) == IF p THEN 1 ELSE 0
RefCounts ==
  \A q \in sg.alive :
    sg.ref[q] + One(q \notin GapRings) =
      One(q \in wrapped) + One(q \in sg.named) + One(sg.fake = q)

(***************************************************************************)
(* The fake identifier lives as long as the call that entered it: between  *)
(* calls there is none, and a destructor always finds the one it kills.    *)
(***************************************************************************)
FakeReleased == pc = "gap" => sg.fake = NoRing
FakeHandleOwned == /\ ~escaped => FakeReleased
                   /\ tmpHdl => sg.fake # NoRing

(***************************************************************************)
(* An object made from a ring dependent result has a ring, and that ring   *)
(* has a wrapper for the collector to mark.                                *)
(***************************************************************************)
ResultHasRing == made.kind = "ringdep" => made.ring \in wrapped

(***************************************************************************)
(* A function or a procedure with ring dependent arguments of one ring,    *)
(* and no other argument that has to do with rings, runs in that ring.     *)
(***************************************************************************)
RunsInRingOfArgs ==
  pc = "start" =>
    \A q \in Rings :
      /\ \E i \in 1..Len(sing) : sing[i] = [kind |-> "object", ring |-> q]
      /\ \A i \in 1..Len(sing) :
           sing[i].kind \in {"plain", "temp"} \/ sing[i].ring = q
      => sg.curr = q

-----------------------------------------------------------------------------
(* The inductive invariant *)

(***************************************************************************)
(* A state of Singular with wrappers for the rings w.  The fake identifier *)
(* of the current ring is not its only owner, or it is the current one: so *)
(* enterid never deletes the ring it is called for.                        *)
(***************************************************************************)
SingularOK(s, w) ==
  /\ s \in Singular
  /\ s.curr # NoRing => s.curr \in s.alive
  /\ s.hdl = Fake => s.fake # NoRing
  /\ s.hdl \in Rings => s.hdl \in s.named
  /\ s.fake # NoRing => s.fake \in s.alive
  /\ s.named \subseteq s.alive /\ w \subseteq s.alive /\ GapRings \subseteq w
  /\ \A q \in s.alive :
       s.ref[q] + One(q \notin GapRings) =
         One(q \in w) + One(q \in s.named) + One(s.fake = q)
  /\ s.fake # NoRing /\ s.curr = s.fake /\ s.fake \notin w \cup s.named =>
       s.hdl = Fake

HandleOfCurr(s) == s.hdl # NULL /\ IDRING(s, s.hdl) = s.curr

(***************************************************************************)
(* In a string, killing the identifier of a ring with a wrapper is the     *)
(* only way to a current ring without an identifier.                       *)
(***************************************************************************)
HandleInCall ==
  sg.curr # NoRing =>
    /\ pc = "start" /\ op \in {"proc", "eval"} => HandleOfCurr(sg)
    /\ op = "eval" => HandleOfCurr(sg) \/ sg.curr \in wrapped

SlotsOfArgs ==
  \A i \in 1..MaxArgs : IF i <= Len(sing) THEN slots[i] = sing[i]
                        ELSE ~escaped => slots[i] = Empty

TempsOfArgs == /\ temps >= TempsIn(sing)
               /\ ~escaped => temps = TempsIn(sing)

FakeOfCall == /\ ~escaped /\ ~tmpHdl => sg.fake = NoRing
              /\ tmpHdl => sg.fake # NoRing

Stack ==
  /\ pc = "gap" => op = "none" /\ r = NoRing /\ sing = <<>> /\ ~tmpHdl
  /\ pc # "wrap" => results = <<>>
  /\ pc \in {"init", "wrap"} => op \in {"func", "proc"}
  /\ pc = "init" => ~tmpHdl
  /\ pc = "run" => op = "eval"
  /\ pc = "start" => op # "none"
  /\ op = "eval" => sing = <<>>

ArgsOfRing(q) ==
  /\ \E i \in 1..Len(sing) : sing[i] = [kind |-> "object", ring |-> q]
  /\ \A i \in 1..Len(sing) :
       sing[i].kind \in {"plain", "temp"} \/ sing[i].ring = q

RingsOfCall ==
  /\ r \in wrapped \cup {NoRing}
  /\ \A i \in 1..Len(sing) : sing[i].ring \in wrapped \cup {NoRing}
  /\ \A i \in 1..Len(results) :
       results[i].kind = "ring" => results[i].ring \in sg.alive
  /\ pc \in {"init", "start"} =>
       \A q \in Rings : ArgsOfRing(q) => sg.curr = q /\ (pc = "init" => r = q)

IInv == /\ TypeOK
        /\ SingularOK(sg, wrapped)
        /\ HandleInCall
        /\ SlotsOfArgs /\ TempsOfArgs
        /\ FakeOfCall
        /\ Stack
        /\ RingsOfCall
        /\ ResultHasRing

=============================================================================
