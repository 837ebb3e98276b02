-------------------------- MODULE SingularWrappers --------------------------
(***************************************************************************)
(* The T_SINGULAR wrappers of SingularInterface, the Singular rings they   *)
(* refer to, and the garbage collector of GAP that frees them.             *)
(*                                                                         *)
(* A ring wrapper holds one reference to its ring (r->ref), the ring       *)
(* points back to it (r->ext_ref), and every other wrapper points to the   *)
(* ring of its object, so that marking an object marks the wrapper of its  *)
(* ring.  When a collection frees the wrapper, the ring is scheduled and   *)
(* given back to Singular (rKill) after the sweep.                         *)
(*                                                                         *)
(* Rings stand for ring structures of Singular, Bags for master pointers   *)
(* of GAP, which are used again after they were freed.  One plain list of  *)
(* GAP, the one SI_CallProc fills with several results, is in the model    *)
(* too: it is never reported to the collector.                             *)
(***************************************************************************)
EXTENDS Integers, FiniteSets

CONSTANTS
  Bags,        \* master pointers available to T_SINGULAR objects
  Rings,       \* ring structures
  NoBag,       \* the NULL bag
  NoRing,      \* the NULL ring
  Idle,        \* no result is being wrapped
  MaxHandles,  \* bound on the identifiers of the interpreter naming one ring
  MaxResults,  \* bound on the bags one list of results has referred to
  FullGC       \* the partial collections between two full ones (10)

ASSUME SentinelAssumption == /\ NoBag \notin Bags
                             /\ NoRing \notin Rings
                             /\ Idle \notin Rings \cup {NoRing}
ASSUME HandlesAssumption == MaxHandles \in Nat
ASSUME FullGCAssumption == FullGC \in Nat

(***************************************************************************)
(* The two elements cached in a ring wrapper (ZERO_SINGOBJ, ONE_SINGOBJ).  *)
(***************************************************************************)
Elem == {"zero", "one"}

VARIABLES
  \* -- Singular --
  rstate,     \* a ring structure is not allocated yet, alive, or deleted
  ref,        \* r->ref
  ext,        \* r->ext_ref
  qideal,     \* r->qideal is set
  handles,    \* identifiers of the interpreter (and values) naming the ring
  surplus,    \* (history) rings with a reference that belongs to nobody
  currRing,   \* the current ring of Singular
  \* -- the bags --
  kind,       \* free, the wrapper of a ring, or of another object
  cxx,        \* CXX_SINGOBJ of a ring wrapper, CXXRING_SINGOBJ of the others
  qtype,      \* a ring wrapper has type QRING_IMM instead of RING_IMM
  cache,      \* ZERO_SINGOBJ and ONE_SINGOBJ of a ring wrapper
  \* -- GASMAN --
  old,        \* the bags that survived a collection
  changed,    \* bags reported by CHANGED_BAG since the last collection
  roots,      \* the bags GAP refers to: variables, stack, other objects
  doomed,     \* dead bags the sweep has not freed yet
  gc,         \* "none" while GAP code or the interface runs, or "sweep"
  GCCOUNT,    \* partial collections possiblytriggerGC has asked for
  \* -- the interface --
  scheduled,  \* how often a ring occurs in SingularRingsToCleanup
  pending,    \* the ring of the result gapwrap is about to wrap, or Idle
  filling,    \* the ring of a call whose results go to a list, or Idle
  list,       \* the list of results GAP refers to: none, young, or old
  listed,     \* the bags the list refers to
  \* -- history --
  orphan,     \* objects wrapped while their ring had no wrapper any more
  lost,       \* bags freed while the list referred to them
  wild        \* the code has used a dangling pointer: it may do anything

ringVars == <<rstate, ref, ext, qideal, handles, surplus>>
bagVars  == <<kind, cxx, qtype, cache>>
gcVars   == <<doomed, gc, GCCOUNT>>
listVars == <<filling, list, listed, lost>>
vars == <<ringVars, currRing, bagVars, old, changed, roots, gcVars,
          scheduled, pending, listVars, orphan, wild>>

Live == {b \in Bags : kind[b] # "free"}
RingWrappers == {b \in Bags : kind[b] = "ring"}
Values == {b \in Bags : kind[b] = "value"}

(***************************************************************************)
(* r->ext_ref is the wrapper of r.  It is not when the ring was never      *)
(* wrapped, nor when its wrapper was freed: ext_ref is never reset.        *)
(***************************************************************************)
Wrapped(r) == /\ ext[r] \in Bags
              /\ kind[ext[r]] = "ring"
              /\ cxx[ext[r]] = r

(***************************************************************************)
(* GAP or the interpreter runs.  Nothing is said about what the program    *)
(* does after it has used a dangling pointer.                              *)
(***************************************************************************)
Running == ~wild /\ gc = "none" /\ pending = Idle /\ filling = Idle

-----------------------------------------------------------------------------
(* Singular, as the interface uses it *)

(***************************************************************************)
(* rKill deletes a ring that nobody else refers to, that is one whose ref  *)
(* is not positive, and drops one reference otherwise.                     *)
(***************************************************************************)
rKill(r) ==
  IF ref[r] <= 0
  THEN /\ rstate' = [rstate EXCEPT ![r] = "dead"]
       /\ ext' = [ext EXCEPT ![r] = NoBag]
       /\ qideal' = [qideal EXCEPT ![r] = FALSE]
       /\ currRing' = IF currRing = r THEN NoRing ELSE currRing
       /\ UNCHANGED ref
  ELSE /\ ref' = [ref EXCEPT ![r] = @ - 1]
       /\ UNCHANGED <<rstate, ext, qideal, currRing>>

(***************************************************************************)
(* The interpreter declares a ring, which becomes the current ring.        *)
(***************************************************************************)
InterpRing(r) ==
  /\ Running /\ rstate[r] = "none"
  /\ MaxHandles > 0
  /\ rstate' = [rstate EXCEPT ![r] = "alive"]
  /\ handles' = [handles EXCEPT ![r] = 1]
  /\ \E q \in BOOLEAN : qideal' = [qideal EXCEPT ![r] = q]
  /\ currRing' = r
  /\ UNCHANGED <<ref, ext, surplus, bagVars, old, changed, roots, gcVars,
                 listVars, scheduled, pending, orphan, wild>>

(***************************************************************************)
(* The interpreter can reach a ring through an identifier, as the current  *)
(* ring, or as an argument of a procedure.                                 *)
(***************************************************************************)
InterpSees(r) ==
  /\ rstate[r] = "alive"
  /\ \/ handles[r] > 0
     \/ currRing = r
     \/ \E b \in roots : kind[b] = "ring" /\ cxx[b] = r

InterpHold(r) ==
  /\ Running /\ InterpSees(r)
  /\ handles[r] < MaxHandles
  /\ handles' = [handles EXCEPT ![r] = @ + 1]
  /\ ref' = [ref EXCEPT ![r] = @ + 1]
  /\ UNCHANGED <<rstate, ext, qideal, surplus, currRing, bagVars, old, changed,
                 roots, gcVars, listVars, scheduled, pending, orphan, wild>>

(***************************************************************************)
(* Killing an identifier of a ring kills the ring.                         *)
(***************************************************************************)
InterpKill(r) ==
  /\ Running /\ handles[r] > 0
  /\ handles' = [handles EXCEPT ![r] = @ - 1]
  /\ rKill(r)
  /\ UNCHANGED <<surplus, bagVars, old, changed, roots, gcVars, listVars,
                 scheduled, pending, orphan, wild>>

-----------------------------------------------------------------------------
(* Wrapping *)

NoElement == [e \in Elem |-> NoBag]

FillBag(b, k, r, q, caches) ==
  /\ kind' = [kind EXCEPT ![b] = k]
  /\ cxx' = [cxx EXCEPT ![b] = r]
  /\ qtype' = [qtype EXCEPT ![b] = q]
  /\ cache' = [caches EXCEPT ![b] = NoElement]

(***************************************************************************)
(* A new bag b for ring r.  Caches are those of the other bags.            *)
(***************************************************************************)
NewBag(b, k, r, q, caches) ==
  /\ kind[b] = "free"
  /\ FillBag(b, k, r, q, caches)
  /\ old' = old \ {b}

(***************************************************************************)
(* Objects wrapped after their ring lost its wrapper.                      *)
(***************************************************************************)
NoteOrphan(b, r) ==
  orphan' = IF r = NoRing \/ Wrapped(r) THEN orphan \ {b} ELSE orphan \cup {b}

(***************************************************************************)
(* The wrapper of an object of ring r, which may be NULL (lists).  The     *)
(* collection possiblytriggerGC may start comes before the bag exists:     *)
(* see CollectBags, which is enabled while a result is pending.            *)
(***************************************************************************)
NEW_SINGOBJ_RING(b, r) ==
  /\ NewBag(b, "value", r, FALSE, cache)
  /\ NoteOrphan(b, r)

NEW_SINGOBJ_ZERO_ONE(b, r, q) ==
  /\ ext[r] = NoBag
  /\ NewBag(b, "ring", r, q, cache)
  /\ ext' = [ext EXCEPT ![r] = b]
  /\ orphan' = orphan \ {b}

(***************************************************************************)
(* SI_ring makes a ring, takes a reference to it and wraps it.  The        *)
(* wrapper gives back one reference only, which for a ring that was just   *)
(* made is the one rKill does not count.                                   *)
(***************************************************************************)
SI_ring(r, b) ==
  /\ Running /\ rstate[r] = "none"
  /\ rstate' = [rstate EXCEPT ![r] = "alive"]
  /\ ref' = [ref EXCEPT ![r] = @ + 1]
  /\ NEW_SINGOBJ_ZERO_ONE(b, r, FALSE)
  /\ roots' = roots \cup {b}
  /\ surplus' = surplus \cup {r}
  /\ UNCHANGED <<qideal, handles, currRing, changed, gcVars, listVars,
                 scheduled, pending, wild>>

(***************************************************************************)
(* The reference a wrapper of the current ring takes: r->ref++.  Without   *)
(* it the ring goes with its wrapper, whoever else still uses it.          *)
(***************************************************************************)
TakeNoRef(r) == ref
TakeRefTwice(r) == [ref EXCEPT ![r] = @ + 2]
TakeRef(r) == [ref EXCEPT ![r] = @ + 1]

(***************************************************************************)
(* The first half of gapwrap for a ring dependent result of unknown ring:  *)
(* it belongs to the current ring, which is wrapped unless it was before.  *)
(* The wrapper is not kept in a variable.  A current ring with a quotient  *)
(* ideal gets the type RING_IMM, one without gets QRING_IMM.               *)
(***************************************************************************)
gapwrapCurrRing(b) ==
  /\ currRing # NoRing
  /\ IF ext[currRing] = NoBag
     THEN /\ ref' = TakeRef(currRing)
          /\ NEW_SINGOBJ_ZERO_ONE(b, currRing, ~qideal[currRing])
     ELSE UNCHANGED <<ref, ext, bagVars, old, orphan>>
  /\ pending' = currRing
  /\ UNCHANGED <<rstate, qideal, handles, surplus, currRing, changed, roots,
                 gcVars, listVars, scheduled, wild>>

(***************************************************************************)
(* What gapwrap returns goes to GAP, or is stored in the list SI_CallProc  *)
(* makes of several results: SET_ELM_PLIST, without a CHANGED_BAG.         *)
(***************************************************************************)
Deliver(b) ==
  IF filling = Idle
  THEN roots' = roots \cup {b} /\ UNCHANGED listed
  ELSE /\ Cardinality(listed \cup lost \cup {b}) <= MaxResults
       /\ listed' = listed \cup {b} /\ UNCHANGED roots

DropList == list' = "none" /\ listed' = {} /\ lost' = {}

(***************************************************************************)
(* The second half of gapwrap: the object gets its wrapper.  Types whose   *)
(* objects cannot be copied are wrapped as immutable.                      *)
(***************************************************************************)
gapwrapObject(b) ==
  /\ ~wild /\ gc = "none" /\ pending # Idle
  /\ NEW_SINGOBJ_RING(b, pending)
  /\ Deliver(b)
  /\ pending' = filling
  /\ UNCHANGED <<ringVars, currRing, changed, gcVars, filling, list, lost,
                 scheduled, wild>>

(***************************************************************************)
(* The call failed, or its result is an integer, a string or nothing.  If  *)
(* one of several results cannot be wrapped, the list is never returned.   *)
(***************************************************************************)
gapwrapPlain ==
  /\ ~wild /\ gc = "none" /\ pending # Idle
  /\ pending' = Idle /\ filling' = Idle
  /\ IF filling = Idle THEN UNCHANGED <<list, listed, lost>> ELSE DropList
  /\ UNCHANGED <<ringVars, currRing, bagVars, old, changed, roots, gcVars,
                 scheduled, orphan, wild>>

(***************************************************************************)
(* Nothing is being wrapped, or the next of several results may be.        *)
(***************************************************************************)
NextResult == ~wild /\ gc = "none" /\ pending = filling

(***************************************************************************)
(* The list of results is complete.                                        *)
(***************************************************************************)
ResultsDone ==
  /\ NextResult /\ filling # Idle
  /\ pending' = Idle /\ filling' = Idle
  /\ UNCHANGED <<ringVars, currRing, bagVars, old, changed, roots, gcVars,
                 list, listed, lost, scheduled, orphan, wild>>

(***************************************************************************)
(* A result that is a ring: its wrapper if it has one, else a new one.     *)
(* The new wrapper takes over the reference of the result: one that was    *)
(* added for it, or the only one if the call has just made the ring.       *)
(***************************************************************************)
gapwrapRing(r, b) ==
  /\ NextResult
  /\ \/ /\ InterpSees(r) /\ ext[r] # NoBag
        /\ IF Wrapped(r)
           THEN Deliver(ext[r]) /\ UNCHANGED wild
           ELSE wild' = TRUE /\ UNCHANGED <<roots, listed>>
        /\ UNCHANGED <<ringVars, bagVars, old, orphan>>
     \/ /\ InterpSees(r)
        /\ ref' = [ref EXCEPT ![r] = @ + 1]
        /\ NEW_SINGOBJ_ZERO_ONE(b, r, qideal[r])
        /\ Deliver(b)
        /\ UNCHANGED <<rstate, qideal, handles, wild>>
     \/ /\ rstate[r] = "none"
        /\ rstate' = [rstate EXCEPT ![r] = "alive"]
        /\ NEW_SINGOBJ_ZERO_ONE(b, r, FALSE)
        /\ Deliver(b)
        /\ UNCHANGED <<ref, qideal, handles, wild>>
  /\ surplus' = surplus
  /\ UNCHANGED <<currRing, changed, gcVars, filling, list, lost, scheduled,
                 pending>>

-----------------------------------------------------------------------------
(* Calls *)

(***************************************************************************)
(* The ring a call works in after SingObj::init has seen the argument a:   *)
(* the ring of an object, the ring itself for a ring wrapper.              *)
(***************************************************************************)
ArgRing(a, r) == IF a = NoBag THEN r ELSE cxx[a]

(***************************************************************************)
(* Only an object changes the current ring.                                *)
(***************************************************************************)
ArgCurrRing(a, r) ==
  IF a \in Bags /\ kind[a] = "value" THEN cxx[a] ELSE r

(***************************************************************************)
(* The ring argument of SI_CallFunc*: a ring, or anything else for NULL.   *)
(* A wrapper of type QRING_IMM counts as anything else.                    *)
(***************************************************************************)
extractRing(ringOrZero) ==
  IF ringOrZero \in RingWrappers /\ ~qtype[ringOrZero]
  THEN cxx[ringOrZero] ELSE NoRing

RingOK(r) == r \in Rings => rstate[r] = "alive"

(***************************************************************************)
(* SI_CallFunc1: one argument whose ring decides.  The result is wrapped   *)
(* in the ring of the argument.                                            *)
(***************************************************************************)
CallFunc(ringOrZero, a) ==
  /\ Running
  /\ ringOrZero \in roots \cup {NoBag}
  /\ a \in roots \cup {NoBag}
  /\ RingOK(ArgCurrRing(a, NoRing))
  /\ currRing' = ArgCurrRing(a, extractRing(ringOrZero))
  /\ pending' = ArgRing(a, extractRing(ringOrZero))
  /\ UNCHANGED <<ringVars, bagVars, old, changed, roots, gcVars, listVars,
                 scheduled, orphan, wild>>

(***************************************************************************)
(* SI_CallProc: the ring of the argument, if it has one, becomes the       *)
(* current ring.  Without one the result belongs to the current ring if    *)
(* it depends on a ring, and the call fails if there is none.  For several *)
(* results a list is made, which is filled with one result after the other *)
(***************************************************************************)
CallProc(a) ==
  /\ Running
  /\ a \in roots \cup {NoBag}
  /\ RingOK(ArgCurrRing(a, NoRing))
  /\ currRing' = LET r == ArgRing(a, NoRing)
                 IN IF r # NoRing THEN r ELSE ArgCurrRing(a, currRing)
  /\ pending' = ArgRing(a, NoRing)
  /\ \/ UNCHANGED listVars
     \/ /\ MaxResults > 0
        /\ list = "none" /\ list' = "young"
        /\ filling' = ArgRing(a, NoRing)
        /\ UNCHANGED <<listed, lost>>
  /\ UNCHANGED <<ringVars, bagVars, old, changed, roots, gcVars, scheduled,
                 orphan, wild>>

CallProcInCurrRing(b) ==
  NextResult /\ filling \in {Idle, NoRing} /\ gapwrapCurrRing(b)

(***************************************************************************)
(* An argument whose ring was deleted.                                     *)
(***************************************************************************)
CallWithDeadRing(a) ==
  /\ Running
  /\ a \in roots /\ ~RingOK(ArgCurrRing(a, NoRing))
  /\ wild' = TRUE
  /\ UNCHANGED <<ringVars, currRing, bagVars, old, changed, roots, gcVars,
                 listVars, scheduled, pending, orphan>>

SI_SetCurrRing(b) ==
  /\ Running
  /\ b \in roots /\ kind[b] = "ring"
  /\ currRing' = cxx[b]
  /\ UNCHANGED <<ringVars, bagVars, old, changed, roots, gcVars, listVars,
                 scheduled, pending, orphan, wild>>

(***************************************************************************)
(* SI_Indeterminates makes the ring current and wraps its variables, one   *)
(* after the other.  It refuses a wrapper of type QRING_IMM.               *)
(***************************************************************************)
SI_Indeterminates(b) ==
  /\ Running
  /\ b \in roots /\ kind[b] = "ring" /\ ~qtype[b]
  /\ currRing' = cxx[b]
  /\ pending' = cxx[b]
  /\ UNCHANGED <<ringVars, bagVars, old, changed, roots, gcVars, listVars,
                 scheduled, orphan, wild>>

(***************************************************************************)
(* SI_RingOfSingobj of an object returns r->ext_ref to GAP.  It fails if   *)
(* the object has no ring.                                                 *)
(***************************************************************************)
SI_RingOfSingobj(b) ==
  /\ Running
  /\ b \in roots /\ kind[b] = "value" /\ cxx[b] # NoRing
  /\ IF rstate[cxx[b]] = "alive" /\ Wrapped(cxx[b])
     THEN roots' = roots \cup {ext[cxx[b]]} /\ UNCHANGED wild
     ELSE wild' = TRUE /\ UNCHANGED roots
  /\ UNCHANGED <<ringVars, currRing, bagVars, old, changed, gcVars, listVars,
                 scheduled, pending, orphan>>

-----------------------------------------------------------------------------
(* Zero and one *)

(***************************************************************************)
(* CHANGED_BAG tells GASMAN that a bag got a reference to a younger one.   *)
(* NotChanged is what happens when the call is forgotten.                  *)
(***************************************************************************)
NotChanged(b) == changed
CHANGED_BAG(b) == changed \cup ({b} \cap old)

StoreElement(w, e, b) == [cache EXCEPT ![w] = [cache[w] EXCEPT ![e] = b]]

(***************************************************************************)
(* ZeroSMSingObj and OneSMSingObj of a ring wrapper w: the cached element, *)
(* or a new one that is made immutable and stored.  (The first definition  *)
(* would return the slot without looking whether it is filled.)            *)
(***************************************************************************)
CachedSMSingObj(e, w, b) == /\ roots' = roots \cup {cache[w][e]}
                            /\ UNCHANGED <<bagVars, old, changed, orphan>>
SMSingObj(e, w, b) ==
  IF cache[w][e] # NoBag
  THEN /\ roots' = roots \cup {cache[w][e]}
       /\ UNCHANGED <<bagVars, old, changed, orphan>>
  ELSE /\ NewBag(b, "value", cxx[w], FALSE, StoreElement(w, e, b))
       /\ NoteOrphan(b, cxx[w])
       /\ changed' = CHANGED_BAG(w)
       /\ roots' = roots \cup {b}

ElementOfRing(e, w, b) ==
  /\ Running
  /\ w \in roots /\ kind[w] = "ring"
  /\ SMSingObj(e, w, b)
  /\ UNCHANGED <<ringVars, currRing, gcVars, listVars, scheduled, pending,
                 wild>>

(***************************************************************************)
(* For an immutable object the element of its ring is returned.            *)
(***************************************************************************)
ElementOfObject(e, s, b) ==
  /\ Running
  /\ s \in roots /\ kind[s] = "value" /\ cxx[s] # NoRing
  /\ IF rstate[cxx[s]] = "alive" /\ Wrapped(cxx[s])
     THEN SMSingObj(e, ext[cxx[s]], b) /\ UNCHANGED wild
     ELSE wild' = TRUE /\ UNCHANGED <<bagVars, old, changed, roots, orphan>>
  /\ UNCHANGED <<ringVars, currRing, gcVars, listVars, scheduled, pending>>

(***************************************************************************)
(* GAP forgets a reference.                                                *)
(***************************************************************************)
Forget(b) ==
  /\ Running /\ b \in roots
  /\ roots' = roots \ {b}
  /\ UNCHANGED <<ringVars, currRing, bagVars, old, changed, gcVars, listVars,
                 scheduled, pending, orphan, wild>>

(***************************************************************************)
(* GAP takes a result out of the list, or forgets the list.  A place whose *)
(* bag was freed refers to nothing, or to whatever got its master pointer. *)
(***************************************************************************)
TakeResult(b) ==
  /\ Running
  /\ \/ b \in listed /\ roots' = roots \cup {b} /\ UNCHANGED wild
     \/ b \in lost /\ wild' = TRUE /\ UNCHANGED roots
  /\ UNCHANGED <<ringVars, currRing, bagVars, old, changed, gcVars, listVars,
                 scheduled, pending, orphan>>

ForgetList ==
  /\ Running /\ list # "none"
  /\ DropList
  /\ UNCHANGED <<ringVars, currRing, bagVars, old, changed, roots, gcVars,
                 filling, scheduled, pending, orphan, wild>>

-----------------------------------------------------------------------------
(* Garbage collection *)

(***************************************************************************)
(* What the marking function marks.  MarkBag ignores NULL and anything     *)
(* that is not a live bag.                                                 *)
(***************************************************************************)
MarkElements(b) ==
  IF kind[b] = "ring" THEN {cache[b][e] : e \in Elem} \cap Live ELSE {}
_SI_ObjMarkFunc(b) ==
  IF kind[b] = "value" /\ cxx[b] # NoRing
  THEN {ext[cxx[b]]} \cap Live
  ELSE MarkElements(b)

(***************************************************************************)
(* The bags reached from S without leaving D: the least set that contains  *)
(* S and is closed under marking.                                          *)
(***************************************************************************)
ClosedIn(D, S, L) == /\ S \cap D \subseteq L
                     /\ \A b \in L : _SI_ObjMarkFunc(b) \cap D \subseteq L
Reached(D, S) == {b \in D : \A L \in SUBSET D : ClosedIn(D, S, L) => b \in L}

(***************************************************************************)
(* A full collection looks at all bags.  A partial one keeps every old bag *)
(* and looks at the young ones only, starting also from what the changed   *)
(* bags refer to.                                                          *)
(***************************************************************************)
Survivors(full, S) ==
  IF full THEN Reached(Live, S)
  ELSE old \cup Reached(Live \ old,
                        S \cup UNION {_SI_ObjMarkFunc(b) : b \in changed})

(***************************************************************************)
(* GAP scans the stack conservatively: while gapwrap runs, a left over     *)
(* copy of the pointer to the wrapper of the current ring, or to a result  *)
(* in the list, may still be found there.                                  *)
(***************************************************************************)
StackMayHold ==
  (IF pending \in Rings /\ Wrapped(pending) THEN {ext[pending]} ELSE {})
    \cup (IF filling # Idle THEN listed ELSE {})

(***************************************************************************)
(* The list is on the stack or in a variable.  A partial collection does   *)
(* not look at what it refers to once it is old.                           *)
(***************************************************************************)
MarkList(full) ==
  IF full \/ list = "young" THEN (listed \cup lost) \cap Live ELSE {}

CollectBags(full, stack) ==
  /\ ~wild /\ gc = "none"
  /\ LET S == Survivors(full, roots \cup MarkList(full) \cup stack)
     IN /\ doomed' = Live \ S
        /\ old' = S
        /\ wild' = \E b \in IF full THEN S ELSE S \ old :
                      kind[b] = "value" /\ ~RingOK(cxx[b])
  /\ changed' = {}
  /\ list' = IF list = "none" THEN "none" ELSE "old"
  /\ gc' = "sweep"
  /\ UNCHANGED <<ringVars, currRing, bagVars, roots, filling, listed, lost,
                 scheduled, pending, orphan>>

(***************************************************************************)
(* Singular has allocated more than the threshold: possiblytriggerGC asks  *)
(* for a full collection after FullGC partial ones.  (The first definition *)
(* resets the count in the wrong branch.)                                  *)
(***************************************************************************)
CountReset == IF GCCOUNT = FullGC THEN GCCOUNT ELSE 0
NextCount == IF GCCOUNT = FullGC THEN 0 ELSE GCCOUNT + 1

possiblytriggerGC(stack) ==
  /\ CollectBags(GCCOUNT = FullGC, stack)
  /\ GCCOUNT' = NextCount

(***************************************************************************)
(* GAP collects on its own account when its workspace is full.             *)
(***************************************************************************)
GapCollects(full, stack) == CollectBags(full, stack) /\ UNCHANGED GCCOUNT

AddSingularRingToCleanup(r) == scheduled' = [scheduled EXCEPT ![r] = @ + 1]

(***************************************************************************)
(* The sweep frees one dead bag.  The object of a bag is freed in its      *)
(* ring; a ring is only scheduled.                                         *)
(***************************************************************************)
_SI_FreeFunc(b) ==
  /\ ~wild /\ gc = "sweep" /\ b \in doomed
  /\ FillBag(b, "free", NoRing, FALSE, cache)
  /\ doomed' = doomed \ {b}
  /\ orphan' = orphan \ {b}
  /\ listed' = listed \ {b} /\ lost' = lost \cup ({b} \cap listed)
  /\ IF kind[b] = "ring"
     THEN AddSingularRingToCleanup(cxx[b]) /\ UNCHANGED wild
     ELSE /\ wild' = ~RingOK(cxx[b])
          /\ UNCHANGED scheduled
  /\ UNCHANGED <<ringVars, currRing, old, changed, roots, gc, GCCOUNT, pending,
                 filling, list>>

(***************************************************************************)
(* After the sweep the scheduled rings are given back, one after the other *)
(***************************************************************************)
SingularRingCleaner(r) ==
  /\ ~wild /\ gc = "sweep" /\ doomed = {}
  /\ scheduled[r] > 0
  /\ scheduled' = [scheduled EXCEPT ![r] = @ - 1]
  /\ rKill(r)
  /\ UNCHANGED <<handles, surplus, bagVars, old, changed, roots, gcVars,
                 listVars, pending, orphan, wild>>

CollectionDone ==
  /\ ~wild /\ gc = "sweep" /\ doomed = {}
  /\ \A r \in Rings : scheduled[r] = 0
  /\ gc' = "none"
  /\ UNCHANGED <<ringVars, currRing, bagVars, old, changed, roots, doomed,
                 GCCOUNT, listVars, scheduled, pending, orphan, wild>>

-----------------------------------------------------------------------------
Init ==
  /\ rstate = [r \in Rings |-> "none"]
  /\ ref = [r \in Rings |-> 0]
  /\ ext = [r \in Rings |-> NoBag]
  /\ qideal = [r \in Rings |-> FALSE]
  /\ handles = [r \in Rings |-> 0]
  /\ surplus = {}
  /\ currRing = NoRing
  /\ kind = [b \in Bags |-> "free"]
  /\ cxx = [b \in Bags |-> NoRing]
  /\ qtype = [b \in Bags |-> FALSE]
  /\ cache = [b \in Bags |-> NoElement]
  /\ old = {} /\ changed = {} /\ roots = {} /\ doomed = {}
  /\ gc = "none" /\ GCCOUNT = 0
  /\ scheduled = [r \in Rings |-> 0]
  /\ pending = Idle /\ filling = Idle
  /\ list = "none" /\ listed = {} /\ lost = {}
  /\ orphan = {}
  /\ wild = FALSE

Interpreter == \E r \in Rings : InterpRing(r) \/ InterpHold(r) \/ InterpKill(r)

Wrap == \E b \in Bags :
  \/ \E r \in Rings : SI_ring(r, b) \/ gapwrapRing(r, b)
  \/ CallProcInCurrRing(b)
  \/ gapwrapObject(b)

Call == \/ \E a, z \in Bags \cup {NoBag} : CallFunc(z, a)
        \/ \E a \in Bags \cup {NoBag} : CallProc(a)
        \/ \E b \in Bags : \/ CallWithDeadRing(b) \/ SI_SetCurrRing(b)
                           \/ SI_Indeterminates(b) \/ SI_RingOfSingobj(b)
        \/ gapwrapPlain \/ ResultsDone

Mutator == \E b \in Bags :
  \/ \E e \in Elem, w \in Bags : ElementOfRing(e, w, b)
                                 \/ ElementOfObject(e, w, b)
  \/ Forget(b) \/ TakeResult(b)
  \/ ForgetList

Sweep == \/ \E b \in Bags : _SI_FreeFunc(b)
         \/ \E r \in Rings : SingularRingCleaner(r)
         \/ CollectionDone

Collect == \E stack \in SUBSET StackMayHold :
  \/ possiblytriggerGC(stack)
  \/ \E full \in BOOLEAN : GapCollects(full, stack)

Next == Interpreter \/ Wrap \/ Call \/ Mutator \/ Collect \/ Sweep

Spec == Init /\ [][Next]_vars

(***************************************************************************)
(* A collection that was started is completed.  Nothing else is fair: the  *)
(* program may stop wrapping, and nobody is bound to collect.              *)
(***************************************************************************)
Fairness == WF_vars(Sweep)
FairSpec == Spec /\ Fairness

-----------------------------------------------------------------------------
(* Properties *)

WrapperTypes ==
  /\ rstate \in [Rings -> {"none", "alive", "dead"}]
  /\ ref \in [Rings -> Int]
  /\ ext \in [Rings -> Bags \cup {NoBag}]
  /\ qideal \in [Rings -> BOOLEAN]
  /\ handles \in [Rings -> 0..MaxHandles]
  /\ surplus \subseteq Rings
  /\ currRing \in Rings \cup {NoRing}
  /\ kind \in [Bags -> {"free", "ring", "value"}]
  /\ cxx \in [Bags -> Rings \cup {NoRing}]
  /\ \A b \in Bags : kind[b] = "ring" => cxx[b] \in Rings
  /\ qtype \in [Bags -> BOOLEAN]
  /\ cache \in [Bags -> [Elem -> Bags \cup {NoBag}]]
  /\ old \subseteq Live
  /\ changed \subseteq old
  /\ roots \subseteq Bags
  /\ doomed \subseteq Live \ old
  /\ gc \in {"none", "sweep"}
  /\ scheduled \in [Rings -> Nat]
  /\ pending \in Rings \cup {NoRing, Idle}
  /\ orphan \subseteq Values
  /\ wild \in BOOLEAN

ListTypes ==
  /\ filling \in Rings \cup {NoRing, Idle}
  /\ list \in {"none", "young", "old"}
  /\ listed \subseteq Live
  /\ lost \subseteq Bags

TypeOK == /\ WrapperTypes
          /\ ListTypes
          /\ GCCOUNT \in 0..FullGC

(***************************************************************************)
(* A ring lives as long as its wrapper, and has only one: a ring wrapper   *)
(* refers to a ring that is not deleted and whose ext_ref is the wrapper.  *)
(***************************************************************************)
WrapperOwnsRing ==
  \A b \in RingWrappers : rstate[cxx[b]] = "alive" /\ ext[cxx[b]] = b

(***************************************************************************)
(* The collector never deletes a ring the interpreter still names, however *)
(* the ring came to its wrapper.                                           *)
(***************************************************************************)
HandleKeepsRing == \A r \in Rings : handles[r] > 0 => rstate[r] = "alive"

(***************************************************************************)
(* The current ring is never one that was deleted.                         *)
(***************************************************************************)
CurrRingAlive == currRing # NoRing => rstate[currRing] = "alive"

(***************************************************************************)
(* An object keeps the ring it was computed in, and the wrapper of that    *)
(* ring, as long as it exists itself: whatever is forgotten, collected or  *)
(* killed by the interpreter, the ring of an object is not deleted before  *)
(* _SI_FreeFunc has freed the object.  Objects wrapped when ext_ref was    *)
(* already dangling are the exception.                                     *)
(***************************************************************************)
ValueKeepsRing ==
  \A b \in Values \ orphan : cxx[b] # NoRing =>
     /\ rstate[cxx[b]] = "alive"
     /\ b \notin doomed => Wrapped(cxx[b]) /\ ext[cxx[b]] \notin doomed

(***************************************************************************)
(* The zero and one cached in a ring wrapper are never collected before    *)
(* it, by partial collections either, and belong to its ring.              *)
(***************************************************************************)
CachedElementsKept ==
  \A b \in RingWrappers \ doomed, e \in Elem : cache[b][e] # NoBag =>
     /\ cache[b][e] \in Values \ doomed
     /\ cxx[cache[b][e]] = cxx[b]

(***************************************************************************)
(* GAP is never handed a bag that was freed, and loses none it refers to   *)
(* itself.  The list of the results of a procedure keeps them while it is  *)
(* young.  Once a collection has made it old, the results stored in it     *)
(* after that are lost to the next partial one, and nothing is claimed.    *)
(***************************************************************************)
RootsKept ==
  /\ roots \subseteq Live \ doomed
  /\ list # "old" => lost = {} /\ listed \subseteq Live \ doomed

(***************************************************************************)
(* References to a ring: its identifiers, its wrapper, and the scheduled   *)
(* kill that the wrapper left behind.                                      *)
(***************************************************************************)
Holders(r) == handles[r] + scheduled[r] + (IF Wrapped(r) THEN 1 ELSE 0)

(***************************************************************************)
(* A ring that nobody holds is deleted in the end: no identifier, no       *)
(* wrapper and no scheduled kill is left, so nobody will ever do it later. *)
(* The exception are the rings of SI_ring, which are never deleted.        *)
(***************************************************************************)
OnlyRingsOfSI_ringLeak ==
  \A r \in Rings \ surplus : rstate[r] = "alive" => Holders(r) > 0

(***************************************************************************)
(* The wrappers, the collector and the interpreter together keep to        *)
(* RingLifetimes: a ring is deleted by the very step that takes its last   *)
(* holder away, be that a killed identifier or a scheduled kill, and no    *)
(* object of it is left then.  A collection only passes the hold of a      *)
(* wrapper on to the scheduled kill.  Rings of SI_ring are pinned, and     *)
(* objects wrapped after their ring had lost its wrapper do not count.     *)
(***************************************************************************)
HoldersOf == [r \in Rings |-> Holders(r)]
ObjectsOf == [r \in Rings |-> {b \in Values \ orphan : cxx[b] = r}]
Lifetimes == INSTANCE RingLifetimes
               WITH Objects <- Bags, life <- rstate, holders <- HoldersOf,
                    objects <- ObjectsOf, pinned <- surplus
ImplementsLifetimes == Lifetimes!Spec

(***************************************************************************)
(* A dangling pointer is used only after a ring has outlived its wrapper,  *)
(* or a list of results has lost one of them.                              *)
(***************************************************************************)
WildOnlyAfterLoss ==
  [][wild' => \/ orphan # {} \/ lost # {}
              \/ \E r \in Rings : ext[r] # NoBag /\ ~Wrapped(r)]_vars

(***************************************************************************)
(* If Singular passes the threshold of possiblytriggerGC again and again,  *)
(* wrappers that nothing refers to do not stay, old ones neither: the      *)
(* count reaches FullGC however GAP's own collections come in between.     *)
(***************************************************************************)
ThresholdPassed == \E stack \in SUBSET StackMayHold : possiblytriggerGC(stack)
Reachable == Reached(Live, roots \cup listed \cup lost \cup StackMayHold)

GarbageFreed ==
  ([]<><<ThresholdPassed>>_vars) =>
     \A b \in Bags : []<>(kind[b] = "free" \/ b \in Reachable)

(***************************************************************************)
(* The ext_ref of a ring is its wrapper, unless the ring has none.  This   *)
(* is what gapwrap, SI_RingOfSingobj and the mark function rely on, and    *)
(* the code does not do it: the find of the run ExtRef.                    *)
(***************************************************************************)
ExtRefIsWrapper ==
  gc = "none" => \A r \in Rings : ext[r] # NoBag => Wrapped(r)

-----------------------------------------------------------------------------
(* The inductive invariant *)

Surplus(r) == IF r \in surplus THEN 1 ELSE 0

RefCount ==
  \A r \in Rings :
    /\ rstate[r] = "none" => ref[r] = 0 /\ ext[r] = NoBag /\ r \notin surplus
    /\ rstate[r] = "alive" => /\ ref[r] >= 0
                              /\ ref[r] + 1 = Holders(r) + Surplus(r)
    /\ rstate[r] # "alive" => handles[r] = 0 /\ scheduled[r] = 0

GCInv ==
  /\ gc = "none" => doomed = {} /\ \A r \in Rings : scheduled[r] = 0
  /\ roots \subseteq Live \ doomed

(***************************************************************************)
(* Pointers from old to young bags are known to the collector: an object   *)
(* is younger than the wrapper of its ring, a cached element is reported.  *)
(***************************************************************************)
Generations ==
  /\ \A b \in Values \ orphan : cxx[b] # NoRing /\ b \in old =>
        ext[cxx[b]] \in old
  /\ \A b \in RingWrappers, e \in Elem :
        b \in old /\ cache[b][e] # NoBag =>
           cache[b][e] \in old \/ b \in changed

(***************************************************************************)
(* What the list refers to is there until a sweep frees it, and a young    *)
(* list has lost nothing.                                                  *)
(***************************************************************************)
ListInv ==
  /\ list = "none" => listed = {} /\ filling = Idle
  /\ list # "old" => lost = {} /\ listed \cap doomed = {}

WrapperInv == /\ WrapperTypes
              /\ WrapperOwnsRing
              /\ HandleKeepsRing
              /\ CurrRingAlive
              /\ RefCount
              /\ GCInv
              /\ ValueKeepsRing
              /\ CachedElementsKept
              /\ Generations

IInv == TypeOK /\ WrapperInv /\ ListInv
=============================================================================
