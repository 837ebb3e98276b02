---------------------- MODULE SingularWrappers_proofs -----------------------
(* Proofs about SingularWrappers, for any number of bags and rings.         *)
EXTENDS SingularWrappers, TLAPS

USE SentinelAssumption, HandlesAssumption
  DEF Live, RingWrappers, Values, ringVars, bagVars, gcVars

(***************************************************************************)
(* What is reached from S inside D.                                        *)
(***************************************************************************)
LEMMA ReachedIn ==
  ASSUME NEW D, NEW S
  PROVE  /\ Reached(D, S) \subseteq D
         /\ S \cap D \subseteq Reached(D, S)
         /\ \A b \in Reached(D, S) :
              _SI_ObjMarkFunc(b) \cap D \subseteq Reached(D, S)
<1>1. Reached(D, S) \subseteq D
  BY DEF Reached
<1>2. S \cap D \subseteq Reached(D, S)
  BY DEF Reached, ClosedIn
<1>3. ASSUME NEW b \in Reached(D, S), NEW c \in _SI_ObjMarkFunc(b) \cap D
      PROVE  c \in Reached(D, S)
  <2>1. SUFFICES ASSUME NEW L \in SUBSET D, ClosedIn(D, S, L)
                 PROVE  c \in L
    BY DEF Reached
  <2>2. b \in L
    BY <2>1 DEF Reached
  <2>3. QED
    BY <2>1, <2>2 DEF ClosedIn
<1>4. QED
  BY <1>1, <1>2, <1>3

(***************************************************************************)
(* The library is loaded before anything is wrapped.                       *)
(***************************************************************************)
LEMMA InitInv == Init => WrapperInv
<1> SUFFICES ASSUME Init PROVE WrapperInv
  OBVIOUS
<1>1. WrapperTypes
  <2>1. /\ rstate \in [Rings -> {"none", "alive", "dead"}]
        /\ ref \in [Rings -> Int]
        /\ ext \in [Rings -> Bags \cup {NoBag}]
        /\ qideal \in [Rings -> BOOLEAN]
    BY DEF Init
  <2>2. handles \in [Rings -> 0..MaxHandles]
    BY DEF Init
  <2>3. /\ kind \in [Bags -> {"free", "ring", "value"}]
        /\ cxx \in [Bags -> Rings \cup {NoRing}]
        /\ qtype \in [Bags -> BOOLEAN]
    BY DEF Init
  <2>4. cache \in [Bags -> [Elem -> Bags \cup {NoBag}]]
    BY DEF Init, NoElement
  <2>5. scheduled \in [Rings -> Nat]
    BY DEF Init
  <2>6. QED
    BY <2>1, <2>2, <2>3, <2>4, <2>5 DEF Init, WrapperTypes
<1>2. RefCount
  BY DEF Init, RefCount, Surplus, Holders, Wrapped
<1>3. QED
  BY <1>1, <1>2 DEF Init, WrapperInv, WrapperOwnsRing, HandleKeepsRing,
     CurrRingAlive, GCInv, ValueKeepsRing, CachedElementsKept, Generations

(***************************************************************************)
(* Steps that leave the rings, the bags and the collector alone.           *)
(***************************************************************************)
LEMMA CallStep ==
  ASSUME WrapperInv,
         UNCHANGED <<ringVars, bagVars, old, changed, gcVars, scheduled, orphan>>,
         currRing' \in Rings \cup {NoRing},
         currRing' # NoRing => rstate[currRing'] = "alive",
         roots' \subseteq Live \ doomed,
         pending' \in Rings \cup {NoRing, Idle},
         wild' \in BOOLEAN
  PROVE  WrapperInv'
<1>1. WrapperTypes'
  BY DEF WrapperInv, WrapperTypes
<1>2. WrapperOwnsRing' /\ HandleKeepsRing' /\ CurrRingAlive'
  BY DEF WrapperInv, WrapperOwnsRing, HandleKeepsRing, CurrRingAlive
<1>3. RefCount'
  BY DEF WrapperInv, RefCount, Surplus, Holders, Wrapped
<1>4. GCInv'
  BY DEF WrapperInv, GCInv
<1>5. ValueKeepsRing' /\ CachedElementsKept' /\ Generations'
  BY DEF WrapperInv, ValueKeepsRing, CachedElementsKept, Generations, Wrapped
<1>6. QED
  BY <1>1, <1>2, <1>3, <1>4, <1>5 DEF WrapperInv

(***************************************************************************)
(* A ring that was not wrapped gets its wrapper, which takes a reference.  *)
(***************************************************************************)
LEMMA RingWrapStep ==
  ASSUME WrapperInv, gc = "none",
         NEW r \in Rings, NEW b \in Bags, NEW q \in BOOLEAN,
         NEW_SINGOBJ_ZERO_ONE(b, r, q),
         rstate[r] # "dead", rstate' = [rstate EXCEPT ![r] = "alive"],
         ref' \in [Rings -> Int],
         surplus' \subseteq Rings, \A t \in Rings \ {r} : t \in surplus' <=> t \in surplus,
         ref'[r] = handles[r] + Surplus(r)',
         \A t \in Rings \ {r} : ref'[t] = ref[t],
         UNCHANGED <<qideal, handles, currRing, changed, gcVars, scheduled>>,
         roots' \subseteq roots \cup {b},
         pending' \in Rings \cup {NoRing, Idle},
         wild' \in BOOLEAN
  PROVE  WrapperInv'
<1> USE DEF WrapperInv, NEW_SINGOBJ_ZERO_ONE, NewBag, FillBag, NoElement
<1>1. WrapperTypes'
  <2>1. cache' \in [Bags -> [Elem -> Bags \cup {NoBag}]]
    BY DEF WrapperTypes
  <2>2. /\ rstate' \in [Rings -> {"none", "alive", "dead"}]
        /\ ext' \in [Rings -> Bags \cup {NoBag}]
        /\ kind' \in [Bags -> {"free", "ring", "value"}]
        /\ cxx' \in [Bags -> Rings \cup {NoRing}]
        /\ qtype' \in [Bags -> BOOLEAN]
    BY DEF WrapperTypes
  <2>3. \A c \in Bags : kind'[c] = "ring" => cxx'[c] \in Rings
    BY DEF WrapperTypes
  <2>4. /\ old' \subseteq Live' /\ changed' \subseteq old'
        /\ roots' \subseteq Bags /\ doomed' \subseteq Live' \ old'
        /\ orphan' \subseteq Values'
    BY DEF WrapperTypes, GCInv
  <2>5. QED
    BY <2>1, <2>2, <2>3, <2>4 DEF WrapperTypes
<1>2. WrapperOwnsRing'
  BY DEF WrapperTypes, WrapperOwnsRing
<1>3. HandleKeepsRing' /\ CurrRingAlive'
  BY DEF WrapperTypes, HandleKeepsRing, CurrRingAlive
<1>4. \A t \in Rings \ {r} : Wrapped(t)' = Wrapped(t)
  BY DEF WrapperTypes, Wrapped
<1>5. RefCount'
  <2>1. Holders(r)' = handles[r] + 1
    BY DEF WrapperTypes, Holders, Wrapped, GCInv
  <2>2. \A t \in Rings \ {r} : Holders(t)' = Holders(t)
    BY <1>4 DEF Holders
  <2>3. /\ rstate'[r] = "alive" /\ ref'[r] >= 0
        /\ ref'[r] + 1 = Holders(r)' + Surplus(r)'
    <3>1. rstate'[r] = "alive"
      BY DEF WrapperTypes
    <3>2. handles[r] \in 0..MaxHandles
      BY DEF WrapperTypes
    <3>4. handles[r] \in Int
      BY <3>2
    <3>5. ref'[r] \in Int
      OBVIOUS
    <3>3. QED
      BY <2>1, <3>1, <3>2, <3>4, <3>5 DEF Surplus
  <2>4. ASSUME NEW t \in Rings \ {r}
        PROVE  /\ rstate'[t] = "none" => /\ ref'[t] = 0 /\ ext'[t] = NoBag
                                         /\ t \notin surplus'
               /\ rstate'[t] = "alive" => /\ ref'[t] >= 0
                                          /\ ref'[t] + 1 = Holders(t)' + Surplus(t)'
               /\ rstate'[t] # "alive" => handles'[t] = 0 /\ scheduled'[t] = 0
    BY <2>2 DEF RefCount, Surplus, WrapperTypes
  <2>5. QED
    BY <2>3, <2>4 DEF RefCount, Surplus
<1>6. GCInv'
  BY DEF GCInv, WrapperTypes
<1>7. ValueKeepsRing'
  BY <1>4 DEF ValueKeepsRing, WrapperTypes, Wrapped, GCInv
<1>8. CachedElementsKept'
  BY DEF CachedElementsKept, WrapperTypes
<1>9. Generations'
  BY DEF Generations, WrapperTypes, ValueKeepsRing, Wrapped, GCInv, CachedElementsKept
<1>10. QED
  BY <1>1, <1>2, <1>3, <1>5, <1>6, <1>7, <1>8, <1>9

(***************************************************************************)
(* An object of ring r, or of none, gets its wrapper.                      *)
(***************************************************************************)
LEMMA ObjectWrapStep ==
  ASSUME WrapperInv, gc = "none",
         NEW r \in Rings \cup {NoRing}, NEW b \in Bags,
         NEW_SINGOBJ_RING(b, r),
         UNCHANGED <<ringVars, currRing, changed, gcVars, scheduled>>,
         roots' \subseteq roots \cup {b},
         pending' \in Rings \cup {NoRing, Idle},
         wild' \in BOOLEAN
  PROVE  WrapperInv'
<1> USE DEF WrapperInv, NEW_SINGOBJ_RING, NewBag, FillBag, NoElement, NoteOrphan
<1>1. WrapperTypes'
  <2>1. cache' \in [Bags -> [Elem -> Bags \cup {NoBag}]]
    BY DEF WrapperTypes
  <2>2. /\ kind' \in [Bags -> {"free", "ring", "value"}]
        /\ cxx' \in [Bags -> Rings \cup {NoRing}]
        /\ qtype' \in [Bags -> BOOLEAN]
    BY DEF WrapperTypes
  <2>3. \A c \in Bags : kind'[c] = "ring" => cxx'[c] \in Rings
    BY DEF WrapperTypes
  <2>4. /\ old' \subseteq Live' /\ changed' \subseteq old'
        /\ roots' \subseteq Bags /\ doomed' \subseteq Live' \ old'
        /\ orphan' \subseteq Values'
    BY DEF WrapperTypes, GCInv
  <2>5. QED
    BY <2>1, <2>2, <2>3, <2>4 DEF WrapperTypes
<1>2. WrapperOwnsRing'
  BY DEF WrapperTypes, WrapperOwnsRing
<1>3. HandleKeepsRing' /\ CurrRingAlive'
  BY DEF WrapperTypes, HandleKeepsRing, CurrRingAlive
<1>4. \A t \in Rings : Wrapped(t)' = Wrapped(t)
  BY DEF WrapperTypes, Wrapped
<1>5. RefCount'
  <2>1. \A t \in Rings : Holders(t)' = Holders(t)
    BY <1>4 DEF Holders
  <2>2. QED
    BY <2>1 DEF RefCount, Surplus, WrapperTypes
<1>6. GCInv'
  BY DEF GCInv, WrapperTypes
<1>7. ValueKeepsRing'
  <2>1. \A t \in Rings : Wrapped(t) => rstate[t] = "alive"
    BY DEF Wrapped, WrapperOwnsRing, WrapperTypes
  <2>2. QED
    BY <1>4, <2>1 DEF ValueKeepsRing, WrapperTypes, GCInv
<1>8. CachedElementsKept'
  BY DEF CachedElementsKept, WrapperTypes
<1>9. Generations'
  BY DEF Generations, WrapperTypes, ValueKeepsRing, Wrapped, GCInv, CachedElementsKept
<1>10. QED
  BY <1>1, <1>2, <1>3, <1>5, <1>6, <1>7, <1>8, <1>9

(***************************************************************************)
(* A new zero or one is stored in the ring wrapper w.                      *)
(***************************************************************************)
LEMMA ElementStep ==
  ASSUME WrapperInv, gc = "none",
         NEW e \in Elem, NEW w \in RingWrappers, NEW b \in Bags,
         SMSingObj(e, w, b), cache[w][e] = NoBag,
         UNCHANGED <<ringVars, currRing, gcVars, scheduled, pending, wild>>
  PROVE  WrapperInv'
<1> USE DEF WrapperInv, SMSingObj, NewBag, FillBag, NoElement, NoteOrphan,
            StoreElement, CHANGED_BAG
<1>1. b # w /\ kind[b] = "free"
  OBVIOUS
<1>2. \A c \in Bags : kind'[c] = IF c = b THEN "value" ELSE kind[c]
  BY DEF WrapperTypes
<1>3. cxx[w] \in Rings /\ \A c \in Bags : cxx'[c] = IF c = b THEN cxx[w] ELSE cxx[c]
  BY DEF WrapperTypes
<1>4. \A t \in Rings : Wrapped(t)' = Wrapped(t)
  BY <1>1, <1>2, <1>3 DEF WrapperTypes, Wrapped
<1>5. Wrapped(cxx[w]) /\ ext[cxx[w]] = w /\ rstate[cxx[w]] = "alive"
  BY DEF WrapperOwnsRing, Wrapped
<1>6. /\ orphan' = orphan \ {b}
      /\ roots' = roots \cup {b}
      /\ changed' = changed \cup ({w} \cap old)
      /\ old' = old \ {b} /\ b \notin old
  BY <1>1, <1>3, <1>5 DEF WrapperTypes
<1>7. \A c \in Bags, f \in Elem :
        cache'[c][f] = IF c = b THEN NoBag
                       ELSE IF c = w /\ f = e THEN b ELSE cache[c][f]
  <2>1. cache \in [Bags -> [Elem -> Bags \cup {NoBag}]]
    BY DEF WrapperTypes
  <2>2. /\ cache'[b] = NoElement
        /\ cache'[w] = [cache[w] EXCEPT ![e] = b]
        /\ \A c \in Bags \ {b, w} : cache'[c] = cache[c]
    BY <1>1, <2>1
  <2>3. QED
    BY <1>1, <2>1, <2>2
<1>8. WrapperTypes'
  <2>1. cache' \in [Bags -> [Elem -> Bags \cup {NoBag}]]
    <3>1. cache \in [Bags -> [Elem -> Bags \cup {NoBag}]]
      BY DEF WrapperTypes
    <3>2. [cache[w] EXCEPT ![e] = b] \in [Elem -> Bags \cup {NoBag}]
      BY <3>1
    <3>3. NoElement \in [Elem -> Bags \cup {NoBag}]
      OBVIOUS
    <3>4. QED
      BY <3>1, <3>2, <3>3
  <2>2. /\ kind' \in [Bags -> {"free", "ring", "value"}]
        /\ cxx' \in [Bags -> Rings \cup {NoRing}]
        /\ qtype' \in [Bags -> BOOLEAN]
    <3>1. kind' \in [Bags -> {"free", "ring", "value"}]
      BY DEF WrapperTypes
    <3>2. cxx' \in [Bags -> Rings \cup {NoRing}]
      BY <1>3 DEF WrapperTypes
    <3>3. qtype' \in [Bags -> BOOLEAN]
      BY ZenonT(60) DEF WrapperTypes
    <3>4. QED
      BY <3>1, <3>2, <3>3
  <2>3. \A c \in Bags : kind'[c] = "ring" => cxx'[c] \in Rings
    BY <1>2, <1>3 DEF WrapperTypes
  <2>4. /\ old' \subseteq Live' /\ changed' \subseteq old'
        /\ roots' \subseteq Bags /\ doomed' \subseteq Live' \ old'
        /\ orphan' \subseteq Values'
    BY <1>1, <1>2, <1>6 DEF WrapperTypes, GCInv
  <2>5. QED
    BY <2>1, <2>2, <2>3, <2>4 DEF WrapperTypes
<1>9. WrapperOwnsRing'
  BY <1>2, <1>3 DEF WrapperOwnsRing
<1>10. HandleKeepsRing' /\ CurrRingAlive'
  BY DEF HandleKeepsRing, CurrRingAlive
<1>11. RefCount'
  BY <1>4 DEF RefCount, Surplus, Holders
<1>12. GCInv'
  BY <1>2, <1>6 DEF GCInv
<1>13. ValueKeepsRing'
  <2>1. ASSUME NEW c \in Bags, kind'[c] = "value", c \notin orphan',
               cxx'[c] # NoRing
        PROVE  /\ rstate[cxx'[c]] = "alive" /\ cxx'[c] \in Rings
               /\ Wrapped(cxx'[c])
    BY <1>2, <1>3, <1>5, <1>6, <2>1 DEF ValueKeepsRing, GCInv, WrapperTypes
  <2>2. doomed' = {}
    BY DEF GCInv
  <2>3. QED
    BY <1>4, <2>1, <2>2 DEF ValueKeepsRing
<1>14. CachedElementsKept'
  BY <1>1, <1>2, <1>3, <1>7 DEF CachedElementsKept, GCInv
<1>15. Generations'
  <2>1. ASSUME NEW c \in Values' \ orphan', cxx'[c] # NoRing, c \in old'
        PROVE  ext'[cxx'[c]] \in old'
    <3>1. c # b /\ c \in Values \ orphan /\ c \in old /\ cxx'[c] = cxx[c]
      BY <1>2, <1>3, <1>6, <2>1
    <3>2. QED
      BY <1>6, <2>1, <3>1 DEF Generations
  <2>2. ASSUME NEW c \in RingWrappers', NEW f \in Elem, c \in old',
               cache'[c][f] # NoBag
        PROVE  cache'[c][f] \in old' \/ c \in changed'
    <3>1. c # b /\ c \in RingWrappers /\ c \in old
      BY <1>2, <1>6, <2>2
    <3>2. CASE c = w /\ f = e
      BY <1>6, <3>1, <3>2
    <3>3. CASE ~(c = w /\ f = e)
      BY <1>6, <1>7, <2>2, <3>1, <3>3 DEF Generations
    <3>4. QED
      BY <3>2, <3>3
  <2>3. QED
    BY <2>1, <2>2 DEF Generations
<1>16. QED
  BY <1>8, <1>9, <1>10, <1>11, <1>12, <1>13, <1>14, <1>15

(***************************************************************************)
(* Giving back one reference to r, that of an identifier or that of a      *)
(* scheduled kill.  If this deletes the ring, it was the last one.         *)
(***************************************************************************)
LEMMA KillStep ==
  ASSUME WrapperInv, NEW r \in Rings, rKill(r), doomed = {},
         \/ /\ handles[r] > 0
            /\ handles' = [handles EXCEPT ![r] = @ - 1]
            /\ UNCHANGED scheduled
         \/ /\ scheduled[r] > 0 /\ gc = "sweep"
            /\ scheduled' = [scheduled EXCEPT ![r] = @ - 1]
            /\ UNCHANGED handles,
         UNCHANGED <<surplus, bagVars, old, changed, roots, gcVars, pending, orphan,
                     wild>>
  PROVE  WrapperInv'
<1> USE DEF WrapperInv
<1>1. /\ handles[r] \in Nat /\ scheduled[r] \in Nat /\ ref[r] \in Int
      /\ handles'[r] \in Nat /\ handles'[r] <= handles[r]
      /\ scheduled'[r] \in Nat
      /\ handles'[r] + scheduled'[r] = handles[r] + scheduled[r] - 1
  <2>0. handles[r] \in 0..MaxHandles
    BY DEF WrapperTypes
  <2>1. /\ handles[r] \in Nat /\ handles[r] <= MaxHandles
        /\ scheduled[r] \in Nat /\ ref[r] \in Int
    BY <2>0 DEF WrapperTypes
  <2>2. CASE /\ handles[r] > 0 /\ UNCHANGED scheduled
             /\ handles' = [handles EXCEPT ![r] = @ - 1]
    BY <2>1, <2>2 DEF WrapperTypes
  <2>3. CASE /\ scheduled[r] > 0 /\ UNCHANGED handles
             /\ scheduled' = [scheduled EXCEPT ![r] = @ - 1]
    BY <2>1, <2>3 DEF WrapperTypes
  <2>4. QED
    BY <2>2, <2>3
<1>2. rstate[r] = "alive"
  BY <1>1 DEF RefCount, Surplus, HandleKeepsRing, WrapperTypes
<1>3. \A t \in Rings \ {r} : /\ handles'[t] = handles[t]
                             /\ scheduled'[t] = scheduled[t]
                             /\ ref'[t] = ref[t]
                             /\ rstate'[t] = rstate[t]
                             /\ ext'[t] = ext[t]
  BY DEF rKill, WrapperTypes
<1>4. handles' \in [Rings -> 0..MaxHandles] /\ scheduled' \in [Rings -> Nat]
  <2>1. handles'[r] \in 0..MaxHandles
    <3>1. handles[r] \in 0..MaxHandles
      BY DEF WrapperTypes
    <3>2. QED
      BY <1>1, <3>1
  <2>2. handles' \in [Rings -> 0..MaxHandles]
    <3>1. handles' = [handles EXCEPT ![r] = handles'[r]]
      BY DEF WrapperTypes
    <3>2. QED
      BY <2>1, <3>1 DEF WrapperTypes
  <2>3. scheduled' \in [Rings -> Nat]
    <3>1. scheduled' = [scheduled EXCEPT ![r] = scheduled'[r]]
      BY DEF WrapperTypes
    <3>2. QED
      BY <1>1, <3>1 DEF WrapperTypes
  <2>4. QED
    BY <2>2, <2>3
<1>5. WrapperTypes'
  <2>1. /\ rstate' \in [Rings -> {"none", "alive", "dead"}]
        /\ ext' \in [Rings -> Bags \cup {NoBag}]
        /\ qideal' \in [Rings -> BOOLEAN]
        /\ currRing' \in Rings \cup {NoRing}
    BY ZenonT(60) DEF WrapperTypes, rKill
  <2>2. ref' \in [Rings -> Int]
    BY DEF WrapperTypes, rKill
  <2>3. QED
    BY <1>4, <2>1, <2>2 DEF WrapperTypes
<1>6. CASE ref[r] <= 0
  <2>1. handles'[r] = 0 /\ scheduled'[r] = 0 /\ ~Wrapped(r)
    <3>1. handles[r] + scheduled[r] + (IF Wrapped(r) THEN 1 ELSE 0) <= ref[r] + 1
      <4>1. ref[r] + 1 = Holders(r) + Surplus(r)
        BY <1>2 DEF RefCount
      <4>2. Surplus(r) \in {0, 1} /\ Holders(r) \in Int
        BY <1>1 DEF Surplus, Holders
      <4>3. Holders(r) <= ref[r] + 1
        BY <1>1, <4>1, <4>2
      <4>4. QED
        BY <4>3 DEF Holders
    <3>2. ~Wrapped(r)
      <4>1. CASE Wrapped(r)
        <5>1. handles[r] + scheduled[r] + 1 <= ref[r] + 1
          BY <3>1, <4>1
        <5>2. handles[r] + scheduled[r] > 0
          BY <1>1
        <5>3. QED
          BY <1>1, <1>6, <5>1, <5>2
      <4>2. QED
        BY <4>1
    <3>3. handles[r] + scheduled[r] <= ref[r] + 1
      BY <1>1, <3>1, <3>2
    <3>4. QED
      BY <1>1, <1>6, <3>2, <3>3
  <2>2. /\ rstate'[r] = "dead" /\ ext'[r] = NoBag /\ ref' = ref
        /\ currRing' = IF currRing = r THEN NoRing ELSE currRing
    BY <1>6 DEF rKill, WrapperTypes
  <2>3. \A b \in RingWrappers : cxx[b] # r
    BY <2>1 DEF WrapperOwnsRing, Wrapped
  <2>4. \A b \in Values \ orphan : cxx[b] # r
    BY <2>1 DEF ValueKeepsRing, WrapperTypes
  <2>5. WrapperOwnsRing'
    BY <1>3, <2>3 DEF WrapperOwnsRing, WrapperTypes
  <2>6. HandleKeepsRing'
    BY <1>3, <2>1 DEF HandleKeepsRing
  <2>7. CurrRingAlive'
    BY <1>3, <2>2 DEF CurrRingAlive, WrapperTypes
  <2>8. \A t \in Rings \ {r} : Wrapped(t)' = Wrapped(t)
    BY <1>3 DEF Wrapped
  <2>9. RefCount'
    BY <1>3, <2>1, <2>2, <2>8 DEF RefCount, Surplus, Holders
  <2>10. GCInv'
    BY <1>3, <2>1 DEF GCInv
  <2>11. ValueKeepsRing'
    BY <1>3, <2>4, <2>8 DEF ValueKeepsRing, WrapperTypes
  <2>12. CachedElementsKept'
    BY DEF CachedElementsKept
  <2>13. Generations'
    BY <1>3, <2>4 DEF Generations, WrapperTypes
  <2>14. QED
    BY <1>5, <2>5, <2>6, <2>7, <2>9, <2>10, <2>11, <2>12, <2>13
<1>7. CASE ref[r] > 0
  <2>1. /\ rstate' = rstate /\ ext' = ext /\ currRing' = currRing
        /\ ref'[r] = ref[r] - 1
    BY <1>1, <1>7 DEF rKill, WrapperTypes
  <2>2. WrapperOwnsRing' /\ CurrRingAlive'
    BY <2>1 DEF WrapperOwnsRing, CurrRingAlive
  <2>3. HandleKeepsRing'
    BY <1>2, <1>3, <2>1 DEF HandleKeepsRing
  <2>4. \A t \in Rings : Wrapped(t)' = Wrapped(t)
    BY <2>1 DEF Wrapped
  <2>5. RefCount'
    <3>1. Holders(r)' = Holders(r) - 1
      BY <1>1, <2>4 DEF Holders
    <3>2. /\ Holders(r) \in Int /\ Surplus(r) \in Int
          /\ ref[r] + 1 = Holders(r) + Surplus(r)
      BY <1>1, <1>2 DEF Holders, Surplus, RefCount
    <3>3. /\ ref'[r] + 1 = Holders(r)' + Surplus(r)
          /\ ref'[r] >= 0
      BY <1>1, <1>7, <2>1, <3>1, <3>2
    <3>4. \A t \in Rings : Surplus(t)' = Surplus(t)
      BY DEF Surplus
    <3>5. \A t \in Rings \ {r} : Holders(t)' = Holders(t)
      BY <1>3, <2>4 DEF Holders
    <3>6. QED
      BY <1>2, <1>3, <2>1, <3>3, <3>4, <3>5 DEF RefCount
  <2>6. GCInv'
    BY <1>1, <1>3 DEF GCInv, WrapperTypes
  <2>7. ValueKeepsRing' /\ CachedElementsKept' /\ Generations'
    BY <2>1 DEF ValueKeepsRing, CachedElementsKept, Generations, Wrapped
  <2>8. QED
    BY <1>5, <2>2, <2>3, <2>5, <2>6, <2>7
<1>8. QED
  BY <1>1, <1>6, <1>7

(***************************************************************************)
(* The sweep frees one bag.                                                *)
(***************************************************************************)
LEMMA FreeStep ==
  ASSUME WrapperInv, NEW b \in Bags, _SI_FreeFunc(b)
  PROVE  WrapperInv'
<1> USE DEF WrapperInv
<1>1. /\ \A c \in Bags : kind'[c] = IF c = b THEN "free" ELSE kind[c]
      /\ \A c \in Bags \ {b} : cxx'[c] = cxx[c] /\ cache'[c] = cache[c]
  BY DEF WrapperTypes, _SI_FreeFunc, FillBag
<1>2. /\ UNCHANGED <<rstate, ref, ext, handles, surplus, currRing, old, changed,
                  roots, gc>>
      /\ gc = "sweep"
      /\ doomed' = doomed \ {b} /\ orphan' = orphan \ {b}
      /\ b \in doomed /\ b \in Live /\ b \notin old
  BY DEF WrapperTypes, _SI_FreeFunc
<1>3. scheduled' \in [Rings -> Nat]
  <2>1. CASE kind[b] = "ring"
    BY <2>1 DEF WrapperTypes, _SI_FreeFunc, AddSingularRingToCleanup
  <2>2. CASE kind[b] # "ring"
    BY <2>2 DEF WrapperTypes, _SI_FreeFunc
  <2>3. QED
    BY <2>1, <2>2
<1>4. WrapperTypes'
  <2>1. /\ kind' \in [Bags -> {"free", "ring", "value"}]
        /\ cxx' \in [Bags -> Rings \cup {NoRing}]
        /\ qtype' \in [Bags -> BOOLEAN]
        /\ cache' \in [Bags -> [Elem -> Bags \cup {NoBag}]]
    BY DEF WrapperTypes, _SI_FreeFunc, FillBag, NoElement
  <2>2. \A c \in Bags : kind'[c] = "ring" => cxx'[c] \in Rings
    BY <1>1 DEF WrapperTypes
  <2>3. /\ old' \subseteq Live' /\ doomed' \subseteq Live' \ old'
        /\ orphan' \subseteq Values' /\ changed' \subseteq old'
        /\ roots' \subseteq Bags
    BY <1>1, <1>2 DEF WrapperTypes
  <2>4. wild' \in BOOLEAN
    BY DEF WrapperTypes, _SI_FreeFunc, RingOK
  <2>5. QED
    BY <1>2, <1>3, <2>1, <2>2, <2>3, <2>4 DEF WrapperTypes, _SI_FreeFunc
<1>5. WrapperOwnsRing' /\ HandleKeepsRing' /\ CurrRingAlive'
  BY <1>1, <1>2 DEF WrapperOwnsRing, HandleKeepsRing, CurrRingAlive
<1>6. \A t \in Rings : Wrapped(t)' = (Wrapped(t) /\ ext[t] # b)
  BY <1>1, <1>2 DEF Wrapped
<1>7. RefCount'
  <2>1. CASE kind[b] = "ring"
    <3>1. PICK r \in Rings : r = cxx[b]
      BY <2>1 DEF WrapperTypes
    <3>2. rstate[r] = "alive" /\ ext[r] = b /\ Wrapped(r)
      BY <2>1, <3>1 DEF WrapperOwnsRing, Wrapped
    <3>3. \A t \in Rings \ {r} : Wrapped(t)' = Wrapped(t)
      BY <1>6, <2>1, <3>1 DEF Wrapped
    <3>4. scheduled' = [scheduled EXCEPT ![r] = @ + 1]
      BY <2>1, <3>1 DEF _SI_FreeFunc, AddSingularRingToCleanup
    <3>5. ~Wrapped(r)'
      BY <1>6, <3>2
    <3>6. Holders(r)' = Holders(r)
      <4>1. handles[r] \in 0..MaxHandles /\ scheduled[r] \in Nat
        BY DEF WrapperTypes
      <4>2. handles[r] \in Int /\ scheduled'[r] = scheduled[r] + 1
        BY <3>4, <4>1 DEF WrapperTypes
      <4>3. Holders(r) = handles[r] + scheduled[r] + 1
        BY <3>2 DEF Holders
      <4>4. Holders(r)' = handles[r] + scheduled'[r] + 0
        BY <1>2, <3>5 DEF Holders
      <4>5. QED
        BY <4>1, <4>2, <4>3, <4>4
    <3>7. \A t \in Rings \ {r} : scheduled'[t] = scheduled[t]
      BY <3>4 DEF WrapperTypes
    <3>8. \A t \in Rings : Holders(t)' = Holders(t)
      BY <1>2, <3>3, <3>6, <3>7 DEF Holders
    <3>9. QED
      BY <1>2, <3>2, <3>7, <3>8 DEF RefCount, Surplus
  <2>2. CASE kind[b] # "ring"
    <3>1. scheduled' = scheduled
      BY <2>2 DEF _SI_FreeFunc
    <3>2. \A t \in Rings : Wrapped(t)' = Wrapped(t)
      BY <1>6, <2>2 DEF Wrapped
    <3>3. QED
      BY <1>2, <3>1, <3>2 DEF RefCount, Surplus, Holders
  <2>3. QED
    BY <2>1, <2>2
<1>8. GCInv'
  BY <1>1, <1>2 DEF GCInv
<1>9. ValueKeepsRing'
  <2>1. SUFFICES ASSUME NEW c \in Values' \ orphan', NEW r, r = cxx'[c],
                        r # NoRing
                 PROVE  /\ rstate'[r] = "alive"
                        /\ c \notin doomed' =>
                             Wrapped(r)' /\ ext'[r] \notin doomed'
    BY DEF ValueKeepsRing, Wrapped
  <2>2. r \in Rings /\ r = cxx[c] /\ c \in Values \ orphan
    BY <1>1, <1>2, <2>1 DEF WrapperTypes
  <2>3. rstate[r] = "alive" /\ (c \notin doomed => Wrapped(r) /\ ext[r] \notin doomed)
    BY <2>1, <2>2 DEF ValueKeepsRing
  <2>4. c \notin doomed' => Wrapped(r)'
    BY <1>1, <1>2, <1>6, <2>1, <2>2, <2>3
  <2>5. QED
    BY <1>1, <1>2, <2>1, <2>2, <2>3, <2>4
<1>10. CachedElementsKept'
  BY <1>1, <1>2 DEF CachedElementsKept, WrapperTypes
<1>11. Generations'
  BY <1>1, <1>2 DEF Generations, WrapperTypes
<1>12. QED
  BY <1>4, <1>5, <1>7, <1>8, <1>9, <1>10, <1>11

(***************************************************************************)
(* What survives a collection is closed under the pointers that matter:    *)
(* from an object to the wrapper of its ring, and from a ring wrapper to   *)
(* the elements it caches.  For a partial collection this rests on         *)
(* Generations.                                                            *)
(***************************************************************************)
LEMMA SurvivorsClosed ==
  ASSUME WrapperInv, gc = "none", NEW full \in BOOLEAN, NEW T \in SUBSET Live
  PROVE  /\ Survivors(full, T) \subseteq Live
         /\ T \subseteq Survivors(full, T)
         /\ \A b \in Values \ orphan : cxx[b] # NoRing /\ b \in Survivors(full, T)
              => ext[cxx[b]] \in Survivors(full, T)
         /\ \A b \in RingWrappers, e \in Elem :
              b \in Survivors(full, T) /\ cache[b][e] # NoBag
                => cache[b][e] \in Survivors(full, T)
<1> DEFINE S == Survivors(full, T)
<1> USE DEF WrapperInv
<1>1. /\ \A b \in Values \ orphan : cxx[b] # NoRing =>
           /\ ext[cxx[b]] \in Live
           /\ ext[cxx[b]] \in _SI_ObjMarkFunc(b)
      /\ \A b \in RingWrappers, e \in Elem : cache[b][e] # NoBag =>
           /\ cache[b][e] \in Live
           /\ cache[b][e] \in _SI_ObjMarkFunc(b)
  <2>1. doomed = {}
    BY DEF GCInv
  <2>2. ASSUME NEW b \in Values \ orphan, cxx[b] # NoRing
        PROVE  ext[cxx[b]] \in Live /\ ext[cxx[b]] \in _SI_ObjMarkFunc(b)
    BY <2>1, <2>2 DEF ValueKeepsRing, Wrapped, _SI_ObjMarkFunc
  <2>3. ASSUME NEW b \in RingWrappers, NEW e \in Elem, cache[b][e] # NoBag
        PROVE  cache[b][e] \in Live /\ cache[b][e] \in _SI_ObjMarkFunc(b)
    <3>1. cache[b][e] \in Live
      BY <2>1, <2>3 DEF CachedElementsKept
    <3>2. QED
      BY <3>1 DEF _SI_ObjMarkFunc, MarkElements
  <2>4. QED
    BY <2>2, <2>3
<1>2. CASE full
  <2>1. S = Reached(Live, T)
    BY <1>2 DEF Survivors
  <2>2. QED
    BY <1>1, <2>1, ReachedIn
<1>3. CASE ~full
  <2> DEFINE D == Live \ old
             U == T \cup UNION {_SI_ObjMarkFunc(b) : b \in changed}
  <2>1. S = old \cup Reached(D, U)
    BY <1>3 DEF Survivors
  <2> HIDE DEF D, U
  <2>2. /\ Reached(D, U) \subseteq D /\ U \cap D \subseteq Reached(D, U)
        /\ \A b \in Reached(D, U) : _SI_ObjMarkFunc(b) \cap D \subseteq Reached(D, U)
    BY ReachedIn
  <2> USE DEF D, U
  <2>3. S \subseteq Live /\ T \subseteq S
    BY <2>1, <2>2 DEF WrapperTypes
  <2>4. \A b \in S \ old : \A c \in _SI_ObjMarkFunc(b) \cap Live : c \in S
    BY <2>1, <2>2
  <2>5. ASSUME NEW b \in Values \ orphan, cxx[b] # NoRing, b \in S
        PROVE  ext[cxx[b]] \in S
    BY <1>1, <2>1, <2>4, <2>5 DEF Generations
  <2>6. ASSUME NEW b \in RingWrappers, NEW e \in Elem, b \in S,
               cache[b][e] # NoBag
        PROVE  cache[b][e] \in S
    <3>1. CASE b \notin old
      BY <1>1, <2>4, <2>6, <3>1
    <3>2. CASE b \in old /\ cache[b][e] \in old
      BY <2>1, <3>2
    <3>3. CASE b \in changed /\ cache[b][e] \notin old
      <4>1. cache[b][e] \in U /\ cache[b][e] \in D
        BY <1>1, <2>6, <3>3
      <4>2. QED
        BY <2>1, <2>2, <4>1
    <3>4. QED
      BY <2>6, <3>1, <3>2, <3>3 DEF Generations
  <2>7. QED
    BY <2>3, <2>5, <2>6
<1>4. QED
  BY <1>2, <1>3

(***************************************************************************)
(* A collection starts: what it keeps is closed, what it dooms is the rest *)
(***************************************************************************)
LEMMA CollectStep ==
  ASSUME IInv, NEW full \in BOOLEAN, NEW stack \in SUBSET StackMayHold,
         CollectBags(full, stack)
  PROVE  WrapperInv'
<1> DEFINE S == Survivors(full, roots \cup MarkList(full) \cup stack)
<1> WrapperInv /\ listed \subseteq Live
  BY DEF IInv, TypeOK, ListTypes
<1> USE DEF WrapperInv
<1>1. /\ gc = "none" /\ gc' = "sweep" /\ doomed' = Live \ S /\ old' = S
      /\ changed' = {} /\ wild' \in BOOLEAN
      /\ UNCHANGED <<ringVars, currRing, bagVars, roots, scheduled, pending, orphan>>
  BY DEF CollectBags
<1>2. roots \cup MarkList(full) \cup stack \in SUBSET Live
  BY <1>1 DEF StackMayHold, MarkList, GCInv, Wrapped
<1>3. /\ S \subseteq Live
      /\ roots \subseteq S
      /\ \A b \in Values \ orphan : cxx[b] # NoRing /\ b \in S
           => ext[cxx[b]] \in S
      /\ \A b \in RingWrappers, e \in Elem :
           b \in S /\ cache[b][e] # NoBag => cache[b][e] \in S
  <2>1. /\ S \subseteq Live
        /\ roots \cup MarkList(full) \cup stack \subseteq S
        /\ \A b \in Values \ orphan : cxx[b] # NoRing /\ b \in S
             => ext[cxx[b]] \in S
        /\ \A b \in RingWrappers, e \in Elem :
             b \in S /\ cache[b][e] # NoBag => cache[b][e] \in S
    BY <1>1, <1>2, SurvivorsClosed
  <2>2. QED
    BY <2>1
<1> HIDE DEF S
<1>4. WrapperTypes'
  BY <1>1, <1>3 DEF WrapperTypes
<1>5. WrapperOwnsRing' /\ HandleKeepsRing' /\ CurrRingAlive'
  BY <1>1 DEF WrapperOwnsRing, HandleKeepsRing, CurrRingAlive
<1>6. RefCount'
  BY <1>1 DEF RefCount, Surplus, Holders, Wrapped
<1>7. GCInv'
  BY <1>1, <1>3 DEF GCInv
<1>8. ValueKeepsRing'
  BY <1>1, <1>3 DEF ValueKeepsRing, Wrapped, GCInv
<1>9. CachedElementsKept'
  BY <1>1, <1>3 DEF CachedElementsKept, GCInv
<1>10. Generations'
  BY <1>1, <1>3 DEF Generations
<1>11. QED
  BY <1>4, <1>5, <1>6, <1>7, <1>8, <1>9, <1>10

(***************************************************************************)
(* The interpreter.                                                        *)
(***************************************************************************)
LEMMA InterpStep ==
  ASSUME WrapperInv, NEW r \in Rings,
         InterpRing(r) \/ InterpHold(r) \/ InterpKill(r)
  PROVE  WrapperInv'
<1>1. CASE InterpRing(r)
  <2> USE DEF WrapperInv, InterpRing
  <2>1. /\ ref[r] = 0 /\ ext[r] = NoBag /\ handles[r] = 0 /\ scheduled[r] = 0
        /\ rstate[r] = "none"
    BY <1>1 DEF RefCount, Surplus
  <2>2. /\ \A t \in Rings : rstate'[t] = IF t = r THEN "alive" ELSE rstate[t]
        /\ \A t \in Rings : handles'[t] = IF t = r THEN 1 ELSE handles[t]
        /\ currRing' = r
        /\ UNCHANGED <<ref, ext, surplus, bagVars, old, changed, roots, gcVars,
                       scheduled, pending, orphan, wild>>
    BY <1>1 DEF WrapperTypes
  <2>3. WrapperTypes'
    <3>1. 1 \in 0..MaxHandles
      BY <1>1
    <3>2. handles' \in [Rings -> 0..MaxHandles]
      BY <1>1, <3>1 DEF WrapperTypes
    <3>3. qideal' \in [Rings -> BOOLEAN]
      BY <1>1 DEF WrapperTypes
    <3>4. rstate' \in [Rings -> {"none", "alive", "dead"}]
      BY <1>1 DEF WrapperTypes
    <3>5. QED
      BY <2>2, <3>2, <3>3, <3>4 DEF WrapperTypes
  <2>4. WrapperOwnsRing' /\ HandleKeepsRing' /\ CurrRingAlive'
    BY <2>2 DEF WrapperOwnsRing, HandleKeepsRing, CurrRingAlive, WrapperTypes
  <2>5. \A t \in Rings : Wrapped(t)' = Wrapped(t)
    BY <2>2 DEF Wrapped
  <2>6. RefCount'
    <3>1. ~Wrapped(r)
      BY <2>1 DEF Wrapped
    <3>2. Holders(r)' = 1
      BY <2>1, <2>2, <2>5, <3>1 DEF Holders
    <3>3. \A t \in Rings \ {r} : Holders(t)' = Holders(t)
      BY <2>2, <2>5 DEF Holders
    <3>4. QED
      BY <2>1, <2>2, <3>2, <3>3 DEF RefCount, Surplus
  <2>7. GCInv' /\ CachedElementsKept' /\ Generations'
    BY <2>2 DEF GCInv, CachedElementsKept, Generations
  <2>8. ValueKeepsRing'
    BY <2>2, <2>5 DEF ValueKeepsRing, WrapperTypes, Wrapped
  <2>9. QED
    BY <2>3, <2>4, <2>6, <2>7, <2>8
<1>2. CASE InterpHold(r)
  <2> USE DEF WrapperInv, InterpHold
  <2>1. /\ \A t \in Rings : ref'[t] = IF t = r THEN ref[t] + 1 ELSE ref[t]
        /\ \A t \in Rings : handles'[t] = IF t = r THEN handles[t] + 1
                                                   ELSE handles[t]
        /\ rstate[r] = "alive"
        /\ UNCHANGED <<rstate, ext, qideal, surplus, currRing, bagVars, old, changed,
                       roots, gcVars, scheduled, pending, orphan, wild>>
    BY <1>2 DEF WrapperTypes, InterpSees
  <2>2. WrapperTypes'
    <3>1. handles[r] + 1 \in 0..MaxHandles
      <4>1. handles[r] \in 0..MaxHandles
        BY DEF WrapperTypes
      <4>2. QED
        BY <1>2, <4>1
    <3>2. handles' \in [Rings -> 0..MaxHandles]
      BY <1>2, <3>1 DEF WrapperTypes
    <3>3. ref' \in [Rings -> Int]
      BY <1>2 DEF WrapperTypes
    <3>4. QED
      BY <2>1, <3>2, <3>3 DEF WrapperTypes
  <2>3. WrapperOwnsRing' /\ HandleKeepsRing' /\ CurrRingAlive'
    BY <2>1 DEF WrapperOwnsRing, HandleKeepsRing, CurrRingAlive
  <2>4. \A t \in Rings : Wrapped(t)' = Wrapped(t)
    BY <2>1 DEF Wrapped
  <2>5. RefCount'
    <3>1. handles[r] \in Int /\ scheduled[r] \in Int /\ ref[r] \in Int
      <4>1. handles[r] \in 0..MaxHandles /\ scheduled[r] \in Nat
        BY DEF WrapperTypes
      <4>2. QED
        BY <4>1 DEF WrapperTypes
    <3>2. Holders(r)' = Holders(r) + 1 /\ Holders(r) \in Int
      BY <2>1, <2>4, <3>1 DEF Holders
    <3>3. \A t \in Rings \ {r} : Holders(t)' = Holders(t)
      BY <2>1, <2>4 DEF Holders
    <3>4. \A t \in Rings : Surplus(t)' = Surplus(t) /\ Surplus(t) \in Int
      BY <2>1 DEF Surplus
    <3>5. /\ ref'[r] + 1 = Holders(r)' + Surplus(r)' /\ ref'[r] >= 0
          /\ rstate[r] = "alive"
      BY <2>1, <3>1, <3>2, <3>4 DEF RefCount
    <3>6. QED
      BY <2>1, <3>3, <3>4, <3>5 DEF RefCount
  <2>6. GCInv' /\ CachedElementsKept' /\ Generations'
    BY <2>1 DEF GCInv, CachedElementsKept, Generations
  <2>7. ValueKeepsRing'
    BY <2>1 DEF ValueKeepsRing, Wrapped
  <2>8. QED
    BY <2>2, <2>3, <2>5, <2>6, <2>7
<1>3. CASE InterpKill(r)
  <2>1. doomed = {}
    BY <1>3 DEF InterpKill, Running, WrapperInv, GCInv
  <2>2. QED
    BY <1>3, <2>1, KillStep DEF InterpKill
<1>4. QED
  BY <1>1, <1>2, <1>3

(***************************************************************************)
(* The actions that wrap something.                                        *)
(***************************************************************************)
LEMMA WrapStep ==
  ASSUME IInv, Wrap
  PROVE  WrapperInv'
<1>1. PICK b \in Bags : \/ \E r \in Rings : SI_ring(r, b) \/ gapwrapRing(r, b)
                        \/ CallProcInCurrRing(b)
                        \/ gapwrapObject(b)
  BY DEF Wrap
<1> WrapperInv /\ filling \in Rings \cup {NoRing, Idle}
  BY DEF IInv, TypeOK, ListTypes
<1> USE DEF WrapperInv
<1>2. ASSUME NEW r \in Rings, SI_ring(r, b)
      PROVE  WrapperInv'
  <2>1. /\ ref[r] = 0 /\ handles[r] = 0 /\ rstate[r] = "none" /\ gc = "none"
    BY <1>2 DEF SI_ring, RefCount, Running
  <2>2. /\ surplus' \subseteq Rings /\ r \in surplus'
        /\ \A t \in Rings \ {r} : t \in surplus' <=> t \in surplus
    BY <1>2 DEF SI_ring, WrapperTypes
  <2>3. /\ ref' \in [Rings -> Int] /\ ref'[r] = 1
        /\ \A t \in Rings \ {r} : ref'[t] = ref[t]
    BY <1>2, <2>1 DEF SI_ring, WrapperTypes
  <2>4. ref'[r] = handles[r] + Surplus(r)'
    BY <2>1, <2>2, <2>3 DEF Surplus
  <2>5. QED
    BY <1>2, <2>1, <2>2, <2>3, <2>4, RingWrapStep DEF SI_ring, WrapperTypes
<1>3. ASSUME NEW r \in Rings, gapwrapRing(r, b)
      PROVE  WrapperInv'
  <2>1. CASE /\ ext[r] # NoBag
             /\ IF Wrapped(r)
                THEN Deliver(ext[r]) /\ UNCHANGED wild
                ELSE wild' = TRUE /\ UNCHANGED <<roots, listed>>
             /\ UNCHANGED <<ringVars, bagVars, old, orphan>>
    <3>1. gc = "none" /\ doomed = {} /\ roots' \subseteq Live \ doomed
      BY <1>3, <2>1 DEF gapwrapRing, NextResult, Deliver, GCInv, Wrapped
    <3>2. /\ UNCHANGED <<ringVars, bagVars, old, changed, gcVars, scheduled, orphan>>
          /\ UNCHANGED <<currRing, pending>> /\ wild' \in BOOLEAN
      BY <1>3, <2>1 DEF gapwrapRing, WrapperTypes
    <3>3. QED
      BY <3>1, <3>2, CallStep DEF WrapperTypes, CurrRingAlive
  <2>2. CASE /\ InterpSees(r)
             /\ ref' = [ref EXCEPT ![r] = @ + 1]
             /\ NEW_SINGOBJ_ZERO_ONE(b, r, qideal[r])
             /\ Deliver(b)
             /\ UNCHANGED <<rstate, qideal, handles, wild>>
    <3>1. gc = "none" /\ rstate[r] = "alive" /\ ~Wrapped(r)
      BY <1>3, <2>2 DEF gapwrapRing, NextResult, InterpSees, NEW_SINGOBJ_ZERO_ONE,
         Wrapped
    <3>2. /\ ref' \in [Rings -> Int]
          /\ \A t \in Rings \ {r} : ref'[t] = ref[t]
          /\ ref'[r] = ref[r] + 1 /\ ref[r] \in Int
      BY <2>2 DEF WrapperTypes
    <3>3. handles[r] \in Int /\ scheduled[r] = 0
      <4>1. handles[r] \in 0..MaxHandles
        BY DEF WrapperTypes
      <4>2. QED
        BY <3>1, <4>1 DEF GCInv
    <3>4. /\ ref'[r] = handles[r] + Surplus(r)'
          /\ surplus' \subseteq Rings
          /\ \A t \in Rings \ {r} : t \in surplus' <=> t \in surplus
      <4>1. surplus' = surplus
        BY <1>3 DEF gapwrapRing
      <4>2. ref[r] + 1 = handles[r] + 0 + 0 + Surplus(r)
        BY <3>1, <3>3 DEF RefCount, Holders
      <4>3. Surplus(r)' = Surplus(r) /\ Surplus(r) \in Int
        BY <4>1 DEF Surplus
      <4>4. surplus \subseteq Rings
        BY DEF WrapperTypes
      <4>5. ref'[r] = handles[r] + Surplus(r)'
        BY <3>2, <3>3, <4>2, <4>3
      <4>6. QED
        BY <4>1, <4>4, <4>5
    <3>5. rstate' = [rstate EXCEPT ![r] = "alive"]
      BY <2>2, <3>1 DEF WrapperTypes
    <3>6. UNCHANGED <<currRing, changed, gcVars, scheduled, pending>>
      BY <1>3 DEF gapwrapRing
    <3>7. /\ qideal[r] \in BOOLEAN
          /\ roots' \subseteq roots \cup {b}
          /\ pending' \in Rings \cup {NoRing, Idle} /\ wild' \in BOOLEAN
          /\ rstate[r] # "dead"
          /\ UNCHANGED <<qideal, handles, currRing, changed, gcVars, scheduled>>
      BY <2>2, <3>1, <3>6 DEF Deliver, WrapperTypes
    <3>8. PICK q \in BOOLEAN : NEW_SINGOBJ_ZERO_ONE(b, r, q)
      BY <2>2, <3>7
    <3>9. /\ rstate[r] # "dead"
          /\ ref' \in [Rings -> Int]
          /\ \A t \in Rings \ {r} : ref'[t] = ref[t]
      BY <3>2, <3>7
    <3>10. /\ UNCHANGED <<qideal, handles, currRing, changed, gcVars, scheduled>>
           /\ roots' \subseteq roots \cup {b}
           /\ pending' \in Rings \cup {NoRing, Idle} /\ wild' \in BOOLEAN
      BY <3>7
    <3>11. gc = "none"
      BY <3>1
    <3>12. QED
      BY <3>4, <3>5, <3>8, <3>9, <3>10, <3>11, RingWrapStep, ZenonT(60)
  <2>3. CASE /\ rstate[r] = "none"
             /\ rstate' = [rstate EXCEPT ![r] = "alive"]
             /\ NEW_SINGOBJ_ZERO_ONE(b, r, FALSE)
             /\ Deliver(b)
             /\ UNCHANGED <<ref, qideal, handles, wild>>
    <3>1. ref[r] = 0 /\ handles[r] = 0 /\ gc = "none"
      BY <1>3, <2>3 DEF gapwrapRing, NextResult, RefCount, Surplus
    <3>2. UNCHANGED <<currRing, changed, gcVars, scheduled, pending>>
      BY <1>3 DEF gapwrapRing
    <3>3. /\ FALSE \in BOOLEAN
          /\ roots' \subseteq roots \cup {b}
          /\ pending' \in Rings \cup {NoRing, Idle} /\ wild' \in BOOLEAN
          /\ rstate[r] # "dead"
          /\ UNCHANGED <<qideal, handles, currRing, changed, gcVars, scheduled>>
          /\ rstate' = [rstate EXCEPT ![r] = "alive"]
      BY <2>3, <3>1, <3>2 DEF Deliver, WrapperTypes
    <3>4. /\ ref' \in [Rings -> Int] /\ ref'[r] = handles[r] + Surplus(r)'
          /\ \A t \in Rings \ {r} : ref'[t] = ref[t]
          /\ surplus' \subseteq Rings
          /\ \A t \in Rings \ {r} : t \in surplus' <=> t \in surplus
      <4>1. surplus' = surplus /\ r \notin surplus /\ ref' = ref
        BY <1>3, <2>3 DEF gapwrapRing, RefCount
      <4>2. Surplus(r)' = 0
        BY <4>1 DEF Surplus
      <4>3. QED
        BY <3>1, <4>1, <4>2 DEF WrapperTypes
    <3>5. NEW_SINGOBJ_ZERO_ONE(b, r, FALSE)
      BY <2>3
    <3>6. QED
      BY <3>1, <3>3, <3>4, <3>5, RingWrapStep, ZenonT(60)
  <2>4. QED
    BY <1>3, <2>1, <2>2, <2>3 DEF gapwrapRing
<1>4. CASE CallProcInCurrRing(b)
  <2>1. gc = "none" /\ currRing \in Rings /\ rstate[currRing] = "alive"
    BY <1>4 DEF CallProcInCurrRing, gapwrapCurrRing, NextResult, CurrRingAlive, WrapperTypes
  <2>2. CASE ext[currRing] = NoBag
    <3>1. PICK t \in Rings : t = currRing
      BY <2>1
    <3>2. ref' = [ref EXCEPT ![t] = @ + 1]
      BY <1>4, <2>2, <3>1 DEF CallProcInCurrRing, gapwrapCurrRing, TakeRef
    <3>3. /\ ~Wrapped(t)
          /\ rstate' = [rstate EXCEPT ![t] = "alive"]
          /\ rstate[t] # "dead"
          /\ (~qideal[t]) \in BOOLEAN
          /\ UNCHANGED <<qideal, handles, currRing, changed, gcVars, scheduled,
                         roots, wild>>
          /\ roots' \subseteq roots \cup {b}
          /\ pending' \in Rings \cup {NoRing, Idle} /\ wild' \in BOOLEAN
      BY <1>4, <2>1, <2>2, <3>1 DEF CallProcInCurrRing, gapwrapCurrRing, WrapperTypes,
         Wrapped
    <3>8. NEW_SINGOBJ_ZERO_ONE(b, t, ~qideal[t])
      BY <1>4, <2>2, <3>1 DEF CallProcInCurrRing, gapwrapCurrRing
    <3>4. /\ ref' \in [Rings -> Int]
          /\ \A u \in Rings \ {t} : ref'[u] = ref[u]
          /\ ref'[t] = ref[t] + 1 /\ ref[t] \in Int
      BY <3>2 DEF WrapperTypes
    <3>5. handles[t] \in Int /\ scheduled[t] = 0
      <4>1. handles[t] \in 0..MaxHandles
        BY DEF WrapperTypes
      <4>2. QED
        BY <2>1, <4>1 DEF GCInv
    <3>6. /\ ref'[t] = handles[t] + Surplus(t)'
          /\ surplus' \subseteq Rings
          /\ \A u \in Rings \ {t} : u \in surplus' <=> u \in surplus
      <4>1. surplus' = surplus
        BY <1>4 DEF CallProcInCurrRing, gapwrapCurrRing
      <4>2. ref[t] + 1 = handles[t] + 0 + 0 + Surplus(t)
        BY <2>1, <3>1, <3>3, <3>5 DEF RefCount, Holders
      <4>3. Surplus(t)' = Surplus(t) /\ Surplus(t) \in Int
        BY <4>1 DEF Surplus
      <4>4. surplus \subseteq Rings
        BY DEF WrapperTypes
      <4>5. ref'[t] = handles[t] + Surplus(t)'
        BY <3>4, <3>5, <4>2, <4>3
      <4>6. QED
        BY <4>1, <4>4, <4>5
    <3>7. QED
      BY <2>1, <3>3, <3>4, <3>6, <3>8, RingWrapStep, ZenonT(60)
  <2>3. CASE ext[currRing] # NoBag
    <3>1. /\ UNCHANGED <<ringVars, bagVars, old, changed, gcVars, scheduled, orphan>>
          /\ UNCHANGED <<currRing, roots, wild>> /\ pending' \in Rings
      BY <1>4, <2>1, <2>3 DEF CallProcInCurrRing, gapwrapCurrRing
    <3>2. QED
      BY <2>1, <3>1, CallStep DEF WrapperTypes, GCInv
  <2>4. QED
    BY <2>2, <2>3
<1>5. CASE gapwrapObject(b)
  <2>1. /\ gc = "none" /\ pending \in Rings \cup {NoRing}
        /\ NEW_SINGOBJ_RING(b, pending)
        /\ roots' \subseteq roots \cup {b} /\ pending' = filling
        /\ UNCHANGED <<ringVars, currRing, changed, gcVars, scheduled, wild>>
    BY <1>5 DEF gapwrapObject, Deliver, WrapperTypes
  <2>2. QED
    BY <2>1, ObjectWrapStep DEF WrapperTypes
<1>6. QED
  BY <1>1, <1>2, <1>3, <1>4, <1>5

(***************************************************************************)
(* The actions that call the interpreter.                                  *)
(***************************************************************************)
LEMMA CallsStep ==
  ASSUME WrapperInv, Call
  PROVE  WrapperInv'
<1> USE DEF WrapperInv
<1>1. ASSUME NEW a \in Bags \cup {NoBag}, NEW z \in Bags \cup {NoBag},
             CallFunc(z, a)
      PROVE  WrapperInv'
  <2>1. /\ gc = "none" /\ RingOK(ArgCurrRing(a, NoRing))
        /\ currRing' = ArgCurrRing(a, extractRing(z))
        /\ pending' = ArgRing(a, extractRing(z))
        /\ UNCHANGED <<ringVars, bagVars, old, changed, roots, gcVars,
                       scheduled, orphan, wild>>
    BY <1>1 DEF CallFunc, Running
  <2>2. /\ extractRing(z) \in Rings \cup {NoRing}
        /\ extractRing(z) # NoRing => rstate[extractRing(z)] = "alive"
    BY DEF extractRing, WrapperTypes, WrapperOwnsRing
  <2>3. /\ currRing' \in Rings \cup {NoRing}
        /\ currRing' # NoRing => rstate[currRing'] = "alive"
    BY <2>1, <2>2 DEF ArgCurrRing, RingOK, WrapperTypes
  <2>4. pending' \in Rings \cup {NoRing, Idle}
    BY <2>1, <2>2 DEF ArgRing, WrapperTypes
  <2>5. QED
    BY <2>1, <2>3, <2>4, CallStep DEF GCInv, WrapperTypes
<1>2. ASSUME NEW a \in Bags \cup {NoBag}, CallProc(a)
      PROVE  WrapperInv'
  <2>1. /\ gc = "none" /\ RingOK(ArgCurrRing(a, NoRing))
        /\ a \in roots \cup {NoBag}
        /\ currRing' = IF ArgRing(a, NoRing) # NoRing
                       THEN ArgRing(a, NoRing) ELSE ArgCurrRing(a, currRing)
        /\ pending' = ArgRing(a, NoRing)
        /\ UNCHANGED <<ringVars, bagVars, old, changed, roots, gcVars,
                       scheduled, orphan, wild>>
    BY <1>2 DEF CallProc, Running
  <2>2. pending' \in Rings \cup {NoRing}
    BY <2>1 DEF ArgRing, WrapperTypes
  <2>3. ASSUME ArgRing(a, NoRing) # NoRing
        PROVE  /\ ArgRing(a, NoRing) \in Rings
               /\ rstate[ArgRing(a, NoRing)] = "alive"
    <3>1. a \in Bags /\ a # NoBag /\ cxx[a] \in Rings /\ a \in Live
      BY <2>1, <2>3 DEF ArgRing, WrapperTypes, GCInv
    <3>2. CASE kind[a] = "ring"
      BY <3>1, <3>2 DEF ArgRing, WrapperOwnsRing
    <3>3. CASE kind[a] = "value"
      BY <2>1, <3>1, <3>3 DEF ArgRing, ArgCurrRing, RingOK
    <3>4. QED
      BY <3>1, <3>2, <3>3 DEF WrapperTypes
  <2>4. /\ ArgCurrRing(a, currRing) \in Rings \cup {NoRing}
        /\ ArgCurrRing(a, currRing) # NoRing
             => rstate[ArgCurrRing(a, currRing)] = "alive"
    BY <2>1 DEF ArgCurrRing, RingOK, WrapperTypes, CurrRingAlive
  <2>5. /\ currRing' \in Rings \cup {NoRing}
        /\ currRing' # NoRing => rstate[currRing'] = "alive"
    BY <2>1, <2>3, <2>4
  <2>6. QED
    BY <2>1, <2>2, <2>5, CallStep DEF GCInv, WrapperTypes
<1>3. ASSUME NEW b \in Bags,
             \/ CallWithDeadRing(b) \/ SI_SetCurrRing(b)
             \/ SI_Indeterminates(b) \/ SI_RingOfSingobj(b)
      PROVE  WrapperInv'
  <2>1. gc = "none" /\ doomed = {}
    BY <1>3 DEF CallWithDeadRing, SI_SetCurrRing, SI_Indeterminates,
       SI_RingOfSingobj, Running, GCInv
  <2>2. UNCHANGED <<ringVars, bagVars, old, changed, gcVars, scheduled, orphan>>
    BY <1>3 DEF CallWithDeadRing, SI_SetCurrRing, SI_Indeterminates,
       SI_RingOfSingobj
  <2>3. /\ currRing' \in Rings \cup {NoRing}
        /\ currRing' # NoRing => rstate[currRing'] = "alive"
    <3>1. CASE b \in RingWrappers /\ currRing' = cxx[b]
      BY <3>1 DEF WrapperTypes, WrapperOwnsRing
    <3>2. CASE currRing' = currRing
      BY <3>2 DEF WrapperTypes, CurrRingAlive
    <3>3. QED
      BY <1>3, <3>1, <3>2 DEF CallWithDeadRing, SI_SetCurrRing,
         SI_Indeterminates, SI_RingOfSingobj
  <2>4. pending' \in Rings \cup {NoRing, Idle} /\ wild' \in BOOLEAN
    BY <1>3 DEF CallWithDeadRing, SI_SetCurrRing, SI_Indeterminates,
       SI_RingOfSingobj, WrapperTypes
  <2>5. roots' \subseteq Live \ doomed
    BY <1>3, <2>1 DEF CallWithDeadRing, SI_SetCurrRing, SI_Indeterminates,
       SI_RingOfSingobj, GCInv, Wrapped
  <2>6. QED
    BY <2>2, <2>3, <2>4, <2>5, CallStep
<1>4. CASE gapwrapPlain
  <2>1. /\ UNCHANGED <<ringVars, currRing, bagVars, old, changed, roots,
                       gcVars, scheduled, orphan, wild>>
        /\ pending' = Idle
    BY <1>4 DEF gapwrapPlain
  <2>2. QED
    BY <2>1, CallStep DEF GCInv, WrapperTypes, CurrRingAlive
<1>5. CASE ResultsDone
  <2>1. /\ UNCHANGED <<ringVars, currRing, bagVars, old, changed, roots,
                       gcVars, scheduled, orphan, wild>>
        /\ pending' = Idle
    BY <1>5 DEF ResultsDone
  <2>2. QED
    BY <2>1, CallStep DEF GCInv, WrapperTypes, CurrRingAlive
<1>6. QED
  BY <1>1, <1>2, <1>3, <1>4, <1>5 DEF Call

(***************************************************************************)
(* Zero, one, and GAP's own assignments.                                   *)
(***************************************************************************)
LEMMA MutatorStep ==
  ASSUME IInv, Mutator
  PROVE  WrapperInv'
<1> WrapperInv /\ listed \subseteq Live
  BY DEF IInv, TypeOK, ListTypes
<1> USE DEF WrapperInv
<1>1. ASSUME NEW e \in Elem, NEW w \in RingWrappers, NEW b \in Bags,
             SMSingObj(e, w, b), gc = "none",
             UNCHANGED <<ringVars, currRing, gcVars, scheduled, pending, wild>>
      PROVE  WrapperInv'
  <2>1. CASE cache[w][e] = NoBag
    BY <1>1, <2>1, ElementStep
  <2>2. CASE cache[w][e] # NoBag
    <3>1. /\ roots' = roots \cup {cache[w][e]}
          /\ UNCHANGED <<bagVars, old, changed, orphan>>
      BY <1>1, <2>2 DEF SMSingObj
    <3>2. roots' \subseteq Live \ doomed
      BY <1>1, <2>2, <3>1 DEF CachedElementsKept, GCInv
    <3>3. QED
      BY <1>1, <3>1, <3>2, CallStep DEF WrapperTypes, CurrRingAlive
  <2>3. QED
    BY <2>1, <2>2
<1>2. ASSUME NEW b \in Bags, NEW e \in Elem, NEW w \in Bags,
             ElementOfRing(e, w, b)
      PROVE  WrapperInv'
  <2>1. /\ gc = "none" /\ w \in RingWrappers /\ SMSingObj(e, w, b)
        /\ UNCHANGED <<ringVars, currRing, gcVars, scheduled, pending, wild>>
    BY <1>2 DEF ElementOfRing, Running
  <2>2. QED
    BY <1>1, <2>1
<1>3. ASSUME NEW b \in Bags, NEW e \in Elem, NEW s \in Bags,
             ElementOfObject(e, s, b)
      PROVE  WrapperInv'
  <2>1. /\ gc = "none"
        /\ UNCHANGED <<ringVars, currRing, gcVars, scheduled, pending>>
    BY <1>3 DEF ElementOfObject, Running
  <2>2. CASE Wrapped(cxx[s]) /\ rstate[cxx[s]] = "alive"
    <3>1. /\ ext[cxx[s]] \in RingWrappers /\ UNCHANGED wild
          /\ SMSingObj(e, ext[cxx[s]], b)
      BY <1>3, <2>2 DEF ElementOfObject, Wrapped
    <3>2. QED
      BY <1>1, <2>1, <3>1
  <2>3. CASE ~(Wrapped(cxx[s]) /\ rstate[cxx[s]] = "alive")
    <3>1. wild' = TRUE /\ UNCHANGED <<bagVars, old, changed, roots, orphan>>
      BY <1>3, <2>3 DEF ElementOfObject
    <3>2. QED
      BY <2>1, <3>1, CallStep DEF WrapperTypes, CurrRingAlive, GCInv
  <2>4. QED
    BY <2>2, <2>3
<1>4. ASSUME NEW b \in Bags, Forget(b)
      PROVE  WrapperInv'
  <2>1. /\ roots' \subseteq roots
        /\ UNCHANGED <<ringVars, currRing, bagVars, old, changed, gcVars,
                       scheduled, pending, orphan, wild>>
    BY <1>4 DEF Forget
  <2>2. QED
    BY <2>1, CallStep DEF WrapperTypes, CurrRingAlive, GCInv
<1>5. ASSUME NEW b \in Bags, TakeResult(b)
      PROVE  WrapperInv'
  <2>1. /\ roots' \subseteq roots \cup listed /\ wild' \in BOOLEAN /\ gc = "none"
        /\ UNCHANGED <<ringVars, currRing, bagVars, old, changed, gcVars,
                       scheduled, pending, orphan>>
    BY <1>5 DEF TakeResult, Running, WrapperTypes
  <2>2. QED
    BY <2>1, CallStep DEF WrapperTypes, CurrRingAlive, GCInv
<1>6. CASE ForgetList
  <2>1. UNCHANGED <<ringVars, currRing, bagVars, old, changed, gcVars, roots,
                    scheduled, pending, orphan, wild>>
    BY <1>6 DEF ForgetList
  <2>2. QED
    BY <2>1, CallStep DEF WrapperTypes, CurrRingAlive, GCInv
<1>7. QED
  BY <1>2, <1>3, <1>4, <1>5, <1>6 DEF Mutator

(***************************************************************************)
(* What remains of the collector: scheduled kills, and the end.            *)
(***************************************************************************)
LEMMA SweepStep ==
  ASSUME WrapperInv, Sweep
  PROVE  WrapperInv'
<1>1. ASSUME NEW b \in Bags, _SI_FreeFunc(b)
      PROVE  WrapperInv'
  BY <1>1, FreeStep
<1>2. ASSUME NEW r \in Rings, SingularRingCleaner(r)
      PROVE  WrapperInv'
  <2>1. /\ rKill(r) /\ doomed = {} /\ scheduled[r] > 0 /\ gc = "sweep"
        /\ scheduled' = [scheduled EXCEPT ![r] = @ - 1]
        /\ UNCHANGED <<handles, surplus, bagVars, old, changed, roots, gcVars, pending,
                       orphan, wild>>
    BY <1>2 DEF SingularRingCleaner
  <2>2. QED
    BY <2>1, KillStep
<1>3. CASE CollectionDone
  <2> USE DEF WrapperInv
  <2>1. /\ UNCHANGED <<ringVars, currRing, bagVars, old, changed, roots, doomed,
                       scheduled, pending, orphan, wild>>
        /\ gc' = "none" /\ doomed = {} /\ \A r \in Rings : scheduled[r] = 0
    BY <1>3 DEF CollectionDone
  <2>2. WrapperTypes'
    BY <2>1 DEF WrapperTypes
  <2>3. WrapperOwnsRing' /\ HandleKeepsRing' /\ CurrRingAlive'
    BY <2>1 DEF WrapperOwnsRing, HandleKeepsRing, CurrRingAlive
  <2>4. RefCount'
    BY <2>1 DEF RefCount, Surplus, Holders, Wrapped
  <2>5. GCInv'
    BY <2>1 DEF GCInv
  <2>6. ValueKeepsRing' /\ CachedElementsKept' /\ Generations'
    BY <2>1 DEF ValueKeepsRing, CachedElementsKept, Generations, Wrapped
  <2>7. QED
    BY <2>2, <2>3, <2>4, <2>5, <2>6
<1>4. QED
  BY <1>1, <1>2, <1>3 DEF Sweep

(***************************************************************************)
(* Stuttering.                                                             *)
(***************************************************************************)
LEMMA StutterStep ==
  ASSUME WrapperInv, UNCHANGED vars
  PROVE  WrapperInv'
<1> USE DEF WrapperInv
<1>1. UNCHANGED <<rstate, ref, ext, qideal, handles, surplus, currRing, kind, cxx, qtype,
                  cache, old, changed, roots, doomed, gc, scheduled, pending,
                  orphan, wild>>
  BY DEF vars
<1>2. WrapperTypes'
  BY <1>1 DEF WrapperTypes
<1>3. WrapperOwnsRing' /\ HandleKeepsRing' /\ CurrRingAlive' /\ GCInv'
  BY <1>1 DEF WrapperOwnsRing, HandleKeepsRing, CurrRingAlive, GCInv
<1>4. RefCount'
  BY <1>1 DEF RefCount, Surplus, Holders, Wrapped
<1>5. ValueKeepsRing' /\ CachedElementsKept' /\ Generations'
  BY <1>1 DEF ValueKeepsRing, CachedElementsKept, Generations, Wrapped
<1>6. QED
  BY <1>2, <1>3, <1>4, <1>5

(***************************************************************************)
(* The list of results.  A wrapper stored in it is a bag that is there.    *)
(***************************************************************************)
ListPart == ListTypes /\ GCCOUNT \in 0..FullGC /\ ListInv

LEMMA SameList ==
  ASSUME ListPart, UNCHANGED <<listVars, GCCOUNT, doomed>>, Live \subseteq Live'
  PROVE  ListPart'
BY DEF ListPart, ListTypes, ListInv, listVars

LEMMA DropStep ==
  ASSUME ListPart, DropList, filling' = Idle, UNCHANGED GCCOUNT
  PROVE  ListPart'
BY DEF ListPart, ListTypes, ListInv, DropList

LEMMA DeliverStep ==
  ASSUME ListPart, NEW b \in Live', Live \subseteq Live', doomed = {},
         IF filling = Idle THEN UNCHANGED listed ELSE listed' = listed \cup {b},
         UNCHANGED <<filling, list, lost, GCCOUNT, doomed>>
  PROVE  ListPart'
<1>1. ListTypes'
  BY DEF ListPart, ListTypes
<1>2. ListInv'
  BY DEF ListPart, ListInv
<1>3. QED
  BY <1>1, <1>2 DEF ListPart

(***************************************************************************)
(* Wrapping.                                                               *)
(***************************************************************************)
LEMMA NewBagLive ==
  ASSUME WrapperInv, NEW b \in Bags, NEW k \in {"ring", "value"}, NEW r, NEW q,
         NEW caches, NewBag(b, k, r, q, caches)
  PROVE  b \in Live' /\ Live \subseteq Live'
BY DEF WrapperInv, WrapperTypes, NewBag, FillBag

LEMMA WrapListStep ==
  ASSUME WrapperInv, ListPart, Wrap
  PROVE  ListPart'
<1>1. PICK b \in Bags : \/ \E r \in Rings : SI_ring(r, b) \/ gapwrapRing(r, b)
                        \/ CallProcInCurrRing(b)
                        \/ gapwrapObject(b)
  BY DEF Wrap
<1>2. ASSUME NEW r \in Rings, SI_ring(r, b)
      PROVE  ListPart'
  <2>1. Live \subseteq Live' /\ UNCHANGED <<listVars, GCCOUNT, doomed>>
    BY <1>2, NewBagLive DEF SI_ring, NEW_SINGOBJ_ZERO_ONE
  <2>2. QED
    BY <2>1, SameList
<1>3. ASSUME NEW r \in Rings, gapwrapRing(r, b)
      PROVE  ListPart'
  <2>1. /\ UNCHANGED <<filling, list, lost, GCCOUNT, doomed>> /\ doomed = {}
    BY <1>3 DEF gapwrapRing, NextResult, WrapperInv, GCInv
  <2>2. CASE /\ ext[r] # NoBag
             /\ IF Wrapped(r)
                THEN Deliver(ext[r]) /\ UNCHANGED wild
                ELSE wild' = TRUE /\ UNCHANGED <<roots, listed>>
             /\ UNCHANGED <<ringVars, bagVars, old, orphan>>
    <3>1. Live' = Live
      BY <2>2
    <3>2. CASE Wrapped(r)
      <4>1. ext[r] \in Live'
        BY <3>1, <3>2 DEF Wrapped
      <4>2. QED
        BY <2>1, <2>2, <3>1, <3>2, <4>1, DeliverStep DEF Deliver
    <3>3. CASE ~Wrapped(r)
      BY <2>1, <2>2, <3>1, <3>3, SameList DEF listVars
    <3>4. QED
      BY <3>2, <3>3
  <2>3. CASE (\E q : NEW_SINGOBJ_ZERO_ONE(b, r, q)) /\ Deliver(b)
    <3>1. b \in Live' /\ Live \subseteq Live'
      BY <2>3, NewBagLive DEF NEW_SINGOBJ_ZERO_ONE
    <3>2. QED
      BY <2>1, <2>3, <3>1, DeliverStep DEF Deliver
  <2>4. QED
    BY <1>3, <2>2, <2>3 DEF gapwrapRing
<1>4. CASE CallProcInCurrRing(b)
  <2>1. Live \subseteq Live'
    <3>1. CASE ext[currRing] = NoBag
      BY <1>4, <3>1, NewBagLive DEF CallProcInCurrRing, gapwrapCurrRing,
         NEW_SINGOBJ_ZERO_ONE
    <3>2. CASE ext[currRing] # NoBag
      BY <1>4, <3>2 DEF CallProcInCurrRing, gapwrapCurrRing
    <3>3. QED
      BY <3>1, <3>2
  <2>2. UNCHANGED <<listVars, GCCOUNT, doomed>>
    BY <1>4 DEF CallProcInCurrRing, gapwrapCurrRing
  <2>3. QED
    BY <2>1, <2>2, SameList
<1>5. CASE gapwrapObject(b)
  <2>1. b \in Live' /\ Live \subseteq Live'
    BY <1>5, NewBagLive DEF gapwrapObject, NEW_SINGOBJ_RING
  <2>2. /\ UNCHANGED <<filling, list, lost, GCCOUNT, doomed>> /\ doomed = {}
        /\ Deliver(b)
    BY <1>5 DEF gapwrapObject, WrapperInv, GCInv
  <2>3. QED
    BY <2>1, <2>2, DeliverStep DEF Deliver
<1>6. QED
  BY <1>1, <1>2, <1>3, <1>4, <1>5

(***************************************************************************)
(* Calls, and what GAP does with the list.                                 *)
(***************************************************************************)
LEMMA CallsListStep ==
  ASSUME WrapperInv, ListPart, Call
  PROVE  ListPart'
<1>1. Live' = Live /\ UNCHANGED <<GCCOUNT, doomed>>
  BY DEF Call, CallFunc, CallProc, CallWithDeadRing, SI_SetCurrRing,
     SI_Indeterminates, SI_RingOfSingobj, gapwrapPlain, ResultsDone
<1>2. CASE UNCHANGED listVars
  BY <1>1, <1>2, SameList
<1>3. ASSUME NEW a \in Bags \cup {NoBag}, CallProc(a)
      PROVE  ListPart'
  <2>1. CASE list = "none" /\ list' = "young" /\ filling' = ArgRing(a, NoRing)
             /\ UNCHANGED <<listed, lost>>
    <3>1. ArgRing(a, NoRing) \in Rings \cup {NoRing}
      BY DEF ArgRing, WrapperInv, WrapperTypes
    <3>2. QED
      BY <1>1, <2>1, <3>1 DEF ListPart, ListTypes, ListInv
  <2>2. QED
    BY <1>2, <1>3, <2>1 DEF CallProc
<1>4. CASE gapwrapPlain
  <2>1. CASE filling = Idle
    <3>1. UNCHANGED listVars
      BY <1>4, <2>1 DEF gapwrapPlain, listVars
    <3>2. QED
      BY <1>2, <3>1
  <2>2. CASE filling # Idle
    BY <1>1, <1>4, <2>2, DropStep DEF gapwrapPlain
  <2>3. QED
    BY <2>1, <2>2
<1>5. CASE ResultsDone
  BY <1>1, <1>5 DEF ResultsDone, ListPart, ListTypes, ListInv
<1>6. QED
  BY <1>2, <1>3, <1>4, <1>5 DEF Call, CallFunc, CallWithDeadRing,
     SI_SetCurrRing, SI_Indeterminates, SI_RingOfSingobj

LEMMA MutatorListStep ==
  ASSUME WrapperInv, ListPart, Mutator
  PROVE  ListPart'
<1>1. ASSUME NEW e \in Elem, NEW w, NEW b \in Bags, SMSingObj(e, w, b)
      PROVE  Live \subseteq Live'
  BY <1>1, NewBagLive DEF SMSingObj
<1>2. ASSUME NEW b \in Bags, NEW e \in Elem, NEW w \in Bags,
             ElementOfRing(e, w, b) \/ ElementOfObject(e, w, b)
      PROVE  ListPart'
  <2>1. Live \subseteq Live'
    BY <1>1, <1>2 DEF ElementOfRing, ElementOfObject
  <2>2. UNCHANGED <<listVars, GCCOUNT, doomed>>
    BY <1>2 DEF ElementOfRing, ElementOfObject
  <2>3. QED
    BY <2>1, <2>2, SameList
<1>3. ASSUME NEW b \in Bags, Forget(b) \/ TakeResult(b)
      PROVE  ListPart'
  BY <1>3, SameList DEF Forget, TakeResult
<1>4. CASE ForgetList
  BY <1>4, DropStep DEF ForgetList, Running
<1>5. QED
  BY <1>2, <1>3, <1>4 DEF Mutator

(***************************************************************************)
(* A collection starts, and frees what it doomed.  A young list is looked  *)
(* at, so it loses nothing.                                                *)
(***************************************************************************)
LEMMA CollectListStep ==
  ASSUME WrapperInv, ListPart, NEW full \in BOOLEAN,
         NEW stack \in SUBSET StackMayHold, CollectBags(full, stack),
         GCCOUNT' \in 0..FullGC
  PROVE  ListPart'
<1>1. Live' = Live /\ UNCHANGED <<filling, listed, lost>>
      /\ list' = IF list = "none" THEN "none" ELSE "old"
  BY DEF CollectBags
<1>2. ListTypes'
  BY <1>1 DEF ListPart, ListTypes
<1>3. list' # "old" => list = "none" /\ listed' = {} /\ lost' = {}
  BY <1>1 DEF ListPart, ListInv
<1>4. ListInv'
  BY <1>1, <1>3 DEF ListPart, ListInv
<1>5. QED
  BY <1>2, <1>4 DEF ListPart

LEMMA CollectsListStep ==
  ASSUME WrapperInv, ListPart, Collect
  PROVE  ListPart'
<1>1. PICK stack \in SUBSET StackMayHold :
        \/ possiblytriggerGC(stack)
        \/ \E full \in BOOLEAN : GapCollects(full, stack)
  BY DEF Collect
<1>2. CASE possiblytriggerGC(stack)
  <2>1. GCCOUNT \in 0..FullGC
    BY DEF ListPart
  <2>2. GCCOUNT' \in 0..FullGC
    BY <1>2, <2>1, FullGCAssumption DEF possiblytriggerGC, NextCount
  <2>3. (GCCOUNT = FullGC) \in BOOLEAN
    OBVIOUS
  <2>4. QED
    BY <1>2, <2>2, <2>3, CollectListStep DEF possiblytriggerGC
<1>3. ASSUME NEW full \in BOOLEAN, GapCollects(full, stack)
      PROVE  ListPart'
  <2>1. GCCOUNT' \in 0..FullGC
    BY <1>3 DEF GapCollects, ListPart
  <2>2. QED
    BY <1>3, <2>1, CollectListStep DEF GapCollects
<1>4. QED
  BY <1>1, <1>2, <1>3

LEMMA SweepListStep ==
  ASSUME WrapperInv, ListPart, Sweep
  PROVE  ListPart'
<1>1. ASSUME NEW b \in Bags, _SI_FreeFunc(b)
      PROVE  ListPart'
  <2>1. /\ \A c \in Bags : kind'[c] = IF c = b THEN "free" ELSE kind[c]
        /\ doomed' = doomed \ {b} /\ b \in doomed
        /\ listed' = listed \ {b} /\ lost' = lost \cup ({b} \cap listed)
        /\ UNCHANGED <<filling, list, GCCOUNT>>
    BY <1>1 DEF _SI_FreeFunc, FillBag, WrapperInv, WrapperTypes
  <2>2. ListTypes'
    BY <2>1 DEF ListPart, ListTypes
  <2>3. ListInv'
    BY <2>1 DEF ListPart, ListInv
  <2>4. QED
    BY <2>1, <2>2, <2>3 DEF ListPart
<1>2. ASSUME NEW r \in Rings, SingularRingCleaner(r)
      PROVE  ListPart'
  BY <1>2, SameList DEF SingularRingCleaner
<1>3. CASE CollectionDone
  BY <1>3, SameList DEF CollectionDone
<1>4. QED
  BY <1>1, <1>2, <1>3 DEF Sweep

(***************************************************************************)
(* The inductive invariant holds in every state of the program.            *)
(***************************************************************************)
LEMMA InvParts == IInv <=> WrapperInv /\ ListPart
BY DEF IInv, WrapperInv, TypeOK, ListPart

THEOREM Invariance == Spec => []IInv
<1>1. Init => IInv
  <2>1. Init => ListPart
    BY FullGCAssumption DEF Init, ListPart, ListTypes, ListInv
  <2>2. QED
    BY <2>1, InitInv, InvParts
<1>2. IInv /\ [Next]_vars => IInv'
  <2>1. SUFFICES ASSUME IInv, WrapperInv, ListPart, [Next]_vars
                 PROVE  WrapperInv' /\ ListPart'
    <3>1. WrapperInv' /\ ListPart' => IInv'
      BY DEF IInv, WrapperInv, TypeOK, ListPart
    <3>2. QED
      BY <3>1, InvParts
  <2>2. CASE Interpreter
    <3>1. Live' = Live /\ UNCHANGED <<listVars, GCCOUNT, doomed>>
      BY <2>2 DEF Interpreter, InterpRing, InterpHold, InterpKill
    <3>2. QED
      BY <2>1, <2>2, <3>1, InterpStep, SameList DEF Interpreter
  <2>3. CASE Wrap
    BY <2>1, <2>3, WrapStep, WrapListStep
  <2>4. CASE Call
    BY <2>1, <2>4, CallsStep, CallsListStep
  <2>5. CASE Mutator
    BY <2>1, <2>5, MutatorStep, MutatorListStep
  <2>6. CASE Collect
    <3>1. \E full \in BOOLEAN, stack \in SUBSET StackMayHold : CollectBags(full, stack)
      BY <2>6 DEF Collect, possiblytriggerGC, GapCollects
    <3>2. WrapperInv'
      BY <2>1, <3>1, CollectStep
    <3>3. QED
      BY <2>1, <2>6, <3>2, CollectsListStep
  <2>7. CASE Sweep
    BY <2>1, <2>7, SweepStep, SweepListStep
  <2>8. CASE UNCHANGED vars
    <3>1. Live' = Live /\ UNCHANGED <<listVars, GCCOUNT, doomed>>
      BY <2>8 DEF vars
    <3>2. QED
      BY <2>1, <2>8, <3>1, StutterStep, SameList
  <2>9. QED
    BY <2>1, <2>2, <2>3, <2>4, <2>5, <2>6, <2>7, <2>8 DEF Next
<1>3. QED
  BY <1>1, <1>2, PTL DEF Spec

(***************************************************************************)
(* Type correctness.                                                       *)
(***************************************************************************)
THEOREM TypeCorrectness == Spec => []TypeOK
<1>1. IInv => TypeOK
  BY DEF IInv
<1>2. QED
  BY <1>1, Invariance, PTL

(***************************************************************************)
(* The ring of a wrapper is not deleted before the wrapper is freed, and a *)
(* ring has one wrapper at most.                                           *)
(***************************************************************************)
THEOREM RingOwnership == Spec => []WrapperOwnsRing
<1>1. IInv => WrapperOwnsRing
  BY DEF IInv, WrapperInv
<1>2. QED
  BY <1>1, Invariance, PTL

(***************************************************************************)
(* No collection deletes a ring the interpreter still names.               *)
(***************************************************************************)
THEOREM InterpreterKeepsRing == Spec => []HandleKeepsRing
<1>1. IInv => HandleKeepsRing
  BY DEF IInv, WrapperInv
<1>2. QED
  BY <1>1, Invariance, PTL

(***************************************************************************)
(* The current ring is alive or NULL, although rings are deleted by the    *)
(* collector and by the interpreter behind the back of each other.         *)
(***************************************************************************)
THEOREM CurrentRingAlive == Spec => []CurrRingAlive
<1>1. IInv => CurrRingAlive
  BY DEF IInv, WrapperInv
<1>2. QED
  BY <1>1, Invariance, PTL

(***************************************************************************)
(* An object can always be freed in its ring.                              *)
(***************************************************************************)
THEOREM RingOutlivesValues == Spec => []ValueKeepsRing
<1>1. IInv => ValueKeepsRing
  BY DEF IInv, WrapperInv
<1>2. QED
  BY <1>1, Invariance, PTL

(***************************************************************************)
(* The collector never frees the cached zero and one of a wrapper it keeps *)
(***************************************************************************)
THEOREM CacheSafety == Spec => []CachedElementsKept
<1>1. IInv => CachedElementsKept
  BY DEF IInv, WrapperInv
<1>2. QED
  BY <1>1, Invariance, PTL

(***************************************************************************)
(* The collector frees nothing GAP itself refers to, and no result in a    *)
(* list that no collection has made old.                                   *)
(***************************************************************************)
THEOREM RootsSafety == Spec => []RootsKept
<1>1. IInv => RootsKept
  <2>1. IInv => GCInv /\ ListInv /\ ListTypes
    BY DEF IInv, WrapperInv, TypeOK
  <2>2. QED
    BY <2>1 DEF GCInv, ListInv, ListTypes, RootsKept
<1>2. QED
  BY <1>1, Invariance, PTL

(***************************************************************************)
(* An object that has its ring can be used: marked, freed, passed to a     *)
(* call, asked for its ring.                                               *)
(***************************************************************************)
LEMMA UsableValue ==
  ASSUME WrapperInv, orphan = {}, NEW b \in Values
  PROVE  /\ RingOK(cxx[b])
         /\ gc = "none" /\ cxx[b] # NoRing => Wrapped(cxx[b]) /\ rstate[cxx[b]] = "alive"
BY DEF WrapperInv, WrapperTypes, GCInv, ValueKeepsRing, RingOK

(***************************************************************************)
(* While no object is orphaned, neither calls, nor GAP, nor the collector  *)
(* use a dangling pointer.                                                 *)
(***************************************************************************)
LEMMA CallNotWild == WrapperInv /\ orphan = {} /\ Call => ~wild'
<1> SUFFICES ASSUME WrapperInv, orphan = {}, Call PROVE ~wild'
  OBVIOUS
<1>1. ASSUME NEW b \in Bags, CallWithDeadRing(b)
      PROVE  FALSE
  <2>1. b \in Values /\ ~RingOK(cxx[b])
    <3>1. ~RingOK(NoRing)
           \/ (b \in Values /\ ~RingOK(cxx[b]))
      BY <1>1 DEF CallWithDeadRing, ArgCurrRing
    <3>2. QED
      BY <3>1 DEF RingOK
  <2>2. QED
    BY <2>1, UsableValue
<1>2. ASSUME NEW b \in Bags, SI_RingOfSingobj(b)
      PROVE  ~wild'
  <2>1. b \in Values /\ cxx[b] # NoRing /\ gc = "none" /\ ~wild
    BY <1>2 DEF SI_RingOfSingobj, Running
  <2>2. Wrapped(cxx[b]) /\ rstate[cxx[b]] = "alive"
    BY <2>1, UsableValue
  <2>3. QED
    BY <1>2, <2>1, <2>2 DEF SI_RingOfSingobj
<1>3. QED
  BY <1>1, <1>2 DEF Call, CallFunc, CallProc, SI_SetCurrRing, SI_Indeterminates,
     gapwrapPlain, ResultsDone, NextResult, Running

(***************************************************************************)
(* Zero and one of an object whose ring has its wrapper.                   *)
(***************************************************************************)
LEMMA MutatorNotWild ==
  WrapperInv /\ orphan = {} /\ lost = {} /\ Mutator => ~wild'
<1> SUFFICES ASSUME WrapperInv, orphan = {}, lost = {}, Mutator PROVE ~wild'
  OBVIOUS
<1>1. ASSUME NEW b \in Bags, NEW e \in Elem, NEW s \in Bags,
             ElementOfObject(e, s, b)
      PROVE  ~wild'
  <2>1. s \in Values /\ cxx[s] # NoRing /\ gc = "none" /\ ~wild
    BY <1>1 DEF ElementOfObject, Running
  <2>2. Wrapped(cxx[s]) /\ rstate[cxx[s]] = "alive"
    BY <2>1, UsableValue
  <2>3. QED
    BY <1>1, <2>1, <2>2 DEF ElementOfObject
<1>2. QED
  BY <1>1 DEF Mutator, ElementOfRing, Forget, TakeResult, ForgetList, Running

(***************************************************************************)
(* The marking function reads the ext_ref of rings that are alive.         *)
(***************************************************************************)
LEMMA CollectNotWild == IInv /\ orphan = {} /\ Collect => ~wild'
<1> SUFFICES ASSUME WrapperInv, listed \subseteq Live, orphan = {},
                    NEW full \in BOOLEAN,
                    NEW stack \in SUBSET StackMayHold, CollectBags(full, stack)
             PROVE  ~wild'
  BY DEF Collect, possiblytriggerGC, GapCollects, IInv, TypeOK, ListTypes
<1> DEFINE S == Survivors(full, roots \cup MarkList(full) \cup stack)
<1>1. roots \cup MarkList(full) \cup stack \in SUBSET Live /\ gc = "none"
  BY DEF CollectBags, StackMayHold, MarkList, WrapperInv, GCInv, Wrapped
<1>2. S \subseteq Live
  BY <1>1, SurvivorsClosed
<1>3. \A b \in S : kind[b] = "value" => RingOK(cxx[b])
  BY <1>2, UsableValue
<1> HIDE DEF S
<1>4. wild' = \E b \in IF full THEN S ELSE S \ old :
                 kind[b] = "value" /\ ~RingOK(cxx[b])
  BY DEF CollectBags, S
<1>5. QED
  BY <1>3, <1>4

(***************************************************************************)
(* An object is freed in a ring that is alive.                             *)
(***************************************************************************)
LEMMA SweepNotWild == WrapperInv /\ orphan = {} /\ Sweep => ~wild'
<1> SUFFICES ASSUME WrapperInv, orphan = {}, Sweep PROVE ~wild'
  OBVIOUS
<1>1. ASSUME NEW b \in Bags, _SI_FreeFunc(b)
      PROVE  ~wild'
  <2>1. b \in Live /\ ~wild
    BY <1>1 DEF _SI_FreeFunc, WrapperInv, WrapperTypes
  <2>2. CASE kind[b] = "ring"
    BY <1>1, <2>1, <2>2 DEF _SI_FreeFunc
  <2>3. CASE kind[b] # "ring"
    <3>1. b \in Values
      BY <2>1, <2>3 DEF WrapperInv, WrapperTypes
    <3>2. wild' = ~RingOK(cxx[b])
      BY <1>1, <2>3 DEF _SI_FreeFunc
    <3>3. QED
      BY <3>1, <3>2, UsableValue
  <2>4. QED
    BY <2>2, <2>3
<1>2. QED
  BY <1>1 DEF Sweep, SingularRingCleaner, CollectionDone

(***************************************************************************)
(* A ring that nobody holds any more has been deleted, if SI_ring did not  *)
(* make it: the count of an alive ring is exactly that of its holders, and *)
(* a reference too many is there only for the rings of SI_ring.            *)
(***************************************************************************)
THEOREM LeakSafety == Spec => []OnlyRingsOfSI_ringLeak
<1>1. IInv => OnlyRingsOfSI_ringLeak
  <2>1. SUFFICES ASSUME WrapperInv, NEW r \in Rings, r \notin surplus,
                        rstate[r] = "alive"
                 PROVE  Holders(r) > 0
    BY DEF OnlyRingsOfSI_ringLeak, IInv
  <2>2. ref[r] \in Int /\ ref[r] >= 0 /\ ref[r] + 1 = Holders(r) + 0
    BY <2>1 DEF WrapperInv, WrapperTypes, RefCount, Surplus
  <2>3. Holders(r) \in Int
    <3>1. handles[r] \in 0..MaxHandles /\ scheduled[r] \in Nat
      BY <2>1 DEF WrapperInv, WrapperTypes
    <3>2. QED
      BY <3>1 DEF Holders
  <2>4. QED
    BY <2>2, <2>3
<1>2. QED
  BY <1>1, Invariance, PTL

(***************************************************************************)
(* The code follows a dangling pointer only when a ring has outlived its   *)
(* wrapper, or a list of results has lost one: a stale ext_ref and a list  *)
(* that was not reported are the only ways to undefined behaviour.         *)
(***************************************************************************)
THEOREM WildNeedsLoss == Spec => WildOnlyAfterLoss
<1> DEFINE Loss == \/ orphan # {} \/ lost # {}
                   \/ \E r \in Rings : ext[r] # NoBag /\ ~Wrapped(r)
<1>1. IInv /\ [Next]_vars => [wild' => Loss]_vars
  <2>1. SUFFICES ASSUME IInv, WrapperInv, Next, orphan = {}, lost = {}, wild'
                 PROVE  \E r \in Rings : ext[r] # NoBag /\ ~Wrapped(r)
    BY DEF IInv
  <2>2. CASE Interpreter
    BY <2>1, <2>2 DEF Interpreter, InterpRing, InterpHold, InterpKill, Running
  <2>3. CASE Wrap
    <3>1. ASSUME NEW r \in Rings, NEW b \in Bags, gapwrapRing(r, b)
          PROVE  \E t \in Rings : ext[t] # NoBag /\ ~Wrapped(t)
      BY <2>1, <3>1 DEF gapwrapRing, NextResult
    <3>2. QED
      BY <2>1, <2>3, <3>1 DEF Wrap, SI_ring, CallProcInCurrRing,
         gapwrapCurrRing, gapwrapObject, NextResult, Running
  <2>4. CASE Call
    BY <2>1, <2>4, CallNotWild
  <2>5. CASE Mutator
    BY <2>1, <2>5, MutatorNotWild
  <2>6. CASE Collect
    BY <2>1, <2>6, CollectNotWild
  <2>7. CASE Sweep
    BY <2>1, <2>7, SweepNotWild
  <2>8. QED
    BY <2>1, <2>2, <2>3, <2>4, <2>5, <2>6, <2>7 DEF Next
<1>2. QED
  BY <1>1, Invariance, PTL DEF Spec, WildOnlyAfterLoss

-----------------------------------------------------------------------------
(* The refinement of RingLifetimes *)

(***************************************************************************)
(* A step, as RingLifetimes sees it.                                       *)
(***************************************************************************)
AbstractStep == [Lifetimes!Next]_<<rstate, HoldersOf, ObjectsOf, surplus>>

(***************************************************************************)
(* How many hold a ring: the count of a living ring without a surplus      *)
(* reference and with it, nobody otherwise.                                *)
(***************************************************************************)
LEMMA HoldersCount ==
  ASSUME WrapperInv, NEW r \in Rings
  PROVE  /\ handles[r] \in Nat /\ scheduled[r] \in Nat /\ ref[r] \in Int
         /\ Holders(r) \in Nat
         /\ Wrapped(r) => rstate[r] = "alive" /\ Holders(r) > 0
         /\ rstate[r] = "alive" => ref[r] + 1 = Holders(r) + Surplus(r)
         /\ rstate[r] # "alive" => Holders(r) = 0
<1>1. handles[r] \in Nat /\ scheduled[r] \in Nat /\ ref[r] \in Int
  <2>1. handles[r] \in 0..MaxHandles
    BY DEF WrapperInv, WrapperTypes
  <2>2. QED
    BY <2>1 DEF WrapperInv, WrapperTypes
<1>2. Wrapped(r) => rstate[r] = "alive"
  BY DEF WrapperInv, Wrapped, WrapperOwnsRing
<1>3. Holders(r) \in Nat /\ (Wrapped(r) => Holders(r) > 0)
  BY <1>1 DEF Holders
<1>4. rstate[r] = "alive" => ref[r] + 1 = Holders(r) + Surplus(r)
  BY DEF WrapperInv, RefCount
<1>5. rstate[r] # "alive" => Holders(r) = 0
  <2>1. rstate[r] # "alive" => handles[r] = 0 /\ scheduled[r] = 0
    BY DEF WrapperInv, RefCount
  <2>2. QED
    BY <1>2, <2>1 DEF Holders
<1>6. QED
  BY <1>1, <1>2, <1>3, <1>4, <1>5

(***************************************************************************)
(* The same holders, the same objects, one holder more or less.            *)
(***************************************************************************)
LEMMA SameHolders ==
  ASSUME \A t \in Rings : Holders(t)' = Holders(t)
  PROVE  HoldersOf' = HoldersOf
BY DEF HoldersOf

LEMMA HoldersChange ==
  ASSUME NEW r \in Rings, NEW n, Holders(r)' = n,
         \A t \in Rings \ {r} : Holders(t)' = Holders(t)
  PROVE  HoldersOf' = [HoldersOf EXCEPT ![r] = n]
BY DEF HoldersOf

LEMMA SameObjects ==
  ASSUME \A b \in Bags, t \in Rings :
           b \in Values' \ orphan' /\ cxx'[b] = t
             <=> b \in Values \ orphan /\ cxx[b] = t
  PROVE  ObjectsOf' = ObjectsOf
<1>1. \A t \in Rings : {b \in Values' \ orphan' : cxx'[b] = t}
                       = {b \in Values \ orphan : cxx[b] = t}
  OBVIOUS
<1>2. QED
  BY <1>1 DEF ObjectsOf

(***************************************************************************)
(* Steps RingLifetimes does not see.                                       *)
(***************************************************************************)
LEMMA Unseen ==
  ASSUME UNCHANGED <<rstate, surplus>>,
         \A t \in Rings : Holders(t)' = Holders(t),
         \A b \in Bags, t \in Rings :
           b \in Values' \ orphan' /\ cxx'[b] = t
             <=> b \in Values \ orphan /\ cxx[b] = t
  PROVE  AbstractStep
<1>1. HoldersOf' = HoldersOf
  BY SameHolders
<1>2. ObjectsOf' = ObjectsOf
  BY SameObjects
<1>3. QED
  BY <1>1, <1>2 DEF AbstractStep

LEMMA CallUnseen ==
  ASSUME UNCHANGED <<ringVars, bagVars, scheduled, orphan>>
  PROVE  AbstractStep
<1>1. \A t \in Rings : Holders(t)' = Holders(t)
  BY DEF Holders, Wrapped
<1>2. QED
  BY <1>1, Unseen

(***************************************************************************)
(* A ring is made, or found alive and held once more.                      *)
(***************************************************************************)
LEMMA MakeSeen ==
  ASSUME WrapperInv, NEW r \in Rings, rstate[r] = "none",
         rstate' = [rstate EXCEPT ![r] = "alive"],
         surplus' = surplus \/ surplus' = surplus \cup {r},
         Holders(r)' = Holders(r) + 1,
         \A t \in Rings \ {r} : Holders(t)' = Holders(t),
         ObjectsOf' = ObjectsOf
  PROVE  AbstractStep
<1>1. Holders(r)' = 1
  BY HoldersCount
<1>2. HoldersOf' = [HoldersOf EXCEPT ![r] = 1]
  BY <1>1, HoldersChange
<1>3. Lifetimes!Make(r)
  BY <1>2 DEF Lifetimes!Make
<1>4. QED
  BY <1>3 DEF AbstractStep, Lifetimes!Next

LEMMA HoldSeen ==
  ASSUME NEW r \in Rings, rstate[r] = "alive",
         UNCHANGED <<rstate, surplus>>,
         Holders(r)' = Holders(r) + 1,
         \A t \in Rings \ {r} : Holders(t)' = Holders(t),
         ObjectsOf' = ObjectsOf
  PROVE  AbstractStep
<1>1. HoldersOf[r] = Holders(r)
  BY DEF HoldersOf
<1>2. HoldersOf' = [HoldersOf EXCEPT ![r] = HoldersOf[r] + 1]
  BY <1>1, HoldersChange
<1>3. Lifetimes!Hold(r)
  BY <1>2 DEF Lifetimes!Hold
<1>4. QED
  BY <1>3 DEF AbstractStep, Lifetimes!Next

(***************************************************************************)
(* The wrapper of a ring holds it.                                         *)
(***************************************************************************)
LEMMA RingWrapHolds ==
  ASSUME WrapperInv, NEW r \in Rings, NEW b \in Bags, NEW q,
         NEW_SINGOBJ_ZERO_ONE(b, r, q), UNCHANGED <<handles, scheduled>>
  PROVE  /\ Holders(r)' = Holders(r) + 1
         /\ \A t \in Rings \ {r} : Holders(t)' = Holders(t)
         /\ ObjectsOf' = ObjectsOf
<1> USE DEF NEW_SINGOBJ_ZERO_ONE, NewBag, FillBag
<1>1. /\ kind[b] = "free" /\ ext[r] = NoBag /\ orphan' = orphan \ {b}
      /\ \A c \in Bags : kind'[c] = IF c = b THEN "ring" ELSE kind[c]
      /\ \A c \in Bags : cxx'[c] = IF c = b THEN r ELSE cxx[c]
      /\ \A t \in Rings : ext'[t] = IF t = r THEN b ELSE ext[t]
  BY DEF WrapperInv, WrapperTypes
<1> HIDE DEF NEW_SINGOBJ_ZERO_ONE, NewBag, FillBag
<1>2. ~Wrapped(r) /\ Wrapped(r)'
  BY <1>1 DEF Wrapped
<1>3. \A t \in Rings \ {r} : Wrapped(t)' = Wrapped(t)
  BY <1>1 DEF Wrapped
<1>4. handles[r] \in Nat /\ scheduled[r] \in Nat
  BY HoldersCount
<1>5. Holders(r)' = Holders(r) + 1
  BY <1>2, <1>4 DEF Holders
<1>6. \A t \in Rings \ {r} : Holders(t)' = Holders(t)
  BY <1>3 DEF Holders
<1>7. ObjectsOf' = ObjectsOf
  <2>1. \A c \in Bags, t \in Rings :
          c \in Values' \ orphan' /\ cxx'[c] = t
            <=> c \in Values \ orphan /\ cxx[c] = t
    BY <1>1
  <2>2. QED
    BY <2>1, SameObjects
<1>8. QED
  BY <1>5, <1>6, <1>7

(***************************************************************************)
(* A new object counts for the ring it is wrapped in, if that ring has its *)
(* wrapper.                                                                *)
(***************************************************************************)
LEMMA ObjectSeen ==
  ASSUME WrapperInv, NEW r \in Rings \cup {NoRing}, NEW b \in Bags, kind[b] = "free",
         \A c \in Bags : kind'[c] = IF c = b THEN "value" ELSE kind[c],
         \A c \in Bags : cxx'[c] = IF c = b THEN r ELSE cxx[c],
         NoteOrphan(b, r),
         UNCHANGED <<rstate, ext, handles, surplus, scheduled>>
  PROVE  AbstractStep
<1>1. \A t \in Rings : Wrapped(t)' = Wrapped(t)
  BY DEF Wrapped, WrapperInv, WrapperTypes
<1>2. \A t \in Rings : Holders(t)' = Holders(t)
  BY <1>1 DEF Holders
<1>3. CASE r \in Rings /\ Wrapped(r)
  <2>1. rstate[r] = "alive" /\ HoldersOf[r] > 0
    BY <1>3, HoldersCount DEF HoldersOf
  <2>2. orphan' = orphan \ {b}
    BY <1>3 DEF NoteOrphan
  <2>3. \A q \in Rings : b \notin ObjectsOf[q]
    BY DEF ObjectsOf
  <2>4. \A t \in Rings : {c \in Values' \ orphan' : cxx'[c] = t}
          = IF t = r THEN {c \in Values \ orphan : cxx[c] = r} \cup {b}
                     ELSE {c \in Values \ orphan : cxx[c] = t}
    BY <1>3, <2>2
  <2>5. ObjectsOf' = [ObjectsOf EXCEPT ![r] = @ \cup {b}]
    BY <1>3, <2>4 DEF ObjectsOf
  <2>6. HoldersOf' = HoldersOf
    BY <1>2, SameHolders
  <2>7. Lifetimes!Compute(r, b)
    BY <2>1, <2>3, <2>5, <2>6 DEF Lifetimes!Compute
  <2>8. QED
    BY <1>3, <2>7 DEF AbstractStep, Lifetimes!Next
<1>4. CASE r \in Rings /\ ~Wrapped(r)
  <2>1. orphan' = orphan \cup {b}
    BY <1>4 DEF NoteOrphan
  <2>2. QED
    BY <1>2, <2>1, Unseen
<1>5. CASE r = NoRing
  <2>1. orphan' = orphan \ {b}
    BY <1>5 DEF NoteOrphan
  <2>2. QED
    BY <1>2, <1>5, <2>1, Unseen
<1>6. QED
  BY <1>3, <1>4, <1>5

(***************************************************************************)
(* A reference is given back, and the ring goes with its last holder.      *)
(***************************************************************************)
LEMMA KillSeen ==
  ASSUME WrapperInv, NEW r \in Rings, rKill(r), doomed = {},
         handles[r] + scheduled[r] > 0,
         handles'[r] + scheduled'[r] = handles[r] + scheduled[r] - 1,
         \A t \in Rings \ {r} : handles'[t] = handles[t] /\ scheduled'[t] = scheduled[t],
         UNCHANGED <<surplus, bagVars, orphan>>
  PROVE  AbstractStep
<1>1. /\ handles[r] \in Nat /\ scheduled[r] \in Nat /\ ref[r] \in Int
      /\ Holders(r) \in Nat /\ Surplus(r) \in {0, 1}
  BY HoldersCount DEF Surplus
<1>2. Holders(r) = handles[r] + scheduled[r] + IF Wrapped(r) THEN 1 ELSE 0
  BY DEF Holders
<1>3. rstate[r] = "alive" /\ ref[r] + 1 = Holders(r) + Surplus(r)
  <2>1. Holders(r) # 0
    BY <1>1, <1>2
  <2>2. QED
    BY <2>1, HoldersCount
<1>4. \A t \in Rings \ {r} : ext'[t] = ext[t]
  BY DEF rKill, WrapperInv, WrapperTypes
<1>5. \A t \in Rings \ {r} : Holders(t)' = Holders(t)
  BY <1>4 DEF Holders, Wrapped
<1>6. ref[r] <= 0 <=> Holders(r) = 1 /\ r \notin surplus
  <2>1. CASE r \in surplus
    <3>1. Surplus(r) = 1
      BY <2>1 DEF Surplus
    <3>2. Holders(r) >= 1
      BY <1>1, <1>2
    <3>3. QED
      BY <1>1, <1>3, <2>1, <3>1, <3>2
  <2>2. CASE r \notin surplus
    <3>1. Surplus(r) = 0
      BY <2>2 DEF Surplus
    <3>2. Holders(r) >= 1
      BY <1>1, <1>2
    <3>3. QED
      BY <1>1, <1>3, <2>2, <3>1, <3>2
  <2>3. QED
    BY <2>1, <2>2
<1>7. Holders(r) = 1 => ~Wrapped(r)
  BY <1>1, <1>2
<1>8. Wrapped(r)' = Wrapped(r)
  <2>1. CASE ref[r] <= 0
    <3>1. ext'[r] = NoBag
      BY <2>1 DEF rKill, WrapperInv, WrapperTypes
    <3>2. QED
      BY <1>6, <1>7, <2>1, <3>1 DEF Wrapped
  <2>2. CASE ~(ref[r] <= 0)
    BY <2>2 DEF rKill, Wrapped
  <2>3. QED
    BY <2>1, <2>2
<1>9. Holders(r)' = Holders(r) - 1
  <2>1. Holders(r)' = handles'[r] + scheduled'[r] + IF Wrapped(r)' THEN 1 ELSE 0
    BY DEF Holders
  <2>2. QED
    BY <1>1, <1>2, <1>8, <2>1
<1>10. Holders(r) = 1 => ObjectsOf[r] = {}
  <2>1. \A b \in Values \ orphan : cxx[b] = r => Wrapped(r)
    BY DEF WrapperInv, ValueKeepsRing
  <2>2. QED
    BY <1>7, <2>1 DEF ObjectsOf
<1>11. ObjectsOf' = ObjectsOf
  BY SameObjects
<1>12. HoldersOf[r] = Holders(r)
  BY DEF HoldersOf
<1>13. HoldersOf' = [HoldersOf EXCEPT ![r] = HoldersOf[r] - 1]
  BY <1>5, <1>9, <1>12, HoldersChange
<1>14. rstate' = IF HoldersOf[r] = 1 /\ r \notin surplus
                 THEN [rstate EXCEPT ![r] = "dead"] ELSE rstate
  BY <1>6, <1>12 DEF rKill
<1>15. HoldersOf[r] > 0
  BY <1>1, <1>2, <1>12
<1>16. Lifetimes!Release(r)
  BY <1>10, <1>11, <1>12, <1>13, <1>14, <1>15 DEF Lifetimes!Release
<1>17. QED
  BY <1>16 DEF AbstractStep, Lifetimes!Next

(***************************************************************************)
(* Freeing a bag: an object leaves its ring, and the wrapper of a ring     *)
(* leaves its hold to the scheduled kill.                                  *)
(***************************************************************************)
LEMMA FreeSeen ==
  ASSUME WrapperInv, NEW b \in Bags, _SI_FreeFunc(b)
  PROVE  AbstractStep
<1>1. /\ \A c \in Bags : kind'[c] = IF c = b THEN "free" ELSE kind[c]
      /\ \A c \in Bags \ {b} : cxx'[c] = cxx[c]
  BY DEF WrapperInv, WrapperTypes, _SI_FreeFunc, FillBag
<1>2. /\ UNCHANGED <<rstate, ext, handles, surplus>>
      /\ orphan' = orphan \ {b} /\ b \in Live
      /\ kind[b] = "ring" => scheduled' = [scheduled EXCEPT ![cxx[b]] = @ + 1]
      /\ kind[b] # "ring" => scheduled' = scheduled
  BY DEF WrapperInv, WrapperTypes, _SI_FreeFunc, AddSingularRingToCleanup
<1>3. \A t \in Rings : Wrapped(t)' = (Wrapped(t) /\ ext[t] # b)
  BY <1>1, <1>2 DEF Wrapped
<1>4. CASE kind[b] = "ring"
  <2>1. PICK r \in Rings : r = cxx[b]
    BY <1>4 DEF WrapperInv, WrapperTypes
  <2>2. ext[r] = b /\ Wrapped(r)
    BY <1>4, <2>1 DEF WrapperInv, WrapperOwnsRing, Wrapped
  <2>3. \A t \in Rings \ {r} : Wrapped(t)' = Wrapped(t)
    BY <1>3, <1>4, <2>1 DEF Wrapped
  <2>4. ~Wrapped(r)'
    BY <1>3, <2>2
  <2>5. /\ scheduled'[r] = scheduled[r] + 1
        /\ \A t \in Rings \ {r} : scheduled'[t] = scheduled[t]
    BY <1>2, <1>4, <2>1 DEF WrapperInv, WrapperTypes
  <2>6. Holders(r)' = Holders(r)
    <3>1. handles[r] \in Nat /\ scheduled[r] \in Nat
      BY HoldersCount
    <3>2. QED
      BY <1>2, <2>2, <2>4, <2>5, <3>1 DEF Holders
  <2>7. \A t \in Rings : Holders(t)' = Holders(t)
    BY <1>2, <2>3, <2>5, <2>6 DEF Holders
  <2>8. QED
    BY <1>1, <1>2, <1>4, <2>7, Unseen
<1>5. CASE kind[b] # "ring"
  <2>1. \A t \in Rings : Holders(t)' = Holders(t)
    <3>1. \A t \in Rings : Wrapped(t)' = Wrapped(t)
      BY <1>3, <1>5 DEF Wrapped
    <3>2. QED
      BY <1>2, <1>5, <3>1 DEF Holders
  <2>2. CASE b \in orphan \/ cxx[b] = NoRing
    BY <1>1, <1>2, <2>1, <2>2, Unseen
  <2>3. CASE b \notin orphan /\ cxx[b] # NoRing
    <3>1. PICK r \in Rings : r = cxx[b]
      BY <2>3 DEF WrapperInv, WrapperTypes
    <3>2. b \in Values \ orphan
      BY <1>2, <1>5, <2>3 DEF WrapperInv, WrapperTypes
    <3>3. rstate[r] = "alive"
      BY <2>3, <3>1, <3>2 DEF WrapperInv, ValueKeepsRing
    <3>4. b \in ObjectsOf[r]
      BY <3>1, <3>2 DEF ObjectsOf
    <3>5. \A t \in Rings : {c \in Values' \ orphan' : cxx'[c] = t}
            = IF t = r THEN {c \in Values \ orphan : cxx[c] = r} \ {b}
                       ELSE {c \in Values \ orphan : cxx[c] = t}
      BY <1>1, <1>2, <3>1
    <3>6. ObjectsOf' = [ObjectsOf EXCEPT ![r] = @ \ {b}]
      BY <3>5 DEF ObjectsOf
    <3>7. HoldersOf' = HoldersOf
      BY <2>1, SameHolders
    <3>8. Lifetimes!Free(r, b)
      BY <1>2, <3>3, <3>4, <3>6, <3>7 DEF Lifetimes!Free
    <3>9. QED
      BY <3>8 DEF AbstractStep, Lifetimes!Next
  <2>4. QED
    BY <2>2, <2>3
<1>6. QED
  BY <1>4, <1>5

(***************************************************************************)
(* The interpreter makes a ring, holds it, gives it back.                  *)
(***************************************************************************)
LEMMA InterpSeen ==
  ASSUME WrapperInv, NEW r \in Rings,
         InterpRing(r) \/ InterpHold(r) \/ InterpKill(r)
  PROVE  AbstractStep
<1>0. handles[r] \in Nat /\ scheduled[r] \in Nat /\ Holders(r) \in Nat
  BY HoldersCount
<1>1. CASE InterpRing(r)
  <2>1. handles[r] = 0
    BY <1>1 DEF InterpRing, WrapperInv, RefCount
  <2>2. \A t \in Rings : handles'[t] = IF t = r THEN 1 ELSE handles[t]
    BY <1>1 DEF InterpRing, WrapperInv, WrapperTypes
  <2>3. \A t \in Rings : Wrapped(t)' = Wrapped(t)
    BY <1>1 DEF InterpRing, Wrapped
  <2>4. UNCHANGED <<scheduled, surplus, bagVars, orphan>>
    BY <1>1 DEF InterpRing
  <2>5. Holders(r)' = Holders(r) + 1
    BY <1>0, <2>1, <2>2, <2>3, <2>4 DEF Holders
  <2>6. \A t \in Rings \ {r} : Holders(t)' = Holders(t)
    BY <2>2, <2>3, <2>4 DEF Holders
  <2>7. ObjectsOf' = ObjectsOf
    BY <2>4, SameObjects
  <2>8. rstate[r] = "none" /\ rstate' = [rstate EXCEPT ![r] = "alive"]
    BY <1>1 DEF InterpRing
  <2>9. QED
    BY <2>4, <2>5, <2>6, <2>7, <2>8, MakeSeen
<1>2. CASE InterpHold(r)
  <2>1. \A t \in Rings : handles'[t] = IF t = r THEN handles[t] + 1 ELSE handles[t]
    BY <1>2 DEF InterpHold, WrapperInv, WrapperTypes
  <2>2. \A t \in Rings : Wrapped(t)' = Wrapped(t)
    BY <1>2 DEF InterpHold, Wrapped
  <2>3. UNCHANGED <<rstate, scheduled, surplus, bagVars, orphan>> /\ rstate[r] = "alive"
    BY <1>2 DEF InterpHold, InterpSees
  <2>4. Holders(r)' = Holders(r) + 1
    BY <1>0, <2>1, <2>2, <2>3 DEF Holders
  <2>5. \A t \in Rings \ {r} : Holders(t)' = Holders(t)
    BY <2>1, <2>2, <2>3 DEF Holders
  <2>6. ObjectsOf' = ObjectsOf
    BY <2>3, SameObjects
  <2>7. QED
    BY <2>3, <2>4, <2>5, <2>6, HoldSeen
<1>3. CASE InterpKill(r)
  <2>1. doomed = {} /\ rKill(r) /\ handles[r] > 0
        /\ UNCHANGED <<scheduled, surplus, bagVars, orphan>>
    BY <1>3 DEF InterpKill, Running, WrapperInv, GCInv
  <2>2. \A t \in Rings : handles'[t] = IF t = r THEN handles[t] - 1 ELSE handles[t]
    BY <1>3 DEF InterpKill, WrapperInv, WrapperTypes
  <2>3. /\ handles[r] + scheduled[r] > 0
        /\ handles'[r] + scheduled'[r] = handles[r] + scheduled[r] - 1
    BY <1>0, <2>1, <2>2
  <2>4. QED
    BY <2>1, <2>2, <2>3, KillSeen
<1>4. QED
  BY <1>1, <1>2, <1>3

(***************************************************************************)
(* Wrapping makes a ring, holds one, or computes an object in it.          *)
(***************************************************************************)
LEMMA RingWrapSeen ==
  ASSUME WrapperInv, NEW r \in Rings, NEW b \in Bags, NEW q,
         NEW_SINGOBJ_ZERO_ONE(b, r, q), UNCHANGED <<handles, scheduled>>,
         \/ /\ rstate[r] = "none" /\ rstate' = [rstate EXCEPT ![r] = "alive"]
            /\ surplus' = surplus \/ surplus' = surplus \cup {r}
         \/ rstate[r] = "alive" /\ UNCHANGED <<rstate, surplus>>
  PROVE  AbstractStep
<1>1. /\ Holders(r)' = Holders(r) + 1
      /\ \A t \in Rings \ {r} : Holders(t)' = Holders(t)
      /\ ObjectsOf' = ObjectsOf
  BY RingWrapHolds
<1>2. CASE rstate[r] = "alive" /\ UNCHANGED <<rstate, surplus>>
  BY <1>1, <1>2, HoldSeen
<1>3. CASE /\ rstate[r] = "none" /\ rstate' = [rstate EXCEPT ![r] = "alive"]
           /\ surplus' = surplus \/ surplus' = surplus \cup {r}
  BY <1>1, <1>3, MakeSeen
<1>4. QED
  BY <1>2, <1>3

LEMMA WrapSeen ==
  ASSUME WrapperInv, Wrap
  PROVE  AbstractStep
<1>1. PICK b \in Bags : \/ \E r \in Rings : SI_ring(r, b) \/ gapwrapRing(r, b)
                        \/ CallProcInCurrRing(b)
                        \/ gapwrapObject(b)
  BY DEF Wrap
<1>2. ASSUME NEW r \in Rings, SI_ring(r, b)
      PROVE  AbstractStep
  BY <1>2, RingWrapSeen DEF SI_ring
<1>3. ASSUME NEW r \in Rings, gapwrapRing(r, b)
      PROVE  AbstractStep
  <2>1. surplus' = surplus /\ UNCHANGED scheduled
    BY <1>3 DEF gapwrapRing
  <2>2. CASE UNCHANGED <<ringVars, bagVars, old, orphan>>
    BY <2>1, <2>2, CallUnseen
  <2>3. CASE /\ InterpSees(r) /\ NEW_SINGOBJ_ZERO_ONE(b, r, qideal[r])
             /\ UNCHANGED <<rstate, qideal, handles, wild>>
    <3>1. rstate[r] = "alive"
      BY <2>3 DEF InterpSees
    <3>2. QED
      BY <2>1, <2>3, <3>1, RingWrapSeen
  <2>4. CASE /\ rstate[r] = "none"
             /\ rstate' = [rstate EXCEPT ![r] = "alive"]
             /\ NEW_SINGOBJ_ZERO_ONE(b, r, FALSE)
             /\ UNCHANGED <<ref, qideal, handles, wild>>
    BY <2>1, <2>4, RingWrapSeen
  <2>5. QED
    BY <1>3, <2>2, <2>3, <2>4 DEF gapwrapRing
<1>4. CASE CallProcInCurrRing(b)
  <2>1. PICK r \in Rings : r = currRing /\ rstate[r] = "alive"
    BY <1>4 DEF CallProcInCurrRing, gapwrapCurrRing, WrapperInv, CurrRingAlive, WrapperTypes
  <2>2. UNCHANGED <<rstate, qideal, handles, surplus, scheduled>>
    BY <1>4 DEF CallProcInCurrRing, gapwrapCurrRing
  <2>3. CASE ext[r] = NoBag
    <3>1. NEW_SINGOBJ_ZERO_ONE(b, r, ~qideal[r])
      BY <1>4, <2>1, <2>3 DEF CallProcInCurrRing, gapwrapCurrRing
    <3>2. QED
      BY <2>1, <2>2, <3>1, RingWrapSeen
  <2>4. CASE ext[r] # NoBag
    <3>1. UNCHANGED <<ref, ext, bagVars, old, orphan>>
      BY <1>4, <2>1, <2>4 DEF CallProcInCurrRing, gapwrapCurrRing
    <3>2. QED
      BY <2>2, <3>1, CallUnseen
  <2>5. QED
    BY <2>3, <2>4
<1>5. CASE gapwrapObject(b)
  <2>1. PICK r \in Rings \cup {NoRing} : r = pending
    BY <1>5 DEF gapwrapObject, WrapperInv, WrapperTypes
  <2>2. /\ kind[b] = "free" /\ NoteOrphan(b, r)
        /\ \A c \in Bags : kind'[c] = IF c = b THEN "value" ELSE kind[c]
        /\ \A c \in Bags : cxx'[c] = IF c = b THEN r ELSE cxx[c]
    BY <1>5, <2>1 DEF gapwrapObject, NEW_SINGOBJ_RING, NewBag, FillBag, WrapperInv, WrapperTypes
  <2>3. UNCHANGED <<rstate, ext, handles, surplus, scheduled>>
    BY <1>5 DEF gapwrapObject
  <2>4. QED
    BY <2>2, <2>3, ObjectSeen
<1>6. QED
  BY <1>1, <1>2, <1>3, <1>4, <1>5

(***************************************************************************)
(* A zero or one that was not cached is a new object.                      *)
(***************************************************************************)
LEMMA ElementSeen ==
  ASSUME WrapperInv, NEW e \in Elem, NEW w \in RingWrappers, NEW b \in Bags,
         SMSingObj(e, w, b), UNCHANGED <<ringVars, scheduled>>
  PROVE  AbstractStep
<1>1. CASE cache[w][e] # NoBag
  <2>1. UNCHANGED <<bagVars, orphan>>
    BY <1>1 DEF SMSingObj
  <2>2. QED
    BY <2>1, CallUnseen
<1>2. CASE cache[w][e] = NoBag
  <2>1. PICK r \in Rings : r = cxx[w]
    BY DEF WrapperInv, WrapperTypes
  <2>2. /\ kind[b] = "free" /\ NoteOrphan(b, r)
        /\ \A c \in Bags : kind'[c] = IF c = b THEN "value" ELSE kind[c]
        /\ \A c \in Bags : cxx'[c] = IF c = b THEN r ELSE cxx[c]
    BY <1>2, <2>1 DEF SMSingObj, NewBag, FillBag, WrapperInv, WrapperTypes
  <2>3. QED
    BY <2>2, ObjectSeen
<1>3. QED
  BY <1>1, <1>2

LEMMA MutatorSeen ==
  ASSUME WrapperInv, Mutator
  PROVE  AbstractStep
<1>1. ASSUME NEW b \in Bags, NEW e \in Elem, NEW w \in Bags, ElementOfRing(e, w, b)
      PROVE  AbstractStep
  BY <1>1, ElementSeen DEF ElementOfRing
<1>2. ASSUME NEW b \in Bags, NEW e \in Elem, NEW s \in Bags, ElementOfObject(e, s, b)
      PROVE  AbstractStep
  <2>1. UNCHANGED <<ringVars, scheduled>>
    BY <1>2 DEF ElementOfObject
  <2>2. CASE Wrapped(cxx[s]) /\ rstate[cxx[s]] = "alive"
    <3>1. ext[cxx[s]] \in RingWrappers /\ SMSingObj(e, ext[cxx[s]], b)
      BY <1>2, <2>2 DEF ElementOfObject, Wrapped
    <3>2. QED
      BY <2>1, <3>1, ElementSeen
  <2>3. CASE ~(Wrapped(cxx[s]) /\ rstate[cxx[s]] = "alive")
    <3>1. UNCHANGED <<bagVars, orphan>>
      BY <1>2, <2>3 DEF ElementOfObject
    <3>2. QED
      BY <2>1, <3>1, CallUnseen
  <2>4. QED
    BY <2>2, <2>3
<1>3. ASSUME NEW b \in Bags, Forget(b)
      PROVE  AbstractStep
  BY <1>3, CallUnseen DEF Forget
<1>4. ASSUME NEW b \in Bags, TakeResult(b)
      PROVE  AbstractStep
  BY <1>4, CallUnseen DEF TakeResult
<1>5. CASE ForgetList
  BY <1>5, CallUnseen DEF ForgetList
<1>6. QED
  BY <1>1, <1>2, <1>3, <1>4, <1>5 DEF Mutator

(***************************************************************************)
(* Calls are not seen, and of the collector only what it gives back.       *)
(***************************************************************************)
LEMMA CallsUnseen ==
  ASSUME Call
  PROVE  AbstractStep
<1>1. UNCHANGED <<ringVars, bagVars, scheduled, orphan>>
  BY DEF Call, CallFunc, CallProc, CallWithDeadRing, SI_SetCurrRing,
     SI_Indeterminates, SI_RingOfSingobj, gapwrapPlain, ResultsDone
<1>2. QED
  BY <1>1, CallUnseen

LEMMA SweepSeen ==
  ASSUME WrapperInv, Sweep
  PROVE  AbstractStep
<1>1. ASSUME NEW r \in Rings, SingularRingCleaner(r)
      PROVE  AbstractStep
  <2>1. /\ rKill(r) /\ doomed = {} /\ scheduled[r] > 0
        /\ UNCHANGED <<handles, surplus, bagVars, orphan>>
    BY <1>1 DEF SingularRingCleaner
  <2>2. \A t \in Rings : scheduled'[t] = IF t = r THEN scheduled[t] - 1 ELSE scheduled[t]
    BY <1>1 DEF SingularRingCleaner, WrapperInv, WrapperTypes
  <2>3. handles[r] \in Nat /\ scheduled[r] \in Nat
    BY HoldersCount
  <2>4. /\ handles[r] + scheduled[r] > 0
        /\ handles'[r] + scheduled'[r] = handles[r] + scheduled[r] - 1
    BY <2>1, <2>2, <2>3
  <2>5. QED
    BY <2>1, <2>2, <2>4, KillSeen
<1>2. CASE CollectionDone
  BY <1>2, CallUnseen DEF CollectionDone
<1>3. QED
  BY <1>1, <1>2, FreeSeen DEF Sweep

(***************************************************************************)
(* Rings live exactly as long as RingLifetimes says: the wrappers and the  *)
(* collector implement it, on any interleaving with the interpreter.       *)
(***************************************************************************)
THEOREM Refinement == Spec => ImplementsLifetimes
<1>1. Init => Lifetimes!Init
  <2>1. SUFFICES ASSUME Init PROVE Lifetimes!Init
    OBVIOUS
  <2>2. \A r \in Rings : Holders(r) = 0 /\ {b \in Values \ orphan : cxx[b] = r} = {}
    BY <2>1 DEF Init, Holders, Wrapped
  <2>3. QED
    BY <2>1, <2>2 DEF Init, Lifetimes!Init, HoldersOf, ObjectsOf
<1>2. IInv /\ [Next]_vars => [Lifetimes!Next]_<<rstate, HoldersOf, ObjectsOf, surplus>>
  <2>1. SUFFICES ASSUME WrapperInv, [Next]_vars PROVE AbstractStep
    BY DEF AbstractStep, IInv
  <2>2. CASE Interpreter
    BY <2>1, <2>2, InterpSeen DEF Interpreter
  <2>3. CASE Wrap
    BY <2>1, <2>3, WrapSeen
  <2>4. CASE Call
    BY <2>4, CallsUnseen
  <2>5. CASE Mutator
    BY <2>1, <2>5, MutatorSeen
  <2>6. CASE Collect
    BY <2>6, CallUnseen DEF Collect, possiblytriggerGC, GapCollects, CollectBags
  <2>7. CASE Sweep
    BY <2>1, <2>7, SweepSeen
  <2>8. CASE UNCHANGED vars
    BY <2>8, CallUnseen DEF vars
  <2>9. QED
    BY <2>1, <2>2, <2>3, <2>4, <2>5, <2>6, <2>7, <2>8 DEF Next
<1>3. QED
  BY <1>1, <1>2, Invariance, PTL DEF Spec, ImplementsLifetimes, Lifetimes!Spec

=============================================================================
