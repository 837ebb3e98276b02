------------------------- MODULE RingOrderings_proofs -------------------------
(***************************************************************************)
(* The blocks of orderings for any number of variables and of orderings.   *)
(***************************************************************************)
EXTENDS RingOrderings, FiniteSetTheorems, WellFoundedInduction, TLAPS

(***************************************************************************)
(* Every set of naturals has a least element: the sets 0..n are finite,    *)
(* and inclusion of finite sets is well-founded.                           *)
(***************************************************************************)
LEMMA LeastNatural ==
  ASSUME NEW N \in SUBSET Nat, N # {}
  PROVE  \E n \in N : \A m \in N : n <= m
<1> DEFINE T == {0..n : n \in N}
           R == StrictSubsetOrdering(Nat)
           S == FiniteSubsetsOf(Nat)
<1>1. IsWellFoundedOn(R, S)
  BY FS_StrictSubsetOrderingWellFounded
<1>2. T \subseteq S /\ T # {}
  <2>1. \A n \in Nat : IsFiniteSet(0..n) /\ 0..n \in SUBSET Nat
    BY FS_Interval
  <2>2. QED
    BY <2>1 DEF FiniteSubsetsOf
<1>3. PICK x \in T : \A y \in T : <<y, x>> \notin R
  <2> HIDE DEF T, R, S
  <2>1. QED
    BY <1>1, <1>2, WFMin
<1>4. PICK n \in N : x = 0..n
  OBVIOUS
<1>5. \A m \in N : n <= m
  <2>1. SUFFICES ASSUME NEW m \in N, m < n PROVE FALSE
    OBVIOUS
  <2>2. 0..m \in SUBSET Nat /\ 0..n \in SUBSET Nat
    OBVIOUS
  <2>3. 0..m \subseteq 0..n /\ 0..m # 0..n
    <3>1. n \in 0..n /\ n \notin 0..m
      BY <2>1
    <3>2. QED
      BY <2>1, <3>1
  <2>4. <<0..m, 0..n>> \in R
    BY <2>2, <2>3 DEF StrictSubsetOrdering
  <2>5. QED
    BY <1>3, <1>4, <2>4
<1>6. QED
  BY <1>5

LEMMA IsqrtType ==
  ASSUME NEW n \in Nat
  PROVE  Isqrt(n) \in 0..n
<1> DEFINE B == {m \in Nat : m * m > n}
<1>1. n + 1 \in B
  <2>1. (n + 1) * (n + 1) = n * n + 2 * n + 1 /\ n * n \in Nat
    OBVIOUS
  <2>2. QED
    BY <2>1
<1>2. PICK m \in B : \A k \in B : m <= k
  <2>1. B \in SUBSET Nat /\ B # {}
    BY <1>1
  <2>2. QED
    BY <2>1, LeastNatural
<1>3. m # 0 /\ m <= n + 1
  <2>1. 0 * 0 = 0
    OBVIOUS
  <2>2. QED
    BY <1>1, <1>2, <2>1
<1>4. m - 1 \in 0..n /\ m - 1 \notin B
  BY <1>2, <1>3
<1>5. (m - 1) * (m - 1) <= n /\ ((m - 1) + 1) * ((m - 1) + 1) > n
  <2>1. (m - 1) + 1 = m
    BY <1>2
  <2>2. QED
    BY <1>2, <1>4, <2>1
<1>6. \E q \in 0..n : q * q <= n /\ (q + 1) * (q + 1) > n
  BY <1>4, <1>5
<1>7. QED
  BY <1>6 DEF Isqrt

(***************************************************************************)
(* The orderings that reach Func_SI_ring.                                  *)
(***************************************************************************)
Valid(e) == e \in Ordering /\ (e.spec.tag = "list" => e.spec.n \in Nat)
ValidOrderings == \A k \in 1..Len(orderings) : Valid(orderings[k])

LEMMA CoversType ==
  ASSUME NEW c \in Int, NEW e, Valid(e), SpecAccepted(e)
  PROVE  Covers(c, e) \in Int
<1>1. e.spec.n \in Int /\ e.spec.tag \in {"none", "int", "list", "other"} /\ e.name \in Name
  BY DEF Valid, Ordering, Spec_
<1>2. CASE e.name = "M"
  <2>1. e.spec.tag = "list"
    BY <1>2 DEF SpecAccepted
  <2>2. e.spec.n \in Nat
    BY <2>1 DEF Valid
  <2>3. Isqrt(e.spec.n) \in Int
    BY <2>2, IsqrtType
  <2>4. PlusSqrt(c, e.spec.n) \in Int
    BY <2>3 DEF PlusSqrt
  <2>5. QED
    BY <1>2, <2>4 DEF Covers
<1>3. CASE e.name # "M"
  BY <1>1, <1>3 DEF Covers
<1>4. QED
  BY <1>2, <1>3

(***************************************************************************)
(* The sums of the check: s[k] variables are covered by k orderings.       *)
(***************************************************************************)
Sums(s, n) == /\ s \in [0..n -> Int] /\ s[0] = 0
              /\ \A k \in 1..n : s[k] = Covers(s[k - 1], orderings[k])
Accepted(n) == \A k \in 1..n : SpecAccepted(orderings[k])

(***************************************************************************)
(* What WeightsLastPartition assumes, and what it states for the blocks so *)
(* far.  The block after a block with weights would start too early.       *)
(***************************************************************************)
Regular == Sizes(Nat) /\ NoListFor({"M", "c"}) /\ WeightsLast
Divided(n) ==
  /\ UNION {BlockVars(k) : k \in Ordered} = 1..n
  /\ \A k, l \in Ordered : k # l => BlockVars(k) \cap BlockVars(l) = {}
NoWeights(n) == \A k \in 1..n : orderings[k].name \notin {"w", "w?"}

CheckInv == pc = "check" => /\ Accepted(i - 1)
                            /\ \E s : Sums(s, i - 1) /\ s[i - 1] = covered

BuildInv ==
  pc \in {"build", "made"} =>
    /\ Accepted(Len(orderings)) /\ Len(blocks) = i - 1
    /\ pc = "made" => i = Len(orderings) + 1
    /\ \E s : /\ Sums(s, Len(orderings)) /\ s[Len(orderings)] = nrvars
              /\ Regular => /\ s[i - 1] \in Nat /\ Divided(s[i - 1])
                            /\ NoWeights(i - 1) => covered = s[i - 1]

NoBlocks == pc \in {"gap", "check"} => blocks = <<>>
ErrInv == err = "entry" => pc = "error"
AsPassed == pc = "gap" => Len(orderings) <= MaxOrds

IInv == /\ TypeOK /\ ValidOrderings
        /\ CheckInv /\ BuildInv /\ ErrInv /\ NoBlocks /\ AsPassed /\ RefusedOnlyForC

LEMMA InitIInv == Init => IInv
<1>1. SUFFICES ASSUME Init PROVE IInv
  OBVIOUS
<1>2. orderings = <<>> /\ Len(orderings) = 0 /\ blocks = <<>> /\ pc = "gap" /\ err = "none"
  BY <1>1 DEF Init
<1>3. TypeOK
  <2>1. orderings \in Seq(Ordering) /\ blocks \in Seq(BlockOfVars)
    BY <1>2
  <2>2. cPresent \in BOOLEAN
    BY <1>1 DEF Init
  <2>3. nrvars = 0 /\ i = 1 /\ covered = 0
    BY <1>1 DEF Init
  <2>4. QED
    BY <1>2, <2>1, <2>2, <2>3, BoundsAssumption DEF TypeOK
<1>4. 0 <= MaxOrds
  BY BoundsAssumption
<1>5. QED
  BY <1>2, <1>3, <1>4 DEF IInv, ValidOrderings, CheckInv, BuildInv, ErrInv, NoBlocks, AsPassed,
     RefusedOnlyForC

LEMMA AddOrderingStep ==
  ASSUME IInv, NEW e \in Entries, AddOrdering(e)
  PROVE  IInv'
<1>1. /\ pc = "gap" /\ pc' = "gap" /\ orderings' = Append(orderings, e)
      /\ Len(orderings) < MaxOrds
      /\ UNCHANGED <<nrvars, i, covered, cPresent, blocks, err>>
  BY DEF AddOrdering
<1>2. e \in Ordering /\ Valid(e)
  BY EntriesAssumption DEF Valid
<1> orderings \in Seq(Ordering)
  BY DEF IInv, TypeOK
<1>3. /\ orderings' \in Seq(Ordering) /\ Len(orderings') = Len(orderings) + 1
      /\ \A k \in 1..Len(orderings') : orderings'[k] = IF k <= Len(orderings)
                                                      THEN orderings[k] ELSE e
  BY <1>1, <1>2
<1>4. TypeOK'
  BY <1>1, <1>2, <1>3, BoundsAssumption DEF IInv, TypeOK
<1>5. ValidOrderings'
  BY <1>2, <1>3 DEF IInv, ValidOrderings
<1>6. AsPassed'
  BY <1>1, <1>3, BoundsAssumption DEF AsPassed
<1>7. QED
  BY <1>1, <1>4, <1>5, <1>6 DEF IInv, CheckInv, BuildInv, ErrInv, NoBlocks, RefusedOnlyForC

Passed(ords, max) == /\ ords \in Seq(Ordering) /\ Len(ords) <= max
                     /\ \A k \in 1..Len(ords) : Valid(ords[k])

LEMMA ParsedInBounds ==
  ASSUME NEW n \in 0..MaxVars, NEW blank \in BOOLEAN
  PROVE  _ParseIndeterminatesDescription(n, blank) \in 0..MaxVars
  BY BoundsAssumption DEF _ParseIndeterminatesDescription

LEMMA CallStep ==
  ASSUME IInv, NEW n \in 0..MaxVars, NEW ords, Passed(ords, MaxOrds + 1),
         Call(n, ords)
  PROVE  IInv'
<1>1. /\ pc = "gap" /\ nrvars' = n /\ orderings' = ords /\ i' = 1
      /\ covered' = 0 /\ blocks' = <<>>
      /\ pc' \in {"error", "check"} /\ err' \in {"empty", "none"}
  BY DEF Call
<1>2. TypeOK'
  <2>1. blocks' \in Seq(BlockOfVars)
    BY <1>1
  <2>2. ords \in Seq(Ordering) /\ Len(ords) \in Nat /\ Len(ords) <= MaxOrds + 1
    BY DEF Passed
  <2>3. cPresent' \in BOOLEAN
    BY DEF Call
  <2>4. QED
    BY <1>1, <2>1, <2>2, <2>3 DEF TypeOK
<1>3. ValidOrderings'
  BY <1>1 DEF ValidOrderings, Passed
<1>4. CheckInv'
  <2>1. PICK s : s \in [0..0 -> Int] /\ s[0] = 0
    <3>1. [k \in 0..0 |-> 0] \in [0..0 -> Int] /\ [k \in 0..0 |-> 0][0] = 0
      OBVIOUS
    <3>2. QED
      BY <3>1
  <2>2. i' - 1 = 0
    BY <1>1
  <2>3. Sums(s, i - 1)' /\ s[i' - 1] = covered' /\ Accepted(i - 1)'
    BY <1>1, <2>1, <2>2 DEF Sums, Accepted
  <2>4. QED
    BY <2>3 DEF CheckInv
<1>5. QED
  BY <1>1, <1>2, <1>3, <1>4 DEF IInv, BuildInv, ErrInv, NoBlocks, AsPassed, RefusedOnlyForC

LEMMA DefaultOrdering ==
  ASSUME NEW ords, Passed(ords, MaxOrds)
  PROVE  Passed(AddModuleOrdering(ords), MaxOrds + 1)
<1>1. Entry("c", "int", 0) \in Ordering /\ Valid(Entry("c", "int", 0))
  BY DEF Entry, Ordering, Valid, Name, Spec_
<1>2. ords \in Seq(Ordering) /\ Len(ords) \in Nat
  BY DEF Passed
<1>3. QED
  BY <1>1, <1>2, BoundsAssumption DEF AddModuleOrdering, Passed

(***************************************************************************)
(* A failure keeps everything but pc and err.                              *)
(***************************************************************************)
LEMMA FailStep ==
  ASSUME IInv, NEW why \in {"specification", "twice", "coverage", "entry"},
         Fail(why),
         why = "entry" => \E k \in 1..Len(orderings) :
                            /\ orderings[k].name = "c"
                            /\ orderings[k].spec.tag \in {"none", "other"}
  PROVE  IInv'
<1>1. /\ pc' = "error" /\ err' = why
      /\ UNCHANGED <<nrvars, orderings, i, covered, cPresent, blocks>>
  BY DEF Fail
<1>2. TypeOK' /\ ValidOrderings'
  BY <1>1 DEF IInv, TypeOK, ValidOrderings
<1>3. QED
  BY <1>1, <1>2 DEF IInv, CheckInv, BuildInv, ErrInv, NoBlocks, AsPassed, RefusedOnlyForC

LEMMA SumsExtended ==
  ASSUME NEW n \in Nat, NEW s, Sums(s, n), NEW v \in Int,
         v = Covers(s[n], orderings[n + 1])
  PROVE  \E t : Sums(t, n + 1) /\ t[n + 1] = v
<1> DEFINE t == [k \in 0..(n + 1) |-> IF k <= n THEN s[k] ELSE v]
<1>1. t \in [0..(n + 1) -> Int] /\ t[0] = 0 /\ t[n + 1] = v
  BY DEF Sums
<1>2. \A k \in 1..(n + 1) : t[k] = Covers(t[k - 1], orderings[k])
  <2>1. SUFFICES ASSUME NEW k \in 1..(n + 1) PROVE t[k] = Covers(t[k - 1], orderings[k])
    OBVIOUS
  <2>2. CASE k <= n
    <3>1. t[k] = s[k] /\ t[k - 1] = s[k - 1] /\ k \in 1..n
      BY <2>2
    <3> HIDE DEF t
    <3>2. QED
      BY <3>1 DEF Sums
  <2>3. CASE k = n + 1
    <3>1. t[k] = v /\ t[k - 1] = s[n]
      BY <2>3
    <3> HIDE DEF t
    <3>2. QED
      BY <2>3, <3>1
  <2>4. QED
    BY <2>2, <2>3
<1> HIDE DEF t
<1>3. QED
  BY <1>1, <1>2 DEF Sums

LEMMA CheckOrderingStep ==
  ASSUME IInv, CheckOrdering
  PROVE  IInv'
<1> DEFINE e == orderings[i]
<1>1. /\ pc = "check" /\ i \in 1..Len(orderings) /\ Valid(e)
      /\ orderings \in Seq(Ordering) /\ Len(orderings) \in Nat /\ covered \in Int
  BY DEF CheckOrdering, IInv, TypeOK, ValidOrderings
<1>2. CASE ~SpecAccepted(e)
  BY <1>2, FailStep DEF CheckOrdering
<1>3. CASE SpecAccepted(e) /\ e.name = "c" /\ cPresent
  BY <1>3, FailStep DEF CheckOrdering
<1>4. CASE SpecAccepted(e) /\ ~(e.name = "c" /\ cPresent)
  <2>1. /\ covered' = Covers(covered, e) /\ i' = i + 1
        /\ UNCHANGED <<pc, nrvars, orderings, blocks, err>>
    BY <1>4 DEF CheckOrdering
  <2>2. cPresent' \in BOOLEAN
    BY <1>4 DEF CheckOrdering, IInv, TypeOK
  <2>3. covered' \in Int
    BY <1>1, <1>4, <2>1, CoversType
  <2>4. TypeOK'
    BY <1>1, <2>1, <2>2, <2>3 DEF IInv, TypeOK
  <2>5. ValidOrderings'
    BY <2>1 DEF IInv, ValidOrderings
  <2>6. PICK s : Sums(s, i - 1) /\ s[i - 1] = covered
    BY <1>1 DEF IInv, CheckInv
  <2>7. PICK t : Sums(t, i) /\ t[i] = covered'
    <3>1. i - 1 \in Nat /\ (i - 1) + 1 = i
      BY <1>1
    <3>2. covered' = Covers(s[i - 1], orderings[(i - 1) + 1])
      BY <2>1, <2>6, <3>1
    <3>3. \E t : Sums(t, (i - 1) + 1) /\ t[(i - 1) + 1] = covered'
      BY <2>3, <2>6, <3>1, <3>2, SumsExtended
    <3>4. QED
      BY <3>1, <3>3
  <2>8. i' - 1 = i /\ (\A x, n : Sums(x, n)' <=> Sums(x, n))
    BY <1>1, <2>1 DEF Sums
  <2>9. Accepted(i - 1)'
    <3>1. Accepted(i - 1)
      BY <1>1 DEF IInv, CheckInv
    <3>2. \A k \in 1..i : k = i \/ k \in 1..(i - 1)
      BY <1>1
    <3>3. QED
      BY <1>4, <2>1, <2>8, <3>1, <3>2 DEF Accepted
  <2>10. CheckInv'
    <3>1. Sums(t, i) /\ t[i' - 1] = covered'
      BY <2>7, <2>8
    <3>2. Sums(t, i - 1)'
      BY <2>1, <2>8, <3>1 DEF Sums
    <3>3. QED
      BY <2>9, <3>1, <3>2 DEF CheckInv
  <2>11. QED
    BY <1>1, <2>1, <2>4, <2>5, <2>10 DEF IInv, BuildInv, ErrInv, NoBlocks, AsPassed, RefusedOnlyForC
<1>5. QED
  BY <1>2, <1>3, <1>4

(***************************************************************************)
(* No blocks yet divide no variables.                                      *)
(***************************************************************************)
LEMMA CheckDoneStep ==
  ASSUME IInv, CheckDone
  PROVE  IInv'
<1>1. CASE covered # nrvars
  BY <1>1, FailStep DEF CheckDone
<1>2. CASE covered = nrvars
  <2>1. /\ pc = "check" /\ i > Len(orderings) /\ pc' = "build" /\ i' = 1 /\ covered' = 0
        /\ UNCHANGED <<nrvars, orderings, cPresent, blocks, err>>
    BY <1>2 DEF CheckDone
  <2>2. i = Len(orderings) + 1 /\ Len(orderings) \in Nat
    BY <2>1 DEF IInv, TypeOK
  <2>3. TypeOK'
    BY <2>1, <2>2 DEF IInv, TypeOK
  <2>4. ValidOrderings'
    BY <2>1 DEF IInv, ValidOrderings
  <2>5. PICK s : Accepted(Len(orderings)) /\ Sums(s, Len(orderings)) /\ s[Len(orderings)] = nrvars
    BY <1>2, <2>1, <2>2 DEF IInv, CheckInv
  <2>6. blocks = <<>>
    BY <2>1 DEF IInv, NoBlocks
  <2>7. Divided(0)'
    <3>1. Ordered' = {}
      BY <2>1, <2>6 DEF Ordered
    <3>2. 1..0 = {}
      OBVIOUS
    <3>3. QED
      BY <3>1, <3>2 DEF Divided
  <2>8. BuildInv'
    <3>1. i' - 1 = 0 /\ s[0] = 0 /\ Len(blocks') = 0
      BY <2>1, <2>5, <2>6 DEF Sums
    <3>2. Accepted(Len(orderings))' /\ Sums(s, Len(orderings))' /\ s[Len(orderings')] = nrvars'
      BY <2>1, <2>5 DEF Accepted, Sums
    <3>3. s[i' - 1] \in Nat /\ Divided(s[i - 1])' /\ covered' = s[i' - 1]
      BY <2>1, <2>7, <3>1
    <3>4. QED
      BY <2>1, <3>1, <3>2, <3>3 DEF BuildInv
  <2>9. QED
    BY <2>1, <2>3, <2>4, <2>8 DEF IInv, CheckInv, ErrInv, RefusedOnlyForC, NoBlocks, AsPassed
<1>3. QED
  BY <1>1, <1>2

(***************************************************************************)
(* One more block: it is the last of the new list.                         *)
(***************************************************************************)
LEMMA BlockAppended ==
  ASSUME blocks \in Seq(BlockOfVars), NEW b \in BlockOfVars, blocks' = Append(blocks, b),
         NEW c \in Nat, NEW n \in Nat, Divided(c),
         IF b.ord \in {"M", "w", "d"} THEN b.block0 = c + 1 /\ b.block1 = c + n
                                     ELSE n = 0
  PROVE  Divided(c + n)'
<1>0. PICK m : m = Len(blocks)
  OBVIOUS
<1>1. /\ Len(blocks') = m + 1 /\ m \in Nat /\ blocks'[m + 1] = b
      /\ \A k \in 1..m : blocks'[k] = blocks[k]
  BY <1>0
<1>2. Ordered \subseteq 1..m /\ (\A k \in Ordered : BlockVars(k)' = BlockVars(k))
  BY <1>0, <1>1 DEF Ordered, BlockVars
<1>3. PICK f : f = [k \in 1..(m + 1) |-> blocks'[k].block0..blocks'[k].block1]
  OBVIOUS
<1>4. \A k \in 1..(m + 1) : f[k] = BlockVars(k)'
  BY <1>3 DEF BlockVars
<1>5. \A k \in Ordered : f[k] = BlockVars(k)
  BY <1>1, <1>2, <1>4
<1>6. UNION {f[k] : k \in Ordered} = 1..c
  <2>1. UNION {f[k] : k \in Ordered} = UNION {BlockVars(k) : k \in Ordered}
    BY <1>5
  <2>2. QED
    BY <2>1 DEF Divided
<1>7. \A k, l \in Ordered : k # l => f[k] \cap f[l] = {}
  BY <1>5 DEF Divided
<1>8. CASE b.ord \in {"M", "w", "d"}
  <2>1. Ordered' = Ordered \cup {m + 1}
    BY <1>0, <1>1, <1>8 DEF Ordered
  <2>2. m + 1 \notin Ordered
    BY <1>1, <1>2
  <2>3. f[m + 1] = (c + 1)..(c + n)
    BY <1>1, <1>3, <1>8
  <2>4. /\ UNION {f[k] : k \in Ordered \cup {m + 1}} = 1..(c + n)
        /\ \A k, l \in Ordered \cup {m + 1} : k # l => f[k] \cap f[l] = {}
    <3>1. (1..c) \cup ((c + 1)..(c + n)) = 1..(c + n) /\ (1..c) \cap ((c + 1)..(c + n)) = {}
      OBVIOUS
    <3>2. UNION {f[k] : k \in Ordered \cup {m + 1}}
            = (UNION {f[k] : k \in Ordered}) \cup f[m + 1]
      OBVIOUS
    <3>3. \A k \in Ordered : f[k] \subseteq 1..c
      BY <1>6
    <3>4. \A k \in Ordered : f[k] \cap f[m + 1] = {}
      BY <2>3, <3>1, <3>3
    <3>5. UNION {f[k] : k \in Ordered \cup {m + 1}} = 1..(c + n)
      BY <1>6, <2>3, <3>1, <3>2
    <3>6. QED
      BY <1>7, <3>4, <3>5
  <2>5. (\A k \in Ordered : f[k] = BlockVars(k))'
    BY <1>1, <1>2, <1>3, <2>1 DEF BlockVars
  <2>6. (UNION {BlockVars(k) : k \in Ordered})' = 1..(c + n)
    <3>1. (UNION {BlockVars(k) : k \in Ordered})' = UNION {f[k] : k \in Ordered'}
      BY <2>5
    <3>2. QED
      BY <2>1, <2>4, <3>1
  <2>7. (\A k, l \in Ordered : k # l => BlockVars(k) \cap BlockVars(l) = {})'
    BY <2>1, <2>4, <2>5
  <2>8. QED
    BY <2>6, <2>7 DEF Divided
<1>9. CASE b.ord \notin {"M", "w", "d"}
  <2>1. Ordered' = Ordered /\ c + n = c
    BY <1>0, <1>1, <1>9 DEF Ordered
  <2>2. (\A k \in Ordered : BlockVars(k) = f[k])'
    BY <1>1, <1>2, <1>4, <2>1
  <2>3. (UNION {BlockVars(k) : k \in Ordered})' = 1..c
    <3>1. (UNION {BlockVars(k) : k \in Ordered})' = UNION {f[k] : k \in Ordered'}
      BY <2>2
    <3>2. QED
      BY <1>6, <2>1, <3>1
  <2>4. (\A k, l \in Ordered : k # l => BlockVars(k) \cap BlockVars(l) = {})'
    BY <1>7, <2>1, <2>2
  <2>5. QED
    BY <2>1, <2>3, <2>4 DEF Divided
<1>10. QED
  BY <1>8, <1>9

(***************************************************************************)
(* What the two loops do with an ordering of a regular list: either both   *)
(* count its size and no block with weights came before, or both count 0.  *)
(***************************************************************************)
LEMMA RegularOrdering ==
  ASSUME IInv, Regular, i \in 1..Len(orderings), NEW e, e = orderings[i], SpecAccepted(e),
         e.spec.tag \notin {"none", "other"}, NEW c \in Int
  PROVE  \/ /\ e.name \in {"a", "c"} /\ Covers(c, e) = c + 0
            /\ \A d \in Int : Advance(d, e) = d
         \/ /\ e.name \in {"w", "w?"} /\ e.spec.n \in Nat /\ Covers(c, e) = c + e.spec.n
            /\ \A d \in Int : Advance(d, e) = d
            /\ NoWeights(i - 1)
         \/ /\ e.name \in {"d", "?"} /\ e.spec.n \in Nat /\ Covers(c, e) = c + e.spec.n
            /\ \A d \in Int : Advance(d, e) = d + e.spec.n
            /\ NoWeights(i - 1)
<1>1. /\ Valid(e) /\ e.name \in Name /\ e.spec.tag \in {"int", "list"} /\ e.spec.n \in Int
      /\ Len(orderings) \in Nat
  BY DEF IInv, TypeOK, ValidOrderings, Valid, Ordering, Spec_
<1>2. /\ e.spec.tag = "list" => e.name \notin {"M", "c"} /\ e.spec.n \in Nat
      /\ e.spec.tag = "int" => IF e.name = "c" THEN e.spec.n = 0 ELSE e.spec.n \in Nat
  BY <1>1 DEF Regular, Sizes, NoListFor, Valid
<1>3. e.name \notin {"a", "c"} => NoWeights(i - 1)
  BY <1>1 DEF Regular, WeightsLast, NoWeights
<1>4. CASE e.name \in {"a", "c"}
  <2>1. Covers(c, e) = c
    BY <1>4 DEF Covers
  <2>2. \A d \in Int : Advance(d, e) = d
    BY <1>1, <1>2, <1>4 DEF Advance, SpecAccepted
  <2>3. QED
    BY <1>4, <2>1, <2>2
<1>5. CASE e.name \in {"w", "w?"}
  BY <1>1, <1>2, <1>3, <1>5 DEF Covers, Advance, SpecAccepted
<1>6. CASE e.name \in {"d", "?"}
  BY <1>1, <1>2, <1>3, <1>6 DEF Covers, Advance, SpecAccepted
<1>7. e.name \notin {"M", "bad"}
  BY <1>1, <1>2 DEF SpecAccepted
<1>8. QED
  BY <1>1, <1>4, <1>5, <1>6, <1>7 DEF Name

LEMMA RegularKept ==
  ASSUME UNCHANGED orderings
  PROVE  /\ Regular' <=> Regular
         /\ \A n : NoWeights(n)' <=> NoWeights(n)
         /\ \A s, n : Sums(s, n)' <=> Sums(s, n)
         /\ \A n : Accepted(n)' <=> Accepted(n)
BY DEF Regular, Sizes, NoListFor, WeightsLast, NoWeights, Sums, Accepted

LEMMA BuildBlockStep ==
  ASSUME IInv, BuildBlock
  PROVE  IInv'
<1>0. PICK e : e = orderings[i]
  OBVIOUS
<1>1. /\ pc = "build" /\ i \in 1..Len(orderings) /\ Valid(e) /\ SpecAccepted(e)
      /\ orderings \in Seq(Ordering) /\ Len(orderings) \in Nat /\ covered \in Int
  BY <1>0 DEF BuildBlock, IInv, TypeOK, ValidOrderings, BuildInv, Accepted
<1>2. CASE e.spec.tag \in {"none", "other"}
  <2>1. Fail("entry")
    BY <1>0, <1>2 DEF BuildBlock
  <2>2. e.name = "c"
    BY <1>1, <1>2 DEF SpecAccepted
  <2>3. QED
    BY <1>0, <1>1, <1>2, <2>1, <2>2, FailStep
<1>3. CASE e.spec.tag \notin {"none", "other"}
  <2>0. PICK b : b = Block(covered, e)
    OBVIOUS
  <2>1. /\ blocks' = Append(blocks, b) /\ covered' = Advance(covered, e) /\ i' = i + 1
        /\ UNCHANGED <<pc, nrvars, orderings, err>>
    BY <1>0, <1>3, <2>0 DEF BuildBlock
  <2>2. cPresent' = cPresent
    BY <1>0, <1>3 DEF BuildBlock
  <2>3. /\ e.name \in Name /\ e.name # "bad" /\ e.spec.n \in Int
        /\ e.spec.tag = "list" => e.spec.n \in Nat
    BY <1>1 DEF SpecAccepted, Valid, Ordering, Spec_
  <2>4. b \in BlockOfVars
    <3>1. rOrderName(e.name) \in Name \ {"w?", "?", "bad"}
      BY <2>3 DEF rOrderName, Name
    <3>2. covered + 1 \in Int /\ covered + e.spec.n \in Int
      BY <1>1, <2>3
    <3>3. (IF e.spec.tag = "list" THEN e.spec.n ELSE 0) \in Nat
      BY <2>3
    <3>4. QED
      BY <2>0, <3>1, <3>2, <3>3 DEF Block, BlockOfVars
  <2>5. blocks \in Seq(BlockOfVars) /\ cPresent \in BOOLEAN
    BY DEF IInv, TypeOK
  <2>6. blocks' \in Seq(BlockOfVars) /\ Len(blocks') = Len(blocks) + 1 /\ Len(blocks) \in Nat
    BY <2>1, <2>4, <2>5
  <2>7. covered' \in Int
    BY <1>1, <2>1, <2>3 DEF Advance
  <2>8. TypeOK'
    <3>1. cPresent' \in BOOLEAN
      BY <2>2, <2>5
    <3>2. i' \in 1..(Len(orderings') + 1)
      BY <1>1, <2>1
    <3>3. QED
      BY <1>1, <2>1, <2>6, <2>7, <3>1, <3>2 DEF IInv, TypeOK
  <2>9. ValidOrderings'
    BY <2>1 DEF IInv, ValidOrderings
  <2>10. PICK s : /\ Sums(s, Len(orderings)) /\ s[Len(orderings)] = nrvars
                  /\ Regular => /\ s[i - 1] \in Nat /\ Divided(s[i - 1])
                                /\ NoWeights(i - 1) => covered = s[i - 1]
    BY <1>1 DEF IInv, BuildInv
  <2>11. s[i] = Covers(s[i - 1], e) /\ s[i - 1] \in Int
    BY <1>0, <1>1, <2>10 DEF Sums
  <2>15. PICK q : q = s[i]
    OBVIOUS
  <2>12. ASSUME Regular
         PROVE  /\ s[i] \in Nat /\ Divided(q)'
                /\ NoWeights(i) => covered' = s[i]
    <3>0. PICK c : c = s[i - 1]
      OBVIOUS
    <3>1. c \in Nat /\ Divided(c) /\ (NoWeights(i - 1) => covered = c)
      BY <2>10, <2>12, <3>0
    <3>2. /\ b.ord = rOrderName(e.name) /\ b.block0 = covered + 1
          /\ b.block1 = covered + e.spec.n
      BY <2>0 DEF Block
    <3>3. NoWeights(i) => NoWeights(i - 1) /\ e.name \notin {"w", "w?"}
      BY <1>0, <1>1 DEF NoWeights
    <3>4. CASE /\ e.name \in {"a", "c"} /\ Covers(c, e) = c + 0
               /\ \A d \in Int : Advance(d, e) = d
      <4>1. b.ord \notin {"M", "w", "d"}
        BY <3>2, <3>4 DEF rOrderName
      <4>2. Divided(c + 0)'
        BY <2>1, <2>4, <2>5, <3>1, <4>1, BlockAppended
      <4>3. s[i] = c + 0 /\ c + 0 = c /\ q = c
        BY <2>11, <2>15, <3>0, <3>1, <3>4
      <4>4. covered' = covered
        BY <1>1, <2>1, <3>4
      <4>5. Divided(q)'
        BY <4>2, <4>3 DEF Divided
      <4>6. QED
        BY <3>1, <3>3, <4>3, <4>4, <4>5
    <3>5. ASSUME e.name \in {"w", "w?", "d", "?"}, e.spec.n \in Nat, Covers(c, e) = c + e.spec.n,
                 NoWeights(i - 1)
          PROVE  s[i] \in Nat /\ Divided(q)' /\ s[i] = covered + e.spec.n
      <4>1. b.ord \in {"M", "w", "d"}
        BY <3>2, <3>5 DEF rOrderName
      <4>2. covered = c
        BY <3>1, <3>5
      <4>3. Divided(c + e.spec.n)'
        BY <2>1, <2>4, <2>5, <3>1, <3>2, <3>5, <4>1, <4>2, BlockAppended
      <4>4. s[i] = c + e.spec.n /\ q = c + e.spec.n
        BY <2>11, <2>15, <3>0, <3>5
      <4>5. Divided(q)'
        BY <4>3, <4>4 DEF Divided
      <4>6. QED
        BY <3>1, <3>5, <4>2, <4>4, <4>5
    <3>6. CASE /\ e.name \in {"w", "w?"} /\ e.spec.n \in Nat /\ Covers(c, e) = c + e.spec.n
               /\ \A d \in Int : Advance(d, e) = d
               /\ NoWeights(i - 1)
      BY <3>3, <3>5, <3>6
    <3>7. CASE /\ e.name \in {"d", "?"} /\ e.spec.n \in Nat /\ Covers(c, e) = c + e.spec.n
               /\ \A d \in Int : Advance(d, e) = d + e.spec.n
               /\ NoWeights(i - 1)
      <4>1. covered' = covered + e.spec.n
        BY <1>1, <2>1, <3>7
      <4>2. QED
        BY <3>5, <3>7, <4>1
    <3>8. QED
      <4>1. c \in Int /\ IInv /\ Regular /\ e.spec.tag \notin {"none", "other"}
        BY <1>3, <2>12, <3>1
      <4>2. \/ /\ e.name \in {"a", "c"} /\ Covers(c, e) = c + 0
               /\ \A d \in Int : Advance(d, e) = d
            \/ /\ e.name \in {"w", "w?"} /\ e.spec.n \in Nat /\ Covers(c, e) = c + e.spec.n
               /\ \A d \in Int : Advance(d, e) = d
               /\ NoWeights(i - 1)
            \/ /\ e.name \in {"d", "?"} /\ e.spec.n \in Nat /\ Covers(c, e) = c + e.spec.n
               /\ \A d \in Int : Advance(d, e) = d + e.spec.n
               /\ NoWeights(i - 1)
        BY <1>0, <1>1, <4>1, RegularOrdering
      <4>3. QED
        BY <3>4, <3>6, <3>7, <4>2
  <2>13. BuildInv'
    <3>1. /\ pc' = "build" /\ i' - 1 = i /\ orderings' = orderings /\ nrvars' = nrvars
          /\ Len(blocks') = i
      BY <1>1, <2>1, <2>6 DEF IInv, BuildInv
    <3>2. Accepted(Len(orderings))'
      <4>1. Accepted(Len(orderings))
        BY <1>1 DEF IInv, BuildInv
      <4>2. QED
        BY <3>1, <4>1 DEF Accepted
    <3>3. Sums(s, Len(orderings))' /\ s[Len(orderings')] = nrvars'
      BY <2>10, <3>1 DEF Sums
    <3>4. Regular' => /\ s[i' - 1] \in Nat /\ Divided(s[i - 1])'
                      /\ NoWeights(i - 1)' => covered' = s[i' - 1]
      <4>1. SUFFICES ASSUME Regular'
                     PROVE  /\ s[i' - 1] \in Nat /\ Divided(s[i - 1])'
                            /\ NoWeights(i - 1)' => covered' = s[i' - 1]
        OBVIOUS
      <4>2. Regular
        BY <3>1, <4>1, RegularKept
      <4>3. NoWeights(i - 1)' => NoWeights(i)
        BY <3>1 DEF NoWeights
      <4>4. s[i] \in Nat /\ (NoWeights(i) => covered' = s[i])
        BY <2>12, <4>2
      <4>5. Divided(q)'
        BY <2>12, <4>2
      <4>6. Divided(s[i - 1])'
        BY <1>1, <2>15, <3>1, <4>5 DEF Divided
      <4>7. QED
        BY <3>1, <4>3, <4>4, <4>6
    <3>5. QED
      BY <3>1, <3>2, <3>3, <3>4 DEF BuildInv
  <2>14. QED
    BY <1>1, <2>1, <2>8, <2>9, <2>13 DEF IInv, CheckInv, ErrInv, NoBlocks, AsPassed, RefusedOnlyForC
<1>4. QED
  BY <1>2, <1>3

LEMMA BuildDoneStep ==
  ASSUME IInv, BuildDone
  PROVE  IInv'
<1>1. /\ pc = "build" /\ i > Len(orderings) /\ pc' = "made"
      /\ UNCHANGED <<nrvars, orderings, i, covered, cPresent, blocks, err>>
  BY DEF BuildDone
<1>2. i = Len(orderings) + 1
  <2>1. i \in 1..(Len(orderings) + 1) /\ Len(orderings) \in Nat
    BY DEF IInv, TypeOK
  <2>2. QED
    BY <1>1, <2>1
<1>3. TypeOK' /\ ValidOrderings'
  BY <1>1 DEF IInv, TypeOK, ValidOrderings
<1>4. BuildInv'
  <2>1. (\A n : Divided(n)') <=> \A n : Divided(n)
    BY <1>1 DEF Divided, Ordered, BlockVars
  <2>2. PICK s : /\ Sums(s, Len(orderings)) /\ s[Len(orderings)] = nrvars
                 /\ Regular => /\ s[i - 1] \in Nat /\ Divided(s[i - 1])
                               /\ NoWeights(i - 1) => covered = s[i - 1]
    BY <1>1 DEF IInv, BuildInv
  <2>3. /\ Sums(s, Len(orderings))' /\ s[Len(orderings')] = nrvars'
        /\ Regular' => /\ s[i' - 1] \in Nat /\ Divided(s[i - 1])'
                       /\ NoWeights(i - 1)' => covered' = s[i' - 1]
    <3>1. Divided(s[i - 1])' <=> Divided(s[i - 1])
      BY <1>1 DEF Divided, Ordered, BlockVars
    <3>2. (Regular' <=> Regular) /\ (NoWeights(i - 1)' <=> NoWeights(i - 1))
      BY <1>1 DEF Regular, Sizes, NoListFor, WeightsLast, NoWeights
    <3>3. Sums(s, Len(orderings))' <=> Sums(s, Len(orderings))
      BY <1>1 DEF Sums
    <3>4. QED
      BY <1>1, <2>2, <3>1, <3>2, <3>3
  <2>4. Accepted(Len(orderings))' /\ Len(blocks') = i' - 1
    BY <1>1 DEF IInv, BuildInv, Accepted
  <2>5. QED
    BY <1>1, <1>2, <2>3, <2>4 DEF BuildInv
<1>5. QED
  BY <1>1, <1>3, <1>4 DEF IInv, CheckInv, ErrInv, NoBlocks, AsPassed, RefusedOnlyForC

LEMMA AgainStep == Again => IInv'
<1>1. SUFFICES ASSUME Again PROVE IInv'
  OBVIOUS
<1>2. /\ pc' = "gap" /\ orderings' = <<>> /\ Len(orderings') = 0 /\ blocks' = <<>>
      /\ err' = "none" /\ nrvars' = 0 /\ i' = 1 /\ covered' = 0
  BY <1>1 DEF Again
<1>3. TypeOK'
  <2>1. orderings' \in Seq(Ordering) /\ blocks' \in Seq(BlockOfVars)
    BY <1>2
  <2>2. cPresent' \in BOOLEAN
    BY <1>1 DEF Again
  <2>3. QED
    BY <1>2, <2>1, <2>2, BoundsAssumption DEF TypeOK
<1>4. 0 <= MaxOrds
  BY BoundsAssumption
<1>5. QED
  BY <1>2, <1>3, <1>4 DEF IInv, ValidOrderings, CheckInv, BuildInv, ErrInv, NoBlocks, AsPassed,
     RefusedOnlyForC

(***************************************************************************)
(* The inductive invariant: the type invariant, what the check has         *)
(* accepted and counted, and, for lists with blocks of weights at the end, *)
(* that the blocks so far divide the variables counted so far.             *)
(***************************************************************************)
THEOREM Invariance == Spec => []IInv
<1>1. IInv /\ [Next]_vars => IInv'
  <2>1. SUFFICES ASSUME IInv, [Next]_vars PROVE IInv'
    OBVIOUS
  <2>2. ASSUME NEW e \in Entries, AddOrdering(e) PROVE IInv'
    BY <2>1, <2>2, AddOrderingStep
  <2>3. Len(orderings) <= MaxOrds => Passed(orderings, MaxOrds)
    BY <2>1 DEF IInv, TypeOK, ValidOrderings, Passed
  <2>4. pc = "gap" => Len(orderings) <= MaxOrds
    BY <2>1 DEF IInv, AsPassed
  <2>5. ASSUME NEW n \in 0..MaxVars, NEW blank \in BOOLEAN, SI_ring(n, blank, orderings)
        PROVE  IInv'
    BY <2>1, <2>3, <2>4, <2>5, CallStep, DefaultOrdering, ParsedInBounds DEF SI_ring, Call
  <2>6. ASSUME NEW n \in 0..MaxVars, _SI_ring(n) PROVE IInv'
    <3>1. Passed(orderings, MaxOrds + 1)
      BY <2>1 DEF IInv, TypeOK, ValidOrderings, Passed
    <3>2. QED
      BY <2>1, <2>6, <3>1, CallStep DEF _SI_ring
  <2>7. ASSUME NEW n \in 0..MaxVars, NEW blank \in BOOLEAN, SI_ringDefault(n, blank)
        PROVE  IInv'
    <3>1. PICK m \in 0..MaxVars : m = _ParseIndeterminatesDescription(n, blank)
      BY ParsedInBounds
    <3>2. PICK o : o = <<Entry("d", "int", m)>>
      OBVIOUS
    <3>3. Entry("d", "int", m) \in Ordering /\ Valid(Entry("d", "int", m))
      BY <3>1 DEF Entry, Ordering, Valid, Name, Spec_
    <3>4. o \in Seq(Ordering) /\ Len(o) = 1 /\ o[1] = Entry("d", "int", m)
      BY <3>2, <3>3
    <3>5. Passed(o, MaxOrds)
      BY <3>3, <3>4, BoundsAssumption DEF Passed
    <3>6. SI_ring(m, FALSE, o)
      BY <2>7, <3>1, <3>2 DEF SI_ringDefault
    <3>7. QED
      BY <2>1, <3>5, <3>6, CallStep, DefaultOrdering, ParsedInBounds DEF SI_ring
  <2>8. ASSUME UNCHANGED vars PROVE IInv'
    <3>1. UNCHANGED <<pc, nrvars, orderings, i, covered, cPresent, blocks, err>>
      BY <2>8 DEF vars
    <3>2. TypeOK'
      BY <2>1, <3>1 DEF IInv, TypeOK
    <3>3. ValidOrderings' /\ RefusedOnlyForC' /\ ErrInv' /\ NoBlocks' /\ AsPassed'
      BY <2>1, <3>1 DEF IInv, ValidOrderings, RefusedOnlyForC, ErrInv, NoBlocks, AsPassed
    <3>4. CheckInv'
      BY <2>1, <3>1 DEF IInv, CheckInv, Accepted, Sums
    <3>5. BuildInv'
      BY <2>1, <3>1 DEF IInv, BuildInv, Accepted, Sums, Regular, Sizes, NoListFor, WeightsLast,
                        NoWeights, Divided, Ordered, BlockVars
    <3>6. QED
      BY <3>2, <3>3, <3>4, <3>5 DEF IInv
  <2>9. QED
    BY <2>1, <2>2, <2>5, <2>6, <2>7, <2>8, CheckOrderingStep, CheckDoneStep,
       BuildBlockStep, BuildDoneStep, AgainStep DEF Next
<1>2. QED
  BY InitIInv, <1>1, PTL DEF Spec

(***************************************************************************)
(* All states are of the types of TypeOK: SI_ring (cxxfuncs.cc) counts and *)
(* divides integers whatever list of orderings GAP passes.                 *)
(***************************************************************************)
THEOREM TypeCorrect == Spec => []TypeOK
<1>1. IInv => TypeOK
  BY DEF IInv
<1>2. QED
  BY <1>1, Invariance, PTL

(***************************************************************************)
(* The blocks divide the variables of the ring, for any number of          *)
(* variables and of orderings, if blocks with weights come last.           *)
(***************************************************************************)
THEOREM PartitionSafety == Spec => []WeightsLastPartition
<1>1. IInv => WeightsLastPartition
  <2>1. SUFFICES ASSUME IInv, pc = "made", Regular PROVE Partition
    BY DEF WeightsLastPartition, Regular
  <2>2. PICK s : /\ s[Len(orderings)] = nrvars
                 /\ Regular => Divided(s[i - 1])
    BY <2>1 DEF IInv, BuildInv
  <2>3. i - 1 = Len(orderings)
    <3>1. i = Len(orderings) + 1 /\ Len(orderings) \in Nat
      BY <2>1 DEF IInv, BuildInv, TypeOK
    <3>2. QED
      BY <3>1
  <2>4. Divided(nrvars)
    BY <2>1, <2>2, <2>3
  <2>5. QED
    BY <2>4 DEF Divided, Partition
<1>2. QED
  BY <1>1, Invariance, PTL

(***************************************************************************)
(* Only an ordering c or C without a usable second entry is refused after  *)
(* the check, whatever the list.                                           *)
(***************************************************************************)
THEOREM RefusedSafety == Spec => []RefusedOnlyForC
<1>1. IInv => RefusedOnlyForC
  BY DEF IInv
<1>2. QED
  BY <1>1, Invariance, PTL

(***************************************************************************)
(* Coverage.  The check rounds a square root towards zero: when a matrix   *)
(* has n*n entries the root is exact, and an ordering adds its size.       *)
(***************************************************************************)
LEMMA ExactRoot ==
  ASSUME NEW n \in Nat, NEW q \in 0..n, q * q = n
  PROVE  Isqrt(n) = q
<1>1. \A a, b \in Nat : a < b => (a + 1) * (a + 1) <= b * b
  <2>1. SUFFICES ASSUME NEW a \in Nat, NEW b \in Nat, a < b PROVE (a + 1) * (a + 1) <= b * b
    OBVIOUS
  <2>2. PICK d \in Nat : b = (a + 1) + d
    <3>1. b - (a + 1) \in Nat /\ b = (a + 1) + (b - (a + 1))
      BY <2>1
    <3>2. QED
      BY <3>1
  <2>3. b * b = (a + 1) * (a + 1) + (2 * ((a + 1) * d) + d * d)
    BY <2>2
  <2>4. (a + 1) * d \in Nat /\ d * d \in Nat /\ (a + 1) * (a + 1) \in Nat
    OBVIOUS
  <2>5. QED
    BY <2>3, <2>4
<1>2. q \in Nat /\ (q + 1) * (q + 1) > n
  <2>1. (q + 1) * (q + 1) = q * q + 2 * q + 1
    OBVIOUS
  <2>2. QED
    BY <2>1
<1>3. \A r \in 0..n : r * r <= n /\ (r + 1) * (r + 1) > n => r = q
  <2>1. SUFFICES ASSUME NEW r \in 0..n, r * r <= n, (r + 1) * (r + 1) > n, r # q PROVE FALSE
    OBVIOUS
  <2>2. CASE r < q
    BY <1>1, <2>1, <2>2
  <2>3. CASE q < r
    <3>1. r * r \in Nat /\ (q + 1) * (q + 1) \in Nat /\ (q + 1) * (q + 1) <= r * r
      BY <1>1, <2>3
    <3>2. QED
      BY <1>2, <2>1, <3>1
  <2>4. QED
    BY <2>1, <2>2, <2>3
<1>4. QED
  BY <1>2, <1>3 DEF Isqrt

LEMMA CoversSize ==
  ASSUME NEW c \in Int, NEW e, Valid(e), e.name = "M" => Square(e.spec.n)
  PROVE  Size(e) \in Int /\ Covers(c, e) = c + Size(e)
<1>1. e.spec.n \in Int /\ e.name \in Name
  BY DEF Valid, Ordering, Spec_
<1>2. CASE e.name = "M"
  <2>1. PICK q \in 0..e.spec.n : q * q = e.spec.n
    BY <1>2 DEF Square
  <2>2. PICK n \in Nat : n = e.spec.n
    BY <1>1, <2>1
  <2>3. PICK r : r = CHOOSE x \in 0..n : x * x = n
    OBVIOUS
  <2>4. r \in 0..n /\ r * r = n
    BY <2>1, <2>2, <2>3
  <2>5. Isqrt(n) = r
    BY <2>4, ExactRoot
  <2>6. PlusSqrt(c, n) = c + r
    BY <2>4, <2>5 DEF PlusSqrt
  <2>7. Size(e) = r
    BY <1>2, <2>2, <2>3 DEF Size
  <2>8. Covers(c, e) = PlusSqrt(c, n)
    BY <1>2, <2>2 DEF Covers
  <2>9. QED
    BY <2>4, <2>6, <2>7, <2>8
<1>3. CASE e.name \in {"a", "c"}
  BY <1>3 DEF Covers, Size
<1>4. CASE e.name \notin {"M", "a", "c"}
  BY <1>1, <1>4 DEF Covers, Size
<1>5. QED
  BY <1>2, <1>3, <1>4

(***************************************************************************)
(* So the sums of the check are the sums of the sizes.                     *)
(***************************************************************************)
LEMMA SumsAreSizes ==
  ASSUME NEW s, Len(orderings) \in Nat, ValidOrderings, SquareMatrices,
         Sums(s, Len(orderings))
  PROVE  s[Len(orderings)] = SizeSum[Len(orderings)]
<1>0. PICK n \in Nat : n = Len(orderings)
  OBVIOUS
<1>1. \A k \in 1..n : /\ Size(orderings[k]) \in Int
                      /\ s[k] = s[k - 1] + Size(orderings[k])
  <2>1. SUFFICES ASSUME NEW k \in 1..n
                 PROVE  /\ Size(orderings[k]) \in Int
                        /\ s[k] = s[k - 1] + Size(orderings[k])
    OBVIOUS
  <2>2. s[k - 1] \in Int /\ s[k] = Covers(s[k - 1], orderings[k])
    BY <1>0 DEF Sums
  <2>3. Valid(orderings[k]) /\ (orderings[k].name = "M" => Square(orderings[k].spec.n))
    BY <1>0 DEF ValidOrderings, SquareMatrices
  <2>4. QED
    BY <2>2, <2>3, CoversSize
<1>2. s \in [0..n -> Int] /\ s[0] = 0
  BY <1>0 DEF Sums
<1>3. s = [k \in 0..n |-> IF k = 0 THEN 0 ELSE s[k - 1] + Size(orderings[k])]
  <2>1. \A k \in 0..n : s[k] = IF k = 0 THEN 0 ELSE s[k - 1] + Size(orderings[k])
    BY <1>1, <1>2
  <2>2. QED
    BY <1>2, <2>1
<1>4. PICK f : /\ f = SizeSum
               /\ f = [k \in 0..n |-> IF k = 0 THEN 0 ELSE f[k - 1] + Size(orderings[k])]
  <2>1. PICK f : f = CHOOSE g : g = [k \in 0..n |-> IF k = 0 THEN 0
                                                  ELSE g[k - 1] + Size(orderings[k])]
    OBVIOUS
  <2>2. f = [k \in 0..n |-> IF k = 0 THEN 0 ELSE f[k - 1] + Size(orderings[k])]
    BY <1>3, <2>1
  <2>3. f = SizeSum
    BY <1>0, <2>1, Zenon DEF SizeSum
  <2>4. QED
    BY <2>2, <2>3
<1>5. f[0] = 0 /\ \A k \in 1..n : f[k] = f[k - 1] + Size(orderings[k])
  BY <1>4
<1>6. \A k \in 0..n : f[k] = s[k]
  <2>1. SUFFICES ASSUME NEW k \in 0..n, f[k] # s[k] PROVE FALSE
    OBVIOUS
  <2>2. PICK m \in 0..n : f[m] # s[m] /\ \A j \in 0..n : f[j] # s[j] => m <= j
    <3> DEFINE N == {j \in 0..n : f[j] # s[j]}
    <3>1. N \in SUBSET Nat /\ N # {}
      BY <2>1
    <3>2. \E m \in N : \A j \in N : m <= j
      <4> HIDE DEF N
      <4>1. QED
        BY <3>1, LeastNatural
    <3>3. QED
      BY <3>2
  <2>3. m # 0
    BY <1>2, <1>5, <2>2
  <2>4. m - 1 \in 0..n /\ f[m - 1] = s[m - 1]
    BY <2>2, <2>3
  <2>5. m \in 1..n /\ f[m] = f[m - 1] + Size(orderings[m]) /\ s[m] = s[m - 1] + Size(orderings[m])
    BY <1>1, <1>5, <2>2, <2>3
  <2>6. QED
    BY <2>2, <2>4, <2>5
<1>7. QED
  BY <1>0, <1>4, <1>6

(***************************************************************************)
(* What a refusal for coverage has seen, and where there was none.         *)
(***************************************************************************)
CoverageInv ==
  /\ pc = "error" <=> err # "none"
  /\ err = "coverage" => \E s : Sums(s, Len(orderings)) /\ s[Len(orderings)] # nrvars

LEMMA CoverageKept ==
  ASSUME IInv, CoverageInv, [Next]_vars
  PROVE  CoverageInv'
<1>1. ASSUME UNCHANGED <<pc, err, orderings, nrvars>> PROVE CoverageInv'
  BY <1>1 DEF CoverageInv, Sums
<1>2. ASSUME NEW why \in {"specification", "twice", "entry"}, Fail(why) PROVE CoverageInv'
  BY <1>2 DEF CoverageInv, Fail
<1>3. ASSUME NEW n, NEW ords, Call(n, ords) PROVE CoverageInv'
  BY <1>3 DEF CoverageInv, Call
<1>4. ASSUME NEW e \in Entries, AddOrdering(e) PROVE CoverageInv'
  BY <1>4 DEF CoverageInv, AddOrdering
<1>5. CASE CheckOrdering
  <2>1. \/ Fail("specification") \/ Fail("twice")
        \/ UNCHANGED <<pc, err, orderings, nrvars>>
    BY <1>5 DEF CheckOrdering
  <2>2. QED
    BY <1>1, <1>2, <2>1
<1>6. CASE CheckDone
  <2>1. CASE covered # nrvars
    <3>1. pc' = "error" /\ err' = "coverage" /\ UNCHANGED <<orderings, nrvars>>
      BY <1>6, <2>1 DEF CheckDone, Fail
    <3>2. i - 1 = Len(orderings) /\ pc = "check"
      <4>1. i \in 1..(Len(orderings) + 1) /\ Len(orderings) \in Nat /\ i > Len(orderings)
        BY <1>6 DEF CheckDone, IInv, TypeOK
      <4>2. QED
        BY <1>6, <4>1 DEF CheckDone
    <3>3. PICK s : Sums(s, Len(orderings)) /\ s[Len(orderings)] # nrvars
      BY <2>1, <3>2 DEF IInv, CheckInv
    <3>4. Sums(s, Len(orderings))' /\ s[Len(orderings')] # nrvars'
      BY <3>1, <3>3 DEF Sums
    <3>5. QED
      BY <3>1, <3>4 DEF CoverageInv
  <2>2. CASE covered = nrvars
    BY <1>6, <2>2 DEF CheckDone, CoverageInv
  <2>3. QED
    BY <2>1, <2>2
<1>7. CASE BuildBlock
  <2>1. Fail("entry") \/ UNCHANGED <<pc, err, orderings, nrvars>>
    BY <1>7 DEF BuildBlock
  <2>2. QED
    BY <1>1, <1>2, <2>1
<1>8. CASE BuildDone
  BY <1>8 DEF BuildDone, CoverageInv
<1>9. CASE Again
  BY <1>9 DEF Again, CoverageInv
<1>10. CASE UNCHANGED vars
  BY <1>1, <1>10 DEF vars
<1>11. QED
  BY <1>3, <1>4, <1>5, <1>6, <1>7, <1>8, <1>9, <1>10
     DEF Next, SI_ring, _SI_ring, SI_ringDefault

(***************************************************************************)
(* The verdict of Func_SI_ring on coverage is that of the sum of the       *)
(* sizes, for any number of variables, of orderings and any sizes, when    *)
(* the matrices are square: std::sqrt then counts the rows of a matrix.    *)
(***************************************************************************)
THEOREM CoverageSafety == Spec => []CoverageRight
<1>1. Init => CoverageInv
  BY DEF Init, CoverageInv
<1>2. IInv /\ CoverageInv => CoverageRight
  <2>1. SUFFICES ASSUME IInv, CoverageInv, pc \in {"made", "error"},
                        err \in {"none", "coverage"}, SquareMatrices
                 PROVE  (err = "none") <=> SizeSum[Len(orderings)] = nrvars
    BY DEF CoverageRight
  <2>2. ValidOrderings /\ Len(orderings) \in Nat
    BY <2>1 DEF IInv, TypeOK
  <2>3. CASE err = "none"
    <3>1. PICK s : Sums(s, Len(orderings)) /\ s[Len(orderings)] = nrvars
      BY <2>1, <2>3 DEF IInv, BuildInv, CoverageInv
    <3>2. QED
      BY <2>1, <2>2, <2>3, <3>1, SumsAreSizes
  <2>4. CASE err = "coverage"
    <3>1. PICK s : Sums(s, Len(orderings)) /\ s[Len(orderings)] # nrvars
      BY <2>1, <2>4 DEF CoverageInv
    <3>2. QED
      BY <2>1, <2>2, <2>4, <3>1, SumsAreSizes
  <2>5. QED
    BY <2>1, <2>3, <2>4
<1>3. QED
  BY <1>1, <1>2, CoverageKept, Invariance, PTL DEF Spec

=============================================================================
