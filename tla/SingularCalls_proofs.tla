------------------------- MODULE SingularCalls_proofs -------------------------
(***************************************************************************)
(* The calls of the interpreter for any rings, arguments and results: the  *)
(* inductive invariant IInv of SingularCalls and what follows from it.     *)
(***************************************************************************)
EXTENDS SingularCalls, FiniteSetTheorems, TLAPS

LEMMA Sentinels ==
  /\ NULL # Fake /\ NULL \notin Rings /\ Fake \notin Rings
  /\ NoRing \notin Rings /\ GapRings \subseteq Rings
  BY RingsAssumption, HandleAssumption DEF NULL, Fake

(***************************************************************************)
(* Singular's part of the state.                                           *)
(***************************************************************************)
LEMMA Fields ==
  ASSUME NEW s \in Singular
  PROVE  /\ s.curr \in Rings \cup {NoRing} /\ s.hdl \in {NULL, Fake} \cup Rings
         /\ s.fake \in Rings \cup {NoRing} /\ s.named \subseteq Rings
         /\ s.ref \in [Rings -> Int] /\ s.alive \subseteq Rings
  BY DEF Singular, Handle

(***************************************************************************)
(* Killing the identifier of a ring: which fields change and how.          *)
(***************************************************************************)
Killed(s, h, q, t) ==
  /\ t \in Singular
  /\ t.curr = IF s.ref[q] <= 0 /\ s.curr = q THEN NoRing ELSE s.curr
  /\ t.hdl = IF s.hdl = h THEN (IF s.ref[q] <= 0 THEN NULL ELSE Other(s, h))
     ELSE s.hdl
  /\ t.fake = IF h = Fake THEN NoRing ELSE s.fake
  /\ t.named = s.named \ {h}
  /\ t.alive = IF s.ref[q] <= 0 THEN s.alive \ {q} ELSE s.alive
  /\ t.ref[q] = IF s.ref[q] <= 0 THEN s.ref[q] ELSE s.ref[q] - 1
  /\ \A p \in Rings \ {q} : t.ref[p] = s.ref[p]
  /\ s.ref[q] \in Int

LEMMA KilledFields ==
  ASSUME NEW s \in Singular, NEW h, NEW q \in Rings, q = IDRING(s, h),
         NEW t, t = killhdl(s, h)
  PROVE  Killed(s, h, q, t)
<1> DEFINE last == s.ref[q] <= 0
           ref  == IF last THEN s.ref ELSE [s.ref EXCEPT ![q] = @ - 1]
           hdl  == IF s.hdl = h THEN (IF last THEN NULL ELSE Other(s, h)) ELSE s.hdl
<1>1. t = [curr  |-> IF last /\ s.curr = q THEN NoRing ELSE s.curr,
           hdl   |-> hdl,
           fake  |-> IF h = Fake THEN NoRing ELSE s.fake,
           named |-> s.named \ {h},
           ref   |-> ref,
           alive |-> IF last THEN s.alive \ {q} ELSE s.alive]
  BY DEF killhdl
<1>2. ref \in [Rings -> Int] /\ s.ref[q] \in Int
      /\ ref[q] = (IF last THEN s.ref[q] ELSE s.ref[q] - 1)
      /\ \A p \in Rings \ {q} : ref[p] = s.ref[p]
  BY Fields
<1>3. Other(s, h) \in {NULL, Fake} \cup Rings
  BY DEF Other
<1>4. hdl \in {NULL, Fake} \cup Rings
  BY <1>3, Fields
<1> HIDE DEF ref, hdl
<1>5. t \in Singular
  BY <1>1, <1>2, <1>4, Fields DEF Singular, Handle
<1>6. QED
  BY <1>1, <1>2, <1>5 DEF hdl, Killed

(***************************************************************************)
(* A ring is not deleted as long as something else holds it.               *)
(***************************************************************************)
LEMMA LastHolder ==
  ASSUME NEW s, NEW w, SingularOK(s, w), NEW q \in s.alive, s.ref[q] <= 0
  PROVE  /\ q \notin GapRings
         /\ s.ref[q] + 1 = One(q \in w) + One(q \in s.named) + One(s.fake = q)
         /\ ~(q \in w /\ q \in s.named) /\ ~(q \in w /\ s.fake = q)
         /\ ~(q \in s.named /\ s.fake = q)
<1>1. s \in Singular /\ q \in Rings /\ s.ref[q] \in Int
  BY Fields DEF SingularOK
<1>2. s.ref[q] + One(q \notin GapRings) =
         One(q \in w) + One(q \in s.named) + One(s.fake = q)
  BY DEF SingularOK
<1>3. \A p \in BOOLEAN : One(p) = (IF p THEN 1 ELSE 0)
  BY DEF One
<1>4. q \notin GapRings
  <2>1. SUFFICES ASSUME q \in GapRings PROVE FALSE
    OBVIOUS
  <2>2. q \in w
    BY <2>1 DEF SingularOK
  <2>3. One(q \notin GapRings) = 0 /\ One(q \in w) = 1
    BY <2>1, <2>2 DEF One
  <2>4. One(q \in s.named) \in {0, 1} /\ One(s.fake = q) \in {0, 1}
    BY DEF One
  <2>5. QED
    BY <1>1, <1>2, <2>3, <2>4
<1>5. One(q \notin GapRings) = 1
  BY <1>4 DEF One
<1> DEFINE a == One(q \in w)
           b == One(q \in s.named)
           c == One(s.fake = q)
<1>6. /\ a \in {0, 1} /\ b \in {0, 1} /\ c \in {0, 1}
      /\ q \in w => a = 1
      /\ q \in s.named => b = 1
      /\ s.fake = q => c = 1
  BY DEF One
<1>7. s.ref[q] + 1 = a + b + c
  BY <1>2, <1>5
<1> HIDE DEF a, b, c
<1>8. a + b + c <= 1
  BY <1>1, <1>7
<1>9. ~(a = 1 /\ b = 1) /\ ~(a = 1 /\ c = 1) /\ ~(b = 1 /\ c = 1)
  BY <1>6, <1>8
<1>10. QED
  BY <1>4, <1>6, <1>7, <1>9 DEF a, b, c

(***************************************************************************)
(* The fake identifier is killed.                                          *)
(***************************************************************************)
LEMMA FakeKilled ==
  ASSUME NEW s, NEW w, SingularOK(s, w), s.fake # NoRing
  PROVE  /\ SingularOK(killhdl(s, Fake), w)
         /\ killhdl(s, Fake).fake = NoRing
         /\ \/ killhdl(s, Fake).curr = s.curr
            \/ s.fake \notin w \cup s.named /\ s.curr = s.fake
<1> DEFINE q == s.fake
           t == killhdl(s, Fake)
<1>1. s \in Singular /\ q \in Rings /\ q \in s.alive /\ q = IDRING(s, Fake)
  BY Fields DEF SingularOK, IDRING
<1> HIDE DEF t
<1>2. /\ t \in Singular /\ s.ref[q] \in Int
      /\ t.curr = IF s.ref[q] <= 0 /\ s.curr = q THEN NoRing ELSE s.curr
      /\ t.hdl = IF s.hdl = Fake THEN (IF s.ref[q] <= 0 THEN NULL ELSE Other(s, Fake))
                 ELSE s.hdl
      /\ t.fake = NoRing /\ t.named = s.named \ {Fake}
      /\ t.alive = IF s.ref[q] <= 0 THEN s.alive \ {q} ELSE s.alive
      /\ t.ref[q] = IF s.ref[q] <= 0 THEN s.ref[q] ELSE s.ref[q] - 1
      /\ \A p \in Rings \ {q} : t.ref[p] = s.ref[p]
  <2>1. Killed(s, Fake, q, t)
    BY <1>1, KilledFields DEF t
  <2>2. QED
    BY <2>1 DEF Killed
<1>3. t.named = s.named /\ s.named \subseteq s.alive /\ s.alive \subseteq Rings
      /\ w \subseteq s.alive /\ GapRings \subseteq w
  BY <1>1, <1>2, Fields, Sentinels DEF SingularOK
<1>4. s.ref[q] <= 0 => q \notin w /\ q \notin s.named
  BY <1>1, LastHolder
<1>5. Other(s, Fake) = IF q \in s.named THEN q ELSE NULL
  BY <1>1 DEF Other
<1>6. t.hdl \in Rings => t.hdl \in t.named
  BY <1>2, <1>3, <1>5, Sentinels DEF SingularOK
<1>7. t.hdl # Fake
  BY <1>1, <1>2, <1>5, Sentinels
<1>8. ASSUME NEW p \in t.alive
      PROVE  t.ref[p] + One(p \notin GapRings) =
               One(p \in w) + One(p \in t.named) + One(t.fake = p)
  <2>1. p \in s.alive /\ p \in Rings
    BY <1>2, <1>3, <1>8
  <2>2. s.ref[p] + One(p \notin GapRings) =
               One(p \in w) + One(p \in s.named) + One(s.fake = p)
    BY <2>1 DEF SingularOK
  <2>3. One(t.fake = p) = 0
    BY <1>2, <2>1, Sentinels DEF One
  <2>4. CASE p = q
    <3>1. t.ref[q] = s.ref[q] - 1 /\ One(s.fake = p) = 1
      BY <1>1, <1>2, <1>8, <2>4 DEF One
    <3>2. One(p \notin GapRings) \in Int /\ One(p \in w) \in Int /\ One(p \in s.named) \in Int
      BY DEF One
    <3>3. QED
      BY <1>2, <1>3, <2>2, <2>3, <2>4, <3>1, <3>2
  <2>5. CASE p # q
    <3>1. One(s.fake = p) = 0 /\ t.ref[p] = s.ref[p]
      BY <1>2, <2>1, <2>5 DEF One
    <3>2. QED
      BY <1>3, <2>2, <2>3, <3>1
  <2>6. QED
    BY <2>4, <2>5
<1>9. t.curr # NoRing => t.curr \in t.alive
  BY <1>1, <1>2 DEF SingularOK
<1>10. t.named \subseteq t.alive /\ w \subseteq t.alive
  BY <1>2, <1>3, <1>4
<1>11. SingularOK(t, w)
  BY <1>2, <1>3, <1>6, <1>7, <1>8, <1>9, <1>10 DEF SingularOK
<1>12. QED
  BY <1>2, <1>4, <1>11 DEF t

(***************************************************************************)
(* A string kills the identifier of a ring.                                *)
(***************************************************************************)
HandleOrWrapper(s, w) == s.curr # NoRing => HandleOfCurr(s) \/ s.curr \in w

LEMMA NamedKilled ==
  ASSUME NEW s, NEW w, SingularOK(s, w), NEW q \in s.named, HandleOrWrapper(s, w)
  PROVE  /\ SingularOK(killhdl(s, q), w) /\ HandleOrWrapper(killhdl(s, q), w)
         /\ killhdl(s, q).fake = s.fake
<1> DEFINE t == killhdl(s, q)
<1>1. s \in Singular /\ q \in Rings /\ q \in s.alive /\ q # Fake /\ q # NoRing
      /\ q # NULL /\ q = IDRING(s, q)
  BY Fields, Sentinels DEF SingularOK, IDRING
<1> HIDE DEF t
<1>2. /\ t \in Singular /\ s.ref[q] \in Int
      /\ t.curr = IF s.ref[q] <= 0 /\ s.curr = q THEN NoRing ELSE s.curr
      /\ t.hdl = IF s.hdl = q THEN (IF s.ref[q] <= 0 THEN NULL ELSE Other(s, q))
                 ELSE s.hdl
      /\ t.fake = s.fake /\ t.named = s.named \ {q}
      /\ t.alive = IF s.ref[q] <= 0 THEN s.alive \ {q} ELSE s.alive
      /\ t.ref[q] = IF s.ref[q] <= 0 THEN s.ref[q] ELSE s.ref[q] - 1
      /\ \A p \in Rings \ {q} : t.ref[p] = s.ref[p]
  <2>1. Killed(s, q, q, t)
    BY <1>1, KilledFields DEF t
  <2>2. QED
    BY <1>1, <2>1 DEF Killed
<1>3. s.named \subseteq s.alive /\ s.alive \subseteq Rings
      /\ w \subseteq s.alive /\ GapRings \subseteq w
  BY <1>1, Fields DEF SingularOK
<1>4. s.ref[q] <= 0 => q \notin w /\ s.fake # q
  BY <1>1, LastHolder
<1>5. Other(s, q) = IF s.fake = q THEN Fake ELSE NULL
  BY <1>1 DEF Other
<1>6. s.ref[q] + One(q \notin GapRings) = One(q \in w) + 1 + One(s.fake = q)
  <2>1. One(q \in s.named) = 1
    BY DEF One
  <2>2. QED
    BY <1>1, <2>1 DEF SingularOK
<1>7. ASSUME NEW p \in t.alive
      PROVE  t.ref[p] + One(p \notin GapRings) =
               One(p \in w) + One(p \in t.named) + One(t.fake = p)
  <2>1. p \in s.alive /\ p \in Rings
    BY <1>2, <1>3, <1>7
  <2>2. CASE p = q
    <3>1. t.ref[q] = s.ref[q] - 1
      BY <1>2, <1>7, <2>2
    <3>2. One(q \in t.named) = 0
      BY <1>2 DEF One
    <3>3. One(q \notin GapRings) \in Int /\ One(q \in w) \in Int /\ One(s.fake = q) \in Int
      BY DEF One
    <3>4. t.ref[q] + One(q \notin GapRings) = One(q \in w) + 0 + One(s.fake = q)
      BY <1>2, <1>6, <3>1, <3>3
    <3>5. QED
      BY <1>2, <2>2, <3>2, <3>4
  <2>3. CASE p # q
    <3>1. t.ref[p] = s.ref[p] /\ (p \in t.named) = (p \in s.named)
      BY <1>2, <2>1, <2>3
    <3>2. s.ref[p] + One(p \notin GapRings) =
               One(p \in w) + One(p \in s.named) + One(s.fake = p)
      BY <2>1 DEF SingularOK
    <3>3. One(p \in t.named) = One(p \in s.named)
      BY <3>1 DEF One
    <3>4. QED
      BY <1>2, <3>1, <3>2, <3>3
  <2>4. QED
    BY <2>2, <2>3
<1>8. t.curr # NoRing => t.curr \in t.alive
  BY <1>1, <1>2 DEF SingularOK
<1>9. t.hdl = Fake => t.fake # NoRing
  BY <1>1, <1>2, <1>5, Sentinels DEF SingularOK
<1>10. t.hdl \in Rings => t.hdl \in t.named
  BY <1>1, <1>2, <1>5, Sentinels DEF SingularOK
<1>11. t.fake # NoRing => t.fake \in t.alive
  BY <1>2, <1>4 DEF SingularOK
<1>12. t.named \subseteq t.alive /\ w \subseteq t.alive
  BY <1>2, <1>3, <1>4
<1>13. ASSUME s.curr # NoRing, HandleOfCurr(s)
       PROVE  (s.hdl = Fake /\ s.fake = s.curr) \/ s.hdl = s.curr
  BY <1>13 DEF HandleOfCurr, IDRING
<1>14. ASSUME t.fake # NoRing, t.curr = t.fake, t.fake \notin w \cup t.named
       PROVE  t.hdl = Fake
  <2>1. s.curr = s.fake /\ s.fake # NoRing /\ s.fake \notin w
    BY <1>2, <1>14
  <2>2. CASE s.fake = q
    <3>1. s.hdl = Fake \/ s.hdl = q
      BY <1>13, <2>1, <2>2 DEF HandleOrWrapper
    <3>2. ~(s.ref[q] <= 0)
      BY <1>4, <2>2
    <3>3. QED
      BY <1>1, <1>2, <1>5, <2>2, <3>1, <3>2
  <2>3. CASE s.fake # q
    <3>1. s.fake \notin s.named
      BY <1>2, <1>14, <2>3
    <3>2. s.hdl = Fake
      BY <2>1, <3>1 DEF SingularOK
    <3>3. QED
      BY <1>1, <1>2, <3>2
  <2>4. QED
    BY <2>2, <2>3
<1>15. SingularOK(t, w)
  BY <1>2, <1>3, <1>7, <1>8, <1>9, <1>10, <1>11, <1>12, <1>14 DEF SingularOK
<1>16. ASSUME t.curr # NoRing, t.curr \notin w
       PROVE  HandleOfCurr(t)
  <2>1. t.curr = s.curr /\ s.curr # NoRing /\ ~(s.ref[q] <= 0 /\ s.curr = q)
    BY <1>2, <1>16
  <2>2. HandleOfCurr(s)
    BY <1>16, <2>1 DEF HandleOrWrapper
  <2>3. (s.hdl = Fake /\ s.fake = s.curr) \/ s.hdl = s.curr
    BY <1>13, <2>1, <2>2
  <2>4. CASE s.hdl # q
    <3>1. t.hdl = s.hdl /\ t.fake = s.fake
      BY <1>2, <2>4
    <3>2. QED
      BY <2>1, <2>2, <3>1 DEF HandleOfCurr, IDRING
  <2>5. CASE s.hdl = q
    <3>1. s.curr = q /\ q \notin w /\ ~(s.ref[q] <= 0)
      BY <1>1, <1>16, <2>1, <2>3, <2>5
    <3>2. s.fake = q
      <4>1. SUFFICES ASSUME s.fake # q PROVE FALSE
        OBVIOUS
      <4>2. One(q \notin GapRings) = 1 /\ One(q \in w) = 0 /\ One(s.fake = q) = 0
        BY <1>3, <3>1, <4>1 DEF One
      <4>3. QED
        BY <1>2, <1>6, <3>1, <4>2
    <3>3. t.hdl = Fake /\ t.fake = q /\ t.curr = q
      BY <1>2, <1>5, <2>1, <2>5, <3>1, <3>2
    <3>4. QED
      BY <3>3, Sentinels DEF HandleOfCurr, IDRING
  <2>6. QED
    BY <2>4, <2>5
<1>17. HandleOrWrapper(t, w)
  BY <1>16 DEF HandleOrWrapper
<1>18. QED
  BY <1>2, <1>15, <1>17 DEF t

(***************************************************************************)
(* The other steps of Singular: the current ring changes, the fake         *)
(* identifier is entered and killed, a string declares or chooses a ring,  *)
(* rings get a wrapper.                                                    *)
(***************************************************************************)
LEMMA CurrChanged ==
  ASSUME NEW s, NEW w, SingularOK(s, w), NEW q \in w \cup {NoRing}
  PROVE  /\ SingularOK(rChangeCurrRing(s, q), w)
         /\ rChangeCurrRing(s, q).curr = q /\ rChangeCurrRing(s, q).fake = s.fake
         /\ rChangeCurrRing(s, q).hdl = s.hdl
         /\ rChangeCurrRing(s, q).alive = s.alive
<1> DEFINE t == rChangeCurrRing(s, q)
<1>1. s \in Singular /\ w \subseteq s.alive /\ s.alive \subseteq Rings
  BY Fields DEF SingularOK
<1>2. /\ t.curr = q /\ t.hdl = s.hdl /\ t.fake = s.fake /\ t.named = s.named
      /\ t.ref = s.ref /\ t.alive = s.alive
  BY <1>1 DEF rChangeCurrRing, Singular
<1>3. t \in Singular
  BY <1>1 DEF rChangeCurrRing, Singular
<1> HIDE DEF t
<1>4. t.curr # NoRing => t.curr \in w /\ t.curr \in t.alive
  BY <1>1, <1>2
<1>5. ~(t.fake # NoRing /\ t.curr = t.fake /\ t.fake \notin w \cup t.named)
  BY <1>4
<1>6. \A p \in t.alive :
       t.ref[p] + One(p \notin GapRings) =
         One(p \in w) + One(p \in t.named) + One(t.fake = p)
  BY <1>2 DEF SingularOK
<1>7. SingularOK(t, w)
  BY <1>2, <1>3, <1>4, <1>5, <1>6 DEF SingularOK
<1>8. QED
  BY <1>2, <1>7 DEF t

LEMMA FakeEntered ==
  ASSUME NEW s, NEW w, SingularOK(s, w), s.curr # NoRing, HandleStale(s)
  PROVE  /\ SingularOK(EnterFake(s), w)
         /\ EnterFake(s).curr = s.curr /\ EnterFake(s).fake = s.curr
         /\ HandleOfCurr(EnterFake(s))
<1> DEFINE c == s.curr
           u == EnterFake(s)
<1> PICK t : t = enterid(s)
  OBVIOUS
<1>1. SingularOK(t, w) /\ t.fake = NoRing /\ t.curr = c
  <2>1. CASE s.fake = NoRing
    BY <2>1 DEF enterid
  <2>2. CASE s.fake # NoRing
    <3>1. t = killhdl(s, Fake)
      BY <2>2 DEF enterid
    <3>2. SingularOK(t, w) /\ t.fake = NoRing
          /\ (t.curr = s.curr \/ (s.fake \notin w \cup s.named /\ s.curr = s.fake))
      <4>1. /\ SingularOK(killhdl(s, Fake), w)
            /\ killhdl(s, Fake).fake = NoRing
            /\ \/ killhdl(s, Fake).curr = s.curr
               \/ s.fake \notin w \cup s.named /\ s.curr = s.fake
        BY <2>2, FakeKilled
      <4>2. QED
        BY <3>1, <4>1
    <3>3. ASSUME s.fake \notin w \cup s.named, s.curr = s.fake PROVE FALSE
      <4>1. s.hdl = Fake
        BY <2>2, <3>3 DEF SingularOK
      <4>2. QED
        BY <3>3, <4>1, Sentinels DEF HandleStale, IDRING
    <3>4. QED
      BY <3>2, <3>3
  <2>3. QED
    BY <2>1, <2>2
<1>2. t \in Singular /\ c \in t.alive /\ t.alive \subseteq Rings /\ w \subseteq t.alive
      /\ t.named \subseteq t.alive
  BY <1>1, Fields DEF SingularOK
<1>3. u = [t EXCEPT !.fake = c, !.hdl = Fake, !.ref[c] = @ + 1]
  BY <1>1 DEF EnterFake
<1>4. /\ u.curr = c /\ u.hdl = Fake /\ u.fake = c /\ u.named = t.named
      /\ u.alive = t.alive /\ u.ref = [t.ref EXCEPT ![c] = @ + 1]
  <2>1. u = [[[t EXCEPT !.fake = c] EXCEPT !.hdl = Fake]
               EXCEPT !.ref = [t.ref EXCEPT ![c] = @ + 1]]
    BY <1>2, <1>3 DEF Singular
  <2>2. QED
    BY <1>1, <1>2, <2>1 DEF Singular
<1>5. t.ref \in [Rings -> Int] /\ c \in Rings
  BY <1>2, Fields
<1>6. u.ref \in [Rings -> Int] /\ u.ref[c] = t.ref[c] + 1
      /\ \A p \in Rings \ {c} : u.ref[p] = t.ref[p]
  BY <1>4, <1>5
<1>7. u \in Singular
  <2>1. u = [curr |-> t.curr, hdl |-> Fake, fake |-> c, named |-> t.named,
             ref |-> u.ref, alive |-> t.alive]
    BY <1>2, <1>3, <1>4 DEF Singular
  <2>2. QED
    BY <1>2, <1>5, <1>6, <2>1, Fields DEF Singular, Handle
<1> HIDE DEF u
<1>8. ASSUME NEW p \in u.alive
      PROVE  u.ref[p] + One(p \notin GapRings) =
               One(p \in w) + One(p \in u.named) + One(u.fake = p)
  <2>1. t.ref[p] + One(p \notin GapRings) =
               One(p \in w) + One(p \in t.named) + One(t.fake = p)
    BY <1>1, <1>4 DEF SingularOK
  <2>2. One(t.fake = p) = 0 /\ p \in Rings
    BY <1>1, <1>2, <1>4, Sentinels DEF One
  <2>3. CASE p = c
    <3>1. One(u.fake = p) = 1
      BY <1>4, <2>3 DEF One
    <3>2. One(p \notin GapRings) \in Int /\ One(p \in w) \in Int
          /\ One(p \in t.named) \in Int /\ t.ref[c] \in Int
      BY <1>5 DEF One
    <3>3. QED
      BY <1>4, <1>6, <2>1, <2>2, <2>3, <3>1, <3>2
  <2>4. CASE p # c
    <3>1. One(u.fake = p) = 0
      BY <1>4, <2>4 DEF One
    <3>2. QED
      BY <1>4, <1>6, <2>1, <2>2, <2>4, <3>1
  <2>5. QED
    BY <2>3, <2>4
<1>9. SingularOK(u, w)
  <2>1. GapRings \subseteq w
    BY <1>1 DEF SingularOK
  <2>2. c # NoRing /\ Fake \notin Rings
    BY Sentinels
  <2>3. QED
    BY <1>2, <1>4, <1>7, <1>8, <2>1, <2>2 DEF SingularOK
<1>10. HandleOfCurr(u)
  BY <1>4, Sentinels DEF HandleOfCurr, IDRING
<1>11. QED
  BY <1>4, <1>9, <1>10 DEF u

LEMMA FakeGone ==
  ASSUME NEW s, NEW w, SingularOK(s, w), s.fake # NoRing
  PROVE  SingularOK(KillFake(s), w) /\ KillFake(s).fake = NoRing
<1> PICK t : t = killhdl(s, Fake)
  OBVIOUS
<1> DEFINE u == KillFake(s)
<1>1. SingularOK(t, w) /\ t.fake = NoRing /\ t \in Singular
  BY FakeKilled DEF SingularOK
<1>2. u = [t EXCEPT !.hdl = NULL]
  BY DEF KillFake
<1>3. /\ u.curr = t.curr /\ u.hdl = NULL /\ u.fake = t.fake /\ u.named = t.named
      /\ u.ref = t.ref /\ u.alive = t.alive /\ u \in Singular
  BY <1>1, <1>2 DEF Singular, Handle
<1> HIDE DEF u
<1>4. \A p \in u.alive :
       u.ref[p] + One(p \notin GapRings) =
         One(p \in w) + One(p \in u.named) + One(u.fake = p)
  BY <1>1, <1>3 DEF SingularOK
<1>5. NULL # Fake /\ NULL \notin Rings
  BY Sentinels
<1>6. SingularOK(u, w)
  BY <1>1, <1>3, <1>4, <1>5 DEF SingularOK
<1>7. QED
  BY <1>1, <1>3, <1>6 DEF u

Counted(s, n) ==
  [s EXCEPT !.ref = [q \in Rings |-> IF q \in n THEN @[q] + 1 ELSE @[q]]]

LEMMA RingsWrapped ==
  ASSUME NEW s, NEW w, SingularOK(s, w), NEW n, n \subseteq s.alive, n \cap w = {},
         NEW t, t = Counted(s, n)
  PROVE  SingularOK(t, w \cup n) /\ t.curr = s.curr /\ t.hdl = s.hdl
         /\ t.fake = s.fake /\ t.alive = s.alive
<1>1. s \in Singular /\ s.alive \subseteq Rings /\ s.ref \in [Rings -> Int]
  BY Fields DEF SingularOK
<1> DEFINE ref == [q \in Rings |-> IF q \in n THEN s.ref[q] + 1 ELSE s.ref[q]]
<1>2. ref \in [Rings -> Int]
      /\ \A p \in Rings : ref[p] = IF p \in n THEN s.ref[p] + 1 ELSE s.ref[p]
  <2>1. ASSUME NEW p \in Rings PROVE (IF p \in n THEN s.ref[p] + 1 ELSE s.ref[p]) \in Int
    <3>1. s.ref[p] \in Int
      BY <1>1, <2>1
    <3>2. QED
      BY <3>1
  <2>2. QED
    BY <2>1
<1>3. t = [s EXCEPT !.ref = ref]
  BY DEF Counted
<1> HIDE DEF ref
<1>4. /\ t.curr = s.curr /\ t.hdl = s.hdl /\ t.fake = s.fake /\ t.named = s.named
      /\ t.alive = s.alive /\ t.ref = ref /\ t \in Singular
  BY <1>1, <1>2, <1>3 DEF Singular
<1>5. ASSUME NEW p \in t.alive
      PROVE  t.ref[p] + One(p \notin GapRings) =
               One(p \in w \cup n) + One(p \in t.named) + One(t.fake = p)
  <2>1. s.ref[p] + One(p \notin GapRings) =
               One(p \in w) + One(p \in s.named) + One(s.fake = p)
    BY <1>4, <1>5 DEF SingularOK
  <2>2. p \in Rings /\ s.ref[p] \in Int
    BY <1>1, <1>4, <1>5
  <2>3. CASE p \in n
    <3>1. One(p \in w) = 0 /\ One(p \in w \cup n) = 1 /\ t.ref[p] = s.ref[p] + 1
      BY <1>2, <1>4, <2>2, <2>3 DEF One
    <3>2. One(p \notin GapRings) \in Int /\ One(p \in s.named) \in Int
          /\ One(s.fake = p) \in Int
      BY DEF One
    <3>3. QED
      BY <1>4, <2>1, <2>2, <3>1, <3>2
  <2>4. CASE p \notin n
    <3>1. One(p \in w) = One(p \in w \cup n) /\ t.ref[p] = s.ref[p]
      BY <1>2, <1>4, <2>2, <2>4 DEF One
    <3>2. QED
      BY <1>4, <2>1, <3>1
  <2>5. QED
    BY <2>3, <2>4
<1>6. SingularOK(t, w \cup n)
  BY <1>4, <1>5 DEF SingularOK
<1>7. QED
  BY <1>4, <1>6

Declared(s, q) ==
  [s EXCEPT !.alive = @ \cup {q}, !.named = @ \cup {q}, !.ref[q] = 0,
            !.curr = q, !.hdl = q]

LEMMA RingDeclared ==
  ASSUME NEW s, NEW w, SingularOK(s, w), NEW q \in Rings,
         q \notin s.alive \cup GapRings,
         NEW t, t = Declared(s, q)
  PROVE  SingularOK(t, w) /\ HandleOfCurr(t) /\ t.fake = s.fake
         /\ t.alive = s.alive \cup {q}
<1>1. s \in Singular /\ s.alive \subseteq Rings /\ s.ref \in [Rings -> Int]
      /\ s.named \subseteq s.alive /\ w \subseteq s.alive /\ GapRings \subseteq w
      /\ q # NoRing /\ q # Fake /\ q # NULL
  BY Fields, Sentinels DEF SingularOK
<1> DEFINE ref == [s.ref EXCEPT ![q] = 0]
<1>2. ref \in [Rings -> Int] /\ ref[q] = 0 /\ \A p \in Rings \ {q} : ref[p] = s.ref[p]
  BY <1>1
<1>3. t = [s EXCEPT !.alive = @ \cup {q}, !.named = @ \cup {q},
                    !.ref = ref, !.curr = q, !.hdl = q]
  BY <1>1 DEF Declared, Singular
<1> HIDE DEF ref
<1>4. /\ t.curr = q /\ t.hdl = q /\ t.fake = s.fake /\ t.named = s.named \cup {q}
      /\ t.alive = s.alive \cup {q} /\ t.ref = ref
  BY <1>1, <1>3 DEF Singular
<1>5. t \in Singular
  <2>1. t = [curr |-> q, hdl |-> q, fake |-> s.fake, named |-> s.named \cup {q},
             ref |-> ref, alive |-> s.alive \cup {q}]
    BY <1>1, <1>3 DEF Singular
  <2>2. s.named \cup {q} \subseteq Rings /\ s.alive \cup {q} \subseteq Rings
        /\ s.fake \in Rings \cup {NoRing}
    BY <1>1, Fields
  <2>3. QED
    BY <1>2, <2>1, <2>2 DEF Singular, Handle
<1>6. s.fake # q /\ q \notin w
  BY <1>1 DEF SingularOK
<1>7. ASSUME NEW p \in t.alive
      PROVE  t.ref[p] + One(p \notin GapRings) =
               One(p \in w) + One(p \in t.named) + One(t.fake = p)
  <2>1. CASE p = q
    <3>1. One(q \notin GapRings) = 1 /\ One(q \in w) = 0 /\ One(q \in t.named) = 1
          /\ One(t.fake = q) = 0
      BY <1>4, <1>6 DEF One
    <3>2. QED
      BY <1>2, <1>4, <2>1, <3>1
  <2>2. CASE p # q
    <3>1. p \in s.alive /\ t.ref[p] = s.ref[p]
      BY <1>1, <1>2, <1>4, <1>7, <2>2
    <3>2. s.ref[p] + One(p \notin GapRings) =
               One(p \in w) + One(p \in s.named) + One(s.fake = p)
      BY <3>1 DEF SingularOK
    <3>3. One(p \in s.named) = One(p \in t.named)
      BY <1>4, <2>2 DEF One
    <3>4. QED
      BY <1>4, <3>1, <3>2, <3>3
  <2>3. QED
    BY <2>1, <2>2
<1>8. t.fake # NoRing => t.fake \in t.alive /\ t.curr # t.fake
  BY <1>4, <1>6 DEF SingularOK
<1>9. SingularOK(t, w)
  BY <1>1, <1>4, <1>5, <1>7, <1>8 DEF SingularOK
<1>10. QED
  BY <1>1, <1>4, <1>9 DEF HandleOfCurr, IDRING

LEMMA RingChosen ==
  ASSUME NEW s, NEW w, SingularOK(s, w), NEW q \in s.named,
         NEW t, t = [s EXCEPT !.curr = q, !.hdl = q]
  PROVE  SingularOK(t, w) /\ HandleOfCurr(t) /\ t.fake = s.fake /\ t.alive = s.alive
<1>1. s \in Singular /\ s.named \subseteq s.alive /\ q \in Rings
      /\ q # NoRing /\ q # Fake /\ q # NULL
  BY Fields, Sentinels DEF SingularOK
<1>2. /\ t.curr = q /\ t.hdl = q /\ t.fake = s.fake /\ t.named = s.named
      /\ t.alive = s.alive /\ t.ref = s.ref /\ t \in Singular
  BY <1>1 DEF Singular, Handle
<1>3. \A p \in t.alive :
       t.ref[p] + One(p \notin GapRings) =
         One(p \in w) + One(p \in t.named) + One(t.fake = p)
  BY <1>2 DEF SingularOK
<1>4. SingularOK(t, w)
  BY <1>1, <1>2, <1>3 DEF SingularOK
<1>5. QED
  BY <1>1, <1>2, <1>4 DEF HandleOfCurr, IDRING

(***************************************************************************)
(* The temporary objects of the arguments.                                 *)
(***************************************************************************)
LEMMA NoTemps == TempsIn(<<>>) = 0
  BY FS_EmptySet DEF TempsIn

LEMMA TempsAppended ==
  ASSUME NEW s \in Seq(Arg), NEW a \in Arg
  PROVE  /\ TempsIn(s) \in Nat
         /\ TempsIn(Append(s, a)) = IF a.kind = "temp" THEN TempsIn(s) + 1
                                    ELSE TempsIn(s)
<1> DEFINE T(u) == {i \in 1..Len(u) : u[i].kind = "temp"}
<1>1. IsFiniteSet(T(s))
  <2>1. IsFiniteSet(1..Len(s))
    BY FS_Interval
  <2>2. QED
    BY <2>1, FS_Subset
<1>2. Cardinality(T(s)) \in Nat
  BY <1>1, FS_CardinalityType
<1>3. Len(Append(s, a)) = Len(s) + 1 /\ Append(s, a)[Len(s) + 1] = a
      /\ \A i \in 1..Len(s) : Append(s, a)[i] = s[i]
  OBVIOUS
<1>4. Len(s) \in Nat
  OBVIOUS
<1>5. T(Append(s, a)) = IF a.kind = "temp" THEN T(s) \cup {Len(s) + 1} ELSE T(s)
  BY <1>3, <1>4
<1>6. Len(s) + 1 \notin T(s)
  BY <1>4
<1>7. Cardinality(T(s) \cup {Len(s) + 1}) = Cardinality(T(s)) + 1
  BY <1>1, <1>6, FS_AddElement
<1>8. QED
  BY <1>2, <1>5, <1>7 DEF TempsIn

-----------------------------------------------------------------------------
(***************************************************************************)
(* The initial states.                                                     *)
(***************************************************************************)
LEMMA Initially == Init => IInv
<1> SUFFICES ASSUME Init PROVE IInv
  OBVIOUS
<1>1. /\ sg.curr = NoRing /\ sg.hdl = NULL /\ sg.fake = NoRing /\ sg.named = {}
      /\ sg.ref = [q \in Rings |-> IF q \in GapRings THEN 1 ELSE 0]
      /\ sg.alive = GapRings /\ sg \in Singular /\ wrapped = GapRings
  BY Sentinels DEF Init, Singular, Handle
<1>2. ASSUME NEW q \in sg.alive
      PROVE  sg.ref[q] + One(q \notin GapRings) =
               One(q \in wrapped) + One(q \in sg.named) + One(sg.fake = q)
  <2>1. q \in GapRings /\ q \in Rings /\ q # NoRing
    BY <1>1, <1>2, Sentinels
  <2>2. One(q \notin GapRings) = 0 /\ One(q \in wrapped) = 1
        /\ One(q \in sg.named) = 0 /\ One(sg.fake = q) = 0 /\ sg.ref[q] = 1
    BY <1>1, <2>1 DEF One
  <2>3. QED
    BY <2>2
<1>3. SingularOK(sg, wrapped)
  BY <1>1, <1>2, Sentinels DEF SingularOK
<1>4. TypeOK
  <2>1. <<>> \in Seq(Arg) /\ <<>> \in Seq(Result) /\ Len(<<>>) = 0
    OBVIOUS
  <2>2. sing = <<>> /\ results = <<>>
    BY DEF Init
  <2>3. sing \in Seq(Arg) /\ results \in Seq(Result) /\ Len(sing) <= MaxArgs
    BY <2>1, <2>2, BoundsAssumption
  <2>4. slots \in [1..MaxArgs -> Arg \cup {Empty}] /\ temps \in 0..MaxTemps
    BY BoundsAssumption DEF Init
  <2>5. wrapped \subseteq Rings
    BY <1>1, Sentinels
  <2>6. QED
    BY <1>1, <2>3, <2>4, <2>5 DEF Init, TypeOK
<1>5. SlotsOfArgs
  BY BoundsAssumption DEF Init, SlotsOfArgs
<1>6. TempsOfArgs
  BY NoTemps DEF Init, TempsOfArgs
<1>7. HandleInCall /\ FakeOfCall /\ Stack
  BY <1>1 DEF Init, HandleInCall, FakeOfCall, Stack
<1>8. RingsOfCall
  BY DEF Init, RingsOfCall
<1>9. ResultHasRing
  BY DEF Init, ResultHasRing, Empty
<1>10. QED
  BY <1>3, <1>4, <1>5, <1>6, <1>7, <1>8, <1>9 DEF IInv

(***************************************************************************)
(* The end of a call.  The cleanup of the arguments resets all slots, the  *)
(* arguments' and, unless an earlier call was left by ErrorQuit, the rest. *)
(***************************************************************************)
LEMMA CleanedUp ==
  ASSUME IInv
  PROVE  /\ ResetSlots \in [1..MaxArgs -> Arg \cup {Empty}]
         /\ ~escaped => \A i \in 1..MaxArgs : ResetSlots[i] = Empty
         /\ temps - TempsIn(sing) \in 0..MaxTemps
         /\ ~escaped => temps - TempsIn(sing) = 0
<1>1. slots \in [1..MaxArgs -> Arg \cup {Empty}] /\ sing \in Seq(Arg)
      /\ temps \in 0..MaxTemps /\ MaxTemps \in Nat
  BY BoundsAssumption DEF IInv, TypeOK
<1>2. ResetSlots \in [1..MaxArgs -> Arg \cup {Empty}]
  BY <1>1 DEF ResetSlots
<1>3. ASSUME ~escaped, NEW i \in 1..MaxArgs PROVE ResetSlots[i] = Empty
  BY <1>3 DEF ResetSlots, IInv, SlotsOfArgs
<1>4. TempsIn(sing) \in Nat
  <2>1. CASE Arg = {}
    <3>1. sing = <<>>
      BY <1>1, <2>1
    <3>2. QED
      BY <3>1, NoTemps
  <2>2. CASE Arg # {}
    BY <1>1, <2>2, TempsAppended
  <2>3. QED
    BY <2>1, <2>2
<1>5. temps >= TempsIn(sing) /\ (~escaped => temps = TempsIn(sing))
  BY DEF IInv, TempsOfArgs
<1>6. QED
  BY <1>1, <1>2, <1>3, <1>4, <1>5

LEMMA InGap ==
  ASSUME IInv, BackToGap, UNCHANGED wrapped,
         SingularOK(sg', wrapped),
         slots' \in [1..MaxArgs -> Arg \cup {Empty}],
         temps' \in 0..MaxTemps, escaped' \in BOOLEAN,
         ~escaped' => /\ \A i \in 1..MaxArgs : slots'[i] = Empty
                      /\ temps' = 0
                      /\ sg'.fake = NoRing
  PROVE  IInv'
<1>1. /\ pc' = "gap" /\ op' = "none" /\ r' = NoRing /\ sing' = <<>>
      /\ tmpHdl' = FALSE /\ results' = <<>> /\ made' = Empty /\ wrapped' = wrapped
  BY DEF BackToGap
<1>2. wrapped \subseteq Rings
  BY DEF IInv, TypeOK
<1>3. TypeOK'
  <2>1. <<>> \in Seq(Arg) /\ <<>> \in Seq(Result) /\ Len(<<>>) = 0
    OBVIOUS
  <2>2. sing' \in Seq(Arg) /\ results' \in Seq(Result) /\ Len(sing') <= MaxArgs
    BY <1>1, <2>1, BoundsAssumption
  <2>3. sg' \in Singular
    BY DEF SingularOK
  <2>4. QED
    BY <1>1, <1>2, <2>2, <2>3 DEF TypeOK
<1>4. SingularOK(sg, wrapped)'
  BY <1>1
<1>5. SlotsOfArgs'
  BY <1>1, BoundsAssumption DEF SlotsOfArgs
<1>6. TempsOfArgs'
  <2>1. TempsIn(sing') = 0
    BY <1>1, NoTemps
  <2>2. QED
    BY <2>1, BoundsAssumption DEF TempsOfArgs
<1>7. HandleInCall' /\ FakeOfCall' /\ Stack'
  BY <1>1 DEF HandleInCall, FakeOfCall, Stack
<1>8. RingsOfCall'
  BY <1>1 DEF RingsOfCall
<1>9. ResultHasRing'
  BY <1>1 DEF ResultHasRing, Empty
<1>10. QED
  BY <1>3, <1>4, <1>5, <1>6, <1>7, <1>8, <1>9 DEF IInv

LEMMA Destroyed ==
  ASSUME IInv, Destructors, UNCHANGED <<wrapped, escaped>>
  PROVE  IInv'
<1>1. /\ sg' = IF tmpHdl THEN KillFake(sg) ELSE sg
      /\ slots' = ResetSlots /\ temps' = temps - TempsIn(sing) /\ BackToGap
      /\ wrapped' = wrapped /\ escaped' = escaped
  BY DEF Destructors
<1>2. SingularOK(sg, wrapped) /\ FakeOfCall /\ escaped \in BOOLEAN
  BY DEF IInv, TypeOK
<1>3. SingularOK(sg', wrapped) /\ (~escaped => sg'.fake = NoRing)
  <2>1. CASE tmpHdl
    <3>1. sg.fake # NoRing
      BY <1>2, <2>1 DEF FakeOfCall
    <3>2. QED
      BY <1>1, <1>2, <2>1, <3>1, FakeGone
  <2>2. CASE ~tmpHdl
    BY <1>1, <1>2, <2>2 DEF FakeOfCall
  <2>3. QED
    BY <2>1, <2>2
<1>4. QED
  BY <1>1, <1>2, <1>3, CleanedUp, InGap

LEMMA Refusing ==
  ASSUME IInv, NEW a \in BadArg, ArgError(a)
  PROVE  IInv'
<1>1. /\ pc = "init" /\ a.ring \in wrapped \cup {NoRing} /\ SetRing(a)
      /\ slots' = ResetSlots /\ temps' = temps - TempsIn(sing) /\ BackToGap
      /\ wrapped' = wrapped /\ escaped' = escaped
  BY DEF ArgError
<1>2. SingularOK(sg, wrapped) /\ FakeOfCall /\ Stack /\ escaped \in BOOLEAN
  BY DEF IInv, TypeOK
<1>3. sg' = sg \/ sg' = rChangeCurrRing(sg, a.ring)
  BY <1>1 DEF SetRing
<1>4. SingularOK(sg', wrapped) /\ sg'.fake = sg.fake
  BY <1>1, <1>2, <1>3, CurrChanged
<1>5. ~escaped => sg.fake = NoRing
  BY <1>1, <1>2 DEF FakeOfCall, Stack
<1>6. QED
  BY <1>1, <1>2, <1>4, <1>5, CleanedUp, InGap

LEMMA Escaping ==
  ASSUME IInv, WrapError
  PROVE  IInv'
<1>1. /\ BackToGap /\ sg' = sg /\ slots' = slots /\ wrapped' = wrapped
      /\ temps' = temps /\ escaped' = (escaped \/ sing # <<>> \/ tmpHdl)
  BY DEF WrapError
<1>2. SingularOK(sg, wrapped) /\ TypeOK
  BY DEF IInv
<1>3. escaped' \in BOOLEAN
  BY <1>1
<1>4. ASSUME ~escaped'
      PROVE  (\A i \in 1..MaxArgs : slots'[i] = Empty) /\ temps' = 0
             /\ sg'.fake = NoRing
  <2>1. ~escaped /\ sing = <<>> /\ ~tmpHdl
    BY <1>1, <1>4
  <2>2. TempsIn(sing) = 0
    BY <2>1, NoTemps
  <2>3. temps' = 0
    BY <1>1, <2>1, <2>2 DEF IInv, TempsOfArgs
  <2>4. sg'.fake = NoRing
    BY <1>1, <2>1 DEF IInv, FakeOfCall
  <2>5. Len(sing) = 0
    BY <2>1
  <2>6. \A i \in 1..MaxArgs : slots'[i] = Empty
    BY <1>1, <2>1, <2>5 DEF IInv, SlotsOfArgs
  <2>7. QED
    BY <2>3, <2>4, <2>6
<1>5. slots' \in [1..MaxArgs -> Arg \cup {Empty}] /\ temps' \in 0..MaxTemps
  BY <1>1, <1>2 DEF TypeOK
<1>6. QED
  BY <1>1, <1>2, <1>3, <1>4, <1>5, InGap

(***************************************************************************)
(* A step that leaves the arguments and their slots alone.                 *)
(***************************************************************************)
LEMMA ArgsKept ==
  ASSUME IInv, UNCHANGED <<slots, temps, sing, escaped>>
  PROVE  SlotsOfArgs' /\ TempsOfArgs'
  BY DEF IInv, SlotsOfArgs, TempsOfArgs

LEMMA Calling ==
  ASSUME IInv, (\E q \in Rings \cup {NoRing} : CallFunc(q)) \/ CallProc
  PROVE  IInv'
<1>1. /\ pc = "gap" /\ pc' = "init" /\ op' \in {"func", "proc"}
      /\ slots' = slots /\ wrapped' = wrapped /\ temps' = temps /\ sing' = sing
      /\ tmpHdl' = tmpHdl /\ results' = results /\ made' = made /\ escaped' = escaped
  BY DEF CallFunc, CallProc
<1>2. sing = <<>> /\ ~tmpHdl /\ results = <<>> /\ r = NoRing
  BY <1>1 DEF IInv, Stack
<1>3. SingularOK(sg', wrapped) /\ sg'.fake = sg.fake /\ r' \in wrapped \cup {NoRing}
  <2>1. SingularOK(sg, wrapped)
    BY DEF IInv
  <2>2. ASSUME NEW q \in Rings \cup {NoRing}, CallFunc(q)
        PROVE  SingularOK(sg', wrapped) /\ sg'.fake = sg.fake
               /\ r' \in wrapped \cup {NoRing}
    BY <2>1, <2>2, CurrChanged DEF CallFunc
  <2>3. ASSUME CallProc
        PROVE  SingularOK(sg', wrapped) /\ sg'.fake = sg.fake
               /\ r' \in wrapped \cup {NoRing}
    BY <1>2, <2>1, <2>3 DEF CallProc
  <2>4. QED
    BY <2>2, <2>3
<1>4. TypeOK'
  BY <1>1, <1>3 DEF IInv, TypeOK, SingularOK
<1>5. SlotsOfArgs' /\ TempsOfArgs'
  BY <1>1, ArgsKept
<1>6. HandleInCall' /\ FakeOfCall' /\ Stack'
  BY <1>1, <1>2, <1>3 DEF IInv, HandleInCall, FakeOfCall, Stack
<1>7. RingsOfCall'
  <2>1. Len(sing') = 0 /\ Len(results') = 0
    BY <1>1, <1>2
  <2>2. \A q \in Rings : ~ArgsOfRing(q)'
    BY <2>1 DEF ArgsOfRing
  <2>3. QED
    BY <1>1, <1>3, <2>1, <2>2 DEF RingsOfCall
<1>8. ResultHasRing'
  BY <1>1 DEF IInv, ResultHasRing
<1>9. QED
  BY <1>1, <1>3, <1>4, <1>5, <1>6, <1>7, <1>8 DEF IInv

LEMMA ArgFields ==
  ASSUME NEW a \in Arg
  PROVE  /\ a.kind \in {"plain", "temp", "ringless", "object", "ring"}
         /\ a.ring \in Rings \cup {NoRing}
         /\ a.kind \in {"object", "ring"} => a.ring \in Rings
         /\ a.kind \notin {"object", "ring"} => a.ring = NoRing
  BY DEF Arg

LEMMA Passing ==
  ASSUME IInv, NEW a \in Arg, InitArg(a)
  PROVE  IInv'
<1> DEFINE n == Len(sing)
<1>1. /\ pc = "init" /\ n < MaxArgs /\ a.ring \in wrapped \cup {NoRing}
      /\ a.kind = "temp" => temps < MaxTemps
      /\ temps' = IF a.kind = "temp" THEN temps + 1 ELSE temps
      /\ SetRing(a)
      /\ r' = IF a.kind \in {"object", "ringless", "ring"} THEN a.ring ELSE r
      /\ slots' = [slots EXCEPT ![n + 1] = a]
      /\ sing' = Append(sing, a)
      /\ wrapped' = wrapped /\ pc' = pc /\ op' = op /\ tmpHdl' = tmpHdl
      /\ results' = results /\ made' = made /\ escaped' = escaped
  BY DEF InitArg, FillSlot
<1>2. TypeOK /\ SingularOK(sg, wrapped) /\ Stack /\ FakeOfCall /\ RingsOfCall
      /\ SlotsOfArgs /\ TempsOfArgs
  BY DEF IInv
<1>3. sing \in Seq(Arg) /\ n \in Nat /\ slots \in [1..MaxArgs -> Arg \cup {Empty}]
      /\ MaxArgs \in Nat
  BY <1>2, BoundsAssumption DEF TypeOK
<1>4. sing' \in Seq(Arg) /\ Len(sing') = n + 1 /\ sing'[n + 1] = a
      /\ \A i \in 1..n : sing'[i] = sing[i]
  BY <1>1, <1>3
<1>5. /\ a.kind \in {"plain", "temp", "ringless", "object", "ring"}
      /\ a.kind \in {"object", "ring"} => a.ring \in Rings
      /\ a.kind \notin {"object", "ring"} => a.ring = NoRing
  BY ArgFields
<1>6. IF a.kind \in {"object", "ringless"} THEN sg' = rChangeCurrRing(sg, a.ring)
      ELSE sg' = sg
  BY <1>1, <1>5 DEF SetRing
<1>7. /\ SingularOK(sg', wrapped) /\ sg'.fake = sg.fake /\ sg'.alive = sg.alive
      /\ sg'.curr = IF a.kind \in {"object", "ringless"} THEN a.ring ELSE sg.curr
  <2>1. CASE a.kind \in {"object", "ringless"}
    BY <1>1, <1>2, <1>6, <2>1, CurrChanged
  <2>2. CASE a.kind \notin {"object", "ringless"}
    BY <1>2, <1>6, <2>2
  <2>3. QED
    BY <2>1, <2>2
<1>8. /\ slots' \in [1..MaxArgs -> Arg \cup {Empty}] /\ slots'[n + 1] = a
      /\ \A i \in 1..MaxArgs : i # n + 1 => slots'[i] = slots[i]
  BY <1>1, <1>3
<1>9. /\ TempsIn(sing) \in Nat
      /\ TempsIn(sing') = IF a.kind = "temp" THEN TempsIn(sing) + 1 ELSE TempsIn(sing)
  BY <1>1, <1>3, TempsAppended
<1>10. temps \in 0..MaxTemps /\ MaxTemps \in Nat
  BY <1>2, BoundsAssumption DEF TypeOK
<1>11. r' \in wrapped \cup {NoRing}
  BY <1>1, <1>2 DEF RingsOfCall
<1> HIDE DEF n
<1>12. TypeOK'
  <2>1. temps' \in 0..MaxTemps
    BY <1>1, <1>10
  <2>2. sg' \in Singular /\ Len(sing') <= MaxArgs
    BY <1>1, <1>3, <1>4, <1>7 DEF SingularOK
  <2>3. wrapped \subseteq Rings
    BY <1>2 DEF TypeOK
  <2>4. r' \in Rings \cup {NoRing}
    BY <1>11, <2>3
  <2>5. QED
    BY <1>1, <1>2, <1>4, <1>8, <2>1, <2>2, <2>3, <2>4 DEF TypeOK
<1>13. SlotsOfArgs'
  <2>1. SUFFICES ASSUME NEW i \in 1..MaxArgs
                 PROVE  IF i <= Len(sing') THEN slots'[i] = sing'[i]
                        ELSE ~escaped' => slots'[i] = Empty
    BY DEF SlotsOfArgs
  <2>2. IF i <= n THEN slots[i] = sing[i] ELSE ~escaped => slots[i] = Empty
    BY <1>2 DEF SlotsOfArgs, n
  <2>3. CASE i <= n
    BY <1>3, <1>4, <1>8, <2>2, <2>3
  <2>4. CASE i = n + 1
    BY <1>3, <1>4, <1>8, <2>4
  <2>5. CASE i > n + 1
    BY <1>1, <1>3, <1>4, <1>8, <2>2, <2>5
  <2>6. QED
    BY <1>3, <2>3, <2>4, <2>5
<1>14. TempsOfArgs'
  <2>1. temps >= TempsIn(sing) /\ (~escaped => temps = TempsIn(sing))
    BY <1>2 DEF TempsOfArgs
  <2>2. temps' >= TempsIn(sing') /\ (~escaped => temps' = TempsIn(sing'))
    BY <1>1, <1>9, <1>10, <2>1
  <2>3. QED
    BY <1>1, <2>2 DEF TempsOfArgs
<1>15. HandleInCall' /\ FakeOfCall' /\ Stack'
  BY <1>1, <1>2, <1>7 DEF HandleInCall, FakeOfCall, Stack
<1>16. RingsOfCall'
  <2>1. \A i \in 1..Len(sing') : sing'[i].ring \in wrapped' \cup {NoRing}
    <3>1. \A i \in 1..n : sing[i].ring \in wrapped \cup {NoRing}
      BY <1>2 DEF RingsOfCall, n
    <3>2. QED
      BY <1>1, <1>3, <1>4, <3>1
  <2>2. \A i \in 1..Len(results') :
          results'[i].kind = "ring" => results'[i].ring \in sg'.alive
    BY <1>1, <1>2, <1>7 DEF RingsOfCall
  <2>3. ASSUME NEW q \in Rings, ArgsOfRing(q)'
        PROVE  sg'.curr = q /\ r' = q
    <3>1. /\ \E i \in 1..n + 1 : sing'[i] = [kind |-> "object", ring |-> q]
          /\ \A i \in 1..n + 1 :
               sing'[i].kind \in {"plain", "temp"} \/ sing'[i].ring = q
      BY <1>4, <2>3 DEF ArgsOfRing
    <3>2. a.kind \in {"plain", "temp"} \/ a.ring = q
      BY <1>3, <1>4, <3>1
    <3>3. q # NoRing
      BY Sentinels
    <3>4. CASE a.kind = "object"
      BY <1>1, <1>7, <3>2, <3>4
    <3>5. CASE a.kind # "object"
      <4>1. a # [kind |-> "object", ring |-> q]
        BY <3>5
      <4>2. ArgsOfRing(q)
        BY <1>3, <1>4, <3>1, <4>1 DEF ArgsOfRing, n
      <4>3. sg.curr = q /\ r = q
        BY <1>1, <1>2, <4>2 DEF RingsOfCall
      <4>4. a.kind # "ringless"
        BY <1>5, <3>2, <3>3
      <4>5. QED
        BY <1>1, <1>5, <1>7, <3>2, <3>5, <4>3, <4>4
    <3>6. QED
      BY <3>4, <3>5
  <2>4. QED
    BY <1>1, <1>11, <2>1, <2>2, <2>3 DEF RingsOfCall
<1>17. ResultHasRing'
  BY <1>1 DEF IInv, ResultHasRing
<1>18. QED
  BY <1>1, <1>7, <1>12, <1>13, <1>14, <1>15, <1>16, <1>17 DEF IInv

(***************************************************************************)
(* TempSetCurrRing, from the state s with the current ring of the call.    *)
(***************************************************************************)
LEMMA TempSet ==
  ASSUME NEW s, NEW w, SingularOK(s, w), TempSetCurrRing(s)
  PROVE  /\ SingularOK(sg', w) /\ sg'.curr = s.curr
         /\ sg'.curr # NoRing => HandleOfCurr(sg')
         /\ tmpHdl' \in BOOLEAN
         /\ IF tmpHdl' THEN sg'.fake # NoRing ELSE sg' = s
<1>1. sg' = (IF NeedsFake(s) THEN EnterFake(s) ELSE s) /\ tmpHdl' = NeedsFake(s)
  BY DEF TempSetCurrRing
<1>2. NeedsFake(s) = (s.curr # NoRing /\ HandleStale(s))
  BY DEF NeedsFake
<1>3. CASE NeedsFake(s)
  <2>1. s.curr # NoRing /\ HandleStale(s) /\ sg' = EnterFake(s) /\ tmpHdl'
    BY <1>1, <1>2, <1>3
  <2>2. SingularOK(EnterFake(s), w) /\ EnterFake(s).curr = s.curr
        /\ EnterFake(s).fake = s.curr /\ HandleOfCurr(EnterFake(s))
    BY <2>1, FakeEntered
  <2>3. QED
    BY <1>1, <1>2, <2>1, <2>2
<1>4. CASE ~NeedsFake(s)
  <2>1. sg' = s /\ ~tmpHdl' /\ tmpHdl' \in BOOLEAN
    BY <1>1, <1>2, <1>4
  <2>2. s.curr # NoRing => HandleOfCurr(s)
    BY <1>2, <1>4 DEF HandleStale, HandleOfCurr
  <2>3. QED
    BY <2>1, <2>2
<1>5. QED
  BY <1>3, <1>4

LEMMA StartingFunc ==
  ASSUME IInv, StartFunc
  PROVE  IInv'
<1>1. /\ pc = "init" /\ op = "func" /\ pc' = "start"
      /\ UNCHANGED <<sg, slots, wrapped, temps, op, r, sing, tmpHdl, results,
                     made, escaped>>
  BY DEF StartFunc
<1>2. SlotsOfArgs' /\ TempsOfArgs'
  BY <1>1, ArgsKept
<1>3. TypeOK' /\ SingularOK(sg, wrapped)'
  BY <1>1 DEF IInv, TypeOK
<1>4. HandleInCall' /\ FakeOfCall' /\ Stack'
  BY <1>1 DEF IInv, HandleInCall, FakeOfCall, Stack
<1>5. RingsOfCall'
  <2>1. \A q \in Rings : ArgsOfRing(q)' = ArgsOfRing(q)
    BY <1>1 DEF ArgsOfRing
  <2>2. QED
    BY <1>1, <2>1 DEF IInv, RingsOfCall
<1>6. ResultHasRing'
  BY <1>1 DEF IInv, ResultHasRing
<1>7. QED
  BY <1>2, <1>3, <1>4, <1>5, <1>6 DEF IInv

LEMMA StartingProc ==
  ASSUME IInv, StartProc
  PROVE  IInv'
<1> PICK s : s = IF r # NoRing THEN rChangeCurrRing(sg, r) ELSE sg
  OBVIOUS
<1>1. /\ pc = "init" /\ op = "proc" /\ pc' = "start" /\ TempSetCurrRing(s)
      /\ UNCHANGED <<slots, wrapped, temps, op, r, sing, results, made, escaped>>
  BY DEF StartProc
<1>2. TypeOK /\ SingularOK(sg, wrapped) /\ Stack /\ FakeOfCall /\ RingsOfCall
  BY DEF IInv
<1>3. r \in wrapped \cup {NoRing}
  BY <1>2 DEF RingsOfCall
<1>4. SingularOK(s, wrapped) /\ s.fake = sg.fake /\ (r # NoRing => s.curr = r)
  BY <1>2, <1>3, CurrChanged
<1>5. /\ SingularOK(sg', wrapped) /\ sg'.curr = s.curr
      /\ sg'.curr # NoRing => HandleOfCurr(sg')
      /\ tmpHdl' \in BOOLEAN
      /\ IF tmpHdl' THEN sg'.fake # NoRing ELSE sg' = s
  BY <1>1, <1>4, TempSet
<1>6. ~tmpHdl /\ results = <<>>
  BY <1>1, <1>2 DEF Stack
<1>7. SlotsOfArgs' /\ TempsOfArgs'
  BY <1>1, ArgsKept
<1>8. TypeOK'
  BY <1>1, <1>2, <1>5 DEF TypeOK, SingularOK
<1>9. HandleInCall' /\ Stack'
  BY <1>1, <1>2, <1>5, <1>6 DEF HandleInCall, Stack
<1>10. FakeOfCall'
  BY <1>1, <1>2, <1>4, <1>5, <1>6 DEF FakeOfCall
<1>11. RingsOfCall'
  <2>1. ASSUME NEW q \in Rings, ArgsOfRing(q)' PROVE sg'.curr = q
    <3>1. ArgsOfRing(q)
      BY <1>1, <2>1 DEF ArgsOfRing
    <3>2. r = q
      BY <1>1, <1>2, <3>1 DEF RingsOfCall
    <3>3. QED
      BY <1>4, <1>5, <3>2, Sentinels
  <2>2. Len(results') = 0
    BY <1>1, <1>6
  <2>3. QED
    BY <1>1, <1>2, <2>1, <2>2 DEF RingsOfCall
<1>12. ResultHasRing'
  BY <1>1 DEF IInv, ResultHasRing
<1>13. QED
  BY <1>1, <1>5, <1>7, <1>8, <1>9, <1>10, <1>11, <1>12 DEF IInv

LEMMA Succeeding ==
  ASSUME IInv, NEW res \in ResultLists, Succeeds(res)
  PROVE  IInv'
<1>1. /\ pc = "start" /\ op \in {"func", "proc"} /\ pc' = "wrap" /\ results' = res
      /\ UNCHANGED <<sg, slots, wrapped, temps, op, r, sing, tmpHdl, made, escaped>>
  BY DEF Succeeds
<1>2. \A i \in 1..Len(res) : res[i].kind = "ring" =>
        \/ res[i].ring \in sg.named \/ res[i].ring = sg.curr
        \/ \E j \in 1..Len(sing) : sing[j] = res[i]
  BY DEF Succeeds
<1>3. res \in Seq(Result)
  <2>1. PICK n \in 1..MaxResults : res \in [1..n -> Result]
    BY DEF ResultLists
  <2>2. QED
    BY <2>1, BoundsAssumption
<1>4. TypeOK /\ SingularOK(sg, wrapped) /\ RingsOfCall
  BY DEF IInv
<1>5. TypeOK' /\ SingularOK(sg, wrapped)'
  BY <1>1, <1>3, <1>4 DEF TypeOK
<1>6. SlotsOfArgs' /\ TempsOfArgs'
  BY <1>1, ArgsKept
<1>7. HandleInCall' /\ FakeOfCall' /\ Stack'
  BY <1>1 DEF IInv, HandleInCall, FakeOfCall, Stack
<1>8. ASSUME NEW i \in 1..Len(res), res[i].kind = "ring"
      PROVE  res[i].ring \in sg.alive
  <2>1. res[i].ring \in Rings
    <3>1. res[i] \in Result
      BY <1>3, <1>8
    <3>2. QED
      BY <1>8, <3>1 DEF Result
  <2>2. CASE res[i].ring \in sg.named
    BY <1>4, <2>2 DEF SingularOK
  <2>3. CASE res[i].ring = sg.curr
    BY <1>4, <2>1, <2>3, Sentinels DEF SingularOK
  <2>4. CASE \E j \in 1..Len(sing) : sing[j] = res[i]
    <3>1. res[i].ring \in wrapped \cup {NoRing}
      BY <1>4, <2>4 DEF RingsOfCall
    <3>2. QED
      BY <1>4, <2>1, <3>1, Sentinels DEF SingularOK
  <2>5. QED
    BY <1>2, <1>8, <2>2, <2>3, <2>4
<1>9. RingsOfCall'
  BY <1>1, <1>4, <1>8 DEF RingsOfCall
<1>10. ResultHasRing'
  BY <1>1 DEF IInv, ResultHasRing
<1>11. QED
  BY <1>5, <1>6, <1>7, <1>9, <1>10 DEF IInv

LEMMA Wrapping ==
  ASSUME IInv, WrapResult
  PROVE  IInv'
<1> DEFINE res == Head(results)
           new == NeedsWrapper(res) \ wrapped
<1>1. /\ pc = "wrap" /\ results # <<>> /\ ~Refused(res)
      /\ wrapped' = wrapped \cup new
      /\ sg' = [sg EXCEPT !.ref =
                  [q \in Rings |-> IF q \in new THEN @[q] + 1 ELSE @[q]]]
      /\ made' = [kind |-> res.kind, ring |-> ResultRing(res.kind)]
      /\ results' = Tail(results)
      /\ UNCHANGED <<slots, temps, pc, op, r, sing, tmpHdl, escaped>>
  BY DEF WrapResult
<1>2. TypeOK /\ SingularOK(sg, wrapped) /\ Stack /\ RingsOfCall
  BY DEF IInv
<1>3. results \in Seq(Result) /\ results # <<>> /\ sg \in Singular
  BY <1>1, <1>2 DEF TypeOK
<1>4. res = results[1] /\ 1 \in 1..Len(results) /\ results' \in Seq(Result)
      /\ \A i \in 1..Len(results') : i + 1 \in 1..Len(results)
                                     /\ results'[i] = results[i + 1]
  BY <1>1, <1>3
<1>5. new \subseteq sg.alive
  <2>1. res.kind = "ring" => res.ring \in sg.alive
    BY <1>2, <1>4 DEF RingsOfCall
  <2>2. res.kind = "ringdep" /\ r = NoRing => sg.curr \in sg.alive
    BY <1>1, <1>2 DEF Refused, SingularOK
  <2>3. QED
    BY <2>1, <2>2 DEF NeedsWrapper
<1>6. res.kind = "ringdep" => ResultRing(res.kind) \in wrapped \cup new
  <2>1. CASE r = NoRing
    BY <2>1 DEF ResultRing, NeedsWrapper
  <2>2. CASE r # NoRing
    BY <1>2, <2>2 DEF ResultRing, RingsOfCall
  <2>3. QED
    BY <2>1, <2>2
<1> HIDE DEF res, new
<1>7. SingularOK(sg', wrapped \cup new) /\ sg'.curr = sg.curr /\ sg'.hdl = sg.hdl
      /\ sg'.fake = sg.fake /\ sg'.alive = sg.alive
  <2>1. new \cap wrapped = {}
    BY DEF new
  <2>2. sg' = Counted(sg, new)
    BY <1>1 DEF Counted
  <2>3. QED
    BY <1>2, <1>5, <2>1, <2>2, RingsWrapped
<1>8. TypeOK'
  <2>1. sg' \in Singular /\ wrapped \cup new \subseteq Rings
    BY <1>7, Fields DEF SingularOK
  <2>2. QED
    BY <1>1, <1>2, <1>4, <2>1 DEF TypeOK
<1>9. SlotsOfArgs' /\ TempsOfArgs'
  BY <1>1, ArgsKept
<1>10. HandleInCall' /\ FakeOfCall' /\ Stack'
  BY <1>1, <1>7 DEF IInv, HandleInCall, FakeOfCall, Stack
<1>11. RingsOfCall'
  BY <1>1, <1>2, <1>4, <1>7 DEF RingsOfCall
<1>12. ResultHasRing'
  BY <1>1, <1>6 DEF ResultHasRing
<1>13. QED
  BY <1>1, <1>7, <1>8, <1>9, <1>10, <1>11, <1>12 DEF IInv

(***************************************************************************)
(* The evaluation of a string, and SI_SetCurrRing.                         *)
(***************************************************************************)
LEMMA Evaluating ==
  ASSUME IInv, Evaluate
  PROVE  IInv'
<1>1. /\ pc = "gap" /\ TempSetCurrRing(sg) /\ pc' = "start" /\ op' = "eval"
      /\ UNCHANGED <<slots, wrapped, temps, r, sing, results, made, escaped>>
  BY DEF Evaluate
<1>2. TypeOK /\ SingularOK(sg, wrapped) /\ Stack /\ FakeOfCall /\ RingsOfCall
  BY DEF IInv
<1>3. ~tmpHdl /\ results = <<>> /\ sing = <<>>
  BY <1>1, <1>2 DEF Stack
<1>4. /\ SingularOK(sg', wrapped) /\ sg'.curr = sg.curr
      /\ sg'.curr # NoRing => HandleOfCurr(sg')
      /\ tmpHdl' \in BOOLEAN
      /\ IF tmpHdl' THEN sg'.fake # NoRing ELSE sg' = sg
  BY <1>1, <1>2, TempSet
<1>5. TypeOK'
  BY <1>1, <1>2, <1>4 DEF TypeOK, SingularOK
<1>6. SlotsOfArgs' /\ TempsOfArgs'
  BY <1>1, ArgsKept
<1>7. HandleInCall' /\ FakeOfCall' /\ Stack'
  BY <1>1, <1>2, <1>3, <1>4 DEF HandleInCall, FakeOfCall, Stack
<1>8. RingsOfCall'
  <2>1. Len(sing') = 0 /\ Len(results') = 0
    BY <1>1, <1>3
  <2>2. \A q \in Rings : ~ArgsOfRing(q)'
    BY <2>1 DEF ArgsOfRing
  <2>3. QED
    BY <1>1, <1>2, <2>1, <2>2 DEF RingsOfCall
<1>9. ResultHasRing'
  BY <1>1 DEF IInv, ResultHasRing
<1>10. QED
  BY <1>1, <1>4, <1>5, <1>6, <1>7, <1>8, <1>9 DEF IInv

LEMMA Running ==
  ASSUME IInv, NEW q \in Rings, EvalRing(q) \/ EvalSetRing(q) \/ EvalKill(q)
  PROVE  IInv'
<1>1. /\ op = "eval" /\ pc' = "run"
      /\ UNCHANGED <<slots, wrapped, temps, op, r, sing, tmpHdl, results,
                     made, escaped>>
  BY DEF EvalRing, EvalSetRing, EvalKill, EvalStep
<1>2. pc \in {"start", "run"}
  BY DEF EvalRing, EvalSetRing, EvalKill, EvalStep
<1>3. TypeOK /\ SingularOK(sg, wrapped) /\ Stack /\ FakeOfCall /\ RingsOfCall
      /\ HandleInCall
  BY DEF IInv
<1>4. SingularOK(sg', wrapped) /\ HandleOrWrapper(sg', wrapped)
      /\ sg'.fake = sg.fake
  <2>1. CASE EvalRing(q)
    <3>1. q \notin sg.alive \cup GapRings /\ sg' = Declared(sg, q)
      BY <2>1 DEF EvalRing, EvalStep, Declared
    <3>2. SingularOK(sg', wrapped) /\ HandleOfCurr(sg') /\ sg'.fake = sg.fake
      BY <1>3, <3>1, RingDeclared
    <3>3. QED
      BY <3>2 DEF HandleOrWrapper
  <2>2. CASE EvalSetRing(q)
    BY <1>3, <2>2, RingChosen DEF EvalSetRing, EvalStep, HandleOrWrapper
  <2>3. CASE EvalKill(q)
    <3>1. q \in sg.named /\ sg' = killhdl(sg, q)
      BY <2>3 DEF EvalKill, EvalStep
    <3>2. HandleOrWrapper(sg, wrapped)
      BY <1>1, <1>3 DEF HandleInCall, HandleOrWrapper
    <3>3. QED
      BY <1>3, <3>1, <3>2, NamedKilled
  <2>4. QED
    BY <2>1, <2>2, <2>3
<1>5. results = <<>>
  BY <1>2, <1>3 DEF Stack
<1>6. TypeOK'
  BY <1>1, <1>3, <1>4 DEF TypeOK, SingularOK
<1>7. SlotsOfArgs' /\ TempsOfArgs'
  BY <1>1, ArgsKept
<1>8. HandleInCall'
  BY <1>1, <1>4 DEF HandleInCall, HandleOrWrapper
<1>9. FakeOfCall' /\ Stack'
  BY <1>1, <1>2, <1>3, <1>4, <1>5 DEF FakeOfCall, Stack
<1>10. RingsOfCall'
  <2>1. Len(results') = 0
    BY <1>1, <1>5
  <2>2. QED
    BY <1>1, <1>3, <2>1 DEF RingsOfCall
<1>11. ResultHasRing'
  BY <1>1 DEF IInv, ResultHasRing
<1>12. QED
  BY <1>1, <1>4, <1>6, <1>7, <1>8, <1>9, <1>10, <1>11 DEF IInv

LEMMA Choosing ==
  ASSUME IInv, NEW q \in Rings, SI_SetCurrRing(q)
  PROVE  IInv'
<1>1. /\ pc = "gap" /\ q \in wrapped /\ sg' = rChangeCurrRing(sg, q)
      /\ UNCHANGED <<slots, wrapped, temps, pc, op, r, sing, tmpHdl, results,
                     made, escaped>>
  BY DEF SI_SetCurrRing, callVars
<1>2. TypeOK /\ SingularOK(sg, wrapped) /\ Stack /\ FakeOfCall /\ RingsOfCall
  BY DEF IInv
<1>3. op = "none" /\ results = <<>>
  BY <1>1, <1>2 DEF Stack
<1>4. SingularOK(sg', wrapped) /\ sg'.fake = sg.fake
  BY <1>1, <1>2, CurrChanged
<1>5. TypeOK'
  BY <1>1, <1>2, <1>4 DEF TypeOK, SingularOK
<1>6. SlotsOfArgs' /\ TempsOfArgs'
  BY <1>1, ArgsKept
<1>7. HandleInCall' /\ FakeOfCall' /\ Stack'
  BY <1>1, <1>2, <1>3, <1>4 DEF HandleInCall, FakeOfCall, Stack
<1>8. RingsOfCall'
  <2>1. Len(results') = 0
    BY <1>1, <1>3
  <2>2. QED
    BY <1>1, <1>2, <2>1 DEF RingsOfCall
<1>9. ResultHasRing'
  BY <1>1 DEF IInv, ResultHasRing
<1>10. QED
  BY <1>1, <1>4, <1>5, <1>6, <1>7, <1>8, <1>9 DEF IInv

LEMMA Stuttering ==
  ASSUME IInv, UNCHANGED vars
  PROVE  IInv'
<1>1. UNCHANGED <<sg, slots, wrapped, temps, pc, op, r, sing, tmpHdl, results,
                  made, escaped>>
  BY DEF vars
<1>2. TypeOK' /\ SingularOK(sg, wrapped)' /\ SlotsOfArgs' /\ TempsOfArgs'
  BY <1>1, ArgsKept DEF IInv, TypeOK
<1>3. HandleInCall' /\ FakeOfCall' /\ Stack' /\ ResultHasRing'
  BY <1>1 DEF IInv, HandleInCall, FakeOfCall, Stack, ResultHasRing
<1>4. \A q \in Rings : ArgsOfRing(q)' = ArgsOfRing(q)
  BY <1>1 DEF ArgsOfRing
<1>5. RingsOfCall'
  BY <1>1, <1>4 DEF IInv, RingsOfCall
<1>6. QED
  BY <1>2, <1>3, <1>5 DEF IInv

(***************************************************************************)
(* Every state satisfies the inductive invariant: calls.cc keeps its slots,*)
(* its temporary objects, the references of the rings and the identifier   *)
(* of the current ring in order, however its calls end.                    *)
(***************************************************************************)
THEOREM Invariance == Spec => []IInv
<1>1. Init => IInv
  BY Initially
<1>2. IInv /\ [Next]_vars => IInv'
  <2>1. SUFFICES ASSUME IInv, [Next]_vars PROVE IInv'
    OBVIOUS
  <2>2. CASE \E q \in Rings \cup {NoRing} : CallFunc(q)
    BY <2>1, <2>2, Calling
  <2>3. CASE CallProc
    BY <2>1, <2>3, Calling
  <2>4. CASE \E a \in Arg : InitArg(a)
    BY <2>1, <2>4, Passing
  <2>5. CASE \E a \in BadArg : ArgError(a)
    BY <2>1, <2>5, Refusing
  <2>6. CASE StartFunc
    BY <2>1, <2>6, StartingFunc
  <2>7. CASE StartProc
    BY <2>1, <2>7, StartingProc
  <2>8. CASE Fails \/ Return \/ EvalEnd
    <3>1. Destructors /\ UNCHANGED <<wrapped, escaped>>
      BY <2>8 DEF Fails, Return, EvalEnd
    <3>2. QED
      BY <2>1, <3>1, Destroyed
  <2>9. CASE \E res \in ResultLists : Succeeds(res)
    BY <2>1, <2>9, Succeeding
  <2>10. CASE WrapError
    BY <2>1, <2>10, Escaping
  <2>11. CASE WrapResult
    BY <2>1, <2>11, Wrapping
  <2>12. CASE Evaluate
    BY <2>1, <2>12, Evaluating
  <2>13. CASE \E q \in Rings : EvalRing(q) \/ EvalSetRing(q) \/ EvalKill(q)
    BY <2>1, <2>13, Running
  <2>14. CASE \E q \in Rings : SI_SetCurrRing(q)
    BY <2>1, <2>14, Choosing
  <2>15. CASE UNCHANGED vars
    BY <2>1, <2>15, Stuttering
  <2>16. QED
    BY <2>1, <2>2, <2>3, <2>4, <2>5, <2>6, <2>7, <2>8, <2>9, <2>10, <2>11,
       <2>12, <2>13, <2>14, <2>15 DEF Next
<1>3. QED
  BY <1>1, <1>2, PTL DEF Spec

(***************************************************************************)
(* Type correctness of the calls.                                          *)
(***************************************************************************)
THEOREM TypeCorrect == Spec => []TypeOK
<1>1. IInv => TypeOK
  BY DEF IInv
<1>2. QED
  BY <1>1, Invariance, PTL

(***************************************************************************)
(* A function or procedure finds its arguments in its slots.               *)
(***************************************************************************)
THEOREM SlotsSafety == Spec => []SlotsMatchArgs
<1>1. IInv => SlotsMatchArgs
  <2>1. SUFFICES ASSUME IInv, NEW i \in 1..Len(sing) PROVE slots[i] = sing[i]
    BY DEF SlotsMatchArgs
  <2>2. i \in 1..MaxArgs /\ i <= Len(sing)
    <3>1. Len(sing) \in Nat /\ Len(sing) <= MaxArgs
      BY <2>1 DEF IInv, TypeOK
    <3>2. QED
      BY <2>1, <3>1, BoundsAssumption
  <2>3. QED
    BY <2>1, <2>2 DEF IInv, SlotsOfArgs
<1>2. QED
  BY <1>1, Invariance, PTL

(***************************************************************************)
(* Nothing of a call is left in the slots or on the heap, unless a call    *)
(* was left by ErrorQuit.                                                  *)
(***************************************************************************)
THEOREM CleanupSafety == Spec => []NothingLeft
<1>1. IInv => NothingLeft
  <2>1. SUFFICES ASSUME IInv, ~escaped, pc = "gap"
                 PROVE  (\A i \in 1..MaxArgs : slots[i] = Empty) /\ temps = 0
    BY DEF NothingLeft, SlotsReset
  <2>2. sing = <<>>
    BY <2>1 DEF IInv, Stack
  <2>3. temps = 0
    BY <2>1, <2>2, NoTemps DEF IInv, TempsOfArgs
  <2>4. Len(sing) = 0
    BY <2>2
  <2>5. QED
    BY <2>1, <2>3, <2>4 DEF IInv, SlotsOfArgs
<1>2. QED
  BY <1>1, Invariance, PTL

(***************************************************************************)
(* A procedure or a string starts with an identifier of the current ring.  *)
(***************************************************************************)
THEOREM HandleSafety == Spec => []RingHandleAtStart
<1>1. IInv => RingHandleAtStart
  BY DEF IInv, HandleInCall, HandleOfCurr, RingHandleAtStart
<1>2. QED
  BY <1>1, Invariance, PTL

(***************************************************************************)
(* currRing and currRingHdl never dangle.                                  *)
(***************************************************************************)
THEOREM RingsSafety == Spec => []NoDanglingRing
<1>1. IInv => NoDanglingRing
  BY DEF IInv, SingularOK, NoDanglingRing
<1>2. QED
  BY <1>1, Invariance, PTL

(***************************************************************************)
(* The reference counters of the rings count their wrapper and             *)
(* identifiers.                                                            *)
(***************************************************************************)
THEOREM CountSafety == Spec => []RefCounts
<1>1. IInv => RefCounts
  BY DEF IInv, SingularOK, RefCounts
<1>2. QED
  BY <1>1, Invariance, PTL

(***************************************************************************)
(* The fake identifier belongs to the call that has entered it.            *)
(***************************************************************************)
THEOREM FakeSafety == Spec => []FakeHandleOwned
<1>1. IInv => FakeHandleOwned
  BY DEF IInv, FakeOfCall, Stack, FakeHandleOwned, FakeReleased
<1>2. QED
  BY <1>1, Invariance, PTL

(***************************************************************************)
(* The ring of a ring dependent result has a wrapper.                      *)
(***************************************************************************)
THEOREM ResultSafety == Spec => []ResultHasRing
<1>1. IInv => ResultHasRing
  BY DEF IInv
<1>2. QED
  BY <1>1, Invariance, PTL

(***************************************************************************)
(* A call with arguments of one ring runs in that ring.                    *)
(***************************************************************************)
THEOREM RunSafety == Spec => []RunsInRingOfArgs
<1>1. IInv => RunsInRingOfArgs
  BY DEF IInv, RingsOfCall, ArgsOfRing, RunsInRingOfArgs
<1>2. QED
  BY <1>1, Invariance, PTL

=============================================================================
