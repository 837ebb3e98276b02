------------------------ MODULE LowLevelMappings_proofs ------------------------
(***************************************************************************)
(* The objects and the low-level mappings for any number of bags, data,    *)
(* rings and attributes, and any choice of the mappings: the inductive     *)
(* invariant IInv of LowLevelMappings, the properties of the run           *)
(* `objects', which follow from it, and that they implement ObjectValues.  *)
(***************************************************************************)
EXTENDS LowLevelMappings, TLAPS

(***************************************************************************)
(* The sequences of this module are functions on 1..n.                     *)
(***************************************************************************)
LEMMA LenOf ==
  ASSUME NEW S, NEW n \in Nat, NEW s \in [1..n -> S]
  PROVE  s \in Seq(S) /\ Len(s) = n
  OBVIOUS

LEMMA TypesOfWords ==
  /\ \A t \in Type : BaseSize(t) = IF HasRingTable(t) THEN 4 ELSE 2
  /\ {"poly", "number", "list"} \subseteq Type
  /\ \A t \in Type : HasRingTable(t) <=> t \in {"poly", "number", "list"}
  BY DEF BaseSize, HasRingTable, Type

LEMMA OneMore ==
  ASSUME NEW m \in {2, 4}, NEW n, n = m + 1
  PROVE  n \in 2..5 /\ n >= 3 /\ ~(n <= m)
  OBVIOUS

(***************************************************************************)
(* Whatever a new bag is filled with, the accessors give it back.          *)
(***************************************************************************)
LEMMA FilledWords ==
  ASSUME NEW t \in Type, NEW a \in Attr \cup {NULL}, NEW words \in Seq(Word),
         \/ Len(words) = 2
         \/ Len(words) = 3 /\ HasRingTable(t),
         NEW w, w = IF a = NULL THEN words ELSE WithAttrib(words, t, a)
  PROVE  /\ w \in Seq(Word) /\ Len(w) \in 2..5
         /\ w[2] = words[2]
         /\ (IF Len(w) <= BaseSize(t) THEN NULL ELSE w[BaseSize(t) + 1]) = a
         /\ Len(words) = 3 => Len(w) >= 3 /\ w[3] = words[3]
         /\ Len(words) = 2 /\ Len(w) >= 3 /\ HasRingTable(t) => w[3] = NULL
<1>1. BaseSize(t) \in {2, 4} /\ (HasRingTable(t) <=> BaseSize(t) = 4)
  BY TypesOfWords
<1>2. CASE a = NULL
  <2>1. w = words
    BY <1>2
  <2>2. Len(words) \in {2, 3} /\ (Len(words) = 3 => BaseSize(t) = 4)
    BY <1>1
  <2>3. QED
    BY <1>1, <1>2, <2>1, <2>2
<1>3. CASE a # NULL
  <2>1. \A i \in 1..Len(words) : words[i] \in Word
    OBVIOUS
  <2>2. w = [i \in 1..(BaseSize(t) + 1) |->
               IF i = BaseSize(t) + 1 THEN a
               ELSE IF i <= Len(words) THEN words[i] ELSE NULL]
    BY <1>3 DEF WithAttrib
  <2>3. w \in [1..(BaseSize(t) + 1) -> Word]
    BY <1>1, <2>1, <2>2 DEF Word
  <2>4. w \in Seq(Word) /\ Len(w) = BaseSize(t) + 1
    BY <1>1, <2>3, LenOf
  <2>5. w[BaseSize(t) + 1] = a /\ w[2] = words[2]
    BY <1>1, <2>2
  <2>6. BaseSize(t) = 4 => w[3] = IF Len(words) = 3 THEN words[3] ELSE NULL
    BY <2>2
  <2>7. Len(words) \in {2, 3} /\ (Len(words) = 3 => BaseSize(t) = 4)
    BY <1>1
  <2>8. Len(w) \in 2..5 /\ Len(w) >= 3 /\ ~(Len(w) <= BaseSize(t))
    BY <1>1, <2>4, OneMore
  <2>9. (IF Len(w) <= BaseSize(t) THEN NULL ELSE w[BaseSize(t) + 1]) = a
    BY <2>5, <2>8
  <2>10. Len(words) = 3 => w[3] = words[3]
    BY <2>6, <2>7
  <2>11. Len(words) = 2 /\ HasRingTable(t) => w[3] = NULL
    BY <1>1, <2>6
  <2>12. QED
    BY <2>4, <2>5, <2>8, <2>9, <2>10, <2>11
<1>4. QED
  BY <1>2, <1>3

LEMMA NewWords ==
  ASSUME NEW d \in Data, NEW q \in Rings \cup {NULL, Garbage}
  PROVE  /\ NEW_SINGOBJ(d) \in Seq(Word)
         /\ Len(NEW_SINGOBJ(d)) = 2 /\ NEW_SINGOBJ(d)[2] = d
         /\ NEW_SINGOBJ_RING(d, q) \in Seq(Word)
         /\ Len(NEW_SINGOBJ_RING(d, q)) = 3
         /\ NEW_SINGOBJ_RING(d, q)[2] = d /\ NEW_SINGOBJ_RING(d, q)[3] = q
  BY DEF NEW_SINGOBJ, NEW_SINGOBJ_RING, Word

LEMMA PrototypeFacts ==
  \A f \in Mappings :
    /\ Len(Params[f]) \in 1..3 /\ DOMAIN Params[f] = 1..Len(Params[f])
    /\ \A i \in 1..Len(Params[f]) : /\ Params[f][i].type \in {"poly", "number"}
                                    /\ Params[f][i].destroys \in BOOLEAN
    /\ f \in ReturnsNoObject \cup ReturnsArgument =>
         Len(Params[f]) = 1 /\ ~Params[f][1].destroys
<1>1. SUFFICES ASSUME NEW f \in DOMAIN Params
               PROVE  /\ Len(Params[f]) \in 1..3
                      /\ DOMAIN Params[f] = 1..Len(Params[f])
                      /\ \A i \in 1..Len(Params[f]) :
                           /\ Params[f][i].type \in {"poly", "number"}
                           /\ Params[f][i].destroys \in BOOLEAN
                      /\ f \in ReturnsNoObject \cup ReturnsArgument =>
                           Len(Params[f]) = 1 /\ ~Params[f][1].destroys
  BY MappingsAssumption
<1> DEFINE P == [type : {"poly", "number"}, destroys : BOOLEAN]
<1>2. Const("poly") \in P /\ Const("number") \in P /\ DESTROYS("poly") \in P
  BY DEF Const, DESTROYS
<1>3. ~Const("poly").destroys
  BY DEF Const
<1>4. \/ \E p \in P : Params[f] = <<p>> /\
                      (f \in ReturnsNoObject \cup ReturnsArgument => p = Const("poly"))
      \/ /\ \E p, q \in P : Params[f] = <<p, q>>
         /\ f \notin ReturnsNoObject \cup ReturnsArgument
      \/ /\ \E p, q, s \in P : Params[f] = <<p, q, s>>
         /\ f \notin ReturnsNoObject \cup ReturnsArgument
  BY <1>2 DEF Params, ReturnsNoObject, ReturnsArgument
<1>5. QED
  BY <1>3, <1>4

(***************************************************************************)
(* A new object b with data d: b is the only owner of d, unless d is       *)
(* shared, and the other objects keep theirs.                              *)
(***************************************************************************)
LEMMA NewObject ==
  ASSUME IInv,
         NEW b \in Bags, NEW t \in Type, NEW i \in BOOLEAN, NEW d \in Data,
         NEW words \in Seq(Word), NEW a \in Attr \cup {NULL},
         Fill(b, t, i, words, a),
         words[2] = d,
         \/ Len(words) = 2 /\ t \notin {"poly", "number"}
         \/ Len(words) = 3 /\ HasRingTable(t) /\ words[3] \in Rings \cup {NULL, Garbage},
         t \in {"poly", "number"} =>
           /\ words[3] \in Rings
           /\ ~wild' /\ d \in alive' => place'[d] # NULL,
         place'[d] # NULL => Len(words) = 3 /\ words[3] = place'[d],
         alive' \subseteq Data, shared' \subseteq Data, shared \subseteq shared',
         d \in alive' \cup shared',
         \A c \in Live : /\ CXX_SINGOBJ(c) \in alive' \cup shared'
                         /\ CXX_SINGOBJ(c) = d => d \in shared'
                         /\ CXX_SINGOBJ(c) \notin Copies' \cup leaked'
                         /\ CXX_SINGOBJ(c) # d =>
                              place'[CXX_SINGOBJ(c)] = place[CXX_SINGOBJ(c)]
                         /\ CXX_SINGOBJ(c) = d => place'[d] = place[d]
                         /\ CXX_SINGOBJ(c) \in alive' => CXX_SINGOBJ(c) \in alive,
         d \notin Copies' \cup leaked',
         \A e \in alive' : \/ e = d \/ e \in Copies' \cup leaked'
                           \/ \E c \in Live : CXX_SINGOBJ(c) = e
  PROVE  /\ type' \in [Bags -> Type] /\ imm' \in [Bags -> BOOLEAN]
         /\ mem' \in [Bags -> Seq(Word)] /\ attrs' \in [Bags -> Attr \cup {NULL}]
         /\ \A c \in Live' : /\ Len(mem'[c]) \in 2..5
                             /\ CXX_SINGOBJ(c)' \in Data
                             /\ ATTRIB_SINGOBJ(c)' \in Attr \cup {NULL}
         /\ \A c \in Live : c \in Live' /\ mem'[c] = mem[c]
         /\ WordsReadable' /\ DataOwnedOnce' /\ RingWords'
<1> DEFINE w == IF a = NULL THEN words ELSE WithAttrib(words, t, a)
<1>1. /\ b \in Bags \ Live /\ ~wild
      /\ type' = [type EXCEPT ![b] = t] /\ imm' = [imm EXCEPT ![b] = i]
      /\ mem' = [mem EXCEPT ![b] = w] /\ attrs' = [attrs EXCEPT ![b] = a]
  BY DEF Fill
<1>2. /\ w \in Seq(Word) /\ Len(w) \in 2..5 /\ w[2] = d
      /\ (IF Len(w) <= BaseSize(t) THEN NULL ELSE w[BaseSize(t) + 1]) = a
      /\ Len(words) = 3 => Len(w) >= 3 /\ w[3] = words[3]
      /\ Len(words) = 2 /\ Len(w) >= 3 /\ HasRingTable(t) => w[3] = NULL
  BY FilledWords
<1> HIDE DEF w
<1>3. /\ type' \in [Bags -> Type] /\ imm' \in [Bags -> BOOLEAN]
      /\ mem' \in [Bags -> Seq(Word)] /\ attrs' \in [Bags -> Attr \cup {NULL}]
  BY <1>1, <1>2 DEF IInv, TypeOK
<1>4. /\ type'[b] = t /\ mem'[b] = w /\ attrs'[b] = a
      /\ \A c \in Bags \ {b} : /\ type'[c] = type[c] /\ mem'[c] = mem[c]
                               /\ attrs'[c] = attrs[c]
  BY <1>1 DEF IInv, TypeOK
<1>5. Live' = Live \cup {b} /\ b \notin Live
  BY <1>1, <1>2, <1>4 DEF Live
<1>6. \A c \in Live : /\ mem'[c] = mem[c]
                      /\ CXX_SINGOBJ(c)' = CXX_SINGOBJ(c)
                      /\ ATTRIB_SINGOBJ(c)' = ATTRIB_SINGOBJ(c)
                      /\ ReadRing(c)' = ReadRing(c)
                      /\ type'[c] = type[c] /\ attrs'[c] = attrs[c]
  BY <1>4, <1>5 DEF Live, CXX_SINGOBJ, ATTRIB_SINGOBJ, ReadRing, CXXRING_SINGOBJ
<1>7. CXX_SINGOBJ(b)' = d /\ ATTRIB_SINGOBJ(b)' = a
  BY <1>2, <1>4 DEF CXX_SINGOBJ, ATTRIB_SINGOBJ
<1>8. \A c \in Live' : /\ Len(mem'[c]) \in 2..5
                       /\ CXX_SINGOBJ(c)' \in Data
                       /\ ATTRIB_SINGOBJ(c)' \in Attr \cup {NULL}
  <2>1. \A c \in Live : /\ Len(mem[c]) \in 2..5 /\ CXX_SINGOBJ(c) \in Data
                        /\ ATTRIB_SINGOBJ(c) \in Attr \cup {NULL}
    BY DEF IInv, TypeOK
  <2>2. QED
    BY <1>2, <1>4, <1>5, <1>6, <1>7, <2>1
<1>9. \A c \in Live : place'[CXX_SINGOBJ(c)] = place[CXX_SINGOBJ(c)]
  OBVIOUS
<1>10. WordsReadable'
  <2>1. SUFFICES ASSUME NEW c \in Live'
                 PROVE  /\ ATTRIB_SINGOBJ(c)' = attrs'[c]
                        /\ place'[CXX_SINGOBJ(c)'] # NULL =>
                             ReadRing(c)' = place'[CXX_SINGOBJ(c)']
    BY DEF WordsReadable
  <2>2. CASE c = b
    <3>1. ATTRIB_SINGOBJ(b)' = attrs'[b]
      BY <1>4, <1>7
    <3>2. ASSUME place'[d] # NULL PROVE ReadRing(b)' = place'[d]
      <4>1. HasRingTable(t) /\ Len(words) = 3 /\ words[3] = place'[d]
        BY <3>2
      <4>2. Len(w) >= 3 /\ w[3] = place'[d]
        BY <1>2, <4>1
      <4>3. QED
        BY <1>4, <4>1, <4>2 DEF ReadRing, CXXRING_SINGOBJ
    <3>3. QED
      BY <1>7, <2>2, <3>1, <3>2
  <2>3. CASE c # b
    BY <1>5, <1>6, <1>9, <2>3 DEF IInv, WordsReadable
  <2>4. QED
    BY <2>2, <2>3
<1>11. DataOwnedOnce'
  <2>1. \A c, e \in Live : c # e /\ CXX_SINGOBJ(c) \notin shared' =>
                             CXX_SINGOBJ(c) # CXX_SINGOBJ(e)
    BY DEF IInv, DataOwnedOnce
  <2>2. QED
    BY <1>5, <1>6, <1>7, <2>1 DEF DataOwnedOnce
<1>12. RingWords'
  <2>1. SUFFICES ASSUME NEW c \in Live'
                 PROVE  /\ Len(mem'[c]) >= 3 /\ HasRingTable(type'[c]) =>
                             mem'[c][3] \in Rings \cup {NULL, Garbage}
                        /\ type'[c] \in {"poly", "number"} =>
                             /\ Len(mem'[c]) >= 3 /\ mem'[c][3] \in Rings
                             /\ ~wild' /\ CXX_SINGOBJ(c)' \in alive' =>
                                  place'[CXX_SINGOBJ(c)'] # NULL
    BY DEF RingWords, HasRingTable
  <2>2. CASE c = b
    BY <1>2, <1>4, <1>7, <2>2
  <2>3. CASE c # b
    BY <1>1, <1>5, <1>6, <1>9, <2>3 DEF IInv, RingWords
  <2>4. QED
    BY <2>2, <2>3
<1>13. QED
  BY <1>3, <1>5, <1>6, <1>8, <1>10, <1>11, <1>12

(***************************************************************************)
(* Between the mappings there are no arguments.                            *)
(***************************************************************************)
LEMMA NoArguments ==
  ASSUME IInv, func = NULL, UNCHANGED mvars, leaked \subseteq alive'
  PROVE  /\ Copies' = {} /\ ArgsOwned' /\ ArgsUsable'
         /\ func' = NULL /\ args' = <<>> /\ r' = r /\ leaked' = leaked
         /\ args' \in Seq([data : Data, copied : BOOLEAN])
<1>1. func' = NULL /\ args' = <<>> /\ leaked' = leaked /\ r' = r
  BY DEF IInv, TypeOK, mvars
<1>2. DOMAIN args' = {}
  BY <1>1
<1>3. Copies' = {}
  BY <1>2 DEF Copies
<1>4. QED
  BY <1>1, <1>2, <1>3 DEF ArgsOwned, ArgsUsable

(***************************************************************************)
(* What a step with a new object need not change.                          *)
(***************************************************************************)
LEMMA NewObjectStep ==
  ASSUME IInv, func = NULL, UNCHANGED mvars, NEW d \in Unused,
         NEW b \in Bags, NEW t \in Type, NEW i \in BOOLEAN,
         NEW words \in Seq(Word), NEW a \in Attr \cup {NULL},
         Fill(b, t, i, words, a),
         words[2] = d,
         \/ Len(words) = 2 /\ t \notin {"poly", "number"}
         \/ Len(words) = 3 /\ HasRingTable(t) /\ words[3] \in Rings \cup {NULL, Garbage},
         t \in {"poly", "number"} =>
           /\ words[3] \in Rings
           /\ ~wild' => place'[d] # NULL,
         place'[d] # NULL => Len(words) = 3 /\ words[3] = place'[d],
         alive' = alive \cup {d}, shared' = shared,
         place' \in [Data -> Rings \cup {NULL}],
         \A e \in Data \ {d} : place'[e] = place[e],
         content' \in [Data -> {0, 1}],
         wild' \in BOOLEAN, ~wild' => currRing' \in Rings \cup {NULL}
  PROVE  IInv'
<1>1. d \in Data /\ d \notin alive \cup shared
  BY DEF Unused
<1>2. /\ alive \subseteq Data /\ shared \subseteq Data /\ leaked \subseteq alive
      /\ leaked \subseteq Data
  BY DEF IInv, TypeOK, ArgsOwned
<1>3. /\ Copies' = {} /\ ArgsOwned' /\ ArgsUsable'
      /\ func' = NULL /\ args' = <<>> /\ r' = r /\ leaked' = leaked
      /\ args' \in Seq([data : Data, copied : BOOLEAN])
  BY <1>2, NoArguments
<1>4. Copies = {}
  BY DEF IInv, TypeOK, Copies
<1>5. \A c \in Live : /\ CXX_SINGOBJ(c) \in alive \cup shared
                      /\ CXX_SINGOBJ(c) # d /\ CXX_SINGOBJ(c) \notin leaked
                      /\ CXX_SINGOBJ(c) \in Data
  BY <1>1, <1>2 DEF IInv, DataOwnedOnce
<1>6. \A e \in alive : e \in leaked \/ \E c \in Live : CXX_SINGOBJ(c) = e
  BY <1>4 DEF IInv, DataOwnedOnce
<1>7. /\ alive' \subseteq Data /\ shared' \subseteq Data /\ shared \subseteq shared'
      /\ d \in alive' \cup shared' /\ d \notin Copies' \cup leaked'
      /\ \A e \in alive' : \/ e = d \/ e \in Copies' \cup leaked'
                           \/ \E c \in Live : CXX_SINGOBJ(c) = e
  BY <1>1, <1>2, <1>3, <1>6
<1>8. \A c \in Live : /\ CXX_SINGOBJ(c) \in alive' \cup shared'
                      /\ CXX_SINGOBJ(c) # d
                      /\ CXX_SINGOBJ(c) \notin Copies' \cup leaked'
                      /\ place'[CXX_SINGOBJ(c)] = place[CXX_SINGOBJ(c)]
                      /\ CXX_SINGOBJ(c) \in alive' => CXX_SINGOBJ(c) \in alive
  BY <1>3, <1>5
<1>9. /\ type' \in [Bags -> Type] /\ imm' \in [Bags -> BOOLEAN]
      /\ mem' \in [Bags -> Seq(Word)] /\ attrs' \in [Bags -> Attr \cup {NULL}]
      /\ \A c \in Live' : /\ Len(mem'[c]) \in 2..5
                          /\ CXX_SINGOBJ(c)' \in Data
                          /\ ATTRIB_SINGOBJ(c)' \in Attr \cup {NULL}
      /\ WordsReadable' /\ DataOwnedOnce' /\ RingWords'
  BY <1>1, <1>7, <1>8, NewObject
<1>10. ~wild /\ {currRing, r} \subseteq Rings \cup {NULL}
  BY DEF IInv, TypeOK, Fill
<1>11. TypeOK'
  BY <1>2, <1>3, <1>7, <1>9, <1>10 DEF TypeOK
<1>12. QED
  BY <1>3, <1>9, <1>11 DEF IInv

LEMMA WrapStep ==
  ASSUME IInv, func = NULL, UNCHANGED mvars, NEW b \in Bags, NEW d \in Data
  PROVE  /\ \A t \in Type, q \in Rings \cup {NULL}, a \in Attr \cup {NULL} :
              gapwrap(b, t, d, q, a) => IInv'
         /\ \A i \in BOOLEAN : _SI_intvec(b, d, i) => IInv'
<1>1. ASSUME NEW t \in Type, NEW q \in Rings \cup {NULL}, NEW a \in Attr \cup {NULL},
             gapwrap(b, t, d, q, a)
      PROVE  IInv'
  <2> DEFINE words == IF HasRingTable(t) THEN NEW_SINGOBJ_RING(d, q) ELSE NEW_SINGOBJ(d)
             i == ~IsCopyableSingularType(t)
  <2>1. /\ d \in Unused /\ Fill(b, t, i, words, a) /\ ~wild
        /\ HasRingTable(t) /\ t # "list" => q # NULL
        /\ alive' = alive \cup {d} /\ shared' = shared
        /\ place' = [place EXCEPT ![d] = IF HasRingTable(t) THEN q ELSE NULL]
        /\ content' = content /\ currRing' = currRing /\ wild' = wild
    BY <1>1 DEF gapwrap, Fill
  <2>2. /\ place' \in [Data -> Rings \cup {NULL}]
        /\ place'[d] = IF HasRingTable(t) THEN q ELSE NULL
        /\ \A e \in Data \ {d} : place'[e] = place[e]
    BY <2>1 DEF IInv, TypeOK
  <2>3. /\ words \in Seq(Word) /\ words[2] = d
        /\ HasRingTable(t) => Len(words) = 3 /\ words[3] = q
        /\ ~HasRingTable(t) => Len(words) = 2
    BY NewWords
  <2>4. i \in BOOLEAN
    BY DEF IsCopyableSingularType
  <2>5. t \in {"poly", "number"} => HasRingTable(t) /\ t # "list"
    BY TypesOfWords
  <2> HIDE DEF words, i
  <2>6. /\ content' \in [Data -> {0, 1}]
        /\ wild' \in BOOLEAN /\ (~wild' => currRing' \in Rings \cup {NULL})
    BY <2>1 DEF IInv, TypeOK
  <2>7. QED
    BY <2>1, <2>2, <2>3, <2>4, <2>5, <2>6, NewObjectStep
<1>2. ASSUME NEW i \in BOOLEAN, _SI_intvec(b, d, i)
      PROVE  IInv'
  <2>1. /\ d \in Unused /\ Fill(b, "intmat", i, NEW_SINGOBJ(d), NULL) /\ ~wild
        /\ alive' = alive \cup {d} /\ shared' = shared
        /\ place' = [place EXCEPT ![d] = NULL]
        /\ content' = content /\ currRing' = currRing /\ wild' = wild
    BY <1>2 DEF _SI_intvec, Fill
  <2>2. /\ place' \in [Data -> Rings \cup {NULL}] /\ place'[d] = NULL
        /\ \A e \in Data \ {d} : place'[e] = place[e]
        /\ content' \in [Data -> {0, 1}]
        /\ wild' \in BOOLEAN /\ (~wild' => currRing' \in Rings \cup {NULL})
    BY <2>1 DEF IInv, TypeOK
  <2>3. /\ NEW_SINGOBJ(d) \in Seq(Word) /\ NEW_SINGOBJ(d)[2] = d
        /\ Len(NEW_SINGOBJ(d)) = 2
        /\ "intmat" \in Type /\ "intmat" \notin {"poly", "number"}
    BY NewWords DEF Type
  <2>4. QED
    BY <2>1, <2>2, <2>3, NewObjectStep
<1>3. QED
  BY <1>1, <1>2

LEMMA CopyStep ==
  ASSUME IInv, func = NULL, UNCHANGED mvars, NEW b \in Bags, NEW s \in Live,
         NEW i \in BOOLEAN, CopySingObj(b, s, i), IsCopyableSingularType(type[s])
  PROVE  IInv'
<1> DEFINE q == RingForCopy(s)
           c == IF q # NULL THEN q ELSE currRing
<1>1. PICK d \in Unused :
        /\ Fill(b, type[s], i, IF q # NULL THEN NEW_SINGOBJ_RING(d, q) ELSE NEW_SINGOBJ(d),
                ATTRIB_SINGOBJ(s))
        /\ currRing' = c
        /\ alive' = alive \cup {d}
        /\ content' = [content EXCEPT ![d] = content[CXX_SINGOBJ(s)]]
        /\ place' = [place EXCEPT ![d] = IF place[CXX_SINGOBJ(s)] = NULL THEN NULL ELSE c]
        /\ wild' = (wild \/ q = Garbage \/ CXX_SINGOBJ(s) \notin alive)
        /\ shared' = shared
  BY DEF CopySingObj, FreshCopy
<1>2. /\ d \in Data /\ s \in Bags /\ type[s] \in Type /\ ~wild
      /\ CXX_SINGOBJ(s) \in Data /\ ATTRIB_SINGOBJ(s) \in Attr \cup {NULL}
      /\ content[CXX_SINGOBJ(s)] \in {0, 1}
      /\ place[CXX_SINGOBJ(s)] \in Rings \cup {NULL}
      /\ currRing \in Rings \cup {NULL}
  BY <1>1 DEF IInv, TypeOK, Live, Unused, Fill
<1>3. /\ q = IF HasRingTable(type[s]) THEN CXXRING_SINGOBJ(s) ELSE NULL
      /\ q = ReadRing(s)
  BY DEF RingForCopy, ReadRing
<1>4. q \in Rings \cup {NULL, Garbage}
  BY <1>3 DEF IInv, RingWords, CXXRING_SINGOBJ
<1>5. place[CXX_SINGOBJ(s)] # NULL => q = place[CXX_SINGOBJ(s)]
  BY <1>3 DEF IInv, WordsReadable
<1>6. type[s] \in {"poly", "number"} =>
        q \in Rings /\ (CXX_SINGOBJ(s) \in alive => place[CXX_SINGOBJ(s)] # NULL)
  BY <1>2, <1>3, TypesOfWords DEF IInv, RingWords, CXXRING_SINGOBJ
<1>7. NULL \notin Rings /\ (q # NULL => HasRingTable(type[s]))
  BY <1>3, SentinelAssumption
<1> DEFINE words == IF q # NULL THEN NEW_SINGOBJ_RING(d, q) ELSE NEW_SINGOBJ(d)
<1> HIDE DEF q
<1>8. /\ words \in Seq(Word) /\ words[2] = d
      /\ q # NULL => Len(words) = 3 /\ words[3] = q
      /\ q = NULL => Len(words) = 2
  BY <1>2, <1>4, NewWords
<1> HIDE DEF words
<1>9. /\ place' \in [Data -> Rings \cup {NULL}]
      /\ place'[d] = IF place[CXX_SINGOBJ(s)] = NULL THEN NULL ELSE q
      /\ \A e \in Data \ {d} : place'[e] = place[e]
  BY <1>1, <1>2, <1>5, <1>7 DEF IInv, TypeOK
<1>10. content' \in [Data -> {0, 1}]
  BY <1>1, <1>2 DEF IInv, TypeOK
<1>11. wild' \in BOOLEAN /\ (~wild' => currRing' \in Rings \cup {NULL})
  <2>1. wild' <=> q = Garbage \/ CXX_SINGOBJ(s) \notin alive
    BY <1>1, <1>2
  <2>2. wild' \in BOOLEAN
    BY <1>1
  <2>3. QED
    BY <1>1, <1>2, <1>4, <2>1, <2>2
<1>12. Fill(b, type[s], i, words, ATTRIB_SINGOBJ(s))
  BY <1>1 DEF words
<1>13. /\ \/ Len(words) = 2 /\ type[s] \notin {"poly", "number"}
          \/ /\ Len(words) = 3 /\ HasRingTable(type[s])
             /\ words[3] \in Rings \cup {NULL, Garbage}
       /\ type[s] \in {"poly", "number"} => /\ words[3] \in Rings
                                            /\ ~wild' => place'[d] # NULL
       /\ place'[d] # NULL => Len(words) = 3 /\ words[3] = place'[d]
  BY <1>1, <1>2, <1>4, <1>5, <1>6, <1>7, <1>8, <1>9
<1>14. QED
  BY <1>1, <1>2, <1>8, <1>9, <1>10, <1>11, <1>12, <1>13, NewObjectStep

(***************************************************************************)
(* Steps that leave the bags alone.                                        *)
(***************************************************************************)
LEMMA SameBags ==
  ASSUME IInv, UNCHANGED <<type, mem, attrs, shared>>, imm' \in [Bags -> BOOLEAN],
         ~wild,
         \A c \in Live : /\ place'[CXX_SINGOBJ(c)] = place[CXX_SINGOBJ(c)]
                         /\ CXX_SINGOBJ(c) \in alive' <=> CXX_SINGOBJ(c) \in alive
                         /\ CXX_SINGOBJ(c) \notin Copies' \cup leaked',
         \A e \in alive' : \/ e \in Copies' \cup leaked'
                           \/ \E c \in Live : CXX_SINGOBJ(c) = e
  PROVE  /\ type' \in [Bags -> Type] /\ imm' \in [Bags -> BOOLEAN]
         /\ mem' \in [Bags -> Seq(Word)] /\ attrs' \in [Bags -> Attr \cup {NULL}]
         /\ \A c \in Live' : /\ Len(mem'[c]) \in 2..5
                             /\ CXX_SINGOBJ(c)' \in Data
                             /\ ATTRIB_SINGOBJ(c)' \in Attr \cup {NULL}
         /\ shared' \subseteq Data
         /\ Live' = Live /\ \A c \in Live : CXX_SINGOBJ(c)' = CXX_SINGOBJ(c)
         /\ WordsReadable' /\ DataOwnedOnce' /\ RingWords'
<1>1. /\ Live' = Live
      /\ \A c \in Live : /\ CXX_SINGOBJ(c)' = CXX_SINGOBJ(c)
                         /\ ATTRIB_SINGOBJ(c)' = ATTRIB_SINGOBJ(c)
                         /\ ReadRing(c)' = ReadRing(c)
  BY DEF Live, CXX_SINGOBJ, ATTRIB_SINGOBJ, ReadRing, CXXRING_SINGOBJ
<1>2. /\ type' \in [Bags -> Type] /\ mem' \in [Bags -> Seq(Word)]
      /\ attrs' \in [Bags -> Attr \cup {NULL}] /\ shared' \subseteq Data
      /\ \A c \in Live' : /\ Len(mem'[c]) \in 2..5
                          /\ CXX_SINGOBJ(c)' \in Data
                          /\ ATTRIB_SINGOBJ(c)' \in Attr \cup {NULL}
  BY <1>1 DEF IInv, TypeOK
<1>3. WordsReadable'
  BY <1>1 DEF IInv, WordsReadable
<1>4. DataOwnedOnce'
  BY <1>1 DEF IInv, DataOwnedOnce
<1>5. RingWords'
  <2>1. SUFFICES ASSUME NEW c \in Live
                 PROVE  /\ Len(mem[c]) >= 3 /\ HasRingTable(type[c]) =>
                             mem[c][3] \in Rings \cup {NULL, Garbage}
                        /\ type[c] \in {"poly", "number"} =>
                             /\ Len(mem[c]) >= 3 /\ mem[c][3] \in Rings
                             /\ ~wild' /\ CXX_SINGOBJ(c) \in alive' =>
                                  place'[CXX_SINGOBJ(c)] # NULL
    BY <1>1 DEF RingWords, HasRingTable
  <2>2. QED
    BY DEF IInv, RingWords
<1>6. QED
  BY <1>1, <1>2, <1>3, <1>4, <1>5

(***************************************************************************)
(* The data an object points to, and the arguments, in IInv.               *)
(***************************************************************************)
LEMMA Owners ==
  ASSUME IInv
  PROVE  /\ alive \subseteq Data /\ shared \subseteq Data /\ leaked \subseteq alive
         /\ Copies \subseteq alive /\ Copies \cap leaked = {}
         /\ \A c \in Live : /\ CXX_SINGOBJ(c) \in alive \cup shared
                            /\ CXX_SINGOBJ(c) \in Data
                            /\ CXX_SINGOBJ(c) \notin Copies \cup leaked
         /\ \A e \in alive : \/ e \in Copies \cup leaked
                             \/ \E c \in Live : CXX_SINGOBJ(c) = e
         /\ func = NULL => Copies = {}
<1>1. func = NULL => Copies = {}
  BY DEF IInv, TypeOK, Copies
<1>2. \A c \in Live : CXX_SINGOBJ(c) \in Data
  BY DEF IInv, TypeOK
<1>3. QED
  BY <1>1, <1>2 DEF IInv, TypeOK, ArgsOwned, DataOwnedOnce

(***************************************************************************)
(* Modification, mutability, and a new current ring.                       *)
(***************************************************************************)
LEMMA ChangeStep ==
  ASSUME IInv, func = NULL, UNCHANGED mvars, ~wild,
         UNCHANGED <<type, mem, alive, place, attrs, shared>>,
         imm' \in [Bags -> BOOLEAN], content' \in [Data -> {0, 1}],
         wild' \in BOOLEAN, ~wild' => currRing' \in Rings \cup {NULL}
  PROVE  IInv'
<1>1. /\ Copies' = {} /\ ArgsOwned' /\ ArgsUsable'
      /\ func' = NULL /\ args' = <<>> /\ r' = r /\ leaked' = leaked
      /\ args' \in Seq([data : Data, copied : BOOLEAN])
  BY Owners, NoArguments
<1>2. /\ type' \in [Bags -> Type] /\ imm' \in [Bags -> BOOLEAN]
      /\ mem' \in [Bags -> Seq(Word)] /\ attrs' \in [Bags -> Attr \cup {NULL}]
      /\ \A c \in Live' : /\ Len(mem'[c]) \in 2..5
                          /\ CXX_SINGOBJ(c)' \in Data
                          /\ ATTRIB_SINGOBJ(c)' \in Attr \cup {NULL}
      /\ WordsReadable' /\ DataOwnedOnce' /\ RingWords'
  BY <1>1, Owners, SameBags
<1>3. TypeOK'
  BY <1>1, <1>2 DEF IInv, TypeOK
<1>4. QED
  BY <1>1, <1>2, <1>3 DEF IInv

(***************************************************************************)
(* The collector frees an object and its data.                             *)
(***************************************************************************)
LEMMA FreeStep ==
  ASSUME IInv, func = NULL, UNCHANGED mvars, NEW s \in Live, _SI_FreeFunc(s)
  PROVE  IInv'
<1> DEFINE d == CXX_SINGOBJ(s)
<1>1. /\ ~wild
      /\ mem' = [mem EXCEPT ![s] = <<>>] /\ alive' = alive \ {d}
      /\ content' = [content EXCEPT ![d] = 0]
      /\ place' = [place EXCEPT ![d] = NULL]
      /\ imm' = [imm EXCEPT ![s] = FALSE] /\ type' = [type EXCEPT ![s] = "bigint"]
      /\ attrs' = [attrs EXCEPT ![s] = NULL]
      /\ wild' = (ReadRing(s) = Garbage \/ d \notin alive)
      /\ UNCHANGED <<currRing, shared>>
  BY DEF _SI_FreeFunc
<1>2. s \in Bags /\ d \in Data /\ d \notin leaked /\ d \notin Copies
  BY Owners DEF Live
<1>3. /\ Copies' = {} /\ ArgsOwned' /\ ArgsUsable'
      /\ func' = NULL /\ args' = <<>> /\ r' = r /\ leaked' = leaked
      /\ args' \in Seq([data : Data, copied : BOOLEAN])
  BY <1>1, <1>2, Owners, NoArguments
<1>4. /\ mem' \in [Bags -> Seq(Word)] /\ type' \in [Bags -> Type]
      /\ imm' \in [Bags -> BOOLEAN] /\ attrs' \in [Bags -> Attr \cup {NULL}]
      /\ place' \in [Data -> Rings \cup {NULL}] /\ content' \in [Data -> {0, 1}]
      /\ place'[d] = NULL /\ \A e \in Data \ {d} : place'[e] = place[e]
      /\ mem'[s] = <<>>
      /\ \A c \in Bags \ {s} : /\ mem'[c] = mem[c] /\ type'[c] = type[c]
                               /\ attrs'[c] = attrs[c]
  BY <1>1, <1>2 DEF IInv, TypeOK, Type
<1> HIDE DEF d
<1>5. Live' = Live \ {s}
  BY <1>2, <1>4 DEF Live
<1>6. \A c \in Live' : /\ c \in Live /\ mem'[c] = mem[c] /\ type'[c] = type[c]
                       /\ attrs'[c] = attrs[c]
                       /\ CXX_SINGOBJ(c)' = CXX_SINGOBJ(c)
                       /\ ATTRIB_SINGOBJ(c)' = ATTRIB_SINGOBJ(c)
                       /\ ReadRing(c)' = ReadRing(c)
                       /\ CXX_SINGOBJ(c) = d => d \in shared
  BY <1>4, <1>5 DEF Live, CXX_SINGOBJ, ATTRIB_SINGOBJ, ReadRing, CXXRING_SINGOBJ,
     IInv, DataOwnedOnce, d
<1>7. TypeOK'
  <2>1. \A c \in Live' : /\ Len(mem'[c]) \in 2..5
                         /\ CXX_SINGOBJ(c)' \in Data
                         /\ ATTRIB_SINGOBJ(c)' \in Attr \cup {NULL}
    BY <1>6 DEF IInv, TypeOK
  <2>2. wild' \in BOOLEAN
    BY <1>1
  <2>3. QED
    BY <1>1, <1>3, <1>4, <2>1, <2>2 DEF IInv, TypeOK
<1>8. \A c \in Live' : /\ place'[CXX_SINGOBJ(c)] # NULL =>
                            place'[CXX_SINGOBJ(c)] = place[CXX_SINGOBJ(c)]
                       /\ CXX_SINGOBJ(c) \in alive' =>
                            /\ CXX_SINGOBJ(c) \in alive
                            /\ place'[CXX_SINGOBJ(c)] = place[CXX_SINGOBJ(c)]
  BY <1>1, <1>4, <1>6, Owners
<1>9. WordsReadable'
  BY <1>6, <1>8 DEF IInv, WordsReadable
<1>10. DataOwnedOnce'
  <2>1. \A c \in Live' : CXX_SINGOBJ(c) \in alive' \cup shared'
    BY <1>1, <1>6, Owners
  <2>2. \A c, e \in Live' : c # e /\ CXX_SINGOBJ(c) \notin shared' =>
                              CXX_SINGOBJ(c) # CXX_SINGOBJ(e)
    BY <1>1, <1>6 DEF IInv, DataOwnedOnce
  <2>3. \A e \in alive' : \/ e \in leaked'
                          \/ \E c \in Live' : CXX_SINGOBJ(c) = e
    <3>1. ASSUME NEW e \in alive', e \notin leaked'
          PROVE  \E c \in Live' : CXX_SINGOBJ(c) = e
      <4>1. e \in alive /\ e # d /\ e \notin leaked /\ Copies = {}
        BY <1>1, <1>3, <3>1, Owners
      <4>2. PICK c \in Live : CXX_SINGOBJ(c) = e
        BY <4>1, Owners
      <4>3. c \in Live'
        BY <1>5, <4>1, <4>2 DEF d
      <4>4. QED
        BY <4>2, <4>3
    <3>2. QED
      BY <3>1
  <2>4. \A c \in Live' : CXX_SINGOBJ(c) \notin Copies' \cup leaked'
    BY <1>3, <1>6, Owners
  <2>5. QED
    BY <1>3, <1>6, <2>1, <2>2, <2>3, <2>4 DEF DataOwnedOnce
<1>11. RingWords'
  <2>1. SUFFICES ASSUME NEW c \in Live'
                 PROVE  /\ Len(mem'[c]) >= 3 /\ HasRingTable(type'[c]) =>
                             mem'[c][3] \in Rings \cup {NULL, Garbage}
                        /\ type'[c] \in {"poly", "number"} =>
                             /\ Len(mem'[c]) >= 3 /\ mem'[c][3] \in Rings
                             /\ ~wild' /\ CXX_SINGOBJ(c)' \in alive' =>
                                  place'[CXX_SINGOBJ(c)'] # NULL
    BY DEF RingWords, HasRingTable
  <2>2. QED
    BY <1>1, <1>6, <1>8 DEF IInv, RingWords
<1>12. QED
  BY <1>3, <1>7, <1>9, <1>10, <1>11 DEF IInv

(***************************************************************************)
(* The objects outside of a mapping.                                       *)
(***************************************************************************)
LEMMA ObjectsStep ==
  ASSUME IInv, func = NULL, ObjectsNext, UNCHANGED mvars
  PROVE  IInv'
<1>1. ASSUME NEW b \in Bags, NEW s \in Live, ShallowCopyObjSingular(b, s)
      PROVE  IInv'
  BY <1>1, CopyStep DEF ShallowCopyObjSingular
<1>2. ASSUME NEW b \in Bags, NEW s \in Live, NEW mut \in BOOLEAN,
             CopyObjSingular(b, s, mut)
      PROVE  IInv'
  BY <1>2, CopyStep DEF CopyObjSingular
<1>3. ASSUME NEW s \in Live, MakeImmutableSingObj(s) \/ SI_SetMatElm(s) \/ _SI_ObjMarkFunc(s)
      PROVE  IInv'
  <2>1. CXX_SINGOBJ(s) \in Data /\ content[CXX_SINGOBJ(s)] \in {0, 1} /\ s \in Bags
    BY Owners DEF Live, IInv, TypeOK
  <2>2. CASE MakeImmutableSingObj(s)
    BY <2>1, <2>2, ChangeStep DEF MakeImmutableSingObj, IInv, TypeOK
  <2>3. CASE SI_SetMatElm(s)
    <3>1. content' \in [Data -> {0, 1}]
      <4>1. 1 - content[CXX_SINGOBJ(s)] \in {0, 1}
        BY <2>1
      <4>2. content' = [content EXCEPT ![CXX_SINGOBJ(s)] = 1 - content[CXX_SINGOBJ(s)]]
        BY <2>3 DEF SI_SetMatElm
      <4>3. QED
        BY <4>1, <4>2 DEF IInv, TypeOK
    <3>2. wild' \in BOOLEAN
      BY <2>3 DEF SI_SetMatElm
    <3>3. QED
      BY <2>3, <3>1, <3>2, ChangeStep DEF SI_SetMatElm, IInv, TypeOK
  <2>4. CASE _SI_ObjMarkFunc(s)
    BY <2>4, ChangeStep DEF _SI_ObjMarkFunc, IInv, TypeOK
  <2>5. QED
    BY <1>3, <2>2, <2>3, <2>4
<1>4. ASSUME NEW q \in Rings, rChangeCurrRing(q)
      PROVE  IInv'
  BY <1>4, ChangeStep DEF rChangeCurrRing, IInv, TypeOK
<1>5. QED
  BY <1>1, <1>2, <1>3, <1>4, WrapStep, FreeStep DEF ObjectsNext

(***************************************************************************)
(* The arguments after one more.                                           *)
(***************************************************************************)
Argument == [data : Data, copied : BOOLEAN]

LEMMA AppendArgument ==
  ASSUME NEW old \in Seq(Argument), NEW x \in Argument, NEW new, new = Append(old, x)
  PROVE  /\ new \in Seq(Argument) /\ Len(new) = Len(old) + 1 /\ new # <<>>
         /\ DOMAIN old = 1..Len(old) /\ DOMAIN new = 1..(Len(old) + 1)
         /\ \A i \in 1..Len(old) : new[i] = old[i]
         /\ new[Len(old) + 1] = x
  OBVIOUS

LEMMA CopiesAfter ==
  ASSUME args \in Seq(Argument), NEW x \in Argument, args' = Append(args, x)
  PROVE  Copies' = IF x.copied THEN Copies \cup {x.data} ELSE Copies
<1>1. /\ DOMAIN args = 1..Len(args) /\ DOMAIN args' = 1..(Len(args) + 1)
      /\ \A i \in 1..Len(args) : args'[i] = args[i]
      /\ args'[Len(args) + 1] = x /\ Len(args) \in Nat
  BY AppendArgument
<1>2. 1..(Len(args) + 1) = (1..Len(args)) \cup {Len(args) + 1}
  BY <1>1
<1>3. QED
  BY <1>1, <1>2 DEF Copies

LEMMA TakeArgStep ==
  ASSUME IInv, NEW s \in Live, NEW part \in BOOLEAN, TakeArg(s, part)
  PROVE  IInv'
<1> DEFINE x == CXX_SINGOBJ(s)
           q == ReadRing(s)
           n == Len(args)
<1>1. /\ ~wild /\ func # NULL /\ func \in Mappings /\ n < Len(Params[func])
      /\ args \in Seq(Argument) /\ DOMAIN args = 1..n /\ n \in Nat
      /\ s \in Bags /\ x \in Data /\ type[s] \in Type
  BY DEF TakeArg, TakesArgument, IInv, TypeOK, Live, Argument
<1>2. /\ Len(Params[func]) \in 1..3 /\ n + 1 \in 1..Len(Params[func])
      /\ NextParam = Params[func][n + 1]
      /\ NextParam.type \in {"poly", "number"} /\ NextParam.destroys \in BOOLEAN
  BY <1>1, PrototypeFacts DEF NextParam
<1>3. /\ HasRingTable(type[s]) /\ q \in Rings
      /\ place[x] # NULL => q = place[x]
      /\ x \in alive => place[x] # NULL
  <2>1. Fits(s, part)
    BY DEF TakeArg
  <2>2. place[x] # NULL => q = place[x]
    BY DEF IInv, WordsReadable
  <2>3. CASE part /\ type[s] = "list"
    <3>1. place[x] # NULL
      BY <2>1, <2>3 DEF Fits
    <3>2. place[x] \in Rings
      BY <1>1, <3>1 DEF IInv, TypeOK
    <3>3. QED
      BY <1>1, <2>2, <2>3, <3>1, <3>2, TypesOfWords
  <2>4. CASE ~(part /\ type[s] = "list")
    <3>1. type[s] \in {"poly", "number"}
      BY <1>2, <2>1, <2>4 DEF Fits
    <3>2. HasRingTable(type[s])
      BY <1>1, <3>1, TypesOfWords
    <3>3. Len(mem[s]) >= 3 /\ mem[s][3] \in Rings /\ (x \in alive => place[x] # NULL)
      BY <1>1, <3>1 DEF IInv, RingWords
    <3>4. QED
      BY <2>2, <3>2, <3>3 DEF ReadRing, CXXRING_SINGOBJ
  <2>5. QED
    BY <2>3, <2>4
<1>4. r' = q /\ currRing' = q /\ wild' = (x \notin alive)
  <2>1. \A o : RingSet(s, part, o) = q
    BY <1>3, SentinelAssumption DEF RingSet
  <2>2. q # Garbage
    BY <1>3, SentinelAssumption
  <2>3. QED
    BY <2>1, <2>2 DEF TakeArg
<1>5. UNCHANGED <<type, imm, mem, attrs, shared, func, leaked>>
  BY DEF TakeArg
<1> HIDE DEF q
<1>6. \A c \in Live : CXX_SINGOBJ(c) \notin Copies \cup leaked
  BY Owners
<1>7. PICK y \in Argument :
        /\ args' = Append(args, y)
        /\ y.copied = NextParam.destroys
        /\ IF y.copied
           THEN /\ y.data \in Unused
                /\ alive' = alive \cup {y.data}
                /\ content' = [content EXCEPT ![y.data] = content[x]]
                /\ place' = [place EXCEPT ![y.data] = q]
           ELSE y.data = x /\ UNCHANGED <<alive, content, place>>
  <2>1. CASE NextParam.destroys
    <3>1. PICK c \in Unused : /\ args' = Append(args, [data |-> c, copied |-> TRUE])
                              /\ alive' = alive \cup {c}
                              /\ content' = [content EXCEPT ![c] = content[x]]
                              /\ place' = [place EXCEPT ![c] = currRing']
      BY <2>1 DEF TakeArg, NeedsCopy, FreshCopy
    <3>2. [data |-> c, copied |-> TRUE] \in Argument
      BY <3>1 DEF Unused, Argument
    <3>3. WITNESS [data |-> c, copied |-> TRUE] \in Argument
    <3>4. QED
      BY <1>4, <2>1, <3>1
  <2>2. CASE ~NextParam.destroys
    <3>1. /\ args' = Append(args, [data |-> x, copied |-> FALSE])
          /\ UNCHANGED <<alive, content, place>>
      BY <2>2 DEF TakeArg, NeedsCopy
    <3>2. [data |-> x, copied |-> FALSE] \in Argument
      BY <1>1 DEF Argument
    <3>3. WITNESS [data |-> x, copied |-> FALSE] \in Argument
    <3>4. QED
      BY <1>2, <2>2, <3>1
  <2>3. QED
    BY <2>1, <2>2
<1>8. /\ args' \in Seq(Argument) /\ Len(args') = n + 1 /\ args' # <<>>
      /\ DOMAIN args' = 1..(n + 1)
      /\ \A i \in 1..n : args'[i] = args[i]
      /\ args'[n + 1] = y
  BY <1>1, <1>7, AppendArgument
<1>9. Copies' = IF y.copied THEN Copies \cup {y.data} ELSE Copies
  BY <1>1, <1>7, CopiesAfter
<1>10. y.data \in Data /\ y.copied \in BOOLEAN
  BY DEF Argument
<1> HIDE DEF n
<1>11. /\ place' \in [Data -> Rings \cup {NULL}] /\ content' \in [Data -> {0, 1}]
       /\ y.copied => place'[y.data] = q
       /\ \A e \in Data : e \notin Unused => place'[e] = place[e]
       /\ alive \subseteq alive' /\ alive' \subseteq Data
       /\ \A e \in Data : e \notin Unused => (e \in alive' <=> e \in alive)
  <2>1. content[x] \in {0, 1} /\ alive \subseteq Data
    BY <1>1 DEF IInv, TypeOK
  <2>2. CASE y.copied
    <3>1. PICK e \in Unused : e = y.data
      BY <1>7, <2>2
    <3>2. /\ alive' = alive \cup {e}
          /\ content' = [content EXCEPT ![e] = content[x]]
          /\ place' = [place EXCEPT ![e] = q]
      BY <1>7, <2>2, <3>1
    <3>3. e \in Data
      BY <3>1 DEF Unused
    <3>4. content \in [Data -> {0, 1}] /\ place \in [Data -> Rings \cup {NULL}]
      BY DEF IInv, TypeOK
    <3>5. place' \in [Data -> Rings \cup {NULL}] /\ content' \in [Data -> {0, 1}]
      BY <1>3, <2>1, <3>2, <3>4
    <3>6. /\ place'[e] = q
          /\ \A f \in Data : f # e => place'[f] = place[f]
      BY <3>2, <3>3, <3>4
    <3>7. QED
      BY <2>1, <3>1, <3>2, <3>3, <3>5, <3>6
  <2>3. CASE ~y.copied
    BY <1>7, <1>10, <2>1, <2>3 DEF IInv, TypeOK
  <2>4. QED
    BY <2>2, <2>3
<1>12. \A c \in Live : /\ CXX_SINGOBJ(c) \notin Unused /\ CXX_SINGOBJ(c) \in Data
                       /\ CXX_SINGOBJ(c) \notin Copies' \cup leaked'
  BY <1>5, <1>7, <1>9, Owners DEF Unused
<1>13. \A e \in alive' : \/ e \in Copies' \cup leaked'
                         \/ \E c \in Live : CXX_SINGOBJ(c) = e
  BY <1>5, <1>7, <1>9, Owners
<1>14. /\ type' \in [Bags -> Type] /\ imm' \in [Bags -> BOOLEAN]
       /\ mem' \in [Bags -> Seq(Word)] /\ attrs' \in [Bags -> Attr \cup {NULL}]
       /\ \A c \in Live' : /\ Len(mem'[c]) \in 2..5
                           /\ CXX_SINGOBJ(c)' \in Data
                           /\ ATTRIB_SINGOBJ(c)' \in Attr \cup {NULL}
       /\ shared' \subseteq Data
       /\ Live' = Live /\ \A c \in Live : CXX_SINGOBJ(c)' = CXX_SINGOBJ(c)
       /\ WordsReadable' /\ DataOwnedOnce' /\ RingWords'
  <2>1. imm' \in [Bags -> BOOLEAN]
    BY <1>5 DEF IInv, TypeOK
  <2>2. QED
    BY <1>1, <1>5, <1>11, <1>12, <1>13, <2>1, SameBags
<1>15. ArgsOwned'
  <2>1. \A i \in DOMAIN args' : args'[i].copied = Params[func'][i].destroys
    BY <1>1, <1>2, <1>5, <1>7, <1>8 DEF IInv, ArgsOwned
  <2>2. \A i \in DOMAIN args' :
          ~args'[i].copied => \E c \in Live' : CXX_SINGOBJ(c)' = args'[i].data
    BY <1>1, <1>7, <1>8, <1>14 DEF IInv, ArgsOwned
  <2>3. Copies' \cup leaked' \subseteq alive'
    BY <1>5, <1>7, <1>9, <1>11, Owners
  <2>4. Copies' \cap leaked' = {}
    BY <1>5, <1>7, <1>9, Owners DEF Unused
  <2>5. QED
    BY <2>1, <2>2, <2>3, <2>4 DEF ArgsOwned
<1>16. ArgsUsable'
  <2>1. SUFFICES ASSUME x \in alive
                 PROVE  /\ \A i \in 1..(n + 1) : /\ args'[i].data \in alive'
                                                 /\ place'[args'[i].data] # NULL
                        /\ r' = place'[args'[n + 1].data] /\ currRing' = r'
    BY <1>4, <1>8 DEF ArgsUsable
  <2>2. y.data \in alive' /\ place'[y.data] = q /\ q # NULL
    BY <1>3, <1>7, <1>11, <2>1, SentinelAssumption
  <2>3. \A i \in 1..n : args'[i].data \in alive' /\ place'[args'[i].data] # NULL
    <3>1. \A i \in 1..n : args[i].data \in alive /\ place[args[i].data] # NULL
      BY <1>1 DEF IInv, ArgsUsable
    <3>2. \A e \in alive : e \in Data /\ e \notin Unused
      BY Owners DEF Unused
    <3>3. QED
      BY <1>8, <1>11, <3>1, <3>2
  <2>4. \A i \in 1..(n + 1) : i \in 1..n \/ i = n + 1
    BY <1>1
  <2>5. QED
    BY <1>4, <1>8, <2>2, <2>3, <2>4
<1>17. TypeOK'
  <2>1. func' # NULL => Len(args') \in 0..Len(Params[func'])
    BY <1>1, <1>2, <1>5, <1>8
  <2>2. wild' \in BOOLEAN /\ {currRing', r'} \subseteq Rings \cup {NULL}
    BY <1>3, <1>4
  <2>3. leaked' \subseteq Data /\ func' \in Mappings \cup {NULL} /\ func' # NULL
    BY <1>1, <1>5 DEF IInv, TypeOK
  <2>4. QED
    BY <1>8, <1>11, <1>14, <2>1, <2>2, <2>3 DEF TypeOK, Argument
<1>18. QED
  BY <1>14, <1>15, <1>16, <1>17 DEF IInv

(***************************************************************************)
(* The end of a mapping.                                                   *)
(***************************************************************************)
LEMMA AfterEnd ==
  ASSUME End, leaked' \subseteq alive'
  PROVE  /\ Copies' = {} /\ ArgsOwned' /\ ArgsUsable'
         /\ func' = NULL /\ args' = <<>> /\ r' = NULL
         /\ args' \in Seq([data : Data, copied : BOOLEAN])
<1>1. func' = NULL /\ args' = <<>> /\ r' = NULL
  BY DEF End
<1>2. DOMAIN args' = {}
  BY <1>1
<1>3. Copies' = {}
  BY <1>2 DEF Copies
<1>4. QED
  BY <1>1, <1>2, <1>3 DEF ArgsOwned, ArgsUsable

(***************************************************************************)
(* The arguments when the kernel is called.                                *)
(***************************************************************************)
LEMMA AllArguments ==
  ASSUME IInv, CallsKernel
  PROVE  /\ ~wild /\ func \in Mappings /\ Len(args) \in 1..3 /\ args # <<>>
         /\ DOMAIN args = 1..Len(args) /\ Destroyed = Copies
         /\ \A i \in 1..Len(args) : /\ args[i].data \in alive
                                    /\ place[args[i].data] # NULL
         /\ r \in Rings /\ r = place[args[Len(args)].data] /\ currRing = r
         /\ func \in ReturnsNoObject \cup ReturnsArgument =>
              Len(args) = 1 /\ ~args[1].copied /\ Copies = {}
<1>1. /\ ~wild /\ func \in Mappings /\ Len(args) = Len(Params[func])
      /\ args \in Seq(Argument)
  BY DEF CallsKernel, IInv, TypeOK, Argument
<1>2. Len(args) \in 1..3 /\ DOMAIN args = 1..Len(args) /\ args # <<>>
  BY <1>1, PrototypeFacts
<1>3. \A i \in DOMAIN args : args[i].copied = Params[func][i].destroys
  BY DEF IInv, ArgsOwned
<1>4. Destroyed = Copies
  BY <1>3 DEF Destroyed, Copies
<1>5. /\ \A i \in 1..Len(args) : /\ args[i].data \in alive
                                 /\ place[args[i].data] # NULL
      /\ r = place[args[Len(args)].data] /\ currRing = r
  BY <1>1, <1>2 DEF IInv, ArgsUsable
<1>6. r \in Rings
  <2>1. Len(args) \in 1..Len(args)
    BY <1>2
  <2>2. args[Len(args)].data \in Data /\ place[args[Len(args)].data] # NULL
    BY <1>5, <2>1, Owners
  <2>3. QED
    BY <1>5, <2>2 DEF IInv, TypeOK
<1>7. ASSUME func \in ReturnsNoObject \cup ReturnsArgument
      PROVE  Len(args) = 1 /\ ~args[1].copied /\ Copies = {}
  <2>1. Len(args) = 1 /\ ~args[1].copied
    BY <1>1, <1>2, <1>3, <1>7, PrototypeFacts
  <2>2. DOMAIN args = {1}
    BY <1>2, <2>1
  <2>3. QED
    BY <2>1, <2>2 DEF Copies
<1>8. QED
  BY <1>1, <1>2, <1>4, <1>5, <1>6, <1>7

LEMMA StartStep ==
  ASSUME IInv, NEW f \in Mappings, StartMapping(f)
  PROVE  IInv'
<1>1. /\ ~wild /\ func = NULL /\ func' = f /\ r' = currRing
      /\ args' = <<>> /\ leaked' = leaked /\ UNCHANGED ovars
  BY DEF StartMapping, IInv, TypeOK
<1>2. DOMAIN args' = {} /\ Len(args') = 0
  BY <1>1
<1>3. Copies' = {} /\ Copies = {}
  BY <1>1, <1>2, Owners DEF Copies
<1>4. UNCHANGED <<type, imm, mem, alive, content, currRing, place, attrs, shared, wild>>
  BY <1>1 DEF ovars
<1>5. /\ type' \in [Bags -> Type] /\ imm' \in [Bags -> BOOLEAN]
      /\ mem' \in [Bags -> Seq(Word)] /\ attrs' \in [Bags -> Attr \cup {NULL}]
      /\ \A c \in Live' : /\ Len(mem'[c]) \in 2..5
                          /\ CXX_SINGOBJ(c)' \in Data
                          /\ ATTRIB_SINGOBJ(c)' \in Attr \cup {NULL}
      /\ WordsReadable' /\ DataOwnedOnce' /\ RingWords'
  <2>1. imm' \in [Bags -> BOOLEAN]
    BY <1>4 DEF IInv, TypeOK
  <2>2. QED
    BY <1>1, <1>3, <1>4, <2>1, Owners, SameBags
<1>6. ArgsOwned' /\ ArgsUsable'
  BY <1>1, <1>2, <1>3, <1>4, Owners DEF ArgsOwned, ArgsUsable
<1>7. TypeOK'
  <2>1. Len(Params[f]) \in 1..3
    BY PrototypeFacts
  <2>2. /\ func' # NULL => Len(args') \in 0..Len(Params[func'])
        /\ func' = NULL => args' = <<>>
        /\ args' \in Seq([data : Data, copied : BOOLEAN])
    BY <1>1, <1>2, <2>1
  <2>3. QED
    BY <1>1, <1>4, <1>5, <2>2 DEF IInv, TypeOK
<1>8. QED
  BY <1>5, <1>6, <1>7 DEF IInv

(***************************************************************************)
(* Refused arguments, and results that are no objects.                     *)
(***************************************************************************)
LEMMA EndStep ==
  ASSUME IInv, ~wild, End,
         leaked' = leaked \cup Copies,
         wild' \in BOOLEAN, ~wild' => currRing' \in Rings \cup {NULL},
         UNCHANGED <<type, imm, mem, alive, content, place, attrs, shared>>
  PROVE  IInv'
<1>1. /\ Copies' = {} /\ ArgsOwned' /\ ArgsUsable'
      /\ func' = NULL /\ args' = <<>> /\ r' = NULL
      /\ args' \in Seq([data : Data, copied : BOOLEAN])
  BY Owners, AfterEnd
<1>2. imm' \in [Bags -> BOOLEAN]
  BY DEF IInv, TypeOK
<1>3. /\ type' \in [Bags -> Type] /\ imm' \in [Bags -> BOOLEAN]
      /\ mem' \in [Bags -> Seq(Word)] /\ attrs' \in [Bags -> Attr \cup {NULL}]
      /\ \A c \in Live' : /\ Len(mem'[c]) \in 2..5
                          /\ CXX_SINGOBJ(c)' \in Data
                          /\ ATTRIB_SINGOBJ(c)' \in Attr \cup {NULL}
      /\ WordsReadable' /\ DataOwnedOnce' /\ RingWords'
  BY <1>1, <1>2, Owners, SameBags
<1>4. leaked' \subseteq Data
  BY Owners
<1>5. TypeOK'
  BY <1>1, <1>3, <1>4 DEF IInv, TypeOK
<1>6. QED
  BY <1>1, <1>3, <1>5 DEF IInv

LEMMA RefuseStep ==
  /\ IInv /\ RefuseOther => IInv'
  /\ \A s \in Live, part \in BOOLEAN : IInv /\ RefuseArg(s, part) => IInv'
  /\ IInv /\ ReturnNoObject => IInv'
<1>1. ASSUME IInv, RefuseOther
      PROVE  IInv'
  <2>1. ~wild /\ currRing \in Rings \cup {NULL}
    BY <1>1 DEF RefuseOther, TakesArgument, IInv, TypeOK
  <2>2. /\ End /\ leaked' = leaked \cup Copies
        /\ UNCHANGED <<type, imm, mem, alive, content, currRing, place, attrs, shared, wild>>
    BY <1>1 DEF RefuseOther, ovars
  <2>3. wild' \in BOOLEAN /\ currRing' \in Rings \cup {NULL}
    BY <1>1, <2>1, <2>2 DEF IInv, TypeOK
  <2>4. QED
    BY <1>1, <2>1, <2>2, <2>3, EndStep
<1>2. ASSUME IInv, NEW s \in Live, NEW part \in BOOLEAN, RefuseArg(s, part)
      PROVE  IInv'
  <2>1. ~wild /\ currRing \in Rings \cup {NULL}
    BY <1>2 DEF RefuseArg, TakesArgument, IInv, TypeOK
  <2>2. ReadRing(s) \in Rings \cup {NULL, Garbage}
    BY <1>2 DEF IInv, RingWords, ReadRing, CXXRING_SINGOBJ
  <2>3. currRing' \in Rings \cup {NULL, Garbage}
    BY <1>2, <2>1, <2>2 DEF RefuseArg, RingSet
  <2>4. wild' \in BOOLEAN /\ (~wild' => currRing' \in Rings \cup {NULL})
    <3>1. wild' = (currRing' = Garbage)
      BY <1>2 DEF RefuseArg
    <3>2. QED
      BY <2>3, <3>1
  <2>5. /\ End /\ leaked' = leaked \cup Copies
        /\ UNCHANGED <<type, imm, mem, alive, content, place, attrs, shared>>
    BY <1>2 DEF RefuseArg
  <2>6. QED
    BY <1>2, <2>1, <2>4, <2>5, EndStep
<1>3. ASSUME IInv, ReturnNoObject
      PROVE  IInv'
  <2>1. /\ CallsKernel /\ func \in ReturnsNoObject /\ End
        /\ wild' \in BOOLEAN
        /\ UNCHANGED <<type, imm, mem, alive, content, currRing, place, attrs, shared, leaked>>
    BY <1>3 DEF ReturnNoObject
  <2>2. ~wild /\ Copies = {} /\ currRing \in Rings
    BY <1>3, <2>1, AllArguments
  <2>3. QED
    BY <1>3, <2>1, <2>2, EndStep
<1>4. QED
  BY <1>1, <1>2, <1>3

(***************************************************************************)
(* Results that are objects.                                               *)
(***************************************************************************)
LEMMA ReturnPolyStep ==
  ASSUME IInv, NEW b \in Bags, ReturnPoly(b)
  PROVE  IInv'
<1>1. /\ CallsKernel /\ End
      /\ wild' \in BOOLEAN /\ UNCHANGED <<currRing, shared, leaked>>
  BY DEF ReturnPoly
<1>2. PICK d \in Unused \cup (Destroyed \ shared) :
        /\ Fill(b, "poly", FALSE, NEW_SINGOBJ_RING(d, r), NULL)
        /\ alive' = (alive \ Destroyed) \cup {d}
        /\ content' = [e \in Data |-> IF e \in Destroyed \cup {d} THEN 0 ELSE content[e]]
        /\ place' = [e \in Data |-> IF e = d THEN r
                                    ELSE IF e \in Destroyed THEN NULL ELSE place[e]]
  BY DEF ReturnPoly
<1>3. r \in Rings /\ currRing = r /\ Destroyed = Copies
  BY <1>1, AllArguments
<1>4. d \in Data /\ d \notin leaked
  BY <1>2, <1>3, Owners DEF Unused
<1>5. \A c \in Live : /\ CXX_SINGOBJ(c) # d /\ CXX_SINGOBJ(c) \notin Copies \cup leaked
                      /\ CXX_SINGOBJ(c) \in Data /\ CXX_SINGOBJ(c) \in alive \cup shared
  BY <1>2, <1>3, Owners DEF Unused
<1>6. leaked' \subseteq alive' /\ alive' \subseteq Data
  BY <1>1, <1>2, <1>3, <1>4, Owners
<1>7. /\ Copies' = {} /\ ArgsOwned' /\ ArgsUsable'
      /\ func' = NULL /\ args' = <<>> /\ r' = NULL
      /\ args' \in Seq([data : Data, copied : BOOLEAN])
  BY <1>1, <1>6, AfterEnd
<1>8. /\ place' \in [Data -> Rings \cup {NULL}] /\ content' \in [Data -> {0, 1}]
      /\ place'[d] = r
      /\ \A c \in Live : place'[CXX_SINGOBJ(c)] = place[CXX_SINGOBJ(c)]
  <2>1. place \in [Data -> Rings \cup {NULL}] /\ content \in [Data -> {0, 1}]
    BY DEF IInv, TypeOK
  <2>2. QED
    BY <1>2, <1>3, <1>4, <1>5, <2>1
<1>9. /\ NEW_SINGOBJ_RING(d, r) \in Seq(Word) /\ Len(NEW_SINGOBJ_RING(d, r)) = 3
      /\ NEW_SINGOBJ_RING(d, r)[2] = d /\ NEW_SINGOBJ_RING(d, r)[3] = r
      /\ "poly" \in Type /\ HasRingTable("poly") /\ FALSE \in BOOLEAN
      /\ NULL \notin Rings
  BY <1>3, <1>4, NewWords, TypesOfWords, SentinelAssumption
<1> DEFINE words == NEW_SINGOBJ_RING(d, r)
<1>10. Fill(b, "poly", FALSE, words, NULL) /\ NULL \in Attr \cup {NULL}
  BY <1>2
<1>11. /\ d \in alive' \cup shared' /\ shared' \subseteq Data /\ shared \subseteq shared'
       /\ d \notin Copies' \cup leaked'
       /\ \A c \in Live : /\ CXX_SINGOBJ(c) \in alive' \cup shared'
                          /\ CXX_SINGOBJ(c) # d
                          /\ CXX_SINGOBJ(c) \notin Copies' \cup leaked'
                          /\ CXX_SINGOBJ(c) \in alive' => CXX_SINGOBJ(c) \in alive
       /\ \A e \in alive' : \/ e = d \/ e \in Copies' \cup leaked'
                            \/ \E c \in Live : CXX_SINGOBJ(c) = e
  BY <1>1, <1>2, <1>3, <1>4, <1>5, <1>7, Owners
<1>12. /\ words \in Seq(Word) /\ Len(words) = 3 /\ words[2] = d /\ words[3] = r
       /\ place'[d] # NULL
  BY <1>3, <1>8, <1>9
<1> HIDE DEF words
<1>13. /\ type' \in [Bags -> Type] /\ imm' \in [Bags -> BOOLEAN]
       /\ mem' \in [Bags -> Seq(Word)] /\ attrs' \in [Bags -> Attr \cup {NULL}]
       /\ \A c \in Live' : /\ Len(mem'[c]) \in 2..5
                           /\ CXX_SINGOBJ(c)' \in Data
                           /\ ATTRIB_SINGOBJ(c)' \in Attr \cup {NULL}
       /\ WordsReadable' /\ DataOwnedOnce' /\ RingWords'
  BY <1>3, <1>4, <1>6, <1>8, <1>9, <1>10, <1>11, <1>12, NewObject, ZenonT(60)
<1>14. TypeOK'
  <2>1. leaked' \subseteq Data /\ {currRing', r'} \subseteq Rings \cup {NULL}
    BY <1>1, <1>3, <1>7, Owners
  <2>2. QED
    BY <1>1, <1>6, <1>7, <1>8, <1>11, <1>13, <2>1 DEF TypeOK
<1>15. QED
  BY <1>7, <1>13, <1>14 DEF IInv

LEMMA ReturnArgumentStep ==
  ASSUME IInv, NEW b \in Bags, ReturnArgument(b)
  PROVE  IInv'
<1> DEFINE d == args[1].data
           words == NEW_SINGOBJ_RING(d, r)
<1>1. /\ CallsKernel /\ func \in ReturnsArgument /\ End
      /\ Fill(b, "poly", FALSE, words, NULL)
      /\ content' = [content EXCEPT ![d] = 1 - @]
      /\ shared' = shared \cup {d}
      /\ wild' \in BOOLEAN /\ UNCHANGED <<alive, currRing, place, leaked>>
  BY DEF ReturnArgument
<1>2. /\ Len(args) = 1 /\ ~args[1].copied /\ Copies = {} /\ 1 \in DOMAIN args
      /\ d \in alive /\ place[d] # NULL
      /\ r \in Rings /\ r = place[d] /\ currRing = r
  <2>1. Len(args) = 1
    BY <1>1, AllArguments
  <2>2. 1 \in 1..1
    OBVIOUS
  <2>3. QED
    BY <1>1, <2>1, <2>2, AllArguments
<1>3. PICK s \in Live : CXX_SINGOBJ(s) = d
  BY <1>2 DEF IInv, ArgsOwned
<1>4. d \in Data /\ d \notin leaked
  BY <1>2, <1>3, Owners
<1>5. leaked' \subseteq alive' /\ alive' \subseteq Data
  BY <1>1, Owners
<1>6. /\ Copies' = {} /\ ArgsOwned' /\ ArgsUsable'
      /\ func' = NULL /\ args' = <<>> /\ r' = NULL
      /\ args' \in Seq([data : Data, copied : BOOLEAN])
  BY <1>1, <1>5, AfterEnd
<1>7. content' \in [Data -> {0, 1}] /\ place' \in [Data -> Rings \cup {NULL}]
  <2>1. content \in [Data -> {0, 1}] /\ content[d] \in {0, 1}
    BY <1>4 DEF IInv, TypeOK
  <2>2. 1 - content[d] \in {0, 1}
    BY <2>1
  <2>3. place' \in [Data -> Rings \cup {NULL}]
    BY <1>1 DEF IInv, TypeOK
  <2>4. content' = [content EXCEPT ![d] = 1 - content[d]]
    BY <1>1
  <2>5. QED
    BY <2>1, <2>2, <2>3, <2>4
<1>8. /\ NEW_SINGOBJ_RING(d, r) \in Seq(Word) /\ Len(NEW_SINGOBJ_RING(d, r)) = 3
      /\ NEW_SINGOBJ_RING(d, r)[2] = d /\ NEW_SINGOBJ_RING(d, r)[3] = r
      /\ "poly" \in Type /\ HasRingTable("poly") /\ FALSE \in BOOLEAN
      /\ NULL \notin Rings
  BY <1>2, <1>4, NewWords, TypesOfWords, SentinelAssumption
<1>9. /\ words \in Seq(Word) /\ Len(words) = 3 /\ words[2] = d /\ words[3] = r
  BY <1>8
<1> HIDE DEF words, d
<1>10. /\ d \in alive' \cup shared' /\ shared' \subseteq Data /\ shared \subseteq shared'
       /\ d \notin Copies' \cup leaked' /\ d \in shared' /\ place' = place
       /\ \A c \in Live : /\ CXX_SINGOBJ(c) \in alive' \cup shared'
                          /\ CXX_SINGOBJ(c) \notin Copies' \cup leaked'
                          /\ CXX_SINGOBJ(c) \in alive' => CXX_SINGOBJ(c) \in alive
       /\ \A e \in alive' : \/ e = d \/ e \in Copies' \cup leaked'
                            \/ \E c \in Live : CXX_SINGOBJ(c) = e
  BY <1>1, <1>2, <1>4, <1>6, Owners
<1>11. /\ type' \in [Bags -> Type] /\ imm' \in [Bags -> BOOLEAN]
       /\ mem' \in [Bags -> Seq(Word)] /\ attrs' \in [Bags -> Attr \cup {NULL}]
       /\ \A c \in Live' : /\ Len(mem'[c]) \in 2..5
                           /\ CXX_SINGOBJ(c)' \in Data
                           /\ ATTRIB_SINGOBJ(c)' \in Attr \cup {NULL}
       /\ WordsReadable' /\ DataOwnedOnce' /\ RingWords'
  <2>1. NULL \in Attr \cup {NULL} /\ place'[d] = r /\ place'[d] # NULL
    BY <1>2, <1>10
  <2>2. \A c \in Live : /\ CXX_SINGOBJ(c) = d => d \in shared'
                        /\ place'[CXX_SINGOBJ(c)] = place[CXX_SINGOBJ(c)]
                        /\ place'[d] = place[d]
    BY <1>10
  <2>3. Fill(b, "poly", FALSE, words, NULL)
    BY <1>1
  <2>4. QED
    BY <1>2, <1>4, <1>5, <1>8, <1>9, <1>10, <2>1, <2>2, <2>3, NewObject
<1>12. TypeOK'
  <2>1. leaked' \subseteq Data /\ {currRing', r'} \subseteq Rings \cup {NULL}
    BY <1>1, <1>2, <1>6, Owners
  <2>2. QED
    BY <1>1, <1>5, <1>6, <1>7, <1>10, <1>11, <2>1 DEF TypeOK
<1>13. QED
  BY <1>6, <1>11, <1>12 DEF IInv

(***************************************************************************)
(* The invariant.                                                          *)
(***************************************************************************)
LEMMA InitIInv == Init => IInv
<1>1. SUFFICES ASSUME Init PROVE IInv
  OBVIOUS
<1>2. Live = {} /\ args = <<>> /\ alive = {} /\ leaked = {} /\ DOMAIN args = {}
  BY <1>1 DEF Init, ObjectsInit, Live
<1>3. Copies = {}
  BY <1>2 DEF Copies
<1>4. TypeOK
  <2>1. \A S : <<>> \in Seq(S)
    OBVIOUS
  <2>2. mem \in [Bags -> Seq(Word)]
    BY <1>1, <2>1 DEF Init, ObjectsInit
  <2>3. type \in [Bags -> Type]
    BY <1>1 DEF Init, ObjectsInit, Type
  <2>4. QED
    BY <1>1, <1>2, <2>1, <2>2, <2>3 DEF Init, ObjectsInit, TypeOK
<1>5. WordsReadable /\ DataOwnedOnce /\ RingWords
  BY <1>2, <1>3 DEF WordsReadable, DataOwnedOnce, RingWords
<1>6. ArgsOwned /\ ArgsUsable
  BY <1>2, <1>3 DEF ArgsOwned, ArgsUsable
<1>7. QED
  BY <1>4, <1>5, <1>6 DEF IInv

LEMMA StutterStep == IInv /\ UNCHANGED vars => IInv'
<1>1. SUFFICES ASSUME IInv, UNCHANGED vars PROVE IInv'
  OBVIOUS
<1>2. /\ UNCHANGED <<type, imm, mem, alive, content, currRing, place, attrs, shared, wild>>
      /\ UNCHANGED <<func, r, args, leaked>>
  BY <1>1 DEF vars, ovars, mvars
<1>3. /\ Live' = Live /\ Copies' = Copies
      /\ \A c : /\ CXX_SINGOBJ(c)' = CXX_SINGOBJ(c)
                /\ ATTRIB_SINGOBJ(c)' = ATTRIB_SINGOBJ(c)
                /\ ReadRing(c)' = ReadRing(c)
  BY <1>2 DEF Live, Copies, CXX_SINGOBJ, ATTRIB_SINGOBJ, ReadRing, CXXRING_SINGOBJ
<1>4. TypeOK'
  BY <1>1, <1>2, <1>3 DEF IInv, TypeOK
<1>5. WordsReadable' /\ DataOwnedOnce'
  BY <1>1, <1>2, <1>3 DEF IInv, WordsReadable, DataOwnedOnce
<1>6. RingWords' /\ ArgsOwned' /\ ArgsUsable'
  BY <1>1, <1>2, <1>3 DEF IInv, RingWords, ArgsOwned, ArgsUsable
<1>7. QED
  BY <1>4, <1>5, <1>6 DEF IInv

(***************************************************************************)
(* The words of the bags, the owners of the data and the arguments of the  *)
(* running function are right in every reachable state.                    *)
(***************************************************************************)
THEOREM Invariance == Spec => []IInv
<1>1. Init => IInv
  BY InitIInv
<1>2. IInv /\ [Next]_vars => IInv'
  <2>1. SUFFICES ASSUME IInv, Next PROVE IInv'
    BY StutterStep
  <2>2. CASE func = NULL /\ ObjectsNext /\ UNCHANGED mvars
    BY <2>1, <2>2, ObjectsStep
  <2>3. ASSUME NEW f \in Mappings, StartMapping(f)
        PROVE  IInv'
    BY <2>1, <2>3, StartStep
  <2>4. ASSUME NEW s \in Live, NEW part \in BOOLEAN,
               TakeArg(s, part) \/ RefuseArg(s, part)
        PROVE  IInv'
    BY <2>1, <2>4, TakeArgStep, RefuseStep
  <2>5. CASE RefuseOther \/ ReturnNoObject
    BY <2>1, <2>5, RefuseStep
  <2>6. ASSUME NEW b \in Bags, ReturnPoly(b) \/ ReturnArgument(b)
        PROVE  IInv'
    BY <2>1, <2>6, ReturnPolyStep, ReturnArgumentStep
  <2>7. QED
    BY <2>1, <2>2, <2>3, <2>4, <2>5, <2>6 DEF Next
<1>3. QED
  BY <1>1, <1>2, PTL DEF Spec

(***************************************************************************)
(* The invariants of the run `objects'.                                    *)
(***************************************************************************)
(***************************************************************************)
(* Every variable keeps its type, whatever is wrapped, copied, freed and   *)
(* computed.                                                               *)
(***************************************************************************)
THEOREM TypeCorrect == Spec => []TypeOK
<1>1. IInv => TypeOK
  BY DEF IInv
<1>2. QED
  BY <1>1, Invariance, PTL

(***************************************************************************)
(* The accessors read attributes and rings from the right words.           *)
(***************************************************************************)
THEOREM WordsSafety == Spec => []WordsReadable
<1>1. IInv => WordsReadable
  BY DEF IInv
<1>2. QED
  BY <1>1, Invariance, PTL

(***************************************************************************)
(* Data has one owner, with pReverse's results as the only exception, and  *)
(* what has no owner was lost by a refused mapping.                        *)
(***************************************************************************)
THEOREM OwnerSafety == Spec => []DataOwnedOnce
<1>1. IInv => DataOwnedOnce
  BY DEF IInv
<1>2. QED
  BY <1>1, Invariance, PTL

(***************************************************************************)
(* Arguments over one ring reach the kernel with that ring: the last one   *)
(* has set r and the current ring.                                         *)
(***************************************************************************)
THEOREM RingSafety == Spec => []KernelGetsOneRing
<1>1. IInv => KernelGetsOneRing
  <2>1. SUFFICES ASSUME IInv, NEW q \in Rings, ~wild, args # <<>>,
                        \A i \in DOMAIN args : place[args[i].data] = q
                 PROVE  r = q /\ currRing = q
    BY DEF KernelGetsOneRing
  <2>2. Len(args) \in DOMAIN args
    BY <2>1 DEF IInv, TypeOK
  <2>3. QED
    BY <2>1, <2>2 DEF IInv, ArgsUsable
<1>2. QED
  BY <1>1, Invariance, PTL

(***************************************************************************)
(* A filled bag was free, so the others keep their words and mutability.   *)
(***************************************************************************)
LEMMA FillOther ==
  ASSUME IInv, NEW b \in Live, NEW c, NEW t, NEW i, NEW w, NEW a, Fill(c, t, i, w, a)
  PROVE  mem'[b] = mem[b] /\ imm'[b] = imm[b]
  BY DEF Fill, Live, IInv, TypeOK

(***************************************************************************)
(* No operation shows in an immutable object: data is changed through a    *)
(* mutable owner, and nobody else owns it.                                 *)
(***************************************************************************)
THEOREM ImmutableSafety == Spec => ImmutableKeepsValue
<1> DEFINE A == \A b \in Live : (imm[b] /\ mem'[b] # <<>>) =>
       /\ imm'[b]
       /\ mem'[b][2] \in shared' \/ content'[mem'[b][2]] = content[CXX_SINGOBJ(b)]
<1>1. IInv /\ [Next]_vars => [A]_vars
  <2>1. SUFFICES ASSUME IInv, Next, NEW b \in Live, imm[b], mem'[b] # <<>>
                 PROVE  /\ imm'[b]
                        /\ \/ mem'[b][2] \in shared'
                           \/ content'[mem'[b][2]] = content[CXX_SINGOBJ(b)]
    OBVIOUS
  <2> DEFINE x == CXX_SINGOBJ(b)
  <2>2. /\ x \in Data /\ x \notin Unused /\ x = mem[b][2] /\ b \in Bags
        /\ x \notin Copies \cup leaked
        /\ content \in [Data -> {0, 1}]
    BY <2>1, Owners DEF Unused, CXX_SINGOBJ, Live, IInv, TypeOK
  <2>3. SUFFICES /\ imm'[b] /\ mem'[b] = mem[b]
                 /\ x \in shared' \/ content'[x] = content[x]
    BY <2>2
  <2>4. ASSUME NEW c \in Bags, NEW d \in Data,
               \/ \E t \in Type, q \in Rings \cup {NULL}, a \in Attr \cup {NULL} :
                     gapwrap(c, t, d, q, a)
               \/ \E i \in BOOLEAN : _SI_intvec(c, d, i)
        PROVE  /\ imm'[b] /\ mem'[b] = mem[b]
               /\ x \in shared' \/ content'[x] = content[x]
    BY <2>1, <2>4, FillOther DEF gapwrap, _SI_intvec
  <2>5. ASSUME NEW c \in Bags, NEW s \in Live,
               \/ ShallowCopyObjSingular(c, s)
               \/ \E mut \in BOOLEAN : CopyObjSingular(c, s, mut)
        PROVE  /\ imm'[b] /\ mem'[b] = mem[b]
               /\ x \in shared' \/ content'[x] = content[x]
    <3>1. PICK i \in BOOLEAN : CopySingObj(c, s, i)
      BY <2>5 DEF ShallowCopyObjSingular, CopyObjSingular
    <3>2. PICK d \in Unused : content' = [content EXCEPT ![d] = content[CXX_SINGOBJ(s)]]
      BY <3>1 DEF CopySingObj, FreshCopy
    <3>3. content'[x] = content[x]
      BY <2>2, <3>2
    <3>4. QED
      BY <2>1, <3>1, <3>3, FillOther DEF CopySingObj
  <2>6. ASSUME NEW s \in Live, \/ MakeImmutableSingObj(s) \/ SI_SetMatElm(s)
                               \/ _SI_ObjMarkFunc(s) \/ _SI_FreeFunc(s)
        PROVE  /\ imm'[b] /\ mem'[b] = mem[b]
               /\ x \in shared' \/ content'[x] = content[x]
    <3>1. s \in Bags /\ imm \in [Bags -> BOOLEAN] /\ mem \in [Bags -> Seq(Word)]
      BY <2>1 DEF Live, IInv, TypeOK
    <3>2. CASE MakeImmutableSingObj(s)
      BY <2>1, <2>2, <3>1, <3>2 DEF MakeImmutableSingObj
    <3>3. CASE SI_SetMatElm(s)
      <4>1. s # b
        BY <2>1, <3>3 DEF SI_SetMatElm, Modifiable
      <4>2. x = CXX_SINGOBJ(s) => x \in shared
        BY <2>1, <4>1 DEF IInv, DataOwnedOnce
      <4>3. x # CXX_SINGOBJ(s) => content'[x] = content[x]
        BY <2>2, <3>3 DEF SI_SetMatElm
      <4>4. QED
        BY <2>1, <3>3, <4>2, <4>3 DEF SI_SetMatElm
    <3>4. CASE _SI_ObjMarkFunc(s)
      BY <2>1, <3>4 DEF _SI_ObjMarkFunc
    <3>5. CASE _SI_FreeFunc(s)
      <4>1. s # b
        BY <2>1, <2>2, <3>1, <3>5 DEF _SI_FreeFunc
      <4>2. x = CXX_SINGOBJ(s) => x \in shared
        BY <2>1, <4>1 DEF IInv, DataOwnedOnce
      <4>3. x # CXX_SINGOBJ(s) => content'[x] = content[x]
        BY <2>2, <3>5 DEF _SI_FreeFunc
      <4>4. mem'[b] = mem[b] /\ imm'[b] = imm[b] /\ shared' = shared
        BY <2>2, <3>1, <3>5, <4>1 DEF _SI_FreeFunc
      <4>5. QED
        BY <2>1, <4>2, <4>3, <4>4
    <3>6. QED
      BY <2>6, <3>2, <3>3, <3>4, <3>5
  <2>7. ASSUME \/ \E q \in Rings : rChangeCurrRing(q)
               \/ \E f \in Mappings : StartMapping(f)
               \/ \E s \in Live, part \in BOOLEAN : RefuseArg(s, part)
               \/ RefuseOther \/ ReturnNoObject
        PROVE  /\ imm'[b] /\ mem'[b] = mem[b]
               /\ x \in shared' \/ content'[x] = content[x]
    BY <2>1, <2>7 DEF rChangeCurrRing, StartMapping, RefuseArg, RefuseOther,
       ReturnNoObject, ovars
  <2>8. ASSUME NEW s \in Live, NEW part \in BOOLEAN, TakeArg(s, part)
        PROVE  /\ imm'[b] /\ mem'[b] = mem[b]
               /\ x \in shared' \/ content'[x] = content[x]
    <3>1. \/ content' = content
          \/ \E d \in Unused : content' = [content EXCEPT ![d] = content[CXX_SINGOBJ(s)]]
      BY <2>8 DEF TakeArg, FreshCopy
    <3>2. content'[x] = content[x]
      BY <2>2, <3>1
    <3>3. QED
      BY <2>1, <2>8, <3>2 DEF TakeArg
  <2>9. ASSUME NEW c \in Bags, ReturnPoly(c)
        PROVE  /\ imm'[b] /\ mem'[b] = mem[b]
               /\ x \in shared' \/ content'[x] = content[x]
    <3>1. Destroyed = Copies
      BY <2>1, <2>9, AllArguments DEF ReturnPoly
    <3>2. PICK d \in Unused \cup (Destroyed \ shared) :
            /\ Fill(c, "poly", FALSE, NEW_SINGOBJ_RING(d, r), NULL)
            /\ content' = [e \in Data |->
                             IF e \in Destroyed \cup {d} THEN 0 ELSE content[e]]
      BY <2>9 DEF ReturnPoly
    <3>3. content'[x] = content[x]
      BY <2>2, <3>1, <3>2
    <3>4. QED
      BY <2>1, <3>2, <3>3, FillOther
  <2>10. ASSUME NEW c \in Bags, ReturnArgument(c)
         PROVE  /\ imm'[b] /\ mem'[b] = mem[b]
                /\ x \in shared' \/ content'[x] = content[x]
    <3>1. /\ Fill(c, "poly", FALSE, NEW_SINGOBJ_RING(args[1].data, r), NULL)
          /\ content' = [content EXCEPT ![args[1].data] = 1 - @]
          /\ shared' = shared \cup {args[1].data}
      BY <2>10 DEF ReturnArgument
    <3>2. x = args[1].data \/ content'[x] = content[x]
      BY <2>2, <3>1
    <3>3. QED
      BY <2>1, <3>1, <3>2, FillOther
  <2>11. QED
    BY <2>1, <2>4, <2>5, <2>6, <2>7, <2>8, <2>9, <2>10 DEF Next, ObjectsNext
<1>2. QED
  BY <1>1, Invariance, PTL DEF Spec, ImmutableKeepsValue

(***************************************************************************)
(* Undefined behaviour needs a list without a ring, an object of pReverse  *)
(* whose data was freed, arguments over two rings, or an assignment to an  *)
(* entry of a matrix that is not over the current ring.                    *)
(***************************************************************************)
THEOREM WildSafety == Spec => NoOtherWildUse
<1> DEFINE A == \/ \E b \in Live : type[b] = "list" /\ place[CXX_SINGOBJ(b)] = NULL
                \/ ~(shared \subseteq alive)
                \/ \E i, j \in DOMAIN args : place[args[i].data] # place[args[j].data]
                \/ EntrySetElsewhere
<1>1. IInv /\ [Next]_vars => [wild' /\ ~wild => A]_vars
  <2>1. SUFFICES ASSUME IInv, Next, wild', ~wild PROVE A
    OBVIOUS
  <2>2. \A s \in Live : CXX_SINGOBJ(s) \notin alive => A
    BY <2>1, Owners
  <2>3. \A s \in Live : ReadRing(s) = Garbage => A
    <3>1. SUFFICES ASSUME NEW s \in Live, ReadRing(s) = Garbage
                   PROVE  type[s] = "list" /\ place[CXX_SINGOBJ(s)] = NULL
      OBVIOUS
    <3>2. type[s] \in Type /\ Garbage \notin Rings \cup {NULL}
          /\ place[CXX_SINGOBJ(s)] \in Rings \cup {NULL}
      BY <2>1, SentinelAssumption, Owners DEF IInv, TypeOK, Live
    <3>3. place[CXX_SINGOBJ(s)] = NULL
      BY <2>1, <3>1, <3>2 DEF IInv, WordsReadable
    <3>4. HasRingTable(type[s])
      BY <3>1, <3>2 DEF ReadRing
    <3>5. type[s] \notin {"poly", "number"}
      BY <2>1, <3>1, <3>2, <3>4 DEF IInv, RingWords, ReadRing, CXXRING_SINGOBJ
    <3>6. QED
      BY <3>2, <3>3, <3>4, <3>5, TypesOfWords
  <2>4. ASSUME NEW s \in Live, NEW c \in Bags,
               \/ ShallowCopyObjSingular(c, s)
               \/ \E mut \in BOOLEAN : CopyObjSingular(c, s, mut)
        PROVE  A
    <3>1. PICK i \in BOOLEAN : CopySingObj(c, s, i)
      BY <2>4 DEF ShallowCopyObjSingular, CopyObjSingular
    <3>2. wild' = (wild \/ ReadRing(s) = Garbage \/ CXX_SINGOBJ(s) \notin alive)
      BY <3>1 DEF CopySingObj, RingForCopy
    <3>3. QED
      BY <2>1, <2>2, <2>3, <3>2
  <2>5. ASSUME NEW s \in Live, \/ MakeImmutableSingObj(s) \/ SI_SetMatElm(s)
                               \/ _SI_ObjMarkFunc(s) \/ _SI_FreeFunc(s)
        PROVE  A
    <3>1. CASE SI_SetMatElm(s)
      <4> DEFINE d == CXX_SINGOBJ(s)
      <4>1. /\ d \in Data /\ content \in [Data -> {0, 1}]
            /\ content' = [content EXCEPT ![d] = 1 - content[d]]
            /\ mem' = mem /\ ~imm[s]
        BY <2>1, <3>1, Owners DEF SI_SetMatElm, Modifiable, IInv, TypeOK
      <4>2. content'[d] # content[d]
        BY <4>1
      <4> HIDE DEF d
      <4>3. \/ d \notin alive
            \/ \E v \in Live : CXX_SINGOBJ(v) \notin alive
            \/ type[s] = "poly" /\ place[d] # currRing
        BY <2>1, <3>1 DEF SI_SetMatElm, d
      <4>4. type[s] = "poly" /\ place[d] # currRing => EntrySetElsewhere
        BY <4>1, <4>2 DEF EntrySetElsewhere, d
      <4>5. QED
        BY <2>2, <4>3, <4>4 DEF d
    <3>2. CASE ~SI_SetMatElm(s)
      <4>1. ReadRing(s) = Garbage \/ CXX_SINGOBJ(s) \notin alive
        BY <2>1, <2>5, <3>2 DEF MakeImmutableSingObj, _SI_ObjMarkFunc, _SI_FreeFunc
      <4>2. QED
        BY <2>2, <2>3, <4>1
    <3>3. QED
      BY <3>1, <3>2
  <2>6. ASSUME NEW s \in Live, NEW part \in BOOLEAN,
               TakeArg(s, part) \/ RefuseArg(s, part)
        PROVE  A
    <3>1. r # Garbage /\ currRing # Garbage
      BY <2>1, SentinelAssumption DEF IInv, TypeOK
    <3>2. ReadRing(s) = Garbage \/ CXX_SINGOBJ(s) \notin alive
      <4>1. CASE TakeArg(s, part)
        <5>1. wild' = (r' = Garbage \/ CXX_SINGOBJ(s) \notin alive)
              /\ r' = RingSet(s, part, r)
          BY <4>1 DEF TakeArg
        <5>2. QED
          BY <2>1, <3>1, <5>1 DEF RingSet
      <4>2. CASE RefuseArg(s, part)
        <5>1. wild' = (currRing' = Garbage) /\ currRing' = RingSet(s, part, currRing)
          BY <4>2 DEF RefuseArg
        <5>2. QED
          BY <2>1, <3>1, <5>1 DEF RingSet
      <4>3. QED
        BY <2>6, <4>1, <4>2
    <3>3. QED
      BY <2>2, <2>3, <3>2
  <2>7. ASSUME \/ \E b \in Bags : ReturnPoly(b) \/ ReturnArgument(b)
               \/ ReturnNoObject
        PROVE  A
    <3>1. CallsKernel /\ (Mixed \/ UsesFreed)
      BY <2>1, <2>7 DEF ReturnPoly, ReturnArgument, ReturnNoObject
    <3>2. /\ DOMAIN args = 1..Len(args) /\ Len(args) \in 1..3
          /\ \A i \in 1..Len(args) : args[i].data \in alive
          /\ r = place[args[Len(args)].data]
      BY <2>1, <3>1, AllArguments
    <3>3. PICK i \in DOMAIN args : place[args[i].data] # r
      BY <3>1, <3>2 DEF Mixed, UsesFreed
    <3>4. Len(args) \in DOMAIN args
      BY <3>2
    <3>5. QED
      BY <3>2, <3>3, <3>4
  <2>8. ASSUME \/ \E b \in Bags, t \in Type, d \in Data, q \in Rings \cup {NULL},
                     a \in Attr \cup {NULL} : gapwrap(b, t, d, q, a)
               \/ \E b \in Bags, d \in Data, i \in BOOLEAN : _SI_intvec(b, d, i)
               \/ \E q \in Rings : rChangeCurrRing(q)
               \/ \E f \in Mappings : StartMapping(f)
               \/ RefuseOther
        PROVE  A
    BY <2>1, <2>8 DEF gapwrap, _SI_intvec, rChangeCurrRing, StartMapping,
       RefuseOther, ovars
  <2> HIDE DEF A
  <2>9. QED
    BY <2>1, <2>4, <2>5, <2>6, <2>7, <2>8 DEF Next, ObjectsNext
<1>2. QED
  BY <1>1, Invariance, PTL DEF Spec, NoOtherWildUse

(***************************************************************************)
(* Objects as values.  A bag becomes another object only by a step on it,  *)
(* and what changes with it is at most the values of shared data.          *)
(***************************************************************************)
AbstractStep == [ObjectsAsValues!Next]_ObjectOf

LEMMA ObjectOfApplied ==
  \A b \in Bags :
    /\ ObjectOf[b] = IF mem[b] = <<>> THEN [type |-> "free", imm |-> FALSE, value |-> NULL]
                     ELSE [type |-> type[b], imm |-> imm[b],
                           value |-> IF CXX_SINGOBJ(b) \in shared THEN NULL
                                     ELSE content[CXX_SINGOBJ(b)]]
    /\ ObjectOf'[b] = IF mem'[b] = <<>> THEN [type |-> "free", imm |-> FALSE, value |-> NULL]
                      ELSE [type |-> type'[b], imm |-> imm'[b],
                            value |-> IF CXX_SINGOBJ(b)' \in shared' THEN NULL
                                      ELSE content'[CXX_SINGOBJ(b)']]
  BY DEF ObjectOf

(***************************************************************************)
(* An object looks the same when its words do and its data has the same    *)
(* value, or is shared.                                                    *)
(***************************************************************************)
Same(c) ==
  /\ mem'[c] = mem[c] /\ type'[c] = type[c] /\ imm'[c] = imm[c]
  /\ c \in Live => IF CXX_SINGOBJ(c) \in shared THEN CXX_SINGOBJ(c) \in shared'
                   ELSE /\ CXX_SINGOBJ(c) \notin shared'
                        /\ content'[CXX_SINGOBJ(c)] = content[CXX_SINGOBJ(c)]

LEMMA SameLooks ==
  ASSUME NEW c \in Bags, Same(c)
  PROVE  ObjectOf'[c] = ObjectOf[c]
<1>1. CXX_SINGOBJ(c)' = CXX_SINGOBJ(c)
  BY DEF Same, CXX_SINGOBJ
<1>2. CASE mem[c] = <<>>
  BY <1>2, ObjectOfApplied DEF Same
<1>3. CASE mem[c] # <<>>
  <2>1. c \in Live
    BY <1>3 DEF Live
  <2>2. QED
    BY <1>1, <1>3, <2>1, ObjectOfApplied DEF Same
<1>4. QED
  BY <1>2, <1>3

LEMMA Unseen ==
  ASSUME \A c \in Bags : Same(c)
  PROVE  AbstractStep
<1>1. \A c \in Bags : ObjectOf'[c] = ObjectOf[c]
  BY SameLooks
<1>2. ObjectOf' = ObjectOf
  <2>1. /\ ObjectOf = [c \in Bags |-> ObjectOf[c]]
        /\ ObjectOf' = [c \in Bags |-> ObjectOf'[c]]
    BY DEF ObjectOf
  <2>2. QED
    BY <1>1, <2>1
<1>3. QED
  BY <1>2 DEF AbstractStep

(***************************************************************************)
(* If one object changes, it must do so by an operation of ObjectValues.   *)
(***************************************************************************)
LEMMA OneSeen ==
  ASSUME NEW b \in Bags, \A c \in Bags \ {b} : Same(c),
         \/ ~ObjectsAsValues!Exists(b) /\ ObjectOf'[b] \in ObjectsAsValues!Object
         \/ /\ ObjectsAsValues!Exists(b)
            /\ \/ ObjectOf'[b] = [ObjectOf[b] EXCEPT !.imm = TRUE]
               \/ ObjectOf'[b] = ObjectsAsValues!Free
               \/ /\ ~ObjectOf[b].imm /\ ObjectOf[b].value # NULL
                  /\ \E v \in {0, 1} : ObjectOf'[b] = [ObjectOf[b] EXCEPT !.value = v]
  PROVE  AbstractStep
<1>1. \A c \in Bags \ {b} : ObjectOf'[c] = ObjectOf[c]
  BY SameLooks
<1>2. ObjectOf' = [ObjectOf EXCEPT ![b] = ObjectOf'[b]]
  <2>1. /\ ObjectOf = [c \in Bags |-> ObjectOf[c]]
        /\ ObjectOf' = [c \in Bags |-> ObjectOf'[c]]
    BY DEF ObjectOf
  <2>2. QED
    BY <1>1, <2>1
<1>3. \/ ObjectsAsValues!Make(b) \/ ObjectsAsValues!MakeImmutable(b)
      \/ ObjectsAsValues!Modify(b) \/ ObjectsAsValues!Delete(b)
  BY <1>2 DEF ObjectsAsValues!Make, ObjectsAsValues!MakeImmutable,
     ObjectsAsValues!Modify, ObjectsAsValues!Delete, ObjectsAsValues!Becomes
<1>4. CASE ObjectOf'[b] = ObjectOf[b]
  <2>1. ObjectOf' = ObjectOf
    <3>1. ObjectOf = [c \in Bags |-> ObjectOf[c]]
      BY DEF ObjectOf
    <3>2. QED
      BY <1>2, <1>4, <3>1
  <2>2. QED
    BY <2>1 DEF AbstractStep
<1>5. CASE ObjectOf'[b] # ObjectOf[b]
  BY <1>3, <1>5 DEF AbstractStep, ObjectsAsValues!Next
<1>6. QED
  BY <1>4, <1>5

(***************************************************************************)
(* The data of an object is not what the allocator hands out next, nor a   *)
(* copy for the kernel, and only shared data has two owners.               *)
(***************************************************************************)
LEMMA Claims ==
  ASSUME IInv, NEW c \in Live
  PROVE  /\ CXX_SINGOBJ(c) = mem[c][2]
         /\ CXX_SINGOBJ(c) \in Data \ Unused /\ CXX_SINGOBJ(c) \notin Copies
         /\ type[c] \in Type /\ imm[c] \in BOOLEAN /\ c \in Bags
         /\ \A b \in Live : b # c /\ CXX_SINGOBJ(c) = CXX_SINGOBJ(b) =>
                              CXX_SINGOBJ(c) \in shared
  BY Owners DEF CXX_SINGOBJ, Unused, Live, IInv, TypeOK, DataOwnedOnce

LEMMA ExistsLive ==
  ASSUME IInv, NEW b \in Bags
  PROVE  ObjectsAsValues!Exists(b) <=> b \in Live
<1>1. type[b] # "free"
  BY DEF IInv, TypeOK, Type
<1>2. CASE mem[b] = <<>>
  <2>1. ObjectOf[b] = [type |-> "free", imm |-> FALSE, value |-> NULL]
    BY <1>2, ObjectOfApplied
  <2>2. QED
    BY <1>2, <2>1 DEF ObjectsAsValues!Exists, Live
<1>3. CASE mem[b] # <<>>
  <2>1. ObjectOf[b] = [type |-> type[b], imm |-> imm[b],
                       value |-> IF CXX_SINGOBJ(b) \in shared THEN NULL
                                 ELSE content[CXX_SINGOBJ(b)]]
    BY <1>3, ObjectOfApplied
  <2>2. ObjectOf[b].type = type[b]
    BY <2>1
  <2>3. QED
    BY <1>1, <1>3, <2>2 DEF ObjectsAsValues!Exists, Live
<1>4. QED
  BY <1>2, <1>3

(***************************************************************************)
(* A filled bag is a new object; data that was no one's shows in no other. *)
(***************************************************************************)
LEMMA NewSeen ==
  ASSUME IInv, IInv',
         NEW b \in Bags, NEW t \in Type, NEW i \in BOOLEAN, NEW d \in Data,
         NEW words \in Seq(Word), NEW a \in Attr \cup {NULL},
         \/ Len(words) = 2
         \/ Len(words) = 3 /\ HasRingTable(t),
         words[2] = d,
         Fill(b, t, i, words, a),
         d \notin shared, shared' = shared,
         \A c \in Live : content'[CXX_SINGOBJ(c)] = content[CXX_SINGOBJ(c)]
  PROVE  AbstractStep
<1> DEFINE w == IF a = NULL THEN words ELSE WithAttrib(words, t, a)
<1>1. /\ b \notin Live
      /\ type' = [type EXCEPT ![b] = t] /\ imm' = [imm EXCEPT ![b] = i]
      /\ mem' = [mem EXCEPT ![b] = w]
  BY DEF Fill
<1>2. w \in Seq(Word) /\ Len(w) \in 2..5 /\ w[2] = d
  BY FilledWords
<1> HIDE DEF w
<1>3. /\ type \in [Bags -> Type] /\ imm \in [Bags -> BOOLEAN]
      /\ mem \in [Bags -> Seq(Word)] /\ content' \in [Data -> {0, 1}]
  BY DEF IInv, TypeOK
<1>4. \A c \in Bags \ {b} : Same(c)
  BY <1>1, <1>3 DEF Same
<1>5. mem'[b] # <<>> /\ CXX_SINGOBJ(b)' = d /\ type'[b] = t /\ imm'[b] = i
  BY <1>1, <1>2, <1>3 DEF CXX_SINGOBJ
<1>6. ObjectOf'[b] = [type |-> t, imm |-> i, value |-> content'[d]]
  BY <1>5, ObjectOfApplied
<1>7. ~ObjectsAsValues!Exists(b) /\ ObjectOf'[b] \in ObjectsAsValues!Object
  BY <1>1, <1>3, <1>6, ExistsLive DEF ObjectsAsValues!Object
<1>8. QED
  BY <1>4, <1>7, OneSeen

LEMMA WrapSeen ==
  ASSUME IInv, IInv', NEW b \in Bags, NEW d \in Data
  PROVE  /\ \A t \in Type, q \in Rings \cup {NULL}, a \in Attr \cup {NULL} :
              gapwrap(b, t, d, q, a) => AbstractStep
         /\ \A i \in BOOLEAN : _SI_intvec(b, d, i) => AbstractStep
<1>1. ASSUME NEW t \in Type, NEW q \in Rings \cup {NULL}, NEW a \in Attr \cup {NULL},
             gapwrap(b, t, d, q, a)
      PROVE  AbstractStep
  <2> DEFINE words == IF HasRingTable(t) THEN NEW_SINGOBJ_RING(d, q) ELSE NEW_SINGOBJ(d)
             i == ~IsCopyableSingularType(t)
  <2>1. /\ d \in Unused /\ Fill(b, t, i, words, a)
        /\ content' = content /\ shared' = shared
    BY <1>1 DEF gapwrap
  <2>2. /\ words \in Seq(Word) /\ words[2] = d
        /\ \/ Len(words) = 2
           \/ Len(words) = 3 /\ HasRingTable(t)
    BY NewWords
  <2>3. i \in BOOLEAN /\ d \notin shared
    BY <2>1 DEF Unused
  <2> HIDE DEF words, i
  <2>4. QED
    BY <2>1, <2>2, <2>3, NewSeen
<1>2. ASSUME NEW i \in BOOLEAN, _SI_intvec(b, d, i)
      PROVE  AbstractStep
  <2> DEFINE words == NEW_SINGOBJ(d)
  <2>1. /\ d \in Unused /\ Fill(b, "intmat", i, words, NULL)
        /\ content' = content /\ shared' = shared
    BY <1>2 DEF _SI_intvec
  <2>2. words \in Seq(Word) /\ words[2] = d /\ Len(words) = 2
    BY NewWords
  <2>3. "intmat" \in Type /\ d \notin shared
    BY <2>1 DEF Unused, Type
  <2> HIDE DEF words
  <2>4. QED
    BY <2>1, <2>2, <2>3, NewSeen
<1>3. QED
  BY <1>1, <1>2

LEMMA CopySeen ==
  ASSUME IInv, IInv', NEW b \in Bags, NEW s \in Live, NEW i \in BOOLEAN,
         CopySingObj(b, s, i)
  PROVE  AbstractStep
<1> DEFINE q == RingForCopy(s)
<1>1. PICK d \in Unused :
        /\ Fill(b, type[s], i, IF q # NULL THEN NEW_SINGOBJ_RING(d, q) ELSE NEW_SINGOBJ(d),
                ATTRIB_SINGOBJ(s))
        /\ content' = [content EXCEPT ![d] = content[CXX_SINGOBJ(s)]]
        /\ shared' = shared
  BY DEF CopySingObj, FreshCopy
<1> DEFINE words == IF q # NULL THEN NEW_SINGOBJ_RING(d, q) ELSE NEW_SINGOBJ(d)
<1>2. /\ d \in Data /\ d \notin shared
      /\ type[s] \in Type /\ ATTRIB_SINGOBJ(s) \in Attr \cup {NULL}
  BY DEF Unused, IInv, TypeOK, Live
<1>3. q \in Rings \cup {NULL, Garbage} /\ (q # NULL => HasRingTable(type[s]))
  BY DEF RingForCopy, ReadRing, CXXRING_SINGOBJ, IInv, RingWords
<1>4. /\ words \in Seq(Word) /\ words[2] = d
      /\ \/ Len(words) = 2
         \/ Len(words) = 3 /\ HasRingTable(type[s])
  BY <1>2, <1>3, NewWords
<1>5. content \in [Data -> {0, 1}]
  BY DEF IInv, TypeOK
<1>6. \A c \in Live : content'[CXX_SINGOBJ(c)] = content[CXX_SINGOBJ(c)]
  BY <1>1, <1>5, Claims
<1>7. Fill(b, type[s], i, words, ATTRIB_SINGOBJ(s))
  BY <1>1
<1> HIDE DEF words, q
<1>8. QED
  BY <1>1, <1>2, <1>4, <1>6, <1>7, NewSeen

(***************************************************************************)
(* Mutability changes in one direction, a value only in a mutable object,  *)
(* and an object that is freed takes no other object's value with it.      *)
(***************************************************************************)
LEMMA ChangeSeen ==
  ASSUME IInv, NEW s \in Live,
         \/ MakeImmutableSingObj(s) \/ SI_SetMatElm(s)
         \/ _SI_ObjMarkFunc(s) \/ _SI_FreeFunc(s)
  PROVE  AbstractStep
<1> DEFINE d == CXX_SINGOBJ(s)
<1>1. /\ type \in [Bags -> Type] /\ imm \in [Bags -> BOOLEAN]
      /\ mem \in [Bags -> Seq(Word)] /\ content \in [Data -> {0, 1}]
  BY DEF IInv, TypeOK
<1>2. /\ s \in Bags /\ mem[s] # <<>> /\ d \in Data
      /\ \A c \in Live \ {s} : CXX_SINGOBJ(c) = d => d \in shared
  BY Claims DEF Live
<1>3. ObjectsAsValues!Exists(s)
  BY <1>2, ExistsLive
<1>4. ObjectOf[s] = [type |-> type[s], imm |-> imm[s],
                     value |-> IF d \in shared THEN NULL ELSE content[d]]
  BY <1>2, ObjectOfApplied
<1>5. CASE MakeImmutableSingObj(s)
  <2>1. \A c \in Bags \ {s} : Same(c)
    BY <1>1, <1>2, <1>5 DEF MakeImmutableSingObj, Same
  <2>2. /\ mem'[s] # <<>> /\ CXX_SINGOBJ(s)' = d /\ type'[s] = type[s]
        /\ imm'[s] = TRUE /\ content' = content /\ shared' = shared
    BY <1>1, <1>2, <1>5 DEF MakeImmutableSingObj, CXX_SINGOBJ
  <2>3. ObjectOf'[s] = [type |-> type[s], imm |-> imm'[s],
                        value |-> IF d \in shared THEN NULL ELSE content[d]]
    BY <1>2, <2>2, ObjectOfApplied
  <2>4. ObjectOf'[s] = [ObjectOf[s] EXCEPT !.imm = TRUE]
    <3>1. ObjectOf'[s] = [ObjectOf[s] EXCEPT !.imm = imm'[s]]
      BY <1>4, <2>3
    <3>2. QED
      BY <2>2, <3>1, Zenon
  <2>5. QED
    BY <1>2, <1>3, <2>1, <2>4, OneSeen
<1>6. CASE SI_SetMatElm(s)
  <2>1. /\ content' = [content EXCEPT ![d] = 1 - content[d]]
        /\ UNCHANGED <<type, imm, mem, shared>> /\ imm[s] = FALSE
    BY <1>1, <1>2, <1>6 DEF SI_SetMatElm, Modifiable
  <2>2. \A c \in Live : CXX_SINGOBJ(c) # d => content'[CXX_SINGOBJ(c)] = content[CXX_SINGOBJ(c)]
    BY <1>1, <2>1, Claims
  <2>3. \A c \in Bags \ {s} : Same(c)
    BY <1>2, <2>1, <2>2 DEF Same
  <2>4. CASE d \in shared
    BY <2>1, <2>3, <2>4, Unseen DEF Same
  <2>5. CASE d \notin shared
    <3>1. content[d] \in {0, 1} /\ content'[d] = 1 - content[d]
      BY <1>1, <1>2, <2>1
    <3>2. content'[d] \in {0, 1}
      BY <3>1
    <3>3. CXX_SINGOBJ(s)' = d /\ mem'[s] # <<>>
      BY <1>2, <2>1 DEF CXX_SINGOBJ
    <3>4. ObjectOf'[s] = [type |-> type[s], imm |-> imm[s], value |-> content'[d]]
      BY <1>2, <2>1, <2>5, <3>3, ObjectOfApplied
    <3>5. ObjectOf'[s] = [ObjectOf[s] EXCEPT !.value = content'[d]]
      BY <1>4, <3>4
    <3>6. ~ObjectOf[s].imm /\ ObjectOf[s].value # NULL
      BY <1>4, <2>1, <2>5, <3>1, SentinelAssumption
    <3>7. QED
      BY <1>2, <1>3, <2>3, <3>2, <3>5, <3>6, OneSeen
  <2>6. QED
    BY <2>4, <2>5
<1>7. CASE _SI_ObjMarkFunc(s)
  <2>1. \A c \in Bags : Same(c)
    BY <1>7 DEF _SI_ObjMarkFunc, Same
  <2>2. QED
    BY <2>1, Unseen
<1>8. CASE _SI_FreeFunc(s)
  <2>1. /\ mem' = [mem EXCEPT ![s] = <<>>] /\ imm' = [imm EXCEPT ![s] = FALSE]
        /\ type' = [type EXCEPT ![s] = "bigint"]
        /\ content' = [content EXCEPT ![d] = 0] /\ shared' = shared
    BY <1>8 DEF _SI_FreeFunc
  <2>2. \A c \in Live : CXX_SINGOBJ(c) # d => content'[CXX_SINGOBJ(c)] = content[CXX_SINGOBJ(c)]
    BY <1>1, <2>1, Claims
  <2>3. \A c \in Bags \ {s} : Same(c)
    BY <1>1, <1>2, <2>1, <2>2 DEF Same
  <2>4. mem'[s] = <<>>
    BY <1>1, <1>2, <2>1
  <2>5. ObjectOf'[s] = ObjectsAsValues!Free
    BY <1>2, <2>4, ObjectOfApplied DEF ObjectsAsValues!Free
  <2>6. QED
    BY <1>2, <1>3, <2>3, <2>5, OneSeen
<1>9. QED
  BY <1>5, <1>6, <1>7, <1>8

LEMMA ObjectsSeen ==
  ASSUME IInv, IInv', ObjectsNext
  PROVE  AbstractStep
<1>1. ASSUME NEW b \in Bags, NEW d \in Data,
             \/ \E t \in Type, q \in Rings \cup {NULL}, a \in Attr \cup {NULL} :
                   gapwrap(b, t, d, q, a)
             \/ \E i \in BOOLEAN : _SI_intvec(b, d, i)
      PROVE  AbstractStep
  BY <1>1, WrapSeen
<1>2. ASSUME NEW b \in Bags, NEW s \in Live,
             \/ ShallowCopyObjSingular(b, s)
             \/ \E mut \in BOOLEAN : CopyObjSingular(b, s, mut)
      PROVE  AbstractStep
  <2>1. PICK i \in BOOLEAN : CopySingObj(b, s, i)
    BY <1>2 DEF ShallowCopyObjSingular, CopyObjSingular
  <2>2. QED
    BY <2>1, CopySeen
<1>3. ASSUME NEW s \in Live,
             \/ MakeImmutableSingObj(s) \/ SI_SetMatElm(s)
             \/ _SI_ObjMarkFunc(s) \/ _SI_FreeFunc(s)
      PROVE  AbstractStep
  BY <1>3, ChangeSeen
<1>4. ASSUME NEW q \in Rings, rChangeCurrRing(q)
      PROVE  AbstractStep
  <2>1. \A c \in Bags : Same(c)
    BY <1>4 DEF rChangeCurrRing, Same
  <2>2. QED
    BY <2>1, Unseen
<1>5. QED
  BY <1>1, <1>2, <1>3, <1>4 DEF ObjectsNext

(***************************************************************************)
(* A mapping that takes its arguments, refuses one or returns no object.   *)
(***************************************************************************)
LEMMA ArgumentUnseen ==
  ASSUME IInv,
         \/ \E f \in Mappings : StartMapping(f)
         \/ \E s \in Live, part \in BOOLEAN : TakeArg(s, part) \/ RefuseArg(s, part)
         \/ RefuseOther
         \/ ReturnNoObject
  PROVE  AbstractStep
<1>1. /\ UNCHANGED <<type, imm, mem, shared>>
      /\ \/ content' = content
         \/ \E d \in Unused, e \in Data : content' = [content EXCEPT ![d] = content[e]]
  <2>1. ASSUME NEW s \in Live, NEW part \in BOOLEAN, TakeArg(s, part)
        PROVE  /\ UNCHANGED <<type, imm, mem, shared>>
               /\ \/ content' = content
                  \/ \E d \in Unused, e \in Data : content' = [content EXCEPT ![d] = content[e]]
    BY <2>1, Claims DEF TakeArg, FreshCopy
  <2>2. QED
    BY <2>1 DEF StartMapping, RefuseArg, RefuseOther, ReturnNoObject, ovars
<1>2. content \in [Data -> {0, 1}]
  BY DEF IInv, TypeOK
<1>3. \A c \in Live : content'[CXX_SINGOBJ(c)] = content[CXX_SINGOBJ(c)]
  BY <1>1, <1>2, Claims
<1>4. \A c \in Bags : Same(c)
  BY <1>1, <1>3 DEF Same
<1>5. QED
  BY <1>4, Unseen

(***************************************************************************)
(* The kernel destroys copies only, so its result is a new object and all  *)
(* that changes.                                                           *)
(***************************************************************************)
LEMMA ReturnPolySeen ==
  ASSUME IInv, IInv', NEW b \in Bags, ReturnPoly(b)
  PROVE  AbstractStep
<1>1. PICK d \in Unused \cup (Destroyed \ shared) :
        /\ Fill(b, "poly", FALSE, NEW_SINGOBJ_RING(d, r), NULL)
        /\ content' = [e \in Data |-> IF e \in Destroyed \cup {d} THEN 0 ELSE content[e]]
        /\ shared' = shared
  BY DEF ReturnPoly
<1>2. Destroyed = Copies /\ r \in Rings
  BY AllArguments DEF ReturnPoly
<1>3. d \in Data /\ d \notin shared
  BY <1>1, <1>2, Owners DEF Unused
<1>4. \A c \in Live : content'[CXX_SINGOBJ(c)] = content[CXX_SINGOBJ(c)]
  BY <1>1, <1>2, Claims
<1> DEFINE words == NEW_SINGOBJ_RING(d, r)
<1>5. words \in Seq(Word) /\ words[2] = d /\ Len(words) = 3
  BY <1>2, <1>3, NewWords
<1>6. "poly" \in Type /\ HasRingTable("poly")
  BY DEF Type, HasRingTable
<1> HIDE DEF words
<1>7. Fill(b, "poly", FALSE, words, NULL)
  BY <1>1 DEF words
<1>8. QED
  BY <1>1, <1>3, <1>4, <1>5, <1>6, <1>7, NewSeen

(***************************************************************************)
(* The result of pReverse and its argument share their data from now on.   *)
(***************************************************************************)
LEMMA ReturnArgumentSeen ==
  ASSUME IInv, NEW b \in Bags, ReturnArgument(b)
  PROVE  AbstractStep
<1> DEFINE d == args[1].data
           words == NEW_SINGOBJ_RING(d, r)
<1>1. /\ CallsKernel /\ func \in ReturnsArgument
      /\ Fill(b, "poly", FALSE, words, NULL)
      /\ content' = [content EXCEPT ![d] = 1 - @] /\ shared' = shared \cup {d}
  BY DEF ReturnArgument
<1>2. r \in Rings /\ 1 \in DOMAIN args /\ ~args[1].copied
  BY <1>1, AllArguments
<1>3. PICK s \in Live : CXX_SINGOBJ(s) = d
  BY <1>2 DEF IInv, ArgsOwned
<1>4. /\ s \in Bags /\ mem[s] # <<>> /\ d \in Data
      /\ \A c \in Live \ {s} : CXX_SINGOBJ(c) = d => d \in shared
  BY <1>3, Claims DEF Live
<1>5. /\ type \in [Bags -> Type] /\ imm \in [Bags -> BOOLEAN]
      /\ mem \in [Bags -> Seq(Word)] /\ content \in [Data -> {0, 1}]
  BY DEF IInv, TypeOK
<1>6. words[2] = d /\ words # <<>>
  BY DEF NEW_SINGOBJ_RING
<1>7. /\ b \notin Live
      /\ type' = [type EXCEPT ![b] = "poly"] /\ imm' = [imm EXCEPT ![b] = FALSE]
      /\ mem' = [mem EXCEPT ![b] = words]
  BY <1>1 DEF Fill
<1> HIDE DEF words
<1>8. ~ObjectsAsValues!Exists(b) /\ ObjectsAsValues!Exists(s)
  BY <1>3, <1>4, <1>7, ExistsLive
<1>9. ObjectOf'[b] = [type |-> "poly", imm |-> FALSE, value |-> NULL]
  <2>1. /\ mem'[b] # <<>> /\ CXX_SINGOBJ(b)' = d
        /\ type'[b] = "poly" /\ imm'[b] = FALSE
    BY <1>5, <1>6, <1>7 DEF CXX_SINGOBJ
  <2>2. QED
    BY <1>1, <2>1, ObjectOfApplied
<1>10. ObjectOf'[s] = [ObjectOf[s] EXCEPT !.value = NULL]
  <2>1. /\ mem'[s] = mem[s] /\ CXX_SINGOBJ(s)' = d
        /\ type'[s] = type[s] /\ imm'[s] = imm[s]
    BY <1>3, <1>4, <1>5, <1>7 DEF CXX_SINGOBJ
  <2>2. /\ ObjectOf'[s] = [type |-> type[s], imm |-> imm[s], value |-> NULL]
        /\ ObjectOf[s] = [type |-> type[s], imm |-> imm[s],
                          value |-> IF d \in shared THEN NULL ELSE content[d]]
    BY <1>1, <1>3, <1>4, <2>1, ObjectOfApplied
  <2>3. QED
    BY <2>2
<1>11. \A c \in Bags \ {b, s} : ObjectOf'[c] = ObjectOf[c]
  <2>1. \A c \in Live \ {s} : CXX_SINGOBJ(c) # d =>
                                content'[CXX_SINGOBJ(c)] = content[CXX_SINGOBJ(c)]
    BY <1>1, <1>5, Claims
  <2>2. \A c \in Bags \ {b, s} : Same(c)
    BY <1>1, <1>4, <1>5, <1>7, <2>1 DEF Same
  <2>3. QED
    BY <2>2, SameLooks
<1>12. ObjectOf' = [ObjectOf EXCEPT ![b] = ObjectOf'[b], ![s].value = NULL]
  <2>1. /\ ObjectOf = [c \in Bags |-> ObjectOf[c]]
        /\ ObjectOf' = [c \in Bags |-> ObjectOf'[c]]
    BY DEF ObjectOf
  <2>2. b # s
    BY <1>3, <1>7
  <2>3. QED
    BY <1>4, <1>10, <1>11, <2>1, <2>2
<1>13. ObjectsAsValues!Entangle(b, s)
  <2>1. ObjectOf'[b] \in [type : Type, imm : {FALSE}, value : {NULL}]
    BY <1>9 DEF Type
  <2>2. QED
    BY <1>8, <1>12, <2>1 DEF ObjectsAsValues!Entangle
<1>14. ObjectOf'[b] # ObjectOf[b]
  BY <1>8, <1>9 DEF ObjectsAsValues!Exists
<1>15. QED
  BY <1>4, <1>13, <1>14 DEF AbstractStep, ObjectsAsValues!Next

(***************************************************************************)
(* Objects are values, whatever is done to other objects: the objects and  *)
(* the mappings implement ObjectValues.                                    *)
(***************************************************************************)
THEOREM Refinement == Spec => ImplementsValues
<1>1. Init => ObjectsAsValues!Init
  BY DEF Init, ObjectsInit, ObjectOf, ObjectsAsValues!Init, ObjectsAsValues!Free
<1>2. IInv /\ IInv' /\ [Next]_vars => [ObjectsAsValues!Next]_ObjectOf
  <2>1. SUFFICES ASSUME IInv, IInv', [Next]_vars PROVE AbstractStep
    BY DEF AbstractStep
  <2>2. CASE func = NULL /\ ObjectsNext /\ UNCHANGED mvars
    BY <2>1, <2>2, ObjectsSeen
  <2>3. ASSUME \/ \E f \in Mappings : StartMapping(f)
               \/ \E s \in Live, part \in BOOLEAN : TakeArg(s, part) \/ RefuseArg(s, part)
               \/ RefuseOther
               \/ ReturnNoObject
        PROVE  AbstractStep
    BY <2>1, <2>3, ArgumentUnseen
  <2>4. ASSUME NEW b \in Bags, ReturnPoly(b) \/ ReturnArgument(b)
        PROVE  AbstractStep
    BY <2>1, <2>4, ReturnPolySeen, ReturnArgumentSeen
  <2>5. CASE UNCHANGED vars
    <3>1. \A c \in Bags : Same(c)
      BY <2>5 DEF vars, ovars, Same
    <3>2. QED
      BY <3>1, Unseen
  <2>6. QED
    BY <2>1, <2>2, <2>3, <2>4, <2>5 DEF Next
<1>3. QED
  BY <1>1, <1>2, Invariance, PTL DEF Spec, ImplementsValues, ObjectsAsValues!Spec

=============================================================================
