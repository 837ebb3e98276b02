-------------------------- MODULE LowLevelMappings --------------------------
(***************************************************************************)
(* The functions _SI_p_Add_q, _SI_p_Neg, ..., which GAP's arithmetic of    *)
(* polynomials calls: gen_lowlevel_mappings.g generates one per prototype  *)
(* of a kernel function in lowlevel_mappings_src.h.in.  A function takes   *)
(* its arguments one after the other, each changes the local variable r    *)
(* and the current ring to its own ring, an argument the kernel destroys   *)
(* is copied first, and the kernel then gets them all with the last r.     *)
(***************************************************************************)
EXTENDS SingularObjects

CONSTANT
  Mappings   \* the functions that are called

(***************************************************************************)
(* Prototypes; DESTROYS marks the parameters the kernel destroys.  Those   *)
(* left out have the parameters of one listed here.                        *)
(***************************************************************************)
Const(t) == [type |-> t, destroys |-> FALSE]
DESTROYS(t) == [type |-> t, destroys |-> TRUE]

Params ==
  [p_Neg              |-> <<DESTROYS("poly")>>,
   pp_Mult_nn         |-> <<Const("poly"), Const("number")>>,
   p_Mult_nn          |-> <<DESTROYS("poly"), Const("number")>>,
   pp_Mult_qq         |-> <<Const("poly"), Const("poly")>>,
   p_Mult_mm          |-> <<DESTROYS("poly"), Const("poly")>>,
   p_Add_q            |-> <<DESTROYS("poly"), DESTROYS("poly")>>,
   p_Minus_mm_Mult_qq |-> <<DESTROYS("poly"), Const("poly"), Const("poly")>>,
   pLength            |-> <<Const("poly")>>,
   p_String           |-> <<Const("poly")>>,
   pReverse           |-> <<Const("poly")>>]

ReturnsNoObject == {"pLength", "p_String"}

(***************************************************************************)
(* pLast and pReverse get no ring and so can allocate no term: what they   *)
(* return consists of terms of their argument.                             *)
(***************************************************************************)
ReturnsArgument == {"pReverse"}

ASSUME MappingsAssumption == Mappings \subseteq DOMAIN Params

VARIABLES
  func,     \* the function that is running, or NULL
  r,        \* its local variable: ring r = currRing
  args,     \* the kernel's arguments so far, and whether each is a copy
  \* -- history --
  leaked    \* copies that no one will free

mvars == <<func, r, args, leaked>>
vars == <<ovars, mvars>>

Copies == {args[i].data : i \in {j \in DOMAIN args : args[j].copied}}
Destroyed == {args[i].data : i \in {j \in DOMAIN args : Params[func][j].destroys}}
NextParam == Params[func][Len(args) + 1]

-----------------------------------------------------------------------------
(* One mapping *)

StartMapping(f) ==
  /\ ~wild /\ func = NULL
  /\ func' = f
  /\ r' = currRing
  /\ UNCHANGED <<ovars, args, leaked>>

TakesArgument == ~wild /\ func # NULL /\ Len(args) < Len(Params[func])

NoCopy(p) == FALSE
NeedsCopy(p) == p.destroys

(***************************************************************************)
(* SingObj::init of an object (part = FALSE) or of a proxy for a part of   *)
(* one: the ring of the object becomes r and the current ring, for a proxy *)
(* only if it has one.                                                     *)
(***************************************************************************)
RingKept(s, part, old) == IF old # NULL THEN old ELSE ReadRing(s)
RingSet(s, part, old) ==
  IF HasRingTable(type[s]) /\ (part => ReadRing(s) # NULL) THEN ReadRing(s) ELSE old

(***************************************************************************)
(* An object of the type of the parameter; a part of a list that has this  *)
(* type, which a list over no ring has not; a part of an ideal, for which  *)
(* "poly" stands here, is a polynomial.                                    *)
(***************************************************************************)
Fits(s, part) ==
  IF part THEN \/ type[s] = "list" /\ place[CXX_SINGOBJ(s)] # NULL
               \/ type[s] = "poly" /\ NextParam.type = "poly"
  ELSE type[s] = NextParam.type

HasPart(s) == type[s] \in {"intmat", "poly", "list"}

TakeArg(s, part) ==
  LET d == CXX_SINGOBJ(s)
  IN  /\ TakesArgument
      /\ Fits(s, part)
      /\ r' = RingSet(s, part, r)
      /\ currRing' = RingSet(s, part, currRing)
      /\ wild' = (r' = Garbage \/ d \notin alive)
      /\ IF NeedsCopy(NextParam)
         THEN \E c \in FreshCopy(d) :
                /\ args' = Append(args, [data |-> c, copied |-> TRUE])
                /\ alive' = alive \cup {c}
                /\ content' = [content EXCEPT ![c] = content[d]]
                /\ place' = [place EXCEPT ![c] = currRing']
         ELSE /\ args' = Append(args, [data |-> d, copied |-> FALSE])
              /\ UNCHANGED <<alive, content, place>>
      /\ UNCHANGED <<type, imm, mem, attrs, shared, func, leaked>>

End == func' = NULL /\ r' = NULL /\ args' = <<>>

(***************************************************************************)
(* An argument of another type, also an ideal where a polynomial is asked  *)
(* for, ends the call with an error, and nobody frees the copies of the    *)
(* arguments before it: needcleanup is false.  The current ring has        *)
(* changed already.                                                        *)
(***************************************************************************)
RefuseArg(s, part) ==
  /\ TakesArgument
  /\ part => HasPart(s)
  /\ ~part => ~Fits(s, part) \/ type[s] = "poly"
  /\ currRing' = RingSet(s, part, currRing)
  /\ wild' = (currRing' = Garbage)
  /\ leaked' = leaked \cup Copies
  /\ End
  /\ UNCHANGED <<type, imm, mem, alive, content, place, attrs, shared>>

(***************************************************************************)
(* So do integers, strings, ring wrappers and everything else.             *)
(***************************************************************************)
RefuseOther ==
  /\ TakesArgument
  /\ leaked' = leaked \cup Copies
  /\ End
  /\ UNCHANGED ovars

CallsKernel == ~wild /\ func # NULL /\ Len(args) = Len(Params[func])
Mixed == \E i \in DOMAIN args : place[args[i].data] # r
UsesFreed == \E i \in DOMAIN args : args[i].data \notin alive

(***************************************************************************)
(* The kernel destroys arguments and returns a new polynomial over r,      *)
(* which becomes a mutable object.                                         *)
(***************************************************************************)
ReturnPoly(b) ==
  /\ CallsKernel
  /\ func \notin ReturnsNoObject \cup ReturnsArgument
  /\ \E d \in Unused \cup (Destroyed \ shared) :
       /\ Fill(b, "poly", FALSE, NEW_SINGOBJ_RING(d, r), NULL)
       /\ alive' = (alive \ Destroyed) \cup {d}
       /\ content' = [e \in Data |-> IF e \in Destroyed \cup {d} THEN 0 ELSE content[e]]
       /\ place' = [e \in Data |-> IF e = d THEN r
                                   ELSE IF e \in Destroyed THEN NULL ELSE place[e]]
  /\ wild' = (Mixed \/ UsesFreed)
  /\ End
  /\ UNCHANGED <<currRing, shared, leaked>>

(***************************************************************************)
(* A number or a string for GAP: nothing remains of the call.              *)
(***************************************************************************)
ReturnNoObject ==
  /\ CallsKernel
  /\ func \in ReturnsNoObject
  /\ wild' = (Mixed \/ UsesFreed)
  /\ End
  /\ UNCHANGED <<type, imm, mem, alive, content, currRing, place, attrs, shared, leaked>>

(***************************************************************************)
(* The argument, not a copy of it, gets a second wrapper; pReverse has     *)
(* also changed it.                                                        *)
(***************************************************************************)
ReturnArgument(b) ==
  LET d == args[1].data
  IN  /\ CallsKernel
      /\ func \in ReturnsArgument
      /\ Fill(b, "poly", FALSE, NEW_SINGOBJ_RING(d, r), NULL)
      /\ content' = [content EXCEPT ![d] = 1 - @]
      /\ shared' = shared \cup {d}
      /\ wild' = (Mixed \/ UsesFreed)
      /\ End
      /\ UNCHANGED <<alive, currRing, place, leaked>>

-----------------------------------------------------------------------------
(* The specification *)

Init ==
  /\ ObjectsInit
  /\ func = NULL /\ r = NULL /\ args = <<>> /\ leaked = {}

(***************************************************************************)
(* The other operations wait for the end of a mapping: GAP has one thread, *)
(* and a mapping neither calls GAP nor allocates a bag before the result.  *)
(***************************************************************************)
Next ==
  \/ func = NULL /\ ObjectsNext /\ UNCHANGED mvars
  \/ \E f \in Mappings : StartMapping(f)
  \/ \E s \in Live, part \in BOOLEAN : TakeArg(s, part) \/ RefuseArg(s, part)
  \/ RefuseOther
  \/ \E b \in Bags : ReturnPoly(b) \/ ReturnArgument(b)
  \/ ReturnNoObject

Spec == Init /\ [][Next]_vars

-----------------------------------------------------------------------------
(* Properties *)

Word == {"type", NULL, Garbage} \cup Data \cup Rings \cup Attr

(***************************************************************************)
(* Type invariant of the objects and of the running mapping (libsing.h,    *)
(* cxxfuncs.cc, gen_lowlevel_mappings.g).                                  *)
(***************************************************************************)
TypeOK ==
  /\ type \in [Bags -> Type]
  /\ imm \in [Bags -> BOOLEAN]
  /\ mem \in [Bags -> Seq(Word)]
  /\ \A b \in Live : /\ Len(mem[b]) \in 2..5
                     /\ CXX_SINGOBJ(b) \in Data
                     /\ ATTRIB_SINGOBJ(b) \in Attr \cup {NULL}
  /\ alive \subseteq Data /\ shared \subseteq Data /\ leaked \subseteq Data
  /\ content \in [Data -> {0, 1}]
  /\ place \in [Data -> Rings \cup {NULL}]
  /\ attrs \in [Bags -> Attr \cup {NULL}]
  /\ func \in Mappings \cup {NULL}
  /\ args \in Seq([data : Data, copied : BOOLEAN])
  /\ func = NULL => args = <<>>
  /\ func # NULL => Len(args) \in 0..Len(Params[func])
  /\ wild \in BOOLEAN
  /\ ~wild => {currRing, r} \subseteq Rings \cup {NULL}

(***************************************************************************)
(* The words of an object give back its attributes, whatever its type, and *)
(* the ring its data belongs to, if it has one, however often it was       *)
(* copied, and whichever mapping made it.                                  *)
(***************************************************************************)
WordsReadable ==
  \A b \in Live : LET q == place[CXX_SINGOBJ(b)]
                  IN  /\ ATTRIB_SINGOBJ(b) = attrs[b]
                      /\ q # NULL => ReadRing(b) = q

(***************************************************************************)
(* Each object owns its data alone and the data is allocated, so that the  *)
(* free function never frees twice: "objects are wrapped only once".  The  *)
(* exception is what pReverse returns.  Nothing allocated is without an    *)
(* owner but for the copies of a running mapping, or of a refused one.     *)
(***************************************************************************)
DataOwnedOnce ==
  /\ \A b \in Live : CXX_SINGOBJ(b) \in alive \cup shared
  /\ \A b, c \in Live : b # c /\ CXX_SINGOBJ(b) \notin shared =>
                          CXX_SINGOBJ(b) # CXX_SINGOBJ(c)
  /\ \A b \in Live : CXX_SINGOBJ(b) \notin Copies \cup leaked
  /\ \A d \in alive : \/ \E b \in Live : CXX_SINGOBJ(b) = d
                      \/ d \in Copies \cup leaked

(***************************************************************************)
(* An immutable object stays immutable and keeps its value until it is     *)
(* freed; no modification of a mutable copy, or of the original, and no    *)
(* mapping it is an argument of, shows.  The exception is pReverse.        *)
(***************************************************************************)
ImmutableKeepsValue ==
  [][\A b \in Live : (imm[b] /\ mem'[b] # <<>>) =>
       /\ imm'[b]
       /\ mem'[b][2] \in shared' \/ content'[mem'[b][2]] = content[CXX_SINGOBJ(b)]]_vars

(***************************************************************************)
(* Objects are values: whatever is copied, passed to a mapping, destroyed, *)
(* freed or refused, no object but the one that is modified changes, as    *)
(* ObjectValues says.  The value is that of the data the bag points to;    *)
(* what pReverse was given and what it returned are entangled.             *)
(***************************************************************************)
ObjectOf == [b \in Bags |->
  IF mem[b] = <<>> THEN [type |-> "free", imm |-> FALSE, value |-> NULL]
  ELSE [type |-> type[b], imm |-> imm[b],
        value |-> IF CXX_SINGOBJ(b) \in shared THEN NULL ELSE content[CXX_SINGOBJ(b)]]]
ObjectsAsValues ==
  INSTANCE ObjectValues
    WITH Objects <- Bags, Types <- Type, Values <- {0, 1}, Lost <- NULL, object <- ObjectOf
ImplementsValues == ObjectsAsValues!Spec

(***************************************************************************)
(* If the arguments of a mapping are over one ring, the kernel gets that   *)
(* ring and it is the current ring, although the check was disabled and    *)
(* every argument, object or proxy, sets them anew.                        *)
(***************************************************************************)
KernelGetsOneRing ==
  \A q \in Rings :
    (~wild /\ args # <<>> /\ \A i \in DOMAIN args : place[args[i].data] = q) =>
      r = q /\ currRing = q

(***************************************************************************)
(* Nothing behind the end of a bag is taken for a ring, nothing freed is   *)
(* used and no polynomial is used over a ring that is not its own, except: *)
(* a list without a ring, an object that pReverse shared, arguments over   *)
(* two rings, an assignment to an entry of a matrix that is not over the   *)
(* current ring.                                                           *)
(***************************************************************************)
EntrySetElsewhere ==
  /\ mem' = mem
  /\ \E b \in Live : LET d == CXX_SINGOBJ(b)
                     IN  /\ type[b] = "poly" /\ ~imm[b]
                         /\ content'[d] # content[d]
                         /\ place[d] # currRing

NoOtherWildUse ==
  [][wild' /\ ~wild =>
       \/ \E b \in Live : type[b] = "list" /\ place[CXX_SINGOBJ(b)] = NULL
       \/ ~(shared \subseteq alive)
       \/ \E i, j \in DOMAIN args : place[args[i].data] # place[args[j].data]
       \/ EntrySetElsewhere]_vars

-----------------------------------------------------------------------------
(* The inductive invariant *)

(***************************************************************************)
(* Only a list can lack the word with its ring.  Polynomials and numbers   *)
(* keep their ring, and their data belongs to one until it is freed.       *)
(***************************************************************************)
RingWords ==
  \A b \in Live :
    /\ Len(mem[b]) >= 3 /\ HasRingTable(type[b]) =>
         mem[b][3] \in Rings \cup {NULL, Garbage}
    /\ type[b] \in {"poly", "number"} =>
         /\ Len(mem[b]) >= 3 /\ mem[b][3] \in Rings
         /\ ~wild /\ CXX_SINGOBJ(b) \in alive => place[CXX_SINGOBJ(b)] # NULL

(***************************************************************************)
(* The arguments so far: the copies are those the kernel destroys, the     *)
(* others belong to objects, and the last one has set the ring.            *)
(***************************************************************************)
ArgsOwned ==
  /\ \A i \in DOMAIN args : args[i].copied = Params[func][i].destroys
  /\ \A i \in DOMAIN args :
       ~args[i].copied => \E s \in Live : CXX_SINGOBJ(s) = args[i].data
  /\ Copies \cup leaked \subseteq alive
  /\ Copies \cap leaked = {}

ArgsUsable ==
  ~wild => /\ \A i \in DOMAIN args : /\ args[i].data \in alive
                                     /\ place[args[i].data] # NULL
           /\ args # <<>> => /\ r = place[args[Len(args)].data]
                             /\ currRing = r

IInv == /\ TypeOK
        /\ WordsReadable
        /\ DataOwnedOnce
        /\ RingWords
        /\ ArgsOwned
        /\ ArgsUsable

=============================================================================
