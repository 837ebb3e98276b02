# SingularInterface in TLA+

SingularInterface connects GAP with Singular through libsingular.  Objects of
Singular appear in GAP as bags of type `T_SINGULAR` ("wrappers"), and GAP calls
Singular through its interpreter or its kernel.  Two memory managers meet here:
GASMAN, the generational mark and sweep collector of GAP, and the reference
counts of Singular.  Everything runs in one thread, so the hard part is not
parallelism but *order*: a collection may start wherever a bag is allocated, an
error leaves C++ code by a `longjmp`, the current ring is a global variable
that every conversion of an argument may change, and the same hidden
identifiers of the interpreter serve every call.

This directory holds TLA+ models of these mechanisms, TLC configurations that
check them, and TLAPS proofs about the central ones.  `src/...` are paths of the
repository.

## Inventory

| Component | State | Operations | Interacts with | What makes it correct |
|---|---|---|---|---|
| Wrapper heap and garbage collection (`src/src/cxxfuncs.cc` 30-236, `libsing.h` 55-211) | bags, their type, pointer, ring, cached zero and one; per ring `ref` and `ext_ref`; `SingularRingsToCleanup` | `NEW_SINGOBJ*`, `_SI_ObjMarkFunc`, `_SI_FreeFunc`, `SingularRingCleaner`, `possiblytriggerGC` | callbacks of GASMAN; `rKill` of Singular | a ring outlives its wrapper and its objects; nothing is used after it was freed; the interpreter's rings are not deleted under it; garbage is freed |
| Zero and one (`cxxfuncs.cc` 868-926, `lib/arith.gi`) | elements cached in the ring wrapper | `ZeroSMSingObj`, `OneSMSingObj` | wrapper heap (write barrier) | cached elements survive partial collections |
| Access to rings (`cxxfuncs.cc` 433-489, `calls.cc` 303-314, 471-483) | `currRing` | `SI_RingOfSingobj`, `SI_Indeterminates`, `SI_SetCurrRing`, `extractRing` | wrapper heap, calls | a ring is current only while it exists |
| Ring construction (`cxxfuncs.cc` 258-430, `lib/types/ring.gi`) | none between calls | `SI_ring`, `_SI_ring` | wrapper heap | the blocks of the orderings divide the variables |
| Interpreter calls (`calls.cc`, `lib/interpreter.gi`) | parameter slots, the fake ring identifier, `currRing`, `currRingHdl` | `SI_CallFunc1/2/3/M`, `SI_CallProc`, `SI_EVALUATE`, `gapwrap` | conversion, wrapper heap, interpreter | a call sees its own arguments, in their ring, and leaves nothing behind |
| Conversion of arguments (`singobj.cc`, `singobj.h`) | temporary Singular objects | `SingObj::init`, `cleanup`, `destructiveuse` | calls, low-level mappings | every temporary is freed once, also after errors |
| Proxy objects (`singobj.cc` 27-135, `lib/proxy.gi`) | none | `SI_Proxy`, `FOLLOW_SUBOBJ` | conversion | the part that was named, with its type, or an error |
| Objects: layout, copies, mutability (`cxxfuncs.cc` 718-859, `libsing.h` 111-211, `singtypes.cc`) | words of the bags, ownership of the data, the immutable bit | `CopySingObj`, `MakeImmutableSingObj`, accessors | collector, matrices | data has one owner; immutable objects do not change; a word is read as what it was written |
| Matrices and ideals (`matrix.cc`, `cxxfuncs.cc` 493-604) | the matrix in the making | `SI_matrix_from_els`, `SI_ideal_from_els`, `_SI_intmat`, `_SI_bigintmat`, `_SI_MatElm`, `_SI_SetMatElm` | objects, `currRing` | every element at its place or an error that leaves nothing behind |
| Output and errors of Singular (`calls.cc` 20-86, `lib/interpreter.gi`) | capture buffer, two string objects | `StartPrintCapture`, `EndPrintCapture`, `SingularLastOutput`, `SingularLastError`, `_SI_ErrorCallback` | calls; GAP code that has the strings | the buffer is freed once; output and errors belong to the last call |
| Numbers (`number.cc`) | none | `_SI_NUMBER_FROM_GAP`, `_SI_BIGINT_FROM_GAP`, `_SI_BIGINT_OR_INT_FROM_GAP`, `_SI_BIGINT_OR_INT_TO_GAP` | matrices, conversion, `currRing` | the number is the same on both sides of every limit, in the representation Singular compares |
| Variables, `SI_ToGAP` (`cxxfuncs.cc` 540-558, 607-713, `matrix.cc` 49-142) | the GAP list in the making | `SingularValueOfVar`, `SI_ToGAP`, `_SI_Matintmat`, `_SI_Matbigintmat`, `_SI_Plistintvec` | GASMAN | what was stored in a list survives every collection |
| Low-level mappings (`gen_lowlevel_mappings.g`, `lowlevel_mappings_src.h.in`) | the local `r`, the arguments so far and which are copies | one generated function for each kernel function | conversion, objects, `currRing` | the kernel gets one ring; arguments survive; copies have one owner |
| High-level mappings (`gen_highlevel_mappings.g`, `gentableforGAP.cc`) | none | generated GAP functions | calls | |
| Type tables (`singtypes.*`), initialisation (`libsing.cc`), display (`lib/view.gi`) | constant | | | |

External to the repository, and modelled as the code uses them: GASMAN, the
Singular kernel and the Singular interpreter.

The hard behaviours, with their lines, are listed under "hazards" in
`PROJECT.json`.

## Modules

| Module | Models | Checked by |
|---|---|---|
| `RingLifetimes` | abstract: how long GAP and the interpreter may count on a ring | refined by `SingularWrappers` |
| `SingularWrappers` | wrapper heap, collector, zero and one, ring access | `MCSingularWrappers`, `SingularWrappers_proofs` |
| `SingularCalls` | interpreter calls, conversion of their arguments, ring identifiers | `MCSingularCalls`, `SingularCalls_proofs` |
| `RingOrderings` | the orderings of `SI_ring` | `MCRingOrderings`, `RingOrderings_proofs` |
| `ObjectValues` | abstract: each object is a value of its own | refined by `LowLevelMappings` |
| `SingularObjects` | layout, copies, mutability, ownership of data | as part of `LowLevelMappings` |
| `LowLevelMappings` | extends `SingularObjects` by the generated functions | `MCLowLevelMappings`, `LowLevelMappings_proofs` |
| `MatrixContents` | abstract: what GAP may rely on when it makes a matrix | refined by `SingularMatrices` |
| `SingularMatrices` | matrices and ideals | `MCSingularMatrices`, `SingularMatrices_proofs` |
| `InterpreterOutput` | output and errors | itself, `InterpreterOutput_proofs` |
| `SubObjects` | proxies | as part of `Conversions` |
| `Numbers` | conversion of numbers (operators only) | as part of `Conversions` |
| `GapLists` | GAP lists made while the collector runs | as part of `Conversions` |
| `Conversions` | extends the three: values on their way between GAP and Singular | `MCConversions`, `Conversions_proofs` |

### RingLifetimes and SingularWrappers

`RingLifetimes` promises: a ring is made with one holder, lives until the step
in which its last holder releases it, and has no objects then, so every object
is freed in a living ring; pinned rings are never deleted.  It knows nothing of
reference counts, `ext_ref` or collections.  The refinement mapping counts as
holders of a ring its identifiers, its wrapper and its scheduled kill
(`HoldersOf`), as its objects the bags that were wrapped while it had its
wrapper (`ObjectsOf`), and the rings of `SI_ring` as pinned (`surplus`).

In `SingularWrappers`:

One model value of `Bags` is a master pointer that GASMAN may use again, one of
`Rings` a ring structure.  `kind`, `cxx`, `qtype` and `cache` are the words of
a bag; `ref`, `ext` and `qideal` the fields of a ring; `handles` counts the
identifiers and values of the interpreter that name a ring; `roots` is what GAP
refers to; `old` and `changed` are the generations of GASMAN.  A collection
(`CollectBags`) computes the bags that die, `_SI_FreeFunc` then frees them one
at a time in any order, `SingularRingCleaner` gives the rings back and
`CollectionDone` ends it.  Nothing else runs during a sweep, as in the code.
`possiblytriggerGC` is a collection that Singular's memory asks for, partial or
full as its counter `GCCOUNT` says (`FullGC` stands for 10); `GapCollects` one
that GASMAN starts itself, of either kind, which leaves the counter alone.
A collection may start between any two actions of GAP and, because gapwrap
first makes the wrapper of the current ring and then, in `NEW_SINGOBJ_RING`,
another bag, also in the middle of gapwrap (`pending`, `StackMayHold`: GASMAN
scans the C stack conservatively, so what is only on the stack may or may not
be found).

A procedure of Singular may return several results.  `CallProc` then makes a
plain list (`list`: none, young or old; `filling`: the ring of the call while
results are added), and `Deliver` stores what gapwrap returns in it (`listed`)
instead of making it a root of its own.  `SET_ELM_PLIST` does not tell GASMAN,
so a partial collection looks at what the list refers to only while the list is
young (`MarkList`); what is swept although the list refers to it is `lost`, and
reading it (`TakeResult`) is wild.  GAP may take results out of the list, and
forget it.  Other references of GAP are `roots`: GAP reports its own lists.

A ring is deleted by `rKill` if its `ref` is not positive, and
loses a reference otherwise (Singular 4.1.2).  `surplus` is a history variable:
the rings with a reference that belongs to nobody, which are those `SI_ring`
made; with it the reference count is known exactly.

`wild` becomes true when the code follows a pointer to something that was
freed.  The program has undefined behaviour then and the model stops, which is
why the runs of this module do not check deadlock.

### SingularCalls

The record `sg` is the part of Singular that knows rings: `currRing`,
`currRingHdl`, the identifiers and the reference counts.  `pc` follows a call:
arguments (`init`), the call itself (`start`, `run`), and the wrapping of the
results (`wrap`).  `Destructors` stands for the C++ destructors of the
`SingularIdHdl` objects and of `TempSetCurrRing`; `WrapError` is the longjmp
that skips them.  A string that is evaluated may declare, set and kill rings,
one command after the other; nothing is known about other functions of
Singular, which leave the current ring as it was.  Wrappers are not collected
here (`SingularWrappers` is about that), and a result that is a ring is one the
interpreter can name.

### RingOrderings

GAP builds a list of orderings and passes it through one of three methods.
`CheckOrdering` is one round of the loop that counts the variables,
`BuildBlock` one round of the loop that fills `ord`, `block0`, `block1` and
`wvhdl`.  An ordering is known by the kind of its name and by what follows it.
`covered += sqrt(n)` is rounded towards zero as in C.

### ObjectValues and SingularObjects

`ObjectValues` promises what GAP relies on when it computes: an object that is
made is a value of its own, becomes immutable but never mutable again, and
changes its value only by an operation on this very object while it is mutable.
In each step one object changes or comes into being.  The exception is
`Entangle`: the result of `pReverse` and its argument lose all claims on their
values.  The refinement mapping `ObjectOf` takes the type and the lowest bit of
a bag and the content of the data its second word points to, so that two bags
with the same data would change together.


`mem` holds the words of each bag, and accessors read them the way `libsing.h`
does: by the *type* of the object, and by the size of the bag where the
attributes are concerned.  What lies behind the end of a bag is `Garbage`.
`alive` is the Singular data that is allocated, `content` its value, `place`
the ring a polynomial or number belongs to, `shared` what `pReverse` has given
a second wrapper.

### LowLevelMappings

`Params` is the table of prototypes, with `DESTROYS` where the source has it.  A
function starts with `r = currRing` (`StartMapping`), takes one argument at a
time (`TakeArg`: an object, or a proxy for a part of a list or an ideal, sets `r` and
`currRing`, and is copied if the kernel destroys it), and either an argument is
refused (`RefuseArg`, `RefuseOther`) or the kernel runs (`ReturnPoly`,
`ReturnNoObject`, `ReturnArgument`).  An action of `SingularObjects` happens
only between two functions, as GAP has one thread; `currRing` and the objects
are shared by both.  What the kernel does is external: it frees what its
prototype says and returns a polynomial over the ring it was given; using one
ring's polynomial in another, or freed data, makes `wild` true.  `pLast` and
`pReverse` get no ring and can allocate no term, so what they return consists
of terms of the argument.

### MatrixContents and SingularMatrices

`SingularMatrices` has one action for each round of the loops that fill a
matrix; a C `int` is one of the numbers from `-HalfInt` to `HalfInt - 1`.
Immediate integers of GAP are longer than an `int`; the module keeps them
unbounded, and `ToInt` is the C conversion.
The refinement mapping takes the list a call works on to the request
(`given`), the finished object to the contents (`entry`).

### InterpreterOutput

Texts are sequences of pieces, each known by the number of its call (0: written
by GAP code).  The two string objects are shared with GAP, which may append to
them or turn them into ordinary lists.

### SubObjects, Numbers, GapLists and Conversions

In `SubObjects` an object is a tree; `FOLLOW_SUBOBJ` walks down one position or
one pair of positions at a time.  `Part` is the reference definition.

`Numbers` has one operator for each function of `number.cc`.  There are three
kinds of small integers: immediate ones of GAP (60 or 28 bits), the C `int`,
and immediate ones of Singular; their ranges are the parameters `HalfGap`,
`HalfInt` and `HalfSing`.  A value of Singular is a representation with a
numerator and a denominator.  `ElementOf` is the reference definition: the
element of the field a GAP number stands for, in the representation in which
Singular compares numbers, where an integer that fits must be immediate.

`GapLists` makes the list of lists of `_SI_Matbigintmat` (`_SI_Matintmat` and
`SingularValueOfVar` have the same loops; the list of `_SI_Plistintvec` is one
row): every element may need a bag of its own, so a collection, partial or
full, may come between any two steps.  Bags are named by their place.

`Conversions` puts the three together: one conversion at a time, the number in
`given`, what it became in `data`, and what GAP gets back in `back`.

## Runs

| Run | Shows | Bounds |
|---|---|---|
| `wrappers_one_ring` | refinement of `RingLifetimes`, type correctness, ownership, the caches, which rings leak | 1 ring, 3 bags (its wrapper and two objects, or both cached elements), 2 handles: enough for a ring that is wrapped, forgotten, kept by the interpreter and wrapped again while an old object dies; no lists of results (`MaxResults` 0) and no partial collections by count (`FullGC` 0), as GASMAN's own are of both kinds |
| `wrappers_live` | nothing GAP refers to is lost but by an old list of results; a dangling pointer is used only after that, or after a ring has lost its wrapper; unreachable wrappers are freed (fairness below) | 1 ring, 2 bags, 1 handle; a list that has referred to two bags: one stored while it was young, one after a collection, which the next partial one frees; `FullGC` 1: both branches of the counter, with collections of GASMAN in between |
| `ext_ref` | *violation*: `ExtRefIsWrapper` | as above |
| `calls` | slots, temporaries, ring identifiers, references, the ring of calls and results | 1 ring of GAP, 2 of the interpreter; 2 arguments, 2 results, 1 temporary: enough for a stale slot behind a shorter call and for a ring identifier that is killed while another one is current |
| `stale_slots` | *violation*: `SlotsReset` | as above |
| `orderings` | blocks divide the variables, the verdict on coverage, which orderings fail late | 3 variables, 3 orderings (and the one ring.gi adds) of 21 kinds, sizes -1 to 2, a matrix of 4 entries |
| `weight_blocks_partition` | *violation*: `WeightBlocksPartition` | as above |
| `objects` | refinement of `ObjectValues` while low-level mappings use, copy and destroy objects; words and ownership; the ring the kernel gets | 3 bags, 3 data, 2 rings, 1 attribute list: an object, its copy and a result, or arguments over two rings; four prototypes: one and two arguments, destroyed and not, a number, an argument that is returned.  (Prototypes with three arguments are in the table; four mappings keep the run short, the theorems are about all.) |
| `matrices` | refinement of `MatrixContents`, nothing leaks, entries read back | int of 3 bits, 2 x 2, lists of 3, two rings; integers, rows and columns on both sides of the limits |
| `deleted_in_its_ring` | *violation*: `DeletedInItsRing` | as above |
| `output` | buffer freed once, output and errors of the last call | 4 calls of 2 pieces |
| `conversions` | the right part and its type; numbers and integers keep their value and get the right representation; lists keep their elements | positions up to 4 and one that is not immediate, lists of lists; `int` of 3 bits, Singular 4, GAP 5, integers from -20 to 20, so that each range has numbers on both sides of both limits; characteristics 3 and 5, denominators that are and are not invertible; 2 x 2 lists with long integers at every set of places |

The bounds are the constants of the `.cfg` files; `MaxHandles`, `MaxArgs`,
`MaxResults`, `MaxTemps`, `MaxVars`, `MaxOrds`, `MaxDim`, `MaxLen`,
`MaxCalls`, `MaxPieces`, `MaxIndex`, `Rows` and `Cols` appear as guards in the modules and
bound nothing that the code bounds.  Symmetry is used for bags, rings and data
in runs without liveness properties.  `CHECK_DEADLOCK FALSE` stands where the
model may stop: after undefined behaviour (`SingularWrappers`,
`LowLevelMappings`, `SingularMatrices`) or at the bound on calls
(`InterpreterOutput`).

### Fairness

Only `wrappers_live` needs fairness, and only for `Sweep`: a collection that was
started runs to its end in one call of `CollectBags`.  The code does not
guarantee that collections recur: the program may stop allocating, and the
threshold of `possiblytriggerGC` is doubled each time.  `GarbageFreed` therefore
has a hypothesis and not a fairness assumption: *if* Singular's memory passes
the threshold again and again (`ThresholdPassed`), every bag is free or
reachable again and again.  That the counter gets to a full collection, with
GASMAN's partial and full collections anywhere in between, is then a
consequence of `NextCount`; a counter that is reset by the wrong branch breaks
it.  Reachable is what GAP, the list of results or the stack refers to, and
what these lead to.

## Proofs

Seven modules `X_proofs` hold the theorems about `X`, for every value of its
constants.  Each proves `Init => IInv` and that every step keeps `IInv`, with
one lemma for each action (or for a group of actions that change the same
variables), then `Invariance`, and from it the properties of the run.  The
assumptions are the named ones of the modules; TLC evaluates them.

| Module | Proved | From |
|---|---|---|
| `SingularWrappers_proofs` | all properties of `wrappers_one_ring`, the refinement included; `RootsKept` and `WildOnlyAfterLoss` of `wrappers_live`; `HandleKeepsRing` | the null values are no bags or rings, `MaxHandles` and `FullGC` are natural numbers |
| `SingularCalls_proofs` | all properties of `calls` | rings of GAP are rings, no identifier is a ring |
| `LowLevelMappings_proofs` | all properties of `objects`, the refinement included; `ImmutableKeepsValue` | the null pointer and what lies behind a bag are nothing else, the null pointer no value; the mappings are of the table of prototypes |
| `InterpreterOutput_proofs` | all properties of `output` | `NULL` is no text |
| `RingOrderings_proofs` | all properties of `orderings`, and types | entries are orderings, the length of a list is a natural number |
| `Conversions_proofs` | all properties of `conversions` | characteristics are greater than 1, rationals of GAP are reduced, an immediate integer of Singular is one of GAP; matrices have rows and columns, their entries and those of vectors have one type, and their sizes are immediate integers (`ObjectsAssumption`) |
| `SingularMatrices_proofs` | all properties of `matrices`, the refinement included | `int` has at least two values, 0 is a polynomial, `NULL` is no ring |

None of the properties is inductive alone.  What the invariants add:

`SingularWrappers`:

- `RefCount`: the reference count of a ring plus one is exactly the number of
  its holders (identifiers, wrapper, scheduled kill), plus one more when
  `surplus` says so.  With it, `rKill` can only delete a ring nobody else
  holds, which is what `WrapperOwnsRing` and `HandleKeepsRing` need at
  `SingularRingCleaner` and `InterpKill`; one wrapper leaves one scheduled kill,
  so the sum does not change in `_SI_FreeFunc`.  That the count is exact gives
  `OnlyRingsOfSI_ringLeak`: a ring nobody holds is still there only if it was
  made by `SI_ring`;
- `GCInv`: outside of a sweep nothing is doomed and nothing scheduled, and GAP
  never refers to a doomed bag;
- `Generations`: every pointer from an old bag to a young one is known to
  GASMAN, because an object is younger than the wrapper of its ring, and a
  cached element was reported by `CHANGED_BAG`.  Without it a partial
  collection could free a cached element (`CachedElementsKept`) or the wrapper
  of a ring in use (`ValueKeepsRing`);
- `ListInv`: a list of results that is not old has lost nothing and refers to
  nothing doomed.  A list is young only until the next collection, which marks
  what it refers to.  The other parts (`WrapperInv`) say nothing of lists, so
  each action is shown to keep them apart from what it does to the list;
- `CurrRingAlive`: the current ring is not deleted, which makes gapwrap's
  reference to it safe.  It is no property of a run, since `rKill` itself resets
  the variable.

`Refinement` adds no invariant.  Wrapping a ring is `Make` for a new one and
`Hold` for one that is alive; wrapping an object is `Compute` if the ring has
its wrapper, and nothing otherwise; freeing an object that counts is `Free`.
`rKill` is `Release` (`KillSeen`): since the count is exact it deletes the ring
if and only if the holder was the last and the ring is not pinned, and an
object would still have the wrapper as a second holder (`ValueKeepsRing`).
Freeing the wrapper of a ring is a stutter, its hold goes to the scheduled kill
(`FreeSeen`), and so are calls and the start and end of a collection.
`HandleKeepsRing`, that a ring with an identifier is alive, is part of the
inductive invariant; no run lists it, as the refinement is stronger.

`SingularCalls`: what is true of the record `sg` whatever a call does to it
(`SingularOK`: counts, identifiers, the current ring), the place of the ring
identifier during a call (`HandleInCall`, `FakeOfCall`), and the slots and
temporaries that belong to the arguments converted so far (`SlotsOfArgs`,
`TempsOfArgs`).

`LowLevelMappings`: the third word of an object with a ring is its ring
(`RingWords`), an argument that was copied belongs to the call and one that was
not to its object (`ArgsOwned`), and all arguments the kernel gets are over the
ring of the last one as long as they came from one ring (`ArgsUsable`).
`Refinement` adds no invariant: filling a bag is `Make`, as the data is no other
object's (`NewSeen`; the kernel destroys copies only, so this holds for its
results as well), a modification or a release shows in no other object, as data
with two owners is known to be shared (`Claims`), and the steps of a mapping
before its result are stutters.  `ImmutableKeepsValue` follows along the same
lines; no run lists it, as the refinement is stronger.

`InterpreterOutput`: during a call output goes to the capture buffer, and
between calls there is none (`Capturing`).

`RingOrderings`: the number of variables after `k` orderings is a recursion
over the list.  The invariant therefore says that a function with these partial
sums *exists* (`Sums`); each round of the loop extends it by one.  That sum is the
one of the reference definition (`SizeSum`, `SumsAreSizes`), as C's square root,
rounded, is exact for squares (`ExactRoot`): so the verdict is right
(`CoverageInv`, `CoverageKept`).  `BuildInv`
says that the blocks so far divide the variables counted so far; that no sum
goes beyond the number of variables, and that the two sums agree, follow from
the smallest counterexample (`LeastNatural`), which replaces an induction.

`Conversions`: `FollowInv` says where `FOLLOW_SUBOBJ` is after each position
(`Followed`): at the whole object, or at the entry of a list the positions so
far name, with the type of that entry.  Two positions reach at most two levels
of lists, so no induction over the tree is needed.  `NumbersInv` states that the datum is what the functions of
`number.cc` make of the given number, and lemmas about residues (an inverse of
the denominator is unique, `%` on negative numbers) show that this is the right
element.  `Places` gives the bags and lists after every step of the two nested
loops, and `Reported` that an old list with a young element was reported.

`SingularMatrices`: the elements before `i` (or before `row` and `col`) are at
their places and the others are zero, so an overwritten entry is never lost;
`MATELEM` gives different places to different pairs (`PlaceUnique`), and the
number of entries that are not zero changes with one entry as the code counts
(`NotZeroUpdated`).  `Refinement` maps a maker to `Ask`, an error to `Refuse`
(and there really is a bad entry, or two rings), the end of the loop to
`Deliver`; every other step of a maker changes nothing there.

Only model-checked: liveness (`GarbageFreed`), which is out of the prover's
reach.

## Where the code and its documentation differ

Four differences have a run that shows them (`PROJECT.json`, "findings"):

- `ext_ref`: `r->ext_ref` is never reset, so a ring that outlives its wrapper
  points to a freed bag (`cxxfuncs.cc` 208);
- `stale_slots`: an error in gapwrap skips the clean-up of the call
  (`calls.cc` 177);
- `weight_blocks_partition`: the variables of a block with weights are not
  counted when the blocks are built (`cxxfuncs.cc` 408);
- `deleted_in_its_ring`: `_SI_SetMatElm` deletes in the current ring
  (`matrix.cc` 311; in `SingularObjects` the same step is the cause
  `EntrySetElsewhere` of `NoOtherWildUse`).

Others are visible in the modules, where properties except them by name, and
have no run:

- `SI_CallProc` stores several results in a list without `CHANGED_BAG`, although
  wrapping the next result may start a collection (`calls.cc` 539).  If one
  makes the list old, results stored after it are freed by the next partial
  collection.  `SingularValueOfVar` does report its lists: "ObjInt_Int can
  trigger garbage collections" (`cxxfuncs.cc` 631, 645).  (`lost`; `RootsKept`
  claims nothing for an old list, `WildOnlyAfterLoss` names it as a cause);
- gapwrap gives a current ring with a quotient ideal the type of a ring without
  one, and the other way round (`calls.cc` 156; `qtype` in `gapwrapCurrRing`);
- `SI_ring` increments `r->ref` of a fresh ring, which is therefore never
  deleted (`cxxfuncs.cc` 423: `OnlyRingsOfSI_ringLeak`, `surplus`);
- a matrix ordering counts the square root of its length in the check and its
  length when the block is built (`cxxfuncs.cc` 322, 408: `NoListFor({"M", "c"})`);
- negative sizes of blocks are accepted (`cxxfuncs.cc` 371: `Sizes(Nat)`);
- an ordering `["c"]`, "followed by nothing", passes the check and fails when
  the blocks are built (`cxxfuncs.cc` 401: `RefusedOnlyForC`);
- a list of no indeterminates, which `doc/ring.autodoc` 11-12 allows, makes a
  ring with one, because an empty list is a string for GAP (`ring.gi` 13-16,
  140, 166: `_ParseIndeterminatesDescription`), and is refused by `_SI_ring`
  (`cxxfuncs.cc` 273); a string of spaces is refused either way;
- the copy of a list without a ring has two words, and a third one is read
  (`cxxfuncs.cc` 757: `NoOtherWildUse`, `WordsReadable`);
- `_SI_SetMatElm` truncates integers, rows and columns to `int`
  (`matrix.cc` 260, 294: `ReadsBack`);
- errors of calls other than `SI_EVALUATE` accumulate (`calls.cc` 82, 129:
  `EvaluateShowsItsErrors`);
- `SingularLastOutput` returns the object of the variable, and no output reaches
  it any more when GAP code makes an ordinary list of it (`calls.cc` 62, 70:
  `OutputOfLastCall`);
- `FOLLOW_SUBOBJ` leaves the type of a matrix in place for its entries
  (`singobj.cc` 65: excepted in `RightPart`), and ignores a second position behind an
  element of an ideal or an integer vector (`singobj.cc` 48, 111: `LeftOver` in `RightPart`);
- a refused argument of a low-level mapping ends the call without freeing the
  copies of the arguments before it, since `destructiveuse` clears
  `needcleanup` (`gen_lowlevel_mappings.g` 346-361, `singobj.cc` 222; `singobj.h`
  44-47 asks for the clean-up: `leaked`, excepted in `DataOwnedOnce`);
- arguments of a low-level mapping over two rings are passed on with the ring of
  the last (`gen_lowlevel_mappings.g` 322-325 admits it: `NoOtherWildUse`);
- `pReverse(poly p)` changes its argument and returns it, but is not declared
  with `DESTROYS`, although "p (resp, q, m, n) means arg is destroyed"
  (`lowlevel_mappings_src.h.in` 12, 82: `shared`, excepted in `DataOwnedOnce` and
  `NoOtherWildUse`; `Entangle` of `ObjectValues`);
- `SI_number` refuses numbers over other fields than Q and Z/p unless they fit
  an `int` (`number.cc` 83-88: excepted in `NumberRight`).

## Not modelled

- Looking up variables and procedures (`SingularValueOfVar` before its lists,
  `_SI_SingularProcs`) and copying strings to GAP: reads without state.
- What the generators print (`gen_lowlevel_mappings.g` beyond the functions it
  generates, `gen_highlevel_mappings.g`, `gentableforGAP.cc`), `view.gi`, the
  registration of handlers.  The generated high-level functions only call
  `SI_CallFunc1`, `2`, `3` and `M`.
- Coefficient fields and names of indeterminates: data that no property tells
  apart.  Of `_ParseIndeterminatesDescription` only the number of names is
  modelled, and none of its errors.
- Thresholds and capacities: how much memory `possiblytriggerGC` waits for (it
  may collect wherever it is called), the growth of `SingularRingsToCleanup`.
- A second list of several results while GAP still has the first one.
- What Singular computes.

## Plan

The order follows the damage a mistake does: first what may crash both systems
(wrapper heap, calls), then what corrupts single objects, then what gives wrong
answers.  Done: `SingularWrappers` with the exact reference count;
`RingLifetimes`; `SingularCalls`; `SingularObjects` and `LowLevelMappings` with
`ObjectValues`; `SingularMatrices` with `MatrixContents`; `RingOrderings`;
`InterpreterOutput`; `SubObjects`, `Numbers`, `GapLists` and `Conversions`; the
proofs listed above.

What would come next:

1. `SingularCalls` and `SingularWrappers` in one model: collections between the
   conversion of two arguments.
2. The threshold of `possiblytriggerGC`, on which the hypothesis of
   `GarbageFreed` rests, and the names of indeterminates.
