------------------------------ MODULE Numbers -------------------------------
(***************************************************************************)
(* Numbers between GAP and Singular.  Both keep small integers in a        *)
(* pointer and long ones as GMP integers, with different limits, and a C   *)
(* int is yet another range, so every conversion takes cases.  The ranges  *)
(* are parameters; the code has 2^60 or 2^28 for HalfGap, 2^31 for HalfInt *)
(* and at most 2^60 for HalfSing.                                          *)
(***************************************************************************)
EXTENDS Integers

CONSTANTS
  HalfGap,   \* immediate integers of GAP
  HalfInt,   \* the C type int
  HalfSing   \* immediate integers of Singular

(***************************************************************************)
(* An immediate integer of Singular fits into one of GAP.                  *)
(***************************************************************************)
ASSUME WidthsAssumption ==
  /\ HalfGap \in Nat /\ HalfInt \in Nat \ {0}
  /\ HalfSing \in 0..HalfGap

Signed(half) == -half .. (half - 1)

(***************************************************************************)
(* Values of GAP: integers and rationals, elements of finite fields, and   *)
(* everything else.                                                        *)
(***************************************************************************)
GapInt(n) == [t |-> "int", num |-> n, den |-> 1]
GapRat(n, d) == [t |-> "rat", num |-> n, den |-> d]
GapFFE(p, degree, v) == [t |-> "ffe", num |-> v, den |-> 1, char |-> p,
                         degree |-> degree]
GapOther == [t |-> "other", num |-> 0, den |-> 1]
IS_INTOBJ(g) == g.t = "int" /\ g.num \in Signed(HalfGap)

(***************************************************************************)
(* Values of Singular: immediate, mpz with s = 3, a fraction with s = 0, a *)
(* residue; an int of the interpreter; or an error instead.                *)
(***************************************************************************)
Value(rep, n, d) == [rep |-> rep, num |-> n, den |-> d]
Imm(n) == Value("imm", n, 1)
Mpz(n) == Value("mpz", n, 1)
Refused == Value("refused", 0, 1)

(***************************************************************************)
(* n_Init makes the shortest representation: of coeffs_BIGINT and Q an     *)
(* immediate integer if it can.                                            *)
(***************************************************************************)
n_InitQ(i) == IF i \in Signed(HalfSing) THEN Imm(i) ELSE Mpz(i)
n_Init(i, f) == IF f.kind = "Q" THEN n_InitQ(i) ELSE Value("residue", i % f.char, 1)

_SI_GMP_FROM_GAP(n) == Mpz(n)

(***************************************************************************)
(* The remainder of C has the sign of n.                                   *)
(***************************************************************************)
CRem(n, p) == IF n >= 0 THEN n % p ELSE -((-n) % p)

(***************************************************************************)
(* MOD of GAP for rationals: the denominator must be invertible.           *)
(***************************************************************************)
Quotients(g, p) == {v \in 0..(p - 1) : (v * g.den - g.num) % p = 0}
NumberMod(g, p) == IF g.den % p = 0 THEN {} ELSE Quotients(g, p)

-----------------------------------------------------------------------------
(* number.cc *)

FitsImmediate(g) == IS_INTOBJ(g)
FitsInt(g) == IS_INTOBJ(g) /\ g.num \in Signed(HalfInt)

(***************************************************************************)
(* An element of another field (WrongChar would let extensions through).   *)
(***************************************************************************)
WrongChar(f, g) == g.char # f.char
WrongField(f, g) == g.char # f.char \/ g.degree # 1

FromGAPZp(f, g) ==
  CASE IS_INTOBJ(g) -> n_Init(CRem(g.num, f.char), f)
    [] g.t = "ffe" -> IF WrongField(f, g) THEN Refused ELSE n_Init(g.num, f)
    [] ~IS_INTOBJ(g) /\ g.t \in {"int", "rat"} ->
         IF NumberMod(g, f.char) = {} THEN Refused
         ELSE n_Init(CRem(CHOOSE v \in NumberMod(g, f.char) : TRUE, f.char), f)
    [] OTHER -> Refused

FromGAPQ(g) ==
  CASE IS_INTOBJ(g) -> n_InitQ(g.num)
    [] ~IS_INTOBJ(g) /\ g.t = "int" -> _SI_GMP_FROM_GAP(g.num)
    [] g.t = "rat" -> Value("rat", g.num, g.den)
    [] OTHER -> Refused

(***************************************************************************)
(* Small integers go to n_Init for every coefficient field.                *)
(***************************************************************************)
_SI_NUMBER_FROM_GAP(f, g) ==
  IF FitsInt(g) THEN n_Init(g.num, f)
  ELSE CASE f.kind = "Zp" -> FromGAPZp(f, g)
         [] f.kind = "Q" -> FromGAPQ(g)
         [] OTHER -> Refused

(***************************************************************************)
(* (MpzFromGAP would not look whether the integer is an immediate one.)    *)
(***************************************************************************)
MpzFromGAP(g) == IF g.t = "int" THEN _SI_GMP_FROM_GAP(g.num) ELSE Refused
_SI_BIGINT_FROM_GAP(g) ==
  CASE IS_INTOBJ(g) -> n_InitQ(g.num)
    [] ~IS_INTOBJ(g) /\ g.t = "int" -> _SI_GMP_FROM_GAP(g.num)
    [] OTHER -> Refused

(***************************************************************************)
(* For an argument of the interpreter; called for integers only.           *)
(***************************************************************************)
_SI_BIGINT_OR_INT_FROM_GAP(g) ==
  IF FitsInt(g) THEN Value("int", g.num, 1)
  ELSE IF IS_INTOBJ(g) THEN n_InitQ(g.num) ELSE _SI_GMP_FROM_GAP(g.num)

INTOBJ_INT(n) == IF n \in Signed(HalfGap) THEN GapInt(n) ELSE GapOther

_SI_BIGINT_OR_INT_TO_GAP(v) ==
  IF v.rep = "imm" THEN INTOBJ_INT(v.num) ELSE GapInt(v.num)

(***************************************************************************)
(* What the interpreter sees in an INT_CMD: the lower half of the word.    *)
(***************************************************************************)
IntOf(v) == ((v.num + HalfInt) % (2 * HalfInt)) - HalfInt

-----------------------------------------------------------------------------
(* What a conversion should give *)

IntegerIn(n) == IF n \in Signed(HalfSing) THEN Imm(n) ELSE Mpz(n)

(***************************************************************************)
(* The element of the field that a value of GAP stands for, if there is    *)
(* one, in the only representation Singular compares correctly.            *)
(***************************************************************************)
ElementOf(f, g) ==
  CASE f.kind = "Q" /\ g.t = "int" -> {IntegerIn(g.num)}
    [] f.kind = "Q" /\ g.t = "rat" -> {Value("rat", g.num, g.den)}
    [] f.kind # "Q" /\ g.t \in {"int", "rat"} ->
         {Value("residue", v, 1) : v \in Quotients(g, f.char)}
    [] f.kind # "Q" /\ g.t = "ffe" ->
         IF g.char = f.char /\ g.degree = 1 THEN {Value("residue", g.num, 1)} ELSE {}
    [] OTHER -> {}

=============================================================================
