----------------------- MODULE InterpreterOutput_proofs -----------------------
(***************************************************************************)
(* Output and errors for any number of calls and of pieces of text.        *)
(***************************************************************************)
EXTENDS InterpreterOutput, TLAPS

(***************************************************************************)
(* Texts are closed under what the calls do to them.                       *)
(***************************************************************************)
LEMMA Texts ==
  /\ <<>> \in Text /\ <<0>> \in Text /\ NULL \notin Text
  /\ \A t \in Text, c \in 0..MaxCalls : Append(t, c) \in Text
  BY BoundsAssumption, NullAssumption DEF Text

LEMMA Strings ==
  /\ EmptyString \in StringObj
  /\ \A s \in StringObj : /\ ResetString(s) \in StringObj
                          /\ ResetString(s).isString => ResetString(s).text = <<>>
                          /\ \A c \in Changed(s) :
                               /\ c \in StringObj /\ c.text = <<0>>
                               /\ c.isString => s.isString
  BY Texts DEF EmptyString, StringObj, ResetString, Changed

LEMMA InitIInv == Init => IInv
<1>1. SUFFICES ASSUME Init PROVE IInv
  OBVIOUS
<1>2. TypeOK
  <2>1. output \in StringObj /\ errors \in StringObj
    BY <1>1, Strings DEF Init
  <2>2. buf \in Text \cup {NULL} /\ capture \in Text \cup {NULL}
    BY <1>1 DEF Init
  <2>3. printed \in Text /\ reported \in Text
    BY <1>1, Texts DEF Init
  <2>4. buffers \in Nat /\ calls \in 0..MaxCalls
    BY <1>1, BoundsAssumption DEF Init
  <2>5. QED
    BY <1>1, <2>1, <2>2, <2>3, <2>4 DEF Init, TypeOK
<1>3. output.text = printed /\ buf = NULL
  BY <1>1 DEF Init, EmptyString
<1>4. OutputOfLastCall
  BY <1>3 DEF OutputOfLastCall, WouldReturn
<1>5. BufferFreedOnce /\ EvaluateShowsItsErrors /\ Capturing
  BY <1>1 DEF Init, BufferFreedOnce, EvaluateShowsItsErrors, Capturing
<1>6. QED
  BY <1>2, <1>4, <1>5 DEF IInv

LEMMA CallStep ==
  ASSUME IInv, NEW kind \in {"func", "eval"}, Call(kind)
  PROVE  IInv'
<1>1. /\ pc = "gap" /\ calls < MaxCalls /\ pc' = kind /\ calls' = calls + 1
      /\ buffers' = 0 /\ buf' = NULL /\ capture' = <<>>
      /\ output' = ResetString(output)
      /\ errors' = IF kind = "eval" THEN ResetString(errors) ELSE errors
      /\ printed' = <<>> /\ reported' = <<>>
      /\ UNCHANGED <<gotOutput, gotErrors>>
  BY DEF Call, StartPrintCapture, ErrorsAtEvaluate, BuffersLeft, IInv,
     BufferFreedOnce
<1>2. TypeOK'
  BY <1>1, Texts, Strings, BoundsAssumption DEF IInv, TypeOK
<1>3. BufferFreedOnce' /\ OutputOfLastCall' /\ Capturing'
  BY <1>1, Texts, Strings DEF IInv, TypeOK, BufferFreedOnce, OutputOfLastCall,
     Capturing
<1>4. EvaluateShowsItsErrors'
  BY <1>1, Strings DEF IInv, TypeOK, EvaluateShowsItsErrors
<1>5. QED
  BY <1>2, <1>3, <1>4 DEF IInv

(***************************************************************************)
(* What the interpreter does during a call.                                *)
(***************************************************************************)
LEMMA InCallStep ==
  ASSUME IInv, Prints \/ _SI_ErrorCallback \/ Return
  PROVE  IInv'
<1>1. /\ pc # "gap" /\ capture = printed /\ capture # NULL /\ buf = NULL
      /\ output.isString => output.text = <<>>
      /\ buffers = 0
  BY DEF Prints, _SI_ErrorCallback, Return, IInv, Capturing, BufferFreedOnce
<1>2. CASE Prints
  <2>1. capture' \in Text /\ printed' \in Text /\ capture' # NULL
    BY <1>1, <1>2, Texts DEF Prints, IInv, TypeOK
  <2>2. TypeOK'
    BY <1>2, <2>1 DEF Prints, IInv, TypeOK
  <2>3. QED
    BY <1>1, <1>2, <2>1, <2>2 DEF Prints, IInv, BufferFreedOnce, OutputOfLastCall,
       EvaluateShowsItsErrors, Capturing
<1>3. CASE _SI_ErrorCallback
  <2>1. reported' \in Text /\ reported' = Append(reported, calls)
    BY <1>3, Texts DEF _SI_ErrorCallback, IInv, TypeOK
  <2>2. /\ errors' \in StringObj /\ errors'.isString = errors.isString
        /\ errors.isString => errors'.text = Append(errors.text, calls)
    BY <1>3, Texts DEF _SI_ErrorCallback, IInv, TypeOK, StringObj
  <2>3. TypeOK'
    BY <1>3, <2>1, <2>2 DEF _SI_ErrorCallback, IInv, TypeOK
  <2>4. EvaluateShowsItsErrors'
    BY <1>3, <2>1, <2>2 DEF _SI_ErrorCallback, IInv, EvaluateShowsItsErrors
  <2>5. QED
    BY <1>1, <1>3, <2>3, <2>4 DEF _SI_ErrorCallback, IInv, BufferFreedOnce,
       OutputOfLastCall, Capturing
<1>4. CASE Return
  <2>1. /\ buf' = printed /\ buf' # NULL /\ buffers' = 1 /\ capture' = NULL
        /\ pc' = "gap" /\ printed' = printed
        /\ UNCHANGED <<output, errors, gotOutput, gotErrors, calls, reported>>
    BY <1>1, <1>4 DEF Return, EndPrintCapture
  <2>2. TypeOK'
    BY <2>1 DEF IInv, TypeOK
  <2>3. QED
    BY <2>1, <2>2 DEF IInv, BufferFreedOnce, OutputOfLastCall, WouldReturn,
       MovedText, EvaluateShowsItsErrors, Capturing
<1>5. QED
  BY <1>2, <1>3, <1>4

(***************************************************************************)
(* What GAP code does between the calls.                                   *)
(***************************************************************************)
LEMMA GapStep ==
  ASSUME IInv, SingularLastOutput \/ SingularLastError \/ Write
  PROVE  IInv'
<1>1. pc = "gap" /\ pc' = pc /\ capture = NULL /\ capture' = NULL
      /\ UNCHANGED <<calls, printed, reported>>
  BY DEF SingularLastOutput, SingularLastError, Write, IInv, Capturing
<1>2. CASE SingularLastOutput /\ buf # NULL /\ output.isString
  <2>1. /\ buf = printed /\ buf \in Text /\ buffers = 1
        /\ output' = [output EXCEPT !.text = buf]
        /\ buf' = NULL /\ buffers' = 0 /\ gotOutput' = TRUE
        /\ UNCHANGED <<errors, gotErrors>>
    BY <1>1, <1>2 DEF SingularLastOutput, MovedText, BufferAfterMove, IInv, TypeOK,
       BufferFreedOnce, OutputOfLastCall, WouldReturn
  <2>2. output' \in StringObj /\ output'.text = printed
    BY <2>1 DEF IInv, TypeOK, StringObj
  <2>3. TypeOK'
    BY <1>1, <2>1, <2>2 DEF IInv, TypeOK
  <2>4. QED
    BY <1>1, <2>1, <2>2, <2>3 DEF IInv, BufferFreedOnce, OutputOfLastCall,
       WouldReturn, EvaluateShowsItsErrors, Capturing
<1>3. CASE \/ SingularLastOutput /\ ~(buf # NULL /\ output.isString)
           \/ SingularLastError
  <2>1. /\ UNCHANGED <<output, buf, buffers, errors>>
        /\ gotOutput' \in BOOLEAN /\ gotErrors' \in BOOLEAN
    BY <1>3 DEF SingularLastOutput, SingularLastError, IInv, TypeOK
  <2>2. TypeOK'
    BY <1>1, <2>1 DEF IInv, TypeOK
  <2>3. QED
    BY <1>1, <2>1, <2>2 DEF IInv, BufferFreedOnce, OutputOfLastCall, WouldReturn,
       MovedText, EvaluateShowsItsErrors, Capturing
<1>4. CASE Write
  <2>1. UNCHANGED <<buf, buffers, gotOutput, gotErrors>>
    BY <1>4 DEF Write
  <2>2. /\ output' \in StringObj /\ errors' \in StringObj
        /\ output' = output \/ output'.text = <<0>>
        /\ output'.isString => output.isString
    BY <1>4, Strings DEF Write, IInv, TypeOK
  <2>3. TypeOK'
    BY <1>1, <2>1, <2>2 DEF IInv, TypeOK
  <2>4. OutputOfLastCall'
    <3>1. CASE buf # NULL
      BY <1>1, <2>1, <2>2, <3>1 DEF IInv, OutputOfLastCall, WouldReturn, MovedText
    <3>2. CASE buf = NULL
      BY <1>1, <2>1, <2>2, <3>2 DEF IInv, OutputOfLastCall, WouldReturn
    <3>3. QED
      BY <3>1, <3>2
  <2>5. QED
    BY <1>1, <2>1, <2>3, <2>4 DEF IInv, BufferFreedOnce, EvaluateShowsItsErrors,
       Capturing
<1>5. QED
  BY <1>2, <1>3, <1>4

(***************************************************************************)
(* The invariant, and what follows from it.                                *)
(***************************************************************************)
THEOREM Invariance == Spec => []IInv
<1>1. IInv /\ [Next]_vars => IInv'
  <2>1. SUFFICES ASSUME IInv, [Next]_vars PROVE IInv'
    OBVIOUS
  <2>2. CASE Next
    BY <2>1, <2>2, CallStep, InCallStep, GapStep DEF Next
  <2>3. CASE UNCHANGED vars
    BY <2>1, <2>3 DEF vars, IInv, TypeOK, BufferFreedOnce, OutputOfLastCall,
       WouldReturn, MovedText, EvaluateShowsItsErrors, Capturing
  <2>4. QED
    BY <2>1, <2>2, <2>3
<1>2. QED
  BY InitIInv, <1>1, PTL DEF Spec

(***************************************************************************)
(* The buffers and strings keep their types: a text is NULL only where no  *)
(* buffer is.                                                              *)
(***************************************************************************)
THEOREM TypeCorrect == Spec => []TypeOK
<1>1. IInv => TypeOK
  BY DEF IInv
<1>2. QED
  BY <1>1, Invariance, PTL

(***************************************************************************)
(* No buffer of SPrintEnd is lost or freed twice.                          *)
(***************************************************************************)
THEOREM BufferSafety == Spec => []BufferFreedOnce
<1>1. IInv => BufferFreedOnce
  BY DEF IInv
<1>2. QED
  BY <1>1, Invariance, PTL

(***************************************************************************)
(* SingularLastOutput returns the output of the last call and no other.    *)
(***************************************************************************)
THEOREM OutputSafety == Spec => []OutputOfLastCall
<1>1. IInv => OutputOfLastCall
  BY DEF IInv
<1>2. QED
  BY <1>1, Invariance, PTL

(***************************************************************************)
(* During _SI_EVALUATE the error string has the errors of this evaluation. *)
(***************************************************************************)
THEOREM ErrorSafety == Spec => []EvaluateShowsItsErrors
<1>1. IInv => EvaluateShowsItsErrors
  BY DEF IInv
<1>2. QED
  BY <1>1, Invariance, PTL

=============================================================================
