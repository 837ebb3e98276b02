-------------------------- MODULE InterpreterOutput --------------------------
(***************************************************************************)
(* What Singular prints and the errors it reports on their way to GAP: the *)
(* output of a call is captured in a buffer of Singular, which             *)
(* SingularLastOutput moves into the string object of the variable         *)
(* _SI_LastOutputString; errors are appended to the string object of       *)
(* _SI_LastErrorString by a callback, while the call runs.  Both objects   *)
(* stay the same all the time, and GAP gets them, not copies of them.      *)
(*                                                                         *)
(* A text is the sequence of its pieces, and a piece is known by the call  *)
(* it comes from.                                                          *)
(***************************************************************************)
EXTENDS Naturals, Sequences

CONSTANTS
  NULL,       \* no buffer
  MaxCalls,   \* bound on the calls
  MaxPieces   \* bound on the output of a call

ASSUME BoundsAssumption == MaxCalls \in Nat /\ MaxPieces \in Nat
ASSUME NullAssumption == NULL \notin Seq(0..MaxCalls)

VARIABLES
  buf,      \* _SI_LastOutputBuf, NULL or a text
  buffers,  \* buffers of Singular that are not freed
  capture,  \* what SPrintStart has collected so far, or NULL
  output,   \* the string object of _SI_LastOutputString
  errors,   \* the string object of _SI_LastErrorString
  gotOutput, gotErrors, \* GAP code has a reference to that object
  pc,       \* "gap", "func" (SI_CallFunc*, SI_CallProc) or "eval"
  calls,    \* number of the last call
  \* -- history --
  printed,  \* what the last call printed
  reported  \* the errors it reported

vars == <<buf, buffers, capture, output, errors, gotOutput, gotErrors, pc,
          calls, printed, reported>>

(***************************************************************************)
(* A string object, as long as it is in string representation.             *)
(***************************************************************************)
Text == Seq(0..MaxCalls)
StringObj == [isString : BOOLEAN, text : Text]
EmptyString == [isString |-> TRUE, text |-> <<>>]

NotReset(s) == s
ResetString(s) == IF s.isString THEN EmptyString ELSE s

(***************************************************************************)
(* StartPrintCapture frees the buffer of the call before, if SingularLast- *)
(* Output did not.  (The first definition forgets it.)                     *)
(***************************************************************************)
BuffersKept == buffers
BuffersLeft == IF buf # NULL THEN buffers - 1 ELSE buffers

StartPrintCapture ==
  /\ buffers' = BuffersLeft
  /\ buf' = NULL
  /\ output' = ResetString(output)
  /\ capture' = <<>>

EndPrintCapture ==
  /\ buf' = capture
  /\ buffers' = buffers + 1
  /\ capture' = NULL

-----------------------------------------------------------------------------

ErrorsAtEvaluate == ResetString(errors)

Call(kind) ==
  /\ pc = "gap" /\ calls < MaxCalls
  /\ pc' = kind /\ calls' = calls + 1
  /\ StartPrintCapture
  /\ errors' = IF kind = "eval" THEN ErrorsAtEvaluate ELSE errors
  /\ printed' = <<>> /\ reported' = <<>>
  /\ UNCHANGED <<gotOutput, gotErrors>>

(***************************************************************************)
(* The interpreter prints, or reports an error.                            *)
(***************************************************************************)
Prints ==
  /\ pc # "gap" /\ Len(capture) < MaxPieces
  /\ capture' = Append(capture, calls)
  /\ printed' = Append(printed, calls)
  /\ UNCHANGED <<buf, buffers, output, errors, gotOutput, gotErrors, pc, calls,
                 reported>>

_SI_ErrorCallback ==
  /\ pc # "gap" /\ Len(reported) < MaxPieces
  /\ errors' = IF errors.isString THEN [errors EXCEPT !.text = Append(@, calls)]
               ELSE errors
  /\ reported' = Append(reported, calls)
  /\ UNCHANGED <<buf, buffers, capture, output, gotOutput, gotErrors, pc, calls,
                 printed>>

Return ==
  /\ pc # "gap"
  /\ EndPrintCapture
  /\ pc' = "gap"
  /\ UNCHANGED <<output, errors, gotOutput, gotErrors, calls, printed, reported>>

(***************************************************************************)
(* SingularLastOutput moves the buffer into the string.  (CutShort gets    *)
(* the length wrong, BufferStays keeps the pointer to the freed buffer.)   *)
(***************************************************************************)
CutShort == SubSeq(buf, 1, Len(buf) - 1)
MovedText == buf
BufferStays == buf
BufferAfterMove == NULL

SingularLastOutput ==
  /\ pc = "gap"
  /\ IF buf # NULL /\ output.isString
     THEN /\ output' = [output EXCEPT !.text = MovedText]
          /\ buf' = BufferAfterMove /\ buffers' = buffers - 1
     ELSE UNCHANGED <<output, buf, buffers>>
  /\ gotOutput' = TRUE
  /\ UNCHANGED <<capture, errors, gotErrors, pc, calls, printed, reported>>

SingularLastError ==
  /\ pc = "gap"
  /\ gotErrors' = TRUE
  /\ UNCHANGED <<buf, buffers, capture, output, errors, gotOutput, pc, calls,
                 printed, reported>>

(***************************************************************************)
(* GAP code appends to a string it got, or replaces a character by         *)
(* something else, and the string becomes an ordinary list.                *)
(***************************************************************************)
Changed(s) == {[s EXCEPT !.text = <<0>>], [isString |-> FALSE, text |-> <<0>>]}

Write ==
  /\ pc = "gap"
  /\ \/ gotOutput /\ output' \in Changed(output) /\ UNCHANGED errors
     \/ gotErrors /\ errors' \in Changed(errors) /\ UNCHANGED output
  /\ UNCHANGED <<buf, buffers, capture, gotOutput, gotErrors, pc, calls,
                 printed, reported>>

Init ==
  /\ buf = NULL /\ buffers = 0 /\ capture = NULL
  /\ output = EmptyString /\ errors = EmptyString
  /\ gotOutput = FALSE /\ gotErrors = FALSE
  /\ pc = "gap" /\ calls = 0
  /\ printed = <<>> /\ reported = <<>>

Next ==
  \/ Call("func") \/ Call("eval")
  \/ Prints \/ _SI_ErrorCallback \/ Return
  \/ SingularLastOutput \/ SingularLastError
  \/ Write

Spec == Init /\ [][Next]_vars

-----------------------------------------------------------------------------
(* Properties *)

(***************************************************************************)
(* Type invariant of the output and the errors (calls.cc).                 *)
(***************************************************************************)
TypeOK ==
  /\ buf \in Text \cup {NULL} /\ capture \in Text \cup {NULL}
  /\ buffers \in Nat
  /\ output \in StringObj /\ errors \in StringObj
  /\ gotOutput \in BOOLEAN /\ gotErrors \in BOOLEAN
  /\ pc \in {"gap", "func", "eval"} /\ calls \in 0..MaxCalls
  /\ printed \in Text /\ reported \in Text

(***************************************************************************)
(* The buffer of SPrintEnd is freed once: there is one as long as the      *)
(* pointer to it is set, and none otherwise.                               *)
(***************************************************************************)
BufferFreedOnce == buffers = IF buf = NULL THEN 0 ELSE 1

(***************************************************************************)
(* SingularLastOutput returns what the last call has printed, whether it   *)
(* is called once, again, or not after every call, and whatever GAP code   *)
(* did to the string it got earlier: except that once that string has      *)
(* become another list, no output ever reaches it again.                   *)
(***************************************************************************)
WouldReturn == IF buf # NULL THEN MovedText ELSE output.text
OutputOfLastCall ==
  (pc = "gap" /\ output.isString /\ (buf # NULL \/ output.text # <<0>>))
    => WouldReturn = printed

(***************************************************************************)
(* The errors of an evaluated string are shown, all of them and in order,  *)
(* and those of earlier calls are not, with the same exception.  (For the  *)
(* other calls the errors of earlier calls are not removed.)               *)
(***************************************************************************)
EvaluateShowsItsErrors ==
  (pc = "eval" /\ errors.isString) => errors.text = reported

-----------------------------------------------------------------------------
(* The inductive invariant *)

(***************************************************************************)
(* A capture runs during a call and only then; it has what the call has    *)
(* printed, and neither buffer nor string has anything else.               *)
(***************************************************************************)
Capturing ==
  IF pc = "gap" THEN capture = NULL
  ELSE /\ capture = printed /\ capture # NULL
       /\ buf = NULL
       /\ output.isString => output.text = <<>>

IInv == /\ TypeOK
        /\ BufferFreedOnce
        /\ OutputOfLastCall
        /\ EvaluateShowsItsErrors
        /\ Capturing

=============================================================================
