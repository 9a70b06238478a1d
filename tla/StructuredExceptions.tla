------------------------- MODULE StructuredExceptions -------------------------
(***************************************************************************)
(* What try, catch and throw promise (docs/book.md, "Exceptions").         *)
(*                                                                         *)
(* A throw ends in the catch block of the innermost protected body that is *)
(* still running, whatever function it belongs to; when none is running    *)
(* the program ends with a diagnostic.  There is no handler table here: a  *)
(* body is protected exactly while control is inside it.                   *)
(***************************************************************************)
EXTENDS NativeFrames, FiniteSets

CONSTANTS
  MaxTries,  \* protected bodies that may be open at once
  MaxDepth   \* bound on the length of the context

VARIABLES
  ctl,       \* the control context
  exc,       \* the last value thrown
  status     \* "run", or how the program ended

vars == <<ctl, exc, status>>

Init ==
  /\ ctl = <<Frame(Main)>>
  /\ exc = Nil
  /\ status = "run"

Open(e) ==
  /\ Len(ctl) < MaxDepth
  /\ ctl' = Append(ctl, e)
  /\ UNCHANGED <<exc, status>>

LeaveTo(n) ==
  /\ ctl' = Prefix(ctl, n)
  /\ UNCHANGED <<exc, status>>

Finish(why) ==
  /\ status' = why
  /\ UNCHANGED <<ctl, exc>>

Call == \E f \in Fns : Open(Frame(f))

Return == \E i \in 1 .. Len(ctl) :
  /\ IsCurrentFrame(ctl, i)
  /\ IF i = 1 THEN Finish("done") ELSE LeaveTo(i - 1)

(* A self tail call starts the body of the current function over.          *)
TailCall == \E i \in 2 .. Len(ctl) : IsCurrentFrame(ctl, i) /\ LeaveTo(i)

EnterLoop == Open(Loop)

Break    == \E i \in 1 .. Len(ctl) : IsCurrentLoop(ctl, i) /\ LeaveTo(i - 1)
Continue == \E i \in 1 .. Len(ctl) : IsCurrentLoop(ctl, i) /\ LeaveTo(i)

EnterTry ==
  IF Cardinality(OpenTries(ctl)) = MaxTries THEN Finish("overflow") ELSE Open(Try)

LeaveBlock == Top(ctl).kind \in {"try", "catch"} /\ LeaveTo(Len(ctl) - 1)

Throw(v) ==
  \/ /\ OpenTries(ctl) = {}
     /\ Finish("uncaught")
  \/ \E i \in OpenTries(ctl) :
       /\ NoTryAbove(ctl, i)
       /\ ctl' = Append(Prefix(ctl, i - 1), Catch(v))
       /\ exc' = v
       /\ UNCHANGED status

Next ==
  /\ status = "run"
  /\ \/ Call \/ Return \/ TailCall
     \/ EnterLoop \/ Break \/ Continue
     \/ EnterTry \/ LeaveBlock
     \/ \E v \in Vals : Throw(v)

Spec == Init /\ [][Next]_vars
===============================================================================
