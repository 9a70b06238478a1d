----------------------------- MODULE NativeFrames -----------------------------
(***************************************************************************)
(* The control context of a program compiled by the x86-64 backend.        *)
(*                                                                         *)
(* codegen_x64.c turns every statement into straight code inside the frame *)
(* of one native activation; what a jump may leave or re-enter is decided  *)
(* by the constructs open around it.  A context is the sequence of what is *)
(* open, outermost first: an "fn" entry per native frame (push rbp / mov   *)
(* rbp, rsp), and inside it a "loop" entry per while or for, a "try" entry *)
(* per protected body and a "catch" entry per running catch block.         *)
(***************************************************************************)
EXTENDS Naturals, Sequences

CONSTANTS
  Fns,      \* the functions of the program
  Main,     \* the top-level code, compiled as a function of its own
  Vals,     \* the values a program may throw
  Nil       \* stands for "no value"

ASSUME FramesAssumption ==
  /\ Main \notin Fns
  /\ Nil \notin Vals

Frame(f) == [kind |-> "fn",    arg |-> f]
Loop     == [kind |-> "loop",  arg |-> Nil]
Try      == [kind |-> "try",   arg |-> Nil]
Catch(v) == [kind |-> "catch", arg |-> v]

Entry ==
  [kind : {"fn"}, arg : Fns \cup {Main}]
    \cup [kind : {"loop", "try"}, arg : {Nil}]
    \cup [kind : {"catch"}, arg : Vals]

Prefix(c, n) == SubSeq(c, 1, n)

Top(c) == c[Len(c)]

(* Position i of c holds the running native frame.                         *)
IsCurrentFrame(c, i) ==
  /\ c[i].kind = "fn"
  /\ \A j \in i + 1 .. Len(c) : c[j].kind # "fn"

(* Position i of c holds the loop that break and continue refer to.        *)
IsCurrentLoop(c, i) ==
  /\ c[i].kind = "loop"
  /\ \A j \in i + 1 .. Len(c) : c[j].kind \notin {"fn", "loop"}

OpenTries(c) == {i \in 1 .. Len(c) : c[i].kind = "try"}

(* Leaving everything above position i leaves no protected body.           *)
NoTryAbove(c, i) == \A j \in i + 1 .. Len(c) : c[j].kind # "try"
===============================================================================
