--------------------------- MODULE NativeExceptions ---------------------------
(***************************************************************************)
(* The handler table of the native runtime (cl_try_push, cl_try_pop,       *)
(* cl_throw in runtime_x64.c) driven by the code codegen_x64.c emits for   *)
(* calls, returns, self tail calls, loops, try statements and throw.       *)
(*                                                                         *)
(* A handler is a saved rbp and a catch label.  rbp is an address: here    *)
(* the position of a frame in the context, which another activation may    *)
(* occupy later.  A catch label is a place in the code: here the function  *)
(* it belongs to and the constructs around its try statement.              *)
(*                                                                         *)
(* The emitted code pops a handler at the end of a protected body and      *)
(* nowhere else.  Exits names the ways in which the program leaves a       *)
(* protected body early: none of them pops the handler.                    *)
(***************************************************************************)
EXTENDS NativeFrames, FiniteSets

CONSTANTS
  MaxHandlers,  \* CL_MAX_HANDLERS
  MaxDepth,     \* bound on the length of the context
  Exits         \* the early exits from protected bodies the program uses

ASSUME HandlersAssumption ==
  /\ MaxHandlers \in Nat
  /\ MaxDepth \in Nat
  /\ Exits \subseteq {"return", "tailcall", "break", "continue"}

VARIABLES
  ctl,       \* the control context: native frames and open constructs
  handlers,  \* g_handlers[0 .. g_handler_top]
  exc,       \* g_exception_value
  status     \* "run", or how the process ended

vars == <<ctl, handlers, exc, status>>

Init ==
  /\ ctl = <<Frame(Main)>>
  /\ handlers = <<>>
  /\ exc = Nil
  /\ status = "run"

Finish(why) ==
  /\ status' = why
  /\ UNCHANGED <<ctl, handlers, exc>>

Open(e) ==
  /\ Len(ctl) < MaxDepth
  /\ ctl' = Append(ctl, e)
  /\ UNCHANGED <<handlers, exc, status>>

(* Control leaves every construct above position n by a plain jump.        *)
JumpOut(n, how) ==
  /\ NoTryAbove(ctl, n) \/ how \in Exits
  /\ ctl' = Prefix(ctl, n)
  /\ UNCHANGED <<handlers, exc, status>>
-------------------------------------------------------------------------------
(* Code emitted for calls and loops.                                       *)

Call == \E f \in Fns : Open(Frame(f))

Return == \E i \in 1 .. Len(ctl) :
  /\ IsCurrentFrame(ctl, i)
  /\ IF i = 1 THEN Finish("done") ELSE JumpOut(i - 1, "return")

(* jmp .Lbody_f: the frame stays, the body starts over.                    *)
TailCall == \E i \in 2 .. Len(ctl) :
  /\ IsCurrentFrame(ctl, i)
  /\ JumpOut(i, "tailcall")

EnterLoop == Open(Loop)

Break == \E i \in 1 .. Len(ctl) :
  /\ IsCurrentLoop(ctl, i)
  /\ JumpOut(i - 1, "break")

Continue == \E i \in 1 .. Len(ctl) :
  /\ IsCurrentLoop(ctl, i)
  /\ JumpOut(i, "continue")
-------------------------------------------------------------------------------
(* Code emitted for try, and the runtime functions it calls.               *)

(* The rbp and the catch label that cl_try_push is given.                  *)
NewHandler(i) == [rbp |-> i, pc |-> SubSeq(ctl, i, Len(ctl))]

(* Faults seeded into cl_try_push: no limit check, limit off by one.       *)
PushUnchecked == \E i \in 1 .. Len(ctl) :
  /\ IsCurrentFrame(ctl, i)
  /\ Len(ctl) < MaxDepth
  /\ handlers' = Append(handlers, NewHandler(i))
  /\ ctl' = Append(ctl, Try)
  /\ UNCHANGED <<exc, status>>

PushLimitOffByOne ==
  IF Len(handlers) + 2 > MaxHandlers THEN Finish("overflow") ELSE PushUnchecked

cl_try_push ==
  IF Len(handlers) + 1 > MaxHandlers
  THEN Finish("overflow")
  ELSE /\ Len(ctl) < MaxDepth
       /\ \E i \in 1 .. Len(ctl) :
            /\ IsCurrentFrame(ctl, i)
            /\ handlers' = Append(handlers, NewHandler(i))
       /\ ctl' = Append(ctl, Try)
       /\ UNCHANGED <<exc, status>>

(* Fault seeded into cl_try_pop: the handler stays.                        *)
PopForgotten ==
  /\ Top(ctl) = Try
  /\ ctl' = Prefix(ctl, Len(ctl) - 1)
  /\ UNCHANGED <<handlers, exc, status>>

cl_try_pop ==
  /\ Top(ctl) = Try
  /\ IF handlers = <<>>
     THEN Finish("underflow")
     ELSE /\ handlers' = Prefix(handlers, Len(handlers) - 1)
          /\ ctl' = Prefix(ctl, Len(ctl) - 1)
          /\ UNCHANGED <<exc, status>>

(* Fault seeded into LeaveCatch: the end of a catch block pops a handler.  *)
CatchPopsToo ==
  /\ Top(ctl).kind = "catch"
  /\ handlers' = Prefix(handlers, IF handlers = <<>> THEN 0 ELSE Len(handlers) - 1)
  /\ ctl' = Prefix(ctl, Len(ctl) - 1)
  /\ UNCHANGED <<exc, status>>

LeaveCatch ==
  /\ Top(ctl).kind = "catch"
  /\ ctl' = Prefix(ctl, Len(ctl) - 1)
  /\ UNCHANGED <<handlers, exc, status>>

(* The saved rbp still addresses a frame of the function the catch label   *)
(* belongs to.  When it does not, the catch block would run on top of      *)
(* whatever is there: the behaviour is undefined ("wild").                 *)
FrameInPlace(h) == h.rbp <= Len(ctl) /\ ctl[h.rbp] = h.pc[1]

(* Fault seeded into cl_throw: the handler is still there in the catch.    *)
ThrowKeepsHandler(v) ==
  IF handlers = <<>>
  THEN Finish("uncaught")
  ELSE LET h == handlers[Len(handlers)] IN
       /\ FrameInPlace(h)
       /\ exc' = v
       /\ ctl' = Append(Prefix(ctl, h.rbp - 1) \o h.pc, Catch(v))
       /\ UNCHANGED <<handlers, status>>

(* The value goes through g_exception_value and cl_get_exception to the    *)
(* local that the catch block binds.                                       *)
cl_throw(v) ==
  IF handlers = <<>>
  THEN Finish("uncaught")
  ELSE LET h == handlers[Len(handlers)] IN
       /\ exc' = v
       /\ handlers' = Prefix(handlers, Len(handlers) - 1)
       /\ \/ /\ FrameInPlace(h)
             /\ ctl' = Append(Prefix(ctl, h.rbp - 1) \o h.pc, Catch(v))
             /\ UNCHANGED status
          \/ /\ ~ FrameInPlace(h)
             /\ status' = "wild"
             /\ UNCHANGED ctl

Throw == \E v \in Vals : cl_throw(v)

Next ==
  /\ status = "run"
  /\ \/ Call \/ Return \/ TailCall
     \/ EnterLoop \/ Break \/ Continue
     \/ cl_try_push \/ cl_try_pop \/ LeaveCatch
     \/ Throw

Spec == Init /\ [][Next]_vars
-------------------------------------------------------------------------------
(* Properties.                                                             *)

Handler == [rbp : Nat \ {0}, pc : Seq(Entry) \ {<<>>}]

(* Types; the table never holds more than CL_MAX_HANDLERS handlers, and    *)
(* the context always starts with the frame of the top-level code.         *)
TypeOK ==
  /\ ctl \in Seq(Entry)
  /\ Len(ctl) > 0 /\ ctl[1] = Frame(Main)
  /\ handlers \in Seq(Handler)
  /\ Len(handlers) <= MaxHandlers
  /\ exc \in Vals \cup {Nil}
  /\ status \in {"run", "done", "uncaught", "overflow", "underflow", "wild"}

(* The position of the try statement a handler was pushed for.             *)
Body(h) == h.rbp + Len(h.pc)

EachHandlerOpen == \A k \in 1 .. Len(handlers) :
  LET h == handlers[k] IN
  /\ Body(h) <= Len(ctl)
  /\ ctl[Body(h)].kind = "try"
  /\ \A j \in 1 .. Len(h.pc) : h.pc[j] = ctl[h.rbp + j - 1]

HandlersOrdered == \A k, l \in 1 .. Len(handlers) :
  k < l => Body(handlers[k]) < Body(handlers[l])

EachBodyHandled == \A i \in OpenTries(ctl) :
  \E k \in 1 .. Len(handlers) : Body(handlers[k]) = i

(* The handler table lists exactly the protected bodies that are running,  *)
(* innermost last, and each handler's frame is the frame it was saved in:  *)
(* what makes "the topmost handler" the right one for a throw at any depth.*)
HandlersMatch == EachHandlerOpen /\ HandlersOrdered /\ EachBodyHandled

(* The 256-entry table is full only when that many bodies are running.     *)
NoEarlyOverflow ==
  status = "overflow" => Cardinality(OpenTries(ctl)) = MaxHandlers

(* docs/book.md:854, "if the body throws, the catch block runs": a catch   *)
(* block starts only because its own body threw.  A throw that is caught   *)
(* cuts the context at a body that is running, and control never arrives   *)
(* in a function whose frame has gone.                                     *)
CatchFollowsBody ==
  [][Throw => /\ status' # "wild"
              /\ status' = "run" => /\ Len(ctl') <= Len(ctl)
                                    /\ ctl[Len(ctl')].kind = "try"]_vars

(* Whatever the early exits leave behind in the table, a body that is      *)
(* running still has its handler, and its end finds a handler to pop: up   *)
(* to the first wild unwind, no throw inside a body goes uncaught.         *)
BodiesKeepHandlers == (status = "wild" \/ EachBodyHandled) /\ status # "underflow"

Abstract == INSTANCE StructuredExceptions WITH MaxTries <- MaxHandlers

(* Throwing through the handler table is throwing to the innermost         *)
(* protected body that is running.                                         *)
ImplementsStructured == Abstract!Spec
===============================================================================
