--------------------------------- MODULE Native --------------------------------
(***************************************************************************)
(* The native path: the processor runs, with runtime_x64.c, what           *)
(* codegen_x64.c has made of a program (NativePrograms).                   *)
(***************************************************************************)
EXTENDS NativeMachine

VARIABLE heights     \* rbp - rsp at each instruction that has run

vars == <<mvars, heights>>

ASSUME NativeCompiles == \A i \in Images : i.ok

Init == Load /\ heights = <<>>

Next ==
  /\ Step
  /\ heights' = [q \in DOMAIN heights \cup {pc} |->
                   IF q \in DOMAIN heights THEN heights[q] ELSE Len(stack) - rbp]

Spec == Init /\ [][Next]_vars
FairSpec == Spec /\ WF_vars(Next)
-------------------------------------------------------------------------------
(* What the generator promises of its code: a plan that gives each         *)
(* instruction that control can come to the body it belongs to, by its     *)
(* entry point, the distance from rbp to rsp there, and the catch labels   *)
(* of the tries of the body that are open.                                 *)
Moves(in) ==
  CASE in.op = "ENTER" -> in.i
    [] in.op = "PUSH"  -> 2
    [] in.op \in {"POP", "ADD", "SUB", "MUL", "LT", "LE", "GT", "GE", "EQ", "NEQ", "SUBSD", "MULSD",
                  "GET_INDEX"} -> 0 - 2
    [] in.op \in {"DROP", "SET_INDEX"} -> 0 - 2 * in.i
    [] in.op = "BUILTIN" -> 0 - 2 * Arity(Named(in.i))
    [] OTHER -> 0

(* Where control goes in the same body, after a call too, but not by a     *)
(* throw: that is what the catch labels are for.                           *)
Successors(a, in) ==
  CASE in.op = "JMP"                           -> {in.i}
    [] in.op \in {"JZ", "JNZ"}                 -> {a + 1, in.i}
    [] in.op \in {"RET", "THROW", "TRAMPOLINE"} -> {}
    [] OTHER                                   -> {a + 1}

Opened(ts, in) ==
  CASE in.op = "TRY"   -> Append(ts, in.i)
    [] in.op = "UNTRY" -> SubSeq(ts, 1, Len(ts) - 1)
    [] OTHER           -> ts

After(at, in) ==
  [height |-> at.height + Moves(in), entry |-> at.entry, tries |-> Opened(at.tries, in)]

EntryPoint(e) == [height |-> 0, entry |-> e, tries |-> <<>>]

(* In one pass: control comes to an instruction from one before it, or by  *)
(* a call, before it comes back to it.                                     *)
Plan(is, main) ==
  LET entries == {is[k].i : k \in {j \in DOMAIN is : is[j].op \in {"CALL", "NEW_FN"}}}
      next(k, at) ==
        [b \in Successors(k - 1, is[k]) |-> After(at, is[k])]
          @@ (IF is[k].op = "TRY" THEN is[k].i :> at ELSE <<>>)
      upto[k \in 0 .. Len(is)] ==
        IF k = 0 THEN [e \in entries \cup {main} |-> EntryPoint(e)]
        ELSE LET known == upto[k - 1] IN
             IF k - 1 \notin DOMAIN known THEN known ELSE known @@ next(k, known[k - 1])
  IN  upto[Len(is)]

(* What a body assigns at [rbp + 8 d].                                     *)
Writes(in) == in.op \in {"STORE", "NEW_BOX", "BOX_ARG", "MOVE_ARG"}
Target(in) == IF in.op = "MOVE_ARG" THEN in.n ELSE in.i

IsEntry(in) == in.op \in {"ENTER", "TRAMPOLINE"}

(* The body that begins at e ends before the next one begins.  Where it    *)
(* assigns an argument, there is one if its caller has pushed n words.     *)
Belongs(is, a, e) == a >= e /\ \A b \in e + 1 .. a : ~ IsEntry(is[b + 1])

Fits(is, e, n) ==
  \A a \in 0 .. Len(is) - 1 : Writes(is[a + 1]) /\ Belongs(is, a, e) => Target(is[a + 1]) <= n

Planned(is, p, a) ==
  LET in    == is[a + 1]
      at    == p[a]
      frame == is[at.entry + 1].i
  IN  /\ at \in [height : Nat, entry : DOMAIN p, tries : Seq(DOMAIN p)] /\ at.height % 2 = 0
      /\ Belongs(is, a, at.entry)
      /\ IsEntry(in) => at = EntryPoint(a)
      /\ ~ IsEntry(in) => at.entry # a /\ is[at.entry + 1].op = "ENTER" /\ at.height >= frame
      /\ in.op = "ENTER" => in.i > 0
      /\ \A b \in Successors(a, in) : b \in DOMAIN p \ {at.entry} /\ p[b] = After(at, in)
      /\ in.op \in {"CALL", "NEW_FN"} => in.i \in DOMAIN p /\ IsEntry(is[in.i + 1])
      /\ in.op = "CALL" => Fits(is, in.i, at.height - frame)
      /\ in.op \in {"DROP", "SET_INDEX"} => in.i >= 0
      /\ in.op = "BUILTIN" => in.i \in Ids
      /\ in.op = "CALL_VALUE" => 2 * (in.i + 1) <= at.height - frame
      /\ in.op = "TRY" => in.i \in DOMAIN p \ {at.entry} /\ p[in.i] = at
      /\ in.op = "UNTRY" => at.tries # <<>>
      /\ in.op = "RET" => at.tries = <<>>
      /\ \A t \in DOMAIN at.tries :
           LET c == at.tries[t] IN
           /\ c # at.entry /\ p[c].height <= at.height
           /\ p[c] = [height |-> p[c].height, entry |-> at.entry, tries |-> SubSeq(at.tries, 1, t - 1)]
      /\ Writes(in) => Target(in) \in (0 - frame) .. 0 - 2 \/ Target(in) >= 2

Balances(is, main, p) ==
  /\ DOMAIN p \subseteq 0 .. Len(is) - 1
  /\ main \in DOMAIN p /\ is[main + 1].op = "ENTER" /\ Fits(is, main, 0)
  /\ \A a \in DOMAIN p : Planned(is, p, a)

Balanced(i) == Balances(i.code, i.entry, Plan(i.code, i.entry))

(* However control gets to an instruction of the executable, rsp is at the *)
(* same distance from rbp and the same tries are open.                     *)
CodeBalanced == heights = <<>> => Balanced(image)

(* The code of an indirect call does not know how many arguments the       *)
(* closure takes; it passes at least those the closure assigns.            *)
CallsFit ==
  Running /\ In.op = "CALL_VALUE" /\ Trusted => Fits(code, fns[Slot(In.i).v].pc, 2 * In.i)
-------------------------------------------------------------------------------
(* A program that stops has printed what it means and ends as it should:   *)
(* an error of the program is found by the runtime or, at worst, leads the *)
(* processor astray.                                                       *)
Ending == [next |-> {"done"}, throw |-> {"uncaught"}, fault |-> {"died", "wild"}]

SameOutput ==
  ~ Running => /\ status \in Ending[image.meaning.end]
               /\ status = "wild" \/ out = image.meaning.out

(* Whenever control comes to an instruction of a body, by a jump, a return *)
(* or an exception, rsp is at the same distance from rbp.                  *)
SpFixed == Running /\ In.op \notin {"ENTER", "TRAMPOLINE"} /\ pc \in DOMAIN heights => heights[pc] = Len(stack) - rbp

(* rsp is a multiple of 16 wherever the code may call the runtime, as the  *)
(* calling convention of the platform asks.                                *)
Aligned == Running /\ In.op \notin {"ENTER", "TRAMPOLINE"} => Len(stack) % 2 = 0

(* A return finds the saved rbp and the return address where the prologue  *)
(* and the call have put them, whatever has been assigned in between, and  *)
(* a throw goes to a handler whose words are still on the stack.           *)
ReturnsHome == Running /\ In.op \in {"RET", "THROW"} => Trusted

(* Nothing is left on either stack when main returns.                      *)
CleanExit == status = "done" => stack = <<>> /\ handlers = <<>> /\ rbp = 0

(* Programs whose loops and calls end are run to the end.                  *)
Ends == <>(~ Running)
================================================================================
