------------------------------- MODULE Bytecode --------------------------------
(***************************************************************************)
(* The bytecode path: the machine of calcvm.c runs what codegen.c has made *)
(* of a program (BytecodePrograms).                                        *)
(***************************************************************************)
EXTENDS StackMachine

VARIABLE heights     \* the height of the frame at each instruction that has run

vars == <<mvars, heights>>

ASSUME BytecodeCompiles == \A i \in Images : i.ok

Init == Load /\ heights = <<>>

Next ==
  /\ Step
  /\ heights' = [q \in DOMAIN heights \cup {pc} |->
                   IF q \in DOMAIN heights THEN heights[q] ELSE sp - fp]

Spec == Init /\ [][Next]_vars

(* The machine is one loop that does nothing but execute instructions.     *)
FairSpec == Spec /\ WF_vars(Next)
-------------------------------------------------------------------------------
(* What the generator promises of its code: a plan that gives each         *)
(* instruction that control can come to the function it belongs to, by its *)
(* entry point (0 is the program's), and how many words are on the stack   *)
(* there above the arguments.                                              *)
Pops(in) ==
  CASE in.op \in {"STORE", "STORE_LOCAL", "NEG", "NOT", "PRINT", "DROP", "JZ", "RET"} -> 1
    [] in.op \in {"ADD", "SUB", "MUL", "MOD", "LT", "LE", "GT", "GE", "EQ", "NEQ", "AND", "OR",
                  "INDEX_GET", "DUP2"} -> 2
    [] in.op = "INDEX_SET"                -> 3
    [] in.op = "NEW_ARRAY"                -> in.i
    [] in.op = "NEW_MAP"                  -> 2 * in.i
    [] in.op \in {"CALL", "MAKE_CLOSURE"} -> in.n
    [] in.op = "CALL_VAL"                 -> in.i + 1
    [] in.op = "BUILTIN"                  -> Arity(Named(in.i))
    [] OTHER                              -> 0

Pushes(in) ==
  CASE in.op \in {"STORE", "STORE_LOCAL", "PRINT", "DROP", "INDEX_SET", "JMP", "JZ"} -> 0
    [] in.op = "ENTER" -> in.i
    [] in.op = "DUP2"  -> 4
    [] OTHER           -> 1

(* Where control goes in the same function, after a call too.              *)
Successors(a, in) ==
  CASE in.op = "JMP"             -> {in.i}
    [] in.op = "JZ"              -> {a + 1, in.i}
    [] in.op \in {"RET", "HALT"} -> {}
    [] OTHER                     -> {a + 1}

After(at, in) == [height |-> at.height - Pops(in) + Pushes(in), entry |-> at.entry]

EntryPoint(e) == [height |-> 0, entry |-> e]

Begins(in) == in.op \in {"CALL", "PUSH_FN", "MAKE_CLOSURE"}

(* In one pass: control comes to an instruction from one before it, or by  *)
(* a call, before it comes back to it.                                     *)
Plan(is) ==
  LET entries == {is[k].i : k \in {j \in DOMAIN is : Begins(is[j])}}
      upto[k \in 0 .. Len(is)] ==
        IF k = 0 THEN [e \in entries \cup {0} |-> EntryPoint(e)]
        ELSE LET known == upto[k - 1] IN
             IF k - 1 \notin DOMAIN known THEN known
             ELSE known @@ [b \in Successors(k - 1, is[k]) |-> After(known[k - 1], is[k])]
  IN  upto[Len(is)]

Balanced(is) ==
  LET p == Plan(is) IN
  /\ DOMAIN p \subseteq 0 .. Len(is) - 1 /\ 0 \in DOMAIN p /\ p[0] = EntryPoint(0)
  /\ \A a \in DOMAIN p :
       LET in == is[a + 1] IN
       /\ p[a] \in [height : Nat, entry : DOMAIN p] /\ p[p[a].entry] = EntryPoint(p[a].entry)
       /\ p[a].height >= Pops(in)
       /\ \A b \in Successors(a, in) : b \in DOMAIN p /\ p[b] = After(p[a], in)
       /\ Begins(in) => in.i \in DOMAIN p \ {0} /\ p[in.i] = EntryPoint(in.i)
       /\ in.op = "HALT" => p[a] = EntryPoint(0)
       /\ in.op = "STORE_LOCAL" => in.i >= 0

(* However control gets to an instruction of the code that is loaded, the  *)
(* stack has the same height there, and never lacks an operand.            *)
CodeBalanced == heights = <<>> => Balanced(code)
-------------------------------------------------------------------------------
(* A program that stops has printed what it means: every variable was read *)
(* and written where its scope and the closures that captured it expect,   *)
(* and a run is cut short only by an error of the program.                 *)
meaning == image.meaning

SameOutput ==
  ~ Running => out = meaning.out /\ (status = "died" <=> meaning.fault)

(* Nothing is left on either stack when the program is done.               *)
CleanHalt == status = "halted" => sp = 0 /\ fp = 0 /\ calls = <<>>

(* Whenever control comes to an instruction, through a loop, a break, a    *)
(* continue, or in another call, the frame has the same height there: the  *)
(* offsets the generator gave to locals are right on every path.           *)
HeightFixed == Running /\ pc \in DOMAIN heights => heights[pc] = sp - fp

(* Code works in its own frame: what its caller has on the stack, locals   *)
(* and unfinished expressions, is as it was when the call returns.         *)
FrameIsolation == [][\A i \in DOMAIN stack : i < fp => stack'[i] = stack[i]]_vars

(* Programs whose loops and calls end are run to the end.                  *)
Ends == <>(~ Running)
===============================================================================
