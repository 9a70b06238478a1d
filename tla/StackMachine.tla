----------------------------- MODULE StackMachine ------------------------------
(***************************************************************************)
(* The virtual machine (calcvm.c): one action per opcode.  Every check the *)
(* machine makes before an opcode acts is in Passes; Die is what happens   *)
(* when one fails.                                                         *)
(*                                                                         *)
(* Numbers are integers, so DIV is left out.  What the library functions   *)
(* do is in VmLibrary.                                                     *)
(* Slots, the program counter and offsets count from 0, as in the code.    *)
(* Nothing is ever freed, so heap addresses are positions in sequences.    *)
(***************************************************************************)
EXTENDS VmLibrary

CONSTANTS
  MaxStack,   \* CL_MAX_CODE: slots of the operand stack
  MaxCalls,   \* CALL_STACK_MAX: frames of the call stack
  MaxCaptures, \* the captures of one closure that MAKE_CLOSURE takes
  Images      \* the executables: instructions (opcode, integer operand,
              \* second operand), the number of globals, the string literals

Instruction == [op : STRING, i : Int, n : Int]

ASSUME MachineAssumption ==
  /\ MaxStack \in Nat \ {0} /\ MaxCalls \in Nat /\ MaxCaptures \in Nat
  /\ \A i \in Images :
       i.code \in Seq(Instruction) /\ i.globals \in Nat /\ i.strings \in Seq(Seq(Int))

VARIABLES
  image,    \* the executable
  pc, sp, fp,
  stack,    \* every slot, also those above sp
  mem,      \* the globals
  calls,    \* the call stack: return pc, saved fp, saved closure
  closure,  \* the closure that runs, 0 for none
  arrays,   \* the arrays made so far
  maps,     \* the maps made so far, each a sequence of entries
  fns,      \* the function values made so far
  out,      \* what has been printed
  status    \* "running", "halted" or "died"

regs    == <<fp, calls, closure>>
heap    == <<arrays, maps, fns>>
mvars   == <<image, pc, sp, stack, mem, regs, heap, out, status>>

code     == image.code
varCount == image.globals
strings  == image.strings

Value ==
  [tag : {"num"}, v : Int] \cup [tag : {"str"}, text : Seq(Int)]
    \cup [tag : {"arr"}, v : 1 .. Len(arrays)] \cup [tag : {"map"}, v : 1 .. Len(maps)]
    \cup [tag : {"fn"}, v : 1 .. Len(fns)]

Truthy(x) ==
  \/ x.tag = "num" /\ x.v # 0
  \/ x.tag = "str" /\ x.text # <<>>
  \/ x.tag = "arr" /\ Len(arrays[x.v]) > 0
  \/ x.tag = "map" /\ Len(maps[x.v]) > 0
  \/ x.tag = "fn"

(* Arrays and maps are equal only to themselves; functions also when they  *)
(* have one entry point and captured nothing.                              *)
Equal(x, y) ==
  \/ x = y
  \/ /\ x.tag = "fn" /\ y.tag = "fn"
     /\ fns[x.v].pc = fns[y.v].pc /\ fns[x.v].upvals = <<>> /\ fns[y.v].upvals = <<>>

Load ==
  /\ image \in Images
  /\ pc = 0 /\ sp = 0 /\ fp = 0
  /\ stack = [i \in 0 .. MaxStack - 1 |-> Number(0)]
  /\ mem = [i \in 0 .. varCount - 1 |-> Number(0)]
  /\ calls = <<>> /\ closure = 0
  /\ arrays = <<>> /\ maps = <<>> /\ fns = <<>> /\ out = <<>>
  /\ status = "running"
-------------------------------------------------------------------------------
In == code[pc + 1]

Top(k) == stack[sp - k]              \* Top(1) is the top of the stack

Args(n) == [i \in 1 .. n |-> stack[sp - n + i - 1]]

Room == sp < MaxStack

Target(a) == a \in 0 .. Len(code) - 1

Tags(n) == {Top(k).tag : k \in 1 .. n}

(* Map literals and elements.                                              *)
KeyAt(m, k) == {j \in DOMAIN m : Equal(m[j].key, k)}

(* map_find: the first entry with the key.                                 *)
Found(m, k) == CHOOSE j \in KeyAt(m, k) : \A i \in KeyAt(m, k) : j <= i

Entered(m, k, x) ==
  IF KeyAt(m, k) = {}
  THEN Append(m, [key |-> k, value |-> x])
  ELSE [m EXCEPT ![Found(m, k)].value = x]

InArray(a, i) == a.tag = "arr" /\ i.tag = "num" /\ i.v \in 0 .. Len(arrays[a.v]) - 1

Gettable(t, i) == InArray(t, i) \/ (t.tag = "map" /\ IsKey(i) /\ KeyAt(maps[t.v], i) # {})
Settable(t, i) == InArray(t, i) \/ (t.tag = "map" /\ IsKey(i))

Element(t, i) ==
  IF t.tag = "arr" THEN arrays[t.v][i.v + 1] ELSE maps[t.v][Found(maps[t.v], i)].value

Passes ==
  LET i == In.i
      n == In.n
  IN  CASE In.op = "PUSH"       -> Room
        [] In.op = "PUSH_STR"   -> Room /\ i \in 0 .. Len(strings) - 1
        [] In.op = "LOAD"       -> i \in 0 .. varCount - 1 /\ Room
        [] In.op = "STORE"      -> i \in 0 .. varCount - 1 /\ sp > 0
        [] In.op = "LOAD_LOCAL" -> fp + i \in 0 .. sp - 1 /\ Room
        [] In.op = "STORE_LOCAL" -> sp > 0 /\ fp + i \in 0 .. sp - 2
        [] In.op = "ENTER"      -> i >= 0 /\ sp + i <= MaxStack
        [] In.op = "ADD"        -> sp >= 2 /\ Tags(2) \subseteq {"num", "str"}
        [] In.op \in {"SUB", "MUL"} -> sp >= 2 /\ Tags(2) = {"num"}
        [] In.op = "MOD"        -> sp >= 2 /\ Tags(2) = {"num"} /\ Top(1).v # 0
        [] In.op = "NEG"        -> sp > 0 /\ Tags(1) = {"num"}
        [] In.op \in {"LT", "LE", "GT", "GE"} -> sp >= 2 /\ Tags(2) \in {{"num"}, {"str"}}
        [] In.op \in {"EQ", "NEQ", "AND", "OR"} -> sp >= 2
        [] In.op \in {"NOT", "PRINT", "DROP"} -> sp > 0
        [] In.op = "JMP"        -> Target(i)
        [] In.op = "JZ"         -> sp > 0 /\ (Truthy(Top(1)) \/ Target(i))
        [] In.op = "CALL"       -> Len(calls) < MaxCalls /\ Target(i) /\ n \in 0 .. sp
        [] In.op = "RET"        -> Len(calls) > 0 /\ sp > 0 /\ fp < MaxStack
        [] In.op = "NEW_ARRAY"  -> i \in 0 .. sp /\ sp - i < MaxStack
        [] In.op = "NEW_MAP"    ->
             /\ i >= 0 /\ 2 * i <= sp /\ sp - 2 * i < MaxStack
             /\ \A k \in 1 .. i : IsKey(Top(2 * k))
        [] In.op = "INDEX_GET"  -> sp >= 2 /\ Gettable(Top(2), Top(1))
        [] In.op = "INDEX_SET"  -> sp >= 3 /\ Settable(Top(3), Top(2))
        [] In.op = "DUP2"       -> sp >= 2 /\ sp + 2 <= MaxStack
        [] In.op = "PUSH_FN"    -> Room /\ Target(i)
        [] In.op = "CALL_VAL"   ->
             /\ sp > 0 /\ Top(1).tag = "fn"
             /\ i \in 0 .. sp - 1 /\ Len(calls) < MaxCalls
        [] In.op = "MAKE_CLOSURE" -> Target(i) /\ n \in 0 .. sp /\ n <= MaxCaptures /\ sp - n < MaxStack
        [] In.op = "LOAD_UPVAL" -> closure # 0 /\ i \in 0 .. Len(fns[closure].upvals) - 1 /\ Room
        [] In.op = "BUILTIN"    -> i \in Ids /\ sp >= Arity(Named(i)) /\ VmAccepts(Named(i), Args(Arity(Named(i))), arrays)
        [] In.op = "HALT"       -> TRUE
        [] OTHER -> FALSE

(* Beyond the last instruction the loop of the machine simply ends.        *)
Running == status = "running" /\ pc < Len(code)

Exec(op) == Running /\ In.op = op /\ Passes /\ UNCHANGED image

(* What most opcodes do: take k values off the stack and push x.           *)
Give(k, x) ==
  /\ sp' = sp - k + 1
  /\ stack' = [stack EXCEPT ![sp - k] = x]
  /\ pc' = pc + 1

Take(k) == sp' = sp - k /\ UNCHANGED stack
-------------------------------------------------------------------------------
PUSH == Exec("PUSH") /\ Give(0, Number(In.n)) /\ UNCHANGED <<mem, regs, heap, out, status>>

LOAD == Exec("LOAD") /\ Give(0, mem[In.i]) /\ UNCHANGED <<mem, regs, heap, out, status>>

STORE ==
  /\ Exec("STORE") /\ Take(1)
  /\ mem' = [mem EXCEPT ![In.i] = Top(1)]
  /\ pc' = pc + 1
  /\ UNCHANGED <<regs, heap, out, status>>

LOAD_LOCAL ==
  Exec("LOAD_LOCAL") /\ Give(0, stack[fp + In.i]) /\ UNCHANGED <<mem, regs, heap, out, status>>

StoreLocalKeeps ==     \* mutants of STORE_LOCAL: it does not pop,
  /\ Exec("STORE_LOCAL")
  /\ stack' = [stack EXCEPT ![fp + In.i] = Top(1)]
  /\ pc' = pc + 1
  /\ UNCHANGED <<sp, mem, regs, heap, out, status>>

StoreLocalAbsolute ==  \* or it counts from the bottom of the stack
  /\ Exec("STORE_LOCAL")
  /\ sp' = sp - 1
  /\ stack' = [stack EXCEPT ![In.i] = Top(1)]
  /\ pc' = pc + 1
  /\ UNCHANGED <<mem, regs, heap, out, status>>

STORE_LOCAL ==
  /\ Exec("STORE_LOCAL")
  /\ sp' = sp - 1
  /\ stack' = [stack EXCEPT ![fp + In.i] = Top(1)]
  /\ pc' = pc + 1
  /\ UNCHANGED <<mem, regs, heap, out, status>>

ENTER ==
  /\ Exec("ENTER")
  /\ sp' = sp + In.i
  /\ stack' = [j \in 0 .. MaxStack - 1 |-> IF j \in sp .. sp + In.i - 1 THEN Number(0) ELSE stack[j]]
  /\ pc' = pc + 1
  /\ UNCHANGED <<mem, regs, heap, out, status>>

PUSH_STR ==
  /\ Exec("PUSH_STR") /\ Give(0, TextOf(strings[In.i + 1]))
  /\ UNCHANGED <<mem, regs, heap, out, status>>

(* What takes k operands and only looks at them.                           *)
Computes(op, k, x) == Exec(op) /\ Give(k, x) /\ UNCHANGED <<mem, regs, heap, out, status>>

Plus(x, y) ==
  IF x.tag = "num" /\ y.tag = "num" THEN Number(x.v + y.v) ELSE TextOf(AsText(x) \o AsText(y))

ADD == Computes("ADD", 2, Plus(Top(2), Top(1)))

SUB == Computes("SUB", 2, Number(Top(2).v - Top(1).v))
MUL == Computes("MUL", 2, Number(Top(2).v * Top(1).v))
MOD == Computes("MOD", 2, Number(Fmod(Top(2).v, Top(1).v)))
NEG == Computes("NEG", 1, Number(0 - Top(1).v))

Lower(x, y) == IF x.tag = "num" THEN x.v < y.v ELSE Before(x.text, y.text)

LT == Computes("LT", 2, Number(Flag(Lower(Top(2), Top(1)))))
GT == Computes("GT", 2, Number(Flag(Lower(Top(1), Top(2)))))
LE == Computes("LE", 2, Number(Flag(~ Lower(Top(1), Top(2)))))
GE == Computes("GE", 2, Number(Flag(~ Lower(Top(2), Top(1)))))

EQ  == Computes("EQ", 2, Number(Flag(Equal(Top(2), Top(1)))))
NEQ == Computes("NEQ", 2, Number(Flag(~ Equal(Top(2), Top(1)))))

(* Both operands have been evaluated when AND and OR look at them.         *)
AND == Computes("AND", 2, Number(Flag(Truthy(Top(2)) /\ Truthy(Top(1)))))
OR  == Computes("OR", 2, Number(Flag(Truthy(Top(2)) \/ Truthy(Top(1)))))
NOT == Computes("NOT", 1, Number(Flag(~ Truthy(Top(1)))))

PRINT ==
  /\ Exec("PRINT") /\ Take(1)
  /\ out' = Append(out, Shown(Top(1)))
  /\ pc' = pc + 1
  /\ UNCHANGED <<mem, regs, heap, status>>

DROP == Exec("DROP") /\ Take(1) /\ pc' = pc + 1 /\ UNCHANGED <<mem, regs, heap, out, status>>

DUP2 ==
  /\ Exec("DUP2")
  /\ sp' = sp + 2
  /\ stack' = [stack EXCEPT ![sp] = Top(2), ![sp + 1] = Top(1)]
  /\ pc' = pc + 1
  /\ UNCHANGED <<mem, regs, heap, out, status>>

JMP ==
  /\ Exec("JMP") /\ pc' = In.i
  /\ UNCHANGED <<sp, stack, mem, regs, heap, out, status>>

JZ ==
  /\ Exec("JZ") /\ Take(1)
  /\ pc' = IF Truthy(Top(1)) THEN pc + 1 ELSE In.i
  /\ UNCHANGED <<mem, regs, heap, out, status>>

(* CALL and CALL_VAL: the arguments become the first slots of the frame.   *)
Frame == [pc |-> pc + 1, fp |-> fp, closure |-> closure]

CALL ==
  /\ Exec("CALL")
  /\ calls' = Append(calls, Frame)
  /\ closure' = 0
  /\ fp' = sp - In.n
  /\ pc' = In.i
  /\ UNCHANGED <<sp, stack, mem, heap, out, status>>

CallValByAddress ==    \* a mutant of CALL_VAL: the code address for the closure
  /\ Exec("CALL_VAL") /\ Take(1)
  /\ calls' = Append(calls, Frame)
  /\ closure' = fns[Top(1).v].pc
  /\ fp' = sp - 1 - In.i
  /\ pc' = fns[Top(1).v].pc
  /\ UNCHANGED <<mem, heap, out, status>>

CALL_VAL ==
  /\ Exec("CALL_VAL") /\ Take(1)
  /\ calls' = Append(calls, Frame)
  /\ closure' = Top(1).v
  /\ fp' = sp - 1 - In.i
  /\ pc' = fns[Top(1).v].pc
  /\ UNCHANGED <<mem, heap, out, status>>

RetKeepsFrame ==       \* a mutant of RET
  LET f == calls[Len(calls)] IN
  /\ Exec("RET")
  /\ calls' = SubSeq(calls, 1, Len(calls) - 1)
  /\ fp' = f.fp /\ pc' = f.pc /\ closure' = f.closure
  /\ UNCHANGED <<sp, stack, mem, heap, out, status>>

RET ==
  LET f == calls[Len(calls)] IN
  /\ Exec("RET")
  /\ sp' = fp + 1
  /\ stack' = [stack EXCEPT ![fp] = Top(1)]
  /\ calls' = SubSeq(calls, 1, Len(calls) - 1)
  /\ fp' = f.fp /\ pc' = f.pc /\ closure' = f.closure
  /\ UNCHANGED <<mem, heap, out, status>>

NEW_ARRAY ==
  /\ Exec("NEW_ARRAY") /\ Give(In.i, ArrayAt(Len(arrays) + 1))
  /\ arrays' = Append(arrays, Args(In.i))
  /\ UNCHANGED <<mem, regs, maps, fns, out, status>>

(* The entries of a map literal in order: of two with one key the later    *)
(* gives the value.                                                        *)
MapFirstWins(xs) ==    \* a mutant of MapOfPairs
  LET m[k \in 0 .. Len(xs) \div 2] ==
        IF k = 0 THEN <<>>
        ELSE IF KeyAt(m[k - 1], xs[2 * k - 1]) # {} THEN m[k - 1]
        ELSE Entered(m[k - 1], xs[2 * k - 1], xs[2 * k])
  IN  m[Len(xs) \div 2]

MapOfPairs(xs) ==
  LET m[k \in 0 .. Len(xs) \div 2] ==
        IF k = 0 THEN <<>> ELSE Entered(m[k - 1], xs[2 * k - 1], xs[2 * k])
  IN  m[Len(xs) \div 2]

NEW_MAP ==
  /\ Exec("NEW_MAP") /\ Give(2 * In.i, MapAt(Len(maps) + 1))
  /\ maps' = Append(maps, MapOfPairs(Args(2 * In.i)))
  /\ UNCHANGED <<mem, regs, arrays, fns, out, status>>

INDEX_GET == Computes("INDEX_GET", 2, Element(Top(2), Top(1)))

INDEX_SET ==
  /\ Exec("INDEX_SET") /\ Take(3)
  /\ \/ /\ Top(3).tag = "arr"
        /\ arrays' = [arrays EXCEPT ![Top(3).v][Top(2).v + 1] = Top(1)]
        /\ UNCHANGED maps
     \/ /\ Top(3).tag = "map"
        /\ maps' = [maps EXCEPT ![Top(3).v] = Entered(@, Top(2), Top(1))]
        /\ UNCHANGED arrays
  /\ pc' = pc + 1
  /\ UNCHANGED <<mem, regs, fns, out, status>>

PUSH_FN ==
  /\ Exec("PUSH_FN") /\ Give(0, FnAt(Len(fns) + 1))
  /\ fns' = Append(fns, [pc |-> In.i, upvals |-> <<>>])
  /\ UNCHANGED <<mem, regs, arrays, maps, out, status>>

MAKE_CLOSURE ==
  /\ Exec("MAKE_CLOSURE") /\ Give(In.n, FnAt(Len(fns) + 1))
  /\ fns' = Append(fns, [pc |-> In.i, upvals |-> Args(In.n)])
  /\ UNCHANGED <<mem, regs, arrays, maps, out, status>>

LOAD_UPVAL ==
  /\ Exec("LOAD_UPVAL") /\ Give(0, fns[closure].upvals[In.i + 1])
  /\ UNCHANGED <<mem, regs, heap, out, status>>

(* Where a function finds the element or key it looks for.                 *)
Sought(f, xs) ==
  LET here == CASE f \in {"array_find", "array_contains"} ->
                     {k \in DOMAIN arrays[xs[1].v] : Equal(arrays[xs[1].v][k], xs[2])}
                [] f \in {"has_key", "del"} -> KeyAt(maps[xs[1].v], xs[2])
                [] OTHER -> {}
  IN  IF here = {} THEN 0 ELSE CHOOSE k \in here : \A j \in here : k <= j

BUILTIN ==
  LET f  == Named(In.i)
      xs == Args(Arity(f))
      r  == VmResult(f, xs, arrays, maps, Sought(f, xs))
  IN  /\ Exec("BUILTIN") /\ Give(Arity(f), r.val)
      /\ arrays' = r.arrays /\ maps' = r.maps
      /\ UNCHANGED <<mem, regs, fns, out, status>>

HALT ==
  /\ Exec("HALT") /\ pc' = pc + 1 /\ status' = "halted"
  /\ UNCHANGED <<sp, stack, mem, regs, heap, out>>

Die ==
  /\ Running /\ ~ Passes
  /\ status' = "died"
  /\ UNCHANGED <<image, pc, sp, stack, mem, regs, heap, out>>

Step ==
  \/ PUSH \/ PUSH_STR \/ LOAD \/ STORE \/ LOAD_LOCAL \/ STORE_LOCAL \/ ENTER
  \/ ADD \/ SUB \/ MUL \/ MOD \/ NEG \/ LT \/ GT \/ LE \/ GE \/ EQ \/ NEQ
  \/ AND \/ OR \/ NOT \/ PRINT \/ DROP \/ DUP2 \/ JMP \/ JZ
  \/ CALL \/ CALL_VAL \/ RET
  \/ NEW_ARRAY \/ NEW_MAP \/ INDEX_GET \/ INDEX_SET
  \/ PUSH_FN \/ MAKE_CLOSURE \/ LOAD_UPVAL \/ BUILTIN \/ HALT \/ Die
-------------------------------------------------------------------------------
(* Types.  The machine trusts the code it loads with nothing: whatever the *)
(* code is, sp and fp stay in the stack, a return goes back into the code, *)
(* and every reference leads to something that exists.                     *)
TypeOK ==
  /\ pc \in 0 .. Len(code) /\ sp \in 0 .. MaxStack /\ fp \in 0 .. MaxStack
  /\ stack \in [0 .. MaxStack - 1 -> Value]
  /\ mem \in [0 .. varCount - 1 -> Value]
  /\ calls \in Seq([pc : 0 .. Len(code), fp : 0 .. MaxStack, closure : 0 .. Len(fns)])
  /\ Len(calls) <= MaxCalls
  /\ closure \in 0 .. Len(fns)
  /\ arrays \in Seq(Seq(Value))
  /\ maps \in Seq(Seq([key : {x \in Value : IsKey(x)}, value : Value]))
  /\ fns \in Seq([pc : 0 .. Len(code) - 1, upvals : Seq(Value)])
  /\ status \in {"running", "halted", "died"}
===============================================================================
