----------------------------- MODULE NativeMachine -----------------------------
(***************************************************************************)
(* What the processor and the runtime (runtime_x64.c) do with the code of  *)
(* NativeCodegen: one action per instruction of the model.                 *)
(*                                                                         *)
(* The stack is the sequence of the words above rsp, the oldest first, so  *)
(* rsp is its length, and the word at [rbp + 8 d] is stack[rbp - d].  The  *)
(* return address of main is the first word above a multiple of 16.        *)
(*                                                                         *)
(* Nothing is checked but by the runtime.  Where the code would read a     *)
(* word that is not what it takes it for, or run out of stack, the machine *)
(* is "wild".  Numbers are integers; complex numbers are left out.  What   *)
(* the library functions do is in NativeLibrary.  The collector is the     *)
(* subject of NativeGC: here nothing is freed.                             *)
(***************************************************************************)
EXTENDS NativeLibrary

CONSTANTS
  MaxWords,    \* words of the stack
  MaxHandlers, \* CL_MAX_HANDLERS: try blocks under way
  Images       \* the executables: instructions, where main begins, texts

ASSUME MachineAssumption ==
  /\ MaxWords \in Nat \ {0} /\ MaxHandlers \in Nat \ {0}
  /\ \A i \in Images :
       i.code \in Seq([op : STRING, i : Int, n : Int]) /\ i.entry \in 0 .. Len(i.code) - 1

VARIABLES
  image,     \* the executable
  pc, rbp,
  r10,       \* the closure an indirect call goes to
  xmm0,      \* the value of the last expression
  stack,
  boxes,     \* the boxes made so far, with what they hold
  arrays, maps,
  fns,       \* the closures made so far: code, and the boxes they captured
  handlers,  \* g_handlers: rsp, rbp and the catch label of each try
  exception, \* g_exception_value
  out,       \* what has been printed
  status     \* "running", "done", "died", "uncaught" or "wild"

heap  == <<boxes, arrays, maps, fns>>
tries == <<handlers, exception>>
mvars == <<image, pc, rbp, r10, xmm0, stack, heap, tries, out, status>>

code    == image.code
strings == image.strings

BoxAt(b)  == [tag |-> "box", v |-> b]
RbpOf(b)  == [tag |-> "rbp", v |-> b]
RetTo(p)  == [tag |-> "ret", v |-> p]
Junk      == [tag |-> "junk", v |-> 0]

Value ==
  [tag : {"num"}, v : Int] \cup [tag : {"str"}, text : Seq(Int)]
    \cup [tag : {"arr"}, v : 1 .. Len(arrays)] \cup [tag : {"map"}, v : 1 .. Len(maps)]
    \cup [tag : {"fn"}, v : 1 .. Len(fns)]

(* cl_truthy.                                                              *)
Truthy(x) ==
  \/ x.tag = "num" /\ x.v # 0
  \/ x.tag = "str" /\ x.text # <<>>
  \/ x.tag = "arr" /\ arrays[x.v] # <<>>
  \/ x.tag = "map" /\ maps[x.v] # <<>>
  \/ x.tag = "fn"

(* values_equal: closures of one code are equal.                           *)
Equal(x, y) == x = y \/ (x.tag = "fn" /\ y.tag = "fn" /\ fns[x.v].pc = fns[y.v].pc)

Load ==
  /\ image \in Images
  /\ pc = image.entry /\ rbp = 0 /\ r10 = Junk /\ xmm0 = Junk
  /\ stack = <<RetTo(-1)>>
  /\ boxes = <<>> /\ arrays = <<>> /\ maps = <<>> /\ fns = <<>>
  /\ handlers = <<>> /\ exception = Junk /\ out = <<>>
  /\ status = "running"
-------------------------------------------------------------------------------
In == code[pc + 1]

Word(d) == stack[rbp - d]                  \* [rbp + 8 d]
Slot(k) == stack[Len(stack) - 2 * k]       \* [rsp + 16 k]

Without(k) == SubSeq(stack, 1, Len(stack) - k)      \* add rsp, 8 k
Push(x) == stack \o <<Junk, x>>                     \* a slot: the low word counts

Running == status = "running"

(* Map entries and elements.                                               *)
KeyAt(m, k) == {j \in DOMAIN m : Equal(m[j].key, k)}

Found(m, k) == CHOOSE j \in KeyAt(m, k) : \A i \in KeyAt(m, k) : j <= i

Entered(m, k, x) ==
  IF KeyAt(m, k) = {}
  THEN Append(m, [key |-> k, value |-> x])
  ELSE [m EXCEPT ![Found(m, k)].value = x]

InArray(a, i) == a.tag = "arr" /\ i.tag = "num" /\ i.v \in 0 .. Len(arrays[a.v]) - 1

(* A text can be read in this way too; no program of the runs does.        *)
Gettable(t, i) == InArray(t, i) \/ (t.tag = "map" /\ KeyAt(maps[t.v], i) # {})
Settable(t, i) == InArray(t, i) \/ (t.tag = "map" /\ IsKey(i))

Element(t, i) ==
  IF t.tag = "arr" THEN arrays[t.v][i.v + 1] ELSE maps[t.v][Found(maps[t.v], i)].value

(* The arguments of a library call, pushed in order or, in a trampoline,   *)
(* in reverse below the return address; and where it finds what it looks   *)
(* for.                                                                    *)
Pushed(n) == [k \in 1 .. n |-> Slot(n - k)]
Passed(n) == [k \in 1 .. n |-> stack[Len(stack) + 1 - 2 * k]]

Sought(f, xs) ==
  LET here == CASE f \in {"array_find", "array_contains"} ->
                     {k \in DOMAIN arrays[xs[1].v] : Equal(arrays[xs[1].v][k], xs[2])}
                [] f \in {"has_key", "del"} -> KeyAt(maps[xs[1].v], xs[2])
                [] OTHER -> {}
  IN  IF here = {} THEN 0 ELSE CHOOSE k \in here : \A j \in here : k <= j

CallArgs == IF In.op = "BUILTIN" THEN Pushed(Arity(Named(In.i))) ELSE Passed(Arity(Named(In.i)))

(* What the runtime checks before it acts; otherwise the program dies.     *)
Tags == {Slot(0).tag, xmm0.tag}

Passes ==
  CASE In.op = "ADD"          -> Tags \subseteq {"num", "str"}
    [] In.op \in {"SUB", "MUL"} -> Tags = {"num"}
    [] In.op = "NEG"          -> xmm0.tag = "num"
    [] In.op \in {"LT", "LE", "GT", "GE"} -> Tags \in {{"num"}, {"str"}}
    [] In.op = "GET_INDEX"    -> Gettable(Slot(0), xmm0)
    [] In.op = "PEEK_INDEX"   -> Gettable(Slot(1), Slot(0))
    [] In.op = "SET_INDEX"    -> Settable(Slot(1), Slot(0))
    [] In.op \in {"BUILTIN", "TRAMPOLINE"} -> NativeAccepts(Named(In.i), CallArgs, arrays)
    [] In.op = "TRY"          -> Len(handlers) < MaxHandlers
    [] In.op = "UNTRY"        -> handlers # <<>>
    [] OTHER                  -> TRUE

(* What the code takes on trust.                                           *)
Upval(k) == fns[Word(-1).v].upvals[k + 1]

Trusted ==
  CASE In.op \in {"LOAD_BOX", "STORE_BOX", "CAPTURE"} -> Word(In.i).tag = "box"
    [] In.op \in {"LOAD_UPVAL", "STORE_UPVAL", "CAPTURE_UPVAL"} ->
         Word(-1).tag = "fn" /\ In.i < Len(fns[Word(-1).v].upvals)
    [] In.op = "CALL_VALUE" -> Slot(In.i).tag = "fn" /\ Slot(In.i).v \in DOMAIN fns
    [] In.op = "TRAMPOLINE" -> Last(stack).tag = "ret" /\ Len(stack) > 2 * Arity(Named(In.i))
    [] In.op = "ENTER"      -> Len(stack) + 1 + In.i <= MaxWords
    [] In.op = "RET"        -> stack[rbp].tag = "rbp" /\ stack[rbp - 1].tag = "ret"
    [] In.op = "THROW"      -> handlers # <<>> => Last(handlers).rsp <= Len(stack)
    [] OTHER                -> TRUE

Exec(op) == Running /\ In.op = op /\ Trusted /\ Passes /\ UNCHANGED image

Goes == pc' = pc + 1 /\ UNCHANGED <<rbp, r10, status>>

(* What leaves x in xmm0 and the stack as s.                               *)
Computes(op, s, x) ==
  Exec(op) /\ Goes /\ stack' = s /\ xmm0' = x /\ UNCHANGED <<heap, tries, out>>
-------------------------------------------------------------------------------
IMM  == Computes("IMM", stack, Number(In.i))
TEXT == Computes("TEXT", stack, TextOf(strings[In.i]))

LOAD       == Computes("LOAD", stack, Word(In.i))
LOAD_BOX   == Computes("LOAD_BOX", stack, boxes[Word(In.i).v])
LOAD_UPVAL == Computes("LOAD_UPVAL", stack, boxes[Upval(In.i)])

STORE ==
  Computes("STORE", [stack EXCEPT ![rbp - In.i] = xmm0], xmm0)

SetBox(b) ==
  /\ boxes' = [boxes EXCEPT ![b] = xmm0]
  /\ Goes /\ UNCHANGED <<stack, xmm0, arrays, maps, fns, tries, out>>

STORE_BOX   == Exec("STORE_BOX") /\ SetBox(Word(In.i).v)
STORE_UPVAL == Exec("STORE_UPVAL") /\ SetBox(Upval(In.i))

(* cl_box_new for the value of a let, or of an argument.                   *)
NewBox(op, x) ==
  /\ Exec(op) /\ Goes
  /\ boxes' = Append(boxes, x)
  /\ stack' = [stack EXCEPT ![rbp - In.i] = BoxAt(Len(boxes) + 1)]
  /\ UNCHANGED <<xmm0, arrays, maps, fns, tries, out>>

NEW_BOX == NewBox("NEW_BOX", xmm0)
BOX_ARG == NewBox("BOX_ARG", Word(In.n))

PUSH == Computes("PUSH", Push(xmm0), xmm0)
POP  == Computes("POP", Without(2), Slot(0))
DROP == Computes("DROP", Without(2 * In.i), xmm0)

(* Two operands: the left one pushed, the right one in xmm0.               *)
Binary(op, x) == Computes(op, Without(2), x)

Plus(x, y) ==
  IF x.tag = "num" /\ y.tag = "num" THEN Number(x.v + y.v) ELSE TextOf(AsText(x) \o AsText(y))

Lower(x, y) == IF x.tag = "num" THEN x.v < y.v ELSE Before(x.text, y.text)

ADD == Binary("ADD", Plus(Slot(0), xmm0))
SUB == Binary("SUB", Number(Slot(0).v - xmm0.v))
MUL == Binary("MUL", Number(Slot(0).v * xmm0.v))
LT  == Binary("LT", Number(Flag(Lower(Slot(0), xmm0))))
GT  == Binary("GT", Number(Flag(Lower(xmm0, Slot(0)))))
LE  == Binary("LE", Number(Flag(~ Lower(xmm0, Slot(0)))))
GE  == Binary("GE", Number(Flag(~ Lower(Slot(0), xmm0))))
EQ  == Binary("EQ", Number(Flag(Equal(Slot(0), xmm0))))
NEQ == Binary("NEQ", Number(Flag(~ Equal(Slot(0), xmm0))))
NEG == Computes("NEG", stack, Number(0 - xmm0.v))
NOT == Computes("NOT", stack, Number(Flag(~ Truthy(xmm0))))

(* subsd and mulsd on words: every value but a number is a NaN for them,   *)
(* and the result is the first operand that is one.                        *)
Raw(x) ==
  CASE Slot(0).tag # "num"                    -> Slot(0)
    [] Slot(0).tag = "num" /\ xmm0.tag # "num" -> xmm0
    [] OTHER                                  -> x

SUBSD == Binary("SUBSD", Raw(Number(Slot(0).v - xmm0.v)))
MULSD == Binary("MULSD", Raw(Number(Slot(0).v * xmm0.v)))
-------------------------------------------------------------------------------
NEW_ARR ==
  /\ Exec("NEW_ARR") /\ Goes
  /\ arrays' = Append(arrays, <<>>) /\ xmm0' = ArrayAt(Len(arrays) + 1)
  /\ UNCHANGED <<stack, boxes, maps, fns, tries, out>>

ARR_PUSH ==
  /\ Exec("ARR_PUSH") /\ Goes
  /\ arrays' = [arrays EXCEPT ![Slot(0).v] = Append(@, xmm0)]
  /\ UNCHANGED <<stack, xmm0, boxes, maps, fns, tries, out>>

NEW_MAP ==
  /\ Exec("NEW_MAP") /\ Goes
  /\ maps' = Append(maps, <<>>) /\ xmm0' = MapAt(Len(maps) + 1)
  /\ UNCHANGED <<stack, boxes, arrays, fns, tries, out>>

GET_INDEX  == Computes("GET_INDEX", Without(2), Element(Slot(0), xmm0))
PEEK_INDEX == Computes("PEEK_INDEX", stack, Element(Slot(1), Slot(0)))

SET_INDEX ==
  /\ Exec("SET_INDEX") /\ Goes
  /\ stack' = Without(2 * In.i)
  /\ \/ /\ Slot(1).tag = "arr"
        /\ arrays' = [arrays EXCEPT ![Slot(1).v][Slot(0).v + 1] = xmm0]
        /\ UNCHANGED maps
     \/ /\ Slot(1).tag = "map"
        /\ maps' = [maps EXCEPT ![Slot(1).v] = Entered(@, Slot(0), xmm0)]
        /\ UNCHANGED arrays
  /\ UNCHANGED <<xmm0, boxes, fns, tries, out>>

(* cl_new_closure; the captured boxes are filled in one by one.            *)
NEW_FN ==
  /\ Exec("NEW_FN") /\ Goes
  /\ fns' = Append(fns, [pc |-> In.i, upvals |-> [k \in 1 .. In.n |-> 0]])
  /\ xmm0' = FnAt(Len(fns) + 1)
  /\ UNCHANGED <<stack, boxes, arrays, maps, tries, out>>

Capture(b) ==
  /\ fns' = [fns EXCEPT ![Slot(0).v].upvals[In.n + 1] = b]
  /\ Goes /\ UNCHANGED <<stack, xmm0, boxes, arrays, maps, tries, out>>

CAPTURE       == Exec("CAPTURE") /\ Capture(Word(In.i).v)
CAPTURE_UPVAL == Exec("CAPTURE_UPVAL") /\ Capture(Upval(In.i))
-------------------------------------------------------------------------------
PRINT ==
  /\ Exec("PRINT") /\ Goes /\ out' = Append(out, Shown(xmm0))
  /\ UNCHANGED <<stack, xmm0, heap, tries>>

Branch(op, b) ==
  /\ Exec(op) /\ pc' = IF b THEN In.i ELSE pc + 1
  /\ UNCHANGED <<rbp, r10, xmm0, stack, heap, tries, out, status>>

JMP == Branch("JMP", TRUE)
JZ  == Branch("JZ", ~ Truthy(xmm0))
JNZ == Branch("JNZ", Truthy(xmm0))

CALL ==
  /\ Exec("CALL") /\ pc' = In.i /\ stack' = Append(stack, RetTo(pc + 1))
  /\ UNCHANGED <<rbp, r10, xmm0, heap, tries, out, status>>

CALL_VALUE ==
  /\ Exec("CALL_VALUE") /\ r10' = Slot(In.i) /\ pc' = fns[Slot(In.i).v].pc
  /\ stack' = Append(stack, RetTo(pc + 1))
  /\ UNCHANGED <<rbp, xmm0, heap, tries, out, status>>

(* The prologue of every body: push rbp; mov rbp, rsp; sub rsp, frame;     *)
(* mov [rbp - 8], r10.  A function called by name finds there what the     *)
(* last indirect call left, and does not read it.                          *)
ENTER ==
  /\ Exec("ENTER")
  /\ stack' = stack \o <<RbpOf(rbp), r10>> \o [k \in 1 .. In.i - 1 |-> Junk]
  /\ rbp' = Len(stack) + 1
  /\ pc' = pc + 1
  /\ UNCHANGED <<r10, xmm0, heap, tries, out, status>>

(* mov rsp, rbp; pop rbp; ret.                                             *)
RET ==
  /\ Exec("RET")
  /\ stack' = SubSeq(stack, 1, rbp - 2)
  /\ rbp' = stack[rbp].v
  /\ IF stack[rbp - 1].v = -1
     THEN status' = "done" /\ UNCHANGED pc
     ELSE pc' = stack[rbp - 1].v /\ UNCHANGED status
  /\ UNCHANGED <<r10, xmm0, heap, tries, out>>

(* A library call: its arguments are taken off the stack; a trampoline is  *)
(* called like a function, makes the call and returns.                     *)
Library(op) ==
  LET f == Named(In.i)
      r == NativeResult(f, CallArgs, arrays, maps, Sought(f, CallArgs))
  IN  /\ Exec(op)
      /\ xmm0' = r.val /\ arrays' = r.arrays /\ maps' = r.maps
      /\ UNCHANGED <<rbp, r10, boxes, fns, tries, out, status>>

BUILTIN ==
  /\ Library("BUILTIN")
  /\ stack' = Without(2 * Arity(Named(In.i))) /\ pc' = pc + 1

TRAMPOLINE ==
  /\ Library("TRAMPOLINE")
  /\ stack' = Without(1) /\ pc' = Last(stack).v

(* mov rax, [rsp + 16 i]; mov [rbp + 8 n], rax.                            *)
MOVE_ARG == Computes("MOVE_ARG", [stack EXCEPT ![rbp - In.n] = Slot(In.i)], xmm0)
-------------------------------------------------------------------------------
TRY ==
  /\ Exec("TRY") /\ Goes
  /\ handlers' = Append(handlers, [rsp |-> Len(stack), rbp |-> rbp, pc |-> In.i])
  /\ UNCHANGED <<xmm0, stack, heap, exception, out>>

UNTRY ==
  /\ Exec("UNTRY") /\ Goes /\ handlers' = Front(handlers)
  /\ UNCHANGED <<xmm0, stack, heap, exception, out>>

EXCEPTION == Computes("EXCEPTION", stack, exception)

(* cl_throw: back to where the last handler was pushed.  Without one the   *)
(* value is printed and the program ends.                                  *)
THROW ==
  LET h == Last(handlers) IN
  /\ Exec("THROW")
  /\ \/ /\ handlers = <<>>
        /\ status' = "uncaught" /\ out' = Append(out, Shown(xmm0))
        /\ UNCHANGED <<pc, rbp, stack, tries>>
     \/ /\ handlers # <<>>
        /\ exception' = xmm0 /\ handlers' = Front(handlers)
        /\ stack' = SubSeq(stack, 1, h.rsp) /\ rbp' = h.rbp /\ pc' = h.pc
        /\ UNCHANGED <<out, status>>
  /\ UNCHANGED <<r10, xmm0, heap>>

Die ==
  /\ Running /\ Trusted /\ ~ Passes
  /\ status' = "died"
  /\ UNCHANGED <<image, pc, rbp, r10, xmm0, stack, heap, tries, out>>

Crash ==
  /\ Running /\ ~ Trusted
  /\ status' = "wild"
  /\ UNCHANGED <<image, pc, rbp, r10, xmm0, stack, heap, tries, out>>

Step ==
  \/ IMM \/ TEXT \/ LOAD \/ LOAD_BOX \/ LOAD_UPVAL \/ STORE \/ STORE_BOX \/ STORE_UPVAL
  \/ NEW_BOX \/ BOX_ARG \/ PUSH \/ POP \/ DROP
  \/ ADD \/ SUB \/ MUL \/ LT \/ GT \/ LE \/ GE \/ EQ \/ NEQ \/ NEG \/ NOT \/ SUBSD \/ MULSD
  \/ NEW_ARR \/ ARR_PUSH \/ NEW_MAP \/ GET_INDEX \/ PEEK_INDEX \/ SET_INDEX
  \/ NEW_FN \/ CAPTURE \/ CAPTURE_UPVAL
  \/ PRINT \/ JMP \/ JZ \/ JNZ \/ CALL \/ CALL_VALUE \/ ENTER \/ RET \/ MOVE_ARG
  \/ BUILTIN \/ TRAMPOLINE
  \/ TRY \/ UNTRY \/ EXCEPTION \/ THROW \/ Die \/ Crash
-------------------------------------------------------------------------------
(* Types.  Whatever is on the stack in between, what the program computes  *)
(* with are values, captured variables are boxes, and the frame in force   *)
(* lies in the stack.                                                      *)
TypeOK ==
  /\ pc \in 0 .. Len(code) - 1 /\ rbp \in 0 .. Len(stack)
  /\ Len(stack) <= MaxWords + 1
  /\ xmm0 \in Value \cup {Junk} /\ exception \in Value \cup {Junk}
  /\ boxes \in Seq(Value) /\ arrays \in Seq(Seq(Value))
  /\ \A a \in DOMAIN maps : \A k \in DOMAIN maps[a] :
       maps[a][k].key \in Value /\ IsKey(maps[a][k].key) /\ maps[a][k].value \in Value
  /\ fns \in Seq([pc : 0 .. Len(code) - 1, upvals : Seq(0 .. Len(boxes))])
  /\ \A k \in DOMAIN handlers : handlers[k].rsp <= Len(stack) /\ handlers[k].rbp <= handlers[k].rsp
  /\ status \in {"running", "done", "died", "uncaught", "wild"}
================================================================================
