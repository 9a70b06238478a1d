------------------------------ MODULE Instructions -----------------------------
(***************************************************************************)
(* Instructions of the two generators: an opcode, two operands and the     *)
(* label it names, <<>> for none.                                          *)
(***************************************************************************)
EXTENDS Integers, SequencesExt

Instr(op, i, n) == [op |-> op, i |-> i, n |-> n, label |-> <<>>]
Op(op)          == Instr(op, 0, 0)
OpI(op, i)      == Instr(op, i, 0)
OpN(n)          == Instr("PUSH", 0, n)
OpL(op, l, i, n) == [op |-> op, i |-> i, n |-> n, label |-> l]
Label(l)        == OpL("LABEL", l, 0, 0)

LoopLabel(k)    == <<"L", k>>
FnLabel(f)      == <<"fn", f>>
ClosureLabel(k) == <<"cl", k>>
BuiltinLabel(f) == <<"bi", f>>

(* A label stands for the position of the instruction after it.            *)
IsLabel(i) == i.op = "LABEL"

Address(is, l) ==
  LET at == CHOOSE k \in 1 .. Len(is) : IsLabel(is[k]) /\ is[k].label = l
  IN  Len(SelectSeq(SubSeq(is, 1, at - 1), LAMBDA i : ~ IsLabel(i)))

Resolve(is) ==
  LET final(i) == [op |-> i.op, i |-> IF i.label = <<>> THEN i.i ELSE Address(is, i.label), n |-> i.n]
  IN  SelectSeq([k \in 1 .. Len(is) |-> IF IsLabel(is[k]) THEN is[k] ELSE final(is[k])],
                LAMBDA i : ~ IsLabel(i))
================================================================================
