--------------------------------- MODULE Linker ---------------------------------
(***************************************************************************)
(* calcld: the objects of the command line are read one after the other    *)
(* and added to the program; references to labels of the same object are   *)
(* resolved on the way, the others at the end.  Any error ends the linker  *)
(* before the executable is written.                                       *)
(***************************************************************************)
EXTENDS ObjectFile

(* The objects that may be linked.                                         *)
Objects == {o \in Object : WellFormed(o)}

VARIABLES
  inputs,      \* the objects read so far
  place,       \* base, slot_offset and str_offset of each
  linked,      \* the program
  globals,     \* the exported labels of all objects
  strings,     \* the merged pool
  total_vars,
  ld           \* "merging", "written" or "failed"

lvars == <<inputs, place, linked, globals, strings, total_vars, ld>>

Place(c, v, s) == [code |-> c, vars |-> v, strings |-> s]

LinkInit ==
  /\ inputs = <<>> /\ place = <<>>
  /\ linked = <<>> /\ globals = <<>> /\ strings = <<>> /\ total_vars = 0
  /\ ld = "merging"

(* Fault seeded into Duplicate: the table of exported labels is not        *)
(* searched.                                                               *)
DuplicateNever(o) == FALSE

Duplicate(o) == \E i \in DOMAIN o.syms : Defines(globals, o.syms[i].name)

(* Fault seeded into TooLarge: the size of the program is not checked.     *)
CodeUnlimited(o) ==
  \/ Len(strings) + Len(o.strings) > MaxStrings
  \/ Len(globals) + Len(o.syms) > MaxGlobals
  \/ o.vars > MaxSymbols

(* What read_obj and the merging loops refuse.                              *)
TooLarge(o) ==
  \/ Len(strings) + Len(o.strings) > MaxStrings
  \/ Len(globals) + Len(o.syms) > MaxGlobals
  \/ Len(linked) + Len(o.code) > MaxCode
  \/ o.vars > MaxSymbols

(* The label of an instruction is a local one of its own object.           *)
IsLocal(ins, o) == ins.sym # NoSym /\ Defines(o.locals, ins.sym)

(* Faults seeded into Operand: slots are not shifted; a local label is not *)
(* shifted.                                                                *)
SlotsNotShifted(ins, o, p) ==
  CASE IsLocal(ins, o)    -> p.code + find_in(o.locals, ins.sym)
    [] ins.op = "string"  -> ins.arg + p.strings
    [] OTHER              -> ins.arg

LocalsNotShifted(ins, o, p) ==
  CASE IsLocal(ins, o)    -> find_in(o.locals, ins.sym)
    [] ins.op = "slot"    -> ins.arg + p.vars
    [] ins.op = "string"  -> ins.arg + p.strings
    [] OTHER              -> ins.arg

(* An instruction of object o, placed at p.                                *)
Operand(ins, o, p) ==
  CASE IsLocal(ins, o)    -> p.code + find_in(o.locals, ins.sym)
    [] ins.op = "slot"    -> ins.arg + p.vars
    [] ins.op = "string"  -> ins.arg + p.strings
    [] OTHER              -> ins.arg

Relocated(ins, o, p) ==
  [op  |-> ins.op,
   arg |-> Operand(ins, o, p),
   sym |-> IF IsLocal(ins, o) THEN NoSym ELSE ins.sym]

Exported(o, p) ==
  [i \in DOMAIN o.syms |-> [name |-> o.syms[i].name, addr |-> p.code + o.syms[i].addr]]

LinkFail ==
  /\ ld' = "failed"
  /\ UNCHANGED <<place, linked, globals, strings, total_vars>>

(* Fault seeded into Merge: the variables of earlier objects are forgotten.*)
VarsNotSummed(o, p) ==
  /\ place' = Append(place, p)
  /\ linked' = linked \o [i \in DOMAIN o.code |-> Relocated(o.code[i], o, p)]
  /\ globals' = globals \o Exported(o, p)
  /\ strings' = strings \o o.strings
  /\ total_vars' = o.vars
  /\ UNCHANGED ld

Merge(o, p) ==
  /\ place' = Append(place, p)
  /\ linked' = linked \o [i \in DOMAIN o.code |-> Relocated(o.code[i], o, p)]
  /\ globals' = globals \o Exported(o, p)
  /\ strings' = strings \o o.strings
  /\ total_vars' = total_vars + o.vars
  /\ UNCHANGED ld

LinkObject(o) ==
  /\ ld = "merging"
  /\ inputs' = Append(inputs, o)
  /\ IF Duplicate(o) \/ TooLarge(o)
     THEN LinkFail
     ELSE Merge(o, Place(Len(linked), total_vars, Len(strings)))

(* Second pass: what is left must be exported by some object.              *)
Resolved(ins) ==
  IF ins.sym = NoSym THEN ins
  ELSE [ins EXCEPT !.arg = find_in(globals, ins.sym), !.sym = NoSym]

Resolve ==
  /\ ld = "merging"
  /\ inputs # <<>>
  /\ UNCHANGED <<inputs, place, globals, strings, total_vars>>
  /\ IF \A i \in DOMAIN linked : linked[i].sym # NoSym => Defines(globals, linked[i].sym)
     THEN /\ linked' = [i \in DOMAIN linked |-> Resolved(linked[i])]
          /\ ld' = "written"
     ELSE /\ ld' = "failed"
          /\ UNCHANGED linked

LinkNext == (\E o \in Objects : LinkObject(o)) \/ Resolve

LinkSpec == LinkInit /\ [][LinkNext]_lvars
-------------------------------------------------------------------------------
(* Properties.                                                             *)

(* Types, and the limits the linker checks.                                *)
LinkTypeOK ==
  /\ inputs \in Seq(Objects)
  /\ place \in Seq([code : Nat, vars : Nat, strings : Nat])
  /\ linked \in Seq(Insn)
  /\ globals \in Seq(Symbol(GlobalName))
  /\ strings \in Seq(Str)
  /\ total_vars \in Nat
  /\ ld \in {"merging", "written", "failed"}
  /\ Len(linked) <= MaxCode /\ Len(strings) <= MaxStrings /\ Len(globals) <= MaxGlobals

(* No two objects share a variable, a string or an instruction of the      *)
(* merged program: each has its own range, in the order of the command     *)
(* line, inside what has been merged.                                      *)
Separate == \A k \in DOMAIN place :
  LET p == place[k]
      o == inputs[k]
  IN  /\ p.code + Len(o.code) <= Len(linked)
      /\ p.vars + o.vars <= total_vars
      /\ p.strings + Len(o.strings) <= Len(strings)
      /\ \A l \in DOMAIN place : k < l =>
           /\ p.code + Len(o.code) <= place[l].code
           /\ p.vars + o.vars <= place[l].vars
           /\ p.strings + Len(o.strings) <= place[l].strings

(* Where the label n of object k is: in the object itself if it defines n  *)
(* as a local label, otherwise in the one that exports it.                 *)
Leads(k, n, addr) ==
  IF Defines(inputs[k].locals, n)
  THEN addr = place[k].code + find_in(inputs[k].locals, n)
  ELSE \E m \in DOMAIN place :
         /\ Defines(inputs[m].syms, n)
         /\ addr = place[m].code + find_in(inputs[m].syms, n)

(* Instruction x of the program does what instruction ins of object k did  *)
(* in its own file: same operation, the object's own variables and         *)
(* strings, and for a label the place that label names.                    *)
SameMeaning(k, ins, x) ==
  /\ x.op = ins.op /\ x.sym = NoSym
  /\ ins.op = "slot" => x.arg = ins.arg + place[k].vars
  /\ ins.op = "string" => x.arg = ins.arg + place[k].strings
  /\ ins.op = "label" => Leads(k, ins.sym, x.arg)
  /\ ins.op = "plain" => x.arg = ins.arg

(* The executable is the objects one after the other, each of whose        *)
(* instructions keeps its meaning and each of whose strings is where its   *)
(* instructions look for it.                                               *)
ImageFaithful == ld = "written" =>
  \A k \in DOMAIN inputs :
    LET p == place[k]
        o == inputs[k]
    IN  /\ \A i \in DOMAIN o.code : SameMeaning(k, o.code[i], linked[p.code + i])
        /\ \A i \in DOMAIN o.strings : strings[p.strings + i] = o.strings[i]

(* An exported label has one definition among all objects, so a reference  *)
(* cannot depend on the order of the command line.                         *)
OneDefinition == ld = "written" =>
  \A k, l \in DOMAIN inputs : \A n \in GlobalName :
    Defines(inputs[k].syms, n) /\ Defines(inputs[l].syms, n) => k = l
===============================================================================
