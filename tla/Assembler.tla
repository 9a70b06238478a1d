------------------------------- MODULE Assembler --------------------------------
(***************************************************************************)
(* calcasm: one pass over the lines of a .casm file, each taken to pieces  *)
(* and added to the object at once.  Any error ends the program before an  *)
(* object is written.                                                      *)
(*                                                                         *)
(* A line is taken after its comment is cut off and its words are told     *)
(* apart: ".var_count n", ".string i s", or an optional label followed by  *)
(* an optional instruction; "bad" stands for every line that ends in an    *)
(* assembler error (unknown opcode, missing operand).                      *)
(***************************************************************************)
EXTENDS ObjectFile, FiniteSets

CONSTANTS
  Lines,       \* the lines that a file may consist of
  NoInsn,
  MaxLines     \* bound on the length of the file

CodeLine(label, insn) == [kind |-> "code", label |-> label, insn |-> insn]

ParsedInsn == {x \in Insn : x.op = "label" <=> x.sym # NoSym}

Line == [kind : {"code"}, label : Name \cup {NoSym}, insn : ParsedInsn \cup {NoInsn}]
          \cup [kind : {"string"}, index : Nat, string : Str]
          \cup [kind : {"var_count"}, count : Nat]
          \cup [kind : {"bad"}]

ASSUME AssemblerAssumption ==
  /\ Lines \subseteq Line
  /\ NoInsn \notin Insn
  /\ MaxLines \in Nat

VARIABLES
  text,    \* the lines read so far
  obj,     \* AsmState: the object under construction
  asm      \* "reading", "written" or "failed"

avars == <<text, obj, asm>>

EmptyObject == [code |-> <<>>, vars |-> 0, strings |-> <<>>, syms |-> <<>>, locals |-> <<>>]

AsmInit ==
  /\ text = <<>>
  /\ obj = EmptyObject
  /\ asm = "reading"

Read(line) ==
  /\ asm = "reading"
  /\ Len(text) < MaxLines
  /\ text' = Append(text, line)

AsmFail == asm' = "failed" /\ UNCHANGED obj

Continue(o) == obj' = o /\ UNCHANGED asm

var_count(line) ==
  /\ line.kind = "var_count"
  /\ Read(line)
  /\ Continue([obj EXCEPT !.vars = line.count])

(* Fault seeded into StringFits: the size of the pool is not checked.      *)
StringInOrder(index) == index = Len(obj.strings)

(* The pool must be listed in order, without gaps.                         *)
StringFits(index) == index = Len(obj.strings) /\ index < MaxStrings

string(line) ==
  /\ line.kind = "string"
  /\ Read(line)
  /\ IF StringFits(line.index)
     THEN Continue([obj EXCEPT !.strings = Append(@, line.string)])
     ELSE AsmFail

LabelFits(o, n) == LET table == IF n \in LocalName THEN o.locals ELSE o.syms IN
  /\ ~ Defines(table, n)
  /\ Len(table) < MaxSymbols

(* Faults seeded into add_label: addresses count from 1; the address of    *)
(* the instruction before.                                                 *)
LabelFromOne(o, n) ==
  LET entry == [name |-> n, addr |-> Len(o.code) + 1] IN
  IF n \in LocalName THEN [o EXCEPT !.locals = Append(@, entry)]
                     ELSE [o EXCEPT !.syms = Append(@, entry)]

LabelLate(o, n) ==
  LET entry == [name |-> n, addr |-> IF o.code = <<>> THEN 0 ELSE Len(o.code) - 1] IN
  IF n \in LocalName THEN [o EXCEPT !.locals = Append(@, entry)]
                     ELSE [o EXCEPT !.syms = Append(@, entry)]

add_label(o, n) ==
  LET entry == [name |-> n, addr |-> Len(o.code)] IN
  IF n \in LocalName THEN [o EXCEPT !.locals = Append(@, entry)]
                     ELSE [o EXCEPT !.syms = Append(@, entry)]

Labelled(line) == IF line.label = NoSym THEN obj ELSE add_label(obj, line.label)

add_insn(o, insn) == IF insn = NoInsn THEN o ELSE [o EXCEPT !.code = Append(@, insn)]

code(line) ==
  /\ line.kind = "code"
  /\ Read(line)
  /\ IF /\ line.label # NoSym => LabelFits(obj, line.label)
        /\ line.insn # NoInsn => Len(obj.code) < MaxCode
     THEN Continue(add_insn(Labelled(line), line.insn))
     ELSE AsmFail

bad(line) ==
  /\ line.kind = "bad"
  /\ Read(line)
  /\ AsmFail

WriteObject ==
  /\ asm = "reading"
  /\ asm' = "written"
  /\ UNCHANGED <<text, obj>>

AsmNext ==
  \/ \E line \in Lines : var_count(line) \/ string(line) \/ code(line) \/ bad(line)
  \/ WriteObject

AsmSpec == AsmInit /\ [][AsmNext]_avars
-------------------------------------------------------------------------------
(* Properties.                                                             *)

(* Types, and the limits of the tables.                                    *)
AsmTypeOK ==
  /\ text \in Seq(Lines)
  /\ obj \in Object
  /\ asm \in {"reading", "written", "failed"}
  /\ Len(obj.code) <= MaxCode /\ Len(obj.strings) <= MaxStrings
  /\ Len(obj.syms) <= MaxSymbols /\ Len(obj.locals) <= MaxSymbols

(* The object is one the linker may be given, at every moment.             *)
ObjectWellFormed == WellFormed(obj)

InsnLines == {i \in DOMAIN text : text[i].kind = "code" /\ text[i].insn # NoInsn}

(* A reference to a label of an object reaches the first instruction at or *)
(* after the line of the label: as many instructions precede it as lines   *)
(* before that line hold one.  The instructions keep their order.          *)
LabelsLead == asm # "failed" =>
  \A i \in DOMAIN text : text[i].kind = "code" =>
    LET n      == text[i].label
        table  == IF n \in LocalName THEN obj.locals ELSE obj.syms
        before == Cardinality({j \in InsnLines : j < i})
    IN  /\ n # NoSym => Defines(table, n) /\ find_in(table, n) = before
        /\ text[i].insn # NoInsn => obj.code[before + 1] = text[i].insn
===============================================================================
