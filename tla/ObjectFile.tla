------------------------------- MODULE ObjectFile -------------------------------
(***************************************************************************)
(* What calcasm writes and calcld reads: an object with its code, its two  *)
(* tables of labels, its string pool and its number of variables           *)
(* (include/insn.h, calcasm.c, calcld.c).                                  *)
(*                                                                         *)
(* An opcode is kept as far as the linker tells opcodes apart: "slot" for  *)
(* LOAD and STORE, "string" for PUSH_STR, "label" for the instructions     *)
(* whose operand is a label (JMP, JZ, JNZ, CALL, PUSH_FN, MAKE_CLOSURE),   *)
(* "plain" for the rest.                                                   *)
(***************************************************************************)
EXTENDS Naturals, Sequences

CONSTANTS
  LocalName,   \* labels that begin with '.'
  GlobalName,  \* the others
  NoSym,       \* an instruction whose has_sym is 0
  Str,         \* string literals
  MaxCode,     \* CL_MAX_CODE
  MaxStrings,  \* CL_MAX_STRINGS
  MaxSymbols,  \* CL_MAX_SYMBOLS: labels of a file, variables of an object
  MaxGlobals   \* CL_MAX_GLOBALS: labels of a program

ASSUME NameAssumption ==
  /\ LocalName \cap GlobalName = {}
  /\ NoSym \notin LocalName \cup GlobalName

ASSUME LimitAssumption ==
  /\ MaxCode \in Nat /\ MaxStrings \in Nat
  /\ MaxSymbols \in Nat /\ MaxGlobals \in Nat

Name == LocalName \cup GlobalName

Insn == [op : {"slot", "string", "label", "plain"}, arg : Nat, sym : Name \cup {NoSym}]

Symbol(N) == [name : N, addr : Nat]

Object == [code    : Seq(Insn),
           vars    : Nat,
           strings : Seq(Str),
           syms    : Seq(Symbol(GlobalName)),
           locals  : Seq(Symbol(LocalName))]

Defines(table, n) == \E i \in DOMAIN table : table[i].name = n

(* The first entry for n, as the linear searches find it.                  *)
find_in(table, n) ==
  table[CHOOSE i \in DOMAIN table :
          table[i].name = n /\ \A j \in DOMAIN table : table[j].name = n => i <= j].addr

Unique(table) == \A i, j \in DOMAIN table : table[i].name = table[j].name => i = j

(* What the linker may rely on in an object that calcasm wrote: no label   *)
(* is defined twice, every label lies in the code or just behind it, only  *)
(* instructions that take a label have a symbol.                           *)
WellFormed(o) ==
  /\ Unique(o.syms) /\ Unique(o.locals)
  /\ \A i \in DOMAIN o.syms : o.syms[i].addr <= Len(o.code)
  /\ \A i \in DOMAIN o.locals : o.locals[i].addr <= Len(o.code)
  /\ \A i \in DOMAIN o.code : o.code[i].op = "label" <=> o.code[i].sym # NoSym
===============================================================================
