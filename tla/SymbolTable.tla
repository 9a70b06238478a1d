------------------------------ MODULE SymbolTable ------------------------------
(***************************************************************************)
(* The symbol table of the compilers (symbol_table.c) and the upvalue      *)
(* lists of codegen.c that are built from it, as operators on a table st   *)
(* and on a list of captures per function depth.                           *)
(*                                                                         *)
(* Slots and offsets count from 0, as in the code; sequences from 1.  The  *)
(* type a symbol may carry is left out.  The limits of the table are in    *)
(* the guards of Scopes.                                                   *)
(***************************************************************************)
EXTENDS Integers, Sequences, FiniteSetsExt

CONSTANT
  MaxDepth    \* CL_MAX_SCOPES: how deep functions may nest

ASSUME DepthAssumption == MaxDepth \in Nat \ {0}

Depths == 1 .. MaxDepth

NewTable ==
  [items   |-> <<>>,                       \* the live variables, oldest first
   starts  |-> <<0>>,                      \* per scope, the items before it
   locals  |-> <<0>>,                      \* per scope, the offset it began at
   nextg   |-> 0,                          \* the next global slot
   depth   |-> 0,                          \* functions entered
   next    |-> [d \in Depths |-> 0],       \* per function, the next offset
   peak    |-> [d \in Depths |-> 0]]       \* and the highest so far

PushWithoutOffset(st) ==     \* mutants of PushScope: every scope begins at 0,
  [st EXCEPT !.starts = Append(@, Len(st.items)), !.locals = Append(@, 0)]

PushWithoutLocals(st) ==     \* or the offset is not remembered
  [st EXCEPT !.starts = Append(@, Len(st.items))]

PushScope(st) ==
  [st EXCEPT !.starts = Append(@, Len(st.items)),
             !.locals = Append(@, IF st.depth > 0 THEN st.next[st.depth] ELSE 0)]

Front1(s) == SubSeq(s, 1, Len(s) - 1)

PopScope(st) ==
  LET k == Len(st.starts) IN
  [st EXCEPT !.starts = Front1(@),
             !.locals = Front1(@),
             !.items  = SubSeq(@, 1, st.starts[k]),
             !.next   = IF st.depth > 0 THEN [@ EXCEPT ![st.depth] = st.locals[k]] ELSE @]

EnterFunction(st) ==
  [st EXCEPT !.depth = @ + 1,
             !.next[st.depth + 1] = 0,
             !.peak[st.depth + 1] = 0]

ExitFunction(st) == [st EXCEPT !.depth = @ - 1]

(* The position of the innermost variable called x, 0 when there is none.  *)
Innermost(st, x) ==
  LET P == {i \in 1 .. Len(st.items) : st.items[i].name = x}
  IN  IF P = {} THEN 0 ELSE Max(P)

(* symtab_declare: in the same scope a second declaration is the same      *)
(* variable; otherwise a local takes the next offset of its function and a *)
(* global the next slot of the program.                                    *)
InScope(st, x) == Innermost(st, x) > st.starts[Len(st.starts)]

DeclareWithoutPeak(st, x) ==     \* a mutant of Declare
  LET d == st.depth
      new(slot) == Append(st.items, [name |-> x, slot |-> slot, depth |-> d, boxed |-> FALSE])
  IN  CASE InScope(st, x) -> st
        [] ~ InScope(st, x) /\ d = 0 ->
             [st EXCEPT !.items = new(st.nextg), !.nextg = @ + 1]
        [] ~ InScope(st, x) /\ d > 0 ->
             [st EXCEPT !.items = new(st.next[d]), !.next[d] = @ + 1]

Declare(st, x) ==
  LET d == st.depth
      new(slot) == Append(st.items, [name |-> x, slot |-> slot, depth |-> d, boxed |-> FALSE])
  IN  CASE InScope(st, x) -> st
        [] ~ InScope(st, x) /\ d = 0 ->
             [st EXCEPT !.items = new(st.nextg), !.nextg = @ + 1]
        [] ~ InScope(st, x) /\ d > 0 ->
             [st EXCEPT !.items = new(st.next[d]),
                        !.next[d] = @ + 1,
                        !.peak[d] = IF st.next[d] + 1 > @ THEN st.next[d] + 1 ELSE @]

MarkBoxed(st, x) ==
  IF Innermost(st, x) = 0 THEN st ELSE [st EXCEPT !.items[Innermost(st, x)].boxed = TRUE]

Missing == [name |-> "", slot |-> -1, depth |-> 0, boxed |-> FALSE]

Lookup(st, x) == IF Innermost(st, x) = 0 THEN Missing ELSE st.items[Innermost(st, x)]
-------------------------------------------------------------------------------
(* The captures of the function at each depth: where the enclosing         *)
(* function finds the box of each captured variable.                       *)

NoCaptures == [d \in Depths |-> <<>>]

CaptureOf(ups, d, x) ==
  LET P == {i \in 1 .. Len(ups[d]) : ups[d][i].name = x}
  IN  IF P = {} THEN 0 ELSE Min(P)

Register(ups, d, x, from, index) ==
  IF CaptureOf(ups, d, x) > 0
  THEN [ups |-> ups, index |-> CaptureOf(ups, d, x) - 1]
  ELSE [ups   |-> [ups EXCEPT ![d] = Append(@, [name |-> x, from |-> from, index |-> index])],
        index |-> Len(ups[d])]

(* resolve_upvalue: a variable of the function at depth home, used at the  *)
(* depth here, becomes a capture of every function in between.             *)
ResolveNotChained(ups, x, home, slot, here) ==     \* a mutant: every link a local
  LET R[d \in home .. here] ==
        IF d = home
        THEN [ups |-> ups, index |-> slot]
        ELSE Register(R[d - 1].ups, d, x, "local", R[d - 1].index)
  IN  R[here]

ResolveUpvalue(ups, x, home, slot, here) ==
  LET R[d \in home .. here] ==
        IF d = home
        THEN [ups |-> ups, index |-> slot]
        ELSE Register(R[d - 1].ups, d, x,
                      IF d = home + 1 THEN "local" ELSE "upval", R[d - 1].index)
  IN  R[here]
===============================================================================
