------------------------------- MODULE TypedRun --------------------------------
(***************************************************************************)
(* Runs of programs on the native path as far as the types of values go:   *)
(* a value is its type, a condition is true or false, an element of an     *)
(* array has any of the types of Elements.  Nothing checks a declared type *)
(* (codegen_x64.c emits no check for one).  Beside it stands what          *)
(* type_infer.c noted at every use, from which codegen_x64.c chooses the   *)
(* instructions that trust the type.                                       *)
(*                                                                         *)
(* todo is what is left to run: statements and, behind the statements they *)
(* belong to, marks: where a scope ends, a loop's next round, the end of a *)
(* try body, a call to come back from.  Rounds bounds the rounds of a loop.*)
(* Programs declare a name once in a scope, have blocks for the branches   *)
(* of if and the bodies of loops, and calls only as whole operands.        *)
(***************************************************************************)
EXTENDS TypeInfer

CONSTANTS Programs, Elements, Rounds

VARIABLES
  prog,     \* the program
  notes,    \* what inference gave each use
  todo,     \* the statements and marks that are left
  env,      \* the variables in scope, innermost last: [name, cell]
  cells,    \* the values of the variables
  made,     \* the functions made so far, each with the scope it was made in
  read      \* the uses the last step read, with the type each one had

vars == <<prog, notes, todo, env, cells, made, read>>

Value(t)   == [tag |-> t, fn |-> 0]
Closure(k) == [tag |-> "fn", fn |-> k]
Known(v)   == [kind |-> "known", val |-> v]

Leave(sc)   == [kind |-> "leave", env |-> sc]
Round(l, k) == [kind |-> "round", loop |-> l, left |-> k, env |-> env]
Step(l)     == [kind |-> "step", stmt |-> l.step]
EndTry(t)   == [kind |-> "endtry", try |-> t, env |-> env]
Resume(s)   == [kind |-> "resume", stmt |-> s, env |-> env]

Named(f)   == \E i \in DOMAIN prog.fns : prog.fns[i].name = f
FnNamed(f) == prog.fns[CHOOSE i \in DOMAIN prog.fns : prog.fns[i].name = f]

Has(x)     == Bound(env, x)
CellOf(x)  == env[env_index(env, x)].cell

Now(kinds) == todo # <<>> /\ Head(todo).kind \in kinds
n    == Head(todo)
rest == Tail(todo)

(* The runtime's operators on operands of two types: the type of the       *)
(* result, none where the program dies.                                    *)
cl_op_plus(l, r) ==
  CASE {l, r} = {"num"}                                        -> {"num"}
    [] "str" \in {l, r} /\ {l, r} \subseteq {"num", "str"}     -> {"str"}
    [] "cpx" \in {l, r} /\ {l, r} \subseteq {"num", "cpx"}     -> {"cpx"}
    [] OTHER                                                   -> {}

cl_op_minus(l, r) == cl_op_plus(l, r) \ {"str"}

values_cmp(l, r) == IF {l, r} \in {{"num"}, {"str"}} THEN {"num"} ELSE {}

Applied(op, l, r) ==
  CASE op = "ADD" -> cl_op_plus(l, r)
    [] op = "SUB" -> cl_op_minus(l, r)
    [] op = "LT"  -> values_cmp(l, r)

(* A character of a string, or an element.                                 *)
cl_index_get(t) ==
  CASE t = "str"              -> {"str"}
    [] t \in {"arr", "map"}   -> Elements
    [] OTHER                  -> {}

(* The values an expression can have; none where the program would die.    *)
RECURSIVE Values(_)
Tags(e) == {v.tag : v \in Values(e)}
Values(e) ==
  CASE e.kind \in {"num", "str", "arr"} -> {Value(e.kind)}
    [] e.kind = "known" -> {e.val}
    [] e.kind = "fn"    -> {Closure(Len(made) + 1)}
    [] e.kind = "var" /\ Has(e.name)                    -> {cells[CellOf(e.name)]}
    [] e.kind = "var" /\ ~ Has(e.name) /\ Named(e.name) -> {Value("fn")}
    [] e.kind = "index" -> {Value(t) : t \in UNION {cl_index_get(u) : u \in Tags(e.target)}}
    [] e.kind \in {"set", "opset"} /\ Tags(e.target) \subseteq {"arr", "map"} -> Values(e.expr)
    [] e.kind = "bin" ->
         {Value(t) : t \in UNION {Applied(e.op, l, r) : l \in Tags(e.left), r \in Tags(e.right)}}
    [] OTHER -> {}

(* The uses an expression reads, with the type each one has.               *)
Reads(e) ==
  {<<u.site, cells[CellOf(u.name)].tag>> : u \in {w \in UsesIn(e) : Has(w.name)}}

(* What the head of todo evaluates first.                                  *)
Operand ==
  CASE Now({"let", "assign", "print", "return", "throw"}) -> n.expr
    [] Now({"if", "ifelse"})                              -> n.cond
    [] Now({"round"})                                     -> n.loop.cond
    [] OTHER                                              -> n

IsCall(e) == e.kind \in {"call", "apply"}

(* Of the statements with an operand, one of the kinds is next, its        *)
(* operand has a value and is read.                                        *)
Evaluates(kinds) ==
  /\ Now(kinds) /\ ~ IsCall(Operand) /\ Values(Operand) # {}
  /\ read' = Reads(Operand)
  /\ UNCHANGED <<prog, notes>>

(* One of the kinds is next and reads nothing.                             *)
Moves(kinds) ==
  /\ Now(kinds)
  /\ read' = {}
  /\ UNCHANGED <<prog, notes, made>>

--------------------------------------------------------------------------------
Init ==
  /\ prog \in Programs
  /\ notes = infer_program_types(prog)
  /\ todo = prog.main
  /\ env = <<>> /\ cells = <<>> /\ made = <<>> /\ read = {}

Makes == made' = IF Operand.kind = "fn" THEN Append(made, [fn |-> Operand, env |-> env]) ELSE made

DoLet ==
  /\ Evaluates({"let"})
  /\ \E v \in Values(Operand) : cells' = Append(cells, v)
  /\ env' = Append(env, [name |-> n.name, cell |-> Len(cells) + 1])
  /\ Makes
  /\ todo' = rest

DoAssign ==
  /\ Evaluates({"assign"}) /\ Has(n.name)
  /\ \E v \in Values(Operand) : cells' = [cells EXCEPT ![CellOf(n.name)] = v]
  /\ Makes
  /\ todo' = rest
  /\ UNCHANGED env

(* Printing, or assigning to an element, changes no variable.              *)
DoUse ==
  /\ Evaluates({"print", "set", "opset"})
  /\ todo' = rest
  /\ UNCHANGED <<env, cells, made>>

DoIf ==
  /\ Evaluates({"if", "ifelse"})
  /\ \/ todo' = <<n.then>> \o rest
     \/ todo' = (IF n.kind = "ifelse" THEN <<n.else>> ELSE <<>>) \o rest
  /\ UNCHANGED <<env, cells, made>>

DoBlock ==
  /\ Moves({"block"})
  /\ todo' = n.stmts \o <<Leave(env)>> \o rest
  /\ UNCHANGED <<env, cells>>

(* The end of a block, of a for statement, of a try body that went well.   *)
DoLeave ==
  /\ Moves({"leave", "endtry"})
  /\ env' = n.env
  /\ todo' = rest
  /\ UNCHANGED cells

DoFor ==
  /\ Moves({"for"})
  /\ todo' = <<n.init, [n EXCEPT !.kind = "started"], Leave(env)>> \o rest
  /\ UNCHANGED <<env, cells>>

DoWhile ==
  /\ Moves({"while", "started"})
  /\ todo' = <<Round(n, Rounds)>> \o rest
  /\ UNCHANGED <<env, cells>>

(* The condition, then another round, with its step in a for, or none.     *)
DoRound ==
  /\ Evaluates({"round"})
  /\ \/ todo' = rest
     \/ /\ n.left > 0
        /\ todo' = <<n.loop.body>> \o (IF n.loop.kind = "started" THEN <<Step(n.loop)>> ELSE <<>>)
                   \o <<[n EXCEPT !.left = @ - 1]>> \o rest
  /\ UNCHANGED <<env, cells, made>>

DoStep ==
  /\ Moves({"step"})
  /\ todo' = <<n.stmt>> \o rest
  /\ UNCHANGED <<env, cells>>

(* The first mark of one of the kinds, and what follows it.                *)
MarkAt(kinds) == SelectInSeq(todo, LAMBDA m : m.kind \in kinds)
After(i)      == SubSeq(todo, i + 1, Len(todo))

(* Out of the scopes up to the innermost loop, which ends.                 *)
DoBreak ==
  /\ Moves({"break"})
  /\ LET i == MarkAt({"round"}) IN i # 0 /\ env' = todo[i].env /\ todo' = After(i)
  /\ UNCHANGED cells

(* The same, and the loop goes on with its step or its condition.          *)
DoContinue ==
  /\ Moves({"continue"})
  /\ LET i == MarkAt({"round"}) IN i # 0 /\ env' = todo[i].env
  /\ todo' = After(MarkAt({"round", "step"}) - 1)
  /\ UNCHANGED cells

--------------------------------------------------------------------------------
(* The function a call reaches: a named one before a variable's value.     *)
Holds(v) == IF v.tag = "fn" /\ v.fn # 0 THEN {made[v.fn]} ELSE {}
Callee(c) ==
  CASE c.kind = "call" /\ Named(c.name) -> {[fn |-> FnNamed(c.name), env |-> <<>>]}
    [] c.kind = "call" /\ ~ Named(c.name) /\ Has(c.name) -> Holds(cells[CellOf(c.name)])
    [] c.kind = "apply" -> UNION {Holds(v) : v \in Values(c.callee)}
    [] OTHER -> {}

(* The next statement is a call or waits for one.                          *)
DoCall ==
  /\ Now({"call", "apply", "let", "assign", "print", "return"}) /\ (IsCall(n) \/ IsCall(n.expr))
  /\ LET c == IF IsCall(n) THEN n ELSE n.expr
         vs == [i \in DOMAIN c.args |-> CHOOSE v \in Values(c.args[i]) : TRUE]
     IN  \E f \in Callee(c) :
           /\ Len(vs) = Len(f.fn.params) /\ \A i \in DOMAIN vs : Values(c.args[i]) # {}
           /\ env' = f.env \o [i \in DOMAIN vs |-> [name |-> f.fn.params[i], cell |-> Len(cells) + i]]
           /\ cells' = cells \o vs
           /\ todo' = <<f.fn.body, Resume(n)>> \o rest
           /\ read' = Reads(c)
  /\ UNCHANGED <<prog, notes, made>>

(* Back in the caller, where the value takes the place of the call.        *)
Back(m, v) == IF IsCall(m.stmt) THEN <<>> ELSE <<[m.stmt EXCEPT !.expr = Known(v)]>>

DoReturn ==
  /\ Evaluates({"return"})
  /\ LET i == MarkAt({"resume"}) IN
       /\ i # 0 /\ env' = todo[i].env
       /\ \E v \in Values(Operand) : todo' = Back(todo[i], v) \o After(i)
  /\ Makes
  /\ UNCHANGED cells

FallOff ==
  /\ Moves({"resume"})
  /\ env' = n.env
  /\ todo' = Back(n, Value("num")) \o rest
  /\ UNCHANGED cells

DoTry ==
  /\ Moves({"try"})
  /\ todo' = <<n.body, EndTry(n)>> \o rest
  /\ UNCHANGED <<env, cells>>

(* To the catch block of the innermost try body that runs.                 *)
DoThrow ==
  /\ Evaluates({"throw"})
  /\ LET i == MarkAt({"endtry"}) IN
       /\ i # 0
       /\ \E v \in Values(Operand) : cells' = Append(cells, v)
       /\ env' = Append(todo[i].env, [name |-> todo[i].try.name, cell |-> Len(cells) + 1])
       /\ todo' = <<todo[i].try.catch, Leave(todo[i].env)>> \o After(i)
  /\ UNCHANGED made

(* The operand is read but has no value: the runtime ends the program.     *)
Die ==
  /\ Now({"let", "assign", "print", "return", "throw", "set", "opset", "if", "ifelse", "round"})
  /\ ~ IsCall(Operand) /\ Values(Operand) = {}
  /\ read' = Reads(Operand)
  /\ todo' = <<>>
  /\ UNCHANGED <<prog, notes, env, cells, made>>

Next ==
  \/ DoLet \/ DoAssign \/ DoUse \/ DoIf \/ DoBlock \/ DoLeave
  \/ DoFor \/ DoWhile \/ DoRound \/ DoStep \/ DoBreak \/ DoContinue
  \/ DoCall \/ DoReturn \/ FallOff \/ DoTry \/ DoThrow \/ Die

Spec == Init /\ [][Next]_vars

--------------------------------------------------------------------------------
(* The marks nest, scopes name cells that exist, a note is a type or "any".*)
TypeOK ==
  /\ \A i \in DOMAIN env : env[i].cell \in DOMAIN cells
  /\ \A c \in DOMAIN cells : cells[c].tag \in Types \cup {"cpx"} /\ cells[c].fn \in 0 .. Len(made)
  /\ \A s \in DOMAIN notes : notes[s] \in Types \cup {"any"}

(* README.md, 151: each use of a variable is typed at the program point it *)
(* occurs.  When a use is read its variable holds a value of the type the  *)
(* use was given: on every path, in every round of every loop, whatever a  *)
(* name meant outside.  The instructions codegen_x64.c chooses at the use  *)
(* rely on it (infer_type, 546-550).                                       *)
NotesTrue ==
  \A r \in read : r[1] \in DOMAIN notes => notes[r[1]] \in {r[2], "any"}
===============================================================================
