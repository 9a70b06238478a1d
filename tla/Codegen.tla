-------------------------------- MODULE Codegen --------------------------------
(***************************************************************************)
(* The bytecode generator (codegen.c) as an operator from a tree to code.  *)
(*                                                                         *)
(* The static variables of the file and the buffer it writes to are one    *)
(* record g, threaded through the generator in the order in which the code *)
(* calls itself: two nested functions share the loop stack and the label   *)
(* counter, a closure's code is queued and its captures are only known     *)
(* when its body is done.  A semantic error clears g.ok.                   *)
(*                                                                         *)
(* Labels are resolved at once (Resolve); how they get through the         *)
(* assembler and the linker is the subject of Build.                       *)
(***************************************************************************)
EXTENDS Syntax, SymbolTable, Instructions, Calclib

NoBody == Block(<<>>)

Start(defs) ==
  [st |-> NewTable, ups |-> NoCaptures, body |-> NoBody, loops |-> <<>>,
   labels |-> 0, closures |-> 0, pending |-> <<>>, out |-> <<>>, ok |-> TRUE,
   strings |-> <<>>, trampolines |-> <<>>,
   arity |-> [f \in {defs[i].name : i \in DOMAIN defs} |->
                Len(defs[CHOOSE i \in DOMAIN defs : defs[i].name = f].params)]]

Emit(g, is) == [g EXCEPT !.out = @ \o is]
Refuse(g) == [g EXCEPT !.ok = FALSE]
IsFn(g, x) == x \in DOMAIN g.arity
-------------------------------------------------------------------------------
(* contains_var_use looks for a name below a node, captured_in_inner_fn    *)
(* only below its closures.  A called name is not looked at by either.     *)
RECURSIVE ContainsVarUse(_, _), Captured(_, _)

ContainsVarUse(n, x) ==
  \/ n.kind \in {"var", "assign"} /\ n.name = x
  \/ \E i \in DOMAIN Children(n) : ContainsVarUse(Children(n)[i], x)

Captured(n, x) ==
  IF n.kind = "fn"
  THEN ContainsVarUse(n.body, x)
  ELSE \E i \in DOMAIN Children(n) : Captured(Children(n)[i], x)

(* emit_load, and the box of a variable in emit_store_boxed.               *)
BoxRead == <<OpN(0), Op("INDEX_GET")>>

LoadCapture(g, sym, x) ==
  LET r == ResolveUpvalue(g.ups, x, sym.depth, sym.slot, g.st.depth)
  IN  Emit([g EXCEPT !.ups = r.ups], <<OpI("LOAD_UPVAL", r.index)>>)

EmitLoad(g, sym, x) ==
  CASE sym.depth = 0 -> Emit(g, <<OpI("LOAD", sym.slot)>>)
    [] sym.depth > 0 /\ sym.depth = g.st.depth ->
         Emit(g, <<OpI("LOAD_LOCAL", sym.slot)>> \o (IF sym.boxed THEN BoxRead ELSE <<>>))
    [] sym.depth > 0 /\ sym.depth # g.st.depth -> Emit(LoadCapture(g, sym, x), BoxRead)

EmitStore(g, sym) ==
  CASE sym.depth = 0 -> Emit(g, <<OpI("STORE", sym.slot)>>)
    [] sym.depth > 0 /\ sym.depth = g.st.depth /\ ~ sym.boxed ->
         Emit(g, <<OpI("STORE_LOCAL", sym.slot)>>)
    [] OTHER -> Refuse(g)

BoxOf(g, sym, x) ==
  IF sym.depth = g.st.depth
  THEN Emit(g, <<OpI("LOAD_LOCAL", sym.slot)>>)
  ELSE LoadCapture(g, sym, x)
-------------------------------------------------------------------------------
(* Functions: parameters are declared in a scope of their own, and the     *)
(* ones some inner closure mentions are put in boxes when the body begins. *)
RECURSIVE GenExpr(_, _), GenExprs(_, _), GenStmt(_, _), GenStmts(_, _)

(* A semantic error ends the compilation.                                  *)
GenExprs(ns, g) ==
  IF ns = <<>> \/ ~ g.ok THEN g ELSE GenExprs(Tail(ns), GenExpr(Head(ns), g))

GenStmts(ns, g) ==
  IF ns = <<>> \/ ~ g.ok THEN g ELSE GenStmts(Tail(ns), GenStmt(Head(ns), g))

EnterBody(f, g) ==
  LET st == PushScope(EnterFunction(g.st))
      param(t, x) == IF Captured(f.body, x) THEN MarkBoxed(Declare(t, x), x) ELSE Declare(t, x)
  IN  [g EXCEPT !.ups[st.depth] = <<>>,
                !.body = f.body,
                !.out = <<>>,
                !.st = FoldLeft(param, st, f.params)]

ParamsUnboxed(f) == <<>>     \* a mutant of BoxParams

BoxParams(f) == FlattenSeq([k \in 1 .. Len(f.params) |->
  IF Captured(f.body, f.params[k])
  THEN <<OpI("LOAD_LOCAL", k - 1), OpI("NEW_ARRAY", 1), OpI("STORE_LOCAL", k - 1)>>
  ELSE <<>>])

(* The whole code of function f at label l; g.out is left as it was.       *)
GenBody(f, l, g) ==
  LET b == GenStmt(f.body, EnterBody(f, g))
      extra == b.st.peak[b.st.depth] - Len(f.params)
  IN  [code |-> <<Label(l)>> \o (IF extra > 0 THEN <<OpI("ENTER", extra)>> ELSE <<>>)
                 \o BoxParams(f) \o b.out \o <<OpN(0), Op("RET")>>,
       captures |-> b.ups[b.st.depth],
       g |-> [b EXCEPT !.st = ExitFunction(PopScope(b.st)), !.out = g.out, !.body = g.body]]

GenClosure(f, g) ==
  LET l == ClosureLabel(g.closures)
      b == GenBody(f, l, [g EXCEPT !.closures = @ + 1])
      source(c) == OpI(IF c.from = "local" THEN "LOAD_LOCAL" ELSE "LOAD_UPVAL", c.index)
  IN  Emit([b.g EXCEPT !.pending = Append(@, b.code)],
           [k \in 1 .. Len(b.captures) |-> source(b.captures[k])]
             \o <<OpL("MAKE_CLOSURE", l, 0, Len(b.captures))>>)

(* A name that is called: a library function, a named function, or a       *)
(* variable that holds one.                                                *)
GenCall(n, g) ==
  LET a   == GenExprs(n.args, g)
      sym == Lookup(g.st, n.name)
      k   == Len(n.args)
  IN  CASE IsBuiltin(n.name) /\ Arity(n.name) = k -> Emit(a, <<OpI("BUILTIN", IdOf(n.name))>>)
        [] ~ IsBuiltin(n.name) /\ IsFn(g, n.name) /\ g.arity[n.name] = k ->
             Emit(a, <<OpL("CALL", FnLabel(n.name), 0, k)>>)
        [] ~ IsBuiltin(n.name) /\ ~ IsFn(g, n.name) /\ sym.slot >= 0 ->
             Emit(EmitLoad(a, sym, n.name), <<OpI("CALL_VAL", k)>>)
        [] OTHER -> Refuse(g)

(* A library function that is a value goes through a trampoline, one for   *)
(* all uses.                                                               *)
NeedTrampoline(g, f) ==
  IF Contains(g.trampolines, f) THEN g ELSE [g EXCEPT !.trampolines = Append(@, f)]

GenVar(x, g) ==
  LET sym == Lookup(g.st, x) IN
  CASE sym.slot >= 0              -> EmitLoad(g, sym, x)
    [] sym.slot < 0 /\ IsFn(g, x) -> Emit(g, <<OpL("PUSH_FN", FnLabel(x), 0, 0)>>)
    [] sym.slot < 0 /\ ~ IsFn(g, x) /\ IsBuiltin(x) ->
         Emit(NeedTrampoline(g, x), <<OpL("PUSH_FN", BuiltinLabel(x), 0, 0)>>)
    [] OTHER                      -> Refuse(g)

(* Equal string literals share one entry of the program's pool.            *)
GenText(s, g) ==
  LET pool == IF Contains(g.strings, s) THEN g.strings ELSE Append(g.strings, s)
  IN  Emit([g EXCEPT !.strings = pool], <<OpI("PUSH_STR", SelectInSeq(pool, LAMBDA t : t = s) - 1)>>)

GenExpr(n, g) ==
  CASE n.kind = "num"   -> Emit(g, <<OpN(n.val)>>)
    [] n.kind = "text"  -> GenText(n.val, g)
    [] n.kind = "var"   -> GenVar(n.name, g)
    [] n.kind \in {"un", "bin"} -> Emit(GenExprs(Children(n), g), <<Op(n.op)>>)
    [] n.kind = "call"  -> GenCall(n, g)
    [] n.kind = "apply" -> Emit(GenExprs(Children(n), g), <<OpI("CALL_VAL", Len(n.args))>>)
    [] n.kind = "arr"   -> Emit(GenExprs(n.args, g), <<OpI("NEW_ARRAY", Len(n.args))>>)
    [] n.kind = "map"   -> Emit(GenExprs(n.args, g), <<OpI("NEW_MAP", Len(n.args) \div 2)>>)
    [] n.kind = "index" -> Emit(GenExprs(Children(n), g), <<Op("INDEX_GET")>>)
    [] n.kind = "fn"    -> GenClosure(n, g)
-------------------------------------------------------------------------------
(* Statements.                                                             *)
GenLet(n, g) ==
  LET a   == GenExpr(n.expr, g)
      b   == [a EXCEPT !.st = Declare(@, n.name)]
      sym == Lookup(b.st, n.name)
  IN  CASE sym.depth = 0 /\ IsFn(g, n.name) -> Refuse(g)
        [] sym.depth > 0 /\ Captured(b.body, n.name) ->
             Emit([b EXCEPT !.st = MarkBoxed(@, n.name)],
                  <<OpI("NEW_ARRAY", 1), OpI("STORE_LOCAL", sym.slot)>>)
        [] OTHER -> EmitStore(b, sym)

GenAssign(n, g) ==
  LET sym == Lookup(g.st, n.name) IN
  CASE sym.slot < 0 -> Refuse(g)
    [] sym.slot >= 0 /\ (sym.boxed \/ sym.depth \notin {0, g.st.depth}) ->
         Emit(GenExpr(n.expr, Emit(BoxOf(g, sym, n.name), <<OpN(0)>>)), <<Op("INDEX_SET")>>)
    [] OTHER -> EmitStore(GenExpr(n.expr, g), sym)

NewLabels(g, k) == [g EXCEPT !.labels = @ + k]

Jump(op, l) == <<OpL(op, l, 0, 0)>>

GenIf(n, g) ==
  LET else == LoopLabel(g.labels)
      end  == LoopLabel(g.labels + 1)
      c    == GenExpr(n.cond, NewLabels(g, 2))
  IN  IF n.kind = "if"
      THEN Emit(GenStmt(n.then, Emit(c, Jump("JZ", end))), <<Label(end)>>)
      ELSE LET t == GenStmt(n.then, Emit(c, Jump("JZ", else)))
           IN  Emit(GenStmt(n.else, Emit(t, Jump("JMP", end) \o <<Label(else)>>)), <<Label(end)>>)

(* A loop body runs with its two labels on top of the loop stack.          *)
LoopBody(n, g, continue, break) ==
  LET b == GenStmt(n.body, [g EXCEPT !.loops = Append(@, [continue |-> continue, break |-> break])])
  IN  [b EXCEPT !.loops = Front1(@)]

WhileEndsLate(n, g) ==     \* a mutant of GenWhile: its end comes before the jump back
  LET start == LoopLabel(g.labels)
      end   == LoopLabel(g.labels + 1)
      c     == GenExpr(n.cond, Emit(NewLabels(g, 2), <<Label(start)>>))
      b     == LoopBody(n, Emit(c, Jump("JZ", end)), start, end)
  IN  Emit(b, <<Label(end)>> \o Jump("JMP", start))

GenWhile(n, g) ==
  LET start == LoopLabel(g.labels)
      end   == LoopLabel(g.labels + 1)
      c     == GenExpr(n.cond, Emit(NewLabels(g, 2), <<Label(start)>>))
      b     == LoopBody(n, Emit(c, Jump("JZ", end)), start, end)
  IN  Emit(b, Jump("JMP", start) \o <<Label(end)>>)

GenFor(n, g) ==
  LET start == LoopLabel(g.labels)
      step  == LoopLabel(g.labels + 1)
      end   == LoopLabel(g.labels + 2)
      i     == Emit(GenStmt(n.init, [NewLabels(g, 3) EXCEPT !.st = PushScope(@)]), <<Label(start)>>)
      c     == IF IsThere(n.cond) THEN Emit(GenExpr(n.cond, i), Jump("JZ", end)) ELSE i
      b     == LoopBody(n, c, step, end)
      s     == GenStmt(n.step, Emit(b, <<Label(step)>>))
  IN  [Emit(s, Jump("JMP", start) \o <<Label(end)>>) EXCEPT !.st = PopScope(@)]

GenLeave(g, to) ==
  IF g.loops = <<>> THEN Refuse(g) ELSE Emit(g, Jump("JMP", Last(g.loops)[to]))

GenBlock(n, g) ==
  [GenStmts(n.stmts, [g EXCEPT !.st = PushScope(@)]) EXCEPT !.st = PopScope(@)]

OpIndexOnce(n, g) ==       \* a mutant of GenOpIndex: array and index are not kept
  LET a == Emit(GenExprs(<<n.target, n.at>>, g), <<Op("INDEX_GET")>>)
  IN  Emit(GenExpr(n.expr, a), <<Op(n.op), Op("INDEX_SET")>>)

GenOpIndex(n, g) ==
  LET a == Emit(GenExprs(<<n.target, n.at>>, g), <<Op("DUP2"), Op("INDEX_GET")>>)
  IN  Emit(GenExpr(n.expr, a), <<Op(n.op), Op("INDEX_SET")>>)

GenStmt(n, g) ==
  CASE n.kind = "let"      -> GenLet(n, g)
    [] n.kind = "assign"   -> GenAssign(n, g)
    [] n.kind = "print"    -> Emit(GenExpr(n.expr, g), <<Op("PRINT")>>)
    [] n.kind \in {"if", "ifelse"} -> GenIf(n, g)
    [] n.kind = "while"    -> GenWhile(n, g)
    [] n.kind = "for"      -> GenFor(n, g)
    [] n.kind \in {"break", "continue"} -> GenLeave(g, n.kind)
    [] n.kind = "block"    -> GenBlock(n, g)
    [] n.kind = "return"   -> Emit(IF IsThere(n.expr) THEN GenExpr(n.expr, g) ELSE Emit(g, <<OpN(0)>>), <<Op("RET")>>)
    [] n.kind = "set"      -> Emit(GenExprs(Children(n), g), <<Op("INDEX_SET")>>)
    [] n.kind = "opset"    -> GenOpIndex(n, g)
    [] n.kind \in {"call", "apply"} -> Emit(GenExpr(n, g), <<Op("DROP")>>)
    [] n.kind = "nothing"  -> g
    [] OTHER               -> Refuse(g)
-------------------------------------------------------------------------------
(* codegen_program: the statements, the functions, the queued closures and *)
(* trampolines.  No function may have the name of a library function.      *)
GenFunctions(fs, g) ==
  FoldLeft(LAMBDA a, f : LET b == GenBody(f, FnLabel(f.name), a) IN Emit(b.g, b.code), g, fs)

Trampoline(f) ==
  <<Label(BuiltinLabel(f))>> \o [k \in 1 .. Arity(f) |-> OpI("LOAD_LOCAL", k - 1)]
    \o <<OpI("BUILTIN", IdOf(f)), Op("RET")>>

CodegenProgram(p) ==
  LET g == GenFunctions(p.fns, Emit(GenStmts(p.main, Start(p.fns)), <<Op("HALT")>>))
      whole == Emit(g, FlattenSeq(g.pending) \o FlattenSeq([k \in DOMAIN g.trampolines |-> Trampoline(g.trampolines[k])]))
  IN  IF \E f \in DOMAIN g.arity : IsBuiltin(f) THEN Refuse(whole) ELSE whole
===============================================================================
