----------------------------- MODULE NativeCodegen -----------------------------
(***************************************************************************)
(* The native code generator (codegen_x64.c) as an operator from a tree to *)
(* code.  Its state Cg is a record g, threaded through the generator.      *)
(*                                                                         *)
(* An instruction of the model is the few machine instructions the code    *)
(* emits together: a value is left in xmm0, a pushed value takes a slot of *)
(* 16 bytes, offsets from rbp count words of 8.  Arithmetic and indexing   *)
(* call the runtime, as the code does whenever types are not known; what   *)
(* the known types are used for is the subject of TypedRun.                *)
(***************************************************************************)
EXTENDS Syntax, Instructions, Calclib

Start(defs) ==
  [names |-> <<>>, words |-> 1, max |-> 1, boxed |-> {}, loop |-> <<>>,
   labels |-> 0, closures |-> <<>>, strings |-> <<>>, self |-> <<>>, trampolines |-> <<>>, out |-> <<>>, ok |-> TRUE,
   arity |-> [f \in {defs[i].name : i \in DOMAIN defs} |->
                Len(defs[CHOOSE i \in DOMAIN defs : defs[i].name = f].params)]]

MainLabel  == <<"main", 0>>
BodyLabel(l) == <<"body", l>>
RetLabel(l)  == <<"ret", l>>

Emit(g, is) == [g EXCEPT !.out = @ \o is]
Refuse(g) == [g EXCEPT !.ok = FALSE]
IsFn(g, x) == x \in DOMAIN g.arity
Jump(op, l) == <<OpL(op, l, 0, 0)>>
-------------------------------------------------------------------------------
(* Which names of a function are boxed: those some closure in it mentions, *)
(* in any way, also by calling them.                                       *)
RECURSIVE Uses(_, _), Captured(_, _), Lets(_)

Uses(n, x) ==
  \/ n.kind \in {"var", "assign", "call"} /\ n.name = x
  \/ \E i \in DOMAIN Children(n) : Uses(Children(n)[i], x)

Captured(n, x) ==
  IF n.kind = "fn"
  THEN Uses(n.body, x)
  ELSE \E i \in DOMAIN Children(n) : Captured(Children(n)[i], x)

Lets(n) ==
  CASE n.kind = "let"    -> {n.name}
    [] n.kind = "block"  -> UNION {Lets(n.stmts[i]) : i \in DOMAIN n.stmts}
    [] n.kind = "if"     -> Lets(n.then)
    [] n.kind = "ifelse" -> Lets(n.then) \cup Lets(n.else)
    [] n.kind = "while"  -> Lets(n.body)
    [] n.kind = "for"    -> Lets(n.init) \cup Lets(n.body)
    [] n.kind = "try"    -> Lets(n.body) \cup {n.name} \cup Lets(n.catch)
    [] OTHER             -> {}

Boxed(ps, b) == {v \in ToSet(ps) \cup Lets(b) : Captured(b, v)}
-------------------------------------------------------------------------------
(* Names.  A local is a word below rbp, an argument the low word of a slot *)
(* above the return address; a captured parameter is copied to a boxed     *)
(* local that shadows it.                                                  *)
AddLocal(g, x) ==
  LET w == g.words + 1 IN
  [g EXCEPT !.words = w,
            !.max   = IF w > @ THEN w ELSE @,
            !.names = Append(@, [name |-> x, kind |-> IF x \in g.boxed THEN "boxed" ELSE "plain",
                                 at |-> 0 - w])]

NoReturnAddress(g, x, k) ==     \* a mutant of AddParam
  LET raw == [g EXCEPT !.names = Append(@, [name |-> x, kind |-> "plain", at |-> 1 + 2 * k])]
  IN  IF x \in g.boxed THEN AddLocal(raw, x) ELSE raw

BehindCallee(g, x, k) ==     \* a mutant of AddParam
  LET raw == [g EXCEPT !.names = Append(@, [name |-> x, kind |-> "plain", at |-> 4 + 2 * k])]
  IN  IF x \in g.boxed THEN AddLocal(raw, x) ELSE raw

AddParam(g, x, k) ==
  LET raw == [g EXCEPT !.names = Append(@, [name |-> x, kind |-> "plain", at |-> 2 + 2 * k])]
  IN  IF x \in g.boxed THEN AddLocal(raw, x) ELSE raw

AddUpval(g, x, k) == [g EXCEPT !.names = Append(@, [name |-> x, kind |-> "upval", at |-> k])]

Known(g, x) == \E k \in DOMAIN g.names : g.names[k].name = x

LookupName(g, x) == Last(SelectSeq(g.names, LAMBDA e : e.name = x))

(* What a block, a loop or a catch declares is gone behind it.             *)
NamesStay(g, inner) == [inner EXCEPT !.words = g.words]     \* a mutant of Scoped

Scoped(g, inner) == [inner EXCEPT !.names = g.names, !.words = g.words]

Loads  == [plain |-> "LOAD", boxed |-> "LOAD_BOX", upval |-> "LOAD_UPVAL"]
Stores == [plain |-> "STORE", boxed |-> "STORE_BOX", upval |-> "STORE_UPVAL"]

Access(how, e) == OpI(how[e.kind], e.at)

(* A new local gets the value in xmm0.                                     *)
Bind(g, x) ==
  LET b == AddLocal(g, x)
      e == LookupName(b, x)
  IN  Emit(b, <<OpI(IF e.kind = "boxed" THEN "NEW_BOX" ELSE "STORE", e.at)>>)
-------------------------------------------------------------------------------
RECURSIVE GenExpr(_, _), GenPushed(_, _), GenItems(_, _, _), GenStmt(_, _), GenStmts(_, _)

(* Each value pushed when it is there.                                     *)
GenPushed(es, g) ==
  IF es = <<>> \/ ~ g.ok THEN g ELSE GenPushed(Tail(es), Emit(GenExpr(Head(es), g), <<Op("PUSH")>>))

(* Each value followed by what takes it, the codes in turn.                *)
GenItems(es, codes, g) ==
  IF es = <<>> \/ ~ g.ok THEN g
  ELSE GenItems(Tail(es), Tail(codes) \o <<Head(codes)>>, Emit(GenExpr(Head(es), g), <<Head(codes)>>))

GenText(s, g) ==
  LET pool == IF Contains(g.strings, s) THEN g.strings ELSE Append(g.strings, s)
  IN  Emit([g EXCEPT !.strings = pool], <<OpI("TEXT", SelectInSeq(pool, LAMBDA t : t = s))>>)

GenVar(x, g) ==
  CASE Known(g, x)              -> Emit(g, <<Access(Loads, LookupName(g, x))>>)
    [] ~ Known(g, x) /\ IsFn(g, x) -> Emit(g, <<OpL("NEW_FN", FnLabel(x), 0, 0)>>)
    [] ~ Known(g, x) /\ ~ IsFn(g, x) /\ IsBuiltin(x) ->
         Emit([g EXCEPT !.trampolines = IF Contains(@, x) THEN @ ELSE Append(@, x)],
              <<OpL("NEW_FN", BuiltinLabel(x), 0, 0)>>)
    [] OTHER                    -> Refuse(g)

GenBinop(n, g) ==
  LET over == LoopLabel(g.labels)          \* L_false of &&, L_true of ||
      end  == LoopLabel(g.labels + 1)
      leave == Jump(IF n.op = "AND" THEN "JZ" ELSE "JNZ", over)
      left == Emit(GenExpr(n.left, [g EXCEPT !.labels = @ + 2]), leave)
      open == IF n.op = "AND" THEN 1 ELSE 0   \* the result when neither operand decided
  IN  IF n.op \in {"AND", "OR"}
      THEN Emit(GenExpr(n.right, left),
                leave \o <<OpI("IMM", open)>> \o Jump("JMP", end) \o
                <<Label(over), OpI("IMM", 1 - open), Label(end)>>)
      ELSE Emit(GenExpr(n.right, GenPushed(<<n.left>>, g)), <<Op(n.op)>>)

(* The value called is in xmm0 and is pushed under the arguments.          *)
CalleeStays(as, g) ==     \* a mutant of Indirect
  Emit(GenPushed(Reverse(as), Emit(g, <<Op("PUSH")>>)),
       <<OpI("CALL_VALUE", Len(as)), OpI("DROP", Len(as))>>)

Indirect(as, g) ==
  Emit(GenPushed(Reverse(as), Emit(g, <<Op("PUSH")>>)),
       <<OpI("CALL_VALUE", Len(as)), OpI("DROP", Len(as) + 1)>>)

GenCall(n, g) ==
  LET k == Len(n.args) IN
  CASE IsBuiltin(n.name) /\ Arity(n.name) = k ->
         Emit(GenPushed(n.args, g), <<OpI("BUILTIN", IdOf(n.name))>>)
    [] ~ IsBuiltin(n.name) /\ IsFn(g, n.name) /\ g.arity[n.name] = k ->
         Emit(GenPushed(Reverse(n.args), g), Jump("CALL", FnLabel(n.name)) \o <<OpI("DROP", k)>>)
    [] ~ IsBuiltin(n.name) /\ ~ IsFn(g, n.name) /\ Known(g, n.name) -> Indirect(n.args, GenVar(n.name, g))
    [] OTHER -> Refuse(g)

(* A closure captures the names that are in force and that its body        *)
(* mentions; each must be in a box.                                        *)
GenClosure(n, g) ==
  LET l    == ClosureLabel(Len(g.closures))
      used == SelectSeq(g.names, LAMBDA e : e.name \notin ToSet(n.params) /\ Uses(n.body, e.name))
      ups  == FoldLeft(LAMBDA vs, e : IF Contains(vs, e.name) THEN vs ELSE Append(vs, e.name), <<>>, used)
      capture(k) == LET e == LookupName(g, ups[k])
                    IN  Instr(IF e.kind = "boxed" THEN "CAPTURE" ELSE "CAPTURE_UPVAL", e.at, k - 1)
  IN  IF \E k \in DOMAIN ups : LookupName(g, ups[k]).kind = "plain"
      THEN Refuse(g)
      ELSE Emit([g EXCEPT !.closures = Append(@, [fn |-> n, ups |-> ups])],
                <<OpL("NEW_FN", l, 0, Len(ups)), Op("PUSH")>>
                  \o [k \in 1 .. Len(ups) |-> capture(k)] \o <<Op("POP")>>)

GenLiteral(new, es, codes, g) ==
  Emit(GenItems(es, codes, Emit(g, <<Op(new), Op("PUSH")>>)), <<Op("POP")>>)

GenExpr(n, g) ==
  CASE n.kind = "num"   -> Emit(g, <<OpI("IMM", n.val)>>)
    [] n.kind = "text"  -> GenText(n.val, g)
    [] n.kind = "var"   -> GenVar(n.name, g)
    [] n.kind = "un"    -> Emit(GenExpr(n.expr, g), <<Op(n.op)>>)
    [] n.kind = "bin"   -> GenBinop(n, g)
    [] n.kind = "call"  -> GenCall(n, g)
    [] n.kind = "apply" -> Indirect(n.args, GenExpr(n.callee, g))
    [] n.kind = "arr"   -> GenLiteral("NEW_ARR", n.args, <<Op("ARR_PUSH")>>, g)
    [] n.kind = "map"   -> GenLiteral("NEW_MAP", n.args, <<Op("PUSH"), OpI("SET_INDEX", 1)>>, g)
    [] n.kind = "index" -> Emit(GenExpr(n.at, GenPushed(<<n.target>>, g)), <<Op("GET_INDEX")>>)
    [] n.kind = "fn"    -> GenClosure(n, g)
-------------------------------------------------------------------------------
NewLabels(g, k) == [g EXCEPT !.labels = @ + k]

GenLet(n, g) == Bind(GenExpr(n.expr, g), n.name)

GenAssign(n, g) ==
  IF Known(g, n.name)
  THEN Emit(GenExpr(n.expr, g), <<Access(Stores, LookupName(g, n.name))>>)
  ELSE Refuse(g)

GenIf(n, g) ==
  LET else == LoopLabel(g.labels)
      end  == LoopLabel(g.labels + 1)
      c    == Emit(GenExpr(n.cond, NewLabels(g, 2)), Jump("JZ", else))
      t    == Emit(GenStmt(n.then, c), Jump("JMP", end) \o <<Label(else)>>)
  IN  Emit(IF n.kind = "ifelse" THEN GenStmt(n.else, t) ELSE t, <<Label(end)>>)

LoopBody(n, g, continue, break) ==
  [GenStmt(n.body, [g EXCEPT !.loop = <<[continue |-> continue, break |-> break]>>]) EXCEPT !.loop = g.loop]

GenWhile(n, g) ==
  LET top == LoopLabel(g.labels)
      end == LoopLabel(g.labels + 1)
      c   == Emit(GenExpr(n.cond, Emit(NewLabels(g, 2), <<Label(top)>>)), Jump("JZ", end))
  IN  Emit(LoopBody(n, c, top, end), Jump("JMP", top) \o <<Label(end)>>)

ForTest(n, g, end) ==
  IF IsThere(n.cond) THEN Emit(GenExpr(n.cond, g), Jump("JZ", end)) ELSE g

ContinueAtTest(n, g) ==     \* a mutant of GenFor
  LET i    == GenStmt(n.init, g)
      top  == LoopLabel(i.labels)
      end  == LoopLabel(i.labels + 2)
      c    == ForTest(n, Emit(NewLabels(i, 3), <<Label(top)>>), end)
  IN  Scoped(g, Emit(GenStmt(n.step, LoopBody(n, c, top, end)), Jump("JMP", top) \o <<Label(end)>>))

GenFor(n, g) ==
  LET i    == GenStmt(n.init, g)
      top  == LoopLabel(i.labels)
      step == LoopLabel(i.labels + 1)
      end  == LoopLabel(i.labels + 2)
      c    == ForTest(n, Emit(NewLabels(i, 3), <<Label(top)>>), end)
      b    == Emit(LoopBody(n, c, step, end), <<Label(step)>>)
  IN  Scoped(g, Emit(GenStmt(n.step, b), Jump("JMP", top) \o <<Label(end)>>))

GenLeave(g, to) ==
  IF g.loop = <<>> THEN Refuse(g) ELSE Emit(g, Jump("JMP", g.loop[1][to]))

GenBlock(n, g) == Scoped(g, GenStmts(n.stmts, g))

(* A function that returns a call of itself starts again with the new      *)
(* arguments in place of its own, unless some local in force is boxed.     *)
TailCall(e, g) ==
  /\ e.kind = "call" /\ IsFn(g, e.name) /\ FnLabel(e.name) = g.self
  /\ g.arity[e.name] = Len(e.args)
  /\ \A k \in DOMAIN g.names : g.names[k].kind # "boxed"

GenReturn(n, g) ==
  LET k == Len(n.expr.args)
      value == IF IsThere(n.expr) THEN GenExpr(n.expr, g) ELSE Emit(g, <<OpI("IMM", 0)>>)
  IN  IF TailCall(n.expr, g)
      THEN Emit(GenPushed(n.expr.args, g),
                [i \in 1 .. k |-> Instr("MOVE_ARG", k - i, 2 * i)]
                  \o <<OpI("DROP", k)>> \o Jump("JMP", BodyLabel(g.self)))
      ELSE Emit(value, Jump("JMP", RetLabel(g.self)))

(* target[index] op= value: only + asks the runtime, - and * act on the    *)
(* two words whatever they are.                                            *)
GenOpIndex(n, g) ==
  LET old == Emit(GenPushed(<<n.target, n.at>>, g), <<Op("PEEK_INDEX"), Op("PUSH")>>)
      act == CASE n.op = "ADD" -> "ADD" [] n.op = "SUB" -> "SUBSD" [] n.op = "MUL" -> "MULSD"
  IN  Emit(GenExpr(n.expr, old), <<Op(act), OpI("SET_INDEX", 2)>>)

HandlerStays(n, g) ==     \* a mutant of GenTry
  LET catch == LoopLabel(g.labels)
      end   == LoopLabel(g.labels + 1)
      b     == Scoped(g, GenStmt(n.body, Emit(NewLabels(g, 2), Jump("TRY", catch))))
      c     == Emit(b, Jump("JMP", end) \o <<Label(catch), Op("EXCEPTION")>>)
  IN  Emit(Scoped(c, GenStmt(n.catch, Bind(c, n.name))), <<Label(end)>>)

GenTry(n, g) ==
  LET catch == LoopLabel(g.labels)
      end   == LoopLabel(g.labels + 1)
      b     == Scoped(g, GenStmt(n.body, Emit(NewLabels(g, 2), Jump("TRY", catch))))
      c     == Emit(b, <<Op("UNTRY")>> \o Jump("JMP", end) \o <<Label(catch), Op("EXCEPTION")>>)
  IN  Emit(Scoped(c, GenStmt(n.catch, Bind(c, n.name))), <<Label(end)>>)

GenStmts(ns, g) ==
  IF ns = <<>> \/ ~ g.ok THEN g ELSE GenStmts(Tail(ns), GenStmt(Head(ns), g))

GenStmt(n, g) ==
  CASE n.kind = "let"      -> GenLet(n, g)
    [] n.kind = "assign"   -> GenAssign(n, g)
    [] n.kind = "print"    -> Emit(GenExpr(n.expr, g), <<Op("PRINT")>>)
    [] n.kind \in {"if", "ifelse"} -> GenIf(n, g)
    [] n.kind = "while"    -> GenWhile(n, g)
    [] n.kind = "for"      -> GenFor(n, g)
    [] n.kind \in {"break", "continue"} -> GenLeave(g, n.kind)
    [] n.kind = "block"    -> GenBlock(n, g)
    [] n.kind = "return"   -> GenReturn(n, g)
    [] n.kind = "set"      -> Emit(GenExpr(n.expr, GenPushed(<<n.target, n.at>>, g)), <<OpI("SET_INDEX", 2)>>)
    [] n.kind = "opset"    -> GenOpIndex(n, g)
    [] n.kind = "throw"    -> Emit(GenExpr(n.expr, g), <<Op("THROW")>>)
    [] n.kind = "try"      -> GenTry(n, g)
    [] n.kind \in {"call", "apply"} -> GenExpr(n, g)
    [] n.kind = "nothing"  -> g
    [] OTHER               -> Refuse(g)
-------------------------------------------------------------------------------
(* The frame: the saved closure pointer and the locals, in whole pairs of  *)
(* words, so that rsp stays a multiple of 16.                              *)
FrameAsNeeded(g) == g.max     \* a mutant of FrameWords

FrameWords(g) == 2 * ((g.max + 1) \div 2)

(* A function, a closure with its captured names, or main, at label l.     *)
GenBody(l, ups, ps, stmts, g) ==
  LET fresh  == [Start(<<>>) EXCEPT !.labels = g.labels, !.closures = g.closures, !.strings = g.strings, !.trampolines = g.trampolines,
                                    !.arity = g.arity, !.self = l, !.boxed = Boxed(ps, Block(stmts))]
      captured == FoldLeft(LAMBDA a, k : AddUpval(a, ups[k], k - 1), fresh, [k \in 1 .. Len(ups) |-> k])
      params == FoldLeft(LAMBDA a, k : AddParam(a, ps[k], k - 1), captured, [k \in 1 .. Len(ps) |-> k])
      kept   == SelectSeq([k \in 1 .. Len(ps) |-> k], LAMBDA k : ps[k] \in fresh.boxed)
      b      == GenStmts(stmts,
                  Emit(params, [k \in 1 .. Len(kept) |->
                                  Instr("BOX_ARG", LookupName(params, ps[kept[k]]).at, 2 * kept[k])]
                               \o <<Label(BodyLabel(l))>>))
  IN  [b EXCEPT !.out = g.out \o <<Label(l), OpI("ENTER", FrameWords(b))>> \o @
                          \o <<OpI("IMM", 0), Label(RetLabel(l)), Op("RET")>>]

GenFunctions(fs, g) ==
  FoldLeft(LAMBDA a, f : GenBody(FnLabel(f.name), <<>>, f.params, f.body.stmts, a), g, fs)

(* Emitting one closure may register others.                               *)
RECURSIVE GenClosures(_, _)
GenClosures(k, g) ==
  IF k >= Len(g.closures) \/ ~ g.ok THEN g
  ELSE LET c == g.closures[k + 1]
       IN  GenClosures(k + 1, GenBody(ClosureLabel(k), c.ups, c.fn.params, c.fn.body.stmts, g))

Trampolines(fs) ==
  FoldLeft(LAMBDA is, f : is \o <<Label(BuiltinLabel(f)), OpI("TRAMPOLINE", IdOf(f))>>, <<>>, fs)

CodegenX64Program(p) ==
  LET g == GenClosures(0, GenBody(MainLabel, <<>>, <<>>, p.main, GenFunctions(p.fns, Start(p.fns))))
  IN  Emit(g, Trampolines(g.trampolines))
================================================================================
