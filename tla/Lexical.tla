-------------------------------- MODULE Lexical --------------------------------
(***************************************************************************)
(* What a program means, with no stack, no slots and no boxes: a           *)
(* definitional interpreter of the trees of Syntax that follows the        *)
(* README's scoping rules (README.md, 161-189).  A variable is a cell; a   *)
(* scope maps names to cells; a function value keeps the scope it was made *)
(* in.  The code generator and the machine are compared with it.           *)
(*                                                                         *)
(* The state s of a run: env (names to cells), own (the names declared in  *)
(* the innermost scope), the cells, the arrays, maps and functions made so *)
(* far, what was printed, the value of the last expression, and how the    *)
(* last statement ended: "next", "break", "continue", "return", "throw" or *)
(* "fault".                                                                *)
(***************************************************************************)
EXTENDS Syntax, Library

Zero == Number(0)

Begin(defs) ==
  [env |-> <<>>, own |-> {}, cells |-> <<>>, arrays |-> <<>>, maps |-> <<>>, fns |-> <<>>,
   out |-> <<>>, val |-> Zero, end |-> "next",
   named |-> [f \in {defs[i].name : i \in DOMAIN defs} |->
                defs[CHOOSE i \in DOMAIN defs : defs[i].name = f]]]

Fault(s)   == [s EXCEPT !.end = "fault"]
Gives(s, v) == [s EXCEPT !.val = v]

(* A fault ends the program, an exception goes to the next handler.        *)
Stopped(s) == s.end \in {"fault", "throw"}

IsTrue(s, v) ==
  \/ v.tag = "num" /\ v.v # 0
  \/ v.tag = "str" /\ v.text # <<>>
  \/ v.tag = "arr" /\ s.arrays[v.v] # <<>>
  \/ v.tag = "map" /\ s.maps[v.v] # <<>>
  \/ v.tag = "fn"

(* A declaration in a scope that has the name already assigns to it.       *)
Bind(s, x, v) ==
  IF x \in s.own
  THEN [s EXCEPT !.cells[s.env[x]] = v]
  ELSE [s EXCEPT !.cells = Append(@, v),
                 !.own = @ \cup {x},
                 !.env = [y \in DOMAIN @ \cup {x} |-> IF y = x THEN Len(s.cells) + 1 ELSE @[y]]]

Leave(s, t) == [t EXCEPT !.env = s.env, !.own = s.own]

RECURSIVE Eval(_, _), EvalAll(_, _, _), Do(_, _), InOrder(_, _), DoLoop(_, _, _), Construct(_, _)

(* The values of expressions from left to right, after vals.              *)
EvalAll(es, s, vals) ==
  IF es = <<>> \/ Stopped(s)
  THEN [s |-> s, vals |-> vals]
  ELSE LET r == Eval(Head(es), s) IN EvalAll(Tail(es), r, Append(vals, r.val))

(* A call: the parameters in a scope over the function's own.              *)
Invoke(s, f, env, vs) ==
  IF Len(vs) # Len(f.params)
  THEN Fault(s)
  ELSE LET p == FoldLeft(LAMBDA a, k : Bind(a, f.params[k], vs[k]),
                         [s EXCEPT !.env = env, !.own = {}],
                         [k \in 1 .. Len(vs) |-> k])
           r == IF IsClass(f) THEN Construct(f, p) ELSE Do(f.body, p)
           t == Leave(s, r)
       IN  CASE Stopped(r)       -> t
             [] r.end = "return" -> [t EXCEPT !.end = "next"]
             [] OTHER            -> Gives([t EXCEPT !.end = "next"], Zero)

NewFn(s, f, env) ==
  Gives([s EXCEPT !.fns = Append(@, [fn |-> f, env |-> env])], FnAt(Len(s.fns) + 1))

CallValue(s, v, vs) ==
  IF v.tag = "fn" THEN Invoke(s, s.fns[v.v].fn, s.fns[v.v].env, vs) ELSE Fault(s)

(* Operators (README.md, 155-160).  Arrays, maps and functions are equal   *)
(* only to themselves, and a named function to itself.                     *)
Same(s, a, b) ==
  \/ a = b
  \/ /\ a.tag = "fn" /\ b.tag = "fn"
     /\ s.fns[a.v] = s.fns[b.v] /\ s.fns[a.v].env = <<>>

Binary(s, op, a, b) ==
  LET numbers == a.tag = "num" /\ b.tag = "num"
      texts   == a.tag = "str" /\ b.tag = "str"
      less(x, y) == IF numbers THEN x.v < y.v ELSE Before(x.text, y.text)
      gives(n) == Gives(s, Number(n))
  IN  CASE op = "EQ"  -> gives(Flag(Same(s, a, b)))
        [] op = "NEQ" -> gives(Flag(~ Same(s, a, b)))
        [] op = "ADD" /\ numbers -> gives(a.v + b.v)
        [] op = "ADD" /\ ~ numbers /\ IsKey(a) /\ IsKey(b) ->
             Gives(s, TextOf(AsText(a) \o AsText(b)))
        [] op = "LT" /\ (numbers \/ texts) -> gives(Flag(less(a, b)))
        [] op = "GT" /\ (numbers \/ texts) -> gives(Flag(less(b, a)))
        [] op = "LE" /\ (numbers \/ texts) -> gives(Flag(~ less(b, a)))
        [] op = "GE" /\ (numbers \/ texts) -> gives(Flag(~ less(a, b)))
        [] op = "SUB" /\ numbers -> gives(a.v - b.v)
        [] op = "MUL" /\ numbers -> gives(a.v * b.v)
        [] op = "MOD" /\ numbers /\ b.v # 0 -> gives(Fmod(a.v, b.v))
        [] OTHER -> Fault(s)

(* Elements.  A map is a sequence of entries, in the order they came.      *)
KeyAt(m, k) == {j \in DOMAIN m : m[j].key = k}

HasElement(s, t, k) ==
  \/ t.tag = "arr" /\ k.tag = "num" /\ k.v \in 0 .. Len(s.arrays[t.v]) - 1
  \/ t.tag = "map" /\ KeyAt(s.maps[t.v], k) # {}

Element(s, t, k) ==
  IF t.tag = "arr"
  THEN s.arrays[t.v][k.v + 1]
  ELSE s.maps[t.v][CHOOSE j \in KeyAt(s.maps[t.v], k) : TRUE].value

Entered(m, k, v) ==
  IF KeyAt(m, k) = {}
  THEN Append(m, [key |-> k, value |-> v])
  ELSE [j \in DOMAIN m |-> IF m[j].key = k THEN [m[j] EXCEPT !.value = v] ELSE m[j]]

CanSet(s, t, k) ==
  \/ t.tag = "arr" /\ HasElement(s, t, k)
  \/ t.tag = "map" /\ IsKey(k)

SetElement(s, t, k, v) ==
  IF t.tag = "arr"
  THEN [s EXCEPT !.arrays[t.v][k.v + 1] = v]
  ELSE [s EXCEPT !.maps[t.v] = Entered(@, k, v)]

NewMap(s, vs) ==
  LET keys == {vs[2 * j - 1] : j \in 1 .. Len(vs) \div 2}
      all  == FoldLeft(LAMBDA m, j : Entered(m, vs[2 * j - 1], vs[2 * j]), <<>>,
                       [j \in 1 .. Len(vs) \div 2 |-> j])
  IN  IF \A k \in keys : IsKey(k)
      THEN Gives([s EXCEPT !.maps = Append(@, all)], MapAt(Len(s.maps) + 1))
      ELSE Fault(s)

(* A class that is called: an instance is a map with a closure for each    *)
(* method, in a scope that has the instance as "this"; init completes it.  *)
Construct(c, s) ==
  LET instance == MapAt(Len(s.maps) + 1)
      method(t, m) == LET f == NewFn(t, m, t.env)
                      IN  SetElement(f, instance, TextOf(Letters[m.name]), f.val)
      begun == Bind([s EXCEPT !.maps = Append(@, <<>>)], "this", instance)
      r     == InOrder(c.body.stmts, FoldLeft(method, begun, c.methods))
  IN  IF Stopped(r) THEN r ELSE Gives([r EXCEPT !.end = "return"], instance)

(* A call of a library function (Library), and one as a value.             *)
Sought(s, f, xs) ==
  LET here == CASE f \in {"array_find", "array_contains"} ->
                     {k \in DOMAIN s.arrays[xs[1].v] : Same(s, s.arrays[xs[1].v][k], xs[2])}
                [] f \in {"has_key", "del"} -> KeyAt(s.maps[xs[1].v], xs[2])
                [] OTHER -> {}
  IN  IF here = {} THEN 0 ELSE Min(here)

CallBuiltin(s, f, xs) ==
  IF ~ Promised(f, xs, s.arrays) THEN Fault(s)
  ELSE LET r == Promise(f, xs, s.arrays, s.maps, Sought(s, f, xs))
       IN  [Gives(s, r.val) EXCEPT !.arrays = r.arrays, !.maps = r.maps]

BuiltinFn(f) ==
  LET ps == SubSeq(<<"x1", "x2", "x3">>, 1, Arity(f))
  IN  Fn(ps, Block(<<Return(Call(f, [k \in DOMAIN ps |-> Var(ps[k])]))>>))

(* A node that needs values: evaluate them all, then what it does.         *)
After(es, s, Op(_, _)) ==
  LET a == EvalAll(es, s, <<>>) IN IF Stopped(a.s) THEN a.s ELSE Op(a.s, a.vals)

(* The right operand of && and || only counts when the left leaves it open.*)
Both(n, s) ==
  After(<<n.left>>, s, LAMBDA t, l :
    IF IsTrue(t, l[1]) = (n.op = "OR")
    THEN Gives(t, Number(Flag(n.op = "OR")))
    ELSE After(<<n.right>>, t, LAMBDA u, r : Gives(u, Number(Flag(IsTrue(u, r[1]))))))

Eval(n, s) ==
  IF Stopped(s) THEN s ELSE
  CASE n.kind = "num"  -> Gives(s, Number(n.val))
    [] n.kind = "text" -> Gives(s, TextOf(n.val))
    [] n.kind = "var" ->
         CASE n.name \in DOMAIN s.env -> Gives(s, s.cells[s.env[n.name]])
           [] n.name \notin DOMAIN s.env /\ n.name \in DOMAIN s.named ->
                NewFn(s, s.named[n.name], <<>>)
           [] n.name \notin DOMAIN s.env \cup DOMAIN s.named /\ IsBuiltin(n.name) ->
                NewFn(s, BuiltinFn(n.name), <<>>)
           [] OTHER -> Fault(s)
    [] n.kind = "un" ->
         After(Children(n), s, LAMBDA t, v :
           CASE n.op = "NOT" -> Gives(t, Number(Flag(~ IsTrue(t, v[1]))))
             [] n.op = "NEG" /\ v[1].tag = "num" -> Gives(t, Number(0 - v[1].v))
             [] OTHER -> Fault(t))
    [] n.kind = "bin" /\ n.op \in {"AND", "OR"} -> Both(n, s)
    [] n.kind = "bin" /\ n.op \notin {"AND", "OR"} ->
         After(Children(n), s, LAMBDA t, v : Binary(t, n.op, v[1], v[2]))
    [] n.kind = "call" /\ IsBuiltin(n.name) ->
         After(n.args, s, LAMBDA t, v : CallBuiltin(t, n.name, v))
    [] n.kind = "call" /\ ~ IsBuiltin(n.name) /\ n.name \in DOMAIN s.named ->
         After(n.args, s, LAMBDA t, v : Invoke(t, s.named[n.name], <<>>, v))
    [] n.kind = "call" /\ ~ IsBuiltin(n.name) /\ n.name \notin DOMAIN s.named ->
         After(n.args \o <<Var(n.name)>>, s,
               LAMBDA t, v : CallValue(t, v[Len(v)], SubSeq(v, 1, Len(v) - 1)))
    [] n.kind = "apply" ->
         After(Children(n), s, LAMBDA t, v : CallValue(t, v[Len(v)], SubSeq(v, 1, Len(v) - 1)))
    [] n.kind = "arr" ->
         After(n.args, s, LAMBDA t, v :
           Gives([t EXCEPT !.arrays = Append(@, v)], ArrayAt(Len(t.arrays) + 1)))
    [] n.kind = "map" -> After(n.args, s, LAMBDA t, v : NewMap(t, v))
    [] n.kind = "index" ->
         After(Children(n), s, LAMBDA t, v :
           IF HasElement(t, v[1], v[2]) THEN Gives(t, Element(t, v[1], v[2])) ELSE Fault(t))
    [] n.kind = "fn" -> NewFn(s, n, s.env)

(* A statement that takes one value and goes on.                           *)
With(e, s, Op(_, _)) == After(<<e>>, s, LAMBDA t, v : Op(t, v[1]))

InOrder(ns, s) ==
  IF ns = <<>> \/ s.end # "next" THEN s ELSE InOrder(Tail(ns), Do(Head(ns), s))

Inner(s) == [s EXCEPT !.own = {}]

(* Test, body, step, again; break ends the loop, continue the body.        *)
DoLoop(n, step, s) ==
  With(IF IsThere(n.cond) THEN n.cond ELSE Num(1), s, LAMBDA t, c :
    IF ~ IsTrue(t, c) THEN t ELSE
    LET b == Do(n.body, t) IN
    CASE b.end = "break" -> [b EXCEPT !.end = "next"]
      [] b.end = "return" \/ Stopped(b) -> b
      [] OTHER -> LET u == InOrder(step, [b EXCEPT !.end = "next"])
                  IN  IF Stopped(u) THEN u ELSE DoLoop(n, step, u))

(* The catch block of a try statement sees the exception under its name.   *)
DoTry(n, s) ==
  LET b == Leave(s, Do(n.body, Inner(s)))
  IN  IF b.end # "throw" THEN b
      ELSE Leave(s, Do(n.catch, Bind(Inner([b EXCEPT !.end = "next"]), n.name, b.val)))

(* target[index] op= value: target and index are evaluated once.           *)
DoOpIndex(n, s) ==
  After(<<n.target, n.at>>, s, LAMBDA t, v :
    IF ~ HasElement(t, v[1], v[2]) THEN Fault(t) ELSE
    LET old == Element(t, v[1], v[2]) IN
    With(n.expr, t, LAMBDA u, w :
      LET r == Binary(u, n.op, old, w)
      IN  IF Stopped(r) THEN r ELSE SetElement(r, v[1], v[2], r.val)))

Do(n, s) ==
  IF Stopped(s) THEN s ELSE
  CASE n.kind = "let"    -> With(n.expr, s, LAMBDA t, v : Bind(t, n.name, v))
    [] n.kind = "assign" ->
         IF n.name \notin DOMAIN s.env THEN Fault(s)
         ELSE With(n.expr, s, LAMBDA t, v : [t EXCEPT !.cells[t.env[n.name]] = v])
    [] n.kind = "print"  -> With(n.expr, s, LAMBDA t, v : [t EXCEPT !.out = Append(@, Shown(v))])
    [] n.kind \in {"if", "ifelse"} ->
         With(n.cond, s, LAMBDA t, c :
           CASE IsTrue(t, c)                       -> Do(n.then, t)
             [] ~ IsTrue(t, c) /\ n.kind = "ifelse" -> Do(n.else, t)
             [] OTHER                              -> t)
    [] n.kind = "while"  -> DoLoop(n, <<>>, s)
    [] n.kind = "for"    -> LET i == Do(n.init, Inner(s))
                            IN  IF Stopped(i) THEN i ELSE Leave(s, DoLoop(n, <<n.step>>, i))
    [] n.kind \in {"break", "continue"} -> [s EXCEPT !.end = n.kind]
    [] n.kind = "block"  -> Leave(s, InOrder(n.stmts, Inner(s)))
    [] n.kind = "return" ->
         With(IF IsThere(n.expr) THEN n.expr ELSE Num(0), s, LAMBDA t, v : [t EXCEPT !.end = "return"])
    [] n.kind = "set" ->
         After(Children(n), s, LAMBDA t, v :
           IF CanSet(t, v[1], v[2]) THEN SetElement(t, v[1], v[2], v[3]) ELSE Fault(t))
    [] n.kind = "opset"  -> DoOpIndex(n, s)
    [] n.kind = "try"    -> DoTry(n, s)
    [] n.kind = "throw"  -> With(n.expr, s, LAMBDA t, v : [t EXCEPT !.end = "throw"])
    [] n.kind \in {"call", "apply"} -> Eval(n, s)
    [] n.kind = "nothing" -> s

Meaning(p) == InOrder(p.main, Begin(p.fns))
===============================================================================
