-------------------------------- MODULE Syntax ---------------------------------
(***************************************************************************)
(* The trees the parser hands to the code generator (ast.h).  A statement  *)
(* list is a sequence; a map literal has its keys and values in turn; a    *)
(* program has its top-level statements and its named functions.           *)
(***************************************************************************)
EXTENDS Integers, Sequences, TLC

Num(v)           == [kind |-> "num", val |-> v]
Var(x)           == [kind |-> "var", name |-> x]
Bin(op, a, b)    == [kind |-> "bin", op |-> op, left |-> a, right |-> b]
Add(a, b)        == Bin("ADD", a, b)
Less(a, b)       == Bin("LT", a, b)
Call(f, as)      == [kind |-> "call", name |-> f, args |-> as]
Apply(c, as)     == [kind |-> "apply", callee |-> c, args |-> as]
Text(s)          == [kind |-> "text", val |-> s]
Unary(op, e)     == [kind |-> "un", op |-> op, expr |-> e]
MapOf(es)        == [kind |-> "map", args |-> es]
Arr(es)          == [kind |-> "arr", args |-> es]
Index(t, i)      == [kind |-> "index", target |-> t, at |-> i]

(* A function with the types it declares, and a declaration with its own:  *)
(* "any" where the program says nothing.                                   *)
TypedFn(ps, ts, r, b) == [kind |-> "fn", params |-> ps, body |-> b, types |-> ts, returns |-> r]
Fn(ps, b)        == TypedFn(ps, [k \in 1 .. Len(ps) |-> "any"], "any", b)

LetAs(x, t, e)   == [kind |-> "let", name |-> x, expr |-> e, as |-> t]
Let(x, e)        == LetAs(x, "any", e)
Assign(x, e)     == [kind |-> "assign", name |-> x, expr |-> e]
PrintStmt(e)     == [kind |-> "print", expr |-> e]
Block(ss)        == [kind |-> "block", stmts |-> ss]
If(c, a)         == [kind |-> "if", cond |-> c, then |-> a]
IfElse(c, a, b)  == [kind |-> "ifelse", cond |-> c, then |-> a, else |-> b]
While(c, b)      == [kind |-> "while", cond |-> c, body |-> b]
For(i, c, s, b)  == [kind |-> "for", init |-> i, cond |-> c, step |-> s, body |-> b]
Break            == [kind |-> "break"]
Continue         == [kind |-> "continue"]
Return(e)        == [kind |-> "return", expr |-> e]
SetIndex(t, i, e) == [kind |-> "set", target |-> t, at |-> i, expr |-> e]
OpIndex(op, t, i, e) == [kind |-> "opset", op |-> op, target |-> t, at |-> i, expr |-> e]
AddIndex(t, i, e) == OpIndex("ADD", t, i, e)

(* A part of a for or return statement that is not there (NULL).           *)
Nothing          == [kind |-> "nothing"]
IsThere(n)       == n.kind # "nothing"

(* What only the native path compiles or uses: a string of which the type  *)
(* is all that counts, exceptions, and which node of the tree a use is.    *)
Str              == [kind |-> "str"]
Use(v, k)        == [kind |-> "var", name |-> v, site |-> k]
Try(b, v, c)     == [kind |-> "try", body |-> b, name |-> v, catch |-> c]
Throw(e)         == [kind |-> "throw", expr |-> e]

(* A named function or method.  A class has methods, of which init may be  *)
(* one; it is a function with init's parameters.                           *)
NamedFn(f, n)    == [name |-> f, params |-> n.params, types |-> n.types, returns |-> n.returns, body |-> n.body]
Define(f, ps, b) == NamedFn(f, Fn(ps, b))
Class(x, init, ms) == [NamedFn(x, init) EXCEPT !.returns = "any"] @@ [methods |-> ms]
IsClass(f)       == "methods" \in DOMAIN f
Program(main, fs) == [main |-> main, fns |-> fs]

(* The names used as fields, as texts.                                     *)
Letters == [v |-> <<118>>, w |-> <<119>>, inc |-> <<105, 110, 99>>, get |-> <<103, 101, 116>>]

(* The nodes below a node, in the order the code generator visits them.    *)
Children(n) ==
  CASE n.kind = "bin"                      -> <<n.left, n.right>>
    [] n.kind \in {"call", "arr", "map"}   -> n.args
    [] n.kind = "apply"                    -> n.args \o <<n.callee>>
    [] n.kind = "index"                    -> <<n.target, n.at>>
    [] n.kind = "fn"                       -> <<n.body>>
    [] n.kind \in {"un", "let", "assign", "print", "return", "throw"} -> <<n.expr>>
    [] n.kind = "block"                    -> n.stmts
    [] n.kind = "if"                       -> <<n.cond, n.then>>
    [] n.kind = "ifelse"                   -> <<n.cond, n.then, n.else>>
    [] n.kind = "while"                    -> <<n.cond, n.body>>
    [] n.kind = "for"                      -> <<n.init, n.cond, n.step, n.body>>
    [] n.kind = "try"                      -> <<n.body, n.catch>>
    [] n.kind \in {"set", "opset"}        -> <<n.target, n.at, n.expr>>
    [] OTHER                               -> <<>>
===============================================================================
