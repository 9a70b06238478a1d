------------------------------- MODULE TypeInfer -------------------------------
(***************************************************************************)
(* type_infer.c: the types every use of a variable can have, found by one  *)
(* walk over each function.  A TypeSet is a set of type names; the note a  *)
(* use is given (inferred_type) is the one type of its set, or "any".      *)
(*                                                                         *)
(* e is the walk so far: binds, the variables in scope with their          *)
(* TypeSets, innermost last; notes, what the uses were given; fns, the     *)
(* declared return types of the named functions.  The tables' sizes (256   *)
(* bindings, 64 scopes), past which the program dies, are left out.        *)
(***************************************************************************)
EXTENDS Syntax, FiniteSets, SequencesExt

Types == {"num", "str", "arr", "map", "fn"}

(* A mutant: booleans with a bit of their own.                             *)
AnnotKeepsBool(t) == IF t = "any" THEN Types ELSE {t}

(* Booleans are numbers; any is every type.                                *)
ts_from_annot(t) ==
  CASE t = "any"  -> Types
    [] t = "bool" -> {"num"}
    [] OTHER      -> {t}

NoteFor(ts) == IF Cardinality(ts) = 1 THEN CHOOSE t \in ts : TRUE ELSE "any"

(* The place of the innermost binding of x, 0 if there is none.            *)
env_index(binds, x) == SelectLastInSeq(binds, LAMBDA b : b.name = x)
Bound(binds, x)     == \E i \in DOMAIN binds : binds[i].name = x
TypesOf(binds, x)   == binds[env_index(binds, x)].types

env_bind(e, x, ts) == [e EXCEPT !.binds = Append(@, [name |-> x, types |-> ts])]

env_set(e, x, ts) ==
  IF Bound(e.binds, x) THEN [e EXCEPT !.binds[env_index(e.binds, x)].types = ts]
                       ELSE env_bind(e, x, ts)

(* Back to the bindings of e, as they are now in f.                        *)
env_pop_scope(e, f) == [f EXCEPT !.binds = SubSeq(@, 1, Len(e.binds))]

(* A mutant: the path walked last decides.                                 *)
MergeKeepsLast(e, other) == e

(* Either of two paths: the types of a binding of both are united, one     *)
(* that only e has may be anything.                                        *)
env_merge(e, other) ==
  [e EXCEPT !.binds = [i \in DOMAIN @ |->
     [@[i] EXCEPT !.types = IF i <= Len(other) THEN @ \cup other[i].types ELSE Types]]]

--------------------------------------------------------------------------------
RECURSIVE TypeOf(_, _), UsesIn(_), InnerFns(_)

(* The TypeSet of an expression.  Elements of arrays are not tracked; the  *)
(* declared return type of a function is believed.                         *)
TypeOf(n, e) ==
  CASE n.kind = "num" -> {"num"}
    [] n.kind = "str" -> {"str"}
    [] n.kind = "arr" -> {"arr"}
    [] n.kind = "fn"  -> {"fn"}
    [] n.kind = "var" ->
         CASE Bound(e.binds, n.name)      -> TypesOf(e.binds, n.name)
           [] ~ Bound(e.binds, n.name) /\ n.name \in DOMAIN e.fns -> {"fn"}
           [] OTHER                       -> Types
    [] n.kind = "bin" /\ n.op = "ADD" ->
         LET l == TypeOf(n.left, e)
             r == TypeOf(n.right, e)
         IN  CASE {"str"} \in {l, r}  -> {"str"}
               [] {l, r} = {{"num"}}  -> {"num"}
               [] OTHER               -> {"num", "str"}
    [] n.kind = "bin" /\ n.op # "ADD" -> {"num"}
    [] n.kind = "call" /\ n.name \in DOMAIN e.fns -> ts_from_annot(e.fns[n.name])
    [] OTHER -> Types

(* The uses of variables in an expression, not in the functions it makes.  *)
UsesIn(n) ==
  CASE n.kind = "var" -> {n}
    [] n.kind = "fn"  -> {}
    [] OTHER          -> UNION {UsesIn(Children(n)[i]) : i \in DOMAIN Children(n)}

(* Every use in the expression is given its note, over the one it had.     *)
infer_expr(n, e) ==
  LET Note(u) == IF Bound(e.binds, u.name) THEN NoteFor(TypesOf(e.binds, u.name)) ELSE "any"
      sites   == {u.site : u \in UsesIn(n)}
      At(s)   == CHOOSE u \in UsesIn(n) : u.site = s
  IN  [e EXCEPT !.notes = [s \in DOMAIN @ \cup sites |->
                             IF s \in sites THEN Note(At(s)) ELSE @[s]]]

--------------------------------------------------------------------------------
RECURSIVE infer_stmt(_, _), infer_loop_body(_, _, _)

InferAll(ns, e) == FoldLeft(LAMBDA f, n : infer_stmt(n, f), e, ns)

(* A declared type narrows what is inferred, or replaces it when they      *)
(* contradict each other.                                                  *)
Declared(n, ts) ==
  LET d == ts_from_annot(n.as)
  IN  IF ts \cap d = {} THEN d ELSE ts \cap d

LoopRounds == 8

(* A mutant: the body is walked once.                                      *)
LoopOnce(ns, e, k) == env_merge(InferAll(ns, e), e.binds)

(* Body and step again and again until the types at the loop's head no     *)
(* longer change, at most k times.                                         *)
infer_loop_body(ns, e, k) ==
  LET f == env_merge(InferAll(ns, e), e.binds)
  IN  IF k = 1 \/ f.binds = e.binds THEN f ELSE infer_loop_body(ns, f, k - 1)

(* A loop's condition is walked before the body and after the last round.  *)
infer_loop(n, ns, e) ==
  infer_expr(n.cond, infer_loop_body(ns, infer_expr(n.cond, e), LoopRounds))

(* A jump is walked past, a try or throw statement not entered.            *)
infer_stmt(n, e) ==
  CASE n.kind = "let" ->
         env_bind(infer_expr(n.expr, e), n.name, Declared(n, TypeOf(n.expr, e)))
    [] n.kind = "assign" -> env_set(infer_expr(n.expr, e), n.name, TypeOf(n.expr, e))
    [] n.kind \in {"print", "return"} -> infer_expr(n.expr, e)
    [] n.kind \in {"call", "apply", "set", "opset"} -> infer_expr(n, e)
    [] n.kind \in {"if", "ifelse"} ->
         LET before == infer_expr(n.cond, e)
             then   == infer_stmt(n.then, before)
             else   == [before EXCEPT !.notes = then.notes]
         IN  env_merge(IF n.kind = "ifelse" THEN infer_stmt(n.else, else) ELSE else, then.binds)
    [] n.kind = "while" -> infer_loop(n, <<n.body>>, e)
    [] n.kind = "for" ->
         env_pop_scope(e, infer_loop(n, <<n.body, n.step>>, infer_stmt(n.init, e)))
    [] n.kind = "block" -> env_pop_scope(e, InferAll(n.stmts, e))
    [] OTHER -> e

--------------------------------------------------------------------------------
(* A function's own walk starts from its parameters and nothing else.      *)
infer_function(f, e) ==
  LET start == [e EXCEPT !.binds = [i \in DOMAIN f.params |->
                  [name |-> f.params[i], types |-> ts_from_annot(f.types[i])]]]
  IN  [InferAll(f.body.stmts, start) EXCEPT !.binds = e.binds]

(* The functions made in a node, outside first; a try statement hides the  *)
(* ones in it.                                                             *)
InnerFns(n) ==
  LET below == IF n.kind \in {"try", "throw"} THEN <<>>
               ELSE FoldLeft(LAMBDA a, c : a \o InnerFns(c), <<>>, Children(n))
  IN  IF n.kind = "fn" THEN <<n>> \o below ELSE below

walk_for_inner_fns(n, e) == FoldLeft(LAMBDA f, g : infer_function(g, f), e, InnerFns(n))

(* The named functions, each with the functions in it, then the top level, *)
(* which sees them as variables that hold functions.                       *)
infer_program_types(p) ==
  LET names == {p.fns[i].name : i \in DOMAIN p.fns}
      Of(f) == p.fns[CHOOSE i \in DOMAIN p.fns : p.fns[i].name = f]
      start == [binds |-> <<>>, notes |-> <<>>, fns |-> [f \in names |-> Of(f).returns]]
      inFns == FoldLeft(LAMBDA e, f : walk_for_inner_fns(f.body, infer_function(f, e)), start, p.fns)
      top   == FoldLeft(LAMBDA e, f : env_bind(e, f.name, {"fn"}), inFns, p.fns)
  IN  FoldLeft(LAMBDA e, n : walk_for_inner_fns(n, infer_stmt(n, e)), top, p.main).notes
===============================================================================
