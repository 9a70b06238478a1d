-------------------------------- MODULE Parser ---------------------------------
(***************************************************************************)
(* The parser (parser.c): recursive descent over the tokens of a file.     *)
(* Its state is a record s: the tokens, the place of the current one, the  *)
(* tree the last function returned, and whether all is well; an error of   *)
(* syntax ends the program, here with the current token at the last, EOF.  *)
(*                                                                         *)
(* A token is a type t and, for names, numbers and texts, a value v.  The  *)
(* type of an operator is its opcode, as in the trees; OPSET is += and the *)
(* like, STEP is ++ or --, each with the operator as v.                    *)
(***************************************************************************)
EXTENDS Syntax, SequencesExt

Peek(s)      == s.src[s.at].t
Val(s)       == s.src[s.at].v
Skip(s)      == [s EXCEPT !.at = @ + 1]
Reject(s)    == [s EXCEPT !.ok = FALSE, !.at = Len(s.src)]
Expect(s, t) == IF Peek(s) = t THEN Skip(s) ELSE Reject(s)
Yield(s, n)  == [s EXCEPT !.node = n]

(* The name at the current token, and the state behind it.                 *)
Name(s)      == IF Peek(s) = "NAME" THEN Val(s) ELSE "none"
PastName(s)  == Expect(s, "NAME")
-------------------------------------------------------------------------------
(* Expressions.  The binary operators by level, the loosest first; all are *)
(* left associative.                                                       *)
Levels == << {"OR"}, {"AND"}, {"EQ", "NEQ"}, {"LT", "LE", "GT", "GE"}, {"ADD", "SUB"}, {"MUL", "DIV", "MOD"} >>

RECURSIVE ParseLevel(_, _), ParseOperators(_, _), ParseUnary(_), ParseSuffixes(_),
          ParseList(_, _, _), ParsePairs(_, _), ParseParams(_, _, _), ParseStmt(_), ParseStmts(_, _)

ParseExpr(s) == ParseLevel(1, s)

RightFirst(k, s) ==     \* a mutant of ParseLevel: operators of a level group to the right
  IF k > Len(Levels) THEN ParseUnary(s)
  ELSE LET l == ParseLevel(k + 1, s)
       IN  IF Peek(l) \in Levels[k]
           THEN LET r == ParseLevel(k, Skip(l)) IN Yield(r, Bin(Peek(l), l.node, r.node))
           ELSE l

ParseLevel(k, s) ==
  IF k > Len(Levels) THEN ParseUnary(s) ELSE ParseOperators(k, ParseLevel(k + 1, s))

(* The operators of level k that follow the operand just read.             *)
ParseOperators(k, s) ==
  IF Peek(s) \in Levels[k]
  THEN LET r == ParseLevel(k + 1, Skip(s))
       IN  ParseOperators(k, Yield(r, Bin(Peek(s), s.node, r.node)))
  ELSE s

(* Expressions between commas, up to the token that closes the list.       *)
ParseList(s, close, es) ==
  LET e == ParseExpr(s)
      all == Append(es, e.node)
  IN  IF Peek(e) = "," THEN ParseList(Skip(e), close, all) ELSE Expect(Yield(e, all), close)

ParseArgs(s, close) == IF Peek(s) = close THEN Skip(Yield(s, <<>>)) ELSE ParseList(s, close, <<>>)

ParsePairs(s, es) ==
  LET k == ParseExpr(s)
      v == ParseExpr(Expect(k, ":"))
      all == es \o <<k.node, v.node>>
  IN  IF Peek(v) = "," THEN ParsePairs(Skip(v), all) ELSE Expect(Yield(v, all), "}")

ParseCall(f, s) == LET a == ParseArgs(Expect(s, "("), ")") IN Yield(a, Call(f, a.node))

ParseBlock(s) == ParseStmts(Expect(s, "{"), <<>>)

(* A type where a colon stands, any type elsewhere.                        *)
ParseType(s) ==
  CASE Peek(s) # ":" -> Yield(s, "any")
    [] Peek(s) = ":" /\ Peek(Skip(s)) = "fn" -> Skip(Skip(Yield(s, "fn")))
    [] Peek(s) = ":" /\ Name(Skip(s)) \in {"num", "str", "arr", "map", "bool", "any"} ->
         Skip(Skip(Yield(s, Name(Skip(s)))))
    [] OTHER -> Reject(s)

ParseParams(s, ps, ts) ==
  LET x == PastName(s)
      t == ParseType(x)
      names == Append(ps, Name(s))
      types == Append(ts, t.node)
  IN  IF Peek(t) = "," THEN ParseParams(Skip(t), names, types)
                       ELSE Expect(Yield(t, [params |-> names, types |-> types]), ")")

(* The parameters, the declared result and the body of a function.         *)
ParseFnRest(s) ==
  LET o == Expect(s, "(")
      p == IF Peek(o) = ")" THEN Skip(Yield(o, [params |-> <<>>, types |-> <<>>])) ELSE ParseParams(o, <<>>, <<>>)
      r == ParseType(p)
      b == ParseBlock(r)
  IN  Yield(b, TypedFn(p.node.params, p.node.types, r.node, b.node))

ParsePrimary(s) ==
  LET r == Skip(s) IN
  CASE Peek(s) = "NUM"  -> Yield(r, Num(Val(s)))
    [] Peek(s) = "TEXT" -> Yield(r, Text(Val(s)))
    [] Peek(s) = "NAME" -> IF Peek(r) = "(" THEN ParseCall(Val(s), r) ELSE Yield(r, Var(Val(s)))
    [] Peek(s) = "("    -> Expect(ParseExpr(r), ")")
    [] Peek(s) = "["    -> LET l == ParseArgs(r, "]") IN Yield(l, Arr(l.node))
    [] Peek(s) = "fn"   -> ParseFnRest(r)
    [] Peek(s) = "{"    ->
         LET m == IF Peek(r) = "}" THEN Skip(Yield(r, <<>>)) ELSE ParsePairs(r, <<>>) IN Yield(m, MapOf(m.node))
    [] OTHER            -> Reject(s)

(* What is between brackets, or the name behind a dot as a text.           *)
ParseAt(s) ==
  IF Peek(s) = "["
  THEN Expect(ParseExpr(Skip(s)), "]")
  ELSE LET f == Skip(s) IN
       IF Name(f) \in DOMAIN Letters THEN PastName(Yield(f, Text(Letters[Name(f)]))) ELSE Reject(f)

ParseApply(s) == LET a == ParseArgs(Skip(s), ")") IN Yield(a, Apply(s.node, a.node))

ParseSuffixes(s) ==
  CASE Peek(s) \in {"[", "."} -> LET i == ParseAt(s) IN ParseSuffixes(Yield(i, Index(s.node, i.node)))
    [] Peek(s) = "("          -> ParseSuffixes(ParseApply(s))
    [] OTHER                  -> s

ParseUnary(s) ==
  LET op == IF Peek(s) = "SUB" THEN "NEG" ELSE "NOT"
      e  == ParseUnary(Skip(s))
  IN  IF Peek(s) \in {"SUB", "NOT"} THEN Yield(e, Unary(op, e.node)) ELSE ParseSuffixes(ParsePrimary(s))
-------------------------------------------------------------------------------
(* Statements.  An assignment with an operator is one of the name and the  *)
(* operator applied to it.                                                 *)
ParseAssign(x, s) ==
  LET e == ParseExpr(Skip(s)) IN
  CASE Peek(s) = "="     -> Yield(e, Assign(x, e.node))
    [] Peek(s) = "STEP"  -> Skip(Yield(s, Assign(x, Bin(Val(s), Var(x), Num(1)))))
    [] Peek(s) = "OPSET" -> Yield(e, Assign(x, Bin(Val(s), Var(x), e.node)))
    [] OTHER             -> Reject(s)

ParseLet(s) ==
  LET t == ParseType(PastName(s))
      e == ParseExpr(Expect(t, "="))
  IN  Yield(e, LetAs(Name(s), t.node, e.node))

(* A statement that begins with an element: an assignment to it, or a call *)
(* of it.  s.node is what the element is one of.                           *)
RECURSIVE ParseElement(_)
ParseElement(s) ==
  LET i == ParseAt(s)
      element == Index(s.node, i.node)
      e == ParseExpr(Skip(i))
  IN  CASE Peek(i) \in {"[", "."} -> ParseElement(Yield(i, element))
        [] Peek(i) = "("     -> Expect(ParseSuffixes(ParseApply(Yield(i, element))), ";")
        [] Peek(i) = "="     -> Expect(Yield(e, SetIndex(s.node, i.node, e.node)), ";")
        [] Peek(i) = "STEP"  -> Expect(Skip(Yield(i, OpIndex(Val(i), s.node, i.node, Num(1)))), ";")
        [] Peek(i) = "OPSET" -> Expect(Yield(e, OpIndex(Val(i), s.node, i.node, e.node)), ";")
        [] OTHER             -> Reject(i)

ParseNamed(s) ==
  LET r == Skip(s) IN
  CASE Peek(r) = "("          -> Expect(ParseCall(Val(s), r), ";")
    [] Peek(r) \in {"[", "."} -> ParseElement(Yield(r, Var(Val(s))))
    [] OTHER                  -> Expect(ParseAssign(Val(s), r), ";")

ParseCondition(s) == Expect(ParseExpr(Expect(s, "(")), ")")

ParseIf(s) ==
  LET c == ParseCondition(s)
      a == ParseStmt(c)
      b == ParseStmt(Skip(a))
  IN  IF Peek(a) = "else" THEN Yield(b, IfElse(c.node, a.node, b.node)) ELSE Yield(a, If(c.node, a.node))

(* An expression, or a declaration or an assignment, that may be left out, *)
(* up to the token behind it.                                              *)
ParseOptional(s, close) == Expect(IF Peek(s) = close THEN Yield(s, Nothing) ELSE ParseExpr(s), close)

ParseUpdate(s, close) ==
  Expect(CASE Peek(s) = close               -> Yield(s, Nothing)
           [] Peek(s) = "let" /\ close = ";" -> ParseLet(Skip(s))
           [] OTHER                         -> ParseAssign(Name(s), PastName(s)), close)

ParseFor(s) ==
  LET i == ParseUpdate(Expect(s, "("), ";")
      c == ParseOptional(i, ";")
      n == ParseUpdate(c, ")")
      b == ParseStmt(n)
  IN  Yield(b, For(i.node, c.node, n.node, b.node))

ParseTry(s) ==
  LET b == ParseBlock(s)
      x == Expect(Expect(b, "catch"), "(")
      c == ParseBlock(Expect(PastName(x), ")"))
  IN  Yield(c, Try(b.node, Name(x), c.node))

(* A keyword, an expression, a semicolon.                                  *)
ParseKeyword(s) ==
  LET e == ParseExpr(Skip(s)) IN Expect(Yield(e, [kind |-> Peek(s), expr |-> e.node]), ";")

ParseStmt(s) ==
  LET r == Skip(s) IN
  CASE Peek(s) = "let"      -> Expect(ParseLet(r), ";")
    [] Peek(s) \in {"print", "throw"} -> ParseKeyword(s)
    [] Peek(s) = "if"       -> ParseIf(r)
    [] Peek(s) = "while"    -> LET c == ParseCondition(r)
                                   b == ParseStmt(c)
                               IN  Yield(b, While(c.node, b.node))
    [] Peek(s) = "for"      -> ParseFor(r)
    [] Peek(s) = "break"    -> Expect(Yield(r, Break), ";")
    [] Peek(s) = "continue" -> Expect(Yield(r, Continue), ";")
    [] Peek(s) = "return"   -> LET e == ParseOptional(r, ";") IN Yield(e, Return(e.node))
    [] Peek(s) = "try"      -> ParseTry(r)
    [] Peek(s) = "{"        -> ParseBlock(s)
    [] Peek(s) = "fn"       -> LET f == ParseFnRest(PastName(r)) IN Yield(f, Let(Name(r), f.node))
    [] Peek(s) = "NAME"     -> ParseNamed(s)
    [] OTHER                -> Reject(s)

ParseStmts(s, ns) ==
  IF Peek(s) \in {"}", "EOF"}
  THEN Expect(Yield(s, Block(ns)), "}")
  ELSE LET n == ParseStmt(s) IN ParseStmts(n, Append(ns, n.node))
-------------------------------------------------------------------------------
(* The top level: named functions, classes, statements.                    *)
RECURSIVE ParseMethods(_, _), ParseItems(_, _)

ParseFnDef(s) ==
  LET f == ParseFnRest(PastName(s)) IN Yield(f, NamedFn(Name(s), f.node))

ParseMethods(s, ms) ==
  CASE Peek(s) \in {"}", "EOF"} -> Expect(Yield(s, ms), "}")
    [] Peek(s) = "fn"           ->
         LET m == ParseFnDef(Skip(s))
         IN  IF m.node.name = "init" /\ \E k \in DOMAIN ms : ms[k].name = "init"
             THEN Yield(Reject(m), ms) ELSE ParseMethods(m, Append(ms, m.node))
    [] OTHER                    -> Yield(Reject(s), ms)

(* A class is a function that makes a map, puts its methods there as       *)
(* closures, and goes on with the statements of init.                      *)
InitFirst(x, ms) ==     \* a mutant of Constructor: the methods come after init's statements
  LET inits   == SelectSeq(ms, LAMBDA m : m.name = "init")
      methods == SelectSeq(ms, LAMBDA m : m.name # "init")
      init    == IF inits = <<>> THEN Define(x, <<>>, Block(<<>>)) ELSE Head(inits)
      attach  == [k \in DOMAIN methods |->
                    SetIndex(Var("this"), Text(Letters[methods[k].name]),
                             TypedFn(methods[k].params, methods[k].types, methods[k].returns, methods[k].body))]
  IN  NamedFn(x, TypedFn(init.params, init.types, "any",
        Block(<<Let("this", MapOf(<<>>))>> \o init.body.stmts \o attach \o <<Return(Var("this"))>>)))

Constructor(x, ms) ==
  LET inits   == SelectSeq(ms, LAMBDA m : m.name = "init")
      methods == SelectSeq(ms, LAMBDA m : m.name # "init")
      init    == IF inits = <<>> THEN Define(x, <<>>, Block(<<>>)) ELSE Head(inits)
      attach  == [k \in DOMAIN methods |->
                    SetIndex(Var("this"), Text(Letters[methods[k].name]),
                             TypedFn(methods[k].params, methods[k].types, methods[k].returns, methods[k].body))]
  IN  NamedFn(x, TypedFn(init.params, init.types, "any",
        Block(<<Let("this", MapOf(<<>>))>> \o attach \o init.body.stmts \o <<Return(Var("this"))>>)))

ParseClass(s) ==
  LET m == ParseMethods(Expect(PastName(s), "{"), <<>>) IN Yield(m, Constructor(Name(s), m.node))

(* Whether a function is public only counts for the linker.                *)
ParseItems(s, p) ==
  LET r == Skip(s)
      fn(t) == ParseItems(t, [p EXCEPT !.fns = Append(@, t.node)])
      stmt  == ParseStmt(s)
  IN  CASE Peek(s) = "EOF"   -> Yield(s, p)
        [] Peek(s) = "fn"    -> fn(ParseFnDef(r))
        [] Peek(s) = "class" -> fn(ParseClass(r))
        [] Peek(s) = "pub" /\ Peek(r) = "class"          -> fn(ParseClass(Skip(r)))
        [] Peek(s) \in {"pub", "priv"} /\ Peek(r) = "fn" -> fn(ParseFnDef(Skip(r)))
        [] Peek(s) \notin {"EOF", "fn", "class", "pub", "priv"} ->
             ParseItems(stmt, [p EXCEPT !.main = Append(@, stmt.node)])
        [] OTHER             -> Yield(Reject(s), p)

(* The state when the end of the file or an error has been reached, with   *)
(* the program as its node.                                                *)
Parse(tokens) == ParseItems([src |-> tokens, at |-> 1, node |-> Nothing, ok |-> TRUE], Program(<<>>, <<>>))
================================================================================
