-------------------------------- MODULE Source ---------------------------------
(***************************************************************************)
(* How a tree is written down: the tokens of a program, with parentheses   *)
(* only where the precedence of README.md, 182 asks for them.  What can be *)
(* written in two ways is written in the short one when short is TRUE: an  *)
(* operator with an assignment, a field behind a dot, a nested function    *)
(* with its name.                                                          *)
(***************************************************************************)
EXTENDS Syntax, SequencesExt

Sym(t)  == <<[t |-> t]>>
Tok(t, v) == <<[t |-> t, v |-> v]>>
Word(x) == Tok("NAME", x)
Parens(ts) == Sym("(") \o ts \o Sym(")")

(* The tokens W writes for each of es, without and with commas between.    *)
Each(W(_), es) == FoldLeft(LAMBDA ts, e : ts \o W(e), <<>>, es)

Listed(W(_), es) ==
  FoldLeft(LAMBDA ts, e : (IF ts = <<>> THEN ts ELSE ts \o Sym(",")) \o W(e), <<>>, es)

UpTo(n) == [k \in 1 .. n |-> k]

(* How tightly an expression binds: its operator, or 8 with none.          *)
Precedence == [OR |-> 1, AND |-> 2, EQ |-> 3, NEQ |-> 3, LT |-> 4, LE |-> 4, GT |-> 4, GE |-> 4,
               ADD |-> 5, SUB |-> 5, MUL |-> 6, DIV |-> 6, MOD |-> 6]

Binds(n) ==
  CASE n.kind = "bin" -> Precedence[n.op]
    [] n.kind = "un"  -> 7
    [] OTHER          -> 8

Typed(t) == IF t = "any" THEN <<>> ELSE Sym(":") \o (IF t = "fn" THEN Sym("fn") ELSE Word(t))

RECURSIVE Written(_, _), WrittenStmt(_, _)

WrittenAt(n, level, short) ==
  IF Binds(n) >= level THEN Written(n, short) ELSE Parens(Written(n, short))

WrittenList(es, short) == Listed(LAMBDA e : Written(e, short), es)

Field(i) == IF i.kind = "text" THEN {x \in DOMAIN Letters : Letters[x] = i.val} ELSE {}

WrittenIndex(i, short) ==
  IF short /\ Field(i) # {}
  THEN Sym(".") \o Word(CHOOSE x \in Field(i) : TRUE)
  ELSE Sym("[") \o Written(i, short) \o Sym("]")

(* From the parameters of a function on.                                   *)
WrittenFn(f, short) ==
  Parens(Listed(LAMBDA k : Word(f.params[k]) \o Typed(f.types[k]), UpTo(Len(f.params))))
    \o Typed(f.returns) \o WrittenStmt(f.body, short)

Written(n, short) ==
  CASE n.kind = "num"   -> Tok("NUM", n.val)
    [] n.kind = "text"  -> Tok("TEXT", n.val)
    [] n.kind = "var"   -> Word(n.name)
    [] n.kind = "un"    -> Sym(IF n.op = "NEG" THEN "SUB" ELSE n.op) \o WrittenAt(n.expr, 7, short)
    [] n.kind = "bin"   -> WrittenAt(n.left, Binds(n), short) \o Sym(n.op) \o WrittenAt(n.right, Binds(n) + 1, short)
    [] n.kind = "call"  -> Word(n.name) \o Parens(WrittenList(n.args, short))
    [] n.kind = "apply" ->
         (IF n.callee.kind = "var" THEN Parens(Word(n.callee.name)) ELSE WrittenAt(n.callee, 8, short))
           \o Parens(WrittenList(n.args, short))
    [] n.kind = "arr"   -> Sym("[") \o WrittenList(n.args, short) \o Sym("]")
    [] n.kind = "map"   ->
         LET pair(k) == Written(n.args[2 * k - 1], short) \o Sym(":") \o Written(n.args[2 * k], short)
         IN  Sym("{") \o Listed(pair, UpTo(Len(n.args) \div 2)) \o Sym("}")
    [] n.kind = "index" -> WrittenAt(n.target, 8, short) \o WrittenIndex(n.at, short)
    [] n.kind = "fn"    -> Sym("fn") \o WrittenFn(n, short)
    [] n.kind = "nothing" -> <<>>

IsOne(e) == e.kind = "num" /\ e.val = 1

(* An operator on what is assigned to, with the other operand.             *)
WrittenOp(op, e, short) ==
  IF op \in {"ADD", "SUB"} /\ IsOne(e) THEN Tok("STEP", op) ELSE Tok("OPSET", op) \o Written(e, short)

Updates(n) ==
  /\ n.expr.kind = "bin" /\ Binds(n.expr) > 4
  /\ n.expr.left.kind = "var" /\ n.expr.left.name = n.name

(* A declaration or an assignment, without the semicolon.                  *)
WrittenSimple(n, short) ==
  CASE n.kind = "let" -> Sym("let") \o Word(n.name) \o Typed(n.as) \o Sym("=") \o Written(n.expr, short)
    [] n.kind = "assign" /\ short /\ Updates(n) -> Word(n.name) \o WrittenOp(n.expr.op, n.expr.right, short)
    [] n.kind = "assign" /\ ~ (short /\ Updates(n)) -> Word(n.name) \o Sym("=") \o Written(n.expr, short)
    [] OTHER -> <<>>

WrittenStmt(n, short) ==
  LET cond == Parens(Written(n.cond, short))
      element == Written(n.target, short) \o WrittenIndex(n.at, short)
      end == Sym(";")
  IN  CASE n.kind = "let" /\ short /\ n.expr.kind = "fn" /\ n.as = "any" ->
             Sym("fn") \o Word(n.name) \o WrittenFn(n.expr, short)
        [] n.kind \in {"print", "return", "throw"} -> Sym(n.kind) \o Written(n.expr, short) \o end
        [] n.kind = "block"  ->
             Sym("{") \o Each(LAMBDA c : WrittenStmt(c, short), n.stmts) \o Sym("}")
        [] n.kind = "if"     -> Sym("if") \o cond \o WrittenStmt(n.then, short)
        [] n.kind = "ifelse" -> Sym("if") \o cond \o WrittenStmt(n.then, short)
                                  \o Sym("else") \o WrittenStmt(n.else, short)
        [] n.kind = "while"  -> Sym("while") \o cond \o WrittenStmt(n.body, short)
        [] n.kind = "for"    ->
             Sym("for") \o Parens(WrittenSimple(n.init, short) \o end \o Written(n.cond, short) \o end
                                    \o WrittenSimple(n.step, short)) \o WrittenStmt(n.body, short)
        [] n.kind \in {"break", "continue"} -> Sym(n.kind) \o end
        [] n.kind = "set"    -> element \o Sym("=") \o Written(n.expr, short) \o end
        [] n.kind = "opset"  -> element \o WrittenOp(n.op, n.expr, short) \o end
        [] n.kind = "try"    -> Sym("try") \o WrittenStmt(n.body, short)
                                  \o Sym("catch") \o Parens(Word(n.name)) \o WrittenStmt(n.catch, short)
        [] n.kind \in {"call", "apply"} -> Written(n, short) \o end
        [] OTHER             -> WrittenSimple(n, short) \o end

(* At the top level a function with a name is a named function.            *)
WrittenTop(n, short) == WrittenStmt(n, short /\ ~ (n.kind = "let" /\ n.expr.kind = "fn"))

WrittenDef(f, short) == Word(f.name) \o WrittenFn(f, short)

WrittenItem(f, short) ==
  IF ~ IsClass(f) THEN Sym("fn") \o WrittenDef(f, short)
  ELSE Sym("class") \o Word(f.name) \o Sym("{")
         \o Each(LAMBDA m : Sym("fn") \o WrittenDef(m, short), f.methods)
         \o Sym("fn") \o Word("init") \o WrittenFn(f, short) \o Sym("}")

WrittenProgram(p, short) ==
  Each(LAMBDA f : WrittenItem(f, short), p.fns) \o Each(LAMBDA n : WrittenTop(n, short), p.main) \o Sym("EOF")
-------------------------------------------------------------------------------
(* Texts between the tools of the bytecode path.  The code generator, the  *)
(* assembler and the linker write a text between quotes, with escapes; the *)
(* assembler, the linker and the machine read it back.  A text is a        *)
(* sequence of codes of characters.                                        *)
Quote     == 34
Backslash == 92
Semicolon == 59

(* The letter behind the backslash.                                        *)
EscapeOf == [c \in {9, 10, 13, Quote, Backslash} |->
               CASE c = 9 -> 116 [] c = 10 -> 110 [] c = 13 -> 114 [] OTHER -> c]

Escaped(c) == IF c \in DOMAIN EscapeOf THEN <<Backslash, EscapeOf[c]>> ELSE <<c>>

Quoted(s) == <<Quote>> \o FoldLeft(LAMBDA q, c : q \o Escaped(c), <<>>, s) \o <<Quote>>
-------------------------------------------------------------------------------
(* What is read is a text or, where the tool gives up, no text.            *)
NoText  == [ok |-> FALSE, text |-> <<>>]

LetterAsIs(e) == {e}     \* a mutant of Decoded: the letter stands for itself

Decoded(e) == {c \in DOMAIN EscapeOf : EscapeOf[c] = e}

(* q is what follows, s what has been read behind the opening quote.       *)
RECURSIVE Rest(_, _)
Rest(q, s) ==
  CASE q = <<>>                         -> NoText
    [] q # <<>> /\ Head(q) = Quote      -> [ok |-> TRUE, text |-> s]
    [] q # <<>> /\ Head(q) = Backslash  ->
         IF Len(q) > 1 /\ Decoded(q[2]) # {}
         THEN Rest(Tail(Tail(q)), Append(s, CHOOSE c \in Decoded(q[2]) : TRUE))
         ELSE NoText
    [] OTHER                            -> Rest(Tail(q), Append(s, Head(q)))

Unquoted(q) == IF q # <<>> /\ Head(q) = Quote THEN Rest(Tail(q), <<>>) ELSE NoText

(* The assembler cuts a line at the first semicolon before it looks at it. *)
StripComment(line) ==
  LET p == SelectInSeq(line, LAMBDA c : c = Semicolon)
  IN  IF p = 0 THEN line ELSE SubSeq(line, 1, p - 1)

(* A literal in the assembly, the object, the executable.                  *)
Again(t)   == IF t.ok THEN Unquoted(Quoted(t.text)) ELSE t
Carried(s) == Again(Again(Unquoted(StripComment(Quoted(s)))))
================================================================================
