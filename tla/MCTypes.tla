-------------------------------- MODULE MCTypes --------------------------------
(***************************************************************************)
(* Programs for TypedRun: every body of three statements out of the ones   *)
(* that change what a name holds or means.  The k-th statement numbers its *)
(* uses from 10k.                                                          *)
(***************************************************************************)
EXTENDS TypedRun

Minus(a, b) == Bin("SUB", a, b)
One == Num(1)
SetTo(v, e) == Block(<<Assign(v, e)>>)

(* Assignments, branches, shadowing, loops whose second round sees other   *)
(* types than the first, closures that read, jumps that come before the    *)
(* types change, a try statement with variables of its own.                *)
Stmts(k) ==
  LET s == 10 * k
      X(j) == Use("x", s + j)
      Y(j) == Use("y", s + j)
      I(j) == Use("i", s + j)
  IN  { Assign("x", Str),
        Assign("y", Add(X(0), One)),
        Block(<<Let("x", Arr(<<>>)), Assign("y", Index(X(0), One)), Assign("x", Y(1))>>),
        IfElse(Less(X(0), X(1)), SetTo("x", Str), Block(<<Let("x", Y(2)), Assign("x", Arr(<<>>))>>)),
        If(X(0), SetTo("y", X(1))),
        While(Less(Y(0), Y(1)), Block(<<PrintStmt(Add(X(2), One)), Assign("x", Y(3)), Assign("y", Str)>>)),
        While(X(0), Block(<<Let("y", X(1)), If(Y(2), SetTo("x", Y(3))), Assign("y", Str)>>)),
        For(Let("i", Y(0)), I(1), Assign("i", X(2)), Block(<<PrintStmt(Add(I(3), One)), Let("x", I(4))>>)),
        Block(<<Let("f", TypedFn(<<"p">>, <<"bool">>, "any", Block(<<
                  Assign("p", Add(Use("p", s), X(1))), Return(Minus(Use("p", s + 2), One))>>))),
                Assign("y", Call("f", <<One>>))>>),
        For(Let("i", Y(0)), One, Assign("i", Add(I(1), One)),
            Block(<<If(I(2), Continue), PrintStmt(Add(I(3), One)), If(X(4), Break), Assign("x", Str)>>)),
        Try(Block(<<Let("y", Fn(<<"p">>, Block(<<PrintStmt(Use("p", s))>>))), PrintStmt(Call("y", <<X(1)>>)), Throw(X(2))>>),
            "x", Block(<<Assign("x", Arr(<<>>)), PrintStmt(X(3))>>)) }

Body(a, b, c) == <<Let("x", One), Let("y", One), a, b, c,
                   PrintStmt(Minus(Use("x", 1), One)), PrintStmt(Use("y", 2))>>

Bodies == {Body(a, b, c) : a \in Stmts(1), b \in Stmts(2), c \in Stmts(3)}

(* The same as a function's body, whose parameter hides a function's name. *)
Keep == Define("keep", <<"x">>, Block(<<Return(Use("x", 3))>>))
InFunction(b) ==
  Program(<<Let("x", Call("keep", <<Str>>)), PrintStmt(Call("t", <<Str>>)), PrintStmt(Use("x", 4))>>,
          <<Keep, Define("t", <<"keep">>, Block(b \o <<Return(Add(Use("keep", 5), Use("y", 6)))>>))>>)

SoundPrograms == {Program(b, <<>>) : b \in Bodies} \cup {InFunction(b) : b \in Bodies}

(* One statement of each kind the walk takes no account of, between a      *)
(* declaration and a use.                                                  *)
Between(s) == Program(<<Let("x", One), s, PrintStmt(Add(Use("x", 1), One))>>, <<>>)

IgnoredFlow == {
  Between(Try(Block(<<Assign("x", Str), Throw(One)>>), "e", Block(<<>>))),
  Between(While(One, Block(<<Assign("x", Str), If(One, Break), Assign("x", One)>>))),
  Between(While(One, Block(<<PrintStmt(Use("x", 2)), Assign("x", Str), If(One, Continue), Assign("x", One)>>))),
  Between(Block(<<Let("f", Fn(<<>>, Block(<<Assign("x", Str), Return(One)>>))),
                  PrintStmt(Call("f", <<>>))>>)),
  Between(Assign("x", Minus(Index(Arr(<<>>), One), One))) }
===============================================================================
