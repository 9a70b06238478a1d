-------------------------------- MODULE Samples ---------------------------------
(***************************************************************************)
(* Programs to compile and run: every body of a few statements out of the  *)
(* ones that scopes, loops, captures, calls and values make hard.  All     *)
(* loops and recursions in them end.                                       *)
(***************************************************************************)
EXTENDS Syntax

x == Var("x")   y == Var("y")   i == Var("i")   p == Var("p")   a == Var("a")
Minus(k) == Unary("NEG", Num(k))
Inc(v, k) == Assign(v, Add(Var(v), Num(k)))
Count(v, n, b) == For(Let(v, Num(0)), Less(Var(v), Num(n)), Inc(v, 1), Block(b))
Lambda(b) == Fn(<<>>, Block(b))
Keep(b) == Fn(<<"p">>, Block(b))

(* Bodies of loops, at top level and in a function: jumps out of nested    *)
(* scopes that declare variables, a loop in the loop, a shadowed counter.  *)
LoopStmts == {
  PrintStmt(i),
  If(Less(i, Num(1)), Continue),
  If(Less(Num(0), i), Block(<<Let("y", i), Break>>)),
  Block(<<Let("i", Num(5)), PrintStmt(i)>>),
  Let("x", Add(x, i)),
  IfElse(Less(i, Num(1)), Inc("x", 1), Block(<<Let("y", Num(3)), Assign("x", y)>>)),
  Count("y", 2, <<If(Less(y, Num(1)), Continue), PrintStmt(y), Break>>),
  While(Less(x, Num(3)), Block(<<Inc("x", 1), If(Less(Num(2), x), Break)>>)) }

LoopBodies(n) == {<<Let("x", Num(1)), Count("i", 3, b), PrintStmt(x)>> : b \in [1 .. n -> LoopStmts]}

Loops(n) ==
  {Program(b, <<>>) : b \in LoopBodies(n - 1)} \cup
  {Program(<<PrintStmt(Add(Num(1), Call("t", <<>>)))>>, <<Define("t", <<>>, Block(b))>>) :
     b \in LoopBodies(n)}

(* Closures over a local, a parameter, a variable of a block that is gone, *)
(* a loop counter, and through a function in between.                      *)
ClosureStmts == {
  Let("f", Lambda(<<Return(Add(x, p))>>)),
  Let("f", Lambda(<<Inc("x", 1), Return(x)>>)),
  Let("f", Apply(Fn(<<"y">>, Block(<<
             Return(Lambda(<<Assign("p", Add(p, y)), Inc("y", 1), Return(p)>>))>>)), <<x>>)),
  Assign("x", Num(5)),
  Assign("p", x),
  Block(<<Let("x", Num(7)), Assign("f", Lambda(<<Inc("x", 1), Return(x)>>))>>),
  PrintStmt(x),
  PrintStmt(Call("f", <<>>)),
  Count("i", 2, <<Let("y", i), Assign("f", Lambda(<<Inc("y", 10), Return(Add(y, i))>>))>>),
  Block(<<Let("y", Num(3)), PrintStmt(y)>>) }

Closures(n) == {
  Program(<<PrintStmt(Call("t", <<Num(2)>>))>>,
          <<Define("t", <<"p">>, Block(<<Let("x", Num(1)), Let("f", Num(0))>> \o b \o
              <<PrintStmt(Call("f", <<>>)), PrintStmt(x), Return(Add(p, Call("f", <<>>)))>>))>>) :
  b \in [1 .. n -> ClosureStmts]}

(* Calls inside unfinished expressions: recursion, functions as values,    *)
(* arrays, an element assigned while its operands change the array.        *)
Sum == Define("sum", <<"x">>, Block(<<
  If(Less(x, Num(1)), Return(Num(0))),
  Let("y", Call("sum", <<Add(x, Minus(1))>>)),
  Return(Add(x, y))>>))
Twice == Define("twice", <<"f", "x">>, Block(<<Return(Call("f", <<Call("f", <<x>>)>>))>>))
Poke == Define("poke", <<"a", "x">>, Block(<<
  AddIndex(a, Num(0), Num(1)), SetIndex(a, x, Index(a, Num(0))), Return(Num(0))>>))

Small == {Num(1), Num(2), Index(a, Num(0)), Index(a, Num(1))}
Middle == {Call("sum", <<e>>) : e \in Small} \cup
          {Call("twice", <<Var("sum"), e>>) : e \in Small} \cup
          {Call("poke", <<a, e>>) : e \in Small} \cup
          {Index(Arr(<<e, Call("sum", <<e>>)>>), Num(1)) : e \in Small}

Calls == {
  Program(<<Let("a", Arr(<<Num(0), Num(1)>>)), s, PrintStmt(Index(a, Num(0))), PrintStmt(Index(a, Num(1)))>>,
          <<Sum, Twice, Poke>>) :
  s \in {PrintStmt(Add(e, d)) : e \in Middle, d \in Middle} \cup
        {AddIndex(a, e, d) : e \in Middle, d \in Middle} \cup
        {SetIndex(a, e, d) : e \in Small, d \in Middle} \cup
        {e \in Middle : e.kind = "call"} }

(* Values: every operator on every pair of kinds, the empty text and the   *)
(* number zero among them, arrays and maps that are and are not the same,  *)
(* functions with one body and with another.                               *)
Txt == Text(<<55>>)     \* "7"
Operands == {Num(0), Minus(7), Text(<<>>), Txt, Var("m"), Var("n"), Var("a"), Var("one"), Var("f")}
Operators == {"ADD", "SUB", "MUL", "LT", "GT", "LE", "GE", "EQ", "NEQ", "AND", "OR"}

One == Define("one", <<"x">>, Block(<<Return(Add(x, Num(1)))>>))
Prelude == <<Let("m", MapOf(<<Txt, Num(1), Num(7), Txt>>)), Let("n", MapOf(<<>>)),
             Let("a", Arr(<<Var("m")>>)), Let("f", Lambda(<<Return(Num(1))>>))>>

Operations(os) ==
  {Program(Prelude \o <<PrintStmt(Bin(op, e, d))>>, <<One>>) :
     op \in os, e \in Operands, d \in Operands} \cup
  {Program(Prelude \o <<PrintStmt(Unary(op, e))>>, <<One>>) : op \in {"NEG", "NOT"}, e \in Operands}

(* Elements: numbers and texts as keys, a key that comes twice, one that   *)
(* is missing, two names for one map, an operator on an element.           *)
ElementStmts == {
  Let("m", MapOf(<<Txt, Num(3), Num(7), Num(4), Txt, Var("m")>>)),
  Let("n", Var("m")),
  SetIndex(Var("m"), Num(7), Index(Var("n"), Txt)),
  SetIndex(Var("n"), Txt, Add(Txt, Num(2))),
  OpIndex("ADD", Var("m"), Txt, Minus(10)),
  OpIndex("MUL", Index(a, Num(0)), Txt, Num(2)),
  OpIndex("SUB", Var("m"), Txt, Unary("NEG", Index(Var("m"), Txt))),
  SetIndex(a, Num(0), MapOf(<<Num(7), Var("m"), Txt, Bin("EQ", Var("m"), Index(a, Num(0)))>>)),
  PrintStmt(Bin("EQ", Var("m"), Var("n"))) }

Elements(n) == {
  Program(Prelude \o s \o <<PrintStmt(Index(Var("m"), Txt)), PrintStmt(Index(Index(a, Num(0)), Num(7)))>>,
          <<One>>) : s \in [1 .. n -> ElementStmts]}

(* What only the native path compiles.  Self calls in tail position, with  *)
(* the arguments swapped, from a block and a loop, deep enough to fill the *)
(* stack were they calls; and with a parameter or a local that is captured.*)
Decrease == Add(x, Minus(1))
Again(es) == Return(Call("t", es))

TailStmts == {
  Again(<<Decrease, Add(y, x)>>),
  Again(<<Decrease, Call("one", <<y>>)>>),
  If(Less(y, x), Again(<<Add(y, Minus(1)), x>>)),
  Block(<<Let("y", Num(3)), Again(<<Decrease, y>>)>>),
  Count("i", 2, <<If(Less(y, Num(4)), Again(<<Decrease, Add(y, i)>>))>>) }

KeptStmts == {
  Block(<<Let("f", Lambda(<<Return(x)>>)), Let("z", Num(3)), Again(<<Decrease, Add(y, Call("f", <<>>))>>)>>),
  Block(<<Let("z", x), Let("f", Lambda(<<Inc("z", 1), Return(Var("z"))>>)), PrintStmt(Call("f", <<>>))>>),
  Block(<<Let("z", x), Let("f", Lambda(<<Return(Var("z"))>>)), Again(<<Decrease, Call("f", <<>>)>>)>>) }

SelfCall(b, first) ==
  Program(<<PrintStmt(first)>>,
          <<One, Define("t", <<"x", "y">>, Block(<<If(Less(x, Num(1)), Return(y))>> \o b \o <<Return(Num(0))>>))>>)

TailCalls(deep, shallow) ==
  {SelfCall(<<s>>, e) : s \in TailStmts, e \in {Call("t", <<Num(deep), Num(2)>>), Apply(Var("t"), <<Num(deep), Num(2)>>)}}
    \cup
  {SelfCall(<<s, d>>, Call("t", <<Num(shallow), Num(2)>>)) : s \in TailStmts \cup KeptStmts, d \in TailStmts \cup KeptStmts}

(* Exceptions: out of calls and unfinished expressions, nested, thrown     *)
(* again, with a variable that a closure keeps, with nobody to catch them. *)
Toss == Define("toss", <<"x">>, Block(<<Let("y", Num(1)), If(Less(x, Num(2)), Throw(Add(x, y))), Return(x)>>))

Thrown == {
  Throw(Num(4)),
  PrintStmt(Add(Num(10), Call("toss", <<x>>))),
  Inc("x", 1),
  SetIndex(a, Num(0), Call("toss", <<Num(1)>>)),
  Let("z", Arr(<<x, Call("toss", <<x>>)>>)),
  Assign("f", Keep(<<Inc("x", 1), Return(Call("toss", <<x>>))>>)),
  PrintStmt(Call("f", <<x>>)) }

Caught == {
  PrintStmt(Var("e")),
  Assign("f", Keep(<<Inc("e", 1), Return(Var("e"))>>)),
  Throw(Add(Var("e"), Num(20))) }

Attempts == {Try(Block(<<s, d>>), "e", Block(<<c>>)) : s \in Thrown, d \in Thrown, c \in Caught}

Throws == {
  Program(<<Let("r", Num(0)),
            Try(Block(<<Assign("r", Call("t", <<Num(0)>>))>>), "e", Block(<<PrintStmt(Var("e"))>>)),
            PrintStmt(Var("r"))>>,
          <<One, Toss, Define("t", <<"x">>, Block(<<
             Let("a", Arr(<<Num(1)>>)), Let("f", Var("one")), s, PrintStmt(Index(a, Num(0))),
             Return(Call("f", <<x>>))>>))>>) :
    s \in Attempts \cup {Count("i", 2, <<Assign("x", i), b>>) : b \in Attempts}} \cup
  {Program(<<Let("x", Num(0)), Let("a", Arr(<<x>>)), Let("f", Var("one")), s, PrintStmt(x)>>, <<One, Toss>>) :
     s \in Attempts}

(* Closures over variables of the top level, which are locals of main.     *)
TopStmts == {
  Assign("f", Keep(<<Inc("x", 1), Assign("p", Add(x, p)), Return(p)>>)),
  Count("i", 2, <<Let("y", i), Assign("f", Keep(<<Inc("y", 10), Return(Add(y, x))>>))>>),
  Block(<<Let("x", Num(7)), Assign("f", Keep(<<Inc("x", 1), Return(Add(x, p))>>))>>),
  Let("g", Var("f")),
  PrintStmt(Call("f", <<Num(3)>>)),
  PrintStmt(Call("g", <<x>>)),
  Inc("x", 5) }

TopLevel(k) == {
  Program(<<Let("x", Num(1)), Let("f", Var("one")), Let("g", Var("f"))>> \o b \o <<PrintStmt(x)>>, <<One>>) :
  b \in [1 .. k -> TopStmts]}

(* Expressions: operators inside operators, on either side, and under a    *)
(* sign; what is called or indexed and the result called or indexed again. *)
Nested(os) ==
  {Bin(o, Bin(r, Num(7), Num(2)), Num(3)) : o \in os, r \in os} \cup
  {Bin(o, Num(7), Bin(r, Num(2), Num(3))) : o \in os, r \in os} \cup
  {Unary("NEG", Bin(o, Num(2), Unary("NOT", Num(3)))) : o \in os} \cup
  {Bin(o, Unary("NEG", Num(2)), Unary("NEG", Unary("NEG", Num(3)))) : o \in os}

Pair == Define("pair", <<"x">>, Block(<<Return(Arr(<<x, Var("one"), Lambda(<<Return(Var("pair"))>>)>>))>>))
Suffixed == {
  Apply(Index(Call("pair", <<Num(4)>>), Num(1)), <<Num(5)>>),
  Index(Apply(Apply(Index(Call("pair", <<Num(4)>>), Num(2)), <<>>), <<Num(6)>>), Num(0)),
  Apply(Lambda(<<Return(Num(8))>>), <<>>),
  Unary("NEG", Index(Arr(<<Num(1), Num(2)>>), Bin("SUB", Num(2), Num(1)))),
  Apply(Var("one"), <<Index(MapOf(<<Text(Letters.v), Num(9)>>), Text(Letters.v))>>) }

Expressions(os) ==
  {Program(<<PrintStmt(e)>>, <<One, Pair>>) : e \in Nested(os) \cup Suffixed}

(* Statements that can be written in two ways or leave something out: an   *)
(* else after two ifs, loops without a part of their header, returns with  *)
(* nothing, calls of elements, functions declared in a function.           *)
The(t, f) == Index(t, Text(Letters[f]))
Set(t, f, e) == SetIndex(t, Text(Letters[f]), e)
Shout == Fn(<<"p">>, Block(<<PrintStmt(p), If(Less(p, Num(2)), Return(Nothing)), PrintStmt(Num(0)), Return(Var("one"))>>))

Forms == {
  If(Less(Num(1), x), IfElse(Less(x, Num(2)), PrintStmt(Num(1)), PrintStmt(Num(2)))),
  If(Less(x, Num(2)), IfElse(Less(x, Num(1)), PrintStmt(Num(3)), Inc("x", 2))),
  For(Nothing, Less(x, Num(4)), Nothing, Block(<<Inc("x", 1), If(Less(Num(3), x), Break), PrintStmt(x)>>)),
  For(Let("i", x), Nothing, Inc("i", 1), If(Less(Num(3), i), Break)),
  For(Assign("x", Num(0)), Nothing, Nothing, Block(<<OpIndex("ADD", Var("m"), Text(Letters.v), Num(1)), Break>>)),
  Apply(The(Var("m"), "get"), <<x>>),
  Apply(Apply(The(Var("m"), "get"), <<Num(2)>>), <<x>>),
  Block(<<Let("f", Keep(<<Inc("x", 1), Return(Bin("MUL", x, p))>>)), PrintStmt(Call("f", <<Num(2)>>))>>),
  Assign("x", Bin("MUL", x, Bin("SUB", x, Num(3)))),
  OpIndex("SUB", Var("m"), Text(Letters.v), Num(1)) }

Statements(k) == {
  Program(<<PrintStmt(Call("t", <<Num(2)>>))>>,
          <<One, Define("t", <<"x">>, Block(
             <<Let("m", MapOf(<<Text(Letters.v), Num(5), Text(Letters.get), Shout>>))>> \o b
             \o <<PrintStmt(The(Var("m"), "v")), PrintStmt(x), Return(Nothing)>>))>>) :
  b \in [1 .. k -> Forms]}

(* Texts with the characters that are escaped in files, and letters that   *)
(* stand for them there; some come twice, some differ by an escape.        *)
Characters == {10, 34, 92, 110}
TextsUpTo(k) == UNION {[1 .. n -> Characters] : n \in 0 .. k}

Texts(k) ==
  {Program(<<PrintStmt(Add(Text(s), Text(t))), PrintStmt(Bin("EQ", Text(t), Text(s))), PrintStmt(Text(s))>>, <<>>) :
     s \in TextsUpTo(k), t \in TextsUpTo(k)}

(* Classes: methods that use fields, parameters of init and each other, an *)
(* init that calls a method, two instances, a method taken out of its own. *)
This == Var("this")
InitBody == Block(
  <<Set(This, "v", x), Let("y", Apply(The(This, "inc"), <<Num(10)>>)), Set(This, "w", Arr(<<y>>))>>)
Counter == Class("Counter", Fn(<<"x">>, InitBody), <<
  Define("inc", <<"y">>, Block(<<OpIndex("ADD", This, Text(Letters.v), y), Inc("x", 1), Return(The(This, "v"))>>)),
  Define("get", <<>>, Block(<<Return(Add(Apply(The(This, "inc"), <<Num(1)>>), x))>>)) >>)
Empty == Class("Empty", Fn(<<>>, Block(<<>>)), <<Define("get", <<>>, Block(<<Return(This)>>))>>)

ClassStmts == {
  Let("a", Call("Counter", <<Num(20)>>)),
  Assign("b", Var("a")),
  PrintStmt(Apply(The(Var("a"), "inc"), <<Num(5)>>)),
  Apply(The(Var("b"), "get"), <<>>),
  Assign("g", The(Var("a"), "get")),
  PrintStmt(Call("g", <<>>)),
  Set(Var("b"), "v", Add(The(Var("a"), "v"), Index(The(Var("b"), "w"), Num(0)))),
  Set(Var("b"), "get", Var("g")),
  PrintStmt(Bin("EQ", Apply(The(Call("Empty", <<>>), "get"), <<>>), Var("b"))) }

Classes(k) == {
  Program(<<Let("a", Call("Counter", <<Num(1)>>)), Let("b", Call("Counter", <<Num(2)>>)),
            Let("g", The(Var("a"), "get"))>> \o s
          \o <<PrintStmt(The(Var("a"), "v")), PrintStmt(The(Var("b"), "v")), PrintStmt(Call("g", <<>>))>>,
          <<Counter, Empty>>) : s \in [1 .. k -> ClassStmts]}

(* Library calls.  Texts in texts: every way a short one can lie in        *)
(* another, over an end, twice, overlapping itself, not at all.            *)
LetterA == 97   Blank == 32   Dash == 45   Digit == 49   LetterZ == 90
Over(cs, k) == UNION {[1 .. n -> cs] : n \in 0 .. k}
PrintCall(f, es) == PrintStmt(Call(f, es))

Searches == {
  Program(<<PrintCall("str_find", <<s, t>>), PrintCall("str_starts_with", <<s, t>>),
            PrintCall("str_ends_with", <<s, t>>), Let("b", Call("str_split", <<s, t>>)),
            PrintCall("len", <<Var("b")>>), PrintStmt(Index(Var("b"), Num(0))),
            PrintCall("str_join", <<Var("b"), Text(<<Dash>>)>>)>>, <<>>) :
  s \in {Text(u) : u \in Over({LetterA, Blank}, 4)}, t \in {Text(u) : u \in Over({LetterA, Blank}, 2) \ {<<>>}}}

Conversion(f, u) == Program(<<PrintCall(f, <<Text(u)>>)>>, <<>>)
Conversions == {
  Conversion(f, u) : f \in {"str_trim", "str_upper", "str_lower", "len", "to_str", "to_num"},
                     u \in Over({Blank, Dash, Digit, LetterA, LetterZ}, 2)}
Blanks == {Conversion("to_num", u) : u \in Over({Blank}, 2) \ {<<>>}}

(* Ranges that stay in a text or an array of two, and that leave it.       *)
Bounds == {Minus(1), Num(0), Num(1), Num(2), Num(3)}
AtoB == Text(<<97, 98>>)
Ranges ==
  {Program(<<PrintCall("str_slice", <<AtoB, e, d>>)>>, <<>>) : e \in Bounds, d \in Bounds} \cup
  {Program(<<Let("b", Call("array_slice", <<Arr(<<Num(4), Num(5)>>), e, d>>)),
             PrintCall("len", <<Var("b")>>), PrintStmt(Index(Var("b"), Num(0)))>>, <<>>) : e \in Bounds, d \in Bounds} \cup
  {Program(<<PrintCall("str_at", <<AtoB, e>>), PrintCall("str_repeat", <<AtoB, e>>)>>, <<>>) : e \in Bounds} \cup
  {Program(<<PrintCall("str_repeat", <<AtoB, e>>), PrintCall("len", <<Call("array_range", <<e, Num(1)>>)>>)>>, <<>>) :
     e \in Bounds}

(* Arrays and maps that library functions change, under two names, and     *)
(* the new ones they make of them.                                         *)
held == Var("b")
table == Var("m")
LibraryStmts == {
  Assign("b", a),
  Assign("b", Call("array_reverse", <<a>>)),
  Assign("b", Call("array_concat", <<a, held>>)),
  Assign("b", Call("array_slice", <<a, Num(1), Call("len", <<a>>)>>)),
  Assign("b", Call("keys", <<table>>)),
  Assign("a", Call("values", <<table>>)),
  Assign("a", Call("array_range", <<Minus(1), Call("pop", <<held>>)>>)),
  Call("array_sort", <<held>>),
  Call("push", <<a, Call("type_of", <<held>>)>>),
  PrintCall("push", <<held, Call("max", <<Call("pop", <<a>>), Call("min", <<Num(2), Call("abs", <<Minus(3)>>)>>)>>)>>),
  PrintCall("array_find", <<held, Index(a, Num(1))>>),
  PrintCall("array_contains", <<a, Call("to_num", <<Txt>>)>>),
  PrintCall("del", <<table, Index(held, Num(0))>>),
  PrintCall("has_key", <<table, Call("to_str", <<Index(a, Num(0))>>)>>),
  SetIndex(table, Index(a, Num(0)), Call("len", <<table>>)) }

LibraryCalls(k) == {
  Program(<<Let("a", Arr(<<Num(7), Num(3), Num(5)>>)), Let("b", Arr(<<Txt, Text(<<51>>)>>)),
            Let("m", MapOf(<<Num(7), Num(1), Txt, Num(2), Num(3), Num(9)>>))>> \o s
          \o <<PrintCall("len", <<a>>), PrintCall("len", <<held>>), PrintCall("len", <<table>>),
               PrintStmt(Index(a, Num(0))), PrintStmt(Index(held, Add(Call("len", <<held>>), Minus(1))))>>, <<>>) :
  s \in [1 .. k -> LibraryStmts]}

(* Library functions as values: kept, passed, returned, compared, called   *)
(* with too few, with the wrong ones, in an order that counts.             *)
FunctionStmts == {
  Let("g", Var("len")),
  Let("g", Call("pick", <<>>)),
  PrintStmt(Call("g", <<AtoB>>)),
  PrintStmt(Call("g", <<Num(3)>>)),
  PrintStmt(Call("twice", <<Var("abs"), Minus(3)>>)),
  PrintStmt(Apply(Var("str_slice"), <<AtoB, Num(0), Num(1)>>)),
  PrintStmt(Apply(Var("str_at"), <<AtoB, Num(2)>>)),
  PrintStmt(Apply(Index(Arr(<<Var("str_find"), Var("str_repeat")>>), Num(1)), <<AtoB, Num(2)>>)),
  PrintStmt(Bin("EQ", Var("len"), Var("len"))),
  PrintStmt(Bin("EQ", Var("len"), Var("pick"))),
  Let("len", Var("type_of")) }

FunctionValues(k) == {
  Program(<<Let("g", Var("type_of"))>> \o s \o <<PrintStmt(Call("g", <<Text(<<>>)>>))>>,
          <<Twice, Define("pick", <<>>, Block(<<Return(Var("str_upper"))>>))>>) : s \in [1 .. k -> FunctionStmts]}

Libraries(k) == Searches \cup Conversions \cup Ranges \cup LibraryCalls(k) \cup FunctionValues(k)
================================================================================
