--------------------------- MODULE BytecodePrograms ----------------------------
(***************************************************************************)
(* The programs of Samples on the bytecode path: parsed, and compiled by   *)
(* codegen.c.                                                              *)
(***************************************************************************)
EXTENDS Codegen, Samples

L == INSTANCE Lexical
F == INSTANCE Parser
S == INSTANCE Source

(* A program, written and compiled, with what it should print and how it   *)
(* should end: the Images are those of the programs of interest.           *)
Image(q) ==
  LET s == F!Parse(S!WrittenProgram(q, TRUE))
      g == CodegenProgram(s.node)
      m == L!Meaning(q)
      carried == [k \in DOMAIN g.strings |-> S!Carried(g.strings[k])]
  IN  [ok |-> s.ok /\ g.ok /\ \A k \in DOMAIN carried : carried[k].ok,
       code |-> Resolve(g.out), globals |-> g.st.nextg, strings |-> [k \in DOMAIN carried |-> carried[k].text],
       meaning |-> [out |-> m.out, fault |-> m.end = "fault"]]

Compiled ==
  LET operators == Operators \cup {"MOD"}
      programs == Loops(3) \cup Closures(3) \cup Calls \cup Operations(operators) \cup Elements(2)
                    \cup Expressions(operators) \cup Statements(2) \cup Classes(2) \cup Texts(2)
                    \cup Libraries(2)
  IN  {Image(q) : q \in programs}

(* A closure that calls a function held by a parameter or a local of the   *)
(* function around it.                                                     *)
Applied(b) ==
  Program(<<Let("g", Call("wrap", <<Var("one")>>)), PrintStmt(Call("g", <<Num(3)>>))>>,
          <<One, Define("wrap", <<"p">>, Block(b))>>)

CalledCompiled ==
  {Image(Applied(<<Return(Fn(<<"x">>, Block(<<Return(Call("p", <<x>>))>>)))>>)),
   Image(Applied(<<Let("f", p), Return(Fn(<<"x">>, Block(<<Return(Call("f", <<x>>))>>)))>>))}
================================================================================
