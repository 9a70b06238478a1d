---------------------------- MODULE NativePrograms -----------------------------
(***************************************************************************)
(* The programs of Samples on the native path: parsed, and compiled by     *)
(* codegen_x64.c.                                                          *)
(***************************************************************************)
EXTENDS NativeCodegen, Samples

L == INSTANCE Lexical
F == INSTANCE Parser
S == INSTANCE Source

(* An operator other than + on an element is not checked by the code: with *)
(* one, only programs whose elements are numbers where it comes are run.   *)
IsRawOp(s) == s.kind = "opset" /\ s.op # "ADD"

Checked(q) == L!Meaning(q).end = "fault" => \A k \in DOMAIN q.main : ~ IsRawOp(q.main[k])

(* Ranges that leave a text or an array, and a number of blanks, are left  *)
(* to the bytecode path: this one makes something of them.                 *)
Strict(q) == q \in Ranges \cup Blanks => L!Meaning(q).end # "fault"

(* A program, written and compiled, with what it should print and how it   *)
(* should end.                                                             *)
Image(q) ==
  LET s == F!Parse(S!WrittenProgram(q, FALSE))
      g == CodegenX64Program(s.node)
      m == L!Meaning(q)
  IN  [ok |-> s.ok /\ g.ok, code |-> Resolve(g.out), entry |-> Address(g.out, MainLabel), strings |-> g.strings,
       meaning |-> [out |-> IF m.end = "throw" THEN Append(m.out, L!Shown(m.val)) ELSE m.out, end |-> m.end]]

NativeCompiled ==
  LET programs == Loops(2) \cup Closures(2) \cup Calls \cup Operations(Operators)
                    \cup {q \in Elements(2) : Checked(q)} \cup TailCalls(8, 2) \cup Throws \cup TopLevel(2)
                    \cup Expressions(Operators) \cup Statements(2) \cup Classes(2) \cup Texts(1)
                    \cup {q \in Libraries(2) : Strict(q)}
  IN  {Image(q) : q \in programs}
================================================================================
