------------------------------ MODULE BuildProofs ------------------------------
(***************************************************************************)
(* Proofs about Assembler, for files of any length and tables of any size: *)
(* every object it writes is one that the linker may rely on.              *)
(* Then about Linker, for any number of objects of any size: the program   *)
(* is the objects side by side, and every instruction keeps its meaning.   *)
(* Then about the two tools together: what calcasm guarantees is what      *)
(* calcld needs, so the proofs about each of them carry over to a whole    *)
(* build, for any number of files of any length.                           *)
(***************************************************************************)
EXTENDS Build, SequenceFacts, FiniteSetTheorems, SequenceTheorems

(* A label that the table does not define yet may be added to it.          *)
LEMMA UniqueAppend ==
  ASSUME NEW S, NEW table \in Seq(S), NEW e \in S,
         Unique(table), ~ Defines(table, e.name)
  PROVE  Unique(Append(table, e))
<1>1. /\ DOMAIN table = 1 .. Len(table) /\ Len(table) \in Nat
      /\ DOMAIN Append(table, e) = 1 .. Len(table) + 1
      /\ Append(table, e)[Len(table) + 1] = e
      /\ \A i \in 1 .. Len(table) : Append(table, e)[i] = table[i]
  BY AppendProperties, LenProperties
<1>2. QED
  BY <1>1 DEF Unique, Defines

(* Whatever holds of the elements of a table and of a new one holds of the *)
(* elements of the longer table.                                           *)
LEMMA AddressesAppend ==
  ASSUME NEW S, NEW table \in Seq(S), NEW e \in S, NEW n \in Nat,
         \A i \in DOMAIN table : table[i].addr <= n, e.addr <= n
  PROVE  \A i \in DOMAIN Append(table, e) : Append(table, e)[i].addr <= n
<1>1. /\ DOMAIN table = 1 .. Len(table) /\ Len(table) \in Nat
      /\ DOMAIN Append(table, e) = 1 .. Len(table) + 1
      /\ Append(table, e)[Len(table) + 1] = e
      /\ \A i \in 1 .. Len(table) : Append(table, e)[i] = table[i]
  BY AppendProperties, LenProperties
<1>2. QED
  BY <1>1

(* A label is added where the code ends, and nothing else changes.         *)
LEMMA LabelKeepsObject ==
  ASSUME NEW o \in Object, WellFormed(o), NEW n \in Name, LabelFits(o, n)
  PROVE  LET r == add_label(o, n) IN
         /\ r \in Object /\ WellFormed(r)
         /\ r.code = o.code /\ r.strings = o.strings
         /\ Len(r.syms) <= MaxSymbols \/ Len(r.syms) = Len(o.syms)
         /\ Len(r.locals) <= MaxSymbols \/ Len(r.locals) = Len(o.locals)
<1> DEFINE e == [name |-> n, addr |-> Len(o.code)]
<1>1. /\ o.code \in Seq(Insn) /\ o.syms \in Seq(Symbol(GlobalName))
      /\ o.locals \in Seq(Symbol(LocalName)) /\ o.strings \in Seq(Str)
  BY DEF Object
<1>2. Len(o.code) \in Nat /\ Len(o.syms) \in Nat /\ Len(o.locals) \in Nat
  BY <1>1, LenProperties
<1>3. MaxSymbols \in Nat
  BY LimitAssumption
<1>4. CASE n \in LocalName
  <2>1. e \in Symbol(LocalName)
    BY <1>2, <1>4 DEF Symbol
  <2>2. ~ Defines(o.locals, e.name) /\ Len(o.locals) < MaxSymbols
    BY <1>4 DEF LabelFits
  <2>3. add_label(o, n) = [o EXCEPT !.locals = Append(@, e)]
    BY <1>4 DEF add_label
  <2>4. /\ Append(o.locals, e) \in Seq(Symbol(LocalName))
        /\ Len(Append(o.locals, e)) = Len(o.locals) + 1
    BY <1>1, <2>1, AppendFacts
  <2>5. Unique(Append(o.locals, e))
    BY <1>1, <2>1, <2>2, UniqueAppend DEF WellFormed
  <2>6. \A i \in DOMAIN Append(o.locals, e) : Append(o.locals, e)[i].addr <= Len(o.code)
    <3>1. \A i \in DOMAIN o.locals : o.locals[i].addr <= Len(o.code)
      BY DEF WellFormed
    <3>2. e.addr <= Len(o.code)
      BY <1>2
    <3> HIDE DEF e
    <3>3. QED BY <1>1, <1>2, <2>1, <3>1, <3>2, AddressesAppend
  <2> HIDE DEF e
  <2>7. add_label(o, n) \in Object
    BY <2>3, <2>4 DEF Object
  <2>8. WellFormed(add_label(o, n))
    BY <2>3, <2>5, <2>6 DEF WellFormed, Object
  <2>9. QED
    BY <1>2, <1>3, <2>2, <2>3, <2>4, <2>7, <2>8 DEF Object
<1>5. CASE n \notin LocalName
  <2>1. e \in Symbol(GlobalName)
    BY <1>2, <1>5 DEF Symbol, Name
  <2>2. ~ Defines(o.syms, e.name) /\ Len(o.syms) < MaxSymbols
    BY <1>5 DEF LabelFits
  <2>3. add_label(o, n) = [o EXCEPT !.syms = Append(@, e)]
    BY <1>5 DEF add_label
  <2>4. /\ Append(o.syms, e) \in Seq(Symbol(GlobalName))
        /\ Len(Append(o.syms, e)) = Len(o.syms) + 1
    BY <1>1, <2>1, AppendFacts
  <2>5. Unique(Append(o.syms, e))
    BY <1>1, <2>1, <2>2, UniqueAppend DEF WellFormed
  <2>6. \A i \in DOMAIN Append(o.syms, e) : Append(o.syms, e)[i].addr <= Len(o.code)
    <3>1. \A i \in DOMAIN o.syms : o.syms[i].addr <= Len(o.code)
      BY DEF WellFormed
    <3>2. e.addr <= Len(o.code)
      BY <1>2
    <3> HIDE DEF e
    <3>3. QED BY <1>1, <1>2, <2>1, <3>1, <3>2, AddressesAppend
  <2> HIDE DEF e
  <2>7. add_label(o, n) \in Object
    BY <2>3, <2>4 DEF Object
  <2>8. WellFormed(add_label(o, n))
    BY <2>3, <2>5, <2>6 DEF WellFormed, Object
  <2>9. QED
    BY <1>2, <1>3, <2>2, <2>3, <2>4, <2>7, <2>8 DEF Object
<1>6. QED BY <1>4, <1>5

(* An instruction is added behind the others; labels stay in the code.     *)
LEMMA InsnKeepsObject ==
  ASSUME NEW o \in Object, WellFormed(o), NEW x \in ParsedInsn
  PROVE  LET r == [o EXCEPT !.code = Append(@, x)] IN
         /\ r \in Object /\ WellFormed(r)
         /\ Len(r.code) = Len(o.code) + 1
         /\ r.syms = o.syms /\ r.locals = o.locals /\ r.strings = o.strings
<1>1. o.code \in Seq(Insn) /\ x \in Insn /\ (x.op = "label" <=> x.sym # NoSym)
  BY DEF Object, ParsedInsn
<1>2. /\ DOMAIN o.code = 1 .. Len(o.code) /\ Len(o.code) \in Nat
      /\ Append(o.code, x) \in Seq(Insn)
      /\ Len(Append(o.code, x)) = Len(o.code) + 1
      /\ DOMAIN Append(o.code, x) = 1 .. Len(o.code) + 1
      /\ Append(o.code, x)[Len(o.code) + 1] = x
      /\ \A i \in 1 .. Len(o.code) : Append(o.code, x)[i] = o.code[i]
  BY <1>1, AppendProperties, LenProperties
<1> DEFINE c == Append(o.code, x)
           r == [o EXCEPT !.code = c]
<1>3. r.code = c /\ r.syms = o.syms /\ r.locals = o.locals /\ r.strings = o.strings
  BY DEF Object
<1>4. r \in Object
  BY <1>2 DEF Object
<1>5. \A i \in DOMAIN c : c[i].op = "label" <=> c[i].sym # NoSym
  BY <1>1, <1>2 DEF WellFormed
<1>6. \A i \in DOMAIN o.syms : o.syms[i].addr \in Nat /\ o.syms[i].addr <= Len(c)
  <2> TAKE i \in DOMAIN o.syms
  <2>1. o.syms[i] \in Symbol(GlobalName)
    BY ElementOfSeq, LenProperties DEF Object
  <2>2. QED BY <1>2, <2>1 DEF WellFormed, Symbol
<1>7. \A i \in DOMAIN o.locals : o.locals[i].addr \in Nat /\ o.locals[i].addr <= Len(c)
  <2> TAKE i \in DOMAIN o.locals
  <2>1. o.locals[i] \in Symbol(LocalName)
    BY ElementOfSeq, LenProperties DEF Object
  <2>2. QED BY <1>2, <2>1 DEF WellFormed, Symbol
<1> HIDE DEF c, r
<1>8. WellFormed(r)
  BY <1>3, <1>5, <1>6, <1>7 DEF WellFormed
<1>9. QED
  BY <1>2, <1>3, <1>4, <1>8 DEF c, r
-------------------------------------------------------------------------------
AsmInv == AsmTypeOK /\ ObjectWellFormed

LEMMA AsmInvInit == AsmInit => AsmInv
<1> SUFFICES ASSUME AsmInit PROVE AsmInv
  OBVIOUS
<1>1. \A S : <<>> \in Seq(S) /\ Len(<<>>) = 0 /\ DOMAIN <<>> = {}
  BY EmptySeq
<1>2. obj \in Object
  BY <1>1 DEF EmptyObject, AsmInit, Object
<1>3. WellFormed(obj)
  BY <1>1 DEF EmptyObject, AsmInit, WellFormed, Unique
<1>4. QED
  BY <1>1, <1>2, <1>3, AssemblerAssumption, LimitAssumption DEF EmptyObject, AsmInit, AsmInv, AsmTypeOK, ObjectWellFormed

(* Reading a line keeps the types of what has been read.                   *)
LEMMA ReadKeepsText ==
  ASSUME AsmInv, NEW line \in Lines, Read(line)
  PROVE  text' \in Seq(Lines) /\ line \in Line
BY AppendFacts, AssemblerAssumption DEF AsmInv, AsmTypeOK, Read

LEMMA AsmInvNext == AsmInv /\ [AsmNext]_avars => AsmInv'
<1> SUFFICES ASSUME AsmInv, [AsmNext]_avars PROVE AsmInv'
  OBVIOUS
<1>a. /\ obj \in Object /\ WellFormed(obj)
      /\ Len(obj.code) <= MaxCode /\ Len(obj.strings) <= MaxStrings
      /\ Len(obj.syms) <= MaxSymbols /\ Len(obj.locals) <= MaxSymbols
  BY DEF AsmInv, AsmTypeOK, ObjectWellFormed
<1>b. MaxCode \in Nat /\ MaxStrings \in Nat /\ MaxSymbols \in Nat
  BY LimitAssumption
<1>c. /\ obj.code \in Seq(Insn) /\ Len(obj.code) \in Nat
      /\ obj.strings \in Seq(Str) /\ Len(obj.strings) \in Nat
  BY <1>a, LenProperties DEF Object
<1>d. ASSUME NEW line \in Lines, Read(line), AsmFail PROVE AsmInv'
  <2>1. text' \in Seq(Lines)
    BY <1>d, ReadKeepsText
  <2>2. QED BY <1>a, <1>d, <2>1 DEF AsmInv, AsmTypeOK, ObjectWellFormed, AsmFail
<1>1. ASSUME NEW line \in Lines, var_count(line) PROVE AsmInv'
  <2>1. line.count \in Nat /\ text' \in Seq(Lines)
    BY <1>1, ReadKeepsText DEF var_count, Line
  <2>2. obj' = [obj EXCEPT !.vars = line.count] /\ asm' = asm
    BY <1>1 DEF var_count, Continue
  <2>3. obj' \in Object
    BY <1>a, <2>1, <2>2 DEF Object
  <2>4. /\ obj'.code = obj.code /\ obj'.strings = obj.strings
        /\ obj'.syms = obj.syms /\ obj'.locals = obj.locals
    BY <1>a, <2>2 DEF Object
  <2>5. QED
    BY <1>a, <2>1, <2>2, <2>3, <2>4 DEF AsmInv, AsmTypeOK, ObjectWellFormed, WellFormed
<1>2. ASSUME NEW line \in Lines, string(line) PROVE AsmInv'
  <2>1. line.string \in Str /\ text' \in Seq(Lines)
    BY <1>2, ReadKeepsText DEF string, Line
  <2>2. CASE StringFits(line.index)
    <3>1. /\ obj' = [obj EXCEPT !.strings = Append(@, line.string)] /\ asm' = asm
          /\ Len(obj.strings) < MaxStrings
      BY <1>2, <2>2 DEF string, Continue, StringFits
    <3>2. /\ Append(obj.strings, line.string) \in Seq(Str)
          /\ Len(Append(obj.strings, line.string)) = Len(obj.strings) + 1
      BY <1>c, <2>1, AppendFacts
    <3>3. obj' \in Object
      BY <1>a, <3>1, <3>2 DEF Object
    <3>4. /\ obj'.code = obj.code /\ obj'.syms = obj.syms /\ obj'.locals = obj.locals
          /\ Len(obj'.strings) = Len(obj.strings) + 1
      BY <1>a, <3>1, <3>2 DEF Object
    <3>5. QED
      BY <1>a, <1>b, <1>c, <2>1, <3>1, <3>3, <3>4
      DEF AsmInv, AsmTypeOK, ObjectWellFormed, WellFormed
  <2>3. CASE ~ StringFits(line.index)
    BY <1>d, <1>2, <2>3 DEF string
  <2>4. QED BY <2>2, <2>3
<1>3. ASSUME NEW line \in Lines, code(line) PROVE AsmInv'
  <2> DEFINE Fits == /\ line.label # NoSym => LabelFits(obj, line.label)
                     /\ line.insn # NoInsn => Len(obj.code) < MaxCode
             o == Labelled(line)
  <2>1. CASE Fits
    <3>1. /\ line.label \in Name \cup {NoSym} /\ line.insn \in ParsedInsn \cup {NoInsn}
          /\ text' \in Seq(Lines)
      BY <1>3, ReadKeepsText DEF code, Line
    <3>2. obj' = add_insn(o, line.insn) /\ asm' = asm
      BY <1>3, <2>1 DEF code, Continue
    <3>3. /\ o \in Object /\ WellFormed(o)
          /\ o.code = obj.code /\ o.strings = obj.strings
          /\ Len(o.syms) <= MaxSymbols /\ Len(o.locals) <= MaxSymbols
      <4>1. CASE line.label = NoSym
        BY <1>a, <4>1 DEF Labelled
      <4>2. CASE line.label # NoSym
        <5>1. line.label \in Name /\ LabelFits(obj, line.label)
          BY <2>1, <3>1, <4>2
        <5>2. o = add_label(obj, line.label)
          BY <4>2 DEF Labelled
        <5> HIDE DEF o
        <5>3. QED BY <1>a, <5>1, <5>2, LabelKeepsObject
      <4>3. QED BY <4>1, <4>2
    <3> HIDE DEF o
    <3>4. CASE line.insn = NoInsn
      <4>1. obj' = o
        BY <3>2, <3>4 DEF add_insn
      <4>2. QED
        BY <1>a, <3>1, <3>2, <3>3, <4>1 DEF AsmInv, AsmTypeOK, ObjectWellFormed
    <3>5. CASE line.insn # NoInsn
      <4>1. obj' = [o EXCEPT !.code = Append(@, line.insn)] /\ line.insn \in ParsedInsn
        BY <3>1, <3>2, <3>5 DEF add_insn
      <4>2. Len(obj.code) < MaxCode
        BY <2>1, <3>5
      <4>3. /\ obj' \in Object /\ WellFormed(obj')
            /\ Len(obj'.code) = Len(o.code) + 1
            /\ obj'.syms = o.syms /\ obj'.locals = o.locals /\ obj'.strings = o.strings
        BY <3>3, <4>1, InsnKeepsObject
      <4>4. QED
        BY <1>a, <1>b, <1>c, <3>1, <3>2, <3>3, <4>2, <4>3 DEF AsmInv, AsmTypeOK, ObjectWellFormed
    <3>6. QED BY <3>4, <3>5
  <2>2. CASE ~ Fits
    <3>1. Read(line) /\ AsmFail
      BY <1>3, <2>2 DEF code
    <3>2. QED BY <1>d, <3>1
  <2>3. QED BY <2>1, <2>2
<1>4. ASSUME NEW line \in Lines, bad(line) PROVE AsmInv'
  BY <1>d, <1>4 DEF bad
<1>5. CASE WriteObject
  BY <1>a, <1>5 DEF WriteObject, AsmInv, AsmTypeOK, ObjectWellFormed
<1>6. CASE UNCHANGED avars
  BY <1>6 DEF avars, AsmInv, AsmTypeOK, ObjectWellFormed
<1>7. QED
  BY <1>1, <1>2, <1>3, <1>4, <1>5, <1>6 DEF AsmNext

(* Whatever the file, the label tables and the pool keep their limits and  *)
(* an object that is written is well formed: calcld may rely on it.        *)
THEOREM ObjectCorrect == AsmSpec => [](AsmTypeOK /\ ObjectWellFormed)
<1>1. AsmInv => AsmTypeOK /\ ObjectWellFormed
  BY DEF AsmInv
<1>2. QED
  BY AsmInvInit, AsmInvNext, <1>1, PTL DEF AsmSpec

-------------------------------------------------------------------------------
(* Labels.  The invariant names an entry of a table where the property     *)
(* speaks of what a search finds, and knows how many instructions have     *)
(* been read.                                                              *)

(* The label n of a line stands in its table with address a.               *)
Entered(o, n, a) ==
  LET table == IF n \in LocalName THEN o.locals ELSE o.syms
  IN  \E e \in DOMAIN table : table[e].name = n /\ table[e].addr = a

IsInsn(line) == line.kind = "code" /\ line.insn # NoInsn

Before(i) == Cardinality({j \in InsnLines : j < i})

LabelInv == asm # "failed" =>
  /\ Cardinality(InsnLines) = Len(obj.code)
  /\ \A i \in DOMAIN text : text[i].kind = "code" =>
       /\ text[i].label # NoSym => Entered(obj, text[i].label, Before(i))
       /\ text[i].insn # NoInsn => /\ Before(i) + 1 \in 1 .. Len(obj.code)
                                   /\ obj.code[Before(i) + 1] = text[i].insn

(* The search finds the entry of a label, since there is only one.         *)
LEMMA FoundOnce ==
  ASSUME NEW S, NEW table \in Seq(S), Unique(table), NEW n, NEW a,
         NEW e \in DOMAIN table, table[e].name = n, table[e].addr = a
  PROVE  Defines(table, n) /\ find_in(table, n) = a
<1>1. \A i \in DOMAIN table : i \in Nat /\ (table[i].name = n => i = e)
  BY LenProperties DEF Unique
<1>2. \A i \in DOMAIN table :
        (table[i].name = n /\ \A j \in DOMAIN table : table[j].name = n => i <= j) <=> i = e
  BY <1>1
<1>3. QED BY <1>2 DEF find_in, Defines

LEMMA LabelInvLeads == AsmInv /\ LabelInv => LabelsLead
<1> SUFFICES ASSUME AsmInv, LabelInv, asm # "failed", NEW i \in DOMAIN text, text[i].kind = "code"
             PROVE  LET n      == text[i].label
                        table  == IF n \in LocalName THEN obj.locals ELSE obj.syms
                    IN  /\ n # NoSym => Defines(table, n) /\ find_in(table, n) = Before(i)
                        /\ text[i].insn # NoInsn => obj.code[Before(i) + 1] = text[i].insn
  BY DEF LabelsLead, Before
<1> DEFINE n == text[i].label
           table == IF n \in LocalName THEN obj.locals ELSE obj.syms
<1>1. Unique(table) /\ table \in Seq(Symbol(LocalName) \cup Symbol(GlobalName))
  <2>1. /\ obj.locals \in Seq(Symbol(LocalName)) /\ obj.syms \in Seq(Symbol(GlobalName))
        /\ Unique(obj.locals) /\ Unique(obj.syms)
    BY DEF AsmInv, AsmTypeOK, ObjectWellFormed, WellFormed, Object
  <2>2. QED BY <2>1
<1>2. text[i].insn # NoInsn => obj.code[Before(i) + 1] = text[i].insn
  BY DEF LabelInv
<1>3. n # NoSym => \E e \in DOMAIN table : table[e].name = n /\ table[e].addr = Before(i)
  BY DEF LabelInv, Entered
<1> HIDE DEF table
<1>4. n # NoSym => Defines(table, n) /\ find_in(table, n) = Before(i)
  BY <1>1, <1>3, FoundOnce
<1>5. QED BY <1>2, <1>4 DEF table

(* A line more: the lines before keep their number of instructions.        *)
LEMMA LinesCounted ==
  ASSUME text \in Seq(Lines), NEW line \in Lines, text' = Append(text, line)
  PROVE  /\ Len(text) \in Nat /\ DOMAIN text = 1 .. Len(text) /\ DOMAIN text' = 1 .. Len(text) + 1
         /\ text'[Len(text) + 1] = line /\ \A i \in 1 .. Len(text) : text'[i] = text[i]
         /\ \A i \in 1 .. Len(text) : Before(i)' = Before(i)
         /\ \A i : i = Len(text) + 1 => Before(i)' = Cardinality(InsnLines)
         /\ Cardinality(InsnLines') = Cardinality(InsnLines) + (IF IsInsn(line) THEN 1 ELSE 0)
         /\ Cardinality(InsnLines) \in Nat
<1>1. /\ Len(text) \in Nat /\ DOMAIN text = 1 .. Len(text) /\ DOMAIN text' = 1 .. Len(text) + 1
      /\ text'[Len(text) + 1] = line /\ \A i \in 1 .. Len(text) : text'[i] = text[i]
  BY AppendProperties, LenProperties
<1> DEFINE L == Len(text)
<1>2. InsnLines \subseteq 1 .. L /\ IsFiniteSet(InsnLines)
  <2>1. InsnLines \subseteq 1 .. L
    BY <1>1 DEF InsnLines
  <2>2. IsFiniteSet(1 .. L)
    BY <1>1, FS_Interval
  <2>3. QED BY <2>1, <2>2, FS_Subset
<1>3. InsnLines' = {i \in 1 .. L + 1 : IsInsn(text'[i])} /\ InsnLines = {i \in 1 .. L : IsInsn(text[i])}
  BY <1>1 DEF InsnLines, IsInsn
<1>4. InsnLines' = IF IsInsn(line) THEN InsnLines \cup {L + 1} ELSE InsnLines
  BY <1>1, <1>3
<1>5. L + 1 \notin InsnLines
  BY <1>1, <1>2
<1>6. Cardinality(InsnLines \cup {L + 1}) = Cardinality(InsnLines) + 1 /\ Cardinality(InsnLines) \in Nat
  BY <1>2, <1>5, FS_AddElement, FS_CardinalityType
<1>7. \A i \in 1 .. L : {j \in InsnLines' : j < i} = {j \in InsnLines : j < i}
  BY <1>1, <1>2, <1>4
<1>8. {j \in InsnLines' : j < L + 1} = InsnLines
  <2>1. \A j \in InsnLines : j \in Nat /\ j < L + 1
    BY <1>1, <1>2
  <2>2. InsnLines' \subseteq InsnLines \cup {L + 1} /\ InsnLines \subseteq InsnLines'
    BY <1>4
  <2>3. QED BY <1>1, <2>1, <2>2
<1>9. /\ \A i \in 1 .. L : Before(i)' = Before(i)
      /\ \A i : i = L + 1 => Before(i)' = Cardinality(InsnLines)
  <2>1. \A i : Before(i)' = Cardinality({j \in InsnLines' : j < i})
    BY DEF Before
  <2>2. \A i \in 1 .. L : Before(i)' = Before(i)
    BY <1>7, <2>1 DEF Before
  <2>3. QED BY <1>1, <1>8, <2>1, <2>2
<1>10. Cardinality(InsnLines') = Cardinality(InsnLines) + (IF IsInsn(line) THEN 1 ELSE 0)
  BY <1>4, <1>6
<1>11. QED BY <1>1, <1>6, <1>9, <1>10

(* What a line does to the invariant: nothing is taken out of the tables,  *)
(* a label enters at the end of the code, and an instruction behind it.    *)
LEMMA LineKeepsLabels ==
  ASSUME AsmInv, LabelInv, asm # "failed", NEW line \in Lines, text' = Append(text, line),
         IsInsn(line) => line.insn \in Insn,
         obj'.code = IF IsInsn(line) THEN Append(obj.code, line.insn) ELSE obj.code,
         \A e \in DOMAIN obj.syms : e \in DOMAIN obj'.syms /\ obj'.syms[e] = obj.syms[e],
         \A e \in DOMAIN obj.locals : e \in DOMAIN obj'.locals /\ obj'.locals[e] = obj.locals[e],
         line.kind = "code" /\ line.label # NoSym => Entered(obj', line.label, Len(obj.code))
  PROVE  LabelInv'
<1> DEFINE L == Len(text)
           c == obj.code
           d == obj'.code
<1>1. text \in Seq(Lines) /\ c \in Seq(Insn) /\ Len(c) \in Nat
  BY LenProperties DEF AsmInv, AsmTypeOK, Object
<1>2. /\ L \in Nat /\ DOMAIN text = 1 .. L /\ DOMAIN text' = 1 .. L + 1
      /\ text'[L + 1] = line /\ \A i \in 1 .. L : text'[i] = text[i]
      /\ \A i \in 1 .. L : Before(i)' = Before(i)
      /\ \A i : i = L + 1 => Before(i)' = Cardinality(InsnLines)
      /\ Cardinality(InsnLines') = Cardinality(InsnLines) + (IF IsInsn(line) THEN 1 ELSE 0)
  BY <1>1, LinesCounted
<1>3. Cardinality(InsnLines) = Len(c)
  BY DEF LabelInv
<1>4. /\ Len(d) = Len(c) + (IF IsInsn(line) THEN 1 ELSE 0)
      /\ \A i \in 1 .. Len(c) : d[i] = c[i]
      /\ IsInsn(line) => d[Len(c) + 1] = line.insn
  <2> HIDE DEF c, d
  <2>1. d = IF IsInsn(line) THEN Append(c, line.insn) ELSE c
    BY DEF c, d
  <2>2. CASE IsInsn(line)
    BY ONLY <1>1, <2>1, <2>2, IsInsn(line) => line.insn \in Insn, AppendFacts
  <2>3. CASE ~ IsInsn(line)
    BY ONLY <1>1, <2>1, <2>3
  <2>4. QED BY <2>2, <2>3
<1>5. \A n, a : Entered(obj, n, a) => Entered(obj', n, a)
  BY DEF Entered
<1>6. ASSUME NEW i \in 1 .. L, text[i].kind = "code"
      PROVE  /\ text[i].label # NoSym => Entered(obj', text[i].label, Before(i))
             /\ text[i].insn # NoInsn => Before(i) + 1 \in 1 .. Len(d) /\ d[Before(i) + 1] = text[i].insn
  <2>1. /\ text[i].label # NoSym => Entered(obj, text[i].label, Before(i))
        /\ text[i].insn # NoInsn => Before(i) + 1 \in 1 .. Len(c) /\ c[Before(i) + 1] = text[i].insn
    BY <1>2, <1>6 DEF LabelInv
  <2> HIDE DEF c, d
  <2>2. QED BY <1>1, <1>4, <1>5, <2>1
<1> HIDE DEF L, c, d
<1>7. SUFFICES ASSUME NEW i \in 1 .. L + 1, text'[i].kind = "code"
               PROVE  /\ text'[i].label # NoSym => Entered(obj', text'[i].label, Before(i)')
                      /\ text'[i].insn # NoInsn => /\ Before(i)' + 1 \in 1 .. Len(d)
                                                   /\ d[Before(i)' + 1] = text'[i].insn
  BY <1>1, <1>2, <1>3, <1>4 DEF LabelInv, d
<1>8. CASE i \in 1 .. L
  BY <1>2, <1>6, <1>7, <1>8
<1>9. CASE i = L + 1
  <2>1. text'[i] = line /\ Before(i)' = Len(c)
    BY <1>2, <1>3, <1>9
  <2>2. line.label # NoSym => Entered(obj', line.label, Len(c))
    BY <1>7, <2>1 DEF c
  <2>3. line.insn # NoInsn => Len(c) + 1 \in 1 .. Len(d) /\ d[Len(c) + 1] = line.insn
    BY <1>1, <1>4, <1>7, <2>1 DEF IsInsn
  <2>4. QED BY <2>1, <2>2, <2>3
<1>10. QED BY <1>2, <1>7, <1>8, <1>9

(* Nothing of a table is lost.                                             *)
Extends(table, longer) == \A e \in DOMAIN table : e \in DOMAIN longer /\ longer[e] = table[e]

LEMMA AppendExtends ==
  ASSUME NEW S, NEW table \in Seq(S), NEW x \in S
  PROVE  /\ Extends(table, Append(table, x))
         /\ \E e \in DOMAIN Append(table, x) : Append(table, x)[e] = x
<1>1. /\ DOMAIN table = 1 .. Len(table) /\ Len(table) \in Nat
      /\ DOMAIN Append(table, x) = 1 .. Len(table) + 1
      /\ Append(table, x)[Len(table) + 1] = x
      /\ \A i \in 1 .. Len(table) : Append(table, x)[i] = table[i]
  BY AppendProperties, LenProperties
<1>2. QED BY <1>1 DEF Extends

(* A label is entered with the length of the code.                         *)
LEMMA LabelEnters ==
  ASSUME NEW o \in Object, NEW n \in Name
  PROVE  LET r == add_label(o, n) IN
         /\ r.code = o.code /\ Extends(o.syms, r.syms) /\ Extends(o.locals, r.locals)
         /\ Entered(r, n, Len(o.code))
<1> DEFINE x == [name |-> n, addr |-> Len(o.code)]
<1>1. /\ o.code \in Seq(Insn) /\ o.syms \in Seq(Symbol(GlobalName)) /\ o.locals \in Seq(Symbol(LocalName))
      /\ Len(o.code) \in Nat
  BY LenProperties DEF Object
<1>2. \A table : Extends(table, table)
  BY DEF Extends
<1>3. CASE n \in LocalName
  <2>1. x \in Symbol(LocalName)
    BY <1>1, <1>3 DEF Symbol
  <2>2. /\ add_label(o, n).locals = Append(o.locals, x) /\ add_label(o, n).syms = o.syms
        /\ add_label(o, n).code = o.code
    BY <1>3 DEF add_label, Object
  <2> HIDE DEF x
  <2>3. Extends(o.locals, Append(o.locals, x)) /\ \E e \in DOMAIN Append(o.locals, x) : Append(o.locals, x)[e] = x
    <3>1. \A table \in Seq(Symbol(LocalName)), y \in Symbol(LocalName) :
            Extends(table, Append(table, y)) /\ \E e \in DOMAIN Append(table, y) : Append(table, y)[e] = y
      BY AppendExtends
    <3>2. QED BY <1>1, <2>1, <3>1
  <2>4. Entered(add_label(o, n), n, Len(o.code))
    BY <1>3, <2>2, <2>3 DEF Entered, x
  <2>5. QED BY <1>2, <2>2, <2>3, <2>4
<1>4. CASE n \notin LocalName
  <2>1. x \in Symbol(GlobalName)
    BY <1>1, <1>4 DEF Symbol, Name
  <2>2. /\ add_label(o, n).syms = Append(o.syms, x) /\ add_label(o, n).locals = o.locals
        /\ add_label(o, n).code = o.code
    BY <1>4 DEF add_label, Object
  <2> HIDE DEF x
  <2>3. Extends(o.syms, Append(o.syms, x)) /\ \E e \in DOMAIN Append(o.syms, x) : Append(o.syms, x)[e] = x
    <3>1. \A table \in Seq(Symbol(GlobalName)), y \in Symbol(GlobalName) :
            Extends(table, Append(table, y)) /\ \E e \in DOMAIN Append(table, y) : Append(table, y)[e] = y
      BY AppendExtends
    <3>2. QED BY <1>1, <2>1, <3>1
  <2>4. Entered(add_label(o, n), n, Len(o.code))
    BY <1>4, <2>2, <2>3 DEF Entered, x
  <2>5. QED BY <1>2, <2>2, <2>3, <2>4
<1>5. QED BY <1>3, <1>4

LEMMA LabelInvInit == AsmInit => LabelInv
<1> SUFFICES ASSUME AsmInit PROVE LabelInv
  OBVIOUS
<1>1. text = <<>> /\ obj.code = <<>> /\ DOMAIN text = {} /\ Len(obj.code) = 0
  BY EmptySeq DEF AsmInit, EmptyObject
<1>2. InsnLines = {}
  BY <1>1 DEF InsnLines
<1>3. QED BY <1>1, <1>2, FS_EmptySet DEF LabelInv

LEMMA LabelInvNext == AsmInv /\ LabelInv /\ [AsmNext]_avars => LabelInv'
<1> SUFFICES ASSUME AsmInv, LabelInv, [AsmNext]_avars PROVE LabelInv'
  OBVIOUS
<1>a. \A table : Extends(table, table)
  BY DEF Extends
<1>b. obj \in Object
  BY DEF AsmInv, AsmTypeOK
<1>c. AsmFail => LabelInv'
  BY DEF AsmFail, LabelInv
<1>d. \A line : Read(line) => asm # "failed" /\ text' = Append(text, line)
  BY DEF Read
<1>1. ASSUME NEW line \in Lines, var_count(line) \/ string(line) PROVE LabelInv'
  <2>1. CASE AsmFail
    BY <1>c, <2>1
  <2>2. CASE ~ AsmFail
    <3>1. /\ line.kind # "code" /\ ~ IsInsn(line) /\ Read(line)
          /\ obj'.code = obj.code /\ obj'.syms = obj.syms /\ obj'.locals = obj.locals
      BY <1>1, <1>b, <2>2 DEF var_count, string, Continue, IsInsn, Object
    <3>2. QED BY <1>a, <1>d, <3>1, LineKeepsLabels DEF Extends
  <2>3. QED BY <2>1, <2>2
<1>2. ASSUME NEW line \in Lines, code(line) PROVE LabelInv'
  <2>1. CASE AsmFail
    BY <1>c, <2>1
  <2>2. CASE ~ AsmFail
    <3> DEFINE o == Labelled(line)
    <3>1. /\ line.kind = "code" /\ Read(line) /\ line \in Line
          /\ obj' = add_insn(o, line.insn)
          /\ line.label \in Name \cup {NoSym} /\ line.insn \in ParsedInsn \cup {NoInsn}
          /\ line.label # NoSym => LabelFits(obj, line.label)
      BY <1>2, <2>2, AssemblerAssumption DEF code, Continue, Line
    <3>2. /\ o.code = obj.code /\ Extends(obj.syms, o.syms) /\ Extends(obj.locals, o.locals)
          /\ line.label # NoSym => Entered(o, line.label, Len(obj.code))
          /\ o \in Object
      <4>1. CASE line.label = NoSym
        BY <1>a, <1>b, <4>1 DEF Labelled
      <4>2. CASE line.label # NoSym
        <5>1. line.label \in Name /\ LabelFits(obj, line.label) /\ WellFormed(obj)
          BY <3>1, <4>2 DEF AsmInv, ObjectWellFormed
        <5>2. o = add_label(obj, line.label)
          BY <4>2 DEF Labelled
        <5> HIDE DEF o
        <5>3. QED BY <1>b, <5>1, <5>2, LabelKeepsObject, LabelEnters
      <4>3. QED BY <4>1, <4>2
    <3> HIDE DEF o
    <3>3. /\ obj'.code = IF IsInsn(line) THEN Append(obj.code, line.insn) ELSE obj.code
          /\ obj'.syms = o.syms /\ obj'.locals = o.locals
      BY <3>1, <3>2 DEF add_insn, IsInsn, Object
    <3>4. IsInsn(line) => line.insn \in Insn
      BY <3>1 DEF IsInsn, ParsedInsn
    <3>5. line.label # NoSym => Entered(obj', line.label, Len(obj.code))
      BY <3>2, <3>3 DEF Entered
    <3>6. QED BY <1>d, <3>1, <3>2, <3>3, <3>4, <3>5, LineKeepsLabels DEF Extends
  <2>3. QED BY <2>1, <2>2
<1>3. ASSUME NEW line \in Lines, bad(line) PROVE LabelInv'
  BY <1>3, <1>c DEF bad
<1>4. CASE WriteObject \/ UNCHANGED avars
  <2>1. text' = text /\ obj' = obj /\ (asm' # "failed" => asm # "failed")
    BY <1>4 DEF WriteObject, avars
  <2>2. InsnLines' = InsnLines /\ \A i : Before(i)' = Before(i)
    BY <2>1 DEF InsnLines, Before
  <2>3. QED BY <2>1, <2>2 DEF LabelInv
<1>5. QED BY <1>1, <1>2, <1>3, <1>4 DEF AsmNext

(* In every file that calcasm accepts, of any length, a label stands for   *)
(* the number of instructions before its line, so that a jump to it        *)
(* reaches the instruction behind it, and the instructions of the object   *)
(* are those of the file, in order.                                        *)
THEOREM LabelsCorrect == AsmSpec => []LabelsLead
<1>1. QED
  BY AsmInvInit, AsmInvNext, LabelInvInit, LabelInvNext, LabelInvLeads, PTL DEF AsmSpec
-------------------------------------------------------------------------------
(* Positions in a range that begins behind the first a of m positions.     *)
LEMMA InRange ==
  ASSUME NEW a \in Nat, NEW n \in Nat, NEW m \in Nat, a + n <= m, NEW i \in 1 .. n
  PROVE  a + i \in 1 .. m
OBVIOUS

LEMMA NotGreater ==
  ASSUME NEW a \in Nat, NEW b \in Nat, NEW m \in Nat, ~ (a + b > m)
  PROVE  a + b <= m
OBVIOUS

(* A search for a name that is there once returns its address.             *)
LEMMA FindUnique ==
  ASSUME NEW S, NEW table \in Seq(S), Unique(table), NEW i \in DOMAIN table
  PROVE  find_in(table, table[i].name) = table[i].addr
<1> DEFINE n == table[i].name
           First(j) == j \in DOMAIN table /\ table[j].name = n
                         /\ \A l \in DOMAIN table : table[l].name = n => j <= l
<1>1. DOMAIN table = 1 .. Len(table) /\ Len(table) \in Nat
  BY LenProperties
<1>2. First(i)
  BY <1>1 DEF Unique
<1>3. \A j : First(j) => j = i
  BY DEF Unique
<1>4. (CHOOSE j \in DOMAIN table : table[j].name = n
         /\ \A l \in DOMAIN table : table[l].name = n => j <= l) = i
  BY <1>2, <1>3
<1>5. QED BY <1>4 DEF find_in

(* The fields of an object that may be linked.                             *)
LEMMA ObjectFacts ==
  ASSUME NEW o \in Objects
  PROVE  /\ o.code \in Seq(Insn) /\ o.strings \in Seq(Str) /\ o.vars \in Nat
         /\ o.syms \in Seq(Symbol(GlobalName)) /\ o.locals \in Seq(Symbol(LocalName))
         /\ Unique(o.syms) /\ Unique(o.locals)
         /\ \A i \in DOMAIN o.code : o.code[i].op = "label" <=> o.code[i].sym # NoSym
         /\ Len(o.code) \in Nat /\ Len(o.strings) \in Nat /\ Len(o.syms) \in Nat
         /\ DOMAIN o.code = 1 .. Len(o.code) /\ DOMAIN o.strings = 1 .. Len(o.strings)
         /\ DOMAIN o.syms = 1 .. Len(o.syms)
<1>1. o \in Object /\ WellFormed(o)
  BY DEF Objects
<1>2. /\ o.code \in Seq(Insn) /\ o.strings \in Seq(Str) /\ o.vars \in Nat
      /\ o.syms \in Seq(Symbol(GlobalName)) /\ o.locals \in Seq(Symbol(LocalName))
  BY <1>1 DEF Object
<1>3. QED
  BY <1>1, <1>2, LenProperties DEF WellFormed

(* A name that a table of symbols defines is found at a natural number.    *)
LEMMA FoundIsNat ==
  ASSUME NEW N, NEW table \in Seq(Symbol(N)), Unique(table), NEW n, Defines(table, n)
  PROVE  find_in(table, n) \in Nat
<1>1. PICK i \in DOMAIN table : table[i].name = n
  BY DEF Defines
<1>2. table[i] \in Symbol(N)
  BY ElementOfSeq, LenProperties
<1>3. QED
  BY <1>1, <1>2, FindUnique DEF Symbol

(* What becomes of an instruction, by the cases of its operand.            *)
LEMMA RelocatedFacts ==
  ASSUME NEW o \in Objects, NEW k \in DOMAIN o.code,
         NEW p \in [code : Nat, vars : Nat, strings : Nat]
  PROVE  LET ins == o.code[k]
             r   == Relocated(ins, o, p)
         IN  /\ r \in Insn /\ r.op = ins.op
             /\ IsLocal(ins, o) =>
                  r.sym = NoSym /\ r.arg = p.code + find_in(o.locals, ins.sym)
             /\ ~ IsLocal(ins, o) => r.sym = ins.sym
             /\ ins.op = "slot" => r.arg = ins.arg + p.vars
             /\ ins.op = "string" => r.arg = ins.arg + p.strings
             /\ ins.op = "plain" => r.arg = ins.arg
<1> DEFINE ins == o.code[k]
<1>1. ins \in Insn /\ (ins.op = "label" <=> ins.sym # NoSym)
  BY ObjectFacts, ElementOfSeq
<1> HIDE DEF ins
<1>2. /\ ins.op \in {"slot", "string", "label", "plain"} /\ ins.arg \in Nat
      /\ ins.sym \in Name \cup {NoSym}
  BY <1>1 DEF Insn
<1>3. p.code \in Nat /\ p.vars \in Nat /\ p.strings \in Nat
  OBVIOUS
<1>4. IsLocal(ins, o) => find_in(o.locals, ins.sym) \in Nat /\ ins.op = "label"
  BY <1>1, ObjectFacts, FoundIsNat DEF IsLocal
<1>5. /\ Operand(ins, o, p) \in Nat
      /\ IsLocal(ins, o) => Operand(ins, o, p) = p.code + find_in(o.locals, ins.sym)
      /\ ins.op = "slot" => Operand(ins, o, p) = ins.arg + p.vars
      /\ ins.op = "string" => Operand(ins, o, p) = ins.arg + p.strings
      /\ ins.op = "plain" => Operand(ins, o, p) = ins.arg
  BY <1>2, <1>3, <1>4 DEF Operand
<1>6. QED
  BY <1>2, <1>5 DEF Relocated, Insn, ins
-------------------------------------------------------------------------------
(* The strengthening that is inductive.                                    *)

PlacesKnown ==
  /\ Len(place) <= Len(inputs)
  /\ ld # "failed" => Len(place) = Len(inputs)

StringsKept == \A k \in DOMAIN place : \A i \in DOMAIN inputs[k].strings :
  strings[place[k].strings + i] = inputs[k].strings[i]

(* Before the second pass the program holds what the first pass made.      *)
CodeMerged == ld = "merging" =>
  \A k \in DOMAIN place : \A i \in DOMAIN inputs[k].code :
    linked[place[k].code + i] = Relocated(inputs[k].code[i], inputs[k], place[k])

Export(k, i) == [name |-> inputs[k].syms[i].name,
                 addr |-> place[k].code + inputs[k].syms[i].addr]

(* The table of exported labels is those of the objects, each once.        *)
GlobalsExact ==
  /\ \A g \in DOMAIN globals : \E k \in DOMAIN place : \E i \in DOMAIN inputs[k].syms :
       globals[g] = Export(k, i)
  /\ \A k \in DOMAIN place : \A i \in DOMAIN inputs[k].syms :
       Defines(globals, inputs[k].syms[i].name)
  /\ Unique(globals)

ExportedOnce == \A k, l \in DOMAIN place : \A n \in GlobalName :
  Defines(inputs[k].syms, n) /\ Defines(inputs[l].syms, n) => k = l

LinkInv == /\ LinkTypeOK /\ PlacesKnown /\ Separate /\ StringsKept /\ CodeMerged
       /\ GlobalsExact /\ ExportedOnce /\ ImageFaithful

LEMMA LinkInvInit == LinkInit => LinkInv
<1> SUFFICES ASSUME LinkInit PROVE LinkInv
  OBVIOUS
<1>1. /\ \A S : <<>> \in Seq(S)
      /\ Len(<<>>) = 0 /\ DOMAIN <<>> = {}
  BY EmptySeq
<1>2. LinkTypeOK
  BY ONLY <1>1, LinkInit, LimitAssumption DEF LinkInit, LinkTypeOK
<1>3. QED
  BY ONLY <1>1, <1>2, LinkInit
  DEF LinkInit, LinkInv, PlacesKnown, Separate, StringsKept, CodeMerged, GlobalsExact,
      ExportedOnce, ImageFaithful, Unique

(* Lengths and elements before a step.                                     *)
LEMMA SizeFacts ==
  ASSUME LinkTypeOK
  PROVE  /\ DOMAIN inputs = 1 .. Len(inputs) /\ Len(inputs) \in Nat
         /\ DOMAIN place = 1 .. Len(place) /\ Len(place) \in Nat
         /\ DOMAIN linked = 1 .. Len(linked) /\ Len(linked) \in Nat
         /\ DOMAIN globals = 1 .. Len(globals) /\ Len(globals) \in Nat
         /\ Len(strings) \in Nat /\ total_vars \in Nat
         /\ \A k \in DOMAIN inputs : inputs[k] \in Objects
         /\ \A k \in DOMAIN place : place[k] \in [code : Nat, vars : Nat, strings : Nat]
         /\ \A j \in DOMAIN linked : linked[j] \in Insn
         /\ \A g \in DOMAIN globals : globals[g] \in Symbol(GlobalName)
<1>1. /\ inputs \in Seq(Objects) /\ place \in Seq([code : Nat, vars : Nat, strings : Nat])
      /\ linked \in Seq(Insn) /\ globals \in Seq(Symbol(GlobalName))
      /\ strings \in Seq(Str) /\ total_vars \in Nat
  BY DEF LinkTypeOK
<1>2. QED
  BY ONLY <1>1, LenProperties, ElementOfSeq

(* What merging object o changes: it comes behind everything else.         *)
Merging(o) ==
  /\ o \in Objects
  /\ ld = "merging"
  /\ inputs' = Append(inputs, o)
  /\ ~ Duplicate(o) /\ ~ TooLarge(o)
  /\ Merge(o, Place(Len(linked), total_vars, Len(strings)))

LEMMA MergeInputs ==
  ASSUME LinkInv, NEW o, Merging(o)
  PROVE  /\ Len(inputs) = Len(place)
         /\ inputs' \in Seq(Objects)
         /\ place' \in Seq([code : Nat, vars : Nat, strings : Nat])
         /\ Len(inputs') = Len(place) + 1 /\ Len(place') = Len(place) + 1
         /\ DOMAIN inputs' = 1 .. Len(place) + 1 /\ DOMAIN place' = 1 .. Len(place) + 1
         /\ inputs'[Len(place) + 1] = o
         /\ place'[Len(place) + 1].code = Len(linked)
         /\ place'[Len(place) + 1].vars = total_vars
         /\ place'[Len(place) + 1].strings = Len(strings)
         /\ \A k \in 1 .. Len(place) : inputs'[k] = inputs[k] /\ place'[k] = place[k]
<1> DEFINE P == Place(Len(linked), total_vars, Len(strings))
<1>1. /\ LinkTypeOK /\ Len(inputs) = Len(place) /\ o \in Objects
      /\ inputs' = Append(inputs, o) /\ place' = Append(place, P)
  BY DEF LinkInv, PlacesKnown, Merging, Merge
<1>2. /\ inputs \in Seq(Objects) /\ place \in Seq([code : Nat, vars : Nat, strings : Nat])
  BY <1>1 DEF LinkTypeOK
<1>3. P \in [code : Nat, vars : Nat, strings : Nat]
  BY <1>1, SizeFacts DEF Place
<1>4. P.code = Len(linked) /\ P.vars = total_vars /\ P.strings = Len(strings)
  BY DEF Place
<1> HIDE DEF P
<1>5. /\ inputs' \in Seq(Objects) /\ Len(inputs') = Len(inputs) + 1
      /\ inputs'[Len(inputs) + 1] = o
      /\ \A k \in 1 .. Len(inputs) : inputs'[k] = inputs[k]
  BY ONLY <1>1, <1>2, AppendFacts
<1>6. /\ place' \in Seq([code : Nat, vars : Nat, strings : Nat])
      /\ Len(place') = Len(place) + 1
      /\ place'[Len(place) + 1] = P
      /\ \A k \in 1 .. Len(place) : place'[k] = place[k]
  BY ONLY <1>1, <1>2, <1>3, AppendFacts
<1>7. DOMAIN inputs' = 1 .. Len(inputs') /\ DOMAIN place' = 1 .. Len(place')
  BY ONLY <1>5, <1>6, LenProperties
<1>8. QED
  BY ONLY <1>1, <1>4, <1>5, <1>6, <1>7

LEMMA MergeContents ==
  ASSUME LinkInv, NEW o, Merging(o)
  PROVE  /\ linked' \in Seq(Insn) /\ globals' \in Seq(Symbol(GlobalName)) /\ strings' \in Seq(Str)
         /\ Len(linked') = Len(linked) + Len(o.code)
         /\ Len(globals') = Len(globals) + Len(o.syms)
         /\ Len(strings') = Len(strings) + Len(o.strings)
         /\ total_vars' = total_vars + o.vars
         /\ \A j \in 1 .. Len(linked) : linked'[j] = linked[j]
         /\ \A i \in 1 .. Len(o.code) :
              linked'[Len(linked) + i] = Relocated(o.code[i], o, place'[Len(place) + 1])
         /\ \A j \in 1 .. Len(globals) : globals'[j] = globals[j]
         /\ \A i \in 1 .. Len(o.syms) :
              globals'[Len(globals) + i] =
                [name |-> o.syms[i].name, addr |-> Len(linked) + o.syms[i].addr]
         /\ \A j \in 1 .. Len(strings) : strings'[j] = strings[j]
         /\ \A i \in 1 .. Len(o.strings) : strings'[Len(strings) + i] = o.strings[i]
<1> DEFINE P == Place(Len(linked), total_vars, Len(strings))
           C == [i \in DOMAIN o.code |-> Relocated(o.code[i], o, P)]
           E == Exported(o, P)
<1>1. /\ LinkTypeOK /\ o \in Objects /\ P.code = Len(linked)
      /\ linked' = linked \o C /\ globals' = globals \o E /\ strings' = strings \o o.strings
      /\ total_vars' = total_vars + o.vars /\ place' = Append(place, P)
  BY DEF LinkInv, Merging, Merge, Place
<1>2. /\ linked \in Seq(Insn) /\ globals \in Seq(Symbol(GlobalName)) /\ strings \in Seq(Str)
      /\ place \in Seq([code : Nat, vars : Nat, strings : Nat])
  BY <1>1 DEF LinkTypeOK
<1>3. P \in [code : Nat, vars : Nat, strings : Nat] /\ Len(linked) \in Nat
  BY <1>1, SizeFacts DEF Place
<1> HIDE DEF P
<1>4. /\ Len(o.code) \in Nat /\ DOMAIN o.code = 1 .. Len(o.code) /\ o.strings \in Seq(Str)
      /\ Len(o.syms) \in Nat /\ DOMAIN o.syms = 1 .. Len(o.syms)
      /\ \A i \in DOMAIN o.syms : o.syms[i] \in Symbol(GlobalName)
  BY ONLY <1>1, ObjectFacts, ElementOfSeq, LenProperties
<1>5. \A i \in DOMAIN o.code : Relocated(o.code[i], o, P) \in Insn
  BY ONLY <1>1, <1>3, RelocatedFacts
<1>6. /\ C \in Seq(Insn) /\ Len(C) = Len(o.code)
      /\ \A i \in 1 .. Len(o.code) : C[i] = Relocated(o.code[i], o, P)
  BY ONLY <1>4, <1>5, IsASeq, LenProperties
<1>7. /\ E \in Seq(Symbol(GlobalName)) /\ Len(E) = Len(o.syms)
      /\ \A i \in 1 .. Len(o.syms) :
           E[i] = [name |-> o.syms[i].name, addr |-> P.code + o.syms[i].addr]
  <2> DEFINE X(i) == [name |-> o.syms[i].name, addr |-> P.code + o.syms[i].addr]
  <2>1. E = [i \in 1 .. Len(o.syms) |-> X(i)]
    BY <1>4 DEF Exported
  <2>2. \A i \in 1 .. Len(o.syms) : X(i) \in Symbol(GlobalName)
    <3> TAKE i \in 1 .. Len(o.syms)
    <3>1. o.syms[i] \in Symbol(GlobalName)
      BY <1>4
    <3>2. o.syms[i].name \in GlobalName /\ o.syms[i].addr \in Nat
      BY <3>1 DEF Symbol
    <3>3. P.code + o.syms[i].addr \in Nat
      BY SMTT(40), <1>1, <1>3, <3>2
    <3>4. QED BY <3>2, <3>3 DEF Symbol
  <2> HIDE DEF X, E
  <2>3. E \in Seq(Symbol(GlobalName)) /\ Len(E) = Len(o.syms)
        /\ \A i \in 1 .. Len(o.syms) : E[i] = X(i)
    BY ONLY <1>4, <2>1, <2>2, IsASeq, LenProperties
  <2>4. QED BY <2>3 DEF X
<1> HIDE DEF C, E
<1>8. /\ linked' \in Seq(Insn) /\ Len(linked') = Len(linked) + Len(C)
      /\ \A j \in 1 .. Len(linked) : linked'[j] = linked[j]
      /\ \A i \in 1 .. Len(C) : linked'[Len(linked) + i] = C[i]
  <2>1. linked' = linked \o C /\ linked \in Seq(Insn) /\ C \in Seq(Insn)
    BY <1>1, <1>2, <1>6
  <2>2. QED BY ONLY <2>1, ConcatFacts
<1>9. /\ globals' \in Seq(Symbol(GlobalName)) /\ Len(globals') = Len(globals) + Len(E)
      /\ \A j \in 1 .. Len(globals) : globals'[j] = globals[j]
      /\ \A i \in 1 .. Len(E) : globals'[Len(globals) + i] = E[i]
  <2>1. globals' = globals \o E /\ globals \in Seq(Symbol(GlobalName)) /\ E \in Seq(Symbol(GlobalName))
    BY <1>1, <1>2, <1>7
  <2>2. QED BY ONLY <2>1, ConcatFacts
<1>10. /\ strings' \in Seq(Str) /\ Len(strings') = Len(strings) + Len(o.strings)
       /\ \A j \in 1 .. Len(strings) : strings'[j] = strings[j]
       /\ \A i \in 1 .. Len(o.strings) : strings'[Len(strings) + i] = o.strings[i]
  BY ONLY SMTT(40), <1>1, <1>2, <1>4, ConcatFacts
<1>11. place'[Len(place) + 1] = P
  BY ONLY <1>1, <1>2, <1>3, AppendFacts
<1>12. QED
  BY ONLY <1>1, <1>6, <1>7, <1>8, <1>9, <1>10, <1>11

LEMMA MergeTypes ==
  ASSUME LinkInv, NEW o, Merging(o)
  PROVE  LinkTypeOK' /\ PlacesKnown'
<1>1. /\ LinkTypeOK /\ ld' = ld /\ o \in Objects /\ ~ TooLarge(o)
  BY DEF LinkInv, Merging, Merge
<1>2. /\ o.vars \in Nat /\ Len(o.code) \in Nat /\ Len(o.strings) \in Nat
      /\ Len(o.syms) \in Nat
  BY <1>1, ObjectFacts
<1>3. /\ total_vars \in Nat /\ Len(linked) \in Nat /\ Len(globals) \in Nat
      /\ Len(strings) \in Nat /\ Len(place) \in Nat
  BY <1>1, SizeFacts
<1>4. MaxCode \in Nat /\ MaxStrings \in Nat /\ MaxGlobals \in Nat
  BY LimitAssumption
<1>5. /\ Len(linked) + Len(o.code) <= MaxCode
      /\ Len(strings) + Len(o.strings) <= MaxStrings
      /\ Len(globals) + Len(o.syms) <= MaxGlobals
  <2>1. /\ ~ (Len(strings) + Len(o.strings) > MaxStrings)
        /\ ~ (Len(globals) + Len(o.syms) > MaxGlobals)
        /\ ~ (Len(linked) + Len(o.code) > MaxCode)
    BY ONLY <1>1 DEF TooLarge
  <2>2. QED BY ONLY <1>2, <1>3, <1>4, <2>1, NotGreater
<1>6. ld' \in {"merging", "written", "failed"}
  BY <1>1 DEF LinkTypeOK
<1>7. LinkTypeOK'
  <2>1. /\ inputs' \in Seq(Objects)
        /\ place' \in Seq([code : Nat, vars : Nat, strings : Nat])
    BY MergeInputs
  <2>2. /\ linked' \in Seq(Insn) /\ globals' \in Seq(Symbol(GlobalName)) /\ strings' \in Seq(Str)
        /\ Len(linked') = Len(linked) + Len(o.code)
        /\ Len(globals') = Len(globals) + Len(o.syms)
        /\ Len(strings') = Len(strings) + Len(o.strings)
        /\ total_vars' = total_vars + o.vars
    BY MergeContents
  <2>3. total_vars' \in Nat
    <3>1. total_vars \in Nat /\ o.vars \in Nat /\ total_vars' = total_vars + o.vars
      BY <1>2, <1>3, <2>2
    <3>2. QED BY ONLY <3>1
  <2>4. QED BY ONLY <1>5, <1>6, <2>1, <2>2, <2>3 DEF LinkTypeOK
<1>8. PlacesKnown'
  BY <1>3, MergeInputs DEF PlacesKnown
<1>9. QED BY <1>7, <1>8

LEMMA MergeSeparate ==
  ASSUME LinkInv, NEW o, Merging(o)
  PROVE  Separate'
<1> DEFINE N == Len(place)
<1>1. LinkTypeOK /\ Separate /\ o \in Objects /\ Len(inputs) = N
  BY MergeInputs DEF LinkInv, Merging
<1>2. /\ o.vars \in Nat /\ Len(o.code) \in Nat /\ Len(o.strings) \in Nat
  BY <1>1, ObjectFacts
<1>3. /\ total_vars \in Nat /\ Len(linked) \in Nat /\ Len(strings) \in Nat /\ N \in Nat
  BY <1>1, SizeFacts
<1>4. \A k \in 1 .. N :
        /\ place[k].code \in Nat /\ place[k].vars \in Nat /\ place[k].strings \in Nat
        /\ inputs[k].vars \in Nat /\ Len(inputs[k].code) \in Nat /\ Len(inputs[k].strings) \in Nat
  <2> TAKE k \in 1 .. N
  <2>1. inputs[k] \in Objects /\ place[k] \in [code : Nat, vars : Nat, strings : Nat]
    BY <1>1, SizeFacts
  <2>2. QED BY <2>1, ObjectFacts
<1>5. \A k \in 1 .. N :
        /\ place[k].code + Len(inputs[k].code) <= Len(linked)
        /\ place[k].vars + inputs[k].vars <= total_vars
        /\ place[k].strings + Len(inputs[k].strings) <= Len(strings)
        /\ \A l \in 1 .. N : k < l =>
             /\ place[k].code + Len(inputs[k].code) <= place[l].code
             /\ place[k].vars + inputs[k].vars <= place[l].vars
             /\ place[k].strings + Len(inputs[k].strings) <= place[l].strings
  BY <1>1, SizeFacts DEF Separate
<1>6. /\ Len(linked') = Len(linked) + Len(o.code)
      /\ total_vars' = total_vars + o.vars
      /\ Len(strings') = Len(strings) + Len(o.strings)
  BY MergeContents
<1>7. /\ DOMAIN place' = 1 .. N + 1
      /\ inputs'[N + 1] = o /\ place'[N + 1].code = Len(linked)
      /\ place'[N + 1].vars = total_vars /\ place'[N + 1].strings = Len(strings)
      /\ \A k \in 1 .. N : inputs'[k] = inputs[k] /\ place'[k] = place[k]
  BY MergeInputs
<1> HIDE DEF N
<1>8. ASSUME NEW k \in 1 .. N + 1
      PROVE  /\ place'[k].code + Len(inputs'[k].code) <= Len(linked')
             /\ place'[k].vars + inputs'[k].vars <= total_vars'
             /\ place'[k].strings + Len(inputs'[k].strings) <= Len(strings')
             /\ \A l \in 1 .. N + 1 : k < l =>
                  /\ place'[k].code + Len(inputs'[k].code) <= place'[l].code
                  /\ place'[k].vars + inputs'[k].vars <= place'[l].vars
                  /\ place'[k].strings + Len(inputs'[k].strings) <= place'[l].strings
  <2>1. CASE k = N + 1
    <3>1. \A l \in 1 .. N + 1 : ~ (k < l)
      BY ONLY <1>3, <2>1
    <3>2. inputs'[k] = o /\ place'[k].code = Len(linked)
          /\ place'[k].vars = total_vars /\ place'[k].strings = Len(strings)
      BY ONLY <1>7, <2>1
    <3>3. /\ Len(linked) + Len(o.code) <= Len(linked) + Len(o.code)
          /\ total_vars + o.vars <= total_vars + o.vars
          /\ Len(strings) + Len(o.strings) <= Len(strings) + Len(o.strings)
      BY ONLY <1>2, <1>3
    <3>4. QED BY ONLY <1>6, <3>1, <3>2, <3>3
  <2>2. CASE k \in 1 .. N
    <3>1. /\ place'[k].code + Len(inputs'[k].code) <= Len(linked)
          /\ place'[k].vars + inputs'[k].vars <= total_vars
          /\ place'[k].strings + Len(inputs'[k].strings) <= Len(strings)
      BY ONLY <1>5, <1>7, <2>2
    <3>2. /\ place'[k].code + Len(inputs'[k].code) \in Nat
          /\ place'[k].vars + inputs'[k].vars \in Nat
          /\ place'[k].strings + Len(inputs'[k].strings) \in Nat
      <4>1. inputs'[k] = inputs[k] /\ place'[k] = place[k]
        BY ONLY <1>7, <2>2
      <4>2. /\ place[k].code \in Nat /\ place[k].vars \in Nat /\ place[k].strings \in Nat
            /\ inputs[k].vars \in Nat /\ Len(inputs[k].code) \in Nat
            /\ Len(inputs[k].strings) \in Nat
        BY ONLY <1>4, <2>2
      <4>3. /\ place[k].code + Len(inputs[k].code) \in Nat
            /\ place[k].vars + inputs[k].vars \in Nat
            /\ place[k].strings + Len(inputs[k].strings) \in Nat
        <5>1. \A a, b \in Nat : a + b \in Nat
          OBVIOUS
        <5>2. QED BY ONLY <4>2, <5>1
      <4>4. QED BY ONLY <4>1, <4>3
    <3>3. ASSUME NEW l \in 1 .. N + 1, k < l
          PROVE  /\ place'[k].code + Len(inputs'[k].code) <= place'[l].code
                 /\ place'[k].vars + inputs'[k].vars <= place'[l].vars
                 /\ place'[k].strings + Len(inputs'[k].strings) <= place'[l].strings
      <4>1. CASE l = N + 1
        BY ONLY <1>7, <3>1, <4>1
      <4>2. CASE l \in 1 .. N
        BY ONLY <1>5, <1>7, <2>2, <3>3, <4>2
      <4>3. l = N + 1 \/ l \in 1 .. N
        BY ONLY <1>3, <3>3
      <4>4. QED BY ONLY <4>1, <4>2, <4>3
    <3>4. /\ place'[k].code + Len(inputs'[k].code) <= Len(linked) + Len(o.code)
          /\ place'[k].vars + inputs'[k].vars <= total_vars + o.vars
          /\ place'[k].strings + Len(inputs'[k].strings) <= Len(strings) + Len(o.strings)
      <4>1. \A a, m, n \in Nat : a <= m => a <= m + n
        OBVIOUS
      <4>2. QED BY ONLY <1>2, <1>3, <3>1, <3>2, <4>1
    <3>5. QED BY ONLY <1>6, <3>3, <3>4
  <2>3. QED BY ONLY <1>3, <2>1, <2>2
<1>9. QED
  BY ONLY <1>7, <1>8 DEF Separate

LEMMA MergeKeepsCode ==
  ASSUME LinkInv, NEW o, Merging(o)
  PROVE  StringsKept' /\ CodeMerged'
<1> DEFINE N == Len(place)
<1>1. /\ LinkTypeOK /\ Separate /\ StringsKept /\ CodeMerged /\ o \in Objects
      /\ Len(inputs) = N /\ ld = "merging"
  BY MergeInputs DEF LinkInv, Merging
<1>2. /\ DOMAIN o.code = 1 .. Len(o.code) /\ DOMAIN o.strings = 1 .. Len(o.strings)
  BY <1>1, ObjectFacts
<1>3. /\ Len(linked) \in Nat /\ Len(strings) \in Nat /\ N \in Nat /\ DOMAIN place = 1 .. N
  BY <1>1, SizeFacts
<1>4. \A k \in 1 .. N :
        /\ place[k].code \in Nat /\ place[k].strings \in Nat
        /\ Len(inputs[k].code) \in Nat /\ Len(inputs[k].strings) \in Nat
        /\ DOMAIN inputs[k].code = 1 .. Len(inputs[k].code)
        /\ DOMAIN inputs[k].strings = 1 .. Len(inputs[k].strings)
        /\ place[k].code + Len(inputs[k].code) <= Len(linked)
        /\ place[k].strings + Len(inputs[k].strings) <= Len(strings)
  <2> TAKE k \in 1 .. N
  <2>1. inputs[k] \in Objects /\ place[k] \in [code : Nat, vars : Nat, strings : Nat]
    BY <1>1, SizeFacts
  <2>2. /\ place[k].code + Len(inputs[k].code) <= Len(linked)
        /\ place[k].strings + Len(inputs[k].strings) <= Len(strings)
    BY <1>1, <1>3 DEF Separate
  <2>3. QED BY <2>1, <2>2, ObjectFacts
<1>5. /\ \A j \in 1 .. Len(linked) : linked'[j] = linked[j]
      /\ \A i \in 1 .. Len(o.code) :
           linked'[Len(linked) + i] = Relocated(o.code[i], o, place'[N + 1])
      /\ \A j \in 1 .. Len(strings) : strings'[j] = strings[j]
      /\ \A i \in 1 .. Len(o.strings) : strings'[Len(strings) + i] = o.strings[i]
  BY MergeContents
<1>6. /\ DOMAIN place' = 1 .. N + 1
      /\ inputs'[N + 1] = o /\ place'[N + 1].code = Len(linked)
      /\ place'[N + 1].strings = Len(strings)
      /\ \A k \in 1 .. N : inputs'[k] = inputs[k] /\ place'[k] = place[k]
  BY MergeInputs
<1> HIDE DEF N
<1>7. ASSUME NEW k \in 1 .. N + 1, NEW i \in DOMAIN inputs'[k].strings
      PROVE  strings'[place'[k].strings + i] = inputs'[k].strings[i]
  <2>1. CASE k = N + 1
    BY ONLY <1>2, <1>5, <1>6, <1>7, <2>1
  <2>2. CASE k \in 1 .. N
    <3>1. strings[place[k].strings + i] = inputs[k].strings[i]
      BY ONLY <1>1, <1>3, <1>6, <1>7, <2>2 DEF StringsKept
    <3>2. place[k].strings + i \in 1 .. Len(strings)
      <4>1. inputs'[k] = inputs[k]
        BY ONLY <1>6, <2>2
      <4>2. i \in 1 .. Len(inputs[k].strings)
        BY ONLY <1>4, <1>7, <2>2, <4>1
      <4>3. /\ place[k].strings \in Nat /\ Len(inputs[k].strings) \in Nat
            /\ place[k].strings + Len(inputs[k].strings) <= Len(strings)
        BY ONLY <1>4, <2>2
      <4>4. QED BY ONLY <1>3, <4>2, <4>3, InRange
    <3>3. QED BY ONLY <1>5, <1>6, <2>2, <3>1, <3>2
  <2>3. QED BY ONLY <1>3, <2>1, <2>2
<1>8. ASSUME NEW k \in 1 .. N + 1, NEW i \in DOMAIN inputs'[k].code
      PROVE  linked'[place'[k].code + i] = Relocated(inputs'[k].code[i], inputs'[k], place'[k])
  <2>1. CASE k = N + 1
    BY ONLY <1>2, <1>5, <1>6, <1>8, <2>1
  <2>2. CASE k \in 1 .. N
    <3>1. linked[place[k].code + i] = Relocated(inputs[k].code[i], inputs[k], place[k])
      BY ONLY <1>1, <1>3, <1>6, <1>8, <2>2 DEF CodeMerged
    <3>2. place[k].code + i \in 1 .. Len(linked)
      <4>1. inputs'[k] = inputs[k]
        BY ONLY <1>6, <2>2
      <4>2. i \in 1 .. Len(inputs[k].code)
        BY ONLY <1>4, <1>8, <2>2, <4>1
      <4>3. /\ place[k].code \in Nat /\ Len(inputs[k].code) \in Nat
            /\ place[k].code + Len(inputs[k].code) <= Len(linked)
        BY ONLY <1>4, <2>2
      <4>4. QED BY ONLY <1>3, <4>2, <4>3, InRange
    <3>3. QED BY ONLY <1>5, <1>6, <2>2, <3>1, <3>2
  <2>3. QED BY ONLY <1>3, <2>1, <2>2
<1>9. QED
  BY ONLY <1>6, <1>7, <1>8 DEF StringsKept, CodeMerged

LEMMA MergeExports ==
  ASSUME LinkInv, NEW o, Merging(o)
  PROVE  GlobalsExact'
<1>1. /\ LinkTypeOK /\ GlobalsExact /\ o \in Objects /\ Len(inputs) = Len(place) /\ ~ Duplicate(o)
  BY SMTT(40), MergeInputs DEF LinkInv, Merging
<1>2. PICK N \in Nat : N = Len(place)
  BY ZenonT(40), <1>1, SizeFacts
<1>3. PICK M \in Nat : M = Len(globals)
  BY <1>1, SizeFacts
<1>4. PICK L \in Nat : L = Len(o.syms)
  BY <1>1, ObjectFacts
<1>5. PICK new : new = [i \in 1 .. L |-> M + i]
  OBVIOUS
<1>6. /\ DOMAIN o.syms = 1 .. L /\ Unique(o.syms)
      /\ DOMAIN place = 1 .. N /\ DOMAIN globals = 1 .. M
  BY <1>1, <1>2, <1>3, <1>4, SizeFacts, ObjectFacts
<1>7. /\ DOMAIN place' = 1 .. N + 1
      /\ inputs'[N + 1] = o /\ place'[N + 1].code = Len(linked)
      /\ \A k \in 1 .. N : inputs'[k] = inputs[k] /\ place'[k] = place[k]
  BY <1>2, MergeInputs
<1>8. /\ DOMAIN globals' = 1 .. M + L
      /\ \A j \in 1 .. M : globals'[j] = globals[j]
      /\ \A i \in 1 .. L :
           globals'[M + i] = [name |-> o.syms[i].name, addr |-> Len(linked) + o.syms[i].addr]
  <2>1. globals' \in Seq(Symbol(GlobalName)) /\ Len(globals') = M + L
    BY <1>3, <1>4, MergeContents
  <2>2. DOMAIN globals' = 1 .. Len(globals')
    BY ONLY <2>1, LenProperties
  <2>3. QED BY <1>3, <1>4, <2>1, <2>2, MergeContents
<1>9. /\ \A j \in 1 .. M + L : j \in 1 .. M \/ \E i \in 1 .. L : j = new[i]
      /\ \A j \in 1 .. M : j \in 1 .. M + L
      /\ \A i \in 1 .. L : new[i] \in 1 .. M + L /\ new[i] = M + i
      /\ \A k \in 1 .. N : k \in 1 .. N + 1
      /\ N + 1 \in 1 .. N + 1
      /\ \A k \in 1 .. N + 1 : k \in 1 .. N \/ k = N + 1
  <2>1. ASSUME NEW j \in 1 .. M + L, ~ (j \in 1 .. M) PROVE \E i \in 1 .. L : j = new[i]
    <3>1. j - M \in 1 .. L /\ j = M + (j - M)
      BY ONLY <2>1, N \in Nat, M \in Nat, L \in Nat
    <3>2. new[j - M] = M + (j - M)
      BY ONLY <1>5, <3>1
    <3>3. QED BY ONLY <3>1, <3>2
  <2>2. QED BY ONLY <1>5, <2>1, N \in Nat, M \in Nat, L \in Nat
<1>10. \A i \in 1 .. L :
         globals'[new[i]] = [name |-> o.syms[i].name, addr |-> Len(linked) + o.syms[i].addr]
  BY ONLY <1>8, <1>9
<1>11. \A i \in 1 .. L : globals'[new[i]].name = o.syms[i].name
  <2> TAKE i \in 1 .. L
  <2>1. globals'[new[i]] = [name |-> o.syms[i].name, addr |-> Len(linked) + o.syms[i].addr]
    BY ONLY <1>10
  <2>2. QED BY ONLY <2>1
<1>12. ASSUME NEW g \in 1 .. M + L
       PROVE  \E k \in 1 .. N + 1 : \E i \in DOMAIN inputs'[k].syms : globals'[g] = Export(k, i)'
  <2>1. CASE g \in 1 .. M
    <3>1. PICK k \in 1 .. N : \E i \in DOMAIN inputs[k].syms : globals[g] = Export(k, i)
      BY ONLY <1>1, <1>6, <2>1 DEF GlobalsExact
    <3>2. QED BY ONLY <1>7, <1>8, <1>9, <2>1, <3>1 DEF Export
  <2>2. CASE \E i \in 1 .. L : g = new[i]
    <3>1. PICK i \in 1 .. L : g = new[i]
      BY ONLY <2>2
    <3>2. globals'[g] = [name |-> o.syms[i].name, addr |-> Len(linked) + o.syms[i].addr]
      BY ONLY <1>10, <3>1
    <3>3. PICK k : k = N + 1
      OBVIOUS
    <3>4. inputs'[k] = o /\ place'[k].code = Len(linked) /\ k \in 1 .. N + 1
      BY ONLY <1>7, <1>9, <3>3
    <3>5. globals'[g] = Export(k, i)' /\ i \in DOMAIN inputs'[k].syms
      BY ONLY <1>6, <3>1, <3>2, <3>4 DEF Export
    <3>6. QED BY ONLY <3>4, <3>5
  <2>3. QED BY ONLY <1>9, <2>1, <2>2
<1>13. ASSUME NEW k \in 1 .. N + 1, NEW i \in DOMAIN inputs'[k].syms
       PROVE  \E g \in 1 .. M + L : globals'[g].name = inputs'[k].syms[i].name
  <2>1. CASE k \in 1 .. N
    <3>1. inputs'[k] = inputs[k]
      BY ONLY <1>7, <2>1
    <3>a. i \in DOMAIN inputs[k].syms
      BY ONLY <1>13, <3>1
    <3>2. \E g \in 1 .. M : globals[g].name = inputs[k].syms[i].name
      BY ONLY ZenonT(40), <1>1, <1>6, <2>1, <3>a DEF GlobalsExact, Defines
    <3>3. QED BY ONLY <1>8, <1>9, <3>1, <3>2
  <2>2. CASE k = N + 1
    <3>1. i \in 1 .. L /\ inputs'[k] = o
      BY ONLY <1>6, <1>7, <1>13, <2>2
    <3>2. QED BY ONLY <1>9, <1>11, <3>1
  <2>3. QED BY ONLY <1>9, <2>1, <2>2
<1>14. ASSUME NEW g \in 1 .. M, NEW i \in 1 .. L
       PROVE  globals'[g].name # globals'[new[i]].name
  <2>1. globals'[g] = globals[g] /\ globals'[new[i]].name = o.syms[i].name
    BY ONLY <1>8, <1>11
  <2>2. globals[g].name # o.syms[i].name
    BY ONLY <1>1, <1>6 DEF Duplicate, Defines
  <2>3. QED BY ONLY <2>1, <2>2
<1>15. \A g, h \in 1 .. M + L : globals'[g].name = globals'[h].name => g = h
  <2> SUFFICES ASSUME NEW g \in 1 .. M + L, NEW h \in 1 .. M + L,
                      globals'[g].name = globals'[h].name
               PROVE  g = h
    OBVIOUS
  <2>1. CASE g \in 1 .. M /\ h \in 1 .. M
    BY ONLY <1>1, <1>6, <1>8, <2>1, globals'[g].name = globals'[h].name DEF GlobalsExact, Unique
  <2>2. CASE \E i, j \in 1 .. L : g = new[i] /\ h = new[j]
    <3>1. PICK i, j \in 1 .. L : g = new[i] /\ h = new[j]
      BY ONLY <2>2
    <3>2. o.syms[i].name = o.syms[j].name
      BY ONLY <1>11, <3>1, globals'[g].name = globals'[h].name
    <3>3. QED BY ONLY <1>6, <3>1, <3>2 DEF Unique
  <2>3. QED
    BY ONLY <1>9, <1>14, <2>1, <2>2, globals'[g].name = globals'[h].name
<1>16. /\ \A g \in DOMAIN globals' : \E k \in DOMAIN place' : \E i \in DOMAIN inputs'[k].syms :
            globals'[g] = Export(k, i)'
       /\ Unique(globals')
  BY ONLY SMTT(40), <1>7, <1>8, <1>12, <1>15 DEF Unique
<1>17. \A k \in DOMAIN place' : \A i \in DOMAIN inputs'[k].syms :
         Defines(globals', inputs'[k].syms[i].name)
  BY ONLY <1>7, <1>8, <1>13 DEF Defines
<1>18. QED
  BY ONLY <1>16, <1>17 DEF GlobalsExact

LEMMA MergeExportsOnce ==
  ASSUME LinkInv, NEW o, Merging(o)
  PROVE  ExportedOnce'
<1> DEFINE N == Len(place)
<1>1. /\ LinkTypeOK /\ GlobalsExact /\ ExportedOnce /\ ~ Duplicate(o)
  BY DEF LinkInv, Merging
<1>2. N \in Nat /\ DOMAIN place = 1 .. N
  BY <1>1, SizeFacts
<1>3. /\ DOMAIN place' = 1 .. N + 1 /\ inputs'[N + 1] = o
      /\ \A k \in 1 .. N : inputs'[k] = inputs[k]
  BY MergeInputs
<1> HIDE DEF N
<1>4. \A k \in 1 .. N + 1 : k \in 1 .. N \/ k = N + 1
  BY ONLY <1>2
<1>5. \A k \in 1 .. N : \A n : ~ (Defines(inputs[k].syms, n) /\ Defines(o.syms, n))
  <2> SUFFICES ASSUME NEW k \in 1 .. N, NEW n, Defines(inputs[k].syms, n), Defines(o.syms, n)
               PROVE  FALSE
    OBVIOUS
  <2>1. Defines(globals, n)
    BY <1>1, <1>2 DEF GlobalsExact, Defines
  <2>2. QED BY <1>1, <2>1 DEF Duplicate, Defines
<1>6. QED
  BY ONLY <1>1, <1>2, <1>3, <1>4, <1>5 DEF ExportedOnce

(* A linker that gives up has read one more object and changed nothing.    *)
LEMMA FailKeepsInv ==
  ASSUME LinkInv, ld = "merging", NEW o \in Objects, inputs' = Append(inputs, o), LinkFail
  PROVE  LinkInv'
<1>1. /\ LinkTypeOK /\ PlacesKnown /\ Separate /\ StringsKept /\ GlobalsExact /\ ExportedOnce
  BY DEF LinkInv
<1>2. /\ place' = place /\ linked' = linked /\ globals' = globals /\ strings' = strings
      /\ total_vars' = total_vars /\ ld' = "failed"
  BY DEF LinkFail
<1>3. /\ inputs' \in Seq(Objects) /\ Len(inputs') = Len(inputs) + 1
      /\ \A k \in 1 .. Len(inputs) : inputs'[k] = inputs[k]
  BY <1>1, AppendFacts DEF LinkTypeOK
<1>4. /\ DOMAIN place = 1 .. Len(place) /\ Len(place) \in Nat /\ Len(inputs) \in Nat
      /\ Len(place) <= Len(inputs)
  BY <1>1, SizeFacts DEF PlacesKnown
<1>5. \A k \in DOMAIN place : inputs'[k] = inputs[k]
  BY ONLY <1>3, <1>4
<1>6. LinkTypeOK' /\ PlacesKnown'
  BY <1>1, <1>2, <1>3, <1>4 DEF LinkTypeOK, PlacesKnown
<1>7. Separate' /\ StringsKept'
  BY ONLY <1>1, <1>2, <1>5 DEF Separate, StringsKept
<1>8. GlobalsExact' /\ ExportedOnce'
  BY ONLY <1>1, <1>2, <1>5 DEF GlobalsExact, ExportedOnce, Export
<1>9. CodeMerged' /\ ImageFaithful'
  BY ONLY <1>2 DEF CodeMerged, ImageFaithful
<1>10. QED BY ONLY <1>6, <1>7, <1>8, <1>9 DEF LinkInv

LEMMA MergeKeepsInv ==
  ASSUME LinkInv, NEW o, Merging(o)
  PROVE  LinkInv'
<1>1. ld' = "merging"
  BY DEF Merging, Merge
<1>2. ImageFaithful'
  BY ONLY <1>1 DEF ImageFaithful
<1>3. QED
  BY <1>2, MergeTypes, MergeSeparate, MergeKeepsCode, MergeExports, MergeExportsOnce DEF LinkInv

(* What the second pass finds for a label is where the object that exports *)
(* it was placed.                                                          *)
LEMMA GlobalLeads ==
  ASSUME LinkInv, NEW n, Defines(globals, n)
  PROVE  /\ find_in(globals, n) \in Nat
         /\ \E m \in DOMAIN place :
              /\ Defines(inputs[m].syms, n)
              /\ find_in(globals, n) = place[m].code + find_in(inputs[m].syms, n)
<1>1. /\ LinkTypeOK /\ GlobalsExact /\ globals \in Seq(Symbol(GlobalName)) /\ Unique(globals)
  BY DEF LinkInv, LinkTypeOK, GlobalsExact
<1>2. PICK g \in DOMAIN globals : globals[g].name = n
  BY DEF Defines
<1>3. find_in(globals, n) = globals[g].addr
  BY <1>1, <1>2, FindUnique
<1>4. PICK m \in DOMAIN place : \E i \in DOMAIN inputs[m].syms : globals[g] = Export(m, i)
  BY <1>1 DEF GlobalsExact
<1>5. PICK i \in DOMAIN inputs[m].syms : globals[g] = Export(m, i)
  BY <1>4
<1>6. inputs[m].syms[i].name = n /\ globals[g].addr = place[m].code + inputs[m].syms[i].addr
  BY <1>2, <1>5 DEF Export
<1>7. inputs[m] \in Objects
  <2>1. Len(place) <= Len(inputs)
    BY DEF LinkInv, PlacesKnown
  <2>2. /\ DOMAIN inputs = 1 .. Len(inputs) /\ DOMAIN place = 1 .. Len(place)
        /\ Len(inputs) \in Nat /\ Len(place) \in Nat
    BY <1>1, SizeFacts
  <2>3. m \in DOMAIN inputs
    BY ONLY <2>1, <2>2, m \in DOMAIN place
  <2>4. QED BY <1>1, <2>3, SizeFacts
<1>8. find_in(inputs[m].syms, n) = inputs[m].syms[i].addr
  BY <1>6, <1>7, ObjectFacts, FindUnique
<1>9. find_in(globals, n) \in Nat
  BY <1>1, FoundIsNat
<1>10. QED
  BY <1>3, <1>6, <1>8, <1>9 DEF Defines

(* The second pass keeps the types and completes the meaning.              *)
LEMMA ResolvedMeaning ==
  ASSUME LinkInv, ld = "merging",
         \A j \in DOMAIN linked : linked[j].sym # NoSym => Defines(globals, linked[j].sym),
         NEW k \in DOMAIN place, NEW i \in DOMAIN inputs[k].code
  PROVE  SameMeaning(k, inputs[k].code[i], Resolved(linked[place[k].code + i]))
<1> DEFINE ins == inputs[k].code[i]
           r   == linked[place[k].code + i]
<1>1. /\ LinkTypeOK /\ inputs[k] \in Objects /\ place[k] \in [code : Nat, vars : Nat, strings : Nat]
  BY SizeFacts DEF LinkInv, PlacesKnown
<1>2. r = Relocated(ins, inputs[k], place[k])
  BY DEF LinkInv, CodeMerged
<1>3. place[k].code + i \in DOMAIN linked
  <2>1. /\ DOMAIN inputs[k].code = 1 .. Len(inputs[k].code) /\ Len(inputs[k].code) \in Nat
    BY <1>1, ObjectFacts
  <2>2. place[k].code + Len(inputs[k].code) <= Len(linked)
    BY DEF LinkInv, Separate
  <2>3. DOMAIN linked = 1 .. Len(linked) /\ Len(linked) \in Nat
    BY <1>1, SizeFacts
  <2>4. place[k].code \in Nat
    BY <1>1
  <2>5. QED BY ONLY <2>1, <2>2, <2>3, <2>4, InRange, i \in DOMAIN inputs[k].code
<1>4. /\ r.op = ins.op
      /\ IsLocal(ins, inputs[k]) =>
           r.sym = NoSym /\ r.arg = place[k].code + find_in(inputs[k].locals, ins.sym)
      /\ ~ IsLocal(ins, inputs[k]) => r.sym = ins.sym
      /\ ins.op = "slot" => r.arg = ins.arg + place[k].vars
      /\ ins.op = "string" => r.arg = ins.arg + place[k].strings
      /\ ins.op = "plain" => r.arg = ins.arg
  BY ONLY <1>1, <1>2, RelocatedFacts, i \in DOMAIN inputs[k].code
<1>5. r \in Insn /\ (r.sym # NoSym => Defines(globals, r.sym))
  BY <1>1, <1>3, SizeFacts
<1>6. ins.op = "label" <=> ins.sym # NoSym
  BY <1>1, ObjectFacts
<1> HIDE DEF ins, r
<1>7. CASE r.sym = NoSym
  <2>1. Resolved(r) = r
    BY <1>7 DEF Resolved
  <2>2. ins.op = "label" => IsLocal(ins, inputs[k]) /\ Defines(inputs[k].locals, ins.sym)
    BY ONLY <1>4, <1>6, <1>7 DEF IsLocal
  <2>3. ins.op = "label" => Leads(k, ins.sym, r.arg)
    BY ONLY <1>4, <2>2 DEF Leads
  <2>4. SameMeaning(k, ins, r)
    BY ONLY <1>4, <1>7, <2>3 DEF SameMeaning
  <2>5. QED BY ONLY <2>1, <2>4 DEF ins, r
<1>8. CASE r.sym # NoSym
  <2>1. /\ r.sym = ins.sym /\ ~ IsLocal(ins, inputs[k]) /\ ins.op = "label"
        /\ ~ Defines(inputs[k].locals, ins.sym)
    BY ONLY <1>4, <1>6, <1>8 DEF IsLocal
  <2>2. /\ Resolved(r).op = r.op /\ Resolved(r).sym = NoSym
        /\ Resolved(r).arg = find_in(globals, r.sym)
    BY <1>5, <1>8 DEF Resolved, Insn
  <2>3. Leads(k, ins.sym, find_in(globals, r.sym))
    BY <1>5, <1>8, <2>1, GlobalLeads DEF Leads
  <2>4. SameMeaning(k, ins, Resolved(r))
    BY ONLY <1>4, <2>1, <2>2, <2>3 DEF SameMeaning
  <2>5. QED BY ONLY <2>4 DEF ins, r
<1>9. QED BY <1>7, <1>8

LEMMA ResolveKeepsInv ==
  ASSUME LinkInv, Resolve
  PROVE  LinkInv'
<1>1. /\ LinkTypeOK /\ PlacesKnown /\ Separate /\ StringsKept /\ GlobalsExact /\ ExportedOnce
      /\ ld = "merging"
  BY DEF LinkInv, Resolve
<1>2. /\ inputs' = inputs /\ place' = place /\ globals' = globals /\ strings' = strings
      /\ total_vars' = total_vars
  BY DEF Resolve
<1> DEFINE AllDefined ==
             \A j \in DOMAIN linked : linked[j].sym # NoSym => Defines(globals, linked[j].sym)
<1>3. CASE AllDefined
  <2>1. /\ linked' = [j \in DOMAIN linked |-> Resolved(linked[j])]
        /\ ld' = "written"
    BY <1>3 DEF Resolve
  <2>2. DOMAIN linked = 1 .. Len(linked) /\ Len(linked) \in Nat
    BY <1>1, SizeFacts
  <2>3. \A j \in DOMAIN linked : Resolved(linked[j]) \in Insn
    <3> TAKE j \in DOMAIN linked
    <3>1. linked[j] \in Insn
      BY <1>1, SizeFacts
    <3>2. linked[j].sym # NoSym => find_in(globals, linked[j].sym) \in Nat
      BY <1>3, GlobalLeads
    <3>3. QED BY <3>1, <3>2 DEF Resolved, Insn
  <2>4. linked' \in Seq(Insn) /\ Len(linked') = Len(linked)
    BY ONLY <2>1, <2>2, <2>3, IsASeq, LenProperties
  <2>5. LinkTypeOK' /\ PlacesKnown'
    BY <1>1, <1>2, <2>1, <2>4 DEF LinkTypeOK, PlacesKnown
  <2>6. Separate' /\ StringsKept' /\ GlobalsExact' /\ ExportedOnce'
    BY ONLY <1>1, <1>2, <2>4 DEF Separate, StringsKept, GlobalsExact, ExportedOnce, Export
  <2>7. CodeMerged'
    BY <2>1 DEF CodeMerged
  <2>8. ImageFaithful'
    <3>1. DOMAIN inputs = DOMAIN place
      BY <1>1, SizeFacts DEF PlacesKnown
    <3>2. ASSUME NEW k \in DOMAIN inputs, NEW i \in DOMAIN inputs[k].code
          PROVE  SameMeaning(k, inputs[k].code[i], linked'[place[k].code + i])
      <4>1. SameMeaning(k, inputs[k].code[i], Resolved(linked[place[k].code + i]))
        BY <1>1, <1>3, <3>1, <3>2, ResolvedMeaning
      <4>2. place[k].code + i \in DOMAIN linked
        <5>1. inputs[k] \in Objects /\ place[k].code \in Nat
          BY <1>1, <3>1, <3>2, SizeFacts
        <5>2. DOMAIN inputs[k].code = 1 .. Len(inputs[k].code) /\ Len(inputs[k].code) \in Nat
          BY <5>1, ObjectFacts
        <5>3. place[k].code + Len(inputs[k].code) <= Len(linked)
          BY <1>1, <3>1, <3>2 DEF Separate
        <5>4. QED BY ONLY <2>2, <3>2, <5>1, <5>2, <5>3, InRange
      <4>3. linked'[place[k].code + i] = Resolved(linked[place[k].code + i])
        BY ONLY <2>1, <4>2
      <4>4. QED BY ONLY <4>1, <4>3
    <3>3. ASSUME NEW k \in DOMAIN inputs', NEW i \in DOMAIN inputs'[k].code
          PROVE  SameMeaning(k, inputs[k].code[i], linked[place[k].code + i])'
      BY ONLY <1>2, <3>2, <3>3 DEF SameMeaning, Leads
    <3>4. ASSUME NEW k \in DOMAIN inputs', NEW i \in DOMAIN inputs'[k].strings
          PROVE  strings'[place'[k].strings + i] = inputs'[k].strings[i]
      BY ONLY <1>1, <1>2, <3>1, <3>4 DEF StringsKept
    <3>5. QED BY ONLY <3>3, <3>4 DEF ImageFaithful
  <2>9. QED BY <2>5, <2>6, <2>7, <2>8 DEF LinkInv
<1>4. CASE ~ AllDefined
  <2>1. ld' = "failed" /\ linked' = linked
    BY <1>4 DEF Resolve
  <2>2. LinkTypeOK' /\ PlacesKnown'
    BY <1>1, <1>2, <2>1 DEF LinkTypeOK, PlacesKnown
  <2>3. Separate' /\ StringsKept' /\ GlobalsExact' /\ ExportedOnce'
    BY ONLY <1>1, <1>2, <2>1 DEF Separate, StringsKept, GlobalsExact, ExportedOnce, Export
  <2>4. CodeMerged' /\ ImageFaithful'
    BY <2>1 DEF CodeMerged, ImageFaithful
  <2>5. QED BY <2>2, <2>3, <2>4 DEF LinkInv
<1>5. QED BY <1>3, <1>4

LEMMA LinkInvNext == LinkInv /\ [LinkNext]_lvars => LinkInv'
<1> SUFFICES ASSUME LinkInv, [LinkNext]_lvars PROVE LinkInv'
  OBVIOUS
<1>1. CASE \E o \in Objects : LinkObject(o)
  <2>1. PICK o \in Objects :
          /\ ld = "merging" /\ inputs' = Append(inputs, o)
          /\ IF Duplicate(o) \/ TooLarge(o)
             THEN LinkFail
             ELSE Merge(o, Place(Len(linked), total_vars, Len(strings)))
    BY <1>1 DEF LinkObject
  <2>2. CASE Duplicate(o) \/ TooLarge(o)
    BY <2>1, <2>2, FailKeepsInv
  <2>3. CASE ~ (Duplicate(o) \/ TooLarge(o))
    <3>1. Merging(o)
      BY <2>1, <2>3 DEF Merging
    <3>2. QED BY <3>1, MergeKeepsInv
  <2>4. QED BY <2>2, <2>3
<1>2. CASE Resolve
  BY <1>2, ResolveKeepsInv
<1>3. CASE UNCHANGED lvars
  BY ONLY LinkInv, <1>3
  DEF lvars, LinkInv, LinkTypeOK, PlacesKnown, Separate, StringsKept, CodeMerged, GlobalsExact,
      ExportedOnce, ImageFaithful, Export, SameMeaning, Leads
<1>4. QED BY <1>1, <1>2, <1>3 DEF LinkNext

THEOREM LinkInvAlways == LinkSpec => []LinkInv
<1>1. QED BY LinkInvInit, LinkInvNext, PTL DEF LinkSpec

(* The limits of calcld.c hold of everything it merges.                    *)
THEOREM LimitsKept == LinkSpec => []LinkTypeOK
<1>1. LinkInv => LinkTypeOK
  BY DEF LinkInv
<1>2. QED BY <1>1, LinkInvAlways, PTL

(* Whatever is linked, in whatever order, the executable that calcld       *)
(* writes is its objects side by side, and every instruction of each of    *)
(* them still works on its own variables and strings and still jumps to    *)
(* the label it named.                                                     *)
THEOREM ImageCorrect == LinkSpec => [](Separate /\ ImageFaithful)
<1>1. LinkInv => Separate /\ ImageFaithful
  BY DEF LinkInv
<1>2. QED BY <1>1, LinkInvAlways, PTL

LEMMA LinkInvImpliesOnce == LinkInv => OneDefinition
<1> SUFFICES ASSUME LinkInv, ld = "written",
                    NEW k \in DOMAIN inputs, NEW l \in DOMAIN inputs, NEW n \in GlobalName,
                    Defines(inputs[k].syms, n), Defines(inputs[l].syms, n)
             PROVE  k = l
  BY DEF OneDefinition
<1>1. DOMAIN place = DOMAIN inputs
  BY SizeFacts DEF LinkInv, PlacesKnown
<1>2. QED BY <1>1 DEF LinkInv, ExportedOnce

(* No label is exported by two of the objects of an executable.            *)
THEOREM LabelsOnce == LinkSpec => []OneDefinition
BY LinkInvImpliesOnce, LinkInvAlways, PTL
-------------------------------------------------------------------------------
(* The whole build.                                                        *)

(* A file is only begun while the command line has room, and the lines     *)
(* counted are those of the files that are done.                           *)
Counted ==
  /\ command \in Seq(Objects) /\ Len(command) <= MaxFiles
  /\ size \in Nat /\ size + Len(text) <= MaxTotal
  /\ asm = "written" => Len(command) < MaxFiles

BuildInv == AsmInv /\ LabelInv /\ LinkInv /\ Counted

LEMMA BuildInvInit == Init => BuildInv
<1> SUFFICES ASSUME Init PROVE BuildInv
  OBVIOUS
<1>1. AsmInv /\ LabelInv /\ LinkInv
  BY AsmInvInit, LabelInvInit, LinkInvInit DEF Init
<1>2. command \in Seq(Objects) /\ Len(command) = 0 /\ Len(text) = 0 /\ size = 0 /\ asm = "reading"
  BY EmptySeq DEF Init, AsmInit
<1>3. QED BY <1>1, <1>2, BuildAssumption DEF BuildInv, Counted

(* Nothing is known of a tool that does not run, but its variables.        *)
LEMMA AsmIdle == AsmInv /\ LabelInv /\ UNCHANGED avars => AsmInv' /\ LabelInv'
BY AsmInvNext, LabelInvNext

LEMMA LinkIdle == LinkInv /\ UNCHANGED lvars => LinkInv'
BY LinkInvNext

LEMMA AsmRestarts == AsmInit' => AsmInv' /\ LabelInv'
BY AsmInvInit, LabelInvInit, PTL

LEMMA BuildInvNext == BuildInv /\ [Next]_vars => BuildInv'
<1> SUFFICES ASSUME BuildInv, [Next]_vars PROVE BuildInv'
  OBVIOUS
<1>a. AsmInv /\ LabelInv /\ LinkInv /\ Counted
  BY DEF BuildInv
<1>b. text \in Seq(Lines) /\ Len(text) \in Nat /\ Len(command) \in Nat /\ MaxFiles \in Nat /\ MaxTotal \in Nat
  BY <1>a, LenProperties, BuildAssumption DEF AsmInv, AsmTypeOK, Counted
<1>1. CASE Assemble
  <2>1. AsmInv' /\ LabelInv' /\ LinkInv'
    BY <1>a, <1>1, AsmInvNext, LabelInvNext, LinkIdle DEF Assemble
  <2>2. Counted'
    BY <1>a, <1>b, <1>1 DEF Assemble, Counted
  <2>3. QED BY <2>1, <2>2 DEF BuildInv
<1>2. CASE NextFile
  <2>1. obj \in Objects
    BY <1>a DEF AsmInv, AsmTypeOK, ObjectWellFormed, Objects
  <2>2. command' \in Seq(Objects) /\ Len(command') = Len(command) + 1 /\ Len(command) < MaxFiles
    BY <1>a, <1>2, <2>1, AppendFacts DEF NextFile, Counted
  <2>3. AsmInv' /\ LabelInv' /\ LinkInv'
    BY <1>a, <1>2, AsmRestarts, LinkIdle DEF NextFile, AsmInit
  <2>4. size' = size + Len(text) /\ Len(text') = 0 /\ asm' = "reading"
    BY <1>2, EmptySeq DEF NextFile
  <2>5. Counted'
    BY <1>a, <1>b, <2>2, <2>4 DEF Counted
  <2>6. QED BY <2>3, <2>5 DEF BuildInv
<1>3. CASE Link
  <2>1. /\ Head(command) \in Objects /\ command' \in Seq(Objects)
        /\ Len(command') = Len(command) - 1 /\ UNCHANGED <<text, asm, size>>
    BY <1>a, <1>3, HeadTailProperties DEF Link, Counted, avars
  <2>2. LinkNext
    BY <1>3, <2>1 DEF Link, LinkNext
  <2>3. AsmInv' /\ LabelInv' /\ LinkInv'
    BY <1>a, <1>3, <2>2, AsmIdle, LinkInvNext DEF Link
  <2>4. Counted'
    BY <1>a, <1>b, <2>1 DEF Counted
  <2>5. QED BY <2>3, <2>4 DEF BuildInv
<1>4. CASE Finish
  <2>1. AsmInv' /\ LabelInv' /\ LinkInv'
    BY <1>a, <1>4, AsmIdle, LinkInvNext DEF Finish, LinkNext
  <2>2. Counted'
    BY <1>a, <1>4 DEF Finish, Counted, avars
  <2>3. QED BY <2>1, <2>2 DEF BuildInv
<1>5. CASE UNCHANGED vars
  <2>1. AsmInv' /\ LabelInv' /\ LinkInv'
    BY <1>a, <1>5, AsmIdle, LinkIdle DEF vars
  <2>2. Counted'
    BY <1>a, <1>5 DEF vars, avars, Counted
  <2>3. QED BY <2>1, <2>2 DEF BuildInv
<1>6. QED BY <1>1, <1>2, <1>3, <1>4, <1>5 DEF Next

LEMMA BuildInvAlways == Spec => []BuildInv
BY BuildInvInit, BuildInvNext, PTL DEF Spec

(* The tables of both tools keep their limits in every build.              *)
THEOREM BuildTypes == Spec => []TypeOK
<1>1. BuildInv => TypeOK
  <2> SUFFICES ASSUME BuildInv PROVE TypeOK
    OBVIOUS
  <2>1. Len(text) \in Nat
    BY LenProperties DEF BuildInv, AsmInv, AsmTypeOK
  <2>2. QED BY <2>1, BuildAssumption DEF BuildInv, AsmInv, LinkInv, Counted, TypeOK
<1>2. QED BY <1>1, BuildInvAlways, PTL

(* No two objects of a program share a variable, a string or an            *)
(* instruction.                                                            *)
THEOREM RangesSeparate == Spec => []Separate
<1>1. BuildInv => Separate
  BY DEF BuildInv, LinkInv
<1>2. QED BY <1>1, BuildInvAlways, PTL

(* While a file of a build is assembled and until the next begins, its     *)
(* labels stand where its own lines put them.                              *)
THEOREM BuildLabels == Spec => []LabelsLead
<1>1. BuildInv => LabelsLead
  BY LabelInvLeads DEF BuildInv
<1>2. QED BY <1>1, BuildInvAlways, PTL

(* Whatever files are assembled and in whatever order they are linked, an  *)
(* object is always well formed, and the executable is the objects side by *)
(* side, each instruction with the meaning it had in its own file and each *)
(* exported label defined once.                                            *)
THEOREM BuildCorrect ==
  Spec => [](ObjectWellFormed /\ Separate /\ ImageFaithful /\ OneDefinition)
<1>1. BuildInv => ObjectWellFormed /\ Separate /\ ImageFaithful /\ OneDefinition
  BY LinkInvImpliesOnce DEF BuildInv, AsmInv, LinkInv
<1>2. QED BY <1>1, BuildInvAlways, PTL
===============================================================================
