---------------------------- MODULE BytecodeProofs -----------------------------
(***************************************************************************)
(* The virtual machine keeps its types for every executable, whether       *)
(* codegen.c has made it or not, and stacks of any size: sp, fp and pc     *)
(* stay where they may be, every return address is one of the code, and    *)
(* every reference leads to an array, a map or a function that there is.   *)
(*                                                                         *)
(* What a value may be depends on how many objects there are.  The         *)
(* lemmas are about Val(a, m, f): the values while a arrays, m maps and f  *)
(* functions exist, so that a step that makes an object only has to know   *)
(* that the values there were before are still values.                     *)
(*                                                                         *)
(* When the code is balanced (Bytecode), as what codegen.c makes is, the   *)
(* frames say more than their types: the second half follows each frame,   *)
(* the one that runs and those that have made a call, along the plan of    *)
(* its function.                                                           *)
(***************************************************************************)
EXTENDS Bytecode, SequenceFacts, FiniteSetTheorems

Text == Seq(Int)

Val(a, m, f) ==
  [tag : {"num"}, v : Int] \cup [tag : {"str"}, text : Text]
    \cup [tag : {"arr"}, v : 1 .. a] \cup [tag : {"map"}, v : 1 .. m]
    \cup [tag : {"fn"}, v : 1 .. f]

EntryOf(T) == [key : {x \in T : IsKey(x)}, value : T]

LEMMA ValueIsVal == Value = Val(Len(arrays), Len(maps), Len(fns))
BY DEF Value, Val, Text

LEMMA ValueFacts ==
  ASSUME NEW a, NEW m, NEW f, NEW x \in Val(a, m, f)
  PROVE  /\ x.tag \in any
         /\ x.tag = "num" => x.v \in Int
         /\ x.tag = "str" => x.text \in Text
         /\ x.tag = "arr" => x.v \in 1 .. a
         /\ x.tag = "map" => x.v \in 1 .. m
         /\ x.tag = "fn" => x.v \in 1 .. f
BY DEF Val, any

LEMMA NumberVal == ASSUME NEW a, NEW m, NEW f, NEW i \in Int PROVE Number(i) \in Val(a, m, f)
BY DEF Val, Number

LEMMA TextVal == ASSUME NEW a, NEW m, NEW f, NEW s \in Text PROVE TextOf(s) \in Val(a, m, f)
BY DEF Val, TextOf

LEMMA ArrayVal == ASSUME NEW a, NEW m, NEW f, NEW i \in 1 .. a PROVE ArrayAt(i) \in Val(a, m, f)
BY DEF Val, ArrayAt

LEMMA MapVal == ASSUME NEW a, NEW m, NEW f, NEW i \in 1 .. m PROVE MapAt(i) \in Val(a, m, f)
BY DEF Val, MapAt

LEMMA FnVal == ASSUME NEW a, NEW m, NEW f, NEW i \in 1 .. f PROVE FnAt(i) \in Val(a, m, f)
BY DEF Val, FnAt

(* Nothing is ever freed: what was a value stays one.                      *)
LEMMA ValGrows ==
  ASSUME NEW a \in Nat, NEW m \in Nat, NEW f \in Nat,
         NEW b \in Nat, NEW o \in Nat, NEW g \in Nat, a <= b, m <= o, f <= g
  PROVE  Val(a, m, f) \subseteq Val(b, o, g)
<1>1. 1 .. a \subseteq 1 .. b /\ 1 .. m \subseteq 1 .. o /\ 1 .. f \subseteq 1 .. g
  OBVIOUS
<1>2. QED BY <1>1 DEF Val

-------------------------------------------------------------------------------
(* Recursive functions on 0 .. n.  Each step of a recursion is a function  *)
(* on T, so that one lemma says for all of them that a solution exists.    *)
Follows(r, n, b, g) == r = [k \in 0 .. n |-> IF k = 0 THEN b ELSE g[k][r[k - 1]]]

LEMMA Iterated ==
  ASSUME NEW T, NEW n \in Nat, NEW b \in T, NEW g \in [1 .. n -> [T -> T]]
  PROVE  \E r \in [0 .. n -> T] : Follows(r, n, b, g)
<1> DEFINE Sol(m) == \E r \in [0 .. m -> T] : Follows(r, m, b, g)
           U == {m \in 0 .. n : ~ Sol(m)}
<1>1. SUFFICES ASSUME U # {} PROVE FALSE
  <2>1. n \in 0 .. n
    OBVIOUS
  <2>2. QED BY <2>1
<1>2. PICK m \in U : \A e \in U : m <= e
  <2>1. U \in SUBSET Nat
    OBVIOUS
  <2> HIDE DEF U
  <2>2. QED BY <1>1, <2>1, LeastElement
<1>3. m \in 0 .. n /\ ~ Sol(m)
  OBVIOUS
<1>4. CASE m = 0
  <2> DEFINE r == [k \in 0 .. m |-> b]
  <2>1. \A k \in 0 .. m : k = 0
    BY <1>4
  <2>2. r \in [0 .. m -> T] /\ Follows(r, m, b, g)
    BY <2>1 DEF Follows
  <2> HIDE DEF r
  <2>3. QED BY <1>3, <2>2
<1>5. CASE m # 0
  <2>1. m - 1 \in 0 .. n /\ m - 1 < m /\ m \in 1 .. n
    BY <1>3, <1>5
  <2>2. Sol(m - 1)
    BY <1>2, <2>1
  <2> HIDE DEF U
  <2>3. PICK q \in [0 .. m - 1 -> T] : Follows(q, m - 1, b, g)
    BY <2>2
  <2> DEFINE r == [k \in 0 .. m |-> IF k = m THEN g[m][q[m - 1]] ELSE q[k]]
  <2>4. q[m - 1] \in T /\ g[m] \in [T -> T]
    BY <2>1, <2>3
  <2>5. g[m][q[m - 1]] \in T
    BY <2>4
  <2>6. \A k \in 0 .. m : k # m => k \in 0 .. m - 1
    BY <2>1
  <2>7. r \in [0 .. m -> T]
    BY <2>5, <2>6
  <2>8. \A k \in 0 .. m : r[k] = IF k = 0 THEN b ELSE g[k][r[k - 1]]
    <3> SUFFICES ASSUME NEW k \in 0 .. m PROVE r[k] = IF k = 0 THEN b ELSE g[k][r[k - 1]]
      OBVIOUS
    <3>1. CASE k = m
      <4>1. m - 1 \in 0 .. m /\ m - 1 # m /\ m \in 0 .. m
        BY <2>1
      <4>2. r[m - 1] = q[m - 1]
        BY <4>1
      <4>3. r[m] = g[m][q[m - 1]]
        BY <4>1
      <4>4. QED BY <1>5, <3>1, <4>2, <4>3
    <3>2. CASE k # m /\ k = 0
      <4>1. q[0] = b /\ r[0] = q[0]
        BY <2>3, <2>6, <3>2 DEF Follows
      <4>2. QED BY <3>2, <4>1
    <3>3. CASE k # m /\ k # 0
      <4>1. k \in 0 .. m - 1 /\ k - 1 \in 0 .. m - 1 /\ k - 1 \in 0 .. m /\ k - 1 # m
        BY <2>1, <3>3
      <4>2. r[k] = q[k] /\ r[k - 1] = q[k - 1]
        BY <3>3, <4>1
      <4>3. q[k] = g[k][q[k - 1]]
        BY <2>3, <3>3, <4>1 DEF Follows
      <4>4. QED BY <3>3, <4>2, <4>3
    <3>4. QED BY <3>1, <3>2, <3>3
  <2>9. r = [k \in 0 .. m |-> r[k]]
    BY <2>7
  <2> HIDE DEF r
  <2>10. Follows(r, m, b, g)
    BY <2>8, <2>9 DEF Follows
  <2>11. QED BY <1>3, <2>7, <2>10
<1>6. QED BY <1>4, <1>5

LEMMA StepsStay ==
  ASSUME NEW T, NEW n \in Nat, NEW r, r[0] \in T,
         \A k \in 1 .. n : r[k - 1] \in T => r[k] \in T
  PROVE  \A k \in 0 .. n : r[k] \in T
<1> DEFINE U == {k \in 0 .. n : r[k] \notin T}
<1>1. SUFFICES ASSUME U # {} PROVE FALSE
  OBVIOUS
<1>2. PICK k \in U : \A e \in U : k <= e
  <2>1. U \in SUBSET Nat
    OBVIOUS
  <2> HIDE DEF U
  <2>2. QED BY <1>1, <2>1, LeastElement
<1>3. k # 0 /\ k \in 1 .. n
  OBVIOUS
<1>4. k - 1 \in 0 .. n /\ ~ (k <= k - 1)
  BY <1>3
<1>5. k - 1 \notin U
  BY <1>2, <1>4
<1>6. r[k - 1] \in T
  BY <1>4, <1>5
<1>7. QED BY <1>3, <1>6

(* The same of a recursion that goes on further up: from p at nxt[p].      *)
Descends(r, i, n, b, g, nxt) ==
  r = [p \in i .. n |-> g[p][IF nxt[p] <= n THEN r[nxt[p]] ELSE b]]

LEMMA Descended ==
  ASSUME NEW T, NEW n \in Nat, NEW b \in T, NEW g \in [0 .. n -> [T -> T]],
         NEW nxt \in [0 .. n -> Nat], \A p \in 0 .. n : nxt[p] > p
  PROVE  \E r \in [0 .. n -> T] : Descends(r, 0, n, b, g, nxt)
<1> DEFINE Sol(i) == \E r \in [i .. n -> T] : Descends(r, i, n, b, g, nxt)
           U == {i \in 0 .. n + 1 : Sol(i)}
<1>1. U \in SUBSET Nat /\ U # {}
  <2> DEFINE r == [p \in n + 1 .. n |-> b]
  <2>1. \A p : p \notin n + 1 .. n
    OBVIOUS
  <2>2. r \in [n + 1 .. n -> T] /\ Descends(r, n + 1, n, b, g, nxt)
    BY <2>1 DEF Descends
  <2> HIDE DEF r
  <2>3. n + 1 \in U
    BY <2>2
  <2>4. U \in SUBSET (0 .. n + 1) /\ 0 .. n + 1 \in SUBSET Nat
    OBVIOUS
  <2> HIDE DEF U
  <2>5. QED BY <2>3, <2>4
<1>2. PICK i \in U : \A e \in U : i <= e
  <2> HIDE DEF U
  <2>1. QED BY <1>1, LeastElement
<1>3. i \in 0 .. n + 1 /\ Sol(i)
  BY <1>2
<1>4. CASE i = 0
  BY <1>3, <1>4
<1>5. CASE i # 0
  <2>1. i - 1 \in 0 .. n /\ ~ (i <= i - 1) /\ i - 1 \in 0 .. n + 1
    BY <1>3, <1>5
  <2>2. ~ Sol(i - 1)
    BY <1>2, <2>1
  <2> HIDE DEF U
  <2>3. PICK q \in [i .. n -> T] : Descends(q, i, n, b, g, nxt)
    BY <1>3
  <2> DEFINE c == i - 1
             r == [p \in c .. n |-> IF p = c THEN g[c][IF nxt[c] <= n THEN q[nxt[c]] ELSE b] ELSE q[p]]
  <2>4. nxt[c] > c /\ nxt[c] \in Nat /\ g[c] \in [T -> T]
    BY <2>1
  <2>5. nxt[c] <= n => nxt[c] \in i .. n
    BY <1>3, <2>4
  <2>6. (IF nxt[c] <= n THEN q[nxt[c]] ELSE b) \in T
    BY <2>5
  <2>7. g[c][IF nxt[c] <= n THEN q[nxt[c]] ELSE b] \in T
    BY <2>4, <2>6
  <2>8. \A p \in c .. n : p # c => p \in i .. n
    BY <1>3
  <2>9. r \in [c .. n -> T]
    BY <2>7, <2>8
  <2>10. \A p \in i .. n : r[p] = q[p] /\ p \in c .. n /\ p \in 0 .. n
    BY <1>3, <2>1
  <2>11. c \in c .. n /\ r[c] = g[c][IF nxt[c] <= n THEN q[nxt[c]] ELSE b]
    BY <2>1
  <2>12. r = [p \in c .. n |-> r[p]]
    BY <2>9
  <2> HIDE DEF r
  <2>13. \A p \in c .. n : r[p] = g[p][IF nxt[p] <= n THEN r[nxt[p]] ELSE b]
    <3> SUFFICES ASSUME NEW p \in c .. n PROVE r[p] = g[p][IF nxt[p] <= n THEN r[nxt[p]] ELSE b]
      OBVIOUS
    <3>1. CASE p = c
      <4>1. nxt[c] <= n => r[nxt[c]] = q[nxt[c]]
        BY <2>5, <2>10
      <4>2. QED BY <2>11, <3>1, <4>1
    <3>2. CASE p # c
      <4>1. p \in i .. n /\ r[p] = q[p] /\ p \in 0 .. n
        BY <2>8, <2>10, <3>2
      <4>2. nxt[p] > p /\ nxt[p] \in Nat
        BY <4>1
      <4>3. nxt[p] <= n => nxt[p] \in i .. n
        BY <1>3, <4>1, <4>2
      <4>4. nxt[p] <= n => r[nxt[p]] = q[nxt[p]]
        BY <2>10, <4>3
      <4>5. q[p] = g[p][IF nxt[p] <= n THEN q[nxt[p]] ELSE b]
        BY <2>3, <4>1 DEF Descends
      <4>6. QED BY <4>1, <4>4, <4>5
    <3>3. QED BY <3>1, <3>2
  <2>14. Descends(r, c, n, b, g, nxt)
    BY <2>12, <2>13 DEF Descends
  <2>15. QED BY <2>2, <2>9, <2>14
<1>6. QED BY <1>4, <1>5

LEMMA AllStay ==
  ASSUME NEW T, NEW n \in Nat, NEW r, NEW nxt \in [0 .. n -> Nat], \A p \in 0 .. n : nxt[p] > p,
         \A p \in 0 .. n : (nxt[p] <= n => r[nxt[p]] \in T) => r[p] \in T
  PROVE  \A p \in 0 .. n : r[p] \in T
<1> DEFINE U == {p \in 0 .. n : r[p] \notin T}
<1>1. SUFFICES ASSUME U # {} PROVE FALSE
  OBVIOUS
<1>2. PICK p \in U : \A e \in U : p >= e
  <2>1. U \in SUBSET (0 .. n)
    OBVIOUS
  <2> HIDE DEF U
  <2>2. QED BY <1>1, <2>1, GreatestElement
<1>3. p \in 0 .. n /\ r[p] \notin T /\ nxt[p] > p /\ nxt[p] \in Nat
  OBVIOUS
<1>4. nxt[p] <= n => nxt[p] \in 0 .. n /\ ~ (p >= nxt[p])
  BY <1>3
<1>5. nxt[p] <= n => nxt[p] \notin U
  BY <1>2, <1>4
<1>6. nxt[p] <= n => r[nxt[p]] \in T
  BY <1>4, <1>5
<1>7. QED BY <1>3, <1>6

-------------------------------------------------------------------------------
(* Texts and what is made of them.                                         *)
LEMMA FunctionIsSeq ==
  ASSUME NEW S, NEW n \in Nat, NEW f \in [1 .. n -> S]
  PROVE  f \in Seq(S) /\ Len(f) = n
OBVIOUS

LEMMA DigitsText == ASSUME NEW n \in Nat PROVE Digits(n) \in Text
<1> DEFINE W == {k \in 2 .. 10 : n >= Tens[k]}
           width == 1 + Cardinality(W)
<1>0. PICK a, b : a = 2 /\ b = 10
  OBVIOUS
<1>1. IsFiniteSet(2 .. 10) /\ Cardinality(2 .. 10) = 9 /\ W \in SUBSET (2 .. 10)
  <2>1. a \in Int /\ b \in Int
    BY <1>0
  <2>2. IsFiniteSet(a .. b) /\ Cardinality(a .. b) = IF a > b THEN 0 ELSE b - a + 1
    BY <2>1, FS_Interval
  <2>3. QED BY <1>0, <2>2
<1> HIDE DEF W
<1>2. Cardinality(W) \in Nat /\ Cardinality(W) <= 9
  BY ZenonT(40), <1>1, FS_Subset, FS_CardinalityType
<1>3. \A k \in 1 .. 10 : Tens[k] \in Nat /\ Tens[k] > 0
  BY DEF Tens
<1>4. \A k \in 1 .. width : 48 + ((n \div Tens[width - k + 1]) % 10) \in Int
  <2> TAKE k \in 1 .. width
  <2>1. width - k + 1 \in 1 .. 10
    BY <1>2
  <2>2. PICK t : t = Tens[width - k + 1]
    OBVIOUS
  <2>3. t \in Nat /\ t > 0
    BY <1>3, <2>1, <2>2
  <2>4. n \div t \in Int
    BY ONLY n \in Nat, <2>3
  <2>5. PICK u : u = n \div t
    OBVIOUS
  <2>6. 48 + (u % 10) \in Int
    BY ONLY <2>4, <2>5
  <2>7. QED BY <2>2, <2>5, <2>6
<1>5. width \in Nat
  BY <1>2
<1> HIDE DEF width
<1>6. [k \in 1 .. width |-> 48 + ((n \div Tens[width - k + 1]) % 10)] \in Seq(Int)
  BY <1>4, <1>5, FunctionIsSeq
<1>7. QED BY <1>6 DEF Digits, width, W, Text

LEMMA DecimalText == ASSUME NEW n \in Int PROVE Decimal(n) \in Text
<1>1. CASE n < 0
  <2>1. 0 - n \in Nat
    BY <1>1
  <2>2. Digits(0 - n) \in Seq(Int)
    BY <2>1, DigitsText DEF Text
  <2>3. <<45>> \in Seq(Int)
    OBVIOUS
  <2>4. <<45>> \o Digits(0 - n) \in Seq(Int)
    BY <2>2, <2>3, ConcatFacts
  <2>5. QED BY <1>1, <2>4 DEF Decimal, Text
<1>2. CASE ~ (n < 0)
  BY <1>2, DigitsText DEF Decimal
<1>3. QED BY <1>1, <1>2

LEMMA AsTextText ==
  ASSUME NEW a, NEW m, NEW f, NEW x \in Val(a, m, f), x.tag \in {"num", "str"}
  PROVE  AsText(x) \in Text
BY ValueFacts, DecimalText DEF AsText

LEMMA PartFacts ==
  ASSUME NEW S, NEW s \in Seq(S), NEW i \in Nat, NEW j \in Int, j <= Len(s)
  PROVE  Part(s, i, j) \in Seq(S)
<1>1. \A k \in i + 1 .. j : s[k] \in S
  BY LenProperties
<1>2. QED BY <1>1, SubSeqProperties DEF Part

LEMMA FmodInt == ASSUME NEW m \in Int, NEW n \in Int, n # 0 PROVE Fmod(m, n) \in Int
<1>1. Abs(n) \in Nat /\ Abs(n) > 0 /\ Abs(m) \in Nat
  BY DEF Abs
<1>2. Abs(m) % Abs(n) \in Int /\ m % Abs(n) \in Int
  BY <1>1
<1>3. QED BY <1>2 DEF Fmod

(* strstr finds the first place, inside the text.                          *)
LEMMA StrstrRange ==
  ASSUME NEW s \in Text, NEW t \in Text, NEW i \in Nat, Strstr(s, t, i) # -1
  PROVE  Strstr(s, t, i) \in i .. Len(s) /\ Strstr(s, t, i) + Len(t) <= Len(s)
<1> DEFINE places == {p \in i .. Len(s) : Occurs(s, t, p)}
<1>0. Len(s) \in Nat
  BY DEF Text
<1>1. places # {}
  BY DEF Strstr
<1>2. places \in SUBSET Nat
  BY <1>0
<1> HIDE DEF places
<1>3. \E p \in places : \A q \in places : p <= q
  BY <1>1, <1>2, LeastElement
<1>4. (CHOOSE p \in places : \A q \in places : p <= q) \in places
  BY <1>3
<1>5. Strstr(s, t, i) = CHOOSE p \in places : \A q \in places : p <= q
  BY <1>1 DEF Strstr, places
<1>6. Strstr(s, t, i) \in places
  BY <1>4, <1>5
<1>7. QED BY <1>6 DEF places, Occurs

LEMMA StrstrInt ==
  ASSUME NEW s \in Text, NEW t \in Text
  PROVE  Strstr(s, t, 0) \in Int
<1>1. CASE Strstr(s, t, 0) = -1
  BY <1>1
<1>2. CASE Strstr(s, t, 0) # -1
  <2>1. Strstr(s, t, 0) \in 0 .. Len(s)
    BY <1>2, StrstrRange
  <2>2. QED BY <2>1
<1>3. QED BY <1>1, <1>2

(* A run of characters ends in the text.                                   *)
LEMMA RunRange ==
  ASSUME NEW s \in Text, NEW i \in 0 .. Len(s), NEW C
  PROVE  Run(s, i, C) \in 0 .. Len(s) - i
<1> DEFINE L == Len(s)
           Good(k) == \A j \in 1 .. k : s[i + j] \in C
           Stopped(k) == i + k < Len(s) => s[i + k + 1] \notin C
           U == {k \in 0 .. L - i : Good(k)}
<1>1. L \in Nat /\ L - i \in Nat
  BY DEF Text
<1>2. 0 \in U
  BY <1>1
<1>3. PICK g \in U : \A k \in U : g >= k
  <2>1. U \in SUBSET (0 .. L - i) /\ U # {}
    BY <1>2
  <2> HIDE DEF U, L
  <2>2. QED BY <1>1, <2>1, GreatestElement
<1>4. Stopped(g)
  <2> SUFFICES ASSUME i + g < L, s[i + g + 1] \in C PROVE FALSE
    OBVIOUS
  <2>1. g + 1 \in 0 .. L - i /\ ~ (g >= g + 1)
    BY <1>1
  <2>2. Good(g + 1)
    <3> SUFFICES ASSUME NEW j \in 1 .. g + 1 PROVE s[i + j] \in C
      OBVIOUS
    <3>1. CASE j \in 1 .. g
      BY <3>1
    <3>2. CASE j = g + 1
      BY <3>2
    <3>3. QED BY <3>1, <3>2
  <2>3. QED BY <1>3, <2>1, <2>2
<1>5. g \in 0 .. L - i /\ Good(g) /\ Stopped(g)
  BY <1>4
<1>6. Run(s, i, C) = CHOOSE k \in 0 .. L - i : Good(k) /\ Stopped(k)
  BY DEF Run
<1> HIDE DEF L, Good, Stopped, U
<1>7. (CHOOSE k \in 0 .. L - i : Good(k) /\ Stopped(k)) \in 0 .. L - i
  BY <1>5
<1>8. QED BY <1>6, <1>7 DEF L

LEMMA DigitAdded == ASSUME NEW m \in Int, NEW c \in Int PROVE 10 * m + c - 48 \in Int
OBVIOUS

LEMMA NumeralInt ==
  ASSUME NEW s \in Text, NEW i \in Nat, NEW n \in Nat, i + n <= Len(s)
  PROVE  NumeralValue(s, i, n) \in Int
<1> DEFINE Body(r) == [k \in 0 .. n |-> IF k = 0 THEN 0 ELSE 10 * r[k - 1] + s[i + k] - 48]
           g == [k \in 1 .. n |-> [m \in Int |-> 10 * m + s[i + k] - 48]]
           R == CHOOSE r : r = Body(r)
<1>1. \A k \in 1 .. n : s[i + k] \in Int
  BY LenProperties DEF Text
<1>2. g \in [1 .. n -> [Int -> Int]]
  <2>1. \A k \in 1 .. n : \A m \in Int : 10 * m + s[i + k] - 48 \in Int
    BY <1>1, DigitAdded
  <2>2. \A k \in 1 .. n : [m \in Int |-> 10 * m + s[i + k] - 48] \in [Int -> Int]
    BY <2>1
  <2>3. QED BY <2>2
<1>3. PICK r \in [0 .. n -> Int] : Follows(r, n, 0, g)
  <2> HIDE DEF g
  <2>1. 0 \in Int
    OBVIOUS
  <2>2. QED BY <1>2, <2>1, Iterated
<1>4. r = Body(r)
  <2>1. \A k \in 0 .. n : k # 0 => k \in 1 .. n /\ k - 1 \in 0 .. n
    OBVIOUS
  <2>2. \A k \in 1 .. n : g[k][r[k - 1]] = 10 * r[k - 1] + s[i + k] - 48
    BY <2>1
  <2>3. QED BY <1>3, <2>1, <2>2 DEF Follows
<1>5. R = Body(R)
  <2> HIDE DEF Body
  <2>1. QED BY <1>4
<1>6. NumeralValue(s, i, n) = R[n]
  BY DEF NumeralValue
<1> HIDE DEF R
<1>7. R[0] = 0 /\ \A k \in 1 .. n : R[k] = 10 * R[k - 1] + s[i + k] - 48
  <2>1. \A k \in 0 .. n : R[k] = IF k = 0 THEN 0 ELSE 10 * R[k - 1] + s[i + k] - 48
    BY <1>5
  <2>2. QED BY <2>1
<1>8. \A k \in 1 .. n : R[k - 1] \in Int => R[k] \in Int
  <2> SUFFICES ASSUME NEW k \in 1 .. n, R[k - 1] \in Int PROVE R[k] \in Int
    OBVIOUS
  <2>1. s[i + k] \in Int /\ R[k] = 10 * R[k - 1] + s[i + k] - 48
    BY <1>1, <1>7
  <2>2. QED BY <2>1, DigitAdded
<1>9. \A k \in 0 .. n : R[k] \in Int
  <2>1. R[0] \in Int
    BY <1>7
  <2>2. QED BY ONLY n \in Nat, <1>8, <2>1, StepsStay
<1>10. QED BY <1>6, <1>9

LEMMA StrtodInt == ASSUME NEW s \in Text PROVE Strtod(s).value \in Int
<1> DEFINE a == Run(s, 0, Spaces)
           sign == IF a < Len(s) /\ s[a + 1] \in {43, 45} THEN 1 ELSE 0
           n == Run(s, a + sign, 48 .. 57)
<1>0. Len(s) \in Nat /\ 0 \in 0 .. Len(s)
  BY DEF Text
<1>1. a \in 0 .. Len(s) - 0
  BY <1>0, RunRange
<1> HIDE DEF a
<1>2. sign \in 0 .. 1 /\ a + sign \in 0 .. Len(s)
  BY <1>0, <1>1
<1> HIDE DEF sign
<1>3. n \in 0 .. Len(s) - (a + sign)
  BY <1>2, RunRange
<1> HIDE DEF n
<1>4. a + sign \in Nat /\ n \in Nat /\ a + sign + n <= Len(s)
  BY <1>0, <1>2, <1>3
<1>5. NumeralValue(s, a + sign, n) \in Int
  BY <1>4, NumeralInt
<1>6. Strtod(s).value \in {0, NumeralValue(s, a + sign, n), 0 - NumeralValue(s, a + sign, n)}
  BY DEF Strtod, a, sign, n
<1>7. QED BY <1>5, <1>6

LEMMA TrimmedText == ASSUME NEW s \in Text PROVE Trimmed(s) \in Text
<1> DEFINE L == Len(s)
           i == Run(s, 0, Spaces)
           Blank(e) == \A k \in e + 1 .. L : IsSpace(s[k])
           Last1(e) == e > i => ~ IsSpace(s[e])
           U == {e \in i .. L : Blank(e)}
           j == CHOOSE e \in i .. L : Blank(e) /\ Last1(e)
<1>0. L \in Nat /\ 0 \in 0 .. L
  BY DEF Text
<1>1. i \in 0 .. L
  <2>1. i \in 0 .. L - 0
    BY <1>0, RunRange
  <2>2. QED BY <1>0, <2>1
<1>2. Trimmed(s) = Part(s, i, j)
  BY DEF Trimmed
<1> HIDE DEF i
<1>3. PICK e \in U : \A d \in U : e <= d
  <2>1. L \in U
    BY <1>0, <1>1
  <2>2. U \in SUBSET Nat
    BY <1>0, <1>1
  <2> HIDE DEF U
  <2>3. QED BY <2>1, <2>2, LeastElement
<1>4. Last1(e)
  <2> SUFFICES ASSUME e > i, IsSpace(s[e]) PROVE FALSE
    OBVIOUS
  <2>1. e \in i .. L /\ Blank(e)
    OBVIOUS
  <2>2. e - 1 \in i .. L /\ ~ (e <= e - 1)
    BY <1>0, <1>1, <2>1
  <2>3. Blank(e - 1)
    <3> SUFFICES ASSUME NEW k \in e - 1 + 1 .. L PROVE IsSpace(s[k])
      OBVIOUS
    <3>1. k = e \/ k \in e + 1 .. L
      BY <1>1, <2>1
    <3>2. QED BY <2>1, <3>1
  <2>4. QED BY <1>3, <2>2, <2>3
<1>5. e \in i .. L /\ Blank(e) /\ Last1(e)
  BY <1>4
<1> HIDE DEF L, Blank, Last1, U
<1>6. j \in i .. L
  BY <1>5
<1> HIDE DEF j
<1>7. i \in Nat /\ j \in Int /\ j <= Len(s)
  BY <1>0, <1>1, <1>6 DEF L
<1>8. QED BY <1>2, <1>7, PartFacts DEF Text

(* The elements of an array of texts are joined from the left.             *)
LEMMA JoinedText ==
  ASSUME NEW a, NEW m, NEW f, NEW ts \in Seq(Val(a, m, f)), AllOf(ts, "str"), NEW sep \in Text
  PROVE  Joined(ts, sep) \in Text
<1> DEFINE n == Len(ts)
           E(k, u) == u \o (IF k > 1 THEN sep ELSE <<>>) \o ts[k].text
           Body(r) == [k \in 0 .. n |-> IF k = 0 THEN <<>> ELSE E(k, r[k - 1])]
           g == [k \in 1 .. n |-> [u \in Text |-> E(k, u)]]
           R == CHOOSE r : r = Body(r)
<1>0. n \in Nat /\ <<>> \in Text
  BY EmptySeq DEF Text
<1>1. \A k \in 1 .. n : \A u \in Text : E(k, u) \in Text
  <2> TAKE k \in 1 .. n
  <2> TAKE u \in Text
  <2>1. ts[k] \in Val(a, m, f) /\ ts[k].tag = "str"
    BY LenProperties DEF AllOf
  <2>2. ts[k].text \in Text
    BY <2>1, ValueFacts
  <2>3. (IF k > 1 THEN sep ELSE <<>>) \in Text
    BY <1>0
  <2>4. u \o (IF k > 1 THEN sep ELSE <<>>) \in Text
    BY <2>3, ConcatFacts DEF Text
  <2>5. QED BY <2>2, <2>4, ConcatFacts DEF Text
<1>2. Joined(ts, sep) = R[n]
  BY DEF Joined
<1> HIDE DEF E
<1>3. g \in [1 .. n -> [Text -> Text]]
  <2>1. \A k \in 1 .. n : [u \in Text |-> E(k, u)] \in [Text -> Text]
    BY <1>1
  <2>2. QED BY <2>1
<1>4. PICK r \in [0 .. n -> Text] : Follows(r, n, <<>>, g)
  <2> HIDE DEF g, n
  <2>1. QED BY <1>0, <1>3, Iterated
<1>5. r = Body(r)
  <2>1. \A k \in 0 .. n : k # 0 => k \in 1 .. n /\ k - 1 \in 0 .. n
    BY <1>0
  <2>2. \A k \in 1 .. n : g[k][r[k - 1]] = E(k, r[k - 1])
    BY <2>1
  <2>3. QED BY <1>4, <2>1, <2>2 DEF Follows
<1>6. R = Body(R)
  <2> HIDE DEF Body
  <2>1. QED BY <1>5
<1> HIDE DEF R, n
<1>7. \A k \in 0 .. n : R[k] = IF k = 0 THEN <<>> ELSE E(k, R[k - 1])
  BY <1>6
<1>8. R[0] \in Text /\ \A k \in 1 .. n : R[k - 1] \in Text => R[k] \in Text
  BY <1>0, <1>1, <1>7
<1>9. \A k \in 0 .. n : R[k] \in Text
  BY ONLY <1>0, <1>8, StepsStay
<1>10. QED BY <1>0, <1>2, <1>9

(* strstr is asked again behind each separator it finds.                   *)
LEMMA SplitTexts ==
  ASSUME NEW a, NEW m, NEW f, NEW s \in Text, NEW sep \in Text, sep # <<>>
  PROVE  VmSplit(s, sep) \in Seq(Val(a, m, f))
<1> DEFINE n == Len(s)
           T == Seq(Val(a, m, f))
           E(p, t) == LET q == Strstr(s, sep, p)
                      IN  IF q = -1 THEN <<TextOf(Part(s, p, n))>> ELSE <<TextOf(Part(s, p, q))>> \o t
           To(p) == Strstr(s, sep, p) + Len(sep)
           Body(r) == [p \in 0 .. n |->
                        LET q == Strstr(s, sep, p)
                        IN  IF q = -1 THEN <<TextOf(Part(s, p, n))>>
                            ELSE <<TextOf(Part(s, p, q))>> \o r[q + Len(sep)]]
           g == [p \in 0 .. n |-> [t \in T |-> E(p, t)]]
           nxt == [p \in 0 .. n |-> IF Strstr(s, sep, p) = -1 THEN n + 1 ELSE To(p)]
           R == CHOOSE r : r = Body(r)
<1>0. n \in Nat /\ Len(sep) \in Nat /\ Len(sep) > 0 /\ <<>> \in T
  BY EmptySeq DEF Text
<1>1. \A p \in 0 .. n : Strstr(s, sep, p) # -1 => Strstr(s, sep, p) \in p .. n /\ To(p) <= n
  BY <1>0, StrstrRange
<1>2. \A p \in 0 .. n : \A t \in T : E(p, t) \in T
  <2> TAKE p \in 0 .. n
  <2> TAKE t \in T
  <2>1. CASE Strstr(s, sep, p) = -1
    <3>1. Part(s, p, n) \in Text
      BY <1>0, PartFacts DEF Text
    <3>2. TextOf(Part(s, p, n)) \in Val(a, m, f)
      BY <3>1, TextVal
    <3>3. QED BY <2>1, <3>2
  <2>2. CASE Strstr(s, sep, p) # -1
    <3>1. Strstr(s, sep, p) \in Int /\ Strstr(s, sep, p) <= Len(s)
      BY <1>0, <1>1, <2>2
    <3>2. Part(s, p, Strstr(s, sep, p)) \in Text
      BY <3>1, PartFacts DEF Text
    <3>3. TextOf(Part(s, p, Strstr(s, sep, p))) \in Val(a, m, f)
      BY <3>2, TextVal
    <3>4. <<TextOf(Part(s, p, Strstr(s, sep, p)))>> \in T
      BY <3>3
    <3>5. <<TextOf(Part(s, p, Strstr(s, sep, p)))>> \o t \in T
      BY <3>4, ConcatFacts
    <3>6. QED BY <2>2, <3>5
  <2>3. QED BY <2>1, <2>2
<1>3. VmSplit(s, sep) = R[0]
  BY DEF VmSplit
<1>4. \A r : \A p \in 0 .. n : Body(r)[p] = E(p, r[To(p)])
  OBVIOUS
<1>5. \A p \in 0 .. n : Strstr(s, sep, p) = -1 => \A t, u : E(p, t) = E(p, u)
  OBVIOUS
<1> HIDE DEF E
<1>6. g \in [0 .. n -> [T -> T]]
  <2>1. \A p \in 0 .. n : [t \in T |-> E(p, t)] \in [T -> T]
    BY <1>2
  <2>2. QED BY <2>1
<1>7. nxt \in [0 .. n -> Nat] /\ \A p \in 0 .. n : nxt[p] > p
  BY <1>0, <1>1
<1>8. PICK r \in [0 .. n -> T] : Descends(r, 0, n, <<>>, g, nxt)
  <2> HIDE DEF g, n, nxt, T
  <2>1. QED BY <1>0, <1>6, <1>7, Descended
<1>9. \A p \in 0 .. n : r[p] = E(p, r[To(p)])
  <2> SUFFICES ASSUME NEW p \in 0 .. n PROVE r[p] = E(p, r[To(p)])
    OBVIOUS
  <2>1. PICK t : t = IF nxt[p] <= n THEN r[nxt[p]] ELSE <<>>
    OBVIOUS
  <2>2. t \in T
    BY <1>0, <1>7, <2>1
  <2>3. r[p] = g[p][t]
    BY <1>8, <2>1 DEF Descends
  <2>4. r[p] = E(p, t)
    BY <2>2, <2>3
  <2>5. CASE Strstr(s, sep, p) = -1
    BY <1>5, <2>4, <2>5
  <2>6. CASE Strstr(s, sep, p) # -1
    <3>1. nxt[p] = To(p) /\ To(p) <= n
      BY <1>1, <2>6
    <3>2. QED BY <2>1, <2>4, <3>1
  <2>7. QED BY <2>5, <2>6
<1>10. r = Body(r)
  <2>1. r = [p \in 0 .. n |-> r[p]] /\ Body(r) = [p \in 0 .. n |-> Body(r)[p]]
    OBVIOUS
  <2> HIDE DEF Body
  <2>2. QED BY <1>4, <1>9, <2>1
<1>11. R = Body(R)
  <2> HIDE DEF Body
  <2>1. QED BY <1>10
<1> HIDE DEF R
<1>12. \A p \in 0 .. n : R[p] = E(p, R[To(p)])
  <2> SUFFICES ASSUME NEW p \in 0 .. n PROVE R[p] = E(p, R[To(p)])
    OBVIOUS
  <2>1. Body(R)[p] = E(p, R[To(p)])
    BY <1>4
  <2> HIDE DEF Body
  <2>2. QED BY <1>11, <2>1
<1>13. \A p \in 0 .. n : (nxt[p] <= n => R[nxt[p]] \in T) => R[p] \in T
  <2> SUFFICES ASSUME NEW p \in 0 .. n, nxt[p] <= n => R[nxt[p]] \in T PROVE R[p] \in T
    OBVIOUS
  <2>1. R[p] = E(p, R[To(p)])
    BY <1>12
  <2>2. CASE Strstr(s, sep, p) = -1
    <3>1. E(p, R[To(p)]) = E(p, <<>>)
      BY <1>5, <2>2
    <3>2. QED BY <1>0, <1>2, <2>1, <3>1
  <2>3. CASE Strstr(s, sep, p) # -1
    <3>1. nxt[p] = To(p) /\ To(p) <= n
      BY <1>1, <2>3
    <3>2. R[To(p)] \in T
      BY <3>1
    <3>3. QED BY <1>2, <2>1, <3>2
  <2>4. QED BY <2>2, <2>3
<1> HIDE DEF n, nxt, T, To
<1>14. \A p \in 0 .. n : R[p] \in T
  BY ONLY <1>0, <1>7, <1>13, AllStay
<1>15. QED BY <1>0, <1>3, <1>14 DEF T

LEMMA InsertedSeq ==
  ASSUME NEW S, NEW t \in Seq(S), NEW x \in S
  PROVE  Inserted(t, x) \in Seq(S)
<1> DEFINE K == {k \in DOMAIN t : ~ Lesser(x, t[k])}
           c == Cardinality(K)
<1>1. Len(t) \in Nat /\ DOMAIN t = 1 .. Len(t) /\ \A k \in 1 .. Len(t) : t[k] \in S
  BY LenProperties
<1>2. IsFiniteSet(1 .. Len(t)) /\ Cardinality(1 .. Len(t)) = Len(t)
  <2>1. PICK l : l = 1
    OBVIOUS
  <2>2. l \in Int /\ Len(t) \in Int
    BY <1>1, <2>1
  <2>3. IsFiniteSet(l .. Len(t)) /\ Cardinality(l .. Len(t)) = IF l > Len(t) THEN 0 ELSE Len(t) - l + 1
    BY ONLY <2>2, FS_Interval
  <2>4. QED BY <1>1, <2>1, <2>3
<1>3. K \in SUBSET (1 .. Len(t))
  BY <1>1
<1>4. Inserted(t, x) = InsertAt(t, 1 + c, x)
  BY DEF Inserted
<1> HIDE DEF K
<1>5. c \in Nat /\ c <= Len(t)
  BY <1>2, <1>3, FS_Subset, FS_CardinalityType
<1> HIDE DEF c
<1>6. PICK i : i = 1 + c
  OBVIOUS
<1>7. SubSeq(t, 1, i - 1) \in Seq(S) /\ SubSeq(t, i, Len(t)) \in Seq(S)
  <2>1. \A k \in 1 .. i - 1 : t[k] \in S
    BY <1>1, <1>5, <1>6
  <2>2. \A k \in i .. Len(t) : t[k] \in S
    BY <1>1, <1>5, <1>6
  <2>3. 1 \in Int /\ i \in Int /\ i - 1 \in Int /\ Len(t) \in Int
    BY <1>1, <1>5, <1>6
  <2>4. QED BY ONLY <2>1, <2>2, <2>3, SubSeqProperties
<1>8. <<x>> \in Seq(S)
  OBVIOUS
<1>9. SubSeq(t, 1, i - 1) \o <<x>> \in Seq(S)
  BY ONLY <1>7, <1>8, ConcatFacts
<1>10. (SubSeq(t, 1, i - 1) \o <<x>>) \o SubSeq(t, i, Len(t)) \in Seq(S)
  BY ONLY <1>7, <1>9, ConcatFacts
<1>11. InsertAt(t, i, x) = SubSeq(t, 1, i - 1) \o <<x>> \o SubSeq(t, i, Len(t))
  BY ONLY Zenon DEF InsertAt
<1>12. QED BY ONLY Zenon, <1>4, <1>6, <1>10, <1>11

LEMMA SortedSeq ==
  ASSUME NEW S, NEW s \in Seq(S)
  PROVE  Sorted(s) \in Seq(S)
<1> DEFINE n == Len(s)
           T == Seq(S)
           Body(r) == [k \in 0 .. n |-> IF k = 0 THEN <<>> ELSE Inserted(r[k - 1], s[k])]
           g == [k \in 1 .. n |-> [t \in T |-> Inserted(t, s[k])]]
           R == CHOOSE r : r = Body(r)
<1>0. n \in Nat /\ <<>> \in T /\ \A k \in 1 .. n : s[k] \in S
  BY EmptySeq, LenProperties
<1>1. \A k \in 1 .. n : \A t \in T : Inserted(t, s[k]) \in T
  BY <1>0, InsertedSeq
<1>2. Sorted(s) = R[n]
  BY DEF Sorted
<1>3. g \in [1 .. n -> [T -> T]]
  <2>1. \A k \in 1 .. n : [t \in T |-> Inserted(t, s[k])] \in [T -> T]
    BY <1>1
  <2>2. QED BY <2>1
<1>4. PICK r \in [0 .. n -> T] : Follows(r, n, <<>>, g)
  <2> HIDE DEF g, n, T
  <2>1. QED BY <1>0, <1>3, Iterated
<1>5. r = Body(r)
  <2>1. \A k \in 0 .. n : k # 0 => k \in 1 .. n /\ k - 1 \in 0 .. n
    BY <1>0
  <2>2. \A k \in 1 .. n : g[k][r[k - 1]] = Inserted(r[k - 1], s[k])
    BY <2>1
  <2>3. QED BY <1>4, <2>1, <2>2 DEF Follows
<1>6. R = Body(R)
  <2> HIDE DEF Body
  <2>1. QED BY <1>5
<1> HIDE DEF R, n, T
<1>7. \A k \in 0 .. n : R[k] = IF k = 0 THEN <<>> ELSE Inserted(R[k - 1], s[k])
  BY <1>6
<1>8. R[0] \in T /\ \A k \in 1 .. n : R[k - 1] \in T => R[k] \in T
  BY SMTT(40), <1>0, <1>1, <1>7
<1>9. \A k \in 0 .. n : R[k] \in T
  BY ONLY <1>0, <1>8, StepsStay
<1>10. QED BY <1>0, <1>2, <1>9 DEF T
-------------------------------------------------------------------------------
(* Maps.                                                                   *)
LEMMA FoundFacts ==
  ASSUME NEW S, NEW mp \in Seq(S), NEW k, KeyAt(mp, k) # {}
  PROVE  Found(mp, k) \in 1 .. Len(mp)
<1> DEFINE U == KeyAt(mp, k)
<1>1. U \in SUBSET (1 .. Len(mp)) /\ U \in SUBSET Nat
  BY LenProperties DEF KeyAt
<1> HIDE DEF U
<1>2. \E j \in U : \A i \in U : j <= i
  BY <1>1, LeastElement DEF U
<1>3. (CHOOSE j \in U : \A i \in U : j <= i) \in U
  BY <1>2
<1>4. QED BY <1>1, <1>3 DEF Found, U

LEMMA EnteredMap ==
  ASSUME NEW S, NEW mp \in Seq(EntryOf(S)), NEW k \in S, IsKey(k), NEW x \in S
  PROVE  Entered(mp, k, x) \in Seq(EntryOf(S))
<1>1. CASE KeyAt(mp, k) = {}
  <2>1. [key |-> k, value |-> x] \in EntryOf(S)
    BY DEF EntryOf
  <2>2. Append(mp, [key |-> k, value |-> x]) \in Seq(EntryOf(S))
    BY <2>1, AppendFacts
  <2>3. QED BY <1>1, <2>2 DEF Entered
<1>2. CASE KeyAt(mp, k) # {}
  <2> DEFINE j == Found(mp, k)
  <2>1. j \in 1 .. Len(mp)
    BY <1>2, FoundFacts
  <2>2. Entered(mp, k, x) = [mp EXCEPT ![j].value = x]
    BY <1>2 DEF Entered
  <2> HIDE DEF j
  <2>3. mp[j] \in EntryOf(S)
    BY <2>1, ElementOfSeq
  <2>4. [mp[j] EXCEPT !.value = x] \in EntryOf(S)
    BY <2>3 DEF EntryOf
  <2>5. [mp EXCEPT ![j] = [mp[j] EXCEPT !.value = x]] \in Seq(EntryOf(S))
    BY <2>1, <2>4, ExceptSeq
  <2>6. QED BY <2>2, <2>5
<1>3. QED BY <1>1, <1>2

LEMMA PairsMap ==
  ASSUME NEW S, NEW xs \in Seq(S), NEW h \in Nat, Len(xs) = 2 * h, \A k \in 1 .. h : IsKey(xs[2 * k - 1])
  PROVE  MapOfPairs(xs) \in Seq(EntryOf(S))
<1> DEFINE n == Len(xs) \div 2
           T == Seq(EntryOf(S))
           E(k, u) == Entered(u, xs[2 * k - 1], xs[2 * k])
           Body(r) == [k \in 0 .. n |-> IF k = 0 THEN <<>> ELSE E(k, r[k - 1])]
           g == [k \in 1 .. n |-> [u \in T |-> E(k, u)]]
           R == CHOOSE r : r = Body(r)
<1>0. n = h /\ <<>> \in T
  BY EmptySeq
<1>1. \A k \in 1 .. h : \A u \in T : E(k, u) \in T
  <2> TAKE k \in 1 .. h
  <2> TAKE u \in T
  <2>1. 2 * k - 1 \in 1 .. Len(xs) /\ 2 * k \in 1 .. Len(xs)
    OBVIOUS
  <2>2. xs[2 * k - 1] \in S /\ xs[2 * k] \in S /\ IsKey(xs[2 * k - 1])
    BY <2>1, ElementOfSeq
  <2>3. QED BY <2>2, EnteredMap
<1>2. MapOfPairs(xs) = R[n]
  BY DEF MapOfPairs
<1> HIDE DEF E
<1>3. g \in [1 .. h -> [T -> T]]
  <2>1. \A k \in 1 .. h : [u \in T |-> E(k, u)] \in [T -> T]
    BY <1>1
  <2>2. QED BY <1>0, <2>1
<1>4. PICK r \in [0 .. h -> T] : Follows(r, h, <<>>, g)
  <2> HIDE DEF g, n, T
  <2>1. QED BY <1>0, <1>3, Iterated
<1>5. r = Body(r)
  <2>1. \A k \in 0 .. h : k # 0 => k \in 1 .. h /\ k - 1 \in 0 .. h
    OBVIOUS
  <2>2. \A k \in 1 .. h : g[k][r[k - 1]] = E(k, r[k - 1])
    BY <1>0, <2>1
  <2>3. QED BY <1>0, <1>4, <2>1, <2>2 DEF Follows
<1>6. R = Body(R)
  <2> HIDE DEF Body
  <2>1. QED BY <1>5
<1> HIDE DEF R, n, T
<1>7. \A k \in 0 .. h : R[k] = IF k = 0 THEN <<>> ELSE E(k, R[k - 1])
  BY <1>0, <1>6
<1>8. R[0] \in T /\ \A k \in 1 .. h : R[k - 1] \in T => R[k] \in T
  BY <1>0, <1>1, <1>7
<1>9. \A k \in 0 .. h : R[k] \in T
  BY ONLY h \in Nat, <1>8, StepsStay
<1>10. QED BY <1>0, <1>2, <1>9 DEF T

LEMMA RemovedSeq ==
  ASSUME NEW S, NEW s \in Seq(S), NEW k \in 1 .. Len(s)
  PROVE  Removed(s, k) \in Seq(S)
<1>1. Len(s) \in Nat /\ \A i \in 1 .. Len(s) : s[i] \in S
  BY LenProperties
<1>2. SubSeq(s, 1, k - 1) \in Seq(S)
  BY <1>1, SubSeqProperties
<1>3. SubSeq(s, k + 1, Len(s)) \in Seq(S)
  BY <1>1, SubSeqProperties
<1>4. QED BY <1>2, <1>3, ConcatFacts DEF Removed

-------------------------------------------------------------------------------
(* The library.                                                            *)
LEMMA Families ==
  DOMAIN Builtins = NumberFns \cup SearchFns \cup TextFns \cup ArrayFns \cup ChangeFns
                      \cup {"array_find", "array_contains", "has_key"}
BY DEF Builtins, NumberFns, SearchFns, TextFns, ArrayFns, ChangeFns

OneArg == {"abs", "to_num", "len", "to_str", "type_of", "str_upper", "str_lower", "str_trim", "pop",
           "array_reverse", "array_sort", "keys", "values"}
ThreeArgs == {"str_slice", "array_slice"}

LEMMA Arities ==
  ASSUME NEW fn \in DOMAIN Builtins
  PROVE  Arity(fn) = IF fn \in OneArg THEN 1 ELSE IF fn \in ThreeArgs THEN 3 ELSE 2
BY DEF Builtins, Arity, Entry, OneArg, ThreeArgs

LEMMA NamedIs ==
  ASSUME NEW i \in Ids
  PROVE  Named(i) \in DOMAIN Builtins
BY DEF Named, Ids

(* The arrays and maps there are, and arguments the machine accepts.       *)
Heap(ar, ms, a, m, f) ==
  /\ a \in Nat /\ m \in Nat /\ f \in Nat
  /\ ar \in Seq(Seq(Val(a, m, f))) /\ Len(ar) = a
  /\ ms \in Seq(Seq(EntryOf(Val(a, m, f)))) /\ Len(ms) = m

Given(fn, xs, ar, ms, a, m, f) ==
  /\ Heap(ar, ms, a, m, f)
  /\ fn \in DOMAIN Builtins
  /\ xs \in Seq(Val(a, m, f)) /\ Len(xs) = Arity(fn)
  /\ Fit(VmKinds(fn), xs) /\ VmAllows(fn, xs, ar)

LEMMA ArgVal ==
  ASSUME NEW fn, NEW xs, NEW ar, NEW ms, NEW a, NEW m, NEW f, Given(fn, xs, ar, ms, a, m, f)
  PROVE  /\ xs[1] \in Val(a, m, f)
         /\ fn \notin OneArg => xs[2] \in Val(a, m, f)
         /\ fn \in ThreeArgs => xs[3] \in Val(a, m, f)
<1>1. \A k \in 1 .. Len(xs) : xs[k] \in Val(a, m, f)
  BY ElementOfSeq DEF Given
<1>2. Len(xs) = IF fn \in OneArg THEN 1 ELSE IF fn \in ThreeArgs THEN 3 ELSE 2
  BY Arities DEF Given
<1>3. fn \in ThreeArgs => fn \notin OneArg
  BY DEF ThreeArgs, OneArg
<1>4. QED BY <1>1, <1>2, <1>3

LEMMA ArrayOf ==
  ASSUME NEW ar, NEW ms, NEW a, NEW m, NEW f, Heap(ar, ms, a, m, f),
         NEW x \in Val(a, m, f), x.tag = "arr"
  PROVE  x.v \in 1 .. Len(ar) /\ ar[x.v] \in Seq(Val(a, m, f))
<1>1. x.v \in 1 .. Len(ar)
  BY ValueFacts DEF Heap
<1>2. QED BY <1>1, ElementOfSeq DEF Heap

LEMMA MapOf ==
  ASSUME NEW ar, NEW ms, NEW a, NEW m, NEW f, Heap(ar, ms, a, m, f),
         NEW x \in Val(a, m, f), x.tag = "map"
  PROVE  x.v \in 1 .. Len(ms) /\ ms[x.v] \in Seq(EntryOf(Val(a, m, f)))
<1>1. x.v \in 1 .. Len(ms)
  BY ValueFacts DEF Heap
<1>2. QED BY <1>1, ElementOfSeq DEF Heap

LEMMA NumberResult ==
  ASSUME NEW fn, NEW xs, NEW ar, NEW ms, NEW a, NEW m, NEW f, Given(fn, xs, ar, ms, a, m, f),
         fn \in NumberFns
  PROVE  VmNumber(fn, xs, ar, ms) \in Int
<1>0. xs[1] \in Val(a, m, f) /\ (fn \notin OneArg => xs[2] \in Val(a, m, f)) /\ Heap(ar, ms, a, m, f)
  BY ArgVal DEF Given
<1>1. CASE fn = "abs"
  <2>1. xs[1].tag = "num"
    BY <1>1 DEF Given, Fit, VmKinds, num
  <2>2. xs[1].v \in Int
    BY <1>0, <2>1, ValueFacts
  <2>3. QED BY <1>1, <2>2 DEF VmNumber, Abs
<1>2. CASE fn \in {"min", "max"}
  <2>1. xs[1].tag = "num" /\ xs[2].tag = "num"
    BY <1>2 DEF Given, Fit, VmKinds, num
  <2>2. xs[1].v \in Int /\ xs[2].v \in Int
    BY <1>0, <1>2, <2>1, ValueFacts DEF OneArg
  <2>3. QED BY <1>2, <2>2 DEF VmNumber
<1>3. CASE fn = "to_num"
  <2>1. xs[1].tag = "num" \/ xs[1].tag = "str"
    BY <1>3 DEF Given, Fit, VmKinds, num, str
  <2>2. CASE xs[1].tag = "num"
    <3>1. xs[1].v \in Int
      BY <1>0, <2>2, ValueFacts
    <3>2. QED BY <1>3, <2>2, <3>1 DEF VmNumber
  <2>3. CASE xs[1].tag = "str"
    <3>1. Strtod(xs[1].text).value \in Int
      BY <1>0, <2>3, ValueFacts, StrtodInt
    <3>2. VmNumber(fn, xs, ar, ms) = Strtod(xs[1].text).value
      BY <1>3, <2>3 DEF VmNumber
    <3>3. QED BY <3>1, <3>2
  <2>4. QED BY <2>1, <2>2, <2>3
<1>4. CASE fn = "len"
  <2>1. xs[1].tag \in {"str", "arr", "map"}
    BY <1>4 DEF Given, Fit, VmKinds, str, arr, map
  <2>2. CASE xs[1].tag = "str"
    <3>1. Len(xs[1].text) \in Int
      BY <1>0, <2>2, ValueFacts, LenProperties DEF Text
    <3>2. QED BY <1>4, <2>2, <3>1 DEF VmNumber
  <2>3. CASE xs[1].tag = "arr"
    <3>1. Len(ar[xs[1].v]) \in Int
      BY <1>0, <2>3, ArrayOf, LenProperties
    <3>2. QED BY <1>4, <2>3, <3>1 DEF VmNumber
  <2>4. CASE xs[1].tag = "map"
    <3>1. Len(ms[xs[1].v]) \in Int
      BY <1>0, <2>4, MapOf, LenProperties
    <3>2. QED BY <1>4, <2>4, <3>1 DEF VmNumber
  <2>5. QED BY <2>1, <2>2, <2>3, <2>4
<1>5. QED BY <1>1, <1>2, <1>3, <1>4 DEF NumberFns

LEMMA SearchResult ==
  ASSUME NEW fn, NEW xs, NEW ar, NEW ms, NEW a, NEW m, NEW f, Given(fn, xs, ar, ms, a, m, f),
         fn \in SearchFns
  PROVE  VmSearch(fn, xs[1].text, xs[2].text) \in Int
<1>1. xs[1] \in Val(a, m, f) /\ xs[2] \in Val(a, m, f)
  BY ArgVal DEF SearchFns, OneArg
<1>2. xs[1].tag = "str" /\ xs[2].tag = "str"
  <2>1. VmKinds(fn) = <<str, str>>
    BY DEF VmKinds, SearchFns
  <2>2. Fit(<<str, str>>, xs)
    BY <2>1 DEF Given
  <2>3. QED BY <2>2 DEF Fit, str
<1>3. xs[1].text \in Text /\ xs[2].text \in Text
  BY <1>1, <1>2, ValueFacts
<1>4. Strstr(xs[1].text, xs[2].text, 0) \in Int
  BY <1>3, StrstrInt
<1>5. \A b : Flag(b) \in Int
  BY DEF Flag
<1>6. QED BY <1>4, <1>5 DEF VmSearch, SearchFns

LEMMA TextResult ==
  ASSUME NEW fn, NEW xs, NEW ar, NEW ms, NEW a, NEW m, NEW f, Given(fn, xs, ar, ms, a, m, f),
         fn \in TextFns
  PROVE  VmText(fn, xs, ar) \in Text
<1>0. /\ xs[1] \in Val(a, m, f) /\ (fn \notin OneArg => xs[2] \in Val(a, m, f))
      /\ (fn \in ThreeArgs => xs[3] \in Val(a, m, f)) /\ Heap(ar, ms, a, m, f)
  BY ArgVal DEF Given
<1>a. Fit(VmKinds(fn), xs) /\ VmAllows(fn, xs, ar)
  BY DEF Given
<1> DEFINE s == xs[1].text
<1>1. CASE fn = "to_str"
  <2>1. CASE xs[1].tag \in {"num", "str"}
    <3>1. AsText(xs[1]) \in Text
      BY <1>0, <2>1, AsTextText
    <3>2. QED BY <1>1, <2>1, <3>1 DEF VmText
  <2>2. CASE xs[1].tag \notin {"num", "str"}
    <3>1. WordText \in Text
      BY DEF WordText, Text
    <3>2. QED BY <1>1, <2>2, <3>1 DEF VmText
  <2>3. QED BY <2>1, <2>2
<1>2. CASE fn = "type_of"
  <2>a. /\ <<110, 117, 109>> \in Text /\ <<115, 116, 114>> \in Text /\ <<97, 114, 114>> \in Text
        /\ <<109, 97, 112>> \in Text /\ <<102, 110>> \in Text
    BY DEF Text
  <2>1. \A t \in any : KindName[t] \in Text
    <3> HIDE DEF Text
    <3>1. QED BY <2>a DEF KindName, any
  <2>2. xs[1].tag \in any
    BY <1>0, ValueFacts
  <2>3. QED BY <1>2, <2>1, <2>2 DEF VmText
<1>3. CASE fn = "str_at"
  <2>1. Fit(<<str, num>>, xs) /\ xs[2].v \in 0 .. Len(s) - 1
    BY <1>a, <1>3 DEF VmKinds, VmAllows
  <2>2. xs[1].tag = "str" /\ xs[2].tag = "num"
    BY <2>1 DEF Fit, str, num
  <2>3. s \in Text
    BY <1>0, <2>2, ValueFacts
  <2>4. s[xs[2].v + 1] \in Int
    BY <2>1, <2>3, LenProperties DEF Text
  <2>5. <<s[xs[2].v + 1]>> \in Text
    BY <2>4 DEF Text
  <2>6. QED BY <1>3, <2>5 DEF VmText
<1>4. CASE fn = "str_slice"
  <2>1. Fit(<<str, num, num>>, xs) /\ xs[2].v >= 0 /\ xs[3].v \in xs[2].v .. Len(s)
    BY <1>a, <1>4 DEF VmKinds, VmAllows
  <2>2. xs[1].tag = "str" /\ xs[2].tag = "num"
    BY <2>1 DEF Fit, str, num
  <2>3. s \in Text /\ xs[2].v \in Int
    BY <1>0, <1>4, <2>2, ValueFacts DEF OneArg
  <2>4. xs[2].v \in Nat /\ xs[3].v \in Int /\ xs[3].v <= Len(s)
    BY <2>1, <2>3, LenProperties DEF Text
  <2>5. Part(s, xs[2].v, xs[3].v) \in Text
    BY <2>3, <2>4, PartFacts DEF Text
  <2>6. QED BY <1>4, <2>5 DEF VmText
<1>5. CASE fn \in {"str_upper", "str_lower", "str_trim"}
  <2>1. Fit(<<str>>, xs)
    BY <1>a, <1>5 DEF VmKinds
  <2>2. xs[1].tag = "str"
    BY <2>1 DEF Fit, str
  <2>3. s \in Text
    BY <1>0, <2>2, ValueFacts
  <2>4. Len(s) \in Nat /\ DOMAIN s = 1 .. Len(s) /\ \A k \in 1 .. Len(s) : s[k] \in Int
    BY <2>3, LenProperties DEF Text
  <2>5. \A c \in Int : ToUpper(c) \in Int /\ ToLower(c) \in Int
    BY DEF ToUpper, ToLower
  <2>6. [k \in DOMAIN s |-> ToUpper(s[k])] \in Text
    BY <2>4, <2>5, FunctionIsSeq DEF Text
  <2>7. [k \in DOMAIN s |-> ToLower(s[k])] \in Text
    BY <2>4, <2>5, FunctionIsSeq DEF Text
  <2>8. Trimmed(s) \in Text
    BY <2>3, TrimmedText
  <2>9. QED BY <1>5, <2>6, <2>7, <2>8 DEF VmText
<1>6. CASE fn = "str_repeat"
  <2>1. Fit(<<str, num>>, xs) /\ xs[2].v >= 0
    BY <1>a, <1>6 DEF VmKinds, VmAllows
  <2>2. xs[1].tag = "str" /\ xs[2].tag = "num"
    BY <2>1 DEF Fit, str, num
  <2>3. s \in Text /\ xs[2].v \in Nat
    BY <1>0, <1>6, <2>1, <2>2, ValueFacts DEF OneArg
  <2>4. PICK l, n : l = Len(s) /\ n = xs[2].v
    OBVIOUS
  <2>5. l \in Nat /\ n \in Nat /\ \A k \in 1 .. l : s[k] \in Int
    BY <2>3, <2>4, LenProperties DEF Text
  <2>6. n * l \in Nat /\ (l = 0 => n * l = 0)
    BY ONLY <2>5
  <2>7. \A k \in 1 .. n * l : s[1 + ((k - 1) % l)] \in Int
    <3> TAKE k \in 1 .. n * l
    <3>1. l > 0 /\ k - 1 \in Int
      BY ONLY <2>5, <2>6, k \in 1 .. n * l
    <3>2. (k - 1) % l \in 0 .. l - 1
      BY ONLY <2>5, <3>1
    <3>3. 1 + ((k - 1) % l) \in 1 .. l
      BY ONLY <2>5, <3>2
    <3>4. QED BY ONLY <2>5, <3>3
  <2>8. [k \in 1 .. n * l |-> s[1 + ((k - 1) % l)]] \in Text
    BY <2>6, <2>7, FunctionIsSeq DEF Text
  <2>9. VmText(fn, xs, ar) = [k \in 1 .. n * l |-> s[1 + ((k - 1) % l)]]
    BY <1>6, <2>4 DEF VmText
  <2>10. QED BY <2>8, <2>9
<1>7. CASE fn = "str_join"
  <2>1. Fit(<<arr, str>>, xs) /\ AllOf(ar[xs[1].v], "str")
    BY <1>a, <1>7 DEF VmKinds, VmAllows
  <2>2. xs[1].tag = "arr" /\ xs[2].tag = "str"
    BY <2>1 DEF Fit, str, arr
  <2>3. ar[xs[1].v] \in Seq(Val(a, m, f)) /\ xs[2].text \in Text
    BY <1>0, <1>7, <2>2, ArrayOf, ValueFacts DEF OneArg
  <2>4. Joined(ar[xs[1].v], xs[2].text) \in Text
    BY <2>1, <2>3, JoinedText
  <2>5. QED BY <1>7, <2>4 DEF VmText
<1>8. QED BY <1>1, <1>2, <1>3, <1>4, <1>5, <1>6, <1>7 DEF TextFns

LEMMA ArrayResult ==
  ASSUME NEW fn, NEW xs, NEW ar, NEW ms, NEW a, NEW m, NEW f, Given(fn, xs, ar, ms, a, m, f),
         fn \in ArrayFns
  PROVE  VmArray(fn, xs, ar, ms) \in Seq(Val(a, m, f))
<1>0. /\ xs[1] \in Val(a, m, f) /\ (fn \notin OneArg => xs[2] \in Val(a, m, f))
      /\ (fn \in ThreeArgs => xs[3] \in Val(a, m, f)) /\ Heap(ar, ms, a, m, f)
  BY ArgVal DEF Given
<1>a. Fit(VmKinds(fn), xs) /\ VmAllows(fn, xs, ar)
  BY DEF Given
<1>1. CASE fn = "str_split"
  <2>1. Fit(<<str, str>>, xs) /\ xs[2].text # <<>>
    BY <1>a, <1>1 DEF VmKinds, VmAllows
  <2>2. xs[1].tag = "str" /\ xs[2].tag = "str"
    BY <2>1 DEF Fit, str
  <2>3. xs[1].text \in Text /\ xs[2].text \in Text
    BY <1>0, <1>1, <2>2, ValueFacts DEF OneArg
  <2>4. VmSplit(xs[1].text, xs[2].text) \in Seq(Val(a, m, f))
    BY <2>1, <2>3, SplitTexts
  <2>5. QED BY <1>1, <2>4 DEF VmArray
<1>2. CASE fn = "array_concat"
  <2>1. Fit(<<arr, arr>>, xs)
    BY <1>a, <1>2 DEF VmKinds
  <2>2. xs[1].tag = "arr" /\ xs[2].tag = "arr"
    BY <2>1 DEF Fit, arr
  <2>3. ar[xs[1].v] \in Seq(Val(a, m, f)) /\ ar[xs[2].v] \in Seq(Val(a, m, f))
    BY <1>0, <1>2, <2>2, ArrayOf DEF OneArg
  <2>4. ar[xs[1].v] \o ar[xs[2].v] \in Seq(Val(a, m, f))
    BY <2>3, ConcatFacts
  <2>5. QED BY <1>2, <2>4 DEF VmArray
<1>3. CASE fn = "array_slice"
  <2>1. Fit(<<arr, num, num>>, xs) /\ xs[2].v >= 0 /\ xs[3].v \in xs[2].v .. Len(ar[xs[1].v])
    BY <1>a, <1>3 DEF VmKinds, VmAllows
  <2>2. xs[1].tag = "arr" /\ xs[2].tag = "num"
    BY <2>1 DEF Fit, arr, num
  <2>3. ar[xs[1].v] \in Seq(Val(a, m, f)) /\ xs[2].v \in Int
    BY <1>0, <1>3, <2>2, ArrayOf, ValueFacts DEF OneArg
  <2>a. Len(ar[xs[1].v]) \in Nat
    BY <2>3, LenProperties
  <2>4. xs[2].v \in Nat /\ xs[3].v \in Int /\ xs[3].v <= Len(ar[xs[1].v])
    <3>1. PICK i, j, l : i = xs[2].v /\ j = xs[3].v /\ l = Len(ar[xs[1].v])
      OBVIOUS
    <3>2. i \in Int /\ l \in Nat /\ i >= 0 /\ j \in i .. l
      BY ONLY <2>1, <2>3, <2>a, <3>1
    <3>3. i \in Nat /\ j \in Int /\ j <= l
      BY ONLY <3>2
    <3>4. QED BY ONLY <3>1, <3>3
  <2>5. Part(ar[xs[1].v], xs[2].v, xs[3].v) \in Seq(Val(a, m, f))
    BY <2>3, <2>4, PartFacts
  <2>6. QED BY <1>3, <2>5 DEF VmArray
<1>4. CASE fn = "array_range"
  <2>1. Fit(<<num, num>>, xs)
    BY <1>a, <1>4 DEF VmKinds
  <2>2. xs[1].tag = "num" /\ xs[2].tag = "num"
    BY <2>1 DEF Fit, num
  <2>3. PICK i, j : i = xs[1].v /\ j = xs[2].v
    OBVIOUS
  <2>4. i \in Int /\ j \in Int
    BY <1>0, <1>4, <2>2, <2>3, ValueFacts DEF OneArg
  <2>5. \A k \in 1 .. j - i : Number(i + k - 1) \in Val(a, m, f)
    BY <2>4, NumberVal
  <2>6. PICK n \in Nat : 1 .. j - i = 1 .. n
    <3>1. CASE j - i >= 0
      BY <2>4, <3>1
    <3>2. CASE ~ (j - i >= 0)
      <4>1. 1 .. j - i = {} /\ 1 .. 0 = {} /\ 0 \in Nat
        BY <2>4, <3>2
      <4>2. QED BY <4>1
    <3>3. QED BY <3>1, <3>2
  <2>7. [k \in 1 .. n |-> Number(i + k - 1)] \in Seq(Val(a, m, f))
    BY <2>5, <2>6, FunctionIsSeq
  <2>8. VmArray(fn, xs, ar, ms) = [k \in 1 .. j - i |-> Number(i + k - 1)]
    BY <1>4, <2>3 DEF VmArray
  <2>9. QED BY <2>6, <2>7, <2>8
<1>5. CASE fn \in {"keys", "values"}
  <2>1. Fit(<<map>>, xs)
    BY <1>a, <1>5 DEF VmKinds
  <2>2. xs[1].tag = "map"
    BY <2>1 DEF Fit, map
  <2>3. PICK e : e = ms[xs[1].v]
    OBVIOUS
  <2>4. e \in Seq(EntryOf(Val(a, m, f)))
    BY <1>0, <2>2, <2>3, MapOf
  <2>5. Len(e) \in Nat /\ DOMAIN e = 1 .. Len(e) /\ \A k \in 1 .. Len(e) : e[k] \in EntryOf(Val(a, m, f))
    BY <2>4, LenProperties
  <2>6. \A k \in 1 .. Len(e) : e[k].key \in Val(a, m, f) /\ e[k].value \in Val(a, m, f)
    BY <2>5 DEF EntryOf
  <2>7. [k \in 1 .. Len(e) |-> e[k].key] \in Seq(Val(a, m, f))
    BY <2>5, <2>6, FunctionIsSeq
  <2>8. [k \in 1 .. Len(e) |-> e[k].value] \in Seq(Val(a, m, f))
    BY <2>5, <2>6, FunctionIsSeq
  <2>9. QED BY <1>5, <2>3, <2>5, <2>7, <2>8 DEF VmArray
<1>6. QED BY <1>1, <1>2, <1>3, <1>4, <1>5 DEF ArrayFns

LEMMA ExceptFacts ==
  ASSUME NEW T, NEW s \in Seq(Seq(T)), NEW i \in 1 .. Len(s), NEW c \in Seq(T)
  PROVE  [s EXCEPT ![i] = c] \in Seq(Seq(T)) /\ Len([s EXCEPT ![i] = c]) = Len(s)
BY ExceptSeq

(* An array or map that is changed stays one of values.                    *)
LEMMA ArrayChanged ==
  ASSUME NEW ar, NEW ms, NEW a, NEW m, NEW f, Heap(ar, ms, a, m, f),
         NEW i \in 1 .. Len(ar), NEW c \in Seq(Val(a, m, f))
  PROVE  Heap([ar EXCEPT ![i] = c], ms, a, m, f)
<1>1. ar \in Seq(Seq(Val(a, m, f))) /\ Len(ar) = a
  BY DEF Heap
<1>2. [ar EXCEPT ![i] = c] \in Seq(Seq(Val(a, m, f))) /\ Len([ar EXCEPT ![i] = c]) = Len(ar)
  BY ONLY <1>1, ExceptFacts
<1>3. QED BY <1>1, <1>2 DEF Heap

LEMMA MapChanged ==
  ASSUME NEW ar, NEW ms, NEW a, NEW m, NEW f, Heap(ar, ms, a, m, f),
         NEW i \in 1 .. Len(ms), NEW c \in Seq(EntryOf(Val(a, m, f)))
  PROVE  Heap(ar, [ms EXCEPT ![i] = c], a, m, f)
<1>1. ms \in Seq(Seq(EntryOf(Val(a, m, f)))) /\ Len(ms) = m
  BY DEF Heap
<1>2. /\ [ms EXCEPT ![i] = c] \in Seq(Seq(EntryOf(Val(a, m, f))))
      /\ Len([ms EXCEPT ![i] = c]) = Len(ms)
  BY ONLY <1>1, ExceptFacts
<1>3. QED BY <1>1, <1>2 DEF Heap

(* The heap after something has been made: the old parts are still typed.  *)
LEMMA HeapGrows ==
  ASSUME NEW ar, NEW ms, NEW a, NEW m, NEW f, Heap(ar, ms, a, m, f),
         NEW b \in Nat, NEW o \in Nat, NEW g \in Nat, a <= b, m <= o, f <= g
  PROVE  /\ Val(a, m, f) \subseteq Val(b, o, g)
         /\ ar \in Seq(Seq(Val(b, o, g))) /\ ms \in Seq(Seq(EntryOf(Val(b, o, g))))
<1>1. Val(a, m, f) \subseteq Val(b, o, g)
  BY SMTT(40), ValGrows DEF Heap
<1>2. EntryOf(Val(a, m, f)) \subseteq EntryOf(Val(b, o, g))
  BY <1>1 DEF EntryOf
<1>3. Seq(Val(a, m, f)) \subseteq Seq(Val(b, o, g))
  BY <1>1, SeqMonotonic
<1>4. Seq(EntryOf(Val(a, m, f))) \subseteq Seq(EntryOf(Val(b, o, g)))
  BY <1>2, SeqMonotonic
<1>5. ar \in Seq(Seq(Val(b, o, g)))
  BY ONLY <1>3, SeqMonotonic, Heap(ar, ms, a, m, f) DEF Heap
<1>6. ms \in Seq(Seq(EntryOf(Val(b, o, g))))
  BY ONLY <1>4, SeqMonotonic, Heap(ar, ms, a, m, f) DEF Heap
<1>7. QED BY <1>1, <1>5, <1>6

LEMMA ArrayMade ==
  ASSUME NEW ar, NEW ms, NEW a, NEW m, NEW f, Heap(ar, ms, a, m, f), NEW c \in Seq(Val(a, m, f))
  PROVE  Heap(Append(ar, c), ms, a + 1, m, f)
<1>0. a \in Nat /\ m \in Nat /\ f \in Nat /\ a + 1 \in Nat /\ a <= a + 1 /\ Len(ar) = a /\ Len(ms) = m
  BY DEF Heap
<1>1. PICK b, T : b = a + 1 /\ T = Seq(Val(b, m, f))
  OBVIOUS
<1>2. b \in Nat /\ a <= b
  BY <1>0, <1>1
<1>3. /\ Val(a, m, f) \subseteq Val(b, m, f)
      /\ ar \in Seq(Seq(Val(b, m, f))) /\ ms \in Seq(Seq(EntryOf(Val(b, m, f))))
  <2>1. m <= m /\ f <= f
    BY <1>0
  <2>2. QED BY <1>0, <1>2, <2>1, HeapGrows
<1>4. ar \in Seq(T) /\ c \in T
  BY <1>1, <1>3, SeqMonotonic
<1>5. Append(ar, c) \in Seq(T) /\ Len(Append(ar, c)) = Len(ar) + 1
  BY ONLY <1>4, AppendFacts
<1>6. QED BY <1>0, <1>1, <1>2, <1>3, <1>5 DEF Heap

LEMMA LastFront ==
  ASSUME NEW S, NEW c \in Seq(S), c # <<>>
  PROVE  Last(c) \in S /\ Front(c) \in Seq(S)
<1>1. Len(c) \in Nat /\ Len(c) > 0 /\ \A k \in 1 .. Len(c) : c[k] \in S
  BY LenProperties, EmptySeq
<1>2. Last(c) \in S
  BY <1>1 DEF Last
<1>3. SubSeq(c, 1, Len(c) - 1) \in Seq(S)
  BY <1>1, SubSeqProperties
<1>4. QED BY <1>2, <1>3 DEF Front

LEMMA ReverseSeq ==
  ASSUME NEW S, NEW c \in Seq(S)
  PROVE  Reverse(c) \in Seq(S)
<1>1. Len(c) \in Nat /\ \A k \in 1 .. Len(c) : c[k] \in S
  BY LenProperties
<1>2. \A k \in 1 .. Len(c) : c[(Len(c) - k) + 1] \in S
  BY <1>1
<1>3. [k \in 1 .. Len(c) |-> c[(Len(c) - k) + 1]] \in Seq(S)
  BY <1>1, <1>2, FunctionIsSeq
<1>4. QED BY <1>3 DEF Reverse

LEMMA ChangeResult ==
  ASSUME NEW fn, NEW xs, NEW ar, NEW ms, NEW a, NEW m, NEW f, Given(fn, xs, ar, ms, a, m, f),
         fn \in ChangeFns, NEW at \in Nat, fn = "del" => at <= Len(ms[xs[1].v]), NEW r, r = VmChanges(fn, xs, ar, ms, at)
  PROVE  Heap(r.arrays, r.maps, a, m, f) /\ r.val \in Val(a, m, f)
<1>0. /\ xs[1] \in Val(a, m, f) /\ (fn \notin OneArg => xs[2] \in Val(a, m, f))
      /\ Heap(ar, ms, a, m, f) /\ Fit(VmKinds(fn), xs) /\ VmAllows(fn, xs, ar)
  BY ArgVal DEF Given
<1> DEFINE c == ar[xs[1].v]
<1>a. \A x, p, q : /\ Outcome(x, p, q).val = x
                   /\ Outcome(x, p, q).arrays = p
                   /\ Outcome(x, p, q).maps = q
  BY DEF Outcome
<1>b. fn # "del" => xs[1].tag = "arr"
  <2>1. CASE fn = "push"
    <3>1. Fit(<<arr, any>>, xs)
      BY <1>0, <2>1 DEF VmKinds
    <3>2. QED BY <3>1 DEF Fit, arr
  <2>2. CASE fn \in {"pop", "array_reverse", "array_sort"}
    <3>1. Fit(<<arr>>, xs)
      BY <1>0, <2>2 DEF VmKinds
    <3>2. QED BY <3>1 DEF Fit, arr
  <2>3. QED BY <2>1, <2>2 DEF ChangeFns
<1>c. fn # "del" => xs[1].v \in 1 .. Len(ar) /\ c \in Seq(Val(a, m, f)) /\ Len(c) \in Nat
  <2> SUFFICES ASSUME fn # "del" PROVE xs[1].v \in 1 .. Len(ar) /\ c \in Seq(Val(a, m, f)) /\ Len(c) \in Nat
    OBVIOUS
  <2>1. xs[1].v \in 1 .. Len(ar) /\ c \in Seq(Val(a, m, f))
    BY <1>0, <1>b, ArrayOf
  <2>2. QED BY <2>1, LenProperties
<1>1. CASE fn = "push"
  <2>1. r = Outcome(Number(Len(c) + 1), [ar EXCEPT ![xs[1].v] = Append(c, xs[2])], ms)
    BY <1>1 DEF VmChanges
  <2>2. xs[2] \in Val(a, m, f)
    BY <1>0, <1>1 DEF OneArg
  <2>3. Append(c, xs[2]) \in Seq(Val(a, m, f))
    BY <1>1, <1>c, <2>2, AppendFacts
  <2>4. Number(Len(c) + 1) \in Val(a, m, f)
    BY <1>1, <1>c, NumberVal
  <2>5. Heap([ar EXCEPT ![xs[1].v] = Append(c, xs[2])], ms, a, m, f)
    BY <1>0, <1>1, <1>c, <2>3, ArrayChanged
  <2>6. QED BY ONLY <1>a, <2>1, <2>4, <2>5
<1>2. CASE fn = "pop"
  <2>1. r = Outcome(Last(c), [ar EXCEPT ![xs[1].v] = Front(c)], ms)
    BY <1>2 DEF VmChanges
  <2>2. c # <<>>
    BY <1>0, <1>2 DEF VmAllows
  <2>3. Last(c) \in Val(a, m, f) /\ Front(c) \in Seq(Val(a, m, f))
    BY <1>2, <1>c, <2>2, LastFront
  <2>4. Heap([ar EXCEPT ![xs[1].v] = Front(c)], ms, a, m, f)
    BY <1>0, <1>2, <1>c, <2>3, ArrayChanged
  <2>5. QED BY ONLY <1>a, <2>1, <2>3, <2>4
<1>3. CASE fn = "array_reverse"
  <2>1. r = Outcome(xs[1], [ar EXCEPT ![xs[1].v] = Reverse(c)], ms)
    BY <1>3 DEF VmChanges
  <2>2. Reverse(c) \in Seq(Val(a, m, f))
    BY <1>3, <1>c, ReverseSeq
  <2>3. Heap([ar EXCEPT ![xs[1].v] = Reverse(c)], ms, a, m, f)
    BY <1>0, <1>3, <1>c, <2>2, ArrayChanged
  <2>4. QED BY ONLY <1>0, <1>a, <2>1, <2>3
<1>4. CASE fn = "array_sort"
  <2>1. r = Outcome(xs[1], [ar EXCEPT ![xs[1].v] = Sorted(c)], ms)
    BY <1>4 DEF VmChanges
  <2>2. Sorted(c) \in Seq(Val(a, m, f))
    BY <1>4, <1>c, SortedSeq
  <2>3. Heap([ar EXCEPT ![xs[1].v] = Sorted(c)], ms, a, m, f)
    BY <1>0, <1>4, <1>c, <2>2, ArrayChanged
  <2>4. QED BY ONLY <1>0, <1>a, <2>1, <2>3
<1>5. CASE fn = "del" /\ at = 0
  <2>1. r = Outcome(Number(0), ar, ms)
    BY <1>5 DEF VmChanges
  <2>2. Number(0) \in Val(a, m, f)
    BY NumberVal
  <2>3. QED BY ONLY <1>0, <1>a, <2>1, <2>2
<1>6. CASE fn = "del" /\ at > 0
  <2> DEFINE e == ms[xs[1].v]
  <2>1. r = Outcome(Number(1), ar, [ms EXCEPT ![xs[1].v] = Removed(e, at)])
    BY <1>6 DEF VmChanges
  <2>2. Fit(<<map, any>>, xs)
    BY <1>0, <1>6 DEF VmKinds
  <2>3. xs[1].tag = "map"
    BY <2>2 DEF Fit, map
  <2>4. xs[1].v \in 1 .. Len(ms) /\ e \in Seq(EntryOf(Val(a, m, f)))
    BY <1>0, <2>3, MapOf
  <2>5. at \in 1 .. Len(e)
    BY <1>6, <2>4, LenProperties
  <2>6. Removed(e, at) \in Seq(EntryOf(Val(a, m, f)))
    BY <2>4, <2>5, RemovedSeq
  <2>7. Heap(ar, [ms EXCEPT ![xs[1].v] = Removed(e, at)], a, m, f)
    BY <1>0, <2>4, <2>6, MapChanged
  <2>8. Number(1) \in Val(a, m, f)
    BY NumberVal
  <2>9. QED BY ONLY <1>a, <2>1, <2>7, <2>8
<1>7. QED BY <1>1, <1>2, <1>3, <1>4, <1>5, <1>6 DEF ChangeFns

LEMMA LibraryResult ==
  ASSUME NEW fn, NEW xs, NEW ar, NEW ms, NEW a, NEW m, NEW f, Given(fn, xs, ar, ms, a, m, f),
         NEW at \in Nat, fn = "del" => at <= Len(ms[xs[1].v]), NEW r, r = VmResult(fn, xs, ar, ms, at)
  PROVE  \E b \in Nat : a <= b /\ Heap(r.arrays, r.maps, b, m, f) /\ r.val \in Val(b, m, f)
<1>0. Heap(ar, ms, a, m, f) /\ a \in Nat /\ m \in Nat /\ f \in Nat /\ a <= a /\ a + 1 \in Nat /\ a <= a + 1 /\ Len(ar) = a
  BY DEF Given, Heap
<1>a. \A x, p, q : /\ Outcome(x, p, q).val = x
                   /\ Outcome(x, p, q).arrays = p
                   /\ Outcome(x, p, q).maps = q
  BY DEF Outcome
<1>1. CASE fn \in NumberFns
  <2>1. r = Outcome(Number(VmNumber(fn, xs, ar, ms)), ar, ms)
    BY <1>1 DEF VmResult, NumberFns, SearchFns, TextFns, ArrayFns, ChangeFns
  <2>2. Number(VmNumber(fn, xs, ar, ms)) \in Val(a, m, f)
    BY <1>1, NumberResult, NumberVal
  <2>3. QED BY ONLY <1>0, <1>a, <2>1, <2>2
<1>2. CASE fn \in SearchFns
  <2>1. r = Outcome(Number(VmSearch(fn, xs[1].text, xs[2].text)), ar, ms)
    BY <1>2 DEF VmResult, NumberFns, SearchFns, TextFns, ArrayFns, ChangeFns
  <2>2. Number(VmSearch(fn, xs[1].text, xs[2].text)) \in Val(a, m, f)
    BY <1>2, SearchResult, NumberVal
  <2>3. QED BY ONLY <1>0, <1>a, <2>1, <2>2
<1>3. CASE fn \in TextFns
  <2>1. r = Outcome(TextOf(VmText(fn, xs, ar)), ar, ms)
    BY <1>3 DEF VmResult, NumberFns, SearchFns, TextFns, ArrayFns, ChangeFns
  <2>2. TextOf(VmText(fn, xs, ar)) \in Val(a, m, f)
    BY <1>3, TextResult, TextVal
  <2>3. QED BY ONLY <1>0, <1>a, <2>1, <2>2
<1>4. CASE fn \in ArrayFns
  <2>1. r = Outcome(ArrayAt(a + 1), Append(ar, VmArray(fn, xs, ar, ms)), ms)
    BY <1>0, <1>4 DEF VmResult, NumberFns, SearchFns, TextFns, ArrayFns, ChangeFns
  <2>2. Heap(Append(ar, VmArray(fn, xs, ar, ms)), ms, a + 1, m, f)
    BY <1>0, <1>4, ArrayResult, ArrayMade
  <2>3. PICK b : b = a + 1
    OBVIOUS
  <2>4. b \in 1 .. b
    BY <1>0, <2>3
  <2>5. ArrayAt(b) \in Val(b, m, f)
    BY ONLY <2>4, ArrayVal
  <2>6. QED BY ONLY <1>0, <1>a, <2>1, <2>2, <2>3, <2>5
<1>5. CASE fn = "array_find"
  <2>1. r = Outcome(Number(at - 1), ar, ms)
    BY <1>5 DEF VmResult, NumberFns, SearchFns, TextFns, ArrayFns, ChangeFns
  <2>2. Number(at - 1) \in Val(a, m, f)
    BY NumberVal
  <2>3. QED BY ONLY <1>0, <1>a, <2>1, <2>2
<1>6. CASE fn \in {"array_contains", "has_key"}
  <2>1. r = Outcome(Number(Flag(at > 0)), ar, ms)
    BY <1>6 DEF VmResult, NumberFns, SearchFns, TextFns, ArrayFns, ChangeFns
  <2>2. Number(Flag(at > 0)) \in Val(a, m, f)
    BY NumberVal DEF Flag
  <2>3. QED BY ONLY <1>0, <1>a, <2>1, <2>2
<1>7. CASE fn \in ChangeFns
  <2>1. r = VmChanges(fn, xs, ar, ms, at)
    BY <1>7 DEF VmResult, NumberFns, SearchFns, TextFns, ArrayFns, ChangeFns
  <2>2. Heap(r.arrays, r.maps, a, m, f) /\ r.val \in Val(a, m, f)
    BY <1>7, <2>1, ChangeResult
  <2>3. QED BY ONLY <1>0, <2>2
<1>8. QED BY <1>1, <1>2, <1>3, <1>4, <1>5, <1>6, <1>7, Families DEF Given

-------------------------------------------------------------------------------
(* The machine.                                                            *)
FnOf(T) == [pc : 0 .. Len(code) - 1, upvals : Seq(T)]

FrameOf(f) == [pc : 0 .. Len(code), fp : 0 .. MaxStack, closure : 0 .. f]

Slots(T) == [0 .. MaxStack - 1 -> T]

(* The types while a arrays, m maps and f functions exist.                 *)
Typed(a, m, f) ==
  /\ image \in Images
  /\ Heap(arrays, maps, a, m, f)
  /\ fns \in Seq(FnOf(Val(a, m, f))) /\ Len(fns) = f
  /\ pc \in 0 .. Len(code) /\ sp \in 0 .. MaxStack /\ fp \in 0 .. MaxStack
  /\ stack \in Slots(Val(a, m, f))
  /\ mem \in [0 .. varCount - 1 -> Val(a, m, f)]
  /\ calls \in Seq(FrameOf(f)) /\ Len(calls) <= MaxCalls
  /\ closure \in 0 .. f
  /\ status \in {"running", "halted", "died"}

LEMMA TypedIsTypeOK == ASSUME NEW a, NEW m, NEW f, Typed(a, m, f) PROVE TypeOK
<1>1. Value = Val(a, m, f)
  BY ValueIsVal DEF Typed, Heap
<1>2. QED BY <1>1 DEF Typed, TypeOK, Heap, FnOf, FrameOf, Slots, EntryOf

LEMMA ImageFacts ==
  ASSUME NEW a, NEW m, NEW f, Typed(a, m, f)
  PROVE  /\ code \in Seq(Instruction) /\ Len(code) \in Nat /\ varCount \in Nat
         /\ strings \in Seq(Text) /\ MaxStack \in Nat /\ MaxStack > 0 /\ MaxCalls \in Nat
         /\ a \in Nat /\ m \in Nat /\ f \in Nat
<1>1. code \in Seq(Instruction) /\ varCount \in Nat /\ strings \in Seq(Text)
  BY MachineAssumption DEF Typed, code, varCount, strings, Text
<1>2. QED BY <1>1, MachineAssumption, LenProperties DEF Typed, Heap

LEMMA InFacts ==
  ASSUME NEW a, NEW m, NEW f, Typed(a, m, f), pc < Len(code)
  PROVE  In.i \in Int /\ In.n \in Int /\ pc + 1 \in 0 .. Len(code)
<1>1. code \in Seq(Instruction) /\ Len(code) \in Nat /\ pc + 1 \in 1 .. Len(code)
  BY ImageFacts DEF Typed
<1>2. In \in Instruction
  BY <1>1, ElementOfSeq DEF In
<1>3. QED BY <1>1, <1>2 DEF Instruction

LEMMA GiveTyped ==
  ASSUME NEW a, NEW m, NEW f, Typed(a, m, f), NEW k \in Nat, k <= sp, sp - k < MaxStack,
         NEW x \in Val(a, m, f), Give(k, x), pc < Len(code), UNCHANGED <<image, mem, regs, heap, status>>
  PROVE  Typed(a, m, f)'
<1>1. Len(code) \in Nat /\ MaxStack \in Nat /\ pc + 1 \in 0 .. Len(code) /\ sp \in 0 .. MaxStack
  BY ImageFacts, InFacts DEF Typed
<1>2. sp - k \in 0 .. MaxStack - 1 /\ sp - k + 1 \in 0 .. MaxStack
  BY <1>1
<1>3. stack' \in Slots(Val(a, m, f))
  BY <1>2 DEF Typed, Give, Slots
<1>4. pc' \in 0 .. Len(code) /\ sp' \in 0 .. MaxStack
  BY <1>1, <1>2 DEF Give
<1>5. QED BY <1>3, <1>4 DEF Typed, regs, heap, code, varCount, FnOf, FrameOf

LEMMA TopVal ==
  ASSUME NEW a, NEW m, NEW f, Typed(a, m, f), NEW k \in Int, 1 <= k, k <= sp
  PROVE  Top(k) \in Val(a, m, f)
<1>1. sp \in 0 .. MaxStack /\ MaxStack \in Nat
  BY ImageFacts DEF Typed
<1>2. sp - k \in 0 .. MaxStack - 1
  BY <1>1
<1>3. QED BY <1>2 DEF Typed, Slots, Top

LEMMA ArgsVals ==
  ASSUME NEW a, NEW m, NEW f, Typed(a, m, f), NEW k \in Nat, k <= sp
  PROVE  Args(k) \in Seq(Val(a, m, f)) /\ Len(Args(k)) = k /\ \A i \in 1 .. k : Args(k)[i] = Top(k - i + 1)
<1>1. sp \in 0 .. MaxStack /\ MaxStack \in Nat
  BY ImageFacts DEF Typed
<1>2. \A i \in 1 .. k : sp - k + i - 1 \in 0 .. MaxStack - 1 /\ sp - k + i - 1 = sp - (k - i + 1)
  BY <1>1
<1>3. \A i \in 1 .. k : stack[sp - k + i - 1] \in Val(a, m, f) /\ stack[sp - k + i - 1] = Top(k - i + 1)
  BY <1>2 DEF Typed, Slots, Top
<1>4. [i \in 1 .. k |-> stack[sp - k + i - 1]] \in Seq(Val(a, m, f))
      /\ Len([i \in 1 .. k |-> stack[sp - k + i - 1]]) = k
  BY <1>3, FunctionIsSeq
<1>5. QED BY <1>3, <1>4 DEF Args

(* Opcodes that put one value in the place of k.                           *)
LEMMA Computed ==
  ASSUME NEW a, NEW m, NEW f, Typed(a, m, f), NEW op, NEW k \in Nat, k >= 1, k <= sp,
         NEW x \in Val(a, m, f), Computes(op, k, x)
  PROVE  Typed(a, m, f)'
<1>1. sp - k < MaxStack
  <2>1. sp \in 0 .. MaxStack /\ MaxStack \in Nat
    BY ImageFacts DEF Typed
  <2>2. QED BY <2>1
<1>2. Give(k, x) /\ pc < Len(code) /\ UNCHANGED <<image, mem, regs, heap, status>>
  BY DEF Computes, Exec, Running
<1>3. QED BY <1>1, <1>2, GiveTyped

LEMMA Pushed ==
  ASSUME NEW a, NEW m, NEW f, Typed(a, m, f), NEW op, Exec(op), Room, NEW x \in Val(a, m, f), Give(0, x),
         UNCHANGED <<mem, regs, heap, status>>
  PROVE  Typed(a, m, f)'
<1>1. 0 \in Nat /\ 0 <= sp /\ sp - 0 < MaxStack
  <2>1. sp \in 0 .. MaxStack /\ MaxStack \in Nat
    BY ImageFacts DEF Typed
  <2>2. QED BY <2>1 DEF Room
<1>2. pc < Len(code) /\ UNCHANGED <<image, mem, regs, heap, status>>
  BY DEF Exec, Running
<1>3. QED BY <1>1, <1>2, GiveTyped

LEMMA FlagVal == ASSUME NEW a, NEW m, NEW f, NEW b PROVE Number(Flag(b)) \in Val(a, m, f)
BY NumberVal DEF Flag

LEMMA PushSteps ==
  ASSUME NEW a, NEW m, NEW f, Typed(a, m, f),
         PUSH \/ PUSH_STR \/ LOAD \/ LOAD_LOCAL \/ LOAD_UPVAL
  PROVE  Typed(a, m, f)'
<1>0. pc < Len(code)
  BY DEF PUSH, PUSH_STR, LOAD, LOAD_LOCAL, LOAD_UPVAL, Exec, Running
<1>1. CASE PUSH
  <2>1. Exec("PUSH") /\ Give(0, Number(In.n)) /\ UNCHANGED <<mem, regs, heap, status>>
    BY <1>1 DEF PUSH
  <2>2. Room
    BY <2>1 DEF Exec, Passes
  <2>3. PICK x : x = Number(In.n)
    OBVIOUS
  <2>4. x \in Val(a, m, f)
    BY <1>0, <2>3, InFacts, NumberVal
  <2>5. QED BY <2>1, <2>2, <2>3, <2>4, Pushed
<1>2. CASE PUSH_STR
  <2>1. Exec("PUSH_STR") /\ Give(0, TextOf(strings[In.i + 1])) /\ UNCHANGED <<mem, regs, heap, status>>
    BY <1>2 DEF PUSH_STR
  <2>2. Room /\ In.i \in 0 .. Len(strings) - 1
    BY <2>1 DEF Exec, Passes
  <2>3. PICK x : x = TextOf(strings[In.i + 1])
    OBVIOUS
  <2>4. strings \in Seq(Text) /\ Len(strings) \in Nat
    BY ImageFacts, LenProperties
  <2>5. strings[In.i + 1] \in Text
    BY <2>2, <2>4, ElementOfSeq
  <2>6. x \in Val(a, m, f)
    BY <2>3, <2>5, TextVal
  <2>7. QED BY <2>1, <2>2, <2>3, <2>6, Pushed
<1>3. CASE LOAD
  <2>1. Exec("LOAD") /\ Give(0, mem[In.i]) /\ UNCHANGED <<mem, regs, heap, status>>
    BY <1>3 DEF LOAD
  <2>2. Room /\ In.i \in 0 .. varCount - 1
    BY <2>1 DEF Exec, Passes
  <2>3. PICK x : x = mem[In.i]
    OBVIOUS
  <2>4. x \in Val(a, m, f)
    BY <2>2, <2>3 DEF Typed
  <2>5. QED BY <2>1, <2>2, <2>3, <2>4, Pushed
<1>4. CASE LOAD_LOCAL
  <2>1. Exec("LOAD_LOCAL") /\ Give(0, stack[fp + In.i]) /\ UNCHANGED <<mem, regs, heap, status>>
    BY <1>4 DEF LOAD_LOCAL
  <2>2. Room /\ fp + In.i \in 0 .. sp - 1
    BY <2>1 DEF Exec, Passes
  <2>3. PICK x : x = stack[fp + In.i]
    OBVIOUS
  <2>4. fp + In.i \in 0 .. MaxStack - 1
    <3>1. sp \in 0 .. MaxStack /\ MaxStack \in Nat
      BY ImageFacts DEF Typed
    <3>2. QED BY <2>2, <3>1
  <2>5. x \in Val(a, m, f)
    BY <2>3, <2>4 DEF Typed, Slots
  <2>6. QED BY <2>1, <2>2, <2>3, <2>5, Pushed
<1>5. CASE LOAD_UPVAL
  <2>1. Exec("LOAD_UPVAL") /\ Give(0, fns[closure].upvals[In.i + 1]) /\ UNCHANGED <<mem, regs, heap, status>>
    BY <1>5 DEF LOAD_UPVAL
  <2>2. Room /\ closure # 0 /\ In.i \in 0 .. Len(fns[closure].upvals) - 1
    BY <2>1 DEF Exec, Passes
  <2>3. PICK x : x = fns[closure].upvals[In.i + 1]
    OBVIOUS
  <2>4. closure \in 1 .. Len(fns)
    BY <2>2, ImageFacts DEF Typed
  <2>5. fns[closure] \in FnOf(Val(a, m, f))
    BY <2>4, ElementOfSeq DEF Typed
  <2>6. fns[closure].upvals \in Seq(Val(a, m, f))
    BY <2>5 DEF FnOf
  <2>7. In.i + 1 \in 1 .. Len(fns[closure].upvals)
    BY <2>2, <2>6, LenProperties
  <2>8. x \in Val(a, m, f)
    BY <2>3, <2>6, <2>7, ElementOfSeq
  <2>9. QED BY <2>1, <2>2, <2>3, <2>8, Pushed
<1>6. QED BY <1>1, <1>2, <1>3, <1>4, <1>5

LEMMA NumbersIn ==
  ASSUME NEW a, NEW m, NEW f, Typed(a, m, f), sp >= 2, Tags(2) = {"num"}
  PROVE  Top(1).v \in Int /\ Top(2).v \in Int
<1>1. Top(1).tag = "num" /\ Top(2).tag = "num"
  <2>1. Top(1).tag \in Tags(2) /\ Top(2).tag \in Tags(2)
    BY DEF Tags
  <2>2. QED BY <2>1
<1>2. Top(1) \in Val(a, m, f) /\ Top(2) \in Val(a, m, f)
  <2>1. sp \in Nat
    BY ImageFacts DEF Typed
  <2>2. QED BY <2>1, TopVal
<1>3. QED BY <1>1, <1>2, ValueFacts

LEMMA ArithmeticSteps ==
  ASSUME NEW a, NEW m, NEW f, Typed(a, m, f), ADD \/ SUB \/ MUL \/ MOD \/ NEG
  PROVE  Typed(a, m, f)'
<1>0. sp \in Nat
  BY ImageFacts DEF Typed
<1>1. CASE ADD
  <2>1. Computes("ADD", 2, Plus(Top(2), Top(1)))
    BY <1>1 DEF ADD
  <2>2. sp >= 2 /\ Tags(2) \subseteq {"num", "str"}
    BY <2>1 DEF Computes, Exec, Passes
  <2>3. Top(1) \in Val(a, m, f) /\ Top(2) \in Val(a, m, f)
    BY <1>0, <2>2, TopVal
  <2>4. Top(1).tag \in {"num", "str"} /\ Top(2).tag \in {"num", "str"}
    <3>1. Top(1).tag \in Tags(2) /\ Top(2).tag \in Tags(2)
      BY DEF Tags
    <3>2. QED BY <2>2, <3>1
  <2>5. PICK x : x = Plus(Top(2), Top(1))
    OBVIOUS
  <2>6. CASE Top(1).tag = "num" /\ Top(2).tag = "num"
    <3>1. Top(1).v \in Int /\ Top(2).v \in Int
      BY <2>3, <2>6, ValueFacts
    <3>2. x = Number(Top(2).v + Top(1).v)
      BY <2>5, <2>6 DEF Plus
    <3>3. x \in Val(a, m, f)
      BY <3>1, <3>2, NumberVal
    <3>4. QED BY <2>1, <2>2, <2>5, <3>3, Computed
  <2>7. CASE ~ (Top(1).tag = "num" /\ Top(2).tag = "num")
    <3>1. AsText(Top(1)) \in Text /\ AsText(Top(2)) \in Text
      BY <2>3, <2>4, AsTextText
    <3>2. AsText(Top(2)) \o AsText(Top(1)) \in Text
      BY <3>1, ConcatFacts DEF Text
    <3>3. x = TextOf(AsText(Top(2)) \o AsText(Top(1)))
      BY <2>5, <2>7 DEF Plus
    <3>4. x \in Val(a, m, f)
      BY <3>2, <3>3, TextVal
    <3>5. QED BY <2>1, <2>2, <2>5, <3>4, Computed
  <2>8. QED BY <2>6, <2>7
<1>2. CASE SUB
  <2>1. Computes("SUB", 2, Number(Top(2).v - Top(1).v))
    BY <1>2 DEF SUB
  <2>2. sp >= 2 /\ Tags(2) = {"num"}
    BY <2>1 DEF Computes, Exec, Passes
  <2>3. PICK x : x = Number(Top(2).v - Top(1).v)
    OBVIOUS
  <2>4. x \in Val(a, m, f)
    BY <2>2, <2>3, NumbersIn, NumberVal
  <2>5. QED BY <2>1, <2>2, <2>3, <2>4, Computed
<1>3. CASE MUL
  <2>1. Computes("MUL", 2, Number(Top(2).v * Top(1).v))
    BY <1>3 DEF MUL
  <2>2. sp >= 2 /\ Tags(2) = {"num"}
    BY <2>1 DEF Computes, Exec, Passes
  <2>3. PICK x : x = Number(Top(2).v * Top(1).v)
    OBVIOUS
  <2>4. x \in Val(a, m, f)
    BY <2>2, <2>3, NumbersIn, NumberVal
  <2>5. QED BY <2>1, <2>2, <2>3, <2>4, Computed
<1>4. CASE MOD
  <2>1. Computes("MOD", 2, Number(Fmod(Top(2).v, Top(1).v)))
    BY <1>4 DEF MOD
  <2>2. sp >= 2 /\ Tags(2) = {"num"} /\ Top(1).v # 0
    BY <2>1 DEF Computes, Exec, Passes
  <2>3. PICK x : x = Number(Fmod(Top(2).v, Top(1).v))
    OBVIOUS
  <2>4. x \in Val(a, m, f)
    BY <2>2, <2>3, NumbersIn, NumberVal, FmodInt
  <2>5. QED BY <2>1, <2>2, <2>3, <2>4, Computed
<1>5. CASE NEG
  <2>1. Computes("NEG", 1, Number(0 - Top(1).v))
    BY <1>5 DEF NEG
  <2>2. sp > 0 /\ Tags(1) = {"num"}
    BY <2>1 DEF Computes, Exec, Passes
  <2>3. PICK x : x = Number(0 - Top(1).v)
    OBVIOUS
  <2>4. Top(1) \in Val(a, m, f) /\ Top(1).tag = "num"
    <3>1. Top(1).tag \in Tags(1)
      BY DEF Tags
    <3>2. QED BY <1>0, <2>2, <3>1, TopVal
  <2>5. x \in Val(a, m, f)
    BY <2>3, <2>4, ValueFacts, NumberVal
  <2>6. QED BY <1>0, <2>1, <2>2, <2>3, <2>5, Computed
<1>6. QED BY <1>1, <1>2, <1>3, <1>4, <1>5

LEMMA LogicSteps ==
  ASSUME NEW a, NEW m, NEW f, Typed(a, m, f),
         LT \/ GT \/ LE \/ GE \/ EQ \/ NEQ \/ AND \/ OR \/ NOT
  PROVE  Typed(a, m, f)'
<1>1. \A b : Number(Flag(b)) \in Val(a, m, f)
  BY SMTT(40), FlagVal
<1>2. /\ Exec("LT") \/ Exec("LE") \/ Exec("GT") \/ Exec("GE") => sp >= 2
      /\ Exec("EQ") \/ Exec("NEQ") \/ Exec("AND") \/ Exec("OR") => sp >= 2
      /\ Exec("NOT") => sp > 0
  BY DEF Exec, Passes
<1>3. sp \in Nat
  BY ImageFacts DEF Typed
<1>4. PICK op, k, x : Computes(op, k, x) /\ x \in Val(a, m, f) /\ k \in Nat /\ k >= 1 /\ k <= sp
  <2>1. CASE LT
    BY <1>1, <1>2, <2>1, <1>3 DEF LT, Computes
  <2>2. CASE GT
    BY <1>1, <1>2, <2>2, <1>3 DEF GT, Computes
  <2>3. CASE LE
    BY <1>1, <1>2, <2>3, <1>3 DEF LE, Computes
  <2>4. CASE GE
    BY <1>1, <1>2, <2>4, <1>3 DEF GE, Computes
  <2>5. CASE EQ
    BY <1>1, <1>2, <2>5, <1>3 DEF EQ, Computes
  <2>6. CASE NEQ
    BY <1>1, <1>2, <2>6, <1>3 DEF NEQ, Computes
  <2>7. CASE AND
    BY <1>1, <1>2, <2>7, <1>3 DEF AND, Computes
  <2>8. CASE OR
    BY <1>1, <1>2, <2>8, <1>3 DEF OR, Computes
  <2>9. CASE NOT
    BY <1>1, <1>2, <2>9, <1>3 DEF NOT, Computes
  <2>10. QED BY <2>1, <2>2, <2>3, <2>4, <2>5, <2>6, <2>7, <2>8, <2>9
<1>5. QED BY <1>4, Computed

LEMMA IndexGetStep ==
  ASSUME NEW a, NEW m, NEW f, Typed(a, m, f), INDEX_GET
  PROVE  Typed(a, m, f)'
<1>1. Computes("INDEX_GET", 2, Element(Top(2), Top(1)))
  BY DEF INDEX_GET
<1>2. sp >= 2 /\ Gettable(Top(2), Top(1))
  BY <1>1 DEF Computes, Exec, Passes
<1>3. sp \in Nat /\ Heap(arrays, maps, a, m, f)
  BY ImageFacts DEF Typed
<1>4. PICK t, i, x : t = Top(2) /\ i = Top(1) /\ x = Element(Top(2), Top(1))
  OBVIOUS
<1>5. t \in Val(a, m, f)
  BY <1>2, <1>3, <1>4, TopVal
<1>6. CASE InArray(t, i)
  <2>1. t.tag = "arr" /\ i.v \in 0 .. Len(arrays[t.v]) - 1
    BY <1>6 DEF InArray
  <2>2. arrays[t.v] \in Seq(Val(a, m, f))
    BY <1>3, <1>5, <2>1, ArrayOf
  <2>3. i.v + 1 \in 1 .. Len(arrays[t.v])
    BY <2>1, <2>2, LenProperties
  <2>4. x = arrays[t.v][i.v + 1]
    BY <1>4, <2>1 DEF Element
  <2>5. x \in Val(a, m, f)
    BY <2>2, <2>3, <2>4, ElementOfSeq
  <2>6. QED BY <1>1, <1>2, <1>4, <2>5, Computed
<1>7. CASE ~ InArray(t, i)
  <2>1. t.tag = "map" /\ KeyAt(maps[t.v], i) # {}
    BY <1>2, <1>4, <1>7 DEF Gettable
  <2>2. maps[t.v] \in Seq(EntryOf(Val(a, m, f)))
    BY <1>3, <1>5, <2>1, MapOf
  <2>3. Found(maps[t.v], i) \in 1 .. Len(maps[t.v])
    BY <2>1, <2>2, FoundFacts
  <2>4. maps[t.v][Found(maps[t.v], i)] \in EntryOf(Val(a, m, f))
    BY <2>2, <2>3, ElementOfSeq
  <2>5. x = maps[t.v][Found(maps[t.v], i)].value
    BY <1>4, <2>1 DEF Element
  <2>6. x \in Val(a, m, f)
    BY <2>4, <2>5 DEF EntryOf
  <2>7. QED BY <1>1, <1>2, <1>4, <2>6, Computed
<1>8. QED BY <1>6, <1>7

(* Opcodes that only move the stack pointer, a value or the program        *)
(* counter.                                                                *)
LEMMA MoveSteps ==
  ASSUME NEW a, NEW m, NEW f, Typed(a, m, f),
         STORE \/ STORE_LOCAL \/ ENTER \/ PRINT \/ DROP \/ DUP2 \/ JMP \/ JZ \/ HALT \/ Die
  PROVE  Typed(a, m, f)'
<1>0. /\ sp \in 0 .. MaxStack /\ MaxStack \in Nat /\ sp \in Nat /\ stack \in Slots(Val(a, m, f))
      /\ Len(code) \in Nat /\ pc \in 0 .. Len(code)
  BY ImageFacts DEF Typed
<1>1. /\ image' = image /\ heap' = heap /\ regs' = regs
      /\ status' \in {"running", "halted", "died"}
  BY DEF STORE, STORE_LOCAL, ENTER, PRINT, DROP, DUP2, JMP, JZ, HALT, Die, Exec, Typed
<1>2. SUFFICES /\ sp' \in 0 .. MaxStack /\ stack' \in Slots(Val(a, m, f))
               /\ mem' \in [0 .. varCount - 1 -> Val(a, m, f)] /\ pc' \in 0 .. Len(code)
  BY <1>1 DEF Typed, regs, heap, code, varCount, FnOf, FrameOf
<1>3. Running => pc + 1 \in 0 .. Len(code)
  BY <1>0 DEF Running
<1>m. mem \in [0 .. varCount - 1 -> Val(a, m, f)]
  BY DEF Typed
<1>4. CASE STORE
  <2>1. Exec("STORE") /\ sp' = sp - 1 /\ stack' = stack /\ mem' = [mem EXCEPT ![In.i] = Top(1)] /\ pc' = pc + 1
    BY <1>4 DEF STORE, Take
  <2>2. In.i \in 0 .. varCount - 1 /\ sp > 0 /\ Running
    BY <2>1 DEF Exec, Passes
  <2>3. Top(1) \in Val(a, m, f)
    BY <1>0, <2>2, TopVal
  <2>4. mem' \in [0 .. varCount - 1 -> Val(a, m, f)]
    BY <1>m, <2>1, <2>2, <2>3
  <2>5. QED BY <1>0, <1>3, <2>1, <2>2, <2>4
<1>5. CASE STORE_LOCAL
  <2>1. Exec("STORE_LOCAL") /\ sp' = sp - 1 /\ stack' = [stack EXCEPT ![fp + In.i] = Top(1)] /\ mem' = mem /\ pc' = pc + 1
    BY <1>5 DEF STORE_LOCAL
  <2>2. sp > 0 /\ fp + In.i \in 0 .. sp - 2 /\ Running
    BY <2>1 DEF Exec, Passes
  <2>3. Top(1) \in Val(a, m, f)
    BY <1>0, <2>2, TopVal
  <2>4. stack' \in Slots(Val(a, m, f))
    BY <1>0, <2>1, <2>3 DEF Slots
  <2>5. QED BY <1>0, <1>3, <1>m, <2>1, <2>2, <2>4
<1>6. CASE ENTER
  <2>1. /\ Exec("ENTER") /\ sp' = sp + In.i /\ mem' = mem /\ pc' = pc + 1
        /\ stack' = [j \in 0 .. MaxStack - 1 |-> IF j \in sp .. sp + In.i - 1 THEN Number(0) ELSE stack[j]]
    BY <1>6 DEF ENTER
  <2>2. In.i >= 0 /\ sp + In.i <= MaxStack /\ Running
    BY <2>1 DEF Exec, Passes
  <2>3. Number(0) \in Val(a, m, f)
    BY NumberVal
  <2>4. stack' \in Slots(Val(a, m, f))
    BY <1>0, <2>1, <2>3 DEF Slots
  <2>5. In.i \in Int
    BY <2>2, InFacts DEF Running
  <2>6. QED BY <1>0, <1>3, <1>m, <2>1, <2>2, <2>4, <2>5
<1>7. CASE PRINT \/ DROP
  <2>1. Running /\ sp > 0 /\ sp' = sp - 1 /\ stack' = stack /\ mem' = mem /\ pc' = pc + 1
    BY <1>7 DEF PRINT, DROP, Take, Exec, Passes
  <2>2. QED BY SMTT(40), <1>0, <1>3, <1>m, <2>1
<1>8. CASE DUP2
  <2>1. /\ Exec("DUP2") /\ sp' = sp + 2 /\ mem' = mem /\ pc' = pc + 1
        /\ stack' = [stack EXCEPT ![sp] = Top(2), ![sp + 1] = Top(1)]
    BY <1>8 DEF DUP2
  <2>2. sp >= 2 /\ sp + 2 <= MaxStack /\ Running
    BY <2>1 DEF Exec, Passes
  <2>3. Top(1) \in Val(a, m, f) /\ Top(2) \in Val(a, m, f)
    BY <1>0, <2>2, TopVal
  <2>4. stack' \in Slots(Val(a, m, f))
    BY <1>0, <2>1, <2>3 DEF Slots
  <2>5. QED BY <1>0, <1>3, <1>m, <2>1, <2>2, <2>4
<1>9. CASE JMP
  <2>1. Exec("JMP") /\ pc' = In.i /\ sp' = sp /\ stack' = stack /\ mem' = mem
    BY <1>9 DEF JMP
  <2>2. Target(In.i)
    BY <2>1 DEF Exec, Passes
  <2>3. QED BY <1>0, <1>m, <2>1, <2>2 DEF Target
<1>10. CASE JZ
  <2>1. Exec("JZ") /\ sp' = sp - 1 /\ stack' = stack /\ mem' = mem /\ pc' = IF Truthy(Top(1)) THEN pc + 1 ELSE In.i
    BY <1>10 DEF JZ, Take
  <2>2. Running /\ sp > 0 /\ (Truthy(Top(1)) \/ Target(In.i))
    BY <2>1 DEF Exec, Passes
  <2>3. pc' \in 0 .. Len(code)
    BY <1>0, <1>3, <2>1, <2>2 DEF Target
  <2>4. QED BY <1>0, <1>m, <2>1, <2>2, <2>3
<1>11. CASE HALT
  <2>1. Running /\ pc' = pc + 1 /\ sp' = sp /\ stack' = stack /\ mem' = mem
    BY <1>11 DEF HALT, Exec
  <2>2. QED BY <1>0, <1>3, <1>m, <2>1
<1>12. CASE Die
  BY <1>0, <1>m, <1>12 DEF Die
<1>13. QED BY <1>4, <1>5, <1>6, <1>7, <1>8, <1>9, <1>10, <1>11, <1>12

(* Calls push a frame and returns take one off.                            *)
LEMMA CallSteps ==
  ASSUME NEW a, NEW m, NEW f, Typed(a, m, f), CALL \/ CALL_VAL \/ RET
  PROVE  Typed(a, m, f)'
<1>0. /\ sp \in 0 .. MaxStack /\ MaxStack \in Nat /\ fp \in 0 .. MaxStack /\ stack \in Slots(Val(a, m, f))
      /\ Len(code) \in Nat /\ pc \in 0 .. Len(code) /\ MaxCalls \in Nat
      /\ calls \in Seq(FrameOf(f)) /\ Len(calls) <= MaxCalls /\ closure \in 0 .. f /\ f \in Nat
  BY ImageFacts DEF Typed
<1>1. /\ image' = image /\ heap' = heap /\ mem' = mem /\ status' = status
  BY DEF CALL, CALL_VAL, RET, Exec
<1>2. SUFFICES /\ sp' \in 0 .. MaxStack /\ stack' \in Slots(Val(a, m, f)) /\ pc' \in 0 .. Len(code)
               /\ fp' \in 0 .. MaxStack /\ closure' \in 0 .. f
               /\ calls' \in Seq(FrameOf(f)) /\ Len(calls') <= MaxCalls
  BY <1>1 DEF Typed, heap, code, varCount, FnOf, FrameOf
<1>3. Running => Frame \in FrameOf(f)
  BY <1>0, InFacts DEF Running, Frame, FrameOf
<1>4. CASE CALL
  <2>1. /\ Exec("CALL") /\ calls' = Append(calls, Frame) /\ closure' = 0 /\ fp' = sp - In.n /\ pc' = In.i
        /\ sp' = sp /\ stack' = stack
    BY <1>4 DEF CALL
  <2>2. Running /\ Len(calls) < MaxCalls /\ Target(In.i) /\ In.n \in 0 .. sp
    BY <2>1 DEF Exec, Passes
  <2>3. calls' \in Seq(FrameOf(f)) /\ Len(calls') = Len(calls) + 1 /\ Len(calls) \in Nat
    BY <1>0, <1>3, <2>1, <2>2, AppendFacts, LenProperties
  <2>4. pc' \in 0 .. Len(code)
    BY ONLY <1>0, <2>1, <2>2 DEF Target
  <2>5. sp' \in 0 .. MaxStack /\ fp' \in 0 .. MaxStack /\ closure' \in 0 .. f
    BY ONLY <1>0, <2>1, <2>2
  <2>6. stack' \in Slots(Val(a, m, f)) /\ Len(calls') <= MaxCalls
    BY ONLY <1>0, <2>1, <2>2, <2>3
  <2>7. QED BY ONLY <2>3, <2>4, <2>5, <2>6
<1>5. CASE CALL_VAL
  <2>1. /\ Exec("CALL_VAL") /\ calls' = Append(calls, Frame) /\ closure' = Top(1).v /\ fp' = sp - 1 - In.i
        /\ pc' = fns[Top(1).v].pc /\ sp' = sp - 1 /\ stack' = stack
    BY <1>5 DEF CALL_VAL, Take
  <2>2. Running /\ sp > 0 /\ Top(1).tag = "fn" /\ In.i \in 0 .. sp - 1 /\ Len(calls) < MaxCalls
    BY <2>1 DEF Exec, Passes
  <2>3. calls' \in Seq(FrameOf(f)) /\ Len(calls') = Len(calls) + 1 /\ Len(calls) \in Nat
    BY <1>0, <1>3, <2>1, <2>2, AppendFacts, LenProperties
  <2>4. Top(1).v \in 1 .. f
    BY <1>0, <2>2, TopVal, ValueFacts
  <2>5. fns[Top(1).v] \in FnOf(Val(a, m, f))
    BY <2>4, ElementOfSeq DEF Typed
  <2>6. pc' \in 0 .. Len(code)
    BY <1>0, <2>1, <2>5 DEF FnOf
  <2>7. sp' \in 0 .. MaxStack /\ fp' \in 0 .. MaxStack /\ closure' \in 0 .. f
    BY ONLY SMTT(40), <1>0, <2>1, <2>2, <2>4
  <2>8. stack' \in Slots(Val(a, m, f)) /\ Len(calls') <= MaxCalls
    BY ONLY <1>0, <2>1, <2>2, <2>3
  <2>9. QED BY ONLY <2>3, <2>6, <2>7, <2>8
<1>6. CASE RET
  <2>1. PICK c : c = calls[Len(calls)]
    OBVIOUS
  <2>2. /\ Exec("RET") /\ sp' = fp + 1 /\ stack' = [stack EXCEPT ![fp] = Top(1)]
        /\ calls' = SubSeq(calls, 1, Len(calls) - 1)
        /\ fp' = c.fp /\ pc' = c.pc /\ closure' = c.closure
    BY <1>6, <2>1 DEF RET
  <2>3. Len(calls) > 0 /\ sp > 0 /\ fp < MaxStack
    BY <2>2 DEF Exec, Passes
  <2>4. Len(calls) \in Nat /\ Len(calls) \in 1 .. Len(calls)
    BY <1>0, <2>3, LenProperties
  <2>5. c \in FrameOf(f)
    BY <1>0, <2>1, <2>4, ElementOfSeq
  <2>6. calls' \in Seq(FrameOf(f)) /\ Len(calls') = Len(calls) - 1
    <3>1. PICK n : n = Len(calls) - 1
      OBVIOUS
    <3>2. n \in 0 .. Len(calls) /\ 1 \in 1 .. n + 1
      BY <2>4, <3>1
    <3>3. SubSeq(calls, 1, n) \in Seq(FrameOf(f)) /\ Len(SubSeq(calls, 1, n)) = n
      BY <1>0, <3>2, SubSeqProperties
    <3>4. QED BY <2>2, <3>1, <3>3
  <2>7. Top(1) \in Val(a, m, f)
    BY <1>0, <2>3, TopVal
  <2>8. stack' \in Slots(Val(a, m, f))
    BY <1>0, <2>2, <2>3, <2>7 DEF Slots
  <2>9. c.pc \in 0 .. Len(code) /\ c.fp \in 0 .. MaxStack /\ c.closure \in 0 .. f
    BY <2>5 DEF FrameOf
  <2>10. sp' \in 0 .. MaxStack /\ Len(calls') <= MaxCalls
    BY ONLY <1>0, <2>2, <2>3, <2>4, <2>6
  <2>11. QED BY ONLY <2>2, <2>6, <2>8, <2>9, <2>10
<1>7. QED BY <1>4, <1>5, <1>6

(* A step that makes something: what was typed before stays typed.         *)
LEMMA Grown ==
  ASSUME NEW a, NEW m, NEW f, Typed(a, m, f),
         NEW b \in Nat, NEW o \in Nat, NEW g \in Nat, a <= b, m <= o, f <= g
  PROVE  /\ Val(a, m, f) \subseteq Val(b, o, g)
         /\ stack \in Slots(Val(b, o, g)) /\ mem \in [0 .. varCount - 1 -> Val(b, o, g)]
         /\ fns \in Seq(FnOf(Val(b, o, g))) /\ calls \in Seq(FrameOf(g)) /\ closure \in 0 .. g
<1>1. Heap(arrays, maps, a, m, f) /\ f \in Nat
  BY ImageFacts DEF Typed
<1>2. Val(a, m, f) \subseteq Val(b, o, g)
  BY <1>1, HeapGrows
<1>3. PICK T, U : T = Val(a, m, f) /\ U = Val(b, o, g)
  OBVIOUS
<1>4. T \subseteq U
  BY <1>2, <1>3
<1>5. Seq(T) \subseteq Seq(U)
  BY <1>4, SeqMonotonic
<1>6. FnOf(T) \subseteq FnOf(U)
  BY <1>5 DEF FnOf
<1>7. fns \in Seq(FnOf(U))
  BY <1>3, <1>6, SeqMonotonic DEF Typed
<1>8. FrameOf(f) \subseteq FrameOf(g) /\ 0 .. f \subseteq 0 .. g
  BY <1>1 DEF FrameOf
<1>9. calls \in Seq(FrameOf(g))
  BY <1>8, SeqMonotonic DEF Typed
<1>10. stack \in Slots(U) /\ mem \in [0 .. varCount - 1 -> U]
  BY <1>3, <1>4 DEF Typed, Slots
<1>11. QED BY <1>2, <1>3, <1>7, <1>8, <1>9, <1>10 DEF Typed

(* Opcodes that make an array, a map or a function and give it.            *)
LEMMA GiveGrown ==
  ASSUME NEW a, NEW m, NEW f, Typed(a, m, f),
         NEW b \in Nat, NEW o \in Nat, NEW g \in Nat, a <= b, m <= o, f <= g,
         NEW k \in Nat, k <= sp, sp - k < MaxStack, NEW x \in Val(b, o, g), Give(k, x), pc < Len(code),
         UNCHANGED <<image, mem, regs, status>>,
         Heap(arrays', maps', b, o, g),
         fns' \in Seq(FnOf(Val(b, o, g))), Len(fns') = g
  PROVE  Typed(b, o, g)'
<1>1. Len(code) \in Nat /\ MaxStack \in Nat /\ pc + 1 \in 0 .. Len(code) /\ sp \in 0 .. MaxStack
  BY ImageFacts, InFacts DEF Typed
<1>2. sp - k \in 0 .. MaxStack - 1 /\ sp - k + 1 \in 0 .. MaxStack
  BY <1>1
<1>3. PICK U : U = Val(b, o, g)
  OBVIOUS
<1>4. /\ stack \in Slots(U) /\ mem \in [0 .. varCount - 1 -> U]
      /\ calls \in Seq(FrameOf(g)) /\ closure \in 0 .. g
  BY <1>3, Grown
<1>5. stack' \in Slots(U)
  BY <1>2, <1>3, <1>4 DEF Give, Slots
<1>6. pc' \in 0 .. Len(code) /\ sp' \in 0 .. MaxStack
  BY <1>1, <1>2 DEF Give
<1>7. image' = image /\ mem' = mem /\ calls' = calls /\ closure' = closure /\ fp' = fp /\ status' = status
  BY DEF regs
<1>8. QED BY <1>3, <1>4, <1>5, <1>6, <1>7 DEF Typed, code, varCount, FnOf, FrameOf

LEMMA MapMade ==
  ASSUME NEW ar, NEW ms, NEW a, NEW m, NEW f, Heap(ar, ms, a, m, f), NEW c \in Seq(EntryOf(Val(a, m, f)))
  PROVE  Heap(ar, Append(ms, c), a, m + 1, f)
<1>0. a \in Nat /\ m \in Nat /\ f \in Nat /\ m + 1 \in Nat /\ m <= m + 1 /\ Len(ar) = a /\ Len(ms) = m
  BY DEF Heap
<1>1. PICK b, T : b = m + 1 /\ T = Seq(EntryOf(Val(a, b, f)))
  OBVIOUS
<1>2. b \in Nat /\ m <= b
  BY <1>0, <1>1
<1>3. /\ Val(a, m, f) \subseteq Val(a, b, f)
      /\ ar \in Seq(Seq(Val(a, b, f))) /\ ms \in Seq(Seq(EntryOf(Val(a, b, f))))
  <2>1. a <= a /\ f <= f
    BY <1>0
  <2>2. QED BY <1>0, <1>2, <2>1, HeapGrows
<1>4. EntryOf(Val(a, m, f)) \subseteq EntryOf(Val(a, b, f))
  BY <1>3 DEF EntryOf
<1>5. ms \in Seq(T) /\ c \in T
  BY <1>1, <1>3, <1>4, SeqMonotonic
<1>6. Append(ms, c) \in Seq(T) /\ Len(Append(ms, c)) = Len(ms) + 1
  BY ONLY <1>5, AppendFacts
<1>7. QED BY <1>0, <1>1, <1>2, <1>3, <1>6 DEF Heap

LEMMA NewArrayStep ==
  ASSUME NEW a, NEW m, NEW f, Typed(a, m, f), NEW_ARRAY
  PROVE  \E b \in Nat : Typed(b, m, f)'
<1>0. sp \in Nat /\ a \in Nat /\ m \in Nat /\ f \in Nat /\ Heap(arrays, maps, a, m, f) /\ Len(arrays) = a
  BY ImageFacts DEF Typed, Heap
<1>1. PICK k, b, x, c : k = In.i /\ b = a + 1 /\ x = ArrayAt(b) /\ c = Args(In.i)
  OBVIOUS
<1>2. /\ Exec("NEW_ARRAY") /\ Give(k, x) /\ arrays' = Append(arrays, c) /\ maps' = maps /\ fns' = fns
      /\ UNCHANGED <<mem, regs, status>>
  BY <1>0, <1>1 DEF NEW_ARRAY
<1>3. k \in Nat /\ k <= sp /\ sp - k < MaxStack /\ pc < Len(code) /\ image' = image
  BY <1>0, <1>1, <1>2 DEF Exec, Passes, Running
<1>4. b \in Nat /\ a <= b /\ b \in 1 .. b /\ m <= m /\ f <= f
  BY <1>0, <1>1
<1>5. c \in Seq(Val(a, m, f))
  BY <1>1, <1>3, ArgsVals
<1>6. Heap(arrays', maps', b, m, f)
  BY <1>0, <1>1, <1>2, <1>5, ArrayMade
<1>7. x \in Val(b, m, f)
  BY <1>1, <1>4, ArrayVal
<1>8. fns' \in Seq(FnOf(Val(b, m, f))) /\ Len(fns') = f
  BY <1>0, <1>2, <1>4, Grown DEF Typed
<1>9. UNCHANGED <<image, mem, regs, status>>
  BY <1>2, <1>3
<1>10. Typed(b, m, f)'
  BY <1>0, <1>2, <1>3, <1>4, <1>6, <1>7, <1>8, <1>9, GiveGrown
<1>11. QED BY <1>4, <1>10

LEMMA NewMapStep ==
  ASSUME NEW a, NEW m, NEW f, Typed(a, m, f), NEW_MAP
  PROVE  \E o \in Nat : Typed(a, o, f)'
<1>0. sp \in Nat /\ a \in Nat /\ m \in Nat /\ f \in Nat /\ Heap(arrays, maps, a, m, f) /\ Len(maps) = m
  BY ImageFacts DEF Typed, Heap
<1>1. PICK h, k, o, x, c : h = In.i /\ k = 2 * In.i /\ o = m + 1 /\ x = MapAt(o) /\ c = Args(2 * In.i)
  OBVIOUS
<1>2. /\ Exec("NEW_MAP") /\ Give(k, x) /\ maps' = Append(maps, MapOfPairs(c)) /\ arrays' = arrays /\ fns' = fns
      /\ UNCHANGED <<mem, regs, status>>
  BY <1>0, <1>1 DEF NEW_MAP
<1>3. pc < Len(code) /\ image' = image /\ In.i >= 0 /\ 2 * In.i <= sp /\ sp - 2 * In.i < MaxStack
      /\ \A j \in 1 .. In.i : IsKey(Top(2 * j))
  BY <1>2 DEF Exec, Passes, Running
<1>4. In.i \in Int
  BY <1>3, InFacts
<1>5. h \in Nat /\ k \in Nat /\ k = 2 * h /\ k <= sp /\ sp - k < MaxStack /\ \A j \in 1 .. h : IsKey(Top(2 * j))
  BY <1>1, <1>3, <1>4
<1>6. o \in Nat /\ m <= o /\ o \in 1 .. o /\ a <= a /\ f <= f
  BY <1>0, <1>1
<1>7. c \in Seq(Val(a, m, f)) /\ Len(c) = 2 * h /\ \A j \in 1 .. k : c[j] = Top(k - j + 1)
  BY <1>1, <1>5, ArgsVals
<1>8. \A j \in 1 .. h : IsKey(c[2 * j - 1])
  <2> TAKE j \in 1 .. h
  <2>1. 2 * j - 1 \in 1 .. k /\ k - (2 * j - 1) + 1 = 2 * (h - j + 1) /\ h - j + 1 \in 1 .. h
    BY <1>5
  <2>2. c[2 * j - 1] = Top(2 * (h - j + 1))
    BY <1>7, <2>1
  <2>3. QED BY <1>5, <2>1, <2>2
<1>9. MapOfPairs(c) \in Seq(EntryOf(Val(a, m, f)))
  BY <1>5, <1>7, <1>8, PairsMap
<1>10. Heap(arrays', maps', a, o, f)
  BY <1>0, <1>1, <1>2, <1>9, MapMade
<1>11. x \in Val(a, o, f)
  BY <1>1, <1>6, MapVal
<1>12. fns' \in Seq(FnOf(Val(a, o, f))) /\ Len(fns') = f
  BY <1>0, <1>2, <1>6, Grown DEF Typed
<1>13. UNCHANGED <<image, mem, regs, status>>
  BY <1>2, <1>3
<1>14. Typed(a, o, f)'
  BY <1>0, <1>2, <1>3, <1>5, <1>6, <1>10, <1>11, <1>12, <1>13, GiveGrown
<1>15. QED BY <1>6, <1>14

(* A function value: PUSH_FN captures nothing, MAKE_CLOSURE takes what is  *)
(* on the stack.                                                           *)
LEMMA FunctionSteps ==
  ASSUME NEW a, NEW m, NEW f, Typed(a, m, f), PUSH_FN \/ MAKE_CLOSURE
  PROVE  \E g \in Nat : Typed(a, m, g)'
<1>0. /\ sp \in Nat /\ sp <= MaxStack /\ a \in Nat /\ m \in Nat /\ f \in Nat /\ Heap(arrays, maps, a, m, f) /\ Len(fns) = f
      /\ MaxStack \in Nat
  BY ImageFacts DEF Typed
<1>1. PICK g, x : g = f + 1 /\ x = FnAt(g)
  OBVIOUS
<1>2. g \in Nat /\ f <= g /\ g \in 1 .. g /\ a <= a /\ m <= m
  BY <1>0, <1>1
<1>3. x \in Val(a, m, g)
  BY <1>1, <1>2, FnVal
<1>4. \E k \in Nat, c \in Seq(Val(a, m, f)) :
       /\ Give(k, x) /\ k <= sp /\ sp - k < MaxStack
       /\ fns' = Append(fns, [pc |-> In.i, upvals |-> c])
       /\ Target(In.i) /\ Running
       /\ arrays' = arrays /\ maps' = maps /\ UNCHANGED <<image, mem, regs, status>>
  <2>1. CASE PUSH_FN
    <3>1. Exec("PUSH_FN") /\ Give(0, x) /\ fns' = Append(fns, [pc |-> In.i, upvals |-> <<>>])
          /\ arrays' = arrays /\ maps' = maps /\ UNCHANGED <<image, mem, regs, status>>
      BY <1>0, <1>1, <2>1 DEF PUSH_FN, Exec
    <3>2. Room /\ Target(In.i) /\ Running
      BY <3>1 DEF Exec, Passes
    <3>3. 0 <= sp /\ sp - 0 < MaxStack /\ 0 \in Nat
      BY <1>0, <3>2 DEF Room
    <3>4. <<>> \in Seq(Val(a, m, f))
      BY EmptySeq
    <3>5. QED BY ONLY <3>1, <3>2, <3>3, <3>4
  <2>2. CASE MAKE_CLOSURE
    <3>1. PICK k, c : k = In.n /\ c = Args(In.n)
      OBVIOUS
    <3>2. Exec("MAKE_CLOSURE") /\ Give(k, x) /\ fns' = Append(fns, [pc |-> In.i, upvals |-> c])
          /\ arrays' = arrays /\ maps' = maps /\ UNCHANGED <<image, mem, regs, status>>
      BY <1>0, <1>1, <2>2, <3>1 DEF MAKE_CLOSURE, Exec
    <3>3. Target(In.i) /\ k \in 0 .. sp /\ sp - k < MaxStack /\ Running
      BY <3>1, <3>2 DEF Exec, Passes
    <3>4. k \in Nat /\ k <= sp
      BY <1>0, <3>3
    <3>5. c \in Seq(Val(a, m, f))
      BY <3>1, <3>4, ArgsVals
    <3>6. QED BY ONLY <3>2, <3>3, <3>4, <3>5
  <2>3. QED BY <2>1, <2>2
<1>5. PICK k \in Nat, c \in Seq(Val(a, m, f)) :
       /\ Give(k, x) /\ k <= sp /\ sp - k < MaxStack
       /\ fns' = Append(fns, [pc |-> In.i, upvals |-> c])
       /\ Target(In.i) /\ Running
       /\ arrays' = arrays /\ maps' = maps /\ UNCHANGED <<image, mem, regs, status>>
  BY <1>4
<1>6. PICK u, F, U : u = [pc |-> In.i, upvals |-> c] /\ U = Val(a, m, g) /\ F = FnOf(U)
  OBVIOUS
<1>7. Val(a, m, f) \subseteq U /\ fns \in Seq(F)
  BY <1>0, <1>2, <1>6, Grown
<1>8. c \in Seq(U)
  BY <1>5, <1>7, SeqMonotonic
<1>9. u \in F
  BY <1>5, <1>6, <1>8 DEF Target, FnOf
<1>10. fns' = Append(fns, u)
  BY <1>5, <1>6
<1>11. Append(fns, u) \in Seq(F) /\ Len(Append(fns, u)) = Len(fns) + 1
  BY ONLY <1>7, <1>9, AppendFacts
<1>12. fns' \in Seq(FnOf(Val(a, m, g))) /\ Len(fns') = g
  BY <1>0, <1>1, <1>6, <1>10, <1>11
<1>13. Heap(arrays', maps', a, m, g)
  <2>1. arrays \in Seq(Seq(Val(a, m, g))) /\ maps \in Seq(Seq(EntryOf(Val(a, m, g))))
    BY <1>0, <1>2, HeapGrows
  <2>2. QED BY <1>0, <1>2, <1>5, <2>1 DEF Heap
<1>14. pc < Len(code)
  BY <1>5 DEF Running
<1>15. Typed(a, m, g)'
  BY <1>0, <1>2, <1>3, <1>5, <1>12, <1>13, <1>14, GiveGrown
<1>16. QED BY <1>2, <1>15

LEMMA IndexSetStep ==
  ASSUME NEW a, NEW m, NEW f, Typed(a, m, f), INDEX_SET
  PROVE  Typed(a, m, f)'
<1>0. /\ sp \in 0 .. MaxStack /\ MaxStack \in Nat /\ sp \in Nat /\ Heap(arrays, maps, a, m, f)
      /\ Len(code) \in Nat /\ pc \in 0 .. Len(code)
  BY ImageFacts DEF Typed
<1>1. PICK t, i, x : t = Top(3) /\ i = Top(2) /\ x = Top(1)
  OBVIOUS
<1>2. /\ Exec("INDEX_SET") /\ sp' = sp - 3 /\ stack' = stack /\ pc' = pc + 1
      /\ mem' = mem /\ regs' = regs /\ fns' = fns /\ status' = status
      /\ \/ /\ t.tag = "arr" /\ arrays' = [arrays EXCEPT ![t.v][i.v + 1] = x] /\ maps' = maps
         \/ /\ t.tag = "map" /\ maps' = [maps EXCEPT ![t.v] = Entered(maps[t.v], i, x)] /\ arrays' = arrays
  BY <1>1 DEF INDEX_SET, Take
<1>3. pc < Len(code) /\ image' = image /\ sp >= 3 /\ Settable(t, i)
  BY <1>1, <1>2 DEF Exec, Passes, Running
<1>4. t \in Val(a, m, f) /\ i \in Val(a, m, f) /\ x \in Val(a, m, f)
  BY <1>0, <1>1, <1>3, TopVal
<1>5. Heap(arrays', maps', a, m, f)
  <2>1. CASE t.tag = "arr"
    <3>1. arrays' = [arrays EXCEPT ![t.v][i.v + 1] = x] /\ maps' = maps
      BY <1>2, <2>1
    <3>2. i.v \in 0 .. Len(arrays[t.v]) - 1
      BY <1>3, <2>1 DEF Settable, InArray
    <3>3. t.v \in 1 .. Len(arrays) /\ arrays[t.v] \in Seq(Val(a, m, f))
      BY <1>0, <1>4, <2>1, ArrayOf
    <3>4. PICK c, d : c = arrays[t.v] /\ d = [c EXCEPT ![i.v + 1] = x]
      OBVIOUS
    <3>5. i.v + 1 \in 1 .. Len(c) /\ c \in Seq(Val(a, m, f))
      BY <3>2, <3>3, <3>4, LenProperties
    <3>6. d \in Seq(Val(a, m, f))
      BY <1>4, <3>4, <3>5, ExceptSeq
    <3>7. arrays' = [arrays EXCEPT ![t.v] = d]
      BY <3>1, <3>4
    <3>8. Heap([arrays EXCEPT ![t.v] = d], maps, a, m, f)
      BY <1>0, <3>3, <3>6, ArrayChanged
    <3>9. QED BY <3>1, <3>7, <3>8
  <2>2. CASE t.tag = "map"
    <3>1. maps' = [maps EXCEPT ![t.v] = Entered(maps[t.v], i, x)] /\ arrays' = arrays
      BY <1>2, <2>2
    <3>2. IsKey(i)
      BY <1>3, <2>2 DEF Settable, InArray
    <3>3. t.v \in 1 .. Len(maps) /\ maps[t.v] \in Seq(EntryOf(Val(a, m, f)))
      BY <1>0, <1>4, <2>2, MapOf
    <3>4. PICK d : d = Entered(maps[t.v], i, x)
      OBVIOUS
    <3>5. d \in Seq(EntryOf(Val(a, m, f)))
      BY <1>4, <3>2, <3>3, <3>4, EnteredMap
    <3>6. Heap(arrays, [maps EXCEPT ![t.v] = d], a, m, f)
      BY <1>0, <3>3, <3>5, MapChanged
    <3>7. QED BY <3>1, <3>4, <3>6
  <2>3. QED BY <1>2, <2>1, <2>2
<1>6. sp' \in 0 .. MaxStack /\ pc' \in 0 .. Len(code)
  BY <1>0, <1>2, <1>3
<1>7. QED BY <1>2, <1>3, <1>5, <1>6 DEF Typed, regs, code, varCount, FnOf, FrameOf

LEMMA SoughtRange ==
  ASSUME NEW fn, NEW xs, NEW a, NEW m, NEW f, Given(fn, xs, arrays, maps, a, m, f)
  PROVE  Sought(fn, xs) \in Nat /\ (fn = "del" => Sought(fn, xs) <= Len(maps[xs[1].v]))
<1> DEFINE here == CASE fn \in {"array_find", "array_contains"} ->
                          {k \in DOMAIN arrays[xs[1].v] : Equal(arrays[xs[1].v][k], xs[2])}
                     [] fn \in {"has_key", "del"} -> KeyAt(maps[xs[1].v], xs[2])
                     [] OTHER -> {}
<1>0. Heap(arrays, maps, a, m, f) /\ Fit(VmKinds(fn), xs) /\ xs[1] \in Val(a, m, f)
  BY ArgVal DEF Given
<1>1. fn \in {"array_find", "array_contains"} => arrays[xs[1].v] \in Seq(Val(a, m, f))
  <2> SUFFICES ASSUME fn \in {"array_find", "array_contains"} PROVE arrays[xs[1].v] \in Seq(Val(a, m, f))
    OBVIOUS
  <2>1. VmKinds(fn) = <<arr, any>>
    BY DEF VmKinds
  <2>2. xs[1].tag = "arr"
    BY <1>0, <2>1 DEF Fit, arr
  <2>3. QED BY <1>0, <2>2, ArrayOf
<1>2. fn \in {"has_key", "del"} => maps[xs[1].v] \in Seq(EntryOf(Val(a, m, f)))
  <2> SUFFICES ASSUME fn \in {"has_key", "del"} PROVE maps[xs[1].v] \in Seq(EntryOf(Val(a, m, f)))
    OBVIOUS
  <2>1. VmKinds(fn) = <<map, any>>
    BY DEF VmKinds
  <2>2. xs[1].tag = "map"
    BY <1>0, <2>1 DEF Fit, map
  <2>3. QED BY <1>0, <2>2, MapOf
<1>3. \A T, s : s \in Seq(T) => DOMAIN s = 1 .. Len(s) /\ Len(s) \in Nat
  BY LenProperties
<1>4. here \in SUBSET Nat /\ (fn = "del" => here \in SUBSET (1 .. Len(maps[xs[1].v])) /\ Len(maps[xs[1].v]) \in Nat)
  <2>1. CASE fn \in {"array_find", "array_contains"}
    BY <1>1, <1>3, <2>1
  <2>2. CASE fn \in {"has_key", "del"}
    BY <1>2, <1>3, <2>2 DEF KeyAt
  <2>3. CASE fn \notin {"array_find", "array_contains", "has_key", "del"}
    BY <2>3
  <2>4. QED BY <2>1, <2>2, <2>3
<1>5. Sought(fn, xs) = IF here = {} THEN 0 ELSE CHOOSE k \in here : \A j \in here : k <= j
  BY DEF Sought
<1> HIDE DEF here
<1>6. CASE here = {}
  BY <1>4, <1>5, <1>6
<1>7. CASE here # {}
  <2>1. \E k \in here : \A j \in here : k <= j
    BY <1>4, <1>7, LeastElement
  <2>2. Sought(fn, xs) \in here
    BY <1>5, <1>7, <2>1
  <2>3. PICK n, w : n = Len(maps[xs[1].v]) /\ w = Sought(fn, xs)
    OBVIOUS
  <2>4. w \in Nat
    BY <1>4, <2>2, <2>3
  <2>5. fn = "del" => w \in 1 .. n /\ n \in Nat
    BY <1>4, <2>2, <2>3
  <2>6. w \in Nat /\ (fn = "del" => w <= n)
    BY ONLY <2>4, <2>5
  <2>7. QED BY ONLY <2>3, <2>6
<1>8. QED BY <1>6, <1>7

LEMMA BuiltinStep ==
  ASSUME NEW a, NEW m, NEW f, Typed(a, m, f), BUILTIN
  PROVE  \E b \in Nat : Typed(b, m, f)'
<1>0. sp \in Nat /\ sp <= MaxStack /\ MaxStack \in Nat /\ a \in Nat /\ m \in Nat /\ f \in Nat /\ Heap(arrays, maps, a, m, f)
  BY ImageFacts DEF Typed
<1>1. PICK fn, k, xs : fn = Named(In.i) /\ k = Arity(fn) /\ xs = Args(k)
  OBVIOUS
<1>2. PICK at, r : at = Sought(fn, xs) /\ r = VmResult(fn, xs, arrays, maps, at)
  OBVIOUS
<1>3. /\ Exec("BUILTIN") /\ Give(k, r.val) /\ arrays' = r.arrays /\ maps' = r.maps /\ fns' = fns
      /\ UNCHANGED <<mem, regs, status>>
  BY <1>1, <1>2 DEF BUILTIN
<1>4. /\ pc < Len(code) /\ image' = image
      /\ In.i \in Ids /\ sp >= Arity(Named(In.i)) /\ VmAccepts(Named(In.i), Args(Arity(Named(In.i))), arrays)
  BY <1>3 DEF Exec, Passes, Running
<1>5. fn \in DOMAIN Builtins /\ k \in 1 .. 3
  BY <1>1, <1>4, NamedIs, Arities
<1>6. k \in Nat /\ k <= sp /\ sp - k < MaxStack
  BY <1>0, <1>1, <1>4, <1>5
<1>7. xs \in Seq(Val(a, m, f)) /\ Len(xs) = k
  BY <1>1, <1>6, ArgsVals
<1>8. Given(fn, xs, arrays, maps, a, m, f)
  BY <1>0, <1>1, <1>4, <1>5, <1>7 DEF Given, VmAccepts
<1>9. at \in Nat /\ (fn = "del" => at <= Len(maps[xs[1].v]))
  BY <1>2, <1>8, SoughtRange
<1>10. PICK b \in Nat : a <= b /\ Heap(r.arrays, r.maps, b, m, f) /\ r.val \in Val(b, m, f)
  BY <1>2, <1>8, <1>9, LibraryResult
<1>11. PICK x : x = r.val
  OBVIOUS
<1>12. Give(k, x) /\ x \in Val(b, m, f) /\ Heap(arrays', maps', b, m, f)
  BY <1>3, <1>10, <1>11
<1>13. m <= m /\ f <= f
  BY <1>0
<1>14. fns' \in Seq(FnOf(Val(b, m, f))) /\ Len(fns') = f
  BY <1>0, <1>3, <1>10, <1>13, Grown DEF Typed
<1>15. UNCHANGED <<image, mem, regs, status>>
  BY <1>3, <1>4
<1>16. Typed(b, m, f)'
  BY <1>0, <1>4, <1>6, <1>10, <1>12, <1>13, <1>14, <1>15, GiveGrown
<1>17. QED BY <1>16

-------------------------------------------------------------------------------
(* The inductive invariant: TypeOK, with the numbers of objects named.     *)
VmInv == \E a \in Nat, m \in Nat, f \in Nat : Typed(a, m, f)

LEMMA LoadTyped == ASSUME Load PROVE VmInv
<1>1. /\ image \in Images /\ pc = 0 /\ sp = 0 /\ fp = 0
      /\ stack = [i \in 0 .. MaxStack - 1 |-> Number(0)]
      /\ mem = [i \in 0 .. varCount - 1 |-> Number(0)]
      /\ calls = <<>> /\ closure = 0 /\ arrays = <<>> /\ maps = <<>> /\ fns = <<>> /\ status = "running"
  BY DEF Load
<1>2. Number(0) \in Val(0, 0, 0)
  BY NumberVal
<1>3. code \in Seq(Instruction) /\ Len(code) \in Nat /\ MaxStack \in Nat /\ MaxCalls \in Nat
  BY <1>1, MachineAssumption, LenProperties DEF code
<1>4. \A T : <<>> \in Seq(T) /\ Len(<<>>) = 0
  BY EmptySeq
<1>5. Heap(arrays, maps, 0, 0, 0)
  BY <1>1, <1>4 DEF Heap
<1>6. stack \in Slots(Val(0, 0, 0)) /\ mem \in [0 .. varCount - 1 -> Val(0, 0, 0)]
  BY <1>1, <1>2 DEF Slots
<1>7. fns \in Seq(FnOf(Val(0, 0, 0))) /\ Len(fns) = 0 /\ calls \in Seq(FrameOf(0)) /\ Len(calls) = 0
  BY <1>1, <1>4
<1>8. pc \in 0 .. Len(code) /\ sp \in 0 .. MaxStack /\ fp \in 0 .. MaxStack /\ closure \in 0 .. 0 /\ Len(calls) <= MaxCalls
  BY <1>1, <1>3, <1>7
<1>9. Typed(0, 0, 0)
  BY <1>1, <1>5, <1>6, <1>7, <1>8 DEF Typed
<1>10. QED BY <1>9 DEF VmInv

LEMMA StepTyped == ASSUME VmInv, Step PROVE VmInv'
<1>1. PICK a \in Nat, m \in Nat, f \in Nat : Typed(a, m, f)
  BY DEF VmInv
<1>2. CASE PUSH \/ PUSH_STR \/ LOAD \/ LOAD_LOCAL \/ LOAD_UPVAL
  BY <1>1, <1>2, PushSteps DEF VmInv
<1>3. CASE ADD \/ SUB \/ MUL \/ MOD \/ NEG
  BY <1>1, <1>3, ArithmeticSteps DEF VmInv
<1>4. CASE LT \/ GT \/ LE \/ GE \/ EQ \/ NEQ \/ AND \/ OR \/ NOT
  BY <1>1, <1>4, LogicSteps DEF VmInv
<1>5. CASE STORE \/ STORE_LOCAL \/ ENTER \/ PRINT \/ DROP \/ DUP2 \/ JMP \/ JZ \/ HALT \/ Die
  BY <1>1, <1>5, MoveSteps DEF VmInv
<1>6. CASE CALL \/ CALL_VAL \/ RET
  BY <1>1, <1>6, CallSteps DEF VmInv
<1>7. CASE INDEX_GET
  BY <1>1, <1>7, IndexGetStep DEF VmInv
<1>8. CASE INDEX_SET
  BY <1>1, <1>8, IndexSetStep DEF VmInv
<1>9. CASE NEW_ARRAY
  BY <1>1, <1>9, NewArrayStep DEF VmInv
<1>10. CASE NEW_MAP
  BY <1>1, <1>10, NewMapStep DEF VmInv
<1>11. CASE PUSH_FN \/ MAKE_CLOSURE
  BY <1>1, <1>11, FunctionSteps DEF VmInv
<1>12. CASE BUILTIN
  BY <1>1, <1>12, BuiltinStep DEF VmInv
<1>13. QED BY <1>2, <1>3, <1>4, <1>5, <1>6, <1>7, <1>8, <1>9, <1>10, <1>11, <1>12 DEF Step

(* Nothing but mvars matters to the types.                                 *)
LEMMA StutterTyped == ASSUME VmInv, UNCHANGED vars PROVE VmInv'
<1>1. PICK a \in Nat, m \in Nat, f \in Nat : Typed(a, m, f)
  BY DEF VmInv
<1>2. Typed(a, m, f)'
  BY <1>1 DEF Typed, vars, mvars, regs, heap, code, varCount, FnOf, FrameOf
<1>3. QED BY <1>2 DEF VmInv

(* The machine keeps its types whatever code it loads: sp and fp stay in   *)
(* the stack, pc and every return address in the code, the call stack in   *)
(* its bound, and no word on the stack, in a global, in a frame, in an     *)
(* array, a map or a closure refers to an object that does not exist.      *)
THEOREM MachineTypes == Spec => []TypeOK
<1>1. Init => VmInv
  BY LoadTyped DEF Init
<1>2. VmInv /\ [Next]_vars => VmInv'
  BY StepTyped, StutterTyped DEF Next
<1>3. VmInv => TypeOK
  BY TypedIsTypeOK DEF VmInv
<1>4. QED BY <1>1, <1>2, <1>3, PTL DEF Spec

-------------------------------------------------------------------------------
(* Frames.  When the code of every executable is balanced, each frame is   *)
(* as high as the plan says for the instruction it stands at, or higher    *)
(* by the arguments it was called with.                                    *)
AllBalanced == \A i \in Images : Balanced(i.code)

plan == Plan(code)

IsEntry(e) == e \in DOMAIN plan \ {0} /\ plan[e] = EntryPoint(e)

(* Of the frame j calls deep: where it begins, the instruction it will go  *)
(* on with, and its height; where it has made a call, the height it will   *)
(* have when the call has returned.                                        *)
Base(j)   == IF j < Len(calls) THEN calls[j + 1].fp ELSE fp
At(j)     == IF j < Len(calls) THEN calls[j + 1].pc ELSE pc
Roof(j)   == IF j < Len(calls) THEN Base(j + 1) + 1 ELSE sp
Height(j) == Roof(j) - Base(j)

Placed(j) ==
  /\ At(j) \in DOMAIN plan
  /\ Height(j) >= plan[At(j)].height
  /\ j = 0 => plan[At(j)].entry = 0 /\ Height(j) = plan[At(j)].height
  /\ j > 0 => plan[At(j)].entry # 0

FrameInv ==
  /\ \A k \in 1 .. Len(fns) : IsEntry(fns[k].pc)
  /\ Base(0) = 0
  /\ status = "running" => \A j \in 0 .. Len(calls) : Placed(j)
  /\ CleanHalt

LEMMA PlanFacts ==
  ASSUME AllBalanced, image \in Images, NEW a \in DOMAIN plan
  PROVE  /\ a \in Nat /\ a + 1 \in 1 .. Len(code)
         /\ plan[a].height \in Nat /\ plan[a].entry \in DOMAIN plan
         /\ plan[plan[a].entry] = EntryPoint(plan[a].entry)
         /\ plan[a].height >= Pops(code[a + 1])
         /\ \A b \in Successors(a, code[a + 1]) :
              /\ b \in DOMAIN plan /\ plan[b].entry = plan[a].entry
              /\ plan[b].height = plan[a].height - Pops(code[a + 1]) + Pushes(code[a + 1])
         /\ code[a + 1].op \in {"CALL", "PUSH_FN", "MAKE_CLOSURE"} => IsEntry(code[a + 1].i)
         /\ code[a + 1].op = "HALT" => plan[a] = EntryPoint(0)
         /\ code[a + 1].op = "STORE_LOCAL" => code[a + 1].i >= 0
<1>1. Balanced(code)
  BY DEF AllBalanced, code
<1>2. PICK p, c : p = plan /\ c = code
  OBVIOUS
<1>3. p = Plan(c)
  BY <1>2 DEF plan
<1>4. Len(c) \in Nat
  BY <1>2, ImageFacts
<1>5. /\ a \in 0 .. Len(c) - 1
      /\ p[a] \in [height : Nat, entry : DOMAIN p] /\ p[p[a].entry] = EntryPoint(p[a].entry)
      /\ p[a].height >= Pops(c[a + 1])
      /\ \A b \in Successors(a, c[a + 1]) : b \in DOMAIN p /\ p[b] = After(p[a], c[a + 1])
      /\ Begins(c[a + 1]) => c[a + 1].i \in DOMAIN p \ {0} /\ p[c[a + 1].i] = EntryPoint(c[a + 1].i)
      /\ c[a + 1].op = "HALT" => p[a] = EntryPoint(0)
      /\ c[a + 1].op = "STORE_LOCAL" => c[a + 1].i >= 0
  BY ZenonT(40), <1>1, <1>2, <1>3 DEF Balanced
<1>6. a \in Nat /\ a + 1 \in 1 .. Len(c)
  BY <1>4, <1>5
<1>7. \A b \in Successors(a, c[a + 1]) :
        p[b].entry = p[a].entry /\ p[b].height = p[a].height - Pops(c[a + 1]) + Pushes(c[a + 1])
  BY <1>5 DEF After
<1>8. c[a + 1].op \in {"CALL", "PUSH_FN", "MAKE_CLOSURE"} => IsEntry(c[a + 1].i)
  BY <1>2, <1>5 DEF IsEntry, Begins
<1>9. QED BY <1>2, <1>5, <1>6, <1>7, <1>8

LEMMA Counts ==
  ASSUME VmInv
  PROVE  /\ image \in Images /\ Len(calls) \in Nat
         /\ sp \in Nat /\ fp \in Nat /\ pc \in Nat /\ Len(code) \in Nat
         /\ MaxStack \in Nat /\ DOMAIN stack = 0 .. MaxStack - 1
         /\ \A j \in 0 .. Len(calls) : Base(j) \in Nat
<1>1. PICK a \in Nat, m \in Nat, f \in Nat : Typed(a, m, f)
  BY DEF VmInv
<1>2. /\ image \in Images /\ calls \in Seq(FrameOf(f)) /\ sp \in 0 .. MaxStack /\ fp \in 0 .. MaxStack
      /\ pc \in 0 .. Len(code) /\ stack \in Slots(Val(a, m, f))
  BY <1>1 DEF Typed
<1>3. Len(code) \in Nat /\ MaxStack \in Nat /\ Len(calls) \in Nat
  BY <1>1, <1>2, ImageFacts, LenProperties
<1>4. \A j \in 0 .. Len(calls) : Base(j) \in Nat
  <2> TAKE j \in 0 .. Len(calls)
  <2>1. CASE j < Len(calls)
    <3>1. j + 1 \in 1 .. Len(calls)
      BY <1>3, <2>1
    <3>2. calls[j + 1] \in FrameOf(f)
      BY <1>2, <3>1, ElementOfSeq
    <3>3. QED BY <1>3, <2>1, <3>2 DEF Base, FrameOf
  <2>2. CASE ~ (j < Len(calls))
    BY <1>2, <1>3, <2>2 DEF Base
  <2>3. QED BY <2>1, <2>2
<1>5. QED BY <1>2, <1>3, <1>4 DEF Slots

(* What a step does to the frames.                                         *)
LEMMA FramesStay ==
  ASSUME VmInv, calls' = calls, fp' = fp
  PROVE  /\ Len(calls') = Len(calls) /\ Base(0)' = Base(0)
         /\ \A j \in 0 .. Len(calls) - 1 : At(j)' = At(j) /\ Height(j)' = Height(j)
         /\ At(Len(calls)) = pc /\ Height(Len(calls)) = sp - fp
         /\ \A j \in 0 .. Len(calls') : j = Len(calls) => At(j)' = pc' /\ Height(j)' = sp' - fp
<1>1. Len(calls) \in Nat
  BY Counts
<1>2. QED BY <1>1 DEF At, Base, Roof, Height

LEMMA FrameAdded ==
  ASSUME VmInv, calls' = Append(calls, Frame)
  PROVE  /\ Len(calls') = Len(calls) + 1 /\ Base(0)' = Base(0)
         /\ \A j \in 0 .. Len(calls) - 1 : At(j)' = At(j) /\ Height(j)' = Height(j)
         /\ \A j \in 0 .. Len(calls') :
              /\ j = Len(calls) => At(j)' = pc + 1 /\ Height(j)' = (fp' + 1) - fp
              /\ j = Len(calls) + 1 => At(j)' = pc' /\ Height(j)' = sp' - fp'
<1>1. PICK a \in Nat, m \in Nat, f \in Nat : Typed(a, m, f)
  BY DEF VmInv
<1>2. PICK L : L = Len(calls)
  OBVIOUS
<1>3. L \in Nat /\ calls \in Seq(FrameOf(f))
  BY <1>1, <1>2, Counts DEF Typed
<1>4. PICK c : c = calls'
  OBVIOUS
<1>5. Len(c) = L + 1 /\ (\A k \in 1 .. L : c[k] = calls[k]) /\ c[L + 1] = Frame
  <2>1. PICK u : u = Frame
    OBVIOUS
  <2>2. calls \in Seq(FrameOf(f) \cup {u})
    BY <1>3, SeqMonotonic
  <2>3. /\ Len(Append(calls, u)) = Len(calls) + 1 /\ Append(calls, u)[Len(calls) + 1] = u
        /\ \A k \in 1 .. Len(calls) : Append(calls, u)[k] = calls[k]
    BY <2>2, AppendProperties
  <2>4. QED BY <1>2, <1>4, <2>1, <2>3
<1>6. c[L + 1].fp = fp /\ c[L + 1].pc = pc + 1
  BY <1>5 DEF Frame
<1>7. \A j \in 0 .. L - 1 : c[j + 1] = calls[j + 1]
  BY <1>3, <1>5
<1>8. \A j \in 0 .. L : Base(j)' = Base(j)
  BY <1>2, <1>3, <1>4, <1>5, <1>6, <1>7 DEF Base
<1>9. \A j \in 0 .. L - 1 : At(j)' = At(j)
  BY <1>2, <1>3, <1>4, <1>5, <1>7 DEF At
<1>10. \A j \in 0 .. L - 1 : Height(j)' = Height(j)
  BY <1>2, <1>3, <1>4, <1>5, <1>8 DEF Roof, Height
<1>11. \A j \in 0 .. L + 1 : j = L + 1 => Base(j)' = fp' /\ At(j)' = pc' /\ Height(j)' = sp' - fp'
  BY <1>3, <1>4, <1>5 DEF Base, At, Roof, Height
<1>12. \A j \in 0 .. L + 1 : j = L => Base(j)' = fp /\ At(j)' = pc + 1 /\ Height(j)' = (fp' + 1) - fp
  <2> TAKE j \in 0 .. L + 1
  <2> SUFFICES ASSUME j = L PROVE Base(j)' = fp /\ At(j)' = pc + 1 /\ Height(j)' = (fp' + 1) - fp
    OBVIOUS
  <2>1. Base(j)' = fp /\ At(j)' = pc + 1
    BY <1>3, <1>4, <1>5, <1>6 DEF Base, At
  <2>2. Base(j + 1)' = fp'
    BY <1>3, <1>4, <1>5 DEF Base
  <2>3. j < Len(calls')
    BY <1>3, <1>4, <1>5
  <2>4. Roof(j)' = fp' + 1
    BY ONLY <2>2, <2>3 DEF Roof
  <2>5. QED BY <2>1, <2>4 DEF Height
<1>13. QED BY <1>2, <1>3, <1>4, <1>5, <1>8, <1>9, <1>10, <1>11, <1>12

LEMMA FrameRemoved ==
  ASSUME VmInv, Len(calls) > 0, calls' = SubSeq(calls, 1, Len(calls) - 1),
         fp' = calls[Len(calls)].fp, pc' = calls[Len(calls)].pc, sp' = fp + 1
  PROVE  /\ Len(calls') = Len(calls) - 1 /\ Base(0)' = Base(0)
         /\ \A j \in 0 .. Len(calls') : At(j)' = At(j) /\ Height(j)' = Height(j)
<1>1. PICK a \in Nat, m \in Nat, f \in Nat : Typed(a, m, f)
  BY DEF VmInv
<1>2. PICK L, c : L = Len(calls) /\ c = calls'
  OBVIOUS
<1>3. L \in Nat /\ L > 0 /\ calls \in Seq(FrameOf(f))
  BY <1>1, <1>2, Counts DEF Typed
<1>4. Len(c) = L - 1 /\ \A k \in 1 .. L - 1 : c[k] = calls[k]
  BY <1>2, <1>3, SubSeqProperties
<1>5. \A j \in 0 .. L - 2 : c[j + 1] = calls[j + 1]
  BY <1>3, <1>4
<1>6. \A j \in 0 .. L - 1 : Base(j)' = Base(j) /\ At(j)' = At(j)
  BY <1>2, <1>3, <1>4, <1>5 DEF Base, At
<1>7. \A j \in 0 .. L - 1 : j = L - 1 => Height(j) = (Base(L) + 1) - Base(j) /\ Base(L) = fp
  <2> TAKE j \in 0 .. L - 1
  <2> SUFFICES ASSUME j = L - 1 PROVE Height(j) = (Base(L) + 1) - Base(j) /\ Base(L) = fp
    OBVIOUS
  <2>1. Base(L) = fp
    BY <1>2, <1>3 DEF Base
  <2>2. j < Len(calls) /\ j + 1 = L
    BY <1>2, <1>3
  <2>3. Roof(j) = Base(L) + 1
    BY ONLY <2>2 DEF Roof
  <2>4. QED BY <2>1, <2>3 DEF Height
<1>8. \A j \in 0 .. L - 1 : Height(j)' = Height(j)
  BY <1>2, <1>3, <1>4, <1>6, <1>7 DEF Roof, Height
<1>9. QED BY <1>2, <1>3, <1>4, <1>6, <1>8

(* Opcodes that stay in their frame.                                       *)
Stays ==
  /\ calls' = calls /\ fp' = fp /\ image' = image /\ status' = status
  /\ sp' = sp - Pops(In) + Pushes(In) /\ pc' \in Successors(pc, In)

Isolated == \A i \in DOMAIN stack : i < fp => stack'[i] = stack[i]

LEMMA GiveIsolates ==
  ASSUME NEW k \in Int, NEW x, Give(k, x), sp \in Nat, fp \in Nat, DOMAIN stack \subseteq Int, k <= sp - fp
  PROVE  Isolated
BY DEF Give, Isolated

LEMMA GivingStays ==
  ASSUME NEW op, Exec(op), NEW k \in Int, NEW x, Give(k, x), UNCHANGED <<regs, status>>,
         sp \in Nat, fp \in Nat, DOMAIN stack \subseteq Int,
         k = Pops(In), k <= sp - fp, Pushes(In) = 1, Successors(pc, In) = {pc + 1}
  PROVE  Stays /\ Isolated
<1>1. Isolated
  BY GiveIsolates
<1>2. QED BY <1>1 DEF Stays, Give, Exec, regs

LEMMA StayingSteps ==
  ASSUME VmInv, pc < Len(code), Pops(In) <= sp - fp, In.op = "STORE_LOCAL" => In.i >= 0,
         Step, In.op \notin {"CALL", "CALL_VAL", "RET", "HALT"}, ~ Die
  PROVE  Stays /\ Isolated
<1>0. /\ sp \in Nat /\ fp \in Nat /\ pc \in Nat /\ DOMAIN stack = 0 .. MaxStack - 1 /\ DOMAIN stack \subseteq Int
      /\ In.i \in Int /\ In.n \in Int
  <2>1. PICK a \in Nat, m \in Nat, f \in Nat : Typed(a, m, f)
    BY DEF VmInv
  <2>2. In.i \in Int /\ In.n \in Int
    BY <2>1, InFacts
  <2>3. QED BY <2>2, Counts
<1>1. ASSUME NEW op \in {"PUSH", "PUSH_STR", "LOAD", "LOAD_LOCAL", "LOAD_UPVAL", "PUSH_FN"}, In.op = op
      PROVE  Pops(In) = 0 /\ Pushes(In) = 1 /\ Successors(pc, In) = {pc + 1}
  BY <1>1 DEF Pops, Pushes, Successors
<1>a. ASSUME NEW op \in {"ADD", "SUB", "MUL", "MOD", "LT", "LE", "GT", "GE", "EQ", "NEQ", "AND", "OR", "INDEX_GET"},
             In.op = op
      PROVE  Pops(In) = 2 /\ Pushes(In) = 1 /\ Successors(pc, In) = {pc + 1}
  BY <1>a DEF Pops, Pushes, Successors
<1>b. ASSUME NEW op \in {"NEG", "NOT"}, In.op = op
      PROVE  Pops(In) = 1 /\ Pushes(In) = 1 /\ Successors(pc, In) = {pc + 1}
  BY <1>b DEF Pops, Pushes, Successors
<1>2. CASE PUSH \/ PUSH_STR \/ LOAD \/ LOAD_LOCAL \/ LOAD_UPVAL \/ PUSH_FN
  <2>1. PICK op, x : op \in {"PUSH", "PUSH_STR", "LOAD", "LOAD_LOCAL", "LOAD_UPVAL", "PUSH_FN"} /\
          Exec(op) /\ Give(0, x) /\ UNCHANGED <<regs, status>> /\ In.op = op
    BY <1>2 DEF PUSH, PUSH_STR, LOAD, LOAD_LOCAL, LOAD_UPVAL, PUSH_FN, Exec
  <2>2. Pops(In) = 0 /\ Pushes(In) = 1 /\ Successors(pc, In) = {pc + 1}
    BY <1>1, <2>1
  <2>3. QED BY <1>0, <2>1, <2>2, GivingStays
<1>3. CASE \/ ADD \/ SUB \/ MUL \/ MOD \/ LT \/ GT \/ LE \/ GE \/ EQ \/ NEQ \/ AND \/ OR \/ INDEX_GET
  <2>1. PICK op, x : op \in {"ADD", "SUB", "MUL", "MOD", "LT", "LE", "GT", "GE", "EQ", "NEQ", "AND", "OR", "INDEX_GET"} /\
          Computes(op, 2, x)
    BY <1>3 DEF ADD, SUB, MUL, MOD, LT, GT, LE, GE, EQ, NEQ, AND, OR, INDEX_GET
  <2>2. Exec(op) /\ Give(2, x) /\ UNCHANGED <<regs, status>> /\ In.op = op
    BY <2>1 DEF Computes, Exec
  <2>3. Pops(In) = 2 /\ Pushes(In) = 1 /\ Successors(pc, In) = {pc + 1}
    BY ONLY <1>a, <2>1, <2>2
  <2>4. QED BY <1>0, <2>2, <2>3, GivingStays
<1>4. CASE NEG \/ NOT
  <2>1. PICK op, x : op \in {"NEG", "NOT"} /\ Computes(op, 1, x)
    BY <1>4 DEF NEG, NOT
  <2>2. Exec(op) /\ Give(1, x) /\ UNCHANGED <<regs, status>> /\ In.op = op
    BY <2>1 DEF Computes, Exec
  <2>3. Pops(In) = 1 /\ Pushes(In) = 1 /\ Successors(pc, In) = {pc + 1}
    BY ONLY <1>b, <2>1, <2>2
  <2>4. QED BY <1>0, <2>2, <2>3, GivingStays
<1>5. CASE NEW_ARRAY
  <2>1. PICK k, x : k = In.i /\ Exec("NEW_ARRAY") /\ Give(k, x) /\ UNCHANGED <<regs, status>> /\ In.op = "NEW_ARRAY"
    BY <1>5 DEF NEW_ARRAY, Exec
  <2>2. Pops(In) = k /\ Pushes(In) = 1 /\ Successors(pc, In) = {pc + 1}
    BY <2>1 DEF Pops, Pushes, Successors
  <2>3. QED BY <1>0, <2>1, <2>2, GivingStays
<1>6. CASE NEW_MAP
  <2>1. PICK k, x : k = 2 * In.i /\ Exec("NEW_MAP") /\ Give(k, x) /\ UNCHANGED <<regs, status>> /\ In.op = "NEW_MAP"
    BY <1>6 DEF NEW_MAP, Exec
  <2>2. Pops(In) = k /\ Pushes(In) = 1 /\ Successors(pc, In) = {pc + 1} /\ k \in Int
    BY <1>0, <2>1 DEF Pops, Pushes, Successors
  <2>3. QED BY <1>0, <2>1, <2>2, GivingStays
<1>7. CASE MAKE_CLOSURE
  <2>1. PICK k, x : k = In.n /\ Exec("MAKE_CLOSURE") /\ Give(k, x) /\ UNCHANGED <<regs, status>> /\ In.op = "MAKE_CLOSURE"
    BY <1>7 DEF MAKE_CLOSURE, Exec
  <2>2. Pops(In) = k /\ Pushes(In) = 1 /\ Successors(pc, In) = {pc + 1}
    BY <2>1 DEF Pops, Pushes, Successors
  <2>3. QED BY <1>0, <2>1, <2>2, GivingStays
<1>8. CASE BUILTIN
  <2>1. PICK k, x : k = Arity(Named(In.i)) /\ Exec("BUILTIN") /\ Give(k, x) /\ UNCHANGED <<regs, status>> /\ In.op = "BUILTIN"
    BY <1>8 DEF BUILTIN, Exec
  <2>2. Pops(In) = k /\ Pushes(In) = 1 /\ Successors(pc, In) = {pc + 1}
    BY <2>1 DEF Pops, Pushes, Successors
  <2>3. k \in Int
    <3>1. In.i \in Ids
      BY <2>1 DEF Exec, Passes
    <3>2. QED BY <2>1, <3>1, NamedIs, Arities
  <2>4. QED BY <1>0, <2>1, <2>2, <2>3, GivingStays
<1>9. CASE STORE \/ PRINT \/ DROP
  <2>1. /\ Exec(In.op) /\ In.op \in {"STORE", "PRINT", "DROP"} /\ sp' = sp - 1 /\ stack' = stack /\ pc' = pc + 1
        /\ UNCHANGED <<regs, status>>
    BY <1>9 DEF STORE, PRINT, DROP, Exec, Take
  <2>2. Pops(In) = 1 /\ Pushes(In) = 0 /\ Successors(pc, In) = {pc + 1}
    BY <2>1 DEF Pops, Pushes, Successors
  <2>3. QED BY <1>0, <2>1, <2>2 DEF Stays, Isolated, Exec, regs
<1>10. CASE STORE_LOCAL
  <2>1. /\ Exec("STORE_LOCAL") /\ In.op = "STORE_LOCAL" /\ sp' = sp - 1 /\ pc' = pc + 1 /\ UNCHANGED <<regs, status>>
        /\ stack' = [stack EXCEPT ![fp + In.i] = Top(1)]
    BY <1>10 DEF STORE_LOCAL, Exec
  <2>2. Pops(In) = 1 /\ Pushes(In) = 0 /\ Successors(pc, In) = {pc + 1}
    BY <2>1 DEF Pops, Pushes, Successors
  <2>3. Isolated
    BY <1>0, <2>1 DEF Isolated
  <2>4. QED BY <1>0, <2>1, <2>2, <2>3 DEF Stays, Exec, regs
<1>11. CASE ENTER
  <2>1. /\ Exec("ENTER") /\ In.op = "ENTER" /\ sp' = sp + In.i /\ pc' = pc + 1 /\ UNCHANGED <<regs, status>>
        /\ stack' = [j \in 0 .. MaxStack - 1 |-> IF j \in sp .. sp + In.i - 1 THEN Number(0) ELSE stack[j]]
    BY <1>11 DEF ENTER, Exec
  <2>2. Pops(In) = 0 /\ Pushes(In) = In.i /\ Successors(pc, In) = {pc + 1}
    BY <2>1 DEF Pops, Pushes, Successors
  <2>3. fp <= sp
    BY <1>0, <2>2
  <2>4. Isolated
    BY <1>0, <2>1, <2>3 DEF Isolated
  <2>5. QED BY <1>0, <2>1, <2>2, <2>4 DEF Stays, Exec, regs
<1>12. CASE DUP2
  <2>1. /\ Exec("DUP2") /\ In.op = "DUP2" /\ sp' = sp + 2 /\ pc' = pc + 1 /\ UNCHANGED <<regs, status>>
        /\ stack' = [stack EXCEPT ![sp] = Top(2), ![sp + 1] = Top(1)]
    BY <1>12 DEF DUP2, Exec
  <2>2. Pops(In) = 2 /\ Pushes(In) = 4 /\ Successors(pc, In) = {pc + 1}
    BY <2>1 DEF Pops, Pushes, Successors
  <2>3. fp <= sp
    BY <1>0, <2>2
  <2>4. Isolated
    BY <1>0, <2>1, <2>3 DEF Isolated
  <2>5. QED BY <1>0, <2>1, <2>2, <2>4 DEF Stays, Exec, regs
<1>13. CASE INDEX_SET
  <2>1. /\ Exec("INDEX_SET") /\ In.op = "INDEX_SET" /\ sp' = sp - 3 /\ stack' = stack /\ pc' = pc + 1
        /\ UNCHANGED <<regs, status>>
    BY <1>13 DEF INDEX_SET, Exec, Take
  <2>2. Pops(In) = 3 /\ Pushes(In) = 0 /\ Successors(pc, In) = {pc + 1}
    BY <2>1 DEF Pops, Pushes, Successors
  <2>3. QED BY <1>0, <2>1, <2>2 DEF Stays, Isolated, Exec, regs
<1>14. CASE JMP
  <2>1. Exec("JMP") /\ In.op = "JMP" /\ sp' = sp /\ stack' = stack /\ pc' = In.i /\ UNCHANGED <<regs, status>>
    BY <1>14 DEF JMP, Exec
  <2>2. Pops(In) = 0 /\ Pushes(In) = 0 /\ Successors(pc, In) = {In.i}
    BY <2>1 DEF Pops, Pushes, Successors
  <2>3. QED BY <1>0, <2>1, <2>2 DEF Stays, Isolated, Exec, regs
<1>15. CASE JZ
  <2>1. /\ Exec("JZ") /\ In.op = "JZ" /\ sp' = sp - 1 /\ stack' = stack /\ pc' \in {pc + 1, In.i}
        /\ UNCHANGED <<regs, status>>
    BY <1>15 DEF JZ, Exec, Take
  <2>2. Pops(In) = 1 /\ Pushes(In) = 0 /\ Successors(pc, In) = {pc + 1, In.i}
    BY <2>1 DEF Pops, Pushes, Successors
  <2>3. QED BY <1>0, <2>1, <2>2 DEF Stays, Isolated, Exec, regs
<1>16. ~ CALL /\ ~ CALL_VAL /\ ~ RET /\ ~ HALT
  BY DEF CALL, CALL_VAL, RET, HALT, Exec
<1>17. QED BY <1>2, <1>3, <1>4, <1>5, <1>6, <1>7, <1>8, <1>9, <1>10, <1>11, <1>12, <1>13, <1>14, <1>15, <1>16 DEF Step

(* The functions there are begin where the plan has an entry.              *)
LEMMA EntriesStay ==
  ASSUME AllBalanced, VmInv, FrameInv, Running, Step, pc \in DOMAIN plan
  PROVE  \A k \in 1 .. Len(fns') : IsEntry(fns'[k].pc)
<1>1. image \in Images
  BY Counts
<1>2. CASE PUSH_FN \/ MAKE_CLOSURE
  <2>1. PICK u : fns' = Append(fns, u) /\ u.pc = In.i /\ In.op \in {"PUSH_FN", "MAKE_CLOSURE"}
    BY <1>2 DEF PUSH_FN, MAKE_CLOSURE, Exec
  <2>2. IsEntry(u.pc)
    BY <1>1, <2>1, PlanFacts DEF In
  <2>3. PICK a \in Nat, m \in Nat, f \in Nat : Typed(a, m, f)
    BY DEF VmInv
  <2>4. fns \in Seq(FnOf(Val(a, m, f)) \cup {u})
    BY <2>3, SeqMonotonic DEF Typed
  <2>5. /\ Len(Append(fns, u)) = Len(fns) + 1 /\ Append(fns, u)[Len(fns) + 1] = u
        /\ \A k \in 1 .. Len(fns) : Append(fns, u)[k] = fns[k]
    BY <2>4, AppendProperties
  <2>6. Len(fns) \in Nat
    BY <2>4, LenProperties
  <2>7. \A k \in 1 .. Len(fns) + 1 : k \in 1 .. Len(fns) \/ k = Len(fns) + 1
    BY <2>6
  <2>8. QED BY <2>1, <2>2, <2>5, <2>7 DEF FrameInv
<1>3. CASE ~ (PUSH_FN \/ MAKE_CLOSURE)
  <2>1. fns' = fns
    BY <1>3 DEF Step, PUSH, PUSH_STR, LOAD, STORE, LOAD_LOCAL, STORE_LOCAL, ENTER, ADD, SUB, MUL, MOD, NEG, LT, GT, LE, GE,
                EQ, NEQ, AND, OR, NOT, PRINT, DROP, DUP2, JMP, JZ, CALL, CALL_VAL, RET, NEW_ARRAY, NEW_MAP, INDEX_GET,
                INDEX_SET, LOAD_UPVAL, BUILTIN, HALT, Die, Computes, heap
  <2>2. QED BY <2>1 DEF FrameInv
<1>4. QED BY <1>2, <1>3


(* The frame that runs: what it takes from the stack is its own.           *)
LEMMA Current ==
  ASSUME AllBalanced, VmInv, FrameInv, Running, Passes
  PROVE  /\ Len(calls) \in 0 .. Len(calls) /\ At(Len(calls)) = pc /\ Height(Len(calls)) = sp - fp
         /\ pc \in DOMAIN plan /\ plan[pc].height \in Nat /\ sp - fp >= plan[pc].height
         /\ Pops(In) \in Int /\ Pushes(In) \in Int /\ sp - fp >= Pops(In)
         /\ Len(calls) = 0 => plan[pc].entry = 0 /\ sp - fp = plan[pc].height
         /\ Len(calls) > 0 => plan[pc].entry # 0
<1>1. /\ image \in Images /\ Len(calls) \in Nat /\ sp \in Nat /\ fp \in Nat /\ pc \in Nat /\ pc < Len(code)
  BY Counts DEF Running
<1>2. In.i \in Int /\ In.n \in Int
  <2>1. PICK a \in Nat, m \in Nat, f \in Nat : Typed(a, m, f)
    BY DEF VmInv
  <2>2. QED BY <1>1, <2>1, InFacts
<1>3. In.op = "BUILTIN" => Arity(Named(In.i)) \in Int
  <2> HAVE In.op = "BUILTIN"
  <2>1. In.i \in Ids
    BY DEF Passes
  <2>2. QED BY <2>1, NamedIs, Arities
<1>4. Pops(In) \in Int
  BY <1>2, <1>3 DEF Pops
<1>5. Pushes(In) \in Int
  BY <1>2 DEF Pushes
<1>6. At(Len(calls)) = pc /\ Height(Len(calls)) = sp - fp
  BY <1>1 DEF At, Height, Roof, Base
<1>7. Len(calls) \in 0 .. Len(calls) /\ (Len(calls) = 0 \/ Len(calls) > 0)
  BY <1>1
<1>8. Placed(Len(calls))
  BY <1>7 DEF FrameInv, Running
<1>9. /\ pc \in DOMAIN plan /\ sp - fp >= plan[pc].height
      /\ Len(calls) = 0 => plan[pc].entry = 0 /\ sp - fp = plan[pc].height
      /\ Len(calls) > 0 => plan[pc].entry # 0
  BY <1>6, <1>8 DEF Placed
<1>10. plan[pc].height \in Nat /\ plan[pc].height >= Pops(In)
  BY <1>1, <1>9, PlanFacts DEF In
<1>11. sp - fp >= Pops(In)
  BY <1>1, <1>4, <1>9, <1>10
<1>12. QED BY <1>4, <1>5, <1>6, <1>7, <1>9, <1>10, <1>11

(* The four kinds of step.                                                 *)
Called ==
  /\ Running /\ Passes /\ image' = image /\ status' = status
  /\ calls' = Append(calls, Frame)
  /\ fp' = sp - Pops(In) /\ sp' \in Int /\ sp' >= fp' /\ IsEntry(pc')
  /\ Successors(pc, In) = {pc + 1} /\ Pushes(In) = 1

Returned ==
  /\ Running /\ image' = image /\ status' = status
  /\ Len(calls) > 0 /\ calls' = SubSeq(calls, 1, Len(calls) - 1)
  /\ fp' = calls[Len(calls)].fp /\ pc' = calls[Len(calls)].pc /\ sp' = fp + 1

Ended ==
  /\ Running /\ image' = image /\ calls' = calls /\ fp' = fp /\ sp' = sp /\ status' # "running"
  /\ status' = "halted" => Passes /\ In.op = "HALT"

LEMMA CalledSteps ==
  ASSUME AllBalanced, VmInv, FrameInv, CALL \/ CALL_VAL
  PROVE  Called /\ Isolated
<1>1. Running /\ Passes /\ image' = image /\ status' = status /\ calls' = Append(calls, Frame) /\ stack' = stack
  BY DEF CALL, CALL_VAL, Exec, Take
<1>2. /\ image \in Images /\ sp \in Nat /\ fp \in Nat /\ pc \in DOMAIN plan
      /\ In.i \in Int /\ In.n \in Int
  <2>1. PICK a \in Nat, m \in Nat, f \in Nat : Typed(a, m, f)
    BY DEF VmInv
  <2>2. QED BY <1>1, <2>1, Counts, Current, InFacts DEF Running
<1>3. CASE CALL
  <2>1. In.op = "CALL" /\ fp' = sp - In.n /\ pc' = In.i /\ sp' = sp /\ In.n \in 0 .. sp
    BY <1>3 DEF CALL, Exec, Passes
  <2>2. Pops(In) = In.n /\ Pushes(In) = 1 /\ Successors(pc, In) = {pc + 1}
    BY <2>1 DEF Pops, Pushes, Successors
  <2>3. IsEntry(pc')
    BY <1>2, <2>1, PlanFacts DEF In
  <2>4. sp' \in Int /\ sp' >= fp'
    BY <1>2, <2>1
  <2>5. QED BY <1>1, <2>1, <2>2, <2>3, <2>4 DEF Called, Isolated
<1>4. CASE CALL_VAL
  <2>1. /\ In.op = "CALL_VAL" /\ fp' = sp - 1 - In.i /\ pc' = fns[Top(1).v].pc /\ sp' = sp - 1
        /\ In.i \in 0 .. sp - 1 /\ Top(1).tag = "fn" /\ sp > 0
    BY <1>4 DEF CALL_VAL, Exec, Passes, Take
  <2>2. Pops(In) = In.i + 1 /\ Pushes(In) = 1 /\ Successors(pc, In) = {pc + 1}
    BY <2>1 DEF Pops, Pushes, Successors
  <2>3. IsEntry(pc')
    <3>1. PICK a \in Nat, m \in Nat, f \in Nat : Typed(a, m, f)
      BY DEF VmInv
    <3>2. Top(1) \in Val(a, m, f)
      BY <1>2, <2>1, <3>1, TopVal
    <3>3. Top(1).v \in 1 .. f
      BY <2>1, <3>2 DEF Val
    <3>4. f = Len(fns)
      BY <3>1 DEF Typed
    <3>5. QED BY <2>1, <3>3, <3>4 DEF FrameInv
  <2>4. sp' \in Int /\ sp' >= fp' /\ fp' = sp - Pops(In)
    BY <1>2, <2>1, <2>2
  <2>5. QED BY <1>1, <2>2, <2>3, <2>4 DEF Called, Isolated
<1>5. QED BY <1>3, <1>4

LEMMA StepKinds ==
  ASSUME AllBalanced, VmInv, FrameInv, Step
  PROVE  Isolated /\ ((Running /\ Passes /\ Stays) \/ Called \/ Returned \/ Ended)
<1>1. Running
  BY DEF Step, PUSH, PUSH_STR, LOAD, STORE, LOAD_LOCAL, STORE_LOCAL, ENTER, ADD, SUB, MUL, MOD, NEG, LT, GT, LE, GE,
         EQ, NEQ, AND, OR, NOT, PRINT, DROP, DUP2, JMP, JZ, CALL, CALL_VAL, RET, NEW_ARRAY, NEW_MAP, INDEX_GET,
         INDEX_SET, PUSH_FN, MAKE_CLOSURE, LOAD_UPVAL, BUILTIN, HALT, Die, Computes, Exec
<1>2. CASE Die
  BY <1>1, <1>2 DEF Die, Ended, Isolated, regs
<1>3. CASE HALT
  <2>1. /\ Passes /\ image' = image /\ calls' = calls /\ fp' = fp /\ sp' = sp /\ status' = "halted" /\ In.op = "HALT"
        /\ stack' = stack
    BY <1>3 DEF HALT, Exec, regs
  <2>2. QED BY <1>1, <2>1 DEF Ended, Isolated
<1>4. CASE RET
  <2>1. /\ Passes /\ image' = image /\ In.op = "RET" /\ status' = status /\ sp' = fp + 1
        /\ calls' = SubSeq(calls, 1, Len(calls) - 1)
        /\ fp' = calls[Len(calls)].fp /\ pc' = calls[Len(calls)].pc
        /\ stack' = [stack EXCEPT ![fp] = Top(1)]
    BY <1>4 DEF RET, Exec
  <2>2. Len(calls) > 0
    BY <2>1 DEF Passes
  <2>3. fp \in Nat /\ DOMAIN stack \subseteq Int
    BY Counts
  <2>4. Isolated
    BY <2>1, <2>3 DEF Isolated
  <2>5. QED BY <1>1, <2>1, <2>2, <2>4 DEF Returned
<1>5. CASE CALL \/ CALL_VAL
  BY <1>5, CalledSteps
<1>6. CASE ~ Die /\ ~ HALT /\ ~ RET /\ ~ CALL /\ ~ CALL_VAL
  <2>1. Passes /\ In.op \notin {"CALL", "CALL_VAL", "RET", "HALT"}
    BY <1>6 DEF Step, PUSH, PUSH_STR, LOAD, STORE, LOAD_LOCAL, STORE_LOCAL, ENTER, ADD, SUB, MUL, MOD, NEG, LT, GT, LE,
                GE, EQ, NEQ, AND, OR, NOT, PRINT, DROP, DUP2, JMP, JZ, NEW_ARRAY, NEW_MAP, INDEX_GET,
                INDEX_SET, PUSH_FN, MAKE_CLOSURE, LOAD_UPVAL, BUILTIN, Computes, Exec
  <2>2. image \in Images /\ pc \in DOMAIN plan /\ Pops(In) <= sp - fp
    BY <1>1, <2>1, Counts, Current
  <2>3. In.op = "STORE_LOCAL" => In.i >= 0
    BY <2>2, PlanFacts DEF In
  <2>4. pc < Len(code)
    BY <1>1 DEF Running
  <2>5. QED BY <1>1, <1>6, <2>1, <2>2, <2>3, <2>4, StayingSteps
<1>7. QED BY <1>2, <1>3, <1>4, <1>5, <1>6

(* Frames stay as the plan has them.                                       *)
LEMMA EachPlaced ==
  ASSUME AllBalanced, VmInv, FrameInv, (Running /\ Passes /\ Stays) \/ Called \/ Returned
  PROVE  Base(0)' = 0 /\ \A j \in 0 .. Len(calls') : Placed(j)'
<1>0. /\ plan' = plan /\ Base(0) = 0 /\ Len(calls) \in Nat /\ sp \in Nat /\ fp \in Nat
      /\ status = "running" /\ image \in Images
  BY Counts DEF plan, code, Stays, Called, Returned, Running, FrameInv
<1>1. \A j \in 0 .. Len(calls) : Placed(j)
  BY <1>0 DEF FrameInv
<1>2. ASSUME NEW j \in 0 .. Len(calls), At(j)' = At(j), Height(j)' = Height(j)
      PROVE  Placed(j)'
  BY <1>0, <1>1, <1>2 DEF Placed
<1>3. ASSUME Running, Passes, NEW b \in Successors(pc, In), NEW j, j = Len(calls), At(j)' = b,
             Height(j)' = (sp - fp) - Pops(In) + Pushes(In)
      PROVE  Placed(j)'
  <2>1. /\ pc \in DOMAIN plan /\ plan[pc].height \in Nat /\ sp - fp >= plan[pc].height
        /\ Pops(In) \in Int /\ Pushes(In) \in Int
        /\ Len(calls) = 0 => plan[pc].entry = 0 /\ sp - fp = plan[pc].height
        /\ Len(calls) > 0 => plan[pc].entry # 0
    BY <1>3, Current
  <2>2. /\ b \in DOMAIN plan /\ plan[b].entry = plan[pc].entry
        /\ plan[b].height = plan[pc].height - Pops(In) + Pushes(In)
    BY <1>0, <1>3, <2>1, PlanFacts DEF In
  <2>3. /\ Height(j)' >= plan[b].height
        /\ sp - fp = plan[pc].height => Height(j)' = plan[b].height
    BY ONLY <1>0, <1>3, <2>1, <2>2
  <2>4. QED BY <1>0, <1>3, <2>1, <2>2, <2>3 DEF Placed
<1>4. CASE Running /\ Passes /\ Stays
  <2>1. /\ Len(calls') = Len(calls) /\ Base(0)' = Base(0)
        /\ \A j \in 0 .. Len(calls) - 1 : At(j)' = At(j) /\ Height(j)' = Height(j)
        /\ \A j \in 0 .. Len(calls') : j = Len(calls) => At(j)' = pc' /\ Height(j)' = sp' - fp
    BY <1>4, FramesStay DEF Stays
  <2>2. pc' \in Successors(pc, In) /\ sp' = sp - Pops(In) + Pushes(In)
    BY <1>4 DEF Stays
  <2>3. sp' - fp = (sp - fp) - Pops(In) + Pushes(In)
    <3>1. Pops(In) \in Int /\ Pushes(In) \in Int
      BY <1>4, Current
    <3>2. QED BY ONLY <1>0, <2>2, <3>1
  <2>4. ASSUME NEW j \in 0 .. Len(calls'), j = Len(calls) PROVE Placed(j)'
    BY <1>3, <1>4, <2>1, <2>2, <2>3, <2>4
  <2>5. ASSUME NEW j \in 0 .. Len(calls'), j # Len(calls) PROVE Placed(j)'
    <3>1. j \in 0 .. Len(calls) - 1 /\ j \in 0 .. Len(calls)
      BY <1>0, <2>1, <2>5
    <3>2. QED BY <1>2, <2>1, <3>1
  <2>6. QED BY <1>0, <2>1, <2>4, <2>5
<1>5. CASE Called
  <2>1. /\ Len(calls') = Len(calls) + 1 /\ Base(0)' = Base(0)
        /\ \A j \in 0 .. Len(calls) - 1 : At(j)' = At(j) /\ Height(j)' = Height(j)
        /\ \A j \in 0 .. Len(calls') :
             /\ j = Len(calls) => At(j)' = pc + 1 /\ Height(j)' = (fp' + 1) - fp
             /\ j = Len(calls) + 1 => At(j)' = pc' /\ Height(j)' = sp' - fp'
    BY <1>5, FrameAdded DEF Called
  <2>2. /\ Running /\ Passes /\ pc + 1 \in Successors(pc, In) /\ IsEntry(pc') /\ Pushes(In) = 1
        /\ fp' = sp - Pops(In) /\ sp' \in Int /\ sp' >= fp'
    BY <1>5 DEF Called
  <2>3. Pops(In) \in Int
    BY <2>2, Current
  <2>4. (fp' + 1) - fp = (sp - fp) - Pops(In) + Pushes(In)
    BY ONLY <1>0, <2>2, <2>3
  <2>5. ASSUME NEW j \in 0 .. Len(calls'), j = Len(calls) PROVE Placed(j)'
    BY <1>3, <2>1, <2>2, <2>4, <2>5
  <2>6. ASSUME NEW j \in 0 .. Len(calls'), j = Len(calls) + 1 PROVE Placed(j)'
    <3>1. At(j)' = pc' /\ Height(j)' = sp' - fp' /\ j > 0
      BY <1>0, <2>1, <2>6
    <3>2. pc' \in DOMAIN plan /\ pc' # 0 /\ plan[pc'].height = 0 /\ plan[pc'].entry = pc'
      BY <2>2 DEF IsEntry, EntryPoint
    <3>3. Height(j)' >= 0
      BY ONLY <1>0, <2>2, <2>3, <3>1
    <3>4. QED BY <1>0, <3>1, <3>2, <3>3 DEF Placed
  <2>7. ASSUME NEW j \in 0 .. Len(calls'), j # Len(calls), j # Len(calls) + 1 PROVE Placed(j)'
    <3>1. j \in 0 .. Len(calls) - 1 /\ j \in 0 .. Len(calls)
      BY <1>0, <2>1, <2>7
    <3>2. QED BY <1>2, <2>1, <3>1
  <2>8. QED BY <1>0, <2>1, <2>5, <2>6, <2>7
<1>6. CASE Returned
  <2>1. /\ Len(calls') = Len(calls) - 1 /\ Base(0)' = Base(0)
        /\ \A j \in 0 .. Len(calls') : At(j)' = At(j) /\ Height(j)' = Height(j)
    BY <1>6, FrameRemoved DEF Returned
  <2>2. \A j \in 0 .. Len(calls') : j \in 0 .. Len(calls)
    BY <1>0, <2>1
  <2>3. QED BY <1>0, <1>2, <2>1, <2>2
<1>7. QED BY <1>4, <1>5, <1>6

LEMMA Halted ==
  ASSUME AllBalanced, VmInv, FrameInv, Running, Passes, In.op = "HALT"
  PROVE  sp = 0 /\ fp = 0 /\ calls = <<>>
<1>1. /\ image \in Images /\ Len(calls) \in Nat /\ sp \in Nat /\ fp \in Nat
  BY Counts
<1>2. /\ pc \in DOMAIN plan
      /\ Len(calls) = 0 => sp - fp = plan[pc].height
      /\ Len(calls) > 0 => plan[pc].entry # 0
  BY Current
<1>3. plan[pc].entry = 0 /\ plan[pc].height = 0
  <2>1. plan[pc] = EntryPoint(0)
    BY <1>1, <1>2, PlanFacts DEF In
  <2>2. QED BY ONLY <2>1 DEF EntryPoint
<1>4. Len(calls) = 0 /\ sp = fp
  BY ONLY <1>1, <1>2, <1>3
<1>5. fp = 0
  BY <1>4 DEF FrameInv, Base
<1>6. calls = <<>>
  <2>1. PICK a \in Nat, m \in Nat, f \in Nat : Typed(a, m, f)
    BY DEF VmInv
  <2>2. calls \in Seq(FrameOf(f))
    BY <2>1 DEF Typed
  <2>3. QED BY <1>4, <2>2, EmptySeq
<1>7. QED BY <1>4, <1>5, <1>6

LEMMA FramesKept == ASSUME AllBalanced, VmInv, FrameInv, Step PROVE FrameInv' /\ Isolated
<1>1. Isolated /\ ((Running /\ Passes /\ Stays) \/ Called \/ Returned \/ Ended)
  BY StepKinds
<1>2. Running /\ plan' = plan /\ Len(calls) \in 0 .. Len(calls)
  BY <1>1, Counts DEF plan, code, Stays, Called, Returned, Ended
<1>3. (\A k \in 1 .. Len(fns) : IsEntry(fns[k].pc))'
  <2>1. Placed(Len(calls)) /\ At(Len(calls)) = pc
    BY <1>2, Counts DEF FrameInv, Running, At
  <2>2. pc \in DOMAIN plan
    BY <2>1 DEF Placed
  <2>3. \A k \in 1 .. Len(fns') : IsEntry(fns'[k].pc)
    BY <1>2, <2>2, EntriesStay
  <2>4. QED BY <1>2, <2>3 DEF IsEntry
<1>4. CASE (Running /\ Passes /\ Stays) \/ Called \/ Returned
  <2>1. Base(0)' = 0 /\ \A j \in 0 .. Len(calls') : Placed(j)'
    BY <1>4, EachPlaced
  <2>2. status' # "halted"
    BY <1>2, <1>4 DEF Stays, Called, Returned, Running
  <2>3. QED BY <1>1, <1>3, <2>1, <2>2 DEF FrameInv, CleanHalt
<1>5. CASE Ended
  <2>1. Base(0)' = 0
    BY <1>5 DEF Ended, Base, FrameInv
  <2>2. CleanHalt'
    BY <1>5, Halted DEF Ended, CleanHalt
  <2>3. status' # "running"
    BY <1>5 DEF Ended
  <2>4. QED BY <1>1, <1>3, <2>1, <2>2, <2>3 DEF FrameInv
<1>6. QED BY <1>1, <1>4, <1>5

LEMMA FramesBegin == ASSUME AllBalanced, Load PROVE FrameInv
<1>1. /\ image \in Images /\ calls = <<>> /\ fp = 0 /\ sp = 0 /\ pc = 0 /\ fns = <<>> /\ status = "running"
  BY DEF Load
<1>2. Balanced(code)
  BY <1>1 DEF AllBalanced, code
<1>3. 0 \in DOMAIN plan /\ plan[0] = EntryPoint(0)
  BY <1>2 DEF Balanced, plan
<1>4. Len(calls) = 0 /\ Len(fns) = 0
  BY <1>1
<1>5. Base(0) = 0 /\ At(0) = 0 /\ Height(0) = 0
  BY <1>1, <1>4 DEF Base, At, Height, Roof
<1>6. Placed(0)
  BY <1>3, <1>5 DEF Placed, EntryPoint
<1>7. \A j \in 0 .. Len(calls) : Placed(j)
  BY <1>4, <1>6
<1>8. QED BY <1>1, <1>4, <1>5, <1>7 DEF FrameInv, CleanHalt

LEMMA FramesStutter == ASSUME FrameInv, UNCHANGED vars PROVE FrameInv'
<1>1. plan' = plan
  BY DEF vars, mvars, plan, code
<1>2. \A k : IsEntry(k)' = IsEntry(k)
  BY <1>1 DEF IsEntry
<1>3. \A j : Base(j)' = Base(j) /\ At(j)' = At(j)
  BY DEF vars, mvars, regs, Base, At
<1>4. \A j : Height(j)' = Height(j)
  BY <1>3 DEF vars, mvars, regs, Height, Roof
<1>5. \A j : Placed(j)' = Placed(j)
  BY <1>1, <1>3, <1>4 DEF Placed
<1>6. CleanHalt' = CleanHalt
  BY DEF vars, mvars, regs, CleanHalt
<1>7. fns' = fns /\ calls' = calls /\ status' = status
  BY DEF vars, mvars, regs, heap
<1>8. QED BY <1>2, <1>3, <1>5, <1>6, <1>7 DEF FrameInv

(* When every executable is balanced, the machine has nothing on either    *)
(* stack when a program is done: what HALT finds is what the program       *)
(* began with, after every path through it.                                *)
THEOREM BalancedHalts == ASSUME AllBalanced PROVE Spec => []CleanHalt
<1>1. Init => VmInv /\ FrameInv
  BY LoadTyped, FramesBegin DEF Init
<1>2. VmInv /\ FrameInv /\ [Next]_vars => (VmInv /\ FrameInv)'
  BY StepTyped, StutterTyped, FramesKept, FramesStutter DEF Next
<1>3. FrameInv => CleanHalt
  BY DEF FrameInv
<1>4. QED BY <1>1, <1>2, <1>3, PTL DEF Spec

(* When every executable is balanced, no instruction writes below its own  *)
(* frame: what a caller has on the stack is as it was when the call        *)
(* returns, however deep the calls went.                                   *)
THEOREM BalancedIsolates == ASSUME AllBalanced PROVE Spec => FrameIsolation
<1>1. Init => VmInv /\ FrameInv
  BY LoadTyped, FramesBegin DEF Init
<1>2. VmInv /\ FrameInv /\ [Next]_vars => (VmInv /\ FrameInv)'
  BY StepTyped, StutterTyped, FramesKept, FramesStutter DEF Next
<1>3. VmInv /\ FrameInv /\ [Next]_vars => [\A i \in DOMAIN stack : i < fp => stack'[i] = stack[i]]_vars
  BY FramesKept DEF Next, Isolated
<1>4. QED BY <1>1, <1>2, <1>3, PTL DEF Spec, FrameIsolation

-------------------------------------------------------------------------------
(* Heights.  The heights that are noted differ within a function exactly   *)
(* as the plan says, and each frame that has made a call is as high as its *)
(* function's note and the plan say.                                       *)
Sound(h) ==
  \A q \in DOMAIN h :
    /\ q \in DOMAIN plan /\ h[q] \in Int /\ plan[q].entry \in DOMAIN h
    /\ h[q] = h[plan[q].entry] + plan[q].height

Fits(h, a, height) ==
  plan[a].entry \in DOMAIN h /\ height = h[plan[a].entry] + plan[a].height

Begun(j) == j = Len(calls) /\ plan[pc].entry = pc

HeightsInv ==
  /\ Sound(heights)
  /\ status = "running" => \A j \in 0 .. Len(calls) : Fits(heights, At(j), Height(j)) \/ Begun(j)

(* Where a function begins, its frame has the height it had when the       *)
(* function was first called: every call passes as many arguments.         *)
CallsAgree == Running /\ pc \in DOMAIN heights /\ plan[pc].entry = pc => heights[pc] = sp - fp

LEMMA Noted ==
  ASSUME AllBalanced, VmInv, FrameInv, HeightsInv, CallsAgree, Next
  PROVE  /\ Sound(heights') /\ Fits(heights', pc, sp - fp)
         /\ \A e \in DOMAIN heights : e \in DOMAIN heights' /\ heights'[e] = heights[e]
         /\ heights'[pc] = sp - fp /\ (pc \in DOMAIN heights => heights[pc] = sp - fp)
<1>0. Running
  BY StepKinds DEF Next, Called, Returned, Ended
<1>1. /\ image \in Images /\ Len(calls) \in Nat /\ sp - fp \in Int
  BY Counts
<1>2. Len(calls) \in 0 .. Len(calls) /\ At(Len(calls)) = pc /\ Height(Len(calls)) = sp - fp
  BY <1>1 DEF At, Height, Roof, Base
<1>3. Placed(Len(calls)) /\ (Fits(heights, pc, sp - fp) \/ plan[pc].entry = pc)
  BY <1>0, <1>2 DEF FrameInv, HeightsInv, Begun, Running
<1>4. /\ pc \in DOMAIN plan /\ plan[pc].height \in Nat
      /\ plan[pc].entry \in DOMAIN plan /\ plan[plan[pc].entry] = EntryPoint(plan[pc].entry)
  <2>1. pc \in DOMAIN plan
    BY <1>2, <1>3 DEF Placed
  <2>2. QED BY <1>1, <2>1, PlanFacts
<1>5. plan[pc].entry = pc => plan[pc].height = 0
  BY <1>4 DEF EntryPoint
<1>6. PICK h, g, p, d, e : /\ h = heights /\ g = heights' /\ p = plan /\ d = sp - fp /\ e = plan[pc].entry
  OBVIOUS
<1>7. \A q \in DOMAIN h : q \in DOMAIN p /\ h[q] \in Int /\ p[q].entry \in DOMAIN h /\ h[q] = h[p[q].entry] + p[q].height
  BY <1>6 DEF HeightsInv, Sound
<1>8. (e \in DOMAIN h /\ d = h[e] + p[pc].height) \/ e = pc
  BY <1>3, <1>6 DEF Fits
<1>9. pc \in DOMAIN h => h[pc] = d
  <2> HAVE pc \in DOMAIN h
  <2>1. CASE e = pc
    BY <1>0, <1>6, <2>1 DEF CallsAgree
  <2>2. CASE e # pc
    BY <1>6, <1>7, <1>8, <2>2
  <2>3. QED BY <2>1, <2>2
<1>10. g = [q \in DOMAIN h \cup {pc} |-> IF q \in DOMAIN h THEN h[q] ELSE d]
  BY <1>6 DEF Next
<1>11. /\ DOMAIN g = DOMAIN h \cup {pc} /\ g[pc] = d
       /\ \A q \in DOMAIN h : g[q] = h[q]
  BY ONLY <1>9, <1>10
<1>12. e \in DOMAIN g /\ d = g[e] + p[pc].height
  <2>1. CASE e = pc
    <3>1. p[pc].height = 0 /\ d \in Int
      BY <1>1, <1>5, <1>6, <2>1
    <3>2. QED BY ONLY <1>11, <2>1, <3>1
  <2>2. CASE e # pc
    BY ONLY <1>8, <1>11, <2>2
  <2>3. QED BY <2>1, <2>2
<1>13. ASSUME NEW q \in DOMAIN g
       PROVE  q \in DOMAIN p /\ g[q] \in Int /\ p[q].entry \in DOMAIN g /\ g[q] = g[p[q].entry] + p[q].height
  <2>1. CASE q = pc
    BY <1>1, <1>4, <1>6, <1>11, <1>12, <2>1
  <2>2. CASE q # pc
    <3>1. q \in DOMAIN h
      BY ONLY <1>11, <1>13, <2>2
    <3>2. QED BY ONLY <1>7, <1>11, <3>1
  <2>3. QED BY <2>1, <2>2
<1>14. Sound(heights') /\ Fits(heights', pc, sp - fp)
  BY <1>6, <1>12, <1>13 DEF Sound, Fits
<1>15. QED BY ONLY <1>6, <1>9, <1>11, <1>14

LEMMA HeightsKept ==
  ASSUME AllBalanced, VmInv, FrameInv, HeightsInv, CallsAgree, Next
  PROVE  HeightsInv'
<1>1. (Running /\ Passes /\ Stays) \/ Called \/ Returned \/ Ended
  BY StepKinds DEF Next
<1>2. /\ plan' = plan /\ Len(calls) \in Nat /\ sp \in Nat /\ fp \in Nat /\ image \in Images /\ status = "running"
  BY <1>1, Counts DEF plan, code, Stays, Called, Returned, Ended, Running
<1>3. /\ Sound(heights') /\ Fits(heights', pc, sp - fp)
      /\ \A e \in DOMAIN heights : e \in DOMAIN heights' /\ heights'[e] = heights[e]
  BY Noted
<1>4. Sound(heights)'
  BY <1>2, <1>3 DEF Sound
<1>5. \A j \in 0 .. Len(calls) - 1 : Fits(heights', At(j), Height(j))
  <2> TAKE j \in 0 .. Len(calls) - 1
  <2>1. Fits(heights, At(j), Height(j))
    BY <1>2 DEF HeightsInv, Begun
  <2>2. QED BY <1>3, <2>1 DEF Fits
<1>6. ASSUME NEW j \in 0 .. Len(calls) - 1, At(j)' = At(j), Height(j)' = Height(j)
      PROVE  Fits(heights, At(j), Height(j))'
  BY <1>2, <1>5, <1>6 DEF Fits
<1>7. ASSUME Running, Passes, NEW b \in Successors(pc, In), NEW j, At(j)' = b,
             Height(j)' = (sp - fp) - Pops(In) + Pushes(In)
      PROVE  Fits(heights, At(j), Height(j))'
  <2>1. pc \in DOMAIN plan /\ plan[pc].height \in Nat /\ Pops(In) \in Int /\ Pushes(In) \in Int
    BY <1>7, Current
  <2>2. plan[b].entry = plan[pc].entry /\ plan[b].height = plan[pc].height - Pops(In) + Pushes(In)
    BY <1>2, <1>7, <2>1, PlanFacts DEF In
  <2>3. PICK e : e = plan[pc].entry
    OBVIOUS
  <2>4. e \in DOMAIN heights' /\ sp - fp = heights'[e] + plan[pc].height /\ heights'[e] \in Int
    <3>1. e \in DOMAIN heights' /\ sp - fp = heights'[e] + plan[pc].height
      BY <1>3, <2>3 DEF Fits
    <3>2. QED BY <1>3, <3>1 DEF Sound
  <2>5. Height(j)' = heights'[e] + plan[b].height
    BY ONLY <1>2, <1>7, <2>1, <2>2, <2>4
  <2>6. QED BY <1>2, <1>7, <2>2, <2>3, <2>4, <2>5 DEF Fits
<1>8. CASE Running /\ Passes /\ Stays
  <2>1. /\ Len(calls') = Len(calls)
        /\ \A j \in 0 .. Len(calls) - 1 : At(j)' = At(j) /\ Height(j)' = Height(j)
        /\ \A j \in 0 .. Len(calls') : j = Len(calls) => At(j)' = pc' /\ Height(j)' = sp' - fp
    BY <1>8, FramesStay DEF Stays
  <2>2. pc' \in Successors(pc, In) /\ sp' = sp - Pops(In) + Pushes(In)
    BY <1>8 DEF Stays
  <2>3. sp' - fp = (sp - fp) - Pops(In) + Pushes(In)
    <3>1. Pops(In) \in Int /\ Pushes(In) \in Int
      BY <1>8, Current
    <3>2. QED BY ONLY <1>2, <2>2, <3>1
  <2>4. ASSUME NEW j \in 0 .. Len(calls'), j = Len(calls) PROVE Fits(heights, At(j), Height(j))'
    BY <1>7, <1>8, <2>1, <2>2, <2>3, <2>4
  <2>5. ASSUME NEW j \in 0 .. Len(calls'), j # Len(calls) PROVE Fits(heights, At(j), Height(j))'
    <3>1. j \in 0 .. Len(calls) - 1
      BY <1>2, <2>1, <2>5
    <3>2. QED BY <1>6, <2>1, <3>1
  <2>6. QED BY <1>4, <2>4, <2>5 DEF HeightsInv
<1>9. CASE Called
  <2>1. /\ Len(calls') = Len(calls) + 1
        /\ \A j \in 0 .. Len(calls) - 1 : At(j)' = At(j) /\ Height(j)' = Height(j)
        /\ \A j \in 0 .. Len(calls') :
             /\ j = Len(calls) => At(j)' = pc + 1 /\ Height(j)' = (fp' + 1) - fp
             /\ j = Len(calls) + 1 => At(j)' = pc' /\ Height(j)' = sp' - fp'
    BY <1>9, FrameAdded DEF Called
  <2>2. /\ Running /\ Passes /\ pc + 1 \in Successors(pc, In) /\ IsEntry(pc') /\ Pushes(In) = 1
        /\ fp' = sp - Pops(In)
    BY <1>9 DEF Called
  <2>3. (fp' + 1) - fp = (sp - fp) - Pops(In) + Pushes(In)
    <3>1. Pops(In) \in Int
      BY <2>2, Current
    <3>2. QED BY ONLY <1>2, <2>2, <3>1
  <2>4. ASSUME NEW j \in 0 .. Len(calls'), j = Len(calls) PROVE Fits(heights, At(j), Height(j))'
    BY <1>7, <2>1, <2>2, <2>3, <2>4
  <2>5. ASSUME NEW j \in 0 .. Len(calls'), j = Len(calls) + 1 PROVE Begun(j)'
    <3>1. plan[pc'].entry = pc'
      BY <2>2 DEF IsEntry, EntryPoint
    <3>2. QED BY <1>2, <2>1, <2>5, <3>1 DEF Begun
  <2>6. ASSUME NEW j \in 0 .. Len(calls'), j # Len(calls), j # Len(calls) + 1
        PROVE  Fits(heights, At(j), Height(j))'
    <3>1. j \in 0 .. Len(calls) - 1
      BY <1>2, <2>1, <2>6
    <3>2. QED BY <1>6, <2>1, <3>1
  <2>7. QED BY <1>4, <2>4, <2>5, <2>6 DEF HeightsInv
<1>10. CASE Returned
  <2>1. /\ Len(calls') = Len(calls) - 1
        /\ \A j \in 0 .. Len(calls') : At(j)' = At(j) /\ Height(j)' = Height(j)
    BY <1>10, FrameRemoved DEF Returned
  <2>2. \A j \in 0 .. Len(calls') : Fits(heights, At(j), Height(j))'
    BY <1>6, <2>1
  <2>3. QED BY <1>4, <2>2 DEF HeightsInv
<1>11. CASE Ended
  BY <1>4, <1>11 DEF HeightsInv, Ended
<1>12. QED BY <1>1, <1>8, <1>9, <1>10, <1>11

LEMMA HeightsBegin == ASSUME AllBalanced, Init PROVE HeightsInv
<1>1. image \in Images /\ calls = <<>> /\ pc = 0 /\ heights = <<>>
  BY DEF Init, Load
<1>2. plan[0] = EntryPoint(0)
  BY <1>1 DEF AllBalanced, Balanced, code, plan
<1>3. Len(calls) = 0 /\ DOMAIN heights = {}
  BY <1>1
<1>4. \A j \in 0 .. Len(calls) : Begun(j)
  BY <1>1, <1>2, <1>3 DEF Begun, EntryPoint
<1>5. QED BY <1>3, <1>4 DEF HeightsInv, Sound

LEMMA HeightsStutter == ASSUME HeightsInv, UNCHANGED vars PROVE HeightsInv'
<1>1. plan' = plan /\ heights' = heights
  BY DEF vars, mvars, plan, code
<1>2. \A j : At(j)' = At(j) /\ Height(j)' = Height(j) /\ Begun(j)' = Begun(j)
  BY <1>1 DEF vars, mvars, regs, At, Height, Roof, Base, Begun
<1>3. \A j : Fits(heights, At(j), Height(j))' = Fits(heights, At(j), Height(j))
  BY <1>1, <1>2 DEF Fits
<1>4. Sound(heights)' = Sound(heights)
  BY <1>1 DEF Sound
<1>5. calls' = calls /\ status' = status
  BY DEF vars, mvars, regs
<1>6. QED BY <1>2, <1>3, <1>4, <1>5 DEF HeightsInv

(* When every executable is balanced and all calls of a function find the  *)
(* frame as high as its first call did, control comes to every instruction *)
(* of every function with one height of the frame.                         *)
THEOREM BalancedHeights == ASSUME AllBalanced PROVE Spec /\ []CallsAgree => []HeightFixed
<1>1. Init => VmInv /\ FrameInv /\ HeightsInv
  BY LoadTyped, FramesBegin, HeightsBegin DEF Init
<1>2. VmInv /\ FrameInv /\ HeightsInv /\ CallsAgree /\ [Next]_vars => (VmInv /\ FrameInv /\ HeightsInv)'
  <2>1. VmInv /\ FrameInv /\ [Next]_vars => (VmInv /\ FrameInv)'
    BY StepTyped, StutterTyped, FramesKept, FramesStutter DEF Next
  <2>2. VmInv /\ FrameInv /\ HeightsInv /\ CallsAgree /\ [Next]_vars => HeightsInv'
    BY HeightsKept, HeightsStutter
  <2>3. QED BY <2>1, <2>2
<1>3. VmInv /\ FrameInv /\ HeightsInv /\ CallsAgree => HeightFixed
  <2> SUFFICES ASSUME VmInv, FrameInv, HeightsInv, CallsAgree, Running, pc \in DOMAIN heights
               PROVE  heights[pc] = sp - fp
    BY DEF HeightFixed
  <2>1. Len(calls) \in 0 .. Len(calls) /\ At(Len(calls)) = pc /\ Height(Len(calls)) = sp - fp
    BY Counts DEF At, Height, Roof, Base
  <2>2. Fits(heights, pc, sp - fp) \/ plan[pc].entry = pc
    BY <2>1 DEF HeightsInv, Begun, Running
  <2>3. CASE plan[pc].entry = pc
    BY <2>3 DEF CallsAgree
  <2>4. CASE Fits(heights, pc, sp - fp)
    BY <2>4 DEF Fits, HeightsInv, Sound
  <2>5. QED BY <2>2, <2>3, <2>4
<1>4. QED BY <1>1, <1>2, <1>3, PTL DEF Spec
================================================================================
