------------------------------ MODULE ScopesProofs -----------------------------
(***************************************************************************)
(* No two live variables share a place, every frame is large enough, and   *)
(* every capture is of the variable that is meant, for every nesting of    *)
(* blocks and functions.                                                   *)
(*                                                                         *)
(* The invariant says what the two stacks of scope starts remember: a      *)
(* scope knows how many variables there were when it opened, none of them  *)
(* of a deeper function, and an offset above all those of its own frame.   *)
(* Captures are true because what a name means outside a function does not *)
(* change while the function is open (Newer): an upvalue list that leads   *)
(* to the variable that is meant goes on doing so.                         *)
(***************************************************************************)
EXTENDS Scopes, SequenceFacts

n == Len(within)

Tables ==
  /\ st \in [items : Seq(Item), starts : Seq(Nat), locals : Seq(Nat), nextg : Nat,
             depth : 0 .. MaxDepth, next : [Depths -> Nat], peak : [Depths -> Nat]]
  /\ within \in Seq(0 .. MaxDepth)
  /\ n > 0 /\ n = Len(st.starts) /\ n = Len(st.locals)
  /\ within[n] = st.depth

(* Scopes nest, and a scope opens a function at most.                      *)
Nested ==
  /\ \A k \in 1 .. n : st.starts[k] <= Len(st.items)
  /\ \A j, k \in 1 .. n : j <= k => st.starts[j] <= st.starts[k] /\ within[j] <= within[k]
  /\ \A j, k \in 1 .. n : k = j + 1 => within[k] <= within[j] + 1

(* What was declared before a scope opened is of the functions around it.  *)
Older ==
  /\ \A i \in 1 .. Len(st.items) : st.items[i].depth <= st.depth
  /\ \A j, k \in 1 .. n : k = j + 1 =>
       \A i \in 1 .. st.starts[k] : st.items[i].depth <= within[j]

(* The offset a scope began at is above those of its frame's variables     *)
(* that were there, and not above the peak of the frame.                   *)
Offsets ==
  \A k \in 1 .. n : within[k] > 0 =>
    /\ st.locals[k] <= st.peak[within[k]]
    /\ \A i \in 1 .. st.starts[k] :
         st.items[i].depth = within[k] => st.items[i].slot < st.locals[k]

Below ==
  /\ \A i \in 1 .. Len(st.items) :
       IF st.items[i].depth = 0
       THEN st.items[i].slot < st.nextg
       ELSE st.items[i].slot < st.next[st.items[i].depth]
  /\ \A d \in 1 .. st.depth : st.next[d] <= st.peak[d]

Distinct ==
  \A i, j \in 1 .. Len(st.items) :
    i < j /\ st.items[i].depth = st.items[j].depth => st.items[i].slot < st.items[j].slot

ScopesInv == Tables /\ Nested /\ Older /\ Offsets /\ Below /\ Distinct
-------------------------------------------------------------------------------
(* What the fields of the table are after a step.                          *)

Opened(v) ==
  /\ st'.items = st.items /\ st'.nextg = st.nextg
  /\ st'.starts = Append(st.starts, Len(st.items))
  /\ st'.locals = Append(st.locals, v)
  /\ within' = Append(within, st'.depth)
  /\ st'.depth \in 0 .. MaxDepth /\ st'.depth \in {st.depth, st.depth + 1}
  /\ st'.next \in [Depths -> Nat] /\ st'.peak \in [Depths -> Nat]
  /\ \A d \in 1 .. st.depth : st'.next[d] = st.next[d] /\ st'.peak[d] = st.peak[d]
  /\ st'.depth = st.depth /\ st.depth > 0 => v = st.next[st.depth]
  /\ st'.depth = st.depth + 1 =>
       /\ v = 0
       /\ st'.next[st'.depth] = 0 /\ st'.peak[st'.depth] = 0

Closed ==
  /\ n > 1
  /\ st'.items = SubSeq(st.items, 1, st.starts[n]) /\ st'.nextg = st.nextg
  /\ st'.starts = SubSeq(st.starts, 1, n - 1)
  /\ st'.locals = SubSeq(st.locals, 1, n - 1)
  /\ within' = SubSeq(within, 1, n - 1)
  /\ st'.depth = within[n - 1]
  /\ st'.next \in [Depths -> Nat] /\ st'.peak = st.peak
  /\ \A d \in 1 .. within[n - 1] :
       \/ st'.next[d] = st.next[d] /\ d < within[n]
       \/ st'.next[d] = st.locals[n] /\ d = within[n]

Declared(x) ==
  LET d == st.depth
      slot == IF d = 0 THEN st.nextg ELSE st.next[d]
  IN  /\ st'.items = Append(st.items, [name |-> x, slot |-> slot, depth |-> d, boxed |-> FALSE])
      /\ st'.starts = st.starts /\ st'.locals = st.locals /\ st'.depth = st.depth
      /\ within' = within
      /\ st'.nextg = IF d = 0 THEN slot + 1 ELSE st.nextg
      /\ st'.next \in [Depths -> Nat] /\ st'.peak \in [Depths -> Nat]
      /\ \A e \in 1 .. d : e # d => st'.next[e] = st.next[e] /\ st'.peak[e] = st.peak[e]
      /\ d > 0 => /\ st'.next[d] = slot + 1
                  /\ st'.peak[d] >= st.peak[d] /\ st'.peak[d] >= slot + 1

Table == [items : Seq(Item), starts : Seq(Nat), locals : Seq(Nat), nextg : Nat,
          depth : 0 .. MaxDepth, next : [Depths -> Nat], peak : [Depths -> Nat]]

LEMMA Typing ==
  ASSUME ScopesInv
  PROVE  /\ st.items \in Seq(Item) /\ Len(st.items) \in Nat
         /\ st.depth \in Nat /\ st.depth \in 0 .. MaxDepth
         /\ n \in Nat /\ n > 0 /\ within[n] = st.depth
         /\ st.starts \in Seq(Nat) /\ Len(st.starts) = n
         /\ st.locals \in Seq(Nat) /\ Len(st.locals) = n
         /\ within \in Seq(0 .. MaxDepth) /\ Len(within) = n
         /\ \A k \in 1 .. n : st.starts[k] \in Nat
         /\ \A k \in 1 .. n : st.locals[k] \in Nat
         /\ \A k \in 1 .. n : within[k] \in Nat
         /\ \A i \in 1 .. Len(st.items) : st.items[i].depth \in Nat
         /\ \A i \in 1 .. Len(st.items) : st.items[i].slot \in Nat
<1>1. /\ st.items \in Seq(Item)
      /\ st.depth \in 0 .. MaxDepth
      /\ n > 0 /\ within[n] = st.depth
      /\ st.starts \in Seq(Nat) /\ Len(st.starts) = n
      /\ st.locals \in Seq(Nat) /\ Len(st.locals) = n
      /\ within \in Seq(0 .. MaxDepth) /\ Len(within) = n
  BY DEF ScopesInv, Tables, n
<1>2. Len(st.items) \in Nat /\ n \in Nat /\ st.depth \in Nat
  BY <1>1, LenProperties, DepthAssumption
<1>3. \A k \in 1 .. n : st.starts[k] \in Nat
  BY ONLY <1>1, ElementOfSeq
<1>4. \A k \in 1 .. n : st.locals[k] \in Nat
  BY ONLY <1>1, ElementOfSeq
<1>5. \A k \in 1 .. n : within[k] \in 0 .. MaxDepth
  BY ONLY <1>1, ElementOfSeq
<1>6. \A i \in 1 .. Len(st.items) : st.items[i] \in Item
  BY ONLY <1>1, ElementOfSeq
<1>7. \A i \in 1 .. Len(st.items) : st.items[i].depth \in Nat /\ st.items[i].slot \in Nat
  BY <1>6, DepthAssumption DEF Item
<1>8. \A k \in 1 .. n : within[k] \in Nat
  BY <1>5, DepthAssumption
<1>9. QED BY <1>1, <1>2, <1>3, <1>4, <1>7, <1>8

LEMMA OpenedInv ==
  ASSUME ScopesInv, NEW v \in Nat, Opened(v), st' \in Table
  PROVE  ScopesInv'
<1> DEFINE m == Len(st.items)
           d == st.depth
           e == st'.depth
<1>1. /\ m \in Nat /\ d \in Nat /\ n \in Nat /\ n > 0 /\ within[n] = d
      /\ \A k \in 1 .. n : st.starts[k] \in Nat
      /\ \A k \in 1 .. n : st.locals[k] \in Nat
      /\ \A k \in 1 .. n : within[k] \in Nat
      /\ \A i \in 1 .. m : st.items[i].depth \in Nat
      /\ \A i \in 1 .. m : st.items[i].slot \in Nat
  BY Typing
<1>2. /\ Len(st'.starts) = n + 1 /\ st'.starts[n + 1] = m
      /\ \A k \in 1 .. n : st'.starts[k] = st.starts[k]
  <2>1. st.starts \in Seq(Nat) /\ m \in Nat /\ Len(st.starts) = n
    BY Typing
  <2>2. st'.starts = Append(st.starts, m)
    BY DEF Opened
  <2>3. QED BY ONLY <2>1, <2>2, AppendFacts
<1>3. /\ Len(st'.locals) = n + 1 /\ st'.locals[n + 1] = v
      /\ \A k \in 1 .. n : st'.locals[k] = st.locals[k]
  <2>1. st.locals \in Seq(Nat) /\ v \in Nat /\ Len(st.locals) = n
    BY Typing
  <2>2. st'.locals = Append(st.locals, v)
    BY DEF Opened
  <2>3. QED BY ONLY <2>1, <2>2, AppendFacts
<1>4. /\ within' \in Seq(0 .. MaxDepth)
      /\ Len(within') = n + 1 /\ within'[n + 1] = e
      /\ \A k \in 1 .. n : within'[k] = within[k]
  <2>1. within \in Seq(0 .. MaxDepth) /\ e \in 0 .. MaxDepth /\ Len(within) = n
    BY Typing DEF Opened
  <2>2. within' = Append(within, e)
    BY DEF Opened
  <2>3. QED BY ONLY <2>1, <2>2, AppendFacts
<1>5. n' = n + 1
  BY <1>4 DEF n
<1>6. e \in {d, d + 1} /\ e \in Nat /\ st'.items = st.items /\ st'.nextg = st.nextg
  BY <1>1 DEF Opened
<1> HIDE DEF m, d, e
<1>7. Tables'
  BY <1>1, <1>2, <1>3, <1>4, <1>5 DEF Tables, Table, e
<1>8. \A k \in 1 .. n : st.starts[k] <= m /\ within[k] <= d
  BY <1>1 DEF ScopesInv, Nested, m
<1>9. \A k \in 1 .. n + 1 : k \in 1 .. n \/ k = n + 1
  BY <1>1
<1>17. Nested'
  <2>1. \A k \in 1 .. n + 1 : st'.starts[k] <= Len(st'.items)
    BY <1>2, <1>6, <1>8, <1>9, <1>1 DEF m
  <2>2. ASSUME NEW j \in 1 .. n + 1, NEW k \in 1 .. n + 1, j <= k
        PROVE  st'.starts[j] <= st'.starts[k] /\ within'[j] <= within'[k]
    <3>1. CASE k \in 1 .. n
      <4>1. j \in 1 .. n
        BY <1>1, <2>2, <3>1
      <4>2. st.starts[j] <= st.starts[k] /\ within[j] <= within[k]
        BY <2>2, <3>1, <4>1 DEF ScopesInv, Nested
      <4>3. QED BY <1>2, <1>4, <3>1, <4>1, <4>2
    <3>2. CASE k = n + 1
      <4>1. CASE j \in 1 .. n
        <5>1. st.starts[j] <= m /\ within[j] <= e
          BY <1>1, <1>6, <1>8, <4>1
        <5>2. QED BY <1>2, <1>4, <3>2, <4>1, <5>1
      <4>2. CASE j = n + 1
        BY <1>1, <1>2, <1>4, <1>6, <3>2, <4>2
      <4>3. QED BY <1>9, <4>1, <4>2
    <3>3. QED BY <1>9, <3>1, <3>2
  <2>3. ASSUME NEW j \in 1 .. n + 1, NEW k \in 1 .. n + 1, k = j + 1
        PROVE  within'[k] <= within'[j] + 1
    <3>1. CASE k \in 1 .. n
      <4>1. j \in 1 .. n
        BY <1>1, <2>3, <3>1
      <4>2. within[k] <= within[j] + 1
        BY <2>3, <3>1, <4>1 DEF ScopesInv, Nested
      <4>3. QED BY <1>4, <3>1, <4>1, <4>2
    <3>2. CASE k = n + 1
      BY <1>1, <1>4, <1>6, <2>3, <3>2
    <3>3. QED BY <1>9, <3>1, <3>2
  <2>4. QED BY <1>5, <2>1, <2>2, <2>3 DEF Nested
<1>10. \A i \in 1 .. m : st.items[i].depth <= d
  BY DEF ScopesInv, Older, m, d
<1>11. Older'
  <2>1. \A i \in 1 .. Len(st'.items) : st'.items[i].depth <= e
    BY <1>1, <1>6, <1>10 DEF m
  <2>2. ASSUME NEW j \in 1 .. n + 1, NEW k \in 1 .. n + 1, k = j + 1,
               NEW i \in 1 .. st'.starts[k]
        PROVE  st'.items[i].depth <= within'[j]
    <3>1. CASE k \in 1 .. n
      <4>1. n \in Nat /\ st'.starts[k] = st.starts[k]
        BY ONLY <1>1, <1>2, <3>1
      <4>2. i \in 1 .. st.starts[k]
        BY ONLY <4>1, i \in 1 .. st'.starts[k]
      <4>3. j \in 1 .. n
        BY ONLY <4>1, <2>2, <3>1, j \in 1 .. n + 1
      <4>4. st.items[i].depth <= within[j]
        BY <2>2, <3>1, <4>2, <4>3 DEF ScopesInv, Older
      <4>5. QED BY <1>4, <1>6, <4>3, <4>4
    <3>2. CASE k = n + 1
      <4>1. j = n /\ i \in 1 .. m
        BY <1>1, <1>2, <2>2, <3>2
      <4>2. within'[j] = d
        BY <1>1, <1>4, <4>1
      <4>3. QED BY <1>6, <1>10, <4>1, <4>2
    <3>3. QED BY <1>9, <3>1, <3>2
  <2>3. QED BY <1>5, <2>1, <2>2 DEF Older, e
<1>12. /\ \A c \in 1 .. d : st'.next[c] = st.next[c] /\ st'.peak[c] = st.peak[c]
       /\ e = d /\ d > 0 => v = st.next[d]
       /\ e = d + 1 => v = 0 /\ st'.next[e] = 0 /\ st'.peak[e] = 0
  BY DEF Opened, d, e
<1>13. Offsets'
  <2>1. \A k \in 1 .. n : within[k] > 0 => st'.locals[k] <= st'.peak[within[k]]
    <3> TAKE k \in 1 .. n
    <3> HAVE within[k] > 0
    <3>1. within[k] \in 1 .. d
      BY <1>1, <1>8
    <3>2. st.locals[k] <= st.peak[within[k]]
      BY DEF ScopesInv, Offsets
    <3>3. QED BY <1>3, <1>12, <3>1, <3>2
  <2>2. e > 0 => v <= st'.peak[e]
    BY <1>1, <1>6, <1>12 DEF ScopesInv, Below, d
  <2>3. e > 0 => \A i \in 1 .. m : st.items[i].depth = e => st.items[i].slot < v
    BY <1>1, <1>6, <1>10, <1>12 DEF ScopesInv, Below, m
  <2>4. \A k \in 1 .. n : within[k] > 0 => \A i \in 1 .. st.starts[k] :
          st.items[i].depth = within[k] => st.items[i].slot < st.locals[k]
    BY DEF ScopesInv, Offsets
  <2>5. QED BY <1>2, <1>3, <1>4, <1>5, <1>6, <1>9, <2>1, <2>2, <2>3, <2>4 DEF Offsets
<1>14. Below'
  <2>1. \A c \in 1 .. e : st'.next[c] <= st'.peak[c]
    BY <1>1, <1>6, <1>12 DEF ScopesInv, Below, d
  <2>2. \A i \in 1 .. m : st.items[i].depth > 0 =>
          st'.next[st.items[i].depth] = st.next[st.items[i].depth]
    BY <1>1, <1>10, <1>12
  <2>3. \A i \in 1 .. m : IF st.items[i].depth = 0
          THEN st.items[i].slot < st'.nextg
          ELSE st.items[i].slot < st'.next[st.items[i].depth]
    BY <1>1, <1>6, <2>2 DEF ScopesInv, Below, m
  <2>4. QED BY <1>6, <2>1, <2>3 DEF Below, m, e
<1>15. Distinct'
  BY <1>6 DEF ScopesInv, Distinct
<1>16. QED BY <1>7, <1>17, <1>11, <1>13, <1>14, <1>15 DEF ScopesInv

LEMMA ClosedInv ==
  ASSUME ScopesInv, Closed, st' \in Table
  PROVE  ScopesInv'
<1> DEFINE m == Len(st.items)
           c == n - 1
           a == st.starts[n]
           d == within[c]
<1>1. /\ m \in Nat /\ n \in Nat /\ n > 1 /\ c \in Nat /\ c > 0 /\ n = c + 1
      /\ \A k \in 1 .. n : st.starts[k] \in Nat
      /\ \A k \in 1 .. n : st.locals[k] \in Nat
      /\ \A k \in 1 .. n : within[k] \in Nat
      /\ \A i \in 1 .. m : st.items[i].depth \in Nat
      /\ \A i \in 1 .. m : st.items[i].slot \in Nat
  <2>1. n \in Nat /\ n > 1
    BY Typing DEF Closed
  <2>2. c \in Nat /\ c > 0 /\ n = c + 1
    BY <2>1
  <2>3. QED BY Typing, <2>1, <2>2
<1>2. a \in Nat /\ a <= m /\ d \in Nat /\ c \in 1 .. n /\ c \in 0 .. n
  BY <1>1 DEF ScopesInv, Nested
<1>3. /\ Len(st'.starts) = c
      /\ \A k \in 1 .. c : st'.starts[k] = st.starts[k]
  <2>1. st.starts \in Seq(Nat) /\ c \in 0 .. Len(st.starts)
    BY Typing, <1>2
  <2>2. st'.starts = SubSeq(st.starts, 1, c)
    BY DEF Closed
  <2>3. QED BY ONLY <2>1, <2>2, InitialPartFacts
<1>4. /\ Len(st'.locals) = c
      /\ \A k \in 1 .. c : st'.locals[k] = st.locals[k]
  <2>1. st.locals \in Seq(Nat) /\ c \in 0 .. Len(st.locals)
    BY Typing, <1>2
  <2>2. st'.locals = SubSeq(st.locals, 1, c)
    BY DEF Closed
  <2>3. QED BY ONLY <2>1, <2>2, InitialPartFacts
<1>5. /\ within' \in Seq(0 .. MaxDepth) /\ Len(within') = c
      /\ \A k \in 1 .. c : within'[k] = within[k]
  <2>1. within \in Seq(0 .. MaxDepth) /\ c \in 0 .. Len(within)
    BY Typing, <1>2
  <2>2. within' = SubSeq(within, 1, c)
    BY DEF Closed
  <2>3. QED BY ONLY <2>1, <2>2, InitialPartFacts
<1>6. n' = c
  BY <1>5 DEF n
<1>7. /\ Len(st'.items) = a
      /\ \A i \in 1 .. a : st'.items[i] = st.items[i]
  <2>1. st.items \in Seq(Item) /\ a \in 0 .. Len(st.items)
    BY Typing, <1>1, <1>2
  <2>2. st'.items = SubSeq(st.items, 1, a)
    BY DEF Closed
  <2>3. QED BY ONLY <2>1, <2>2, InitialPartFacts
<1>8. st'.depth = d /\ st'.nextg = st.nextg /\ st'.peak = st.peak
  BY DEF Closed
<1>9. \A e \in 1 .. d : \/ st'.next[e] = st.next[e] /\ e < within[n]
                        \/ st'.next[e] = st.locals[n] /\ e = within[n]
  BY DEF Closed
<1>10. \A k \in 1 .. c : k \in 1 .. n
  BY <1>1
<1>11. \A i \in 1 .. a : i \in 1 .. m
  BY <1>1, <1>2
<1>12. \A k \in 1 .. c : st.starts[k] <= a
  BY <1>1, <1>10 DEF ScopesInv, Nested
<1>13. \A i \in 1 .. a : st.items[i].depth <= d
  <2>1. n \in 1 .. n /\ c \in 1 .. n /\ n = c + 1
    BY <1>1
  <2>2. QED BY <2>1 DEF ScopesInv, Older
<1>14. within[n] = st.depth /\ n \in 1 .. n
  BY Typing
<1> HIDE DEF m, c, a, d
<1>15. Tables'
  <2>1. c \in 1 .. c
    BY <1>1
  <2>2. within'[c] = st'.depth
    BY <1>5, <1>8, <2>1 DEF d
  <2>3. QED BY <1>1, <1>3, <1>4, <1>5, <1>6, <2>2 DEF Tables, Table
<1>16. Nested'
  <2>1. \A k \in 1 .. c : st'.starts[k] <= Len(st'.items)
    BY <1>3, <1>7, <1>12
  <2>2. \A j, k \in 1 .. c : j <= k => st'.starts[j] <= st'.starts[k] /\ within'[j] <= within'[k]
    BY <1>3, <1>5, <1>10 DEF ScopesInv, Nested
  <2>3. \A j, k \in 1 .. c : k = j + 1 => within'[k] <= within'[j] + 1
    BY <1>5, <1>10 DEF ScopesInv, Nested
  <2>4. QED BY <1>6, <2>1, <2>2, <2>3 DEF Nested
<1>17. Older'
  <2>1. \A i \in 1 .. Len(st'.items) : st'.items[i].depth <= st'.depth
    BY <1>7, <1>8, <1>13
  <2>2. ASSUME NEW j \in 1 .. c, NEW k \in 1 .. c, k = j + 1, NEW i \in 1 .. st'.starts[k]
        PROVE  st'.items[i].depth <= within'[j]
    <3>1. i \in 1 .. st.starts[k] /\ i \in 1 .. a
      BY <1>1, <1>2, <1>3, <1>10, <1>12
    <3>2. st.items[i].depth <= within[j]
      BY <1>10, <2>2, <3>1 DEF ScopesInv, Older
    <3>3. QED BY <1>5, <1>7, <3>1, <3>2
  <2>3. QED BY <1>6, <2>1, <2>2 DEF Older
<1>18. Offsets'
  <2>1. ASSUME NEW k \in 1 .. c, within'[k] > 0
        PROVE  st'.locals[k] <= st'.peak[within'[k]]
    BY <1>4, <1>5, <1>8, <1>10, <2>1 DEF ScopesInv, Offsets
  <2>2. ASSUME NEW k \in 1 .. c, within'[k] > 0, NEW i \in 1 .. st'.starts[k],
               st'.items[i].depth = within'[k]
        PROVE  st'.items[i].slot < st'.locals[k]
    <3>1. i \in 1 .. st.starts[k] /\ i \in 1 .. a
      BY <1>1, <1>2, <1>3, <1>10, <1>12
    <3>2. st.items[i].depth = within[k] /\ within[k] > 0
      BY <1>5, <1>7, <2>2, <3>1
    <3>3. st.items[i].slot < st.locals[k]
      BY <1>10, <3>1, <3>2 DEF ScopesInv, Offsets
    <3>4. QED BY <1>4, <1>7, <3>1, <3>3
  <2>3. QED BY <1>6, <2>1, <2>2 DEF Offsets
<1>19. Below'
  <2>1. ASSUME NEW e \in 1 .. d
        PROVE  st'.next[e] <= st'.peak[e]
    <3>1. CASE st'.next[e] = st.next[e] /\ e < within[n]
      <4>1. e \in 1 .. st.depth
        BY <1>2, <1>14, <1>1, <3>1
      <4>2. QED BY <1>8, <3>1, <4>1 DEF ScopesInv, Below
    <3>2. CASE st'.next[e] = st.locals[n] /\ e = within[n]
      BY <1>2, <1>8, <1>14, <3>2 DEF ScopesInv, Offsets
    <3>3. QED BY <1>9, <3>1, <3>2
  <2>2. ASSUME NEW i \in 1 .. a, st.items[i].depth > 0
        PROVE  st.items[i].slot < st'.next[st.items[i].depth]
    <3> DEFINE e == st.items[i].depth
    <3>1. e \in 1 .. d
      BY <1>1, <1>2, <1>11, <1>13, <2>2
    <3>2. CASE st'.next[e] = st.next[e]
      BY <1>11, <2>2, <3>2 DEF ScopesInv, Below, m
    <3>3. CASE st'.next[e] = st.locals[n] /\ e = within[n]
      BY <1>14, <2>2, <3>3 DEF ScopesInv, Offsets, a
    <3>4. QED BY <1>9, <3>1, <3>2, <3>3
  <2>3. \A i \in 1 .. a : st.items[i].depth = 0 => st.items[i].slot < st.nextg
    BY <1>11 DEF ScopesInv, Below, m
  <2>4. \A i \in 1 .. a : st.items[i].depth = 0 \/ st.items[i].depth > 0
    BY <1>1, <1>11
  <2>5. QED BY <1>7, <1>8, <2>1, <2>2, <2>3, <2>4 DEF Below
<1>20. Distinct'
  BY <1>7, <1>11 DEF ScopesInv, Distinct, m
<1>21. QED BY <1>15, <1>16, <1>17, <1>18, <1>19, <1>20 DEF ScopesInv

LEMMA DeclaredInv ==
  ASSUME ScopesInv, NEW x \in Name, Declared(x), st' \in Table
  PROVE  ScopesInv'
<1> DEFINE m == Len(st.items)
           d == st.depth
           slot == IF d = 0 THEN st.nextg ELSE st.next[d]
           new == [name |-> x, slot |-> slot, depth |-> d, boxed |-> FALSE]
<1>1. /\ m \in Nat /\ n \in Nat /\ n > 0 /\ within[n] = d
      /\ d \in Nat /\ d \in 0 .. MaxDepth
      /\ \A k \in 1 .. n : st.starts[k] \in Nat
      /\ \A k \in 1 .. n : within[k] \in Nat
      /\ \A k \in 1 .. n : st.locals[k] \in Nat
      /\ \A i \in 1 .. m : st.items[i].depth \in Nat
      /\ \A i \in 1 .. m : st.items[i].slot \in Nat
  BY Typing
<1>2. st.nextg \in Nat /\ st.next \in [Depths -> Nat] /\ st.peak \in [Depths -> Nat]
  BY DEF ScopesInv, Tables
<1>3. d > 0 => d \in Depths
  BY <1>1 DEF Depths
<1>4. slot \in Nat
  BY <1>1, <1>2, <1>3
<1>5. new \in Item /\ new.slot = slot /\ new.depth = d
  BY <1>1, <1>4 DEF Item
<1>6. st'.items = Append(st.items, new)
  BY DEF Declared
<1>7. st'.starts = st.starts /\ st'.locals = st.locals /\ st'.depth = d /\ within' = within
  BY DEF Declared
<1>8. n' = n
  BY <1>7 DEF n
<1>9. /\ st'.nextg = IF d = 0 THEN slot + 1 ELSE st.nextg
      /\ \A e \in 1 .. d : e # d => st'.next[e] = st.next[e] /\ st'.peak[e] = st.peak[e]
      /\ d > 0 => /\ st'.next[d] = slot + 1
                  /\ st'.peak[d] >= st.peak[d] /\ st'.peak[d] >= slot + 1
      /\ st'.next \in [Depths -> Nat] /\ st'.peak \in [Depths -> Nat]
  BY DEF Declared
<1>10. \A i \in 1 .. m : st.items[i].depth <= d
  BY DEF ScopesInv, Older
<1>11. \A i \in 1 .. m : st.items[i].depth = d => st.items[i].slot < slot
  BY <1>1 DEF ScopesInv, Below
<1> HIDE DEF new, slot
<1>12. /\ Len(st'.items) = m + 1
       /\ st'.items[m + 1] = new
       /\ \A i \in 1 .. m : st'.items[i] = st.items[i]
  <2>1. st.items \in Seq(Item)
    BY Typing
  <2>2. QED BY ONLY <2>1, <1>5, <1>6, AppendFacts
<1> HIDE DEF m, d
<1>13. \A i \in 1 .. m + 1 : i \in 1 .. m \/ i = m + 1
  BY <1>1
<1>14. \A k \in 1 .. n : st.starts[k] <= m /\ within[k] <= d
  BY <1>1 DEF ScopesInv, Nested, m
<1>15. \A k \in 1 .. n : \A i \in 1 .. st.starts[k] : i \in 1 .. m
  BY <1>1, <1>14
<1>16. Tables'
  BY <1>7, <1>8, <1>1 DEF ScopesInv, Tables, Table
<1>17. Nested'
  <2>1. \A k \in 1 .. n : st.starts[k] <= m + 1
    BY <1>1, <1>14
  <2>2. QED BY <1>7, <1>8, <1>12, <2>1 DEF ScopesInv, Nested
<1>18. Older'
  <2>1. \A i \in 1 .. m + 1 : st'.items[i].depth <= d
    BY <1>1, <1>5, <1>10, <1>12, <1>13
  <2>2. \A j, k \in 1 .. n : k = j + 1 =>
          \A i \in 1 .. st.starts[k] : st'.items[i].depth <= within[j]
    BY <1>12, <1>15 DEF ScopesInv, Older
  <2>3. QED BY <1>7, <1>8, <1>12, <2>1, <2>2 DEF Older
<1>19. \A e \in 1 .. d : /\ e \in Depths
                         /\ st'.peak[e] \in Nat /\ st.peak[e] \in Nat /\ st'.peak[e] >= st.peak[e]
  <2> TAKE e \in 1 .. d
  <2>1. e \in Depths
    BY <1>1, DepthAssumption DEF Depths
  <2>2. st'.peak[e] \in Nat /\ st.peak[e] \in Nat
    BY <1>2, <1>9, <2>1
  <2>3. CASE e = d
    BY <1>1, <1>9, <2>1, <2>2, <2>3
  <2>4. CASE e # d
    BY <1>9, <2>1, <2>2, <2>4
  <2>5. QED BY <2>3, <2>4
<1>20. Offsets'
  <2>1. ASSUME NEW k \in 1 .. n, within[k] > 0
        PROVE  st.locals[k] <= st'.peak[within[k]]
    <3>1. within[k] \in 1 .. d
      BY <1>1, <1>14, <2>1
    <3>2. st.locals[k] <= st.peak[within[k]]
      BY <2>1 DEF ScopesInv, Offsets
    <3>3. QED BY <1>1, <1>19, <3>1, <3>2
  <2>2. \A k \in 1 .. n : within[k] > 0 => \A i \in 1 .. st.starts[k] :
          st'.items[i].depth = within[k] => st'.items[i].slot < st.locals[k]
    BY <1>12, <1>15 DEF ScopesInv, Offsets
  <2>3. QED BY <1>7, <1>8, <2>1, <2>2 DEF Offsets
<1>21. Below'
  <2>1. ASSUME NEW e \in 1 .. d
        PROVE  st'.next[e] <= st'.peak[e]
    <3>1. CASE e = d
      BY <1>1, <1>4, <1>9, <1>19, <3>1
    <3>2. CASE e # d
      BY <1>9, <3>2 DEF ScopesInv, Below, d
    <3>3. QED BY <3>1, <3>2
  <2>2. ASSUME NEW i \in 1 .. m
        PROVE  IF st.items[i].depth = 0
               THEN st.items[i].slot < st'.nextg
               ELSE st.items[i].slot < st'.next[st.items[i].depth]
    <3>1. CASE st.items[i].depth = d
      BY <1>1, <1>4, <1>9, <1>11, <3>1
    <3>2. CASE st.items[i].depth # d
      <4>1. d > 0 /\ (st.items[i].depth > 0 => st.items[i].depth \in 1 .. d)
        BY <1>1, <1>10, <3>2
      <4>2. IF st.items[i].depth = 0
            THEN st.items[i].slot < st.nextg
            ELSE st.items[i].slot < st.next[st.items[i].depth]
        BY DEF ScopesInv, Below, m
      <4>3. QED BY <1>1, <1>9, <3>2, <4>1, <4>2
    <3>3. QED BY <3>1, <3>2
  <2>3. IF d = 0 THEN slot < st'.nextg ELSE slot < st'.next[d]
    BY <1>1, <1>4, <1>9
  <2>4. QED BY <1>5, <1>7, <1>12, <1>13, <2>1, <2>2, <2>3 DEF Below
<1>22. Distinct'
  <2>1. ASSUME NEW i \in 1 .. m + 1, NEW j \in 1 .. m + 1, i < j,
               st'.items[i].depth = st'.items[j].depth
        PROVE  st'.items[i].slot < st'.items[j].slot
    <3>1. i \in 1 .. m
      BY <1>1, <2>1
    <3>2. CASE j \in 1 .. m
      BY <1>12, <2>1, <3>1, <3>2 DEF ScopesInv, Distinct, m
    <3>3. CASE j = m + 1
      BY <1>5, <1>11, <1>12, <2>1, <3>1, <3>3
    <3>4. QED BY <1>13, <3>2, <3>3
  <2>2. QED BY <1>12, <2>1 DEF Distinct
<1>23. QED BY <1>16, <1>17, <1>18, <1>20, <1>21, <1>22 DEF ScopesInv
-------------------------------------------------------------------------------
(* Every step of the compiler is one of these, or leaves the scopes alone. *)

LEMMA OpenBlockOpens ==
  ASSUME ScopesInv, OpenBlock
  PROVE  st' \in Table /\ \E v \in Nat : Opened(v)
<1> DEFINE v == IF st.depth > 0 THEN st.next[st.depth] ELSE 0
           starts == Append(st.starts, Len(st.items))
           locals == Append(st.locals, v)
<1>1. st \in Table /\ st.items \in Seq(Item) /\ Len(st.items) \in Nat /\ st.depth \in Nat
  BY Typing DEF ScopesInv, Tables, Table
<1>2. st.depth > 0 => st.depth \in Depths
  BY <1>1 DEF Table, Depths
<1>3. v \in Nat
  BY <1>1, <1>2 DEF Table
<1>4. st' = [st EXCEPT !.starts = starts, !.locals = locals]
  BY DEF OpenBlock, PushScope
<1>5. starts \in Seq(Nat) /\ locals \in Seq(Nat)
  BY <1>1, <1>3, AppendFacts DEF Table
<1>6. within' = Append(within, st.depth)
  BY DEF OpenBlock
<1> HIDE DEF starts, locals
<1>7. /\ st' \in Table
      /\ st'.items = st.items /\ st'.nextg = st.nextg /\ st'.depth = st.depth
      /\ st'.starts = starts /\ st'.locals = locals
      /\ st'.next = st.next /\ st'.peak = st.peak
  BY <1>1, <1>4, <1>5 DEF Table
<1>8. /\ st.depth \in 0 .. MaxDepth
      /\ st.next \in [Depths -> Nat] /\ st.peak \in [Depths -> Nat]
  BY <1>1 DEF Table
<1>9. st.depth > 0 => v = st.next[st.depth]
  OBVIOUS
<1>10. st.depth # st.depth + 1
  BY <1>1
<1> HIDE DEF v
<1>11. Opened(v)
  BY <1>6, <1>7, <1>8, <1>9, <1>10 DEF Opened, starts, locals
<1>12. QED BY <1>3, <1>7, <1>11

LEMMA OpenFunctionOpens ==
  ASSUME ScopesInv, OpenFunction
  PROVE  st' \in Table /\ Opened(0)
<1> DEFINE d == st.depth + 1
           starts == Append(st.starts, Len(st.items))
           locals == Append(st.locals, 0)
           next == [st.next EXCEPT ![d] = 0]
           peak == [st.peak EXCEPT ![d] = 0]
<1>1. st \in Table /\ st.items \in Seq(Item) /\ Len(st.items) \in Nat /\ st.depth \in Nat
  BY Typing DEF ScopesInv, Tables, Table
<1>2. d \in Depths /\ d \in 0 .. MaxDepth /\ d > 0 /\ d # st.depth
  BY <1>1, DepthAssumption DEF OpenFunction, Table, Depths
<1>3. starts \in Seq(Nat) /\ locals \in Seq(Nat)
  BY <1>1, AppendFacts DEF Table
<1>4. next \in [Depths -> Nat] /\ peak \in [Depths -> Nat]
  BY <1>1 DEF Table
<1>5. \A e \in 1 .. st.depth : e # d /\ e \in Depths
  BY <1>1, DepthAssumption DEF Depths, Table
<1>6. /\ \A e \in 1 .. st.depth : next[e] = st.next[e] /\ peak[e] = st.peak[e]
      /\ next[d] = 0 /\ peak[d] = 0
  BY <1>1, <1>2, <1>5 DEF Table
<1>7. within' = Append(within, d)
  BY DEF OpenFunction
<1>8. st' = [EnterFunction(st) EXCEPT
               !.starts = Append(EnterFunction(st).starts, Len(EnterFunction(st).items)),
               !.locals = Append(EnterFunction(st).locals,
                 IF EnterFunction(st).depth > 0
                 THEN EnterFunction(st).next[EnterFunction(st).depth] ELSE 0)]
  BY DEF OpenFunction, PushScope
<1>9. EnterFunction(st) = [st EXCEPT !.depth = d, !.next = next, !.peak = peak]
  BY <1>1 DEF EnterFunction, Table
<1> HIDE DEF next, peak, d
<1>10. /\ EnterFunction(st) \in Table
       /\ EnterFunction(st).items = st.items /\ EnterFunction(st).nextg = st.nextg
       /\ EnterFunction(st).depth = d
       /\ EnterFunction(st).starts = st.starts /\ EnterFunction(st).locals = st.locals
       /\ EnterFunction(st).next = next /\ EnterFunction(st).peak = peak
  BY <1>1, <1>2, <1>4, <1>9 DEF Table
<1>11. st' = [EnterFunction(st) EXCEPT !.starts = starts, !.locals = locals]
  BY <1>2, <1>6, <1>8, <1>10
<1> HIDE DEF starts, locals
<1>12. /\ st' \in Table
       /\ st'.items = st.items /\ st'.nextg = st.nextg /\ st'.depth = d
       /\ st'.starts = starts /\ st'.locals = locals
       /\ st'.next = next /\ st'.peak = peak
  BY <1>3, <1>10, <1>11 DEF Table
<1>13. QED BY <1>1, <1>2, <1>4, <1>6, <1>7, <1>12 DEF Opened, starts, locals, d

(* What leaving a scope does to the table.                                 *)
LEMMA Popped ==
  ASSUME ScopesInv, n > 1
  PROVE  /\ PopScope(st) \in Table
         /\ PopScope(st).items = SubSeq(st.items, 1, st.starts[n])
         /\ PopScope(st).nextg = st.nextg /\ PopScope(st).depth = st.depth
         /\ PopScope(st).starts = SubSeq(st.starts, 1, n - 1)
         /\ PopScope(st).locals = SubSeq(st.locals, 1, n - 1)
         /\ PopScope(st).peak = st.peak
         /\ \A d \in Depths : PopScope(st).next[d] =
              IF d = st.depth THEN st.locals[n] ELSE st.next[d]
<1> DEFINE items == SubSeq(st.items, 1, st.starts[n])
           starts == SubSeq(st.starts, 1, n - 1)
           locals == SubSeq(st.locals, 1, n - 1)
           next == IF st.depth > 0 THEN [st.next EXCEPT ![st.depth] = st.locals[n]] ELSE st.next
<1>1. /\ st \in Table /\ st.depth \in Nat /\ n \in Nat /\ n \in 1 .. n
      /\ Len(st.starts) = n /\ Len(st.locals) = n
      /\ st.locals[n] \in Nat /\ st.starts[n] \in 0 .. Len(st.items)
  BY SMTT(40), Typing DEF ScopesInv, Tables, Table, Nested
<1>2. n - 1 \in 0 .. n
  BY <1>1
<1>3. st.starts \in Seq(Nat) /\ st.locals \in Seq(Nat) /\ st.items \in Seq(Item)
  BY Typing
<1>4. starts \in Seq(Nat)
  BY ONLY <1>1, <1>2, <1>3, InitialPartFacts
<1>5. locals \in Seq(Nat)
  BY ONLY <1>1, <1>2, <1>3, InitialPartFacts
<1>6. items \in Seq(Item)
  BY ONLY <1>1, <1>3, InitialPartFacts
<1>7. next \in [Depths -> Nat]
  BY <1>1 DEF Table
<1>8. \A d \in Depths : next[d] = IF d = st.depth THEN st.locals[n] ELSE st.next[d]
  <2>1. CASE st.depth = 0
    BY <2>1, DepthAssumption DEF Depths
  <2>2. CASE st.depth > 0
    BY <1>1, <2>2 DEF Table
  <2>3. QED BY <1>1, <2>1, <2>2
<1>9. PopScope(st) = [st EXCEPT !.starts = starts, !.locals = locals, !.items = items, !.next = next]
  BY <1>1 DEF PopScope, Front1
<1> HIDE DEF starts, locals, items, next
<1>10. /\ PopScope(st) \in Table
       /\ PopScope(st).items = items /\ PopScope(st).nextg = st.nextg
       /\ PopScope(st).depth = st.depth
       /\ PopScope(st).starts = starts /\ PopScope(st).locals = locals
       /\ PopScope(st).peak = st.peak /\ PopScope(st).next = next
  BY <1>1, <1>4, <1>5, <1>6, <1>7, <1>9 DEF Table
<1>11. QED BY <1>8, <1>10 DEF items, starts, locals

LEMMA CloseBlockCloses ==
  ASSUME ScopesInv, CloseBlock
  PROVE  st' \in Table /\ Closed
<1>1. /\ n \in Nat /\ n > 1 /\ Len(within) = n /\ within[n] = st.depth
      /\ within[n - 1] = st.depth /\ st.depth \in 0 .. MaxDepth /\ st.depth \in Nat
      /\ st' = PopScope(st) /\ within' = SubSeq(within, 1, n - 1)
  BY Typing DEF CloseBlock, Outer, Front1, n
<1>2. \A d \in 1 .. st.depth : d \in Depths /\ (d < st.depth \/ d = st.depth)
  BY <1>1, DepthAssumption DEF Depths
<1>3. \A d \in 1 .. st.depth : \/ st'.next[d] = st.next[d] /\ d < st.depth
                               \/ st'.next[d] = st.locals[n] /\ d = st.depth
  BY <1>1, <1>2, Popped
<1>4. QED BY <1>1, <1>3, Popped DEF Closed, Table

LEMMA CloseFunctionCloses ==
  ASSUME ScopesInv, CloseFunction
  PROVE  st' \in Table /\ Closed
<1> DEFINE d == st.depth - 1
<1>1. /\ n \in Nat /\ n > 1 /\ Len(within) = n /\ within[n] = st.depth
      /\ within[n - 1] < st.depth /\ st.depth \in 0 .. MaxDepth /\ st.depth \in Nat
      /\ st' = ExitFunction(PopScope(st)) /\ within' = SubSeq(within, 1, n - 1)
  BY Typing DEF CloseFunction, Outer, Front1, n
<1>2. within[n - 1] = d /\ d \in 0 .. MaxDepth
  <2>1. n - 1 \in 1 .. n /\ n \in 1 .. n /\ n = (n - 1) + 1
    BY <1>1
  <2>2. within[n] <= within[n - 1] + 1 /\ within[n - 1] \in Nat
    BY <2>1, Typing DEF ScopesInv, Nested
  <2>3. QED BY <1>1, <2>2, DepthAssumption
<1>3. \A e \in 1 .. d : e \in Depths /\ e < st.depth /\ e # st.depth
  BY <1>1, DepthAssumption DEF Depths
<1>4. PopScope(st) \in Table /\ PopScope(st).depth = st.depth
  BY <1>1, Popped
<1>5. st' = [PopScope(st) EXCEPT !.depth = d]
  BY <1>1, <1>4 DEF ExitFunction, Table
<1> HIDE DEF d
<1>6. /\ st' \in Table /\ st'.depth = d
      /\ st'.items = PopScope(st).items /\ st'.nextg = PopScope(st).nextg
      /\ st'.starts = PopScope(st).starts /\ st'.locals = PopScope(st).locals
      /\ st'.next = PopScope(st).next /\ st'.peak = PopScope(st).peak
  BY <1>2, <1>4, <1>5 DEF Table
<1>7. \A e \in 1 .. d : st'.next[e] = st.next[e] /\ e < within[n]
  BY <1>1, <1>3, <1>6, Popped
<1>8. st'.next \in [Depths -> Nat]
  BY <1>6 DEF Table
<1>9. QED BY <1>1, <1>2, <1>6, <1>7, <1>8, Popped DEF Closed

LEMMA DeclareDeclares ==
  ASSUME ScopesInv, NEW x \in Name, DeclareName(x)
  PROVE  UNCHANGED <<st, within>> \/ (st' \in Table /\ Declared(x))
<1> DEFINE d == st.depth
           new(s) == Append(st.items, [name |-> x, slot |-> s, depth |-> d, boxed |-> FALSE])
<1>1. /\ st \in Table /\ d \in Nat /\ d \in 0 .. MaxDepth
      /\ st.nextg \in Nat /\ st.next \in [Depths -> Nat] /\ st.peak \in [Depths -> Nat]
      /\ st' = Declare(st, x) /\ within' = within
  BY Typing DEF ScopesInv, Tables, Table, DeclareName
<1>2. \A s \in Nat : new(s) \in Seq(Item)
  <2> TAKE s \in Nat
  <2>1. [name |-> x, slot |-> s, depth |-> d, boxed |-> FALSE] \in Item
    BY <1>1 DEF Item
  <2>2. st.items \in Seq(Item)
    BY Typing
  <2>3. QED BY ONLY <2>1, <2>2, AppendFacts
<1>3. CASE InScope(st, x)
  <2>1. Declare(st, x) = st
    BY <1>3 DEF Declare
  <2>2. QED BY <1>1, <2>1
<1>4. CASE ~ InScope(st, x) /\ d = 0
  <2>1. st' = [st EXCEPT !.items = new(st.nextg), !.nextg = st.nextg + 1]
    BY <1>1, <1>4 DEF Declare
  <2> DEFINE items == new(st.nextg)
             after == st.nextg + 1
  <2>5. items \in Seq(Item) /\ after \in Nat
    BY <1>1, <1>2
  <2>6. st' = [st EXCEPT !.items = items, !.nextg = after]
    BY <2>1
  <2> HIDE DEF items, after
  <2>2. /\ st' \in Table
        /\ st'.items = items /\ st'.nextg = after
        /\ st'.starts = st.starts /\ st'.locals = st.locals /\ st'.depth = d
        /\ st'.next = st.next /\ st'.peak = st.peak
    BY <1>1, <2>5, <2>6 DEF Table
  <2>3. \A e \in 1 .. d : FALSE
    BY <1>4
  <2>4. QED BY <1>1, <1>4, <2>2, <2>3 DEF Declared, items, after
<1>5. CASE ~ InScope(st, x) /\ d > 0
  <2> DEFINE slot == st.next[d]
             next == [st.next EXCEPT ![d] = slot + 1]
             top == IF slot + 1 > st.peak[d] THEN slot + 1 ELSE st.peak[d]
             peak == [st.peak EXCEPT ![d] = top]
  <2>1. d \in Depths
    BY <1>1, <1>5 DEF Depths
  <2>2. slot \in Nat /\ top \in Nat /\ top >= st.peak[d] /\ top >= slot + 1
    BY <1>1, <2>1
  <2>3. next \in [Depths -> Nat] /\ next[d] = slot + 1 /\ \A e \in Depths : e # d => next[e] = st.next[e]
    BY <1>1, <2>1, <2>2
  <2>4. peak \in [Depths -> Nat] /\ peak[d] = top /\ \A e \in Depths : e # d => peak[e] = st.peak[e]
    BY <1>1, <2>1, <2>2
  <2>5. st' = [st EXCEPT !.items = new(slot), !.next = next, !.peak = peak]
    BY <1>1, <1>5 DEF Declare, Table
  <2>6. new(slot) \in Seq(Item)
    BY <1>2, <2>2
  <2> HIDE DEF next, peak, top
  <2>7. /\ st' \in Table
        /\ st'.items = new(slot) /\ st'.nextg = st.nextg
        /\ st'.starts = st.starts /\ st'.locals = st.locals /\ st'.depth = d
        /\ st'.next = next /\ st'.peak = peak
    BY <1>1, <2>3, <2>4, <2>5, <2>6 DEF Table
  <2>8. \A e \in 1 .. d : e \in Depths
    BY <1>1, DepthAssumption DEF Depths
  <2>9. d # 0
    BY <1>5
  <2>10. QED BY <1>1, <1>5, <2>2, <2>3, <2>4, <2>7, <2>8, <2>9 DEF Declared
<1>6. QED BY <1>1, <1>3, <1>4, <1>5
-------------------------------------------------------------------------------
LEMMA InitInv == Init => ScopesInv
<1> SUFFICES ASSUME Init
             PROVE  ScopesInv
  OBVIOUS
<1>1. /\ st = NewTable /\ within = <<0>> /\ st.items = <<>> /\ st.starts = <<0>>
      /\ st.locals = <<0>> /\ st.nextg = 0 /\ st.depth = 0
      /\ st.next = [d \in Depths |-> 0] /\ st.peak = [d \in Depths |-> 0]
  BY DEF Init, NewTable
<1>2. n = 1 /\ n = Len(st.starts) /\ n = Len(st.locals) /\ within[1] = 0 /\ Len(st.items) = 0
  BY <1>1 DEF n
<1>3. \A k \in 1 .. n : k = 1
  BY <1>2
<1>4. Tables
  BY <1>1, <1>2, DepthAssumption DEF Tables, NewTable
<1>5. Nested /\ Older /\ Offsets /\ Below /\ Distinct
  BY <1>1, <1>2, <1>3 DEF Nested, Older, Offsets, Below, Distinct
<1>6. QED BY <1>4, <1>5 DEF ScopesInv

LEMMA NextInv == ScopesInv /\ [Next]_svars => ScopesInv'
<1> SUFFICES ASSUME ScopesInv, [Next]_svars
             PROVE  ScopesInv'
  OBVIOUS
<1>1. CASE OpenBlock
  BY <1>1, OpenBlockOpens, OpenedInv
<1>2. CASE CloseBlock
  BY <1>2, CloseBlockCloses, ClosedInv
<1>3. CASE OpenFunction
  BY <1>3, OpenFunctionOpens, OpenedInv
<1>4. CASE CloseFunction
  BY <1>4, CloseFunctionCloses, ClosedInv
<1>5. CASE UNCHANGED <<st, within>>
  BY <1>5 DEF ScopesInv, Tables, Nested, Older, Offsets, Below, Distinct, n
<1>6. ASSUME NEW x \in Name, DeclareName(x)
      PROVE  ScopesInv'
  BY <1>5, <1>6, DeclareDeclares, DeclaredInv
<1>7. ASSUME NEW x \in Name, UseName(x)
      PROVE  UNCHANGED <<st, within>>
  BY <1>7 DEF UseName
<1>8. CASE UNCHANGED svars
  BY <1>5, <1>8 DEF svars
<1>9. QED BY <1>1, <1>2, <1>3, <1>4, <1>5, <1>6, <1>7, <1>8 DEF Next

(* Whatever blocks and functions were opened, closed and declared in: what *)
(* the stacks of symbol_table.c remember fits the live variables.          *)
THEOREM ScopesInvariant == Spec => []ScopesInv
<1>1. Init => ScopesInv
  BY InitInv
<1>2. ScopesInv /\ [Next]_svars => ScopesInv'
  BY NextInv
<1>3. QED BY <1>1, <1>2, PTL DEF Spec

(* symtab_declare never gives two live variables of one frame, or two      *)
(* globals, the same slot, however deep functions and blocks nest.         *)
THEOREM SlotsDistinctAlways == Spec => []SlotsDistinct
<1>1. ScopesInv => SlotsDistinct
  <2>1. ScopesInv => DOMAIN st.items = 1 .. Len(st.items)
    BY DEF ScopesInv, Tables
  <2>2. QED BY <2>1 DEF ScopesInv, Distinct, SlotsDistinct
<1>2. QED BY <1>1, ScopesInvariant, PTL

(* The frame size symtab_exit_function returns covers every live local,    *)
(* and the globals the program asks for cover every live global.           *)
THEOREM FrameCoversAlways == Spec => []FrameCovers
<1>1. ScopesInv => FrameCovers
  <2> SUFFICES ASSUME ScopesInv, NEW i \in DOMAIN st.items
               PROVE  IF st.items[i].depth = 0
                      THEN st.items[i].slot < st.nextg
                      ELSE st.items[i].slot < st.peak[st.items[i].depth]
    BY DEF FrameCovers
  <2> DEFINE d == st.items[i].depth
             slot == st.items[i].slot
  <2>1. i \in 1 .. Len(st.items)
    BY DEF ScopesInv, Tables
  <2>2. d \in Nat /\ slot \in Nat /\ d <= st.depth /\ st.depth \in 0 .. MaxDepth
    BY <2>1, Typing DEF ScopesInv, Older
  <2>3. IF d = 0 THEN slot < st.nextg ELSE slot < st.next[d]
    BY <2>1 DEF ScopesInv, Below
  <2>4. CASE d = 0
    BY <2>3, <2>4
  <2>5. CASE d # 0
    <3>1. d \in 1 .. st.depth /\ d \in Depths
      BY <2>2, <2>5, DepthAssumption DEF Depths
    <3>2. st.next[d] <= st.peak[d] /\ st.next[d] \in Nat /\ st.peak[d] \in Nat
      BY <3>1 DEF ScopesInv, Below, Tables
    <3>3. QED BY <2>2, <2>3, <2>5, <3>2
  <2>6. QED BY <2>4, <2>5
<1>2. QED BY <1>1, ScopesInvariant, PTL

-------------------------------------------------------------------------------
(* Captures.  What a name means outside a function does not change while   *)
(* the function is open: what is declared meanwhile, and thrown away when  *)
(* a scope closes, is of this function or of one inside it.                *)

Newer ==
  \A k \in 1 .. n : \A i \in 1 .. Len(st.items) : i > st.starts[k] => st.items[i].depth >= within[k]

CaptureInv == /\ ScopesInv /\ Newer
              /\ ups \in [Depths -> Seq(Capture)] /\ CapturesTrue

LEMMA OpenedNewer ==
  ASSUME ScopesInv, Newer, NEW v, Opened(v)
  PROVE  Newer'
<1>1. /\ n \in Nat /\ Len(st.items) \in Nat /\ st.starts \in Seq(Nat) /\ Len(st.starts) = n
      /\ within \in Seq(0 .. MaxDepth) /\ Len(within) = n
  BY Typing
<1>2. st'.items = st.items
  BY DEF Opened
<1>3. /\ Len(st'.starts) = n + 1 /\ st'.starts[n + 1] = Len(st.items)
      /\ \A k \in 1 .. n : st'.starts[k] = st.starts[k]
  <2>1. st'.starts = Append(st.starts, Len(st.items))
    BY DEF Opened
  <2>2. QED BY ONLY <1>1, <2>1, AppendFacts
<1>4. n' = n + 1 /\ \A k \in 1 .. n : within'[k] = within[k]
  <2>1. within' = Append(within, st'.depth) /\ st'.depth \in 0 .. MaxDepth
    BY DEF Opened
  <2>2. Len(within') = n + 1 /\ \A k \in 1 .. n : within'[k] = within[k]
    BY ONLY <1>1, <2>1, AppendFacts
  <2>3. QED BY <2>2 DEF n
<1>5. ASSUME NEW k \in 1 .. n + 1, NEW i \in 1 .. Len(st.items), i > st'.starts[k]
      PROVE  st.items[i].depth >= within'[k]
  <2>1. k \in 1 .. n
    BY <1>1, <1>3, <1>5
  <2>2. QED BY <1>3, <1>4, <1>5, <2>1 DEF Newer
<1>6. QED BY <1>2, <1>4, <1>5 DEF Newer

LEMMA ClosedNewer ==
  ASSUME ScopesInv, Newer, Closed
  PROVE  /\ Newer'
         /\ st.starts[n] \in 0 .. Len(st.items)
         /\ Len(st'.items) = st.starts[n] /\ \A i \in 1 .. st.starts[n] : st'.items[i] = st.items[i]
<1>1. /\ n \in Nat /\ n > 1 /\ Len(st.items) \in Nat /\ st.items \in Seq(Item)
      /\ st.starts \in Seq(Nat) /\ Len(st.starts) = n
      /\ within \in Seq(0 .. MaxDepth) /\ Len(within) = n
  BY Typing DEF Closed
<1>2. st.starts[n] \in 0 .. Len(st.items)
  <2>1. n \in 1 .. n /\ st.starts[n] \in Nat
    BY <1>1, Typing
  <2>2. QED BY <1>1, <2>1 DEF ScopesInv, Nested
<1>3. Len(st'.items) = st.starts[n] /\ \A i \in 1 .. st.starts[n] : st'.items[i] = st.items[i]
  <2>1. st'.items = SubSeq(st.items, 1, st.starts[n])
    BY DEF Closed
  <2>2. QED BY ONLY <1>1, <1>2, <2>1, InitialPartFacts
<1>4. n - 1 \in 0 .. n
  BY <1>1
<1>5. \A k \in 1 .. n - 1 : st'.starts[k] = st.starts[k]
  <2>1. st'.starts = SubSeq(st.starts, 1, n - 1)
    BY DEF Closed
  <2>2. QED BY ONLY <1>1, <1>4, <2>1, InitialPartFacts
<1>6. n' = n - 1 /\ \A k \in 1 .. n - 1 : within'[k] = within[k]
  <2>1. within' = SubSeq(within, 1, n - 1)
    BY DEF Closed
  <2>2. Len(within') = n - 1 /\ \A k \in 1 .. n - 1 : within'[k] = within[k]
    BY ONLY <1>1, <1>4, <2>1, InitialPartFacts
  <2>3. QED BY <2>2 DEF n
<1>7. ASSUME NEW k \in 1 .. n - 1, NEW i \in 1 .. st.starts[n], i > st'.starts[k]
      PROVE  st'.items[i].depth >= within'[k]
  <2>1. k \in 1 .. n /\ i \in 1 .. Len(st.items)
    BY SMTT(40), <1>1, <1>2
  <2>2. QED BY <1>3, <1>5, <1>6, <1>7, <2>1 DEF Newer
<1>8. QED BY <1>2, <1>3, <1>6, <1>7 DEF Newer

LEMMA DeclaredNewer ==
  ASSUME ScopesInv, Newer, NEW x \in Name, Declared(x)
  PROVE  /\ Newer' /\ Len(st'.items) = Len(st.items) + 1
         /\ \A i \in 1 .. Len(st.items) : st'.items[i] = st.items[i]
         /\ st'.items[Len(st.items) + 1].depth = st.depth
<1> DEFINE m == Len(st.items)
<1>1. /\ n \in Nat /\ n > 0 /\ m \in Nat /\ st.items \in Seq(Item) /\ st.depth \in Nat /\ within[n] = st.depth
      /\ \A k \in 1 .. n : within[k] \in Nat
  BY Typing
<1>2. PICK e : st'.items = Append(st.items, e) /\ e.depth = st.depth
  BY SMTT(40) DEF Declared
<1>3. Len(st'.items) = m + 1 /\ st'.items[m + 1] = e /\ \A i \in 1 .. m : st'.items[i] = st.items[i]
  BY <1>1, <1>2, AppendProperties
<1>4. st'.starts = st.starts /\ within' = within /\ n' = n
  BY DEF Declared, n
<1>5. \A k \in 1 .. n : within[k] <= within[n]
  <2>1. n \in 1 .. n
    BY <1>1
  <2>2. QED BY <1>1, <2>1 DEF ScopesInv, Nested
<1>6. ASSUME NEW k \in 1 .. n, NEW i \in 1 .. m + 1, i > st.starts[k]
      PROVE  st'.items[i].depth >= within[k]
  <2>1. CASE i \in 1 .. m
    BY <1>3, <1>6, <2>1 DEF Newer
  <2>2. CASE i = m + 1
    BY <1>1, <1>2, <1>3, <1>5, <2>2
  <2>3. QED BY <1>1, <2>1, <2>2
<1>7. QED BY <1>2, <1>3, <1>4, <1>6 DEF Newer

(* The parts of CapturesTrue, of any list of variables and of captures.    *)
Above(items, x, d) == {i \in DOMAIN items : items[i].name = x /\ items[i].depth < d}

Leads(items, u, d, c) ==
  LET s == items[Max(Above(items, c.name, d))]
  IN  /\ Above(items, c.name, d) # {}
      /\ c.from = "local" => s.depth = d - 1 /\ s.slot = c.index
      /\ c.from = "upval" => /\ s.depth \in 1 .. d - 2
                             /\ c.index < Len(u[d - 1])
                             /\ u[d - 1][c.index + 1].name = c.name

AllLead(items, u, depth) == \A d \in 1 .. depth : \A k \in DOMAIN u[d] : Leads(items, u, d, u[d][k])

LEMMA TrueLeads == CapturesTrue <=> AllLead(st.items, ups, st.depth)
BY DEF CapturesTrue, AllLead, Leads, Above, Outside

LEMMA AboveFacts ==
  ASSUME NEW items \in Seq(Item), NEW x, NEW d, Above(items, x, d) # {}
  PROVE  /\ Max(Above(items, x, d)) \in Above(items, x, d)
         /\ \A i \in Above(items, x, d) : Max(Above(items, x, d)) >= i
<1>1. Len(items) \in Nat /\ DOMAIN items = 1 .. Len(items)
  BY LenProperties
<1>2. Above(items, x, d) \in SUBSET (0 .. Len(items))
  BY <1>1 DEF Above
<1>3. \E i \in Above(items, x, d) : \A j \in Above(items, x, d) : i >= j
  BY ONLY <1>1, <1>2, Above(items, x, d) # {}, GreatestElement
<1>4. QED BY <1>3 DEF Max

(* A step that leaves the captures of the open functions alone, and what   *)
(* is declared outside each of them, leaves them true.                     *)
LEMMA StillTrue ==
  ASSUME NEW items \in Seq(Item), NEW later, NEW u, NEW v, NEW m \in Nat, NEW d \in 1 .. m,
         NEW k \in DOMAIN v[d],
         AllLead(items, u, m), \A e \in 1 .. m : v[e] = u[e],
         \A x : /\ Above(later, x, d) = Above(items, x, d)
                /\ \A i \in Above(items, x, d) : later[i] = items[i]
  PROVE  Leads(later, v, d, v[d][k])
<1> DEFINE c == u[d][k]
           O == Above(items, c.name, d)
           s == items[Max(O)]
<1>1. v[d][k] = c /\ k \in DOMAIN u[d]
  OBVIOUS
<1>2. Leads(items, u, d, c)
  BY <1>1 DEF AllLead
<1>3. Max(O) \in O
  BY <1>2, AboveFacts DEF Leads
<1>4. Above(later, c.name, d) = O /\ later[Max(O)] = s
  BY <1>3
<1>5. \A e \in 1 .. d - 2 : v[d - 1] = u[d - 1]
  OBVIOUS
<1> HIDE DEF c
<1>6. s.depth \in 1 .. d - 2 => v[d - 1] = u[d - 1]
  BY ONLY <1>5
<1>7. Leads(later, v, d, c)
  BY <1>2, <1>4, <1>6 DEF Leads
<1>8. QED BY <1>1, <1>7

LEMMA CapturesKept ==
  ASSUME ScopesInv, CapturesTrue, st'.depth \in Nat,
         \A d \in 1 .. st.depth : ups'[d] = ups[d],
         \A d \in 1 .. st'.depth : d > st.depth => ups'[d] = <<>>,
         \A d \in 1 .. st.depth : d <= st'.depth =>
           \A x : /\ Above(st'.items, x, d) = Above(st.items, x, d)
                  /\ \A i \in Above(st.items, x, d) : st'.items[i] = st.items[i]
  PROVE  CapturesTrue'
<1>1. st.depth \in Nat /\ st.items \in Seq(Item)
  BY Typing
<1>2. AllLead(st.items, ups, st.depth)
  BY TrueLeads
<1>3. ASSUME NEW d \in 1 .. st'.depth, NEW k \in DOMAIN ups'[d]
      PROVE  Leads(st'.items, ups', d, ups'[d][k])
  <2>1. d \in 1 .. st.depth /\ d <= st'.depth
    <3>1. ~ (d > st.depth)
      BY <1>3, EmptySeq
    <3>2. QED BY <1>1, <3>1
  <2>2. PICK later, v, m : later = st'.items /\ v = ups' /\ m = st.depth
    OBVIOUS
  <2>3. m \in Nat /\ d \in 1 .. m /\ k \in DOMAIN v[d]
    BY <1>1, <2>1, <2>2, <1>3
  <2>4. AllLead(st.items, ups, m) /\ \A e \in 1 .. m : v[e] = ups[e]
    BY <1>2, <2>2
  <2>5. \A x : /\ Above(later, x, d) = Above(st.items, x, d)
               /\ \A i \in Above(st.items, x, d) : later[i] = st.items[i]
    BY <2>1, <2>2
  <2>6. Leads(later, v, d, v[d][k])
    BY ONLY <1>1, <2>3, <2>4, <2>5, StillTrue
  <2>7. QED BY <2>2, <2>6
<1>4. AllLead(st'.items, ups', st'.depth)
  BY <1>3 DEF AllLead
<1>5. (CapturesTrue <=> AllLead(st.items, ups, st.depth))'
  BY TrueLeads, PTL
<1>6. QED BY <1>4, <1>5

LEMMA OpenedCaptures ==
  ASSUME CaptureInv, NEW v \in Nat, Opened(v), ups' = IF st'.depth = st.depth THEN ups ELSE [ups EXCEPT ![st'.depth] = <<>>]
  PROVE  CapturesTrue' /\ ups' \in [Depths -> Seq(Capture)]
<1>1. ScopesInv /\ CapturesTrue /\ st.depth \in Nat /\ ups \in [Depths -> Seq(Capture)]
  BY Typing DEF CaptureInv
<1>2. st'.depth \in Nat /\ st'.depth \in 0 .. MaxDepth /\ st'.depth \in {st.depth, st.depth + 1} /\ st'.items = st.items
  BY <1>1 DEF Opened
<1>3. ups' \in [Depths -> Seq(Capture)]
  BY <1>1, EmptySeq
<1>4. \A d \in 1 .. st.depth : ups'[d] = ups[d]
  BY <1>1, <1>2
<1>5. \A d \in 1 .. st'.depth : d > st.depth => ups'[d] = <<>>
  <2>1. ASSUME NEW d \in 1 .. st'.depth, d > st.depth PROVE ups'[d] = <<>>
    <3>1. d = st'.depth /\ st'.depth # st.depth /\ d \in Depths
      BY <1>1, <1>2, <2>1, DepthAssumption DEF Depths
    <3>2. QED BY <1>1, <3>1
  <2>2. QED BY <2>1
<1>6. QED BY <1>1, <1>2, <1>3, <1>4, <1>5, CapturesKept

LEMMA ClosedCaptures ==
  ASSUME CaptureInv, Closed, ups' = ups
  PROVE  CapturesTrue'
<1>1. /\ ScopesInv /\ CapturesTrue /\ Newer /\ st.depth \in Nat
      /\ n \in Nat /\ n > 1 /\ within[n] = st.depth /\ Len(st.items) \in Nat
      /\ DOMAIN st.items = 1 .. Len(st.items)
      /\ \A i \in 1 .. Len(st.items) : st.items[i].depth \in Nat
  BY Typing, LenProperties DEF CaptureInv, Closed
<1>2. /\ st.starts[n] \in 0 .. Len(st.items)
      /\ Len(st'.items) = st.starts[n] /\ \A i \in 1 .. st.starts[n] : st'.items[i] = st.items[i]
  BY <1>1, ClosedNewer
<1>3. DOMAIN st'.items = 1 .. st.starts[n]
  <2>1. st'.items \in Seq(Item)
    <3>1. st'.items = SubSeq(st.items, 1, st.starts[n]) /\ st.items \in Seq(Item)
      BY <1>1, Typing DEF Closed
    <3>2. QED BY ONLY <1>2, <3>1, InitialPartFacts
  <2>2. QED BY <1>2, <2>1, LenProperties
<1>4. st'.depth \in Nat /\ st'.depth <= st.depth
  <2>1. st'.depth = within[n - 1]
    BY DEF Closed
  <2>2. n - 1 \in 1 .. n /\ n \in 1 .. n /\ n - 1 <= n
    BY <1>1
  <2>3. within[n - 1] \in Nat /\ within[n - 1] <= within[n]
    BY <1>1, <2>2, Typing DEF ScopesInv, Nested
  <2>4. QED BY <1>1, <2>1, <2>3
<1>5. \A i \in 1 .. Len(st.items) : i > st.starts[n] => st.items[i].depth >= st.depth
  <2>1. n \in 1 .. n
    BY <1>1
  <2>2. QED BY <1>1, <2>1 DEF Newer
<1>6. ASSUME NEW d \in 1 .. st.depth, d <= st'.depth, NEW x
      PROVE  /\ Above(st'.items, x, d) = Above(st.items, x, d)
             /\ \A i \in Above(st.items, x, d) : st'.items[i] = st.items[i]
  <2>1. \A i \in Above(st.items, x, d) : i \in 1 .. st.starts[n]
    BY SMTT(40), <1>1, <1>2, <1>5 DEF Above
  <2>2. \A i \in 1 .. st.starts[n] : i \in 1 .. Len(st.items)
    BY <1>1, <1>2
  <2>3. QED BY <1>1, <1>2, <1>3, <2>1, <2>2 DEF Above
<1>7. \A d \in 1 .. st'.depth : ~ (d > st.depth)
  BY <1>1, <1>4
<1>8. QED BY <1>1, <1>4, <1>6, <1>7, CapturesKept

LEMMA DeclaredCaptures ==
  ASSUME CaptureInv, NEW x \in Name, Declared(x), ups' = ups, st'.items \in Seq(Item)
  PROVE  CapturesTrue'
<1> DEFINE m == Len(st.items)
<1>1. /\ ScopesInv /\ CapturesTrue /\ Newer /\ st.depth \in Nat /\ m \in Nat
      /\ DOMAIN st.items = 1 .. m
  BY Typing, LenProperties DEF CaptureInv
<1>2. /\ Len(st'.items) = m + 1 /\ \A i \in 1 .. m : st'.items[i] = st.items[i]
      /\ st'.items[m + 1].depth = st.depth /\ DOMAIN st'.items = 1 .. m + 1
  BY <1>1, DeclaredNewer, LenProperties
<1>3. st'.depth = st.depth
  BY DEF Declared
<1> HIDE DEF m
<1>4. ASSUME NEW d \in 1 .. st.depth, d <= st'.depth, NEW y
      PROVE  /\ Above(st'.items, y, d) = Above(st.items, y, d)
             /\ \A i \in Above(st.items, y, d) : st'.items[i] = st.items[i]
  <2>1. m + 1 \notin Above(st'.items, y, d)
    BY <1>1, <1>2 DEF Above
  <2>2. \A i \in 1 .. m + 1 : i # m + 1 <=> i \in 1 .. m
    BY <1>1
  <2>3. QED BY <1>1, <1>2, <2>1, <2>2 DEF Above
<1>5. \A d \in 1 .. st'.depth : ~ (d > st.depth)
  BY <1>1, <1>3
<1>6. QED BY <1>1, <1>3, <1>4, <1>5, CapturesKept

-------------------------------------------------------------------------------
(* resolve_upvalue, link by link.                                          *)

LEMMA CaptureFacts ==
  ASSUME NEW u, NEW d, u[d] \in Seq(Capture), NEW x, CaptureOf(u, d, x) > 0
  PROVE  CaptureOf(u, d, x) \in 1 .. Len(u[d]) /\ u[d][CaptureOf(u, d, x)].name = x
<1> DEFINE P == {i \in 1 .. Len(u[d]) : u[d][i].name = x}
<1>1. CaptureOf(u, d, x) = IF P = {} THEN 0 ELSE Min(P)
  BY DEF CaptureOf
<1>2. P # {}
  BY <1>1
<1>3. P \in SUBSET Nat
  BY LenProperties
<1> HIDE DEF P
<1>4. \E i \in P : \A j \in P : i <= j
  BY ONLY <1>2, <1>3, LeastElement
<1>5. Min(P) \in P
  BY <1>4 DEF Min
<1>6. QED BY <1>1, <1>2, <1>5 DEF P

(* The variable a capture of x at depth d may stand for.                   *)
Holds(items, x, home, d) ==
  LET i == Max(Above(items, x, d))
  IN  Above(items, x, d) # {} /\ items[i].depth = home

(* What the link before d hands on: the slot of the variable, or a capture *)
(* of the function before.                                                 *)
Handed(items, u, x, home, d, index) ==
  IF d = home + 1 THEN index = items[Max(Above(items, x, d))].slot
  ELSE index < Len(u[d - 1]) /\ u[d - 1][index + 1].name = x

(* What upvals_register answers for x at depth d.                          *)
Answer(items, m, x, d, r) ==
  /\ r.ups \in [Depths -> Seq(Capture)] /\ AllLead(items, r.ups, m)
  /\ r.index \in Nat /\ r.index < Len(r.ups[d]) /\ r.ups[d][r.index + 1].name = x

LEMMA RegisterTrue ==
  ASSUME NEW items \in Seq(Item), NEW m \in Nat, NEW u \in [Depths -> Seq(Capture)], AllLead(items, u, m), m <= MaxDepth,
         NEW x \in Name, NEW home \in Nat, home > 0, NEW d \in 1 .. m, d > home,
         NEW index \in Nat, Holds(items, x, home, d), Handed(items, u, x, home, d, index)
  PROVE  Answer(items, m, x, d, Register(u, d, x, IF d = home + 1 THEN "local" ELSE "upval", index))
<1> DEFINE from == IF d = home + 1 THEN "local" ELSE "upval"
           r == Register(u, d, x, from, index)
           c == [name |-> x, from |-> from, index |-> index]
           k == CaptureOf(u, d, x)
<1>1. d \in Depths /\ d \in Nat /\ u[d] \in Seq(Capture) /\ Len(u[d]) \in Nat /\ DOMAIN u[d] = 1 .. Len(u[d])
  <2>1. d \in Depths
    BY DepthAssumption DEF Depths
  <2>2. QED BY <2>1, LenProperties
<1>2. CASE k > 0
  <2>1. k \in 1 .. Len(u[d]) /\ u[d][k].name = x
    BY ONLY <1>1, <1>2, CaptureFacts
  <2>2. r.ups = u /\ r.index = k - 1
    BY <1>2 DEF Register
  <2> HIDE DEF r, k
  <2>3. r.index \in Nat /\ r.index < Len(u[d]) /\ r.index + 1 = k
    BY <1>1, <2>1, <2>2
  <2>4. Answer(items, m, x, d, r)
    BY <2>1, <2>2, <2>3 DEF Answer
  <2>5. QED BY <2>4 DEF r
<1>3. CASE ~ (k > 0)
  <2> DEFINE v == [u EXCEPT ![d] = Append(u[d], c)]
  <2>1. r.ups = v /\ r.index = Len(u[d])
    BY <1>3 DEF Register
  <2>2. c \in Capture
    BY DEF Capture
  <2> HIDE DEF c, k, r, from
  <2>3. /\ Append(u[d], c) \in Seq(Capture) /\ Len(Append(u[d], c)) = Len(u[d]) + 1
        /\ Append(u[d], c)[Len(u[d]) + 1] = c /\ \A i \in 1 .. Len(u[d]) : Append(u[d], c)[i] = u[d][i]
    BY ONLY <1>1, <2>2, AppendFacts
  <2>4. v \in [Depths -> Seq(Capture)] /\ v[d] = Append(u[d], c) /\ \A e \in Depths : e # d => v[e] = u[e]
    BY <1>1, <2>3
  <2> HIDE DEF v
  <2>5. \A e \in Depths : Len(v[e]) >= Len(u[e]) /\ \A i \in 1 .. Len(u[e]) : v[e][i] = u[e][i]
    <3> SUFFICES ASSUME NEW e \in Depths
                 PROVE  Len(v[e]) >= Len(u[e]) /\ \A i \in 1 .. Len(u[e]) : v[e][i] = u[e][i]
      OBVIOUS
    <3>1. Len(u[e]) \in Nat
      BY LenProperties
    <3>2. CASE e = d
      BY ONLY <1>1, <2>3, <2>4, <3>2
    <3>3. CASE e # d
      BY <2>4, <3>1, <3>3
    <3>4. QED BY <3>2, <3>3
  <2>6. ASSUME NEW e \in 1 .. m, NEW i \in DOMAIN v[e] PROVE Leads(items, v, e, v[e][i])
    <3>1. e \in Depths /\ Len(u[e]) \in Nat /\ DOMAIN u[e] = 1 .. Len(u[e]) /\ DOMAIN v[e] = 1 .. Len(v[e])
      <4>1. e \in Depths
        BY DepthAssumption DEF Depths
      <4>2. QED BY <2>4, <4>1, LenProperties
    <3>2. CASE i \in DOMAIN u[e]
      <4>1. Leads(items, u, e, u[e][i]) /\ v[e][i] = u[e][i]
        BY <2>5, <3>1, <3>2 DEF AllLead
      <4> DEFINE y == u[e][i]
                 s == items[Max(Above(items, y.name, e))]
      <4>2. y \in Capture
        <5>1. u[e] \in Seq(Capture)
          BY <3>1
        <5>2. QED BY ONLY <3>1, <3>2, <5>1, ElementOfSeq
      <4> HIDE DEF y
      <4>3. ASSUME s.depth \in 1 .. e - 2, y.index < Len(u[e - 1])
            PROVE  y.index < Len(v[e - 1]) /\ v[e - 1][y.index + 1] = u[e - 1][y.index + 1]
        <5>1. e - 1 \in Depths
          <6>1. PICK h : h \in 1 .. e - 2
            BY <4>3
          <6>2. e \in 1 .. MaxDepth
            BY <3>1 DEF Depths
          <6>3. QED BY ONLY <6>1, <6>2, DepthAssumption DEF Depths
        <5>2. y.index \in Nat /\ Len(u[e - 1]) \in Nat /\ Len(v[e - 1]) \in Nat
          BY <2>4, <4>2, <5>1, LenProperties DEF Capture
        <5>3. /\ Len(v[e - 1]) >= Len(u[e - 1])
              /\ \A j \in 1 .. Len(u[e - 1]) : v[e - 1][j] = u[e - 1][j]
          BY <2>5, <5>1
        <5>4. y.index + 1 \in 1 .. Len(u[e - 1])
          BY ONLY SMTT(40), <4>3, <5>2
        <5>5. y.index < Len(v[e - 1])
          BY ONLY <4>3, <5>2, <5>3
        <5>6. QED BY <5>3, <5>4, <5>5
      <4>4. Leads(items, u, e, y)
        BY <4>1 DEF y
      <4>5. Leads(items, v, e, y)
        BY <4>3, <4>4 DEF Leads
      <4>6. QED BY <4>1, <4>5 DEF y
    <3>3. CASE i \notin DOMAIN u[e]
      <4>1. e = d /\ v[e][i] = c
        BY <1>1, <2>3, <2>4, <3>1, <3>3
      <4>2. c.name = x /\ c.from = from /\ c.index = index
        BY DEF c
      <4>3. CASE d = home + 1
        <5>1. from = "local"
          BY <4>3 DEF from
        <5>2. QED BY <1>1, <4>1, <4>2, <4>3, <5>1 DEF Leads, Holds, Handed
      <4>4. CASE d # home + 1
        <5>1. from = "upval"
          BY <4>4 DEF from
        <5>2. home \in 1 .. d - 2 /\ d - 1 \in Depths /\ d - 1 # d
          BY <1>1, <4>4, DepthAssumption DEF Depths
        <5>3. v[d - 1] = u[d - 1]
          BY <2>4, <5>2
        <5>4. QED BY <4>1, <4>2, <4>4, <5>1, <5>2, <5>3 DEF Leads, Holds, Handed
      <4>5. QED BY <4>3, <4>4
    <3>4. QED BY <3>2, <3>3
  <2>7. AllLead(items, v, m)
    BY <2>6 DEF AllLead
  <2>8. r.index \in Nat /\ r.index < Len(v[d]) /\ v[d][r.index + 1].name = x
    BY <1>1, <2>1, <2>3, <2>4 DEF c
  <2>9. Answer(items, m, x, d, r)
    BY <2>1, <2>4, <2>7, <2>8 DEF Answer
  <2>10. QED BY <2>9 DEF r, from
<1>4. QED BY <1>2, <1>3

(* The recursion of resolve_upvalue from depth home up to depth m.         *)
Chain(R, u, x, home, slot, m) ==
  R = [d \in home .. m |->
         IF d = home
         THEN [ups |-> u, index |-> slot]
         ELSE Register(R[d - 1].ups, d, x, IF d = home + 1 THEN "local" ELSE "upval", R[d - 1].index)]

(* The recursion has a solution: if not, there is a least depth without    *)
(* one, and the solution for the depth before can be extended.             *)
LEMMA ChainExists ==
  ASSUME NEW u, NEW x, NEW slot, NEW home \in Nat, NEW here \in Nat, home <= here
  PROVE  \E R : Chain(R, u, x, home, slot, here)
<1> DEFINE T == {m \in Nat : home <= m /\ ~ \E R : Chain(R, u, x, home, slot, m)}
<1>1. SUFFICES ASSUME T # {} PROVE FALSE
  OBVIOUS
<1>2. PICK m \in T : \A e \in T : m <= e
  BY <1>1, LeastElement
<1>3. m \in Nat /\ home <= m /\ ~ \E R : Chain(R, u, x, home, slot, m)
  OBVIOUS
<1>4. CASE m = home
  <2> DEFINE R == [d \in home .. m |-> [ups |-> u, index |-> slot]]
  <2>1. \A d \in home .. m : d = home
    BY <1>4
  <2>2. Chain(R, u, x, home, slot, m)
    BY <2>1 DEF Chain
  <2>3. QED BY <1>3, <2>2
<1>5. CASE m # home
  <2>1. m - 1 \in Nat /\ home <= m - 1 /\ ~ (m <= m - 1)
    BY <1>3, <1>5
  <2>2. m - 1 \notin T
    BY <1>2, <2>1
  <2>3. PICK S : Chain(S, u, x, home, slot, m - 1)
    BY <2>1, <2>2
  <2> DEFINE F(d, r) == IF d = home
                        THEN [ups |-> u, index |-> slot]
                        ELSE Register(r.ups, d, x, IF d = home + 1 THEN "local" ELSE "upval", r.index)
             R == [d \in home .. m |-> IF d = m THEN F(m, S[m - 1]) ELSE S[d]]
  <2>4. S = [d \in home .. m - 1 |-> F(d, S[d - 1])]
    BY <2>3 DEF Chain
  <2> HIDE DEF F
  <2>5. \A d \in home .. m - 1 : S[d] = F(d, S[d - 1]) /\ R[d] = S[d]
    BY <1>3, <2>1, <2>4
  <2>6. R[m] = F(m, S[m - 1]) /\ m - 1 \in home .. m - 1 /\ m \in home .. m
    BY <1>3, <2>1
  <2>7. \A d \in home .. m - 1 : d # home => d - 1 \in home .. m - 1
    BY <1>3
  <2>8. \A r, s : F(home, r) = F(home, s)
    BY DEF F
  <2>9. \A d \in home .. m : R[d] = F(d, R[d - 1])
    <3> SUFFICES ASSUME NEW d \in home .. m PROVE R[d] = F(d, R[d - 1])
      OBVIOUS
    <3> HIDE DEF R
    <3>1. CASE d = m
      BY <2>5, <2>6, <3>1
    <3>2. CASE d # m /\ d # home
      <4>1. d \in home .. m - 1 /\ d - 1 \in home .. m - 1
        BY ONLY <1>3, <3>2, d \in home .. m, home \in Nat
      <4>2. QED BY <2>5, <4>1
    <3>3. CASE d # m /\ d = home
      <4>1. d \in home .. m - 1
        BY <2>1, <3>3
      <4>2. QED BY <2>5, <2>8, <3>3, <4>1
    <3>4. QED BY <3>1, <3>2, <3>3
  <2>10. R = [d \in home .. m |-> F(d, R[d - 1])]
    <3>1. R = [d \in home .. m |-> R[d]]
      OBVIOUS
    <3> HIDE DEF R
    <3>2. QED BY <2>9, <3>1
  <2> HIDE DEF R
  <2>11. Chain(R, u, x, home, slot, m)
    BY <2>10 DEF Chain, F
  <2>12. QED BY <1>3, <2>11
<1>6. QED BY <1>4, <1>5

LEMMA ResolveChain ==
  ASSUME NEW u, NEW x, NEW slot, NEW home \in Nat, NEW here \in Nat, home <= here
  PROVE  \E R : Chain(R, u, x, home, slot, here) /\ ResolveUpvalue(u, x, home, slot, here) = R[here]
<1> DEFINE Body(R) == [d \in home .. here |->
                        IF d = home
                        THEN [ups |-> u, index |-> slot]
                        ELSE Register(R[d - 1].ups, d, x, IF d = home + 1 THEN "local" ELSE "upval", R[d - 1].index)]
           R == CHOOSE R : R = Body(R)
<1>1. ResolveUpvalue(u, x, home, slot, here) = R[here]
  BY DEF ResolveUpvalue
<1>2. \A S : Chain(S, u, x, home, slot, here) <=> S = Body(S)
  BY DEF Chain
<1> HIDE DEF Body
<1>3. \E S : S = Body(S)
  BY <1>2, ChainExists
<1>4. R = Body(R)
  BY <1>3
<1>5. QED BY <1>1, <1>2, <1>4

LEMMA ChainTrue ==
  ASSUME NEW items \in Seq(Item), NEW m \in Nat, m <= MaxDepth,
         NEW u \in [Depths -> Seq(Capture)], AllLead(items, u, m), NEW x \in Name,
         NEW home \in Nat, home > 0, home <= m, \A d \in 1 .. m : d > home => Holds(items, x, home, d),
         NEW slot \in Nat, slot = items[Max(Above(items, x, home + 1))].slot,
         NEW R, Chain(R, u, x, home, slot, m)
  PROVE  R[m].ups \in [Depths -> Seq(Capture)] /\ AllLead(items, R[m].ups, m)
<1> DEFINE Good(d) ==
             /\ R[d].ups \in [Depths -> Seq(Capture)] /\ AllLead(items, R[d].ups, m)
             /\ R[d].index \in Nat
             /\ d = home => R[d].index = slot
             /\ d # home => R[d].index < Len(R[d].ups[d]) /\ R[d].ups[d][R[d].index + 1].name = x
           T == {d \in Nat : d \in home .. m /\ ~ Good(d)}
<1>1. R[home].ups = u /\ R[home].index = slot
  BY DEF Chain
<1>2. \A d \in home .. m : d # home =>
        R[d] = Register(R[d - 1].ups, d, x, IF d = home + 1 THEN "local" ELSE "upval", R[d - 1].index)
  BY DEF Chain
<1>3. ASSUME T # {} PROVE FALSE
  <2>1. T \in SUBSET Nat
    OBVIOUS
  <2>2. PICK d \in T : \A e \in T : d <= e
    BY ONLY <1>3, <2>1, LeastElement
  <2>3. d \in Nat /\ d \in home .. m /\ ~ Good(d)
    BY <2>2
  <2>4. d # home
    BY <1>1, <2>3
  <2>5. d - 1 \in home .. m /\ d - 1 \in Nat /\ d \in 1 .. m /\ d > home /\ ~ (d <= d - 1)
    BY ONLY <2>3, <2>4, home \in Nat, home > 0
  <2>6. Good(d - 1)
    BY <2>2, <2>5
  <2>7. Handed(items, R[d - 1].ups, x, home, d, R[d - 1].index)
    <3>1. CASE d = home + 1
      <4>1. d - 1 = home
        BY <3>1
      <4>2. QED BY <2>6, <3>1, <4>1 DEF Handed
    <3>2. CASE d # home + 1
      <4>1. d - 1 # home
        BY <2>5, <3>2
      <4>2. QED BY <2>6, <3>2, <4>1 DEF Handed
    <3>3. QED BY <3>1, <3>2
  <2>8. R[d] = Register(R[d - 1].ups, d, x, IF d = home + 1 THEN "local" ELSE "upval", R[d - 1].index)
    BY <1>2, <2>3, <2>4
  <2>9. Holds(items, x, home, d)
    BY <2>5
  <2>10. PICK v, k : v = R[d - 1].ups /\ k = R[d - 1].index
    OBVIOUS
  <2>11. /\ v \in [Depths -> Seq(Capture)] /\ AllLead(items, v, m) /\ k \in Nat
         /\ Handed(items, v, x, home, d, k)
    BY <2>6, <2>7, <2>10
  <2>12. /\ items \in Seq(Item) /\ m \in Nat /\ m <= MaxDepth /\ x \in Name /\ home \in Nat /\ home > 0
         /\ d \in 1 .. m /\ d > home
    BY <2>5
  <2>13. Answer(items, m, x, d, Register(v, d, x, IF d = home + 1 THEN "local" ELSE "upval", k))
    BY ONLY <2>9, <2>11, <2>12, RegisterTrue
  <2>14. Good(d)
    BY <2>4, <2>8, <2>10, <2>13 DEF Answer
  <2>15. QED BY <2>3, <2>14
<1>4. m \in home .. m /\ m \in Nat
  OBVIOUS
<1>5. QED BY <1>3, <1>4

LEMMA UseKeepsCaptures ==
  ASSUME CaptureInv, NEW x \in Name, UseName(x)
  PROVE  ups' \in [Depths -> Seq(Capture)] /\ AllLead(st.items, ups', st.depth)
<1> DEFINE P == {i \in 1 .. Len(st.items) : st.items[i].name = x}
           i == Max(P)
           s == Lookup(st, x)
           home == st.items[i].depth
           slot == st.items[i].slot
           m == st.depth
<1>1. /\ ScopesInv /\ CapturesTrue /\ ups \in [Depths -> Seq(Capture)]
      /\ st.items \in Seq(Item) /\ Len(st.items) \in Nat /\ DOMAIN st.items = 1 .. Len(st.items)
      /\ m \in Nat /\ m <= MaxDepth
  BY Typing, LenProperties, DepthAssumption DEF CaptureInv
<1>2. s.slot >= 0 /\ s.depth \notin {0, m} /\ ups' = ResolveUpvalue(ups, x, s.depth, s.slot, m).ups
  BY DEF UseName
<1>3. P # {} /\ s = st.items[i]
  <2>1. CASE P = {}
    BY <1>2, <2>1 DEF Lookup, Innermost, Missing
  <2>2. CASE P # {} /\ i # 0
    BY SMTT(40), <2>2 DEF Lookup, Innermost
  <2>3. CASE P # {} /\ i = 0
    BY <1>2, <2>3 DEF Lookup, Innermost, Missing
  <2>4. QED BY <2>1, <2>2, <2>3
<1>4. i \in P /\ \A j \in P : i >= j
  <2>1. P \in SUBSET (0 .. Len(st.items))
    BY <1>1
  <2> HIDE DEF P
  <2>2. \E j \in P : \A k \in P : j >= k
    BY ONLY <1>1, <1>3, <2>1, GreatestElement
  <2>3. QED BY <2>2 DEF Max
<1>5. i \in 1 .. Len(st.items) /\ st.items[i].name = x /\ home \in Nat /\ slot \in Nat /\ home <= m
  BY <1>1, <1>4, Typing DEF ScopesInv, Older
<1>6. home > 0 /\ home < m
  BY <1>1, <1>2, <1>3, <1>5
<1>7. \A d \in Nat : d > home => Above(st.items, x, d) # {} /\ Max(Above(st.items, x, d)) = i
  <2> SUFFICES ASSUME NEW d \in Nat, d > home
               PROVE  Above(st.items, x, d) # {} /\ Max(Above(st.items, x, d)) = i
    OBVIOUS
  <2>1. i \in Above(st.items, x, d) /\ Above(st.items, x, d) \subseteq P
    BY <1>1, <1>5 DEF Above
  <2>2. /\ Max(Above(st.items, x, d)) \in Above(st.items, x, d)
        /\ Max(Above(st.items, x, d)) >= i
    BY <1>1, <2>1, AboveFacts
  <2>3. PICK j : j = Max(Above(st.items, x, d))
    OBVIOUS
  <2>4. j \in P /\ i >= j /\ j >= i /\ j \in Nat /\ i \in Nat
    BY <1>4, <1>5, <2>1, <2>2, <2>3
  <2>5. j = i
    BY ONLY <2>4
  <2>6. QED BY <2>1, <2>3, <2>5
<1> HIDE DEF i, P
<1>8. /\ \A d \in 1 .. m : d > home => Holds(st.items, x, home, d)
      /\ slot = st.items[Max(Above(st.items, x, home + 1))].slot
  <2>1. \A d \in 1 .. m : d \in Nat
    OBVIOUS
  <2>2. home + 1 \in Nat /\ home + 1 > home
    BY <1>5
  <2>3. QED BY <1>7, <2>1, <2>2 DEF Holds
<1> HIDE DEF home, slot, m, s
<1>9. s.depth = home /\ s.slot = slot
  BY <1>3 DEF home, slot
<1>10. home <= m
  BY <1>5
<1>11. PICK R : Chain(R, ups, x, home, slot, m) /\ ResolveUpvalue(ups, x, home, slot, m) = R[m]
  BY ONLY <1>1, <1>5, <1>10, ResolveChain
<1>12. AllLead(st.items, ups, m)
  BY <1>1, TrueLeads DEF m
<1>13. R[m].ups \in [Depths -> Seq(Capture)] /\ AllLead(st.items, R[m].ups, m)
  BY ONLY x \in Name, <1>1, <1>5, <1>6, <1>8, <1>10, <1>11, <1>12, ChainTrue
<1>14. QED BY <1>2, <1>9, <1>11, <1>13 DEF m

LEMMA CaptureInit == Init => CaptureInv
<1> SUFFICES ASSUME Init PROVE CaptureInv
  OBVIOUS
<1>1. st.depth = 0 /\ st.items = <<>> /\ Len(st.items) = 0 /\ ups = [d \in Depths |-> <<>>]
  BY DEF Init, NewTable, NoCaptures
<1>2. ScopesInv
  BY InitInv
<1>3. Newer
  BY <1>1 DEF Newer
<1>4. ups \in [Depths -> Seq(Capture)]
  BY <1>1, EmptySeq
<1>5. CapturesTrue
  BY <1>1 DEF CapturesTrue
<1>6. QED BY <1>2, <1>3, <1>4, <1>5 DEF CaptureInv

LEMMA CaptureNext == CaptureInv /\ [Next]_svars => CaptureInv'
<1> SUFFICES ASSUME CaptureInv, [Next]_svars PROVE CaptureInv'
  OBVIOUS
<1>a. ScopesInv /\ ScopesInv' /\ Newer /\ CapturesTrue /\ ups \in [Depths -> Seq(Capture)] /\ st.depth \in Nat
  BY NextInv, Typing DEF CaptureInv
<1>1. CASE OpenBlock
  <2>1. PICK v \in Nat : Opened(v)
    BY <1>a, <1>1, OpenBlockOpens
  <2>2. st'.depth = st.depth /\ ups' = ups
    BY <1>a, <1>1 DEF OpenBlock, PushScope, ScopesInv, Tables
  <2>3. QED BY <1>a, <2>1, <2>2, OpenedNewer, OpenedCaptures DEF CaptureInv
<1>2. CASE OpenFunction
  <2>1. Opened(0)
    BY <1>a, <1>2, OpenFunctionOpens
  <2>2. st'.depth = st.depth + 1 /\ ups' = [ups EXCEPT ![st.depth + 1] = <<>>]
    BY <1>a, <1>2 DEF OpenFunction, PushScope, EnterFunction, ScopesInv, Tables
  <2>3. st'.depth # st.depth
    BY <1>a, <2>2
  <2>4. QED BY <1>a, <2>1, <2>2, <2>3, OpenedNewer, OpenedCaptures DEF CaptureInv
<1>3. CASE CloseBlock \/ CloseFunction
  <2>1. Closed /\ ups' = ups
    BY <1>a, <1>3, CloseBlockCloses, CloseFunctionCloses DEF CloseBlock, CloseFunction
  <2>2. QED BY <1>a, <2>1, ClosedNewer, ClosedCaptures DEF CaptureInv
<1>4. CASE UNCHANGED svars
  <2>1. st' = st /\ ups' = ups /\ within' = within
    BY <1>4 DEF svars
  <2>2. Newer'
    BY <1>a, <2>1 DEF Newer, n
  <2>3. (CapturesTrue <=> AllLead(st.items, ups, st.depth))'
    BY TrueLeads, PTL
  <2>4. CapturesTrue'
    BY <1>a, <2>1, <2>3, TrueLeads
  <2>5. QED BY <1>a, <2>1, <2>2, <2>4 DEF CaptureInv
<1>5. ASSUME NEW x \in Name, DeclareName(x) PROVE CaptureInv'
  <2>1. ups' = ups
    BY <1>5 DEF DeclareName
  <2>2. CASE UNCHANGED <<st, within>>
    BY <1>4, <2>1, <2>2 DEF svars
  <2>3. CASE Declared(x)
    <3>1. st'.items \in Seq(Item)
      BY <1>a DEF ScopesInv, Tables
    <3>2. QED BY <1>a, <2>1, <2>3, <3>1, DeclaredNewer, DeclaredCaptures DEF CaptureInv
  <2>4. QED BY <1>a, <1>5, <2>2, <2>3, DeclareDeclares
<1>6. ASSUME NEW x \in Name, UseName(x) PROVE CaptureInv'
  <2>1. ups' \in [Depths -> Seq(Capture)] /\ AllLead(st.items, ups', st.depth)
    BY <1>6, UseKeepsCaptures
  <2>2. st' = st /\ within' = within
    BY <1>6 DEF UseName
  <2>3. Newer'
    BY <1>a, <2>2 DEF Newer, n
  <2>4. (CapturesTrue <=> AllLead(st.items, ups, st.depth))'
    BY TrueLeads, PTL
  <2>5. CapturesTrue'
    BY <2>1, <2>2, <2>4
  <2>6. QED BY <1>a, <2>1, <2>3, <2>5 DEF CaptureInv
<1>7. QED BY <1>1, <1>2, <1>3, <1>4, <1>5, <1>6 DEF Next

LEMMA CaptureInvAlways == Spec => []CaptureInv
BY CaptureInit, CaptureNext, PTL DEF Spec

(* Types, and two stacks of the same height, in every nesting.             *)
THEOREM ScopeTypes == Spec => []TypeOK
<1>1. CaptureInv => TypeOK
  BY Typing DEF CaptureInv, ScopesInv, Tables, TypeOK, n
<1>2. QED BY <1>1, CaptureInvAlways, PTL

(* What resolve_upvalue enters for a nested function leads, through any    *)
(* number of functions in between, to the variable that the name means     *)
(* there, and goes on doing so whatever is declared and closed meanwhile.  *)
THEOREM CapturesTrueAlways == Spec => []CapturesTrue
<1>1. CaptureInv => CapturesTrue
  BY DEF CaptureInv
<1>2. QED BY <1>1, CaptureInvAlways, PTL
================================================================================
