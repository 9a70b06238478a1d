----------------------------- MODULE NativeGCProofs ----------------------------
(***************************************************************************)
(* The collector of the native runtime keeps the heap intact, never enters *)
(* a block twice and implements the atomic collector of ManagedHeap.       *)
(*                                                                         *)
(* To what the mutator keeps true (HeapInv) comes what the mark phase      *)
(* keeps true (MarkInv): what is marked is reachable and, except for what  *)
(* a running call of cl_mark_descend has left to do, leads to marked       *)
(* blocks only.                                                            *)
(***************************************************************************)
EXTENDS NativeHeapProofs

(* A block the mark phase has done with.                                   *)
Done(a) == Refs(a, 0) = {}

(* The blocks of every closed set that has all the stack leads to.         *)
Justified ==
  \A S \in SUBSET DOMAIN mem :
    Heap!StackWords \cap DOMAIN mem \subseteq S /\ Heap!Closed(mem, S) => marked \subseteq S

NoUnset(a) == Unset \notin {mem[a].bufs[k] : k \in DOMAIN mem[a].bufs}

(* The stack words that were read, the references that were followed.      *)
Scanned == \A i \in 1 .. scan : i <= Len(Stack) => ~ Unseen(Stack[i])

Followed ==
  \A k \in 1 .. Len(path) : \A i \in 1 .. path[k][2] :
    NoUnset(path[k][1]) /\ (i <= RefCount(path[k][1]) => ~ Unseen(Ref(path[k][1], i)))

(* The mark phase has done with a marked block, or is at it.               *)
Pending == \A a \in marked : Done(a) \/ \E k \in 1 .. Len(path) : path[k][1] = a

MarkInv ==
  /\ phase \in {"off", "mark"} /\ scan \in Nat
  /\ path \in Seq(Addr \X Nat)
  /\ phase = "off" => marked = {} /\ path = <<>> /\ scan = 0
  /\ phase = "mark" => call # Idle
  /\ marked \subseteq DOMAIN mem
  /\ Justified /\ Scanned /\ Followed /\ Pending /\ DescentSimple

GCInv == HeapInv /\ MarkInv

-------------------------------------------------------------------------------
(* The stack and the references of a block.                                *)

LEMMA StackFacts ==
  ASSUME HeapInv
  PROVE  /\ Stack \in Seq(Word) /\ Len(Stack) \in Nat
         /\ \A i \in 1 .. Len(Stack) : Stack[i] \in Heap!StackWords
         /\ \A w \in Heap!StackWords : \E i \in 1 .. Len(Stack) : Stack[i] = w
<1>1. call.words \in Seq(Word) /\ local \in Seq(Word) /\ Len(local) = NSlots /\ NSlots \in Nat
  BY MutatorAssumption DEF HeapInv, CallInv, Roots, Slot
<1>2. Len(call.words) \in Nat
  BY ONLY <1>1, LenProperties
<1>3. /\ Stack \in Seq(Word)
      /\ Len(Stack) = Len(call.words) + NSlots
      /\ \A i \in 1 .. Len(call.words) : Stack[i] = call.words[i]
      /\ \A j \in 1 .. NSlots : Stack[Len(call.words) + j] = local[j]
  <2>1. PICK c \in Seq(Word), d \in Seq(Word) : c = call.words /\ d = local
    BY <1>1
  <2>2. /\ c \o d \in Seq(Word) /\ Len(c \o d) = Len(c) + Len(d)
        /\ \A i \in 1 .. Len(c) : (c \o d)[i] = c[i]
        /\ \A j \in 1 .. Len(d) : (c \o d)[Len(c) + j] = d[j]
    BY ConcatFacts
  <2>3. QED BY ONLY <1>1, <2>1, <2>2 DEF Stack
<1>4. ASSUME NEW i \in 1 .. Len(Stack)
      PROVE  Stack[i] \in Heap!StackWords
  <2>1. CASE i <= Len(call.words)
    BY <1>2, <1>3, <2>1 DEF Heap!StackWords
  <2>2. CASE ~ (i <= Len(call.words))
    <3>1. PICK j \in 1 .. NSlots : i = Len(call.words) + j
      <4>1. i - Len(call.words) \in 1 .. NSlots /\ i = Len(call.words) + (i - Len(call.words))
        BY <1>1, <1>2, <1>3, <2>2
      <4>2. QED BY ONLY <4>1
    <3>2. QED BY <1>3, <3>1 DEF Heap!StackWords, Heap!Slot
  <2>3. QED BY <2>1, <2>2
<1>5. ASSUME NEW w \in Heap!StackWords
      PROVE  \E i \in 1 .. Len(Stack) : Stack[i] = w
  <2>1. ASSUME NEW j \in 1 .. NSlots, w = local[j]
        PROVE  \E i \in 1 .. Len(Stack) : Stack[i] = w
    <3>1. Len(call.words) + j \in 1 .. Len(Stack) /\ Stack[Len(call.words) + j] = w
      BY <1>1, <1>2, <1>3, <2>1
    <3>2. QED BY ONLY <3>1
  <2>2. ASSUME NEW j \in 1 .. Len(call.words), w = call.words[j]
        PROVE  \E i \in 1 .. Len(Stack) : Stack[i] = w
    <3>1. j \in 1 .. Len(Stack) /\ Stack[j] = w
      BY <1>1, <1>2, <1>3, <2>2
    <3>2. QED BY ONLY <3>1
  <2>3. QED BY <2>1, <2>2 DEF Heap!StackWords, Heap!Slot
<1>6. QED BY <1>1, <1>2, <1>3, <1>4, <1>5

LEMMA BufFacts ==
  ASSUME HeapInv, NEW a \in DOMAIN mem
  PROVE  /\ Len(mem[a].bufs) \in {0, 1, 2} /\ DOMAIN mem[a].bufs = 1 .. Len(mem[a].bufs)
         /\ mem[a].len \in Nat /\ RefCount(a) \in Nat
         /\ mem[a].kind = "box" => Len(mem[a].bufs) = 0
         /\ NoUnset(a) => \A k \in 1 .. Len(mem[a].bufs) : mem[a].bufs[k] # Unset
         /\ ~ NoUnset(a) => Len(mem[a].bufs) = 1 /\ mem[a].bufs[1] = Unset /\ mem[a].kind # "box"
<1>1. /\ Len(mem[a].bufs) = Buffers[mem[a].kind] /\ mem[a].kind \in Kind /\ mem[a].len \in Nat
      /\ mem[a].bufs \in Seq(Addr \cup {NULL, Unset})
      /\ mem[a].kind # "closure" => \A k \in 1 .. Len(mem[a].bufs) : mem[a].bufs[k] # Unset
  BY BlockFacts DEF HeapInv, Memory, Blocks
<1>2. /\ Len(mem[a].bufs) \in {0, 1, 2}
      /\ mem[a].kind = "box" => Len(mem[a].bufs) = 0
      /\ mem[a].kind = "closure" => Len(mem[a].bufs) = 1
  BY <1>1, BufferCounts DEF Kind
<1>3. DOMAIN mem[a].bufs = 1 .. Len(mem[a].bufs)
  BY ONLY <1>1, LenProperties
<1>4. RefCount(a) \in Nat
  <2>1. CASE Len(mem[a].bufs) = 0
    BY <1>1, <2>1 DEF RefCount
  <2>2. CASE Len(mem[a].bufs) = 1
    BY <1>1, <2>2 DEF RefCount
  <2>3. CASE Len(mem[a].bufs) = 2
    BY <1>1, <2>3 DEF RefCount
  <2>4. QED BY <1>2, <2>1, <2>2, <2>3
<1>5. NoUnset(a) => \A k \in 1 .. Len(mem[a].bufs) : mem[a].bufs[k] # Unset
  BY <1>3 DEF NoUnset
<1>6. ~ NoUnset(a) => Len(mem[a].bufs) = 1 /\ mem[a].bufs[1] = Unset /\ mem[a].kind # "box"
  BY <1>1, <1>2, <1>3 DEF NoUnset
<1>7. QED BY <1>1, <1>2, <1>3, <1>4, <1>5, <1>6

(* The elements of a container whose buffers are there.                    *)
LEMMA ElementsThere ==
  ASSUME HeapInv, NEW a \in DOMAIN mem, NEW k \in 1 .. Len(mem[a].bufs), NEW x \in 1 .. mem[a].len,
         mem[a].bufs[k] # Unset
  PROVE  /\ mem[a].bufs[k] \in DOMAIN mem
         /\ Contents(mem, mem[a].bufs[k]) = mem[mem[a].bufs[k]].words
         /\ x \in DOMAIN Contents(mem, mem[a].bufs[k])
<1>1. Serves(mem, mem[a].len, mem[a].bufs[k])
  BY ContainerFacts
<1>2. mem[a].len \in Nat
  BY BufFacts
<1>3. PICK p : p = mem[a].bufs[k]
  OBVIOUS
<1>4. p \in DOMAIN mem /\ mem[a].len <= Len(mem[p].words)
  BY <1>1, <1>2, <1>3 DEF Serves
<1>5. mem[p].words \in Seq(Word \cup {Unset})
  BY <1>4, BlockFacts DEF HeapInv, Memory
<1>6. DOMAIN mem[p].words = 1 .. Len(mem[p].words) /\ Len(mem[p].words) \in Nat
  BY ONLY <1>5, LenProperties
<1>7. x \in DOMAIN mem[p].words
  BY <1>2, <1>4, <1>6
<1>8. QED BY <1>3, <1>4, <1>7 DEF Contents

(* The references of a block are what it leads to.                         *)
LEMMA RefIsChild ==
  ASSUME HeapInv, NEW a \in DOMAIN mem, NoUnset(a), NEW i \in 1 .. RefCount(a)
  PROVE  Ref(a, i) \in Heap!Children(mem, a)
<1> DEFINE n == Len(mem[a].bufs)
           m == mem[a].len
           j == i - n - 1
<1>1. /\ n \in {0, 1, 2} /\ m \in Nat /\ RefCount(a) \in Nat
      /\ \A k \in 1 .. n : mem[a].bufs[k] # Unset
  BY BufFacts
<1>2. CASE mem[a].kind = "box"
  BY <1>2, ChildrenFacts DEF Ref
<1>3. CASE mem[a].kind # "box" /\ i <= n
  <2>1. i \in 1 .. n /\ Ref(a, i) = mem[a].bufs[i]
    BY <1>1, <1>3 DEF Ref
  <2>2. QED BY <2>1, ChildrenFacts
<1>4. CASE mem[a].kind # "box" /\ i > n
  <2>1. RefCount(a) = n * (1 + m)
    BY <1>4 DEF RefCount
  <2>2. PICK k, x : k = (j % n) + 1 /\ x = (j \div n) + 1
    OBVIOUS
  <2>3. k \in 1 .. n /\ x \in 1 .. m
    <3>1. i \in 1 .. n * (1 + m) /\ i \in Nat
      BY <2>1, <1>1
    <3> HIDE DEF n, m
    <3>2. n # 0
      BY ONLY <1>1, <3>1
    <3>3. CASE n = 1
      <4>1. i \in 1 .. 1 + m /\ i > 1 /\ j = i - 2
        BY ONLY <1>1, <1>4, <3>1, <3>3
      <4>2. j \in Nat /\ k = (j % 1) + 1 /\ x = (j \div 1) + 1
        BY ONLY <1>1, <2>2, <3>3, <4>1
      <4>3. k = 1 /\ x = j + 1
        BY ONLY <4>2
      <4>4. QED BY ONLY <1>1, <3>3, <4>1, <4>3
    <3>4. CASE n = 2
      <4>1. i \in 1 .. 2 * (1 + m) /\ i > 2 /\ j = i - 3
        BY ONLY <1>1, <1>4, <3>1, <3>4
      <4>2. j \in Nat /\ k = (j % 2) + 1 /\ x = (j \div 2) + 1 /\ j < 2 * m
        BY ONLY <1>1, <2>2, <3>4, <4>1
      <4>3. k \in 1 .. 2 /\ x \in 1 .. m
        BY ONLY <1>1, <4>2
      <4>4. QED BY ONLY <3>4, <4>3
    <3>5. QED BY <1>1, <3>2, <3>3, <3>4
  <2>4. Ref(a, i) = mem[mem[a].bufs[k]].words[x]
    BY <1>4, <2>2, <1>1 DEF Ref
  <2>5. /\ Contents(mem, mem[a].bufs[k]) = mem[mem[a].bufs[k]].words
        /\ x \in DOMAIN Contents(mem, mem[a].bufs[k])
    BY <1>1, <2>3, ElementsThere
  <2>6. x \in (1 .. mem[a].len) \cap DOMAIN Contents(mem, mem[a].bufs[k])
    BY <2>3, <2>5
  <2>7. Contents(mem, mem[a].bufs[k])[x] \in Heap!Children(mem, a)
    BY <1>4, <2>3, <2>6, ChildrenFacts
  <2>8. QED BY ONLY <2>4, <2>5, <2>7
<1>5. QED BY <1>1, <1>2, <1>3, <1>4

(* And all that it leads to is among its references.                       *)
LEMMA ChildIsRef ==
  ASSUME HeapInv, NEW a \in DOMAIN mem, NoUnset(a), NEW w \in Heap!Children(mem, a)
  PROVE  \E i \in 1 .. RefCount(a) : Ref(a, i) = w
<1> DEFINE n == Len(mem[a].bufs)
           m == mem[a].len
<1>1. /\ n \in {0, 1, 2} /\ m \in Nat /\ RefCount(a) \in Nat
      /\ mem[a].kind = "box" => n = 0
      /\ \A k \in 1 .. n : mem[a].bufs[k] # Unset
  BY BufFacts
<1>2. mem[a].kind # "box" => RefCount(a) = n * (1 + m)
  BY DEF RefCount
<1>3. CASE mem[a].kind = "box"
  <2>1. w = mem[a].words[1]
    BY <1>1, <1>3 DEF Heap!Children, Heap!Elements
  <2>2. RefCount(a) = 1 /\ Ref(a, 1) = w
    BY <1>3, <2>1 DEF RefCount, Ref
  <2>3. QED BY ONLY <2>2
<1>4. CASE mem[a].kind # "box"
  <2>1. ASSUME NEW k \in 1 .. n, w = mem[a].bufs[k]
        PROVE  \E i \in 1 .. RefCount(a) : Ref(a, i) = w
    <3>1. Ref(a, k) = w
      BY <1>1, <1>4, <2>1 DEF Ref
    <3>2. k \in 1 .. n * (1 + m)
      <4> HIDE DEF n, m
      <4>1. CASE n = 1
        BY ONLY <1>1, <4>1, k \in 1 .. n
      <4>2. CASE n = 2
        BY ONLY <1>1, <4>2, k \in 1 .. n
      <4>3. CASE n = 0
        BY ONLY <1>1, <4>3, k \in 1 .. n
      <4>4. QED BY <1>1, <4>1, <4>2, <4>3
    <3>3. QED BY ONLY <1>2, <1>4, <3>1, <3>2
  <2>2. ASSUME NEW k \in 1 .. n, NEW x \in (1 .. m) \cap DOMAIN Contents(mem, mem[a].bufs[k]),
               w = Contents(mem, mem[a].bufs[k])[x]
        PROVE  \E i \in 1 .. RefCount(a) : Ref(a, i) = w
    <3>1. w = mem[mem[a].bufs[k]].words[x]
      BY <1>1, <2>2, ElementsThere
    <3>2. PICK i, j : j = n * (x - 1) + (k - 1) /\ i = n + 1 + j
      OBVIOUS
    <3>3. i \in 1 .. n * (1 + m) /\ i > n /\ j = i - n - 1 /\ (j % n) + 1 = k /\ (j \div n) + 1 = x
      <4>1. k \in 1 .. n /\ x \in 1 .. m
        BY <2>2
      <4> HIDE DEF n, m
      <4>2. CASE n = 1
        <5>1. j = x - 1 /\ i = x + 1 /\ j \in Nat /\ k = 1
          BY ONLY <1>1, <3>2, <4>1, <4>2
        <5>2. j % 1 = 0 /\ j \div 1 = j
          BY ONLY <5>1
        <5>3. QED BY ONLY <1>1, <4>1, <4>2, <5>1, <5>2
      <4>3. CASE n = 2
        <5>1. j = 2 * (x - 1) + (k - 1) /\ i = 3 + j /\ j \in Nat /\ k \in {1, 2} /\ x - 1 \in Nat
          BY ONLY <1>1, <3>2, <4>1, <4>3
        <5>2. j % 2 = k - 1 /\ j \div 2 = x - 1
          BY ONLY <5>1
        <5>3. i \in 1 .. 2 * (1 + m) /\ i > 2 /\ j = i - 2 - 1
          BY ONLY <1>1, <4>1, <4>3, <5>1
        <5>4. QED BY ONLY <4>3, <5>1, <5>2, <5>3
      <4>4. CASE n = 0
        BY ONLY <4>1, <4>4
      <4>5. QED BY <1>1, <4>2, <4>3, <4>4
    <3>4. Ref(a, i) = w
      <4>1. Ref(a, i) = mem[mem[a].bufs[((i - n - 1) % n) + 1]].words[((i - n - 1) \div n) + 1]
        BY <1>1, <1>4, <3>3 DEF Ref
      <4> HIDE DEF n, m
      <4>2. QED BY ONLY <3>1, <3>3, <4>1
    <3>5. QED BY ONLY <1>2, <1>4, <3>3, <3>4
  <2>3. QED BY <1>4, <2>1, <2>2 DEF Heap!Children, Heap!Elements, Heap!Contents, Contents
<1>5. QED BY <1>3, <1>4

(* What remains to be followed.                                            *)

LEMMA MinFacts ==
  ASSUME NEW T \in SUBSET Nat, T # {}
  PROVE  Min(T) \in T /\ \A y \in T : Min(T) <= y
BY LeastElement DEF Min

LEMMA MaxFacts ==
  ASSUME NEW n \in Nat, NEW T \in SUBSET (1 .. n), T # {}
  PROVE  Max(T) \in T /\ \A y \in T : y <= Max(T)
<1>1. T \in SUBSET (0 .. n)
  OBVIOUS
<1>2. \E x \in T : \A y \in T : x >= y
  BY <1>1, GreatestElement
<1>3. Max(T) \in T /\ \A y \in T : Max(T) >= y
  BY <1>2 DEF Max
<1>4. QED BY <1>1, <1>3

LEMMA RefsFacts ==
  ASSUME HeapInv, NEW a \in DOMAIN mem
  PROVE  /\ \A d \in Nat : Refs(a, d) \in SUBSET Nat
         /\ \A d \in Nat : \A i \in Refs(a, d) : i \in 1 .. RefCount(a) /\ i > d
         /\ \A d \in Nat : \A i \in 1 .. RefCount(a) : i > d /\ i \notin Refs(a, d) => NoUnset(a) /\ ~ Unseen(Ref(a, i))
         /\ NoUnset(a) => \A d \in Nat : \A i \in Refs(a, d) : Unseen(Ref(a, i))
         /\ ~ NoUnset(a) => 1 \in Refs(a, 0) /\ Ref(a, 1) = Unset
<1>1. RefCount(a) \in Nat
  BY BufFacts
<1>2. \A d \in Nat : Refs(a, d) \in SUBSET Nat /\ \A i \in Refs(a, d) : i \in 1 .. RefCount(a) /\ i > d
  BY <1>1 DEF Refs
<1>3. ASSUME NEW d \in Nat, NEW i \in 1 .. RefCount(a), i > d, i \notin Refs(a, d)
      PROVE  NoUnset(a) /\ ~ Unseen(Ref(a, i))
  BY <1>1, <1>3 DEF Refs, NoUnset
<1>4. NoUnset(a) => \A d \in Nat : \A i \in Refs(a, d) : Unseen(Ref(a, i))
  BY DEF Refs, NoUnset
<1>5. ASSUME ~ NoUnset(a)
      PROVE  1 \in Refs(a, 0) /\ Ref(a, 1) = Unset
  <2>1. Len(mem[a].bufs) = 1 /\ mem[a].bufs[1] = Unset /\ mem[a].kind # "box" /\ mem[a].len \in Nat
    BY <1>5, BufFacts
  <2>2. RefCount(a) = 1 + mem[a].len
    BY <2>1 DEF RefCount
  <2>3. 1 \in 0 + 1 .. RefCount(a)
    BY <2>1, <2>2
  <2>4. Ref(a, 1) = Unset
    BY <2>1 DEF Ref
  <2>5. QED BY <1>5, <2>3, <2>4 DEF Refs, NoUnset
<1>6. QED BY <1>2, <1>3, <1>4, <1>5

LEMMA PathFacts ==
  ASSUME HeapInv, MarkInv
  PROVE  /\ Len(path) \in Nat /\ DOMAIN path = 1 .. Len(path)
         /\ \A k \in 1 .. Len(path) : /\ path[k] \in Addr \X Nat /\ path[k][1] \in marked /\ path[k][1] \in DOMAIN mem
                                      /\ path[k][2] \in Nat
         /\ \A j, k \in 1 .. Len(path) : path[j][1] = path[k][1] => j = k
         /\ Busy \in SUBSET (1 .. Len(path))
<1>1. path \in Seq(Addr \X Nat)
  BY DEF MarkInv
<1>2. Len(path) \in Nat /\ DOMAIN path = 1 .. Len(path) /\ \A k \in 1 .. Len(path) : path[k] \in Addr \X Nat
  BY ONLY <1>1, LenProperties, ElementOfSeq
<1>3. QED BY <1>2 DEF MarkInv, DescentSimple, Busy

(* A call of cl_mark_descend with nothing left to do has done its work.    *)
LEMMA NotBusyDone ==
  ASSUME HeapInv, MarkInv, NEW k \in 1 .. Len(path), k \notin Busy
  PROVE  Done(path[k][1])
<1>1. PICK a, d : a = path[k][1] /\ d = path[k][2]
  OBVIOUS
<1>2. a \in DOMAIN mem /\ d \in Nat /\ Refs(a, d) = {}
  BY <1>1, PathFacts DEF Busy
<1>3. \A i \in 1 .. d : NoUnset(a) /\ (i <= RefCount(a) => ~ Unseen(Ref(a, i)))
  BY <1>1 DEF MarkInv, Followed
<1>4. RefCount(a) \in Nat
  BY <1>2, BufFacts
<1>5. SUFFICES ASSUME NEW i \in Refs(a, 0)
               PROVE  FALSE
  BY <1>1 DEF Done
<1>6. i \in 1 .. RefCount(a)
  BY <1>2, RefsFacts
<1>7. CASE i <= d
  <2>1. i \in 1 .. d
    BY <1>2, <1>4, <1>6, <1>7
  <2>2. NoUnset(a) /\ ~ Unseen(Ref(a, i))
    BY <1>3, <1>4, <1>6, <2>1
  <2>3. Unseen(Ref(a, i))
    BY <1>2, <2>2, RefsFacts
  <2>4. QED BY <2>2, <2>3
<1>8. CASE i > d
  <2>1. NoUnset(a) /\ ~ Unseen(Ref(a, i))
    BY <1>2, <1>6, <1>8, RefsFacts
  <2>2. Unseen(Ref(a, i))
    BY <1>2, <2>1, RefsFacts
  <2>3. QED BY <2>1, <2>2
<1>9. QED BY <1>2, <1>4, <1>6, <1>7, <1>8

LEMMA DoneFacts ==
  ASSUME HeapInv, NEW a \in DOMAIN mem, Done(a)
  PROVE  NoUnset(a) /\ \A w \in Heap!Children(mem, a) \cap DOMAIN mem : w \in marked
<1>1. NoUnset(a)
  BY RefsFacts DEF Done
<1>2. ASSUME NEW w \in Heap!Children(mem, a) \cap DOMAIN mem
      PROVE  w \in marked
  <2>1. PICK i \in 1 .. RefCount(a) : Ref(a, i) = w
    BY <1>1, ChildIsRef
  <2>2. i > 0 /\ i \notin Refs(a, 0)
    BY BufFacts DEF Done
  <2>3. ~ Unseen(w)
    BY <2>1, <2>2, RefsFacts
  <2>4. QED BY <2>3 DEF Unseen
<1>3. QED BY <1>1, <1>2

(* Marking.                                                                *)

LEMMA SameRefs ==
  ASSUME mem' = mem, NEW a
  PROVE  /\ RefCount(a)' = RefCount(a) /\ NoUnset(a)' = NoUnset(a)
         /\ \A i : Ref(a, i)' = Ref(a, i)
BY DEF RefCount, Ref, NoUnset

LEMMA MoreMarked ==
  ASSUME mem' = mem, marked \subseteq marked'
  PROVE  /\ \A w : ~ Unseen(w) => ~ Unseen(w)'
         /\ \A a : Done(a) => Done(a)'
<1>1. \A w : ~ Unseen(w) => ~ Unseen(w)'
  BY DEF Unseen
<1>2. ASSUME NEW a, Done(a)
      PROVE  Done(a)'
  <2>1. \A i : Unseen(Ref(a, i))' => Unseen(Ref(a, i))
    BY DEF Unseen, Ref
  <2>2. Refs(a, 0)' \subseteq Refs(a, 0)
    BY <2>1 DEF Refs, RefCount
  <2>3. QED BY SMTT(40), <1>2, <2>2 DEF Done
<1>3. QED BY <1>1, <1>2

(* Block w gets its mark while the calls in P are running.                 *)
LEMMA MarkKeeps ==
  ASSUME HeapInv, MarkInv, UNCHANGED mvars, phase = "mark", phase' = phase,
         NEW w \in DOMAIN mem, w \notin marked,
         NEW P \in Seq(Addr \X Nat), Mark(P, w),
         \A k \in 1 .. Len(P) : P[k][1] \in marked,
         \A j, k \in 1 .. Len(P) : P[j][1] = P[k][1] => j = k,
         \A k \in 1 .. Len(P) : \A i \in 1 .. P[k][2] :
           /\ NoUnset(P[k][1])
           /\ i <= RefCount(P[k][1]) => ~ Unseen(Ref(P[k][1], i)) \/ Ref(P[k][1], i) = w,
         \A a \in marked : Done(a) \/ \E k \in 1 .. Len(P) : P[k][1] = a,
         \A S \in SUBSET DOMAIN mem :
           Heap!StackWords \cap DOMAIN mem \subseteq S /\ Heap!Closed(mem, S) /\ marked \subseteq S => w \in S,
         scan' \in Nat,
         \A i \in 1 .. scan' : i <= Len(Stack) => ~ Unseen(Stack[i]) \/ Stack[i] = w
  PROVE  MarkInv'
<1> DEFINE n == Len(P)
<1>1. mem' = mem /\ call' = call /\ local' = local
  BY DEF mvars
<1>2. marked' = marked \cup {w} /\ path' = Append(P, <<w, 0>>)
  BY DEF Mark
<1>3. w \in Addr
  BY BlockFacts DEF HeapInv, Memory
<1>4. n \in Nat
  BY ONLY P \in Seq(Addr \X Nat), LenProperties
<1>5. /\ path' \in Seq(Addr \X Nat) /\ Len(path') = n + 1
      /\ path'[n + 1] = <<w, 0>>
      /\ \A k \in 1 .. n : path'[k] = P[k]
  <2>1. <<w, 0>> \in Addr \X Nat
    BY <1>3
  <2>2. QED BY ONLY P \in Seq(Addr \X Nat), <1>2, <2>1, AppendFacts
<1>6. DOMAIN path' = 1 .. n + 1
  BY ONLY <1>5, LenProperties
<1>7. \A v : (~ Unseen(v) \/ v = w) => ~ Unseen(v)'
  BY <1>1, <1>2 DEF Unseen
<1>8. \A a : Done(a) => Done(a)'
  BY <1>1, <1>2, MoreMarked
<1>9. \A k \in 1 .. n + 1 : k \in 1 .. n \/ k = n + 1
  BY <1>4
<1> HIDE DEF n
<1>10. /\ phase' \in {"off", "mark"} /\ marked' \subseteq DOMAIN mem'
       /\ phase' # "off" /\ (phase' = "mark" => call' # Idle)
  BY <1>1, <1>2 DEF MarkInv
<1>11. Justified'
  <2>1. Heap!StackWords' = Heap!StackWords
    BY <1>1 DEF Heap!StackWords
  <2>2. ASSUME NEW S \in SUBSET DOMAIN mem, Heap!StackWords \cap DOMAIN mem \subseteq S, Heap!Closed(mem, S)
        PROVE  marked' \subseteq S
    BY <1>2, <2>2 DEF MarkInv, Justified
  <2>3. QED BY <1>1, <2>1, <2>2 DEF Justified
<1>12. Scanned'
  <2>1. Stack' = Stack
    BY <1>1 DEF Stack
  <2>2. \A i \in 1 .. scan' : i <= Len(Stack) => ~ Unseen(Stack[i])'
    BY <1>7, <2>1
  <2>3. QED BY <2>1, <2>2 DEF Scanned
<1>13. ASSUME NEW k \in 1 .. Len(path'), NEW i \in 1 .. path'[k][2]
       PROVE  /\ NoUnset(path[k][1])'
              /\ (i <= RefCount(path[k][1]) => ~ Unseen(Ref(path[k][1], i)))'
  <2>1. k # n + 1
    BY <1>5
  <2>2. k \in 1 .. n /\ path'[k] = P[k]
    BY <1>5, <1>9, <2>1
  <2>3. PICK a : a = P[k][1]
    OBVIOUS
  <2>4. NoUnset(a) /\ (i <= RefCount(a) => ~ Unseen(Ref(a, i)) \/ Ref(a, i) = w)
    BY <2>2, <2>3 DEF n
  <2>5. NoUnset(a)' /\ (i <= RefCount(a) => ~ Unseen(Ref(a, i)))'
    BY <1>1, <1>7, <2>4, SameRefs
  <2>6. QED BY <2>2, <2>3, <2>5
<1>14. Followed'
  BY <1>13 DEF Followed
<1>15. Pending'
  <2> SUFFICES ASSUME NEW a \in marked', ~ Done(a)'
               PROVE  \E k \in 1 .. Len(path') : path'[k][1] = a
    BY DEF Pending
  <2>1. CASE a = w
    <3>1. n + 1 \in 1 .. Len(path') /\ path'[n + 1][1] = a
      BY <1>4, <1>5, <2>1
    <3>2. QED BY ONLY <3>1
  <2>2. CASE a \in marked
    <3>1. PICK k \in 1 .. n : P[k][1] = a
      BY <1>8, <2>2 DEF n
    <3>2. k \in 1 .. Len(path') /\ path'[k][1] = a
      BY <1>4, <1>5, <3>1
    <3>3. QED BY ONLY <3>2
  <2>3. QED BY <1>2, <2>1, <2>2
<1>16. DescentSimple'
  <2>1. \A k \in 1 .. n : path'[k][1] \in marked /\ path'[k][1] # w
    BY <1>5 DEF n
  <2>2. path'[n + 1][1] = w
    BY <1>5
  <2>3. \A j, k \in 1 .. n : path'[j][1] = path'[k][1] => j = k
    BY <1>5 DEF n
  <2>4. \A j, k \in DOMAIN path' : path'[j][1] = path'[k][1] => j = k
    BY <1>6, <1>9, <2>1, <2>2, <2>3
  <2>5. \A k \in DOMAIN path' : path'[k][1] \in marked'
    BY <1>2, <1>6, <1>9, <2>1, <2>2
  <2>6. QED BY <2>4, <2>5 DEF DescentSimple
<1>17. QED BY <1>5, <1>10, <1>11, <1>12, <1>14, <1>15, <1>16 DEF MarkInv

LEMMA ScanWordKeeps == HeapInv /\ MarkInv /\ ScanWord => MarkInv'
<1> SUFFICES ASSUME HeapInv, MarkInv, ScanWord
             PROVE  MarkInv'
  OBVIOUS
<1>1. /\ phase = "mark" /\ Busy = {} /\ Words # {}
      /\ scan' = Min(Words) /\ Mark(<<>>, Stack[scan'])
      /\ UNCHANGED <<mvars, phase, fault>>
  BY DEF ScanWord
<1>2. Len(Stack) \in Nat /\ scan \in Nat
  BY StackFacts DEF MarkInv
<1>3. /\ scan' \in Words
      /\ \A i \in Words : scan' <= i
  <2>1. Words \in SUBSET Nat
    BY <1>2 DEF Words
  <2>2. QED BY <1>1, <2>1, MinFacts
<1>4. PICK w : w = Stack[scan']
  OBVIOUS
<1>5. scan' \in scan + 1 .. Len(Stack) /\ w \in DOMAIN mem /\ w \notin marked
  BY <1>3, <1>4 DEF Words, Unseen
<1>6. scan' \in Nat /\ scan' \in 1 .. Len(Stack)
  BY <1>2, <1>5
<1>7. \A i \in 1 .. scan' : i <= Len(Stack) => ~ Unseen(Stack[i]) \/ Stack[i] = w
  <2> SUFFICES ASSUME NEW i \in 1 .. scan', i <= Len(Stack), i # scan', Unseen(Stack[i])
               PROVE  FALSE
    BY <1>4
  <2>1. CASE i <= scan
    <3>1. i \in 1 .. scan
      BY <1>2, <1>6, <2>1
    <3>2. QED BY <3>1 DEF MarkInv, Scanned
  <2>2. CASE ~ (i <= scan)
    <3>1. i \in scan + 1 .. Len(Stack) /\ ~ (scan' <= i)
      BY <1>2, <1>6, <2>2
    <3>2. i \in Words
      BY <3>1 DEF Words
    <3>3. QED BY <1>3, <3>1, <3>2
  <2>3. QED BY <2>1, <2>2
<1>8. \A a \in marked : Done(a)
  BY <1>1, NotBusyDone DEF MarkInv, Pending
<1>9. \A S \in SUBSET DOMAIN mem :
        Heap!StackWords \cap DOMAIN mem \subseteq S /\ Heap!Closed(mem, S) /\ marked \subseteq S => w \in S
  BY <1>4, <1>5, <1>6, StackFacts
<1>10. <<>> \in Seq(Addr \X Nat) /\ Len(<<>>) = 0
  BY EmptySeq
<1>11. Mark(<<>>, w)
  BY <1>1, <1>4
<1> DEFINE P == <<>>
<1>12. /\ P \in Seq(Addr \X Nat)
       /\ \A k \in 1 .. Len(P) : P[k][1] \in marked
       /\ \A j, k \in 1 .. Len(P) : P[j][1] = P[k][1] => j = k
       /\ \A k \in 1 .. Len(P) : \A i \in 1 .. P[k][2] :
            /\ NoUnset(P[k][1])
            /\ i <= RefCount(P[k][1]) => ~ Unseen(Ref(P[k][1], i)) \/ Ref(P[k][1], i) = w
       /\ \A a \in marked : Done(a) \/ \E k \in 1 .. Len(P) : P[k][1] = a
       /\ Mark(P, w)
  <2>1. \A k \in 1 .. Len(P) : FALSE
    BY <1>10
  <2>2. QED BY <1>8, <1>10, <1>11, <2>1
<1>13. UNCHANGED mvars /\ phase' = phase
  BY <1>1
<1> HIDE DEF P
<1>14. QED BY ONLY ZenonT(40), HeapInv, MarkInv, <1>1, <1>5, <1>6, <1>7, <1>9, <1>12, <1>13, MarkKeeps

LEMMA SameKeeps ==
  ASSUME MarkInv, UNCHANGED <<path, marked, scan, phase>>,
         mem' = mem, call' = call, local' = local
  PROVE  MarkInv'
<1>1. Justified'
  BY DEF MarkInv, Justified, Heap!StackWords
<1>2. Scanned'
  BY DEF MarkInv, Scanned, Stack, Unseen
<1>3. Followed'
  <2> SUFFICES ASSUME NEW j \in 1 .. Len(path), NEW h \in 1 .. path[j][2]
               PROVE  /\ NoUnset(path[j][1])'
                      /\ (h <= RefCount(path[j][1]) => ~ Unseen(Ref(path[j][1], h)))'
    BY DEF Followed
  <2>1. PICK c : c = path[j][1]
    OBVIOUS
  <2>2. NoUnset(c) /\ (h <= RefCount(c) => ~ Unseen(Ref(c, h)))
    BY <2>1 DEF MarkInv, Followed
  <2>3. NoUnset(c)' /\ (h <= RefCount(c) => ~ Unseen(Ref(c, h)))'
    BY <2>2, SameRefs, MoreMarked
  <2>4. QED BY <2>1, <2>3
<1>4. Pending'
  BY MoreMarked DEF MarkInv, Pending
<1>5. DescentSimple'
  BY DEF MarkInv, DescentSimple
<1>6. QED BY <1>1, <1>2, <1>3, <1>4, <1>5 DEF MarkInv

LEMMA PrefixFacts ==
  ASSUME NEW S, NEW p \in Seq(S), NEW k \in 1 .. Len(p), NEW e \in S
  PROVE  LET P == SubSeq(p, 1, k - 1) \o <<e>> IN
         /\ P \in Seq(S) /\ Len(P) = k /\ P[k] = e
         /\ \A j \in 1 .. k - 1 : P[j] = p[j]
<1> DEFINE q == SubSeq(p, 1, k - 1)
<1>1. Len(p) \in Nat /\ k - 1 \in 0 .. Len(p) /\ k \in Nat
  <2>1. Len(p) \in Nat
    BY ONLY p \in Seq(S), LenProperties
  <2>2. QED BY <2>1
<1>2. q \in Seq(S) /\ Len(q) = k - 1 /\ \A j \in 1 .. k - 1 : q[j] = p[j]
  BY ONLY <1>1, p \in Seq(S), InitialPartFacts
<1>3. <<e>> \in Seq(S) /\ Len(<<e>>) = 1 /\ <<e>>[1] = e
  OBVIOUS
<1> HIDE DEF q
<1>4. PICK x \in Seq(S), d \in Seq(S) : x = q /\ d = <<e>> /\ Len(d) = 1 /\ d[1] = e
  BY <1>2, <1>3
<1>5. /\ x \o d \in Seq(S) /\ Len(x \o d) = Len(x) + Len(d)
      /\ \A i \in 1 .. Len(x) : (x \o d)[i] = x[i]
      /\ \A j \in 1 .. Len(d) : (x \o d)[Len(x) + j] = d[j]
  BY ConcatFacts
<1>6. Len(x \o d) = k /\ (x \o d)[k] = e
  <2>1. Len(x) + 1 = k /\ 1 \in 1 .. Len(d) /\ Len(x) + Len(d) = k
    BY ONLY <1>1, <1>2, <1>4
  <2>2. QED BY ONLY <1>4, <1>5, <2>1
<1>7. QED BY ONLY <1>2, <1>4, <1>5, <1>6 DEF q

LEMMA DescendKeeps == HeapInv /\ MarkInv /\ Descend => MarkInv'
<1> SUFFICES ASSUME HeapInv, MarkInv, Descend
             PROVE  MarkInv'
  OBVIOUS
<1>1. PICK k, a, d, i : k = Max(Busy) /\ a = path[k][1] /\ d = path[k][2] /\ i = Min(Refs(a, d))
  OBVIOUS
<1>2. /\ phase = "mark" /\ Busy # {} /\ UNCHANGED <<mvars, phase, scan>>
      /\ IF Ref(a, i) = Unset
         THEN fault' = TRUE /\ UNCHANGED <<path, marked>>
         ELSE Mark(SubSeq(path, 1, k - 1) \o <<<<a, i>>>>, Ref(a, i)) /\ UNCHANGED fault
  BY <1>1 DEF Descend
<1>3. CASE Ref(a, i) = Unset
  <2>1. UNCHANGED <<path, marked, scan, phase>> /\ mem' = mem /\ call' = call /\ local' = local
    BY <1>2, <1>3 DEF mvars
  <2>2. QED BY <2>1, SameKeeps
<1>4. CASE Ref(a, i) # Unset
  <2>1. Len(path) \in Nat /\ Busy \in SUBSET (1 .. Len(path))
    BY PathFacts
  <2>2. k \in Busy /\ k \in 1 .. Len(path) /\ \A j \in Busy : j <= k
    BY <1>1, <1>2, <2>1, MaxFacts
  <2>3. /\ a \in marked /\ a \in DOMAIN mem /\ a \in Addr /\ d \in Nat
        /\ \A j \in 1 .. Len(path) : path[j][1] = a => j = k
    BY <1>1, <2>2, PathFacts, BlockFacts DEF HeapInv, Memory
  <2>4. i \in Refs(a, d) /\ (\A j \in Refs(a, d) : i <= j) /\ i \in 1 .. RefCount(a) /\ i > d /\ i \in Nat
    <3>1. Refs(a, d) # {} /\ Refs(a, d) \in SUBSET Nat
      <4>1. Refs(path[k][1], path[k][2]) # {}
        BY <2>2 DEF Busy
      <4>2. QED BY <1>1, <2>3, <4>1, RefsFacts
    <3>2. i \in Refs(a, d) /\ \A j \in Refs(a, d) : i <= j
      BY <1>1, <3>1, MinFacts
    <3>3. i \in 1 .. RefCount(a) /\ i > d
      BY <2>3, <3>2, RefsFacts
    <3>4. QED BY <3>1, <3>2, <3>3
  <2>5. \A j \in 1 .. d : NoUnset(a) /\ (j <= RefCount(a) => ~ Unseen(Ref(a, j)))
    BY <1>1, <2>2 DEF MarkInv, Followed
  <2>6. NoUnset(a)
    <3>1. CASE d = 0
      <4>1. ASSUME ~ NoUnset(a)
            PROVE  FALSE
        <5>1. 1 \in Refs(a, 0) /\ Ref(a, 1) = Unset
          BY <2>3, <4>1, RefsFacts
        <5>2. i = 1
          BY <2>4, <3>1, <5>1
        <5>3. QED BY <1>4, <5>1, <5>2
      <4>2. QED BY <4>1
    <3>2. CASE d # 0
      <4>1. d \in 1 .. d
        BY <2>3, <3>2
      <4>2. QED BY <2>5, <4>1
    <3>3. QED BY <3>1, <3>2
  <2>7. PICK w : w = Ref(a, i)
    OBVIOUS
  <2>8. w \in DOMAIN mem /\ w \notin marked
    BY <2>3, <2>4, <2>6, <2>7, RefsFacts DEF Unseen
  <2>9. w \in Heap!Children(mem, a)
    BY <2>3, <2>4, <2>6, <2>7, RefIsChild
  <2>10. PICK P : P = SubSeq(path, 1, k - 1) \o <<<<a, i>>>>
    OBVIOUS
  <2>11. /\ P \in Seq(Addr \X Nat) /\ Len(P) = k /\ P[k] = <<a, i>>
         /\ \A j \in 1 .. k - 1 : P[j] = path[j]
    <3>1. path \in Seq(Addr \X Nat)
      BY DEF MarkInv
    <3>2. PICK e \in Addr \X Nat : e = <<a, i>>
      BY <2>3, <2>4
    <3>3. P = SubSeq(path, 1, k - 1) \o <<e>>
      BY <2>10, <3>2
    <3>4. /\ P \in Seq(Addr \X Nat) /\ Len(P) = k /\ P[k] = e
          /\ \A j \in 1 .. k - 1 : P[j] = path[j]
      BY ONLY <2>2, <3>1, <3>3, e \in Addr \X Nat, PrefixFacts
    <3>5. QED BY <3>2, <3>4
  <2>12. \A j \in 1 .. k : (j \in 1 .. k - 1 /\ j \in 1 .. Len(path)) \/ j = k
    BY <2>1, <2>2
  <2>13. \A j \in 1 .. k : P[j][1] = path[j][1]
    <3>1. P[k][1] = a /\ a = path[k][1]
      BY <1>1, <2>11
    <3>2. QED BY ONLY <2>11, <2>12, <3>1
  <2>14. \A j \in 1 .. Len(P) : P[j][1] \in marked
    BY <1>1, <2>3, <2>11, <2>12, <2>13, PathFacts
  <2>15. \A j, h \in 1 .. Len(P) : P[j][1] = P[h][1] => j = h
    <3>1. \A j \in 1 .. k : j \in 1 .. Len(path)
      BY <2>1, <2>2
    <3>2. QED BY <2>11, <2>13, <3>1, PathFacts
  <2>16. ASSUME NEW j \in 1 .. Len(P), NEW h \in 1 .. P[j][2]
         PROVE  /\ NoUnset(P[j][1])
                /\ h <= RefCount(P[j][1]) => ~ Unseen(Ref(P[j][1], h)) \/ Ref(P[j][1], h) = w
    <3>1. CASE j = k
      <4>1. P[j][1] = a /\ h \in 1 .. i
        BY <2>11, <3>1
      <4>2. ASSUME h <= RefCount(a), h # i
            PROVE  ~ Unseen(Ref(a, h))
        <5>1. CASE h <= d
          <6>1. h \in 1 .. d
            BY <2>3, <4>1, <5>1
          <6>2. QED BY <2>5, <4>2, <6>1
        <5>2. CASE ~ (h <= d)
          <6>1. h > d /\ ~ (i <= h)
            BY <2>3, <2>4, <4>1, <4>2, <5>2
          <6>2. h \in 1 .. RefCount(a)
            BY <2>3, <4>1, <4>2, BufFacts
          <6>3. h \notin Refs(a, d)
            BY <2>4, <6>1
          <6>4. QED BY <2>3, <6>1, <6>2, <6>3, RefsFacts
        <5>3. QED BY <5>1, <5>2
      <4>3. QED BY <2>6, <2>7, <4>1, <4>2
    <3>2. CASE j # k
      <4>1. P[j] = path[j] /\ j \in 1 .. Len(path)
        BY <2>11, <2>12, <3>2
      <4>2. QED BY <4>1 DEF MarkInv, Followed
    <3>3. QED BY <3>1, <3>2
  <2>17. ASSUME NEW b \in marked, ~ Done(b)
         PROVE  \E j \in 1 .. Len(P) : P[j][1] = b
    <3>1. PICK j \in 1 .. Len(path) : path[j][1] = b
      BY <2>17 DEF MarkInv, Pending
    <3>2. j \in Busy
      BY <2>17, <3>1, NotBusyDone
    <3>3. j \in 1 .. k
      BY <2>1, <2>2, <3>1, <3>2
    <3>4. QED BY <2>11, <2>13, <3>1, <3>3
  <2>18. \A S \in SUBSET DOMAIN mem :
           Heap!StackWords \cap DOMAIN mem \subseteq S /\ Heap!Closed(mem, S) /\ marked \subseteq S => w \in S
    BY <2>3, <2>8, <2>9 DEF Heap!Closed
  <2>19. scan' \in Nat /\ \A h \in 1 .. scan' : h <= Len(Stack) => ~ Unseen(Stack[h]) \/ Stack[h] = w
    BY <1>2 DEF MarkInv, Scanned
  <2>20. Mark(P, w) /\ UNCHANGED mvars /\ phase' = phase
    BY <1>2, <1>4, <2>7, <2>10
  <2>21. /\ \A j \in 1 .. Len(P) : \A h \in 1 .. P[j][2] :
              /\ NoUnset(P[j][1])
              /\ h <= RefCount(P[j][1]) => ~ Unseen(Ref(P[j][1], h)) \/ Ref(P[j][1], h) = w
         /\ \A b \in marked : Done(b) \/ \E j \in 1 .. Len(P) : P[j][1] = b
    BY <2>16, <2>17
  <2>22. QED BY ONLY HeapInv, MarkInv, <1>2, <2>8, <2>11, <2>14, <2>15, <2>18, <2>19, <2>20, <2>21, MarkKeeps
<1>5. QED BY <1>3, <1>4

(* When nothing is left to mark, exactly what is reachable is marked.      *)
LEMMA AllMarked ==
  ASSUME HeapInv, MarkInv, Busy = {}, Words = {}
  PROVE  /\ marked \in SUBSET DOMAIN mem /\ Heap!Closed(mem, marked)
         /\ Heap!StackWords \cap DOMAIN mem \subseteq marked
         /\ marked = Heap!Reachable(mem, Heap!StackWords)
<1>1. marked \in SUBSET DOMAIN mem
  BY DEF MarkInv
<1>2. \A a \in marked : Done(a)
  BY NotBusyDone DEF MarkInv, Pending
<1>3. Heap!Closed(mem, marked)
  BY <1>1, <1>2, DoneFacts DEF Heap!Closed
<1>4. Heap!StackWords \cap DOMAIN mem \subseteq marked
  <2> SUFFICES ASSUME NEW w \in Heap!StackWords, w \in DOMAIN mem, w \notin marked
               PROVE  FALSE
    OBVIOUS
  <2>1. PICK i \in 1 .. Len(Stack) : Stack[i] = w
    BY StackFacts
  <2>2. scan \in Nat /\ Len(Stack) \in Nat
    BY StackFacts DEF MarkInv
  <2>3. Unseen(Stack[i])
    BY <2>1 DEF Unseen
  <2>4. i \notin scan + 1 .. Len(Stack)
    BY <2>3 DEF Words
  <2>5. i \in 1 .. scan
    BY <2>2, <2>4
  <2>6. QED BY <2>3, <2>5 DEF MarkInv, Scanned
<1>5. marked = Heap!Reachable(mem, Heap!StackWords)
  <2>1. \A a \in marked : a \in Heap!Reachable(mem, Heap!StackWords)
    BY <1>1 DEF MarkInv, Justified, Heap!Reachable
  <2>2. \A a \in Heap!Reachable(mem, Heap!StackWords) : a \in marked
    BY <1>1, <1>3, <1>4 DEF Heap!Reachable
  <2>3. QED BY <2>1, <2>2
<1>6. QED BY <1>1, <1>3, <1>4, <1>5

LEMMA SweepKeepsHeap == HeapInv /\ MarkInv /\ Sweep => HeapInv'
<1> SUFFICES ASSUME HeapInv, MarkInv, Sweep
             PROVE  HeapInv'
  OBVIOUS
<1>1. /\ Busy = {} /\ Words = {} /\ mem' = [a \in marked |-> mem[a]]
      /\ room' = room /\ local' = local /\ live' = live /\ call' = call
  BY DEF Sweep, program
<1>2. /\ marked \in SUBSET DOMAIN mem /\ Heap!Closed(mem, marked)
      /\ Heap!StackWords \cap DOMAIN mem \subseteq marked
  BY <1>1, AllMarked
<1>3. DOMAIN mem' = marked /\ \A a \in marked : mem'[a] = mem[a]
  BY <1>1
<1>4. Memory(mem')
  BY <1>1, <1>2, RestrictedKeepsMemory DEF HeapInv
<1>5. \A w \in Heap!StackWords : Leads(mem, w) => Leads(mem', w)
  BY <1>2, <1>3 DEF Leads
<1>6. Roots'
  <2>1. \A s \in Slot : local[s] \in Heap!StackWords
    BY DEF Heap!StackWords, Slot, Heap!Slot
  <2>2. QED BY <1>1, <1>5, <2>1 DEF HeapInv, Roots
<1>7. \A j \in 1 .. Len(call.words) : /\ Leads(mem', call.words[j])
                                      /\ call.words[j] \in DOMAIN mem => call.words[j] \in marked
  <2>1. \A j \in 1 .. Len(call.words) : call.words[j] \in Heap!StackWords
    BY DEF Heap!StackWords
  <2>2. \A j \in 1 .. Len(call.words) : Leads(mem, call.words[j])
    BY DEF HeapInv, CallInv
  <2>3. QED BY <1>2, <1>5, <2>1, <2>2
<1>8. ASSUME NEW a \in marked, NEW k \in 1 .. Len(mem[a].bufs)
      PROVE  Contents(mem', mem[a].bufs[k]) = Contents(mem, mem[a].bufs[k])
  <2>1. mem[a].bufs[k] \in DOMAIN mem => mem[a].bufs[k] \in marked
    BY <1>2, ChildrenFacts DEF Heap!Closed
  <2>2. QED BY <1>2, <1>3, <2>1 DEF Contents
<1>9. ASSUME NEW a \in marked, mem[a].kind \in {"arr", "map"}
      PROVE  /\ Contents(mem', mem[a].bufs[Len(mem[a].bufs)]) = Contents(mem, mem[a].bufs[Len(mem[a].bufs)])
             /\ Contents(mem', mem[a].bufs[1]) = Contents(mem, mem[a].bufs[1])
  <2>1. Len(mem[a].bufs) = 1 \/ Len(mem[a].bufs) = 2
    BY <1>2, <1>9, ContainerFacts
  <2>2. 1 \in 1 .. Len(mem[a].bufs) /\ Len(mem[a].bufs) \in 1 .. Len(mem[a].bufs)
    <3>1. CASE Len(mem[a].bufs) = 1
      BY ONLY <3>1
    <3>2. CASE Len(mem[a].bufs) = 2
      BY ONLY <3>2
    <3>3. QED BY ONLY <2>1, <3>1, <3>2
  <2>3. QED BY <1>8, <2>2
<1>10. CallInv'
  <2>1. /\ call = [op |-> call.op, words |-> call.words]
        /\ call.words \in Seq(Word)
        /\ call.op = "none" => call = Idle
        /\ call.op = "box" => Len(call.words) = 1
        /\ call.op = "concat" => Len(call.words) <= 2
    BY DEF HeapInv, CallInv
  <2>2. Len(call.words) \in Nat
    BY ONLY <2>1, LenProperties
  <2>3. PICK ws, n, a : ws = call.words /\ n = Len(ws) /\ a = ws[1]
    OBVIOUS
  <2>4. ASSUME call.op = "upvals"
        PROVE  /\ n > 0 /\ ws[n] \in DOMAIN mem'
               /\ mem'[ws[n]].kind = "closure" /\ mem'[ws[n]].len = n - 1
    <3>1. /\ n > 0 /\ ws[n] \in DOMAIN mem
          /\ mem[ws[n]].kind = "closure" /\ mem[ws[n]].len = n - 1
      BY <2>3, <2>4 DEF HeapInv, CallInv
    <3>2. n \in 1 .. Len(call.words)
      BY ONLY <2>2, <2>3, <3>1
    <3>3. ws[n] \in marked
      BY <1>7, <2>3, <3>1, <3>2
    <3>4. QED BY <1>3, <3>1, <3>3
  <2>5. ASSUME call.op \in {"push", "set", "values"}
        PROVE  /\ a \in DOMAIN mem' /\ mem'[a] = mem[a] /\ Grows(a)'
               /\ call.op = "push" => n = 2 /\ mem'[a].kind = "arr"
               /\ call.op # "push" => n = 3 /\ mem'[a].kind = "map"
               /\ call.op = "values" => (Size(mem, mem[a].bufs[1]) >= NewCap(mem[a]))'
    <3>1. /\ a \in DOMAIN mem /\ Grows(a) /\ n \in {2, 3}
          /\ call.op = "push" => n = 2 /\ mem[a].kind = "arr"
          /\ call.op # "push" => n = 3 /\ mem[a].kind = "map"
          /\ call.op = "values" => Size(mem, mem[a].bufs[1]) >= NewCap(mem[a])
      BY <2>3, <2>5 DEF HeapInv, CallInv
    <3>2. 1 \in 1 .. Len(call.words)
      BY ONLY <2>3, <3>1
    <3>3. a \in marked
      BY <1>7, <2>3, <3>1, <3>2
    <3>4. /\ mem'[a] = mem[a]
          /\ Contents(mem', mem[a].bufs[Len(mem[a].bufs)]) = Contents(mem, mem[a].bufs[Len(mem[a].bufs)])
          /\ Contents(mem', mem[a].bufs[1]) = Contents(mem, mem[a].bufs[1])
      BY <1>3, <1>9, <2>5, <3>1, <3>3
    <3>5. NewCap(mem[a])' = NewCap(mem[a])
      BY ONLY <3>4 DEF NewCap, Cap
    <3>6. Size(mem', mem'[a].bufs[1]) = Size(mem, mem[a].bufs[1])
      BY ONLY <3>4 DEF Size
    <3>7. Grows(a)'
      BY ONLY <3>1, <3>4, <3>5 DEF Grows
    <3>8. QED BY ONLY <1>3, <3>1, <3>3, <3>4, <3>5, <3>6, <3>7
  <2>6. call' = call
    BY <1>1
  <2>7. QED BY ONLY <1>7, <2>1, <2>3, <2>4, <2>5, <2>6 DEF CallInv, Grows, NewCap, Cap, Idle
<1>11. DOMAIN mem' \subseteq room /\ mem' = [a \in DOMAIN mem' |-> mem'[a]]
  BY <1>1, <1>2, <1>3 DEF HeapInv
<1>12. QED BY <1>1, <1>4, <1>6, <1>10, <1>11 DEF HeapInv

(* Nothing is marked before a collection and after it.                     *)
LEMMA BlankKeeps ==
  ASSUME phase' \in {"off", "mark"}, phase' = "mark" => call' # Idle,
         marked' = {}, path' = <<>>, scan' = 0
  PROVE  MarkInv'
<1>1. path' \in Seq(Addr \X Nat) /\ Len(path') = 0 /\ DOMAIN path' = {}
  BY EmptySeq
<1>2. Justified' /\ Pending' /\ DescentSimple'
  BY <1>1 DEF Justified, Pending, DescentSimple
<1>3. Scanned' /\ Followed'
  <2>1. \A k \in 1 .. Len(path') : FALSE
    BY <1>1
  <2>2. \A i \in 1 .. scan' : FALSE
    BY SMTT(40)
  <2>3. QED BY ONLY <2>1, <2>2 DEF Scanned, Followed
<1>4. QED BY <1>1, <1>2, <1>3 DEF MarkInv

LEMMA StillKeeps == HeapInv /\ UNCHANGED mvars => HeapInv'
<1> SUFFICES ASSUME HeapInv, UNCHANGED mvars
             PROVE  HeapInv'
  OBVIOUS
<1>1. mem' = mem /\ call' = call /\ local' = local /\ live' = live /\ room' = room
  BY DEF mvars, program
<1>2. QED BY <1>1 DEF HeapInv, Roots, CallInv, Grows, NewCap, Cap, Contents

LEMMA GCInvInit == GCInit => GCInv
<1> SUFFICES ASSUME GCInit
             PROVE  GCInv
  OBVIOUS
<1>1. HeapInv
  BY InitHeap DEF GCInit
<1>2. phase = "off" /\ scan = 0 /\ path = <<>> /\ marked = {}
  BY DEF GCInit
<1>3. path \in Seq(Addr \X Nat) /\ Len(path) = 0 /\ DOMAIN path = {}
  BY <1>2, EmptySeq
<1>4. Justified /\ Pending /\ DescentSimple
  BY <1>2, <1>3 DEF Justified, Pending, DescentSimple
<1>5. Scanned /\ Followed
  <2>1. \A k \in 1 .. Len(path) : FALSE
    BY <1>3
  <2>2. \A i \in 1 .. scan : FALSE
    BY <1>2
  <2>3. QED BY ONLY <2>1, <2>2 DEF Scanned, Followed
<1>6. QED BY <1>1, <1>2, <1>3, <1>4, <1>5 DEF MarkInv, GCInv

LEMMA GCInvNext == GCInv /\ [Next]_vars => GCInv'
<1> SUFFICES ASSUME HeapInv, MarkInv, [Next]_vars
             PROVE  HeapInv' /\ MarkInv'
  BY DEF GCInv
<1>1. CASE MutatorStep
  <2>1. phase = "off" /\ Mutate /\ UNCHANGED <<phase, scan, path, marked>>
    BY <1>1 DEF MutatorStep, gvars
  <2>2. phase' = "off" /\ marked' = {} /\ path' = <<>> /\ scan' = 0
    BY <2>1 DEF MarkInv
  <2>3. QED BY <2>1, <2>2, MutateKeeps, BlankKeeps
<1>2. CASE cl_gc
  <2>1. /\ UNCHANGED mvars /\ call # Idle
        /\ phase' = "mark" /\ scan' = 0 /\ marked' = {} /\ path' = <<>>
    BY <1>2 DEF cl_gc, MarkInv
  <2>2. call' = call
    BY <2>1 DEF mvars
  <2>3. QED BY <2>1, <2>2, StillKeeps, BlankKeeps
<1>3. CASE ScanWord
  BY <1>3, StillKeeps, ScanWordKeeps DEF ScanWord
<1>4. CASE Descend
  BY <1>4, StillKeeps, DescendKeeps DEF Descend
<1>5. CASE Sweep
  <2>1. phase' = "off" /\ marked' = {} /\ path' = <<>> /\ scan' = 0
    BY <1>5 DEF Sweep
  <2>2. QED BY <1>5, <2>1, SweepKeepsHeap, BlankKeeps
<1>6. CASE UNCHANGED vars
  <2>1. UNCHANGED mvars /\ UNCHANGED <<phase, scan, path, marked>>
    BY <1>6 DEF vars, gvars
  <2>2. mem' = mem /\ call' = call /\ local' = local
    BY <2>1 DEF mvars
  <2>3. QED BY <2>1, <2>2, StillKeeps, SameKeeps
<1>7. QED BY <1>1, <1>2, <1>3, <1>4, <1>5, <1>6 DEF Next, CollectorStep

-------------------------------------------------------------------------------
(* Theorems.                                                               *)

(* Between any two steps of cl_gc and of the program it serves, the heap   *)
(* and the marks are as HeapInv and MarkInv say.                           *)
THEOREM GCInvAlways == Spec => []GCInv
BY GCInvInit, GCInvNext, PTL DEF Spec

LEMMA InvTypeOK == GCInv => TypeOK
BY DEF GCInv, HeapInv, MarkInv, Roots, Memory, Blocks, BlockType, TypeOK

(* The types of the collector and of the heap it works on; no mark is left *)
(* set when cl_gc returns.                                                 *)
THEOREM NativeGCTypes == Spec => []TypeOK
BY GCInvAlways, InvTypeOK, PTL

LEMMA InvIntact == GCInv => Intact
<1> SUFFICES ASSUME HeapInv
             PROVE  Intact
  BY DEF GCInv
<1>1. Memory(mem)
  BY DEF HeapInv
<1>2. /\ \A s \in live : Leads(mem, local[s])
      /\ \A i \in 1 .. Len(call.words) : Leads(mem, call.words[i])
  BY DEF HeapInv, Roots, CallInv
<1>3. InUse.roots \subseteq DOMAIN mem \cup {Num}
  BY <1>2 DEF InUse, Leads
<1>4. InUse.blocks \subseteq DOMAIN mem
  BY DEF InUse, Heap!Reachable
<1>5. ASSUME NEW a \in DOMAIN mem, NEW p \in BuffersOf(a)
      PROVE  /\ p \in DOMAIN mem /\ p \in Addr
             /\ mem[p].kind = "raw"
             /\ mem[a].len <= Len(mem[p].words)
             /\ \A i \in 1 .. mem[a].len : mem[p].words[i] \in DOMAIN mem \cup {Num}
             /\ \E k \in 1 .. Len(mem[a].bufs) : p = mem[a].bufs[k]
  <2>1. PICK k \in 1 .. Len(mem[a].bufs) : p = mem[a].bufs[k] /\ p # NULL /\ p # Unset
    BY DEF BuffersOf
  <2>2. Serves(mem, mem[a].len, p)
    BY <1>1, <2>1 DEF Memory, Served
  <2>3. p \in DOMAIN mem
    BY <2>1, <2>2 DEF Serves
  <2>4. QED BY <1>1, <2>1, <2>2, <2>3 DEF Serves, Leads, Memory, Blocks
<1>6. \A a \in DOMAIN mem : mem[a].kind = "box" => mem[a].words[1] \in DOMAIN mem \cup {Num}
  BY <1>1 DEF Memory, Blocks, Leads
<1>7. ASSUME NEW a \in DOMAIN mem, NEW c \in DOMAIN mem, c # a
      PROVE  BuffersOf(a) \cap BuffersOf(c) = {}
  <2> SUFFICES ASSUME NEW p \in BuffersOf(a), p \in BuffersOf(c)
               PROVE  FALSE
    OBVIOUS
  <2>1. PICK j \in 1 .. Len(mem[a].bufs) : p = mem[a].bufs[j]
    BY <1>5
  <2>2. PICK k \in 1 .. Len(mem[c].bufs) : p = mem[c].bufs[k]
    BY <1>5
  <2>3. p \in Addr
    BY <1>5
  <2>4. QED BY <1>1, <1>7, <2>1, <2>2, <2>3 DEF Memory, Owned
<1>8. \A a \in InUse.blocks :
        /\ mem[a].kind = "box" => mem[a].words[1] \in DOMAIN mem \cup {Num}
        /\ \A p \in BuffersOf(a) :
             /\ p \in DOMAIN mem
             /\ mem[p].kind = "raw"
             /\ mem[a].len <= Len(mem[p].words)
             /\ \A i \in 1 .. mem[a].len : mem[p].words[i] \in DOMAIN mem \cup {Num}
        /\ \A c \in InUse.blocks : c # a => BuffersOf(a) \cap BuffersOf(c) = {}
  BY <1>4, <1>5, <1>6, <1>7
<1>9. QED BY <1>3, <1>8 DEF Intact

(* No collection frees a block that the program or a running constructor   *)
(* can still get at, however the two interleave: every word in use leads   *)
(* to a block, every container still has buffers of its own.               *)
THEOREM HeapIntact == Spec => []Intact
BY GCInvAlways, InvIntact, PTL

(* cl_mark_descend is never entered for a block that a running call is     *)
(* for already, on cyclic data either.                                     *)
THEOREM MarkingSimple == Spec => []DescentSimple
<1>1. GCInv => DescentSimple
  BY DEF GCInv, MarkInv
<1>2. QED BY GCInvAlways, <1>1, PTL

(* The collector implements the atomic one: the mutator is the same.       *)
LEMMA SameOperators ==
  /\ \A k : Heap!Holding(k) = Holding(k)
  /\ Heap!Usable = Usable /\ Heap!Fresh = Fresh /\ Heap!Keys = Keys
  /\ \A m, a, b : Heap!Put(m, a, b) = Put(m, a, b)
  /\ \A op, ws : Heap!Enter(op, ws) = Enter(op, ws)
  /\ \A w : Heap!Result(w) = Result(w)
  /\ \A b : Heap!NewCap(b) = NewCap(b) /\ Heap!Room(b) = Room(b) /\ Heap!CanGrow(b) = CanGrow(b)
  /\ \A p, n : Heap!Regrown(p, n) = Regrown(p, n)
<1>1. \A k : Heap!Holding(k) = Holding(k)
  BY DEF Heap!Holding, Holding
<1>2. Heap!Usable = Usable /\ Heap!Fresh = Fresh /\ Heap!Keys = Keys
  BY DEF Heap!Usable, Usable, Heap!Fresh, Fresh, Heap!Keys, Keys
<1>3. \A m, a, b : Heap!Put(m, a, b) = Put(m, a, b)
  BY DEF Heap!Put, Put
<1>4. \A op, ws : Heap!Enter(op, ws) = Enter(op, ws)
  BY DEF Heap!Enter, Enter, Heap!Idle, Idle, Heap!Slot, Slot
<1>5. \A w : Heap!Result(w) = Result(w)
  BY DEF Heap!Result, Result, Heap!Idle, Idle, Heap!Slot, Slot
<1>6. \A b : Heap!NewCap(b) = NewCap(b) /\ Heap!Room(b) = Room(b) /\ Heap!CanGrow(b) = CanGrow(b)
  BY DEF Heap!NewCap, NewCap, Heap!Room, Room, Heap!CanGrow, CanGrow, Heap!Cap, Cap, Heap!Contents, Contents
<1>7. \A p, n : Heap!Regrown(p, n) = Regrown(p, n)
  BY DEF Heap!Regrown, Regrown, Heap!Contents, Contents, Heap!Raw, Raw, Heap!Block, Block
<1>8. QED BY <1>1, <1>2, <1>3, <1>4, <1>5, <1>6, <1>7

LEMMA MutateImplements == Mutate => Heap!Mutate
<1>1. EnterNew => Heap!EnterNew
  BY SameOperators DEF EnterNew, Heap!EnterNew
<1>2. FinishNew => Heap!FinishNew
  BY SameOperators DEF FinishNew, Heap!FinishNew, With, Heap!With, Leaf, Heap!Leaf, Arr, Heap!Arr, Map, Heap!Map, Box, Heap!Box, Block, Heap!Block
<1>3. EnterConcat => Heap!EnterConcat
  BY SameOperators DEF EnterConcat, Heap!EnterConcat
<1>4. StepConcat => Heap!StepConcat
  BY SameOperators DEF StepConcat, Heap!StepConcat, With, Heap!With, Leaf, Heap!Leaf, Block, Heap!Block, KeepIn, Heap!KeepIn
<1>5. EnterClosure => Heap!EnterClosure
  BY SameOperators DEF EnterClosure, Heap!EnterClosure
<1>6. AllocClosure => Heap!AllocClosure
  BY SameOperators DEF AllocClosure, Heap!AllocClosure, With, Heap!With, Closure, Heap!Closure, Block, Heap!Block
<1>7. FillClosure => Heap!FillClosure
  BY SMTT(40), SameOperators DEF FillClosure, Heap!FillClosure, Raw, Heap!Raw, Block, Heap!Block
<1>8. PushInPlace => Heap!PushInPlace
  BY ZenonT(40), SameOperators DEF PushInPlace, Heap!PushInPlace, Idle, Heap!Idle
<1>9. EnterPush => Heap!EnterPush
  BY SameOperators DEF EnterPush, Heap!EnterPush
<1>10. FinishPush => Heap!FinishPush
  BY ZenonT(40), SameOperators DEF FinishPush, Heap!FinishPush
<1>11. Pop => Heap!Pop
  BY SameOperators DEF Pop, Heap!Pop, Idle, Heap!Idle, Slot, Heap!Slot, Contents, Heap!Contents
<1>12. StoreItem => Heap!StoreItem
  BY SameOperators DEF StoreItem, Heap!StoreItem, Idle, Heap!Idle
<1>13. StoreBox => Heap!StoreBox
  BY SameOperators DEF StoreBox, Heap!StoreBox, Idle, Heap!Idle
<1>14. SetInPlace => Heap!SetInPlace
  BY ZenonT(40), SameOperators DEF SetInPlace, Heap!SetInPlace, Idle, Heap!Idle, MapStore, Heap!MapStore
<1>15. EnterSet => Heap!EnterSet
  BY SameOperators DEF EnterSet, Heap!EnterSet
<1>16. GrowKeys => Heap!GrowKeys
  BY SameOperators DEF GrowKeys, Heap!GrowKeys
<1>17. FinishSet => Heap!FinishSet
  BY ZenonT(40), SameOperators DEF FinishSet, Heap!FinishSet
<1>18. Delete => Heap!Delete
  BY SameOperators DEF Delete, Heap!Delete, Idle, Heap!Idle, Shifted, Heap!Shifted
<1>19. Move => Heap!Move
  BY SameOperators DEF Move, Heap!Move, Idle, Heap!Idle, Slot, Heap!Slot
<1>20. Forget => Heap!Forget
  BY SameOperators DEF Forget, Heap!Forget, Idle, Heap!Idle
<1>21. Clobber => Heap!Clobber
  BY SameOperators DEF Clobber, Heap!Clobber, Idle, Heap!Idle, Slot, Heap!Slot
<1>22. UNCHANGED program => UNCHANGED Heap!program
  BY DEF program, Heap!program
<1>23. QED BY <1>1, <1>2, <1>3, <1>4, <1>5, <1>6, <1>7, <1>8, <1>9, <1>10, <1>11, <1>12, <1>13, <1>14, <1>15, <1>16, <1>17, <1>18, <1>19, <1>20, <1>21, <1>22
       DEF Mutate, Heap!Mutate

LEMMA NextImplements == GCInv /\ [Next]_vars => [Heap!Next]_(Heap!mvars)
<1> SUFFICES ASSUME HeapInv, MarkInv, [Next]_vars
             PROVE  [Heap!Next]_(Heap!mvars)
  BY DEF GCInv
<1>1. UNCHANGED mvars => UNCHANGED Heap!mvars
  BY DEF mvars, Heap!mvars, program, Heap!program
<1>2. CASE MutatorStep
  BY <1>2, MutateImplements DEF MutatorStep, Heap!Next
<1>3. CASE UNCHANGED mvars
  BY <1>1, <1>3
<1>4. CASE Sweep
  <2>1. Busy = {} /\ Words = {} /\ mem' = [a \in marked |-> mem[a]] /\ UNCHANGED <<program, local, live, call>>
    BY <1>4 DEF Sweep
  <2>2. marked = Heap!Reachable(mem, Heap!StackWords)
    BY <2>1, AllMarked
  <2>3. call # Heap!Idle
    BY <1>4 DEF Sweep, MarkInv, Heap!Idle, Idle
  <2>4. UNCHANGED Heap!program /\ UNCHANGED <<local, live, call>>
    BY <2>1 DEF program, Heap!program
  <2>5. CASE mem' = mem
    BY <2>1, <2>5, <1>3 DEF mvars
  <2>6. CASE mem' # mem
    BY <2>1, <2>2, <2>3, <2>4, <2>6 DEF Heap!Collect, Heap!Next
  <2>7. QED BY <2>5, <2>6
<1>5. UNCHANGED vars \/ cl_gc \/ ScanWord \/ Descend => UNCHANGED mvars
  BY DEF vars, cl_gc, ScanWord, Descend
<1>6. QED BY <1>2, <1>3, <1>4, <1>5 DEF Next, CollectorStep

(* The interruptible mark and the sweep are, to the program, one atomic    *)
(* step that frees exactly what no word of the stack leads to.             *)
THEOREM CollectorImplementsHeap == Spec => ImplementsHeap
<1>1. GCInit => Heap!Init
  BY DEF GCInit, Init, Heap!Init, Heap!Slot, Slot, Heap!Idle, Idle, Cardinality, Heap!Cardinality
<1>2. QED BY GCInvAlways, <1>1, NextImplements, PTL DEF Spec, ImplementsHeap, Heap!Spec
================================================================================
