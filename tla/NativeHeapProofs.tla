----------------------------- MODULE NativeHeapProofs ---------------------------
(***************************************************************************)
(* What the mutator keeps true of the native heap, for every number of     *)
(* addresses and stack slots and every program: every allocated block,     *)
(* reachable or not, leads to blocks only and has its buffers to itself,   *)
(* and the C locals of a running constructor lead to what it needs.        *)
(***************************************************************************)
EXTENDS NativeGC, SequenceFacts

(* How many buffers a block of each kind has.                              *)
Buffers == [leaf |-> 0, raw |-> 0, box |-> 0, arr |-> 1, map |-> 2, closure |-> 1]

BlockType == [kind : Kind, bufs : Seq(Addr \cup {NULL, Unset}), len : Nat, words : Seq(Word \cup {Unset})]

Leads(m, w) == w \in DOMAIN m \cup {Num}

(* Buffer p serves a container of n elements.                              *)
Serves(m, n, p) ==
  \/ p = Unset
  \/ p = NULL /\ n = 0
  \/ /\ p \in DOMAIN m
     /\ m[p].kind = "raw"
     /\ n <= Len(m[p].words)
     /\ \A i \in 1 .. n : Leads(m, m[p].words[i])

Size(m, p) == Len(Contents(m, p))

Blocks(m) ==
  /\ \A a \in DOMAIN m : a \in Addr /\ m[a] \in BlockType
  /\ \A a \in DOMAIN m : Len(m[a].bufs) = Buffers[m[a].kind]
  /\ \A a \in DOMAIN m : m[a].kind = "box" => Len(m[a].words) = 1 /\ Leads(m, m[a].words[1])
  /\ \A a \in DOMAIN m : m[a].kind # "closure" => \A k \in 1 .. Len(m[a].bufs) : m[a].bufs[k] # Unset
  /\ \A a \in DOMAIN m : m[a].kind = "map" => Size(m, m[a].bufs[1]) >= Size(m, m[a].bufs[2])

Served(m) ==
  \A a \in DOMAIN m : \A k \in 1 .. Len(m[a].bufs) : Serves(m, m[a].len, m[a].bufs[k])

Owned(m) ==
  \A a, c \in DOMAIN m : \A j \in 1 .. Len(m[a].bufs) : \A k \in 1 .. Len(m[c].bufs) :
    m[a].bufs[j] = m[c].bufs[k] /\ m[a].bufs[j] \in Addr => a = c /\ j = k

Memory(m) == Blocks(m) /\ Served(m) /\ Owned(m)

(* What the running constructor has in its C locals.                       *)
Grows(a) == mem[a].len + 1 <= NewCap(mem[a])

CallInv ==
  LET ws == call.words
      n == Len(ws)
  IN  /\ call = [op |-> call.op, words |-> ws]
      /\ ws \in Seq(Word)
      /\ \A i \in 1 .. n : Leads(mem, ws[i])
      /\ call.op = "none" => call = Idle
      /\ call.op = "box" => n = 1
      /\ call.op = "concat" => n <= 2
      /\ call.op = "upvals" => /\ n > 0 /\ ws[n] \in DOMAIN mem
                               /\ mem[ws[n]].kind = "closure" /\ mem[ws[n]].len = n - 1
      /\ call.op = "push" => /\ n = 2 /\ ws[1] \in DOMAIN mem
                             /\ mem[ws[1]].kind = "arr" /\ Grows(ws[1])
      /\ call.op \in {"set", "values"} =>
           /\ n = 3 /\ ws[1] \in DOMAIN mem
           /\ mem[ws[1]].kind = "map" /\ Grows(ws[1])
      /\ call.op = "values" => Size(mem, mem[ws[1]].bufs[1]) >= NewCap(mem[ws[1]])

Roots ==
  /\ local \in [Slot -> Word] /\ live \subseteq Slot
  /\ \A s \in live : Leads(mem, local[s])

HeapInv ==
  /\ room \subseteq Addr /\ DOMAIN mem \subseteq room
  /\ mem = [a \in DOMAIN mem |-> mem[a]]
  /\ Memory(mem) /\ Roots /\ CallInv

-------------------------------------------------------------------------------
(* Memories.                                                               *)

LEMMA BlockFacts ==
  ASSUME NEW m, Blocks(m), NEW a \in DOMAIN m
  PROVE  /\ a \in Addr /\ m[a] \in BlockType /\ m[a].kind \in Kind
         /\ m[a].len \in Nat
         /\ m[a].bufs \in Seq(Addr \cup {NULL, Unset}) /\ Len(m[a].bufs) = Buffers[m[a].kind]
         /\ m[a].words \in Seq(Word \cup {Unset}) /\ Len(m[a].words) \in Nat
         /\ \A k \in 1 .. Len(m[a].bufs) : m[a].bufs[k] \in Addr \cup {NULL, Unset}
<1>1. a \in Addr /\ m[a] \in BlockType /\ Len(m[a].bufs) = Buffers[m[a].kind]
  BY DEF Blocks
<1>2. /\ m[a].kind \in Kind /\ m[a].len \in Nat
      /\ m[a].bufs \in Seq(Addr \cup {NULL, Unset}) /\ m[a].words \in Seq(Word \cup {Unset})
  BY <1>1 DEF BlockType
<1>3. \A k \in 1 .. Len(m[a].bufs) : m[a].bufs[k] \in Addr \cup {NULL, Unset}
  BY ONLY <1>2, ElementOfSeq
<1>4. Len(m[a].words) \in Nat
  BY ONLY <1>2, LenProperties
<1>5. QED BY <1>1, <1>2, <1>3, <1>4

LEMMA BufferCounts ==
  /\ Buffers["leaf"] = 0 /\ Buffers["raw"] = 0 /\ Buffers["box"] = 0
  /\ Buffers["arr"] = 1 /\ Buffers["map"] = 2 /\ Buffers["closure"] = 1
BY DEF Buffers

Container == {"arr", "map", "closure"}

RawBlock(b) == b \in BlockType /\ b.kind = "raw" /\ Len(b.bufs) = 0

(* A container gets other elements, or fresh buffers: the others do not    *)
(* notice, because they share none of its buffers.                         *)
LEMMA Replaced ==
  ASSUME NEW m, Memory(m), NEW a \in DOMAIN m, m[a].kind \in Container,
         NEW F \in SUBSET (Addr \ DOMAIN m), NEW mm, DOMAIN mm = DOMAIN m \cup F,
         mm[a] \in BlockType, mm[a].kind = m[a].kind, Len(mm[a].bufs) = Len(m[a].bufs),
         \A k \in 1 .. Len(m[a].bufs) : mm[a].bufs[k] = m[a].bufs[k] \/ mm[a].bufs[k] \in F,
         \A j, k \in 1 .. Len(m[a].bufs) :
           j # k => mm[a].bufs[j] # mm[a].bufs[k] \/ mm[a].bufs[j] \notin F,
         \A k \in 1 .. Len(m[a].bufs) : Serves(mm, mm[a].len, mm[a].bufs[k]),
         m[a].kind = "map" => Size(mm, mm[a].bufs[1]) >= Size(mm, mm[a].bufs[2]),
         \A c \in DOMAIN m \ {a} :
           \/ mm[c] = m[c]
           \/ RawBlock(mm[c]) /\ \E k \in 1 .. Len(m[a].bufs) : c = m[a].bufs[k],
         \A c \in F : RawBlock(mm[c])
  PROVE  Memory(mm)
<1> DEFINE D == DOMAIN m
           n == Len(m[a].bufs)
           IsBuf(c) == \E k \in 1 .. n : c = m[a].bufs[k]
<1>1. \A c \in D : c # a /\ IsBuf(c) => m[c].kind = "raw"
  <2> SUFFICES ASSUME NEW c \in D, NEW k \in 1 .. n, c = m[a].bufs[k]
               PROVE  m[c].kind = "raw"
    OBVIOUS
  <2>1. Serves(m, m[a].len, c)
    BY DEF Memory, Served
  <2>2. c \in Addr
    BY DEF Memory, Blocks
  <2>3. QED BY <2>1, <2>2, MutatorAssumption DEF Serves
<1>2. \A c \in D : m[c].kind # "raw" /\ c # a => mm[c] = m[c]
  BY <1>1
<1>3. \A c \in DOMAIN mm : c # a => (mm[c] = m[c] /\ c \in D) \/ RawBlock(mm[c])
  OBVIOUS
<1>4. \A c \in DOMAIN mm : c \in Addr /\ mm[c] \in BlockType /\ Len(mm[c].bufs) = Buffers[mm[c].kind]
  BY <1>3, BufferCounts DEF Memory, Blocks, RawBlock
<1>5. \A w : Leads(m, w) => Leads(mm, w)
  BY DEF Leads
<1>6. \A c \in DOMAIN mm : Len(mm[c].bufs) > 0 \/ mm[c].kind \in {"box", "map", "arr", "closure"}
        => c = a \/ (c \in D /\ mm[c] = m[c])
  BY <1>3, BufferCounts DEF RawBlock
<1>7. ASSUME NEW c \in D, c # a, mm[c] = m[c], NEW k \in 1 .. Len(m[c].bufs)
      PROVE  /\ Serves(mm, mm[c].len, m[c].bufs[k])
             /\ Contents(mm, m[c].bufs[k]) = Contents(m, m[c].bufs[k])
             /\ \A j \in 1 .. n : m[c].bufs[k] \in Addr => mm[a].bufs[j] # m[c].bufs[k]
  <2> DEFINE p == m[c].bufs[k]
  <2>1. Serves(m, m[c].len, p)
    BY DEF Memory, Served
  <2>2. \A j \in 1 .. n : p \in Addr => m[a].bufs[j] # p
    BY <1>7 DEF Memory, Owned
  <2>3. p \in D => p \in Addr /\ p # a /\ mm[p] = m[p]
    <3> SUFFICES ASSUME p \in D
                 PROVE  p \in Addr /\ p # a /\ mm[p] = m[p]
      OBVIOUS
    <3>1. p \in Addr
      BY DEF Memory, Blocks
    <3>2. m[p].kind = "raw"
      BY <2>1, <3>1, MutatorAssumption DEF Serves
    <3>3. p # a
      BY <3>2 DEF Container
    <3>4. QED BY <2>2, <3>1, <3>3
  <2>4. p \notin F
    BY <2>1, <2>3, MutatorAssumption DEF Serves
  <2>5. Serves(mm, mm[c].len, p)
    BY <1>5, <1>7, <2>1, <2>3 DEF Serves
  <2>6. Contents(mm, p) = Contents(m, p)
    BY <2>3, <2>4 DEF Contents
  <2>7. \A j \in 1 .. n : p \in Addr => mm[a].bufs[j] # p
    BY <2>2, <2>4
  <2>8. QED BY <2>5, <2>6, <2>7
<1>8. Blocks(mm)
  <2>1. \A c \in DOMAIN mm : mm[c].kind = "box" => Len(mm[c].words) = 1 /\ Leads(mm, mm[c].words[1])
    BY <1>5, <1>6 DEF Memory, Blocks, Container
  <2>2. \A c \in DOMAIN mm : mm[c].kind # "closure" =>
          \A k \in 1 .. Len(mm[c].bufs) : mm[c].bufs[k] # Unset
    <3> SUFFICES ASSUME NEW c \in DOMAIN mm, mm[c].kind # "closure", NEW k \in 1 .. Len(mm[c].bufs)
                 PROVE  mm[c].bufs[k] # Unset
      OBVIOUS
    <3>1. Len(mm[c].bufs) \in Nat
      BY <1>4, BufferCounts DEF BlockType, Kind
    <3>2. c = a \/ (c \in D /\ mm[c] = m[c])
      BY <1>6, <3>1
    <3>3. QED BY <3>2, MutatorAssumption DEF Memory, Blocks
  <2>3. \A c \in DOMAIN mm : mm[c].kind = "map" => Size(mm, mm[c].bufs[1]) >= Size(mm, mm[c].bufs[2])
    <3> SUFFICES ASSUME NEW c \in DOMAIN mm, mm[c].kind = "map", c # a
                 PROVE  Size(mm, mm[c].bufs[1]) >= Size(mm, mm[c].bufs[2])
      OBVIOUS
    <3>1. c \in D /\ mm[c] = m[c] /\ Len(m[c].bufs) = 2
      BY ZenonT(40), <1>4, <1>6, BufferCounts
    <3>2. Size(m, m[c].bufs[1]) >= Size(m, m[c].bufs[2])
      BY <3>1 DEF Memory, Blocks
    <3>3. \A k \in {1, 2} : Contents(mm, m[c].bufs[k]) = Contents(m, m[c].bufs[k])
      BY <1>7, <3>1
    <3>4. QED BY <3>1, <3>2, <3>3 DEF Size
  <2>4. QED BY <1>4, <2>1, <2>2, <2>3 DEF Blocks
<1>9. Served(mm)
  <2> SUFFICES ASSUME NEW c \in DOMAIN mm, NEW k \in 1 .. Len(mm[c].bufs)
               PROVE  Serves(mm, mm[c].len, mm[c].bufs[k])
    BY DEF Served
  <2>1. Len(mm[c].bufs) \in Nat
    BY <1>4, BufferCounts DEF BlockType, Kind
  <2>2. c = a \/ (c \in D /\ mm[c] = m[c])
    BY <1>6, <2>1
  <2>3. QED BY <1>7, <2>2
<1>10. Owned(mm)
  <2> SUFFICES ASSUME NEW c \in DOMAIN mm, NEW e \in DOMAIN mm,
                      NEW j \in 1 .. Len(mm[c].bufs), NEW k \in 1 .. Len(mm[e].bufs),
                      mm[c].bufs[j] = mm[e].bufs[k], mm[c].bufs[j] \in Addr
               PROVE  c = e /\ j = k
    BY DEF Owned
  <2>1. Len(mm[c].bufs) \in Nat /\ Len(mm[e].bufs) \in Nat
    BY <1>4, BufferCounts DEF BlockType, Kind
  <2>2. c = a \/ (c \in D /\ mm[c] = m[c])
    BY <1>6, <2>1
  <2>3. e = a \/ (e \in D /\ mm[e] = m[e])
    BY <1>6, <2>1
  <2>4. CASE c # a /\ e # a
    BY <2>2, <2>3, <2>4 DEF Memory, Owned
  <2>5. CASE c = a /\ e # a
    BY <1>7, <2>3, <2>5
  <2>6. CASE c # a /\ e = a
    BY <1>7, <2>2, <2>6
  <2>7. CASE c = a /\ e = a
    BY <2>7 DEF Memory, Owned
  <2>8. QED BY <2>4, <2>5, <2>6, <2>7
<1>11. QED BY <1>8, <1>9, <1>10 DEF Memory

LEMMA PutFacts ==
  ASSUME NEW m, NEW a, NEW b
  PROVE  /\ DOMAIN Put(m, a, b) = DOMAIN m \cup {a}
         /\ Put(m, a, b)[a] = b
         /\ \A c \in DOMAIN m : c # a => Put(m, a, b)[c] = m[c]
         /\ Put(m, a, b) = [c \in DOMAIN Put(m, a, b) |-> Put(m, a, b)[c]]
BY DEF Put

(* A block without buffers of its own is new, or is a box that changes.    *)
LEMMA PutKeepsMemory ==
  ASSUME NEW m, Memory(m), NEW a \in Addr, a \in DOMAIN m => m[a].kind = "box",
         NEW b \in BlockType, Len(b.bufs) = Buffers[b.kind],
         b.kind = "box" => Len(b.words) = 1 /\ Leads(m, b.words[1]),
         \A k \in 1 .. Len(b.bufs) : \/ b.bufs[k] = NULL /\ b.len = 0
                                     \/ b.bufs[k] = Unset /\ b.kind = "closure"
  PROVE  Memory(Put(m, a, b))
<1> DEFINE D == DOMAIN m
           mm == Put(m, a, b)
<1>1. /\ DOMAIN mm = D \cup {a} /\ mm[a] = b
      /\ \A c \in D : c # a => mm[c] = m[c]
  BY DEF Put
<1> HIDE DEF mm
<1>2. \A w : Leads(m, w) => Leads(mm, w)
  BY <1>1 DEF Leads
<1>3. ASSUME NEW c \in D, NEW k \in 1 .. Len(m[c].bufs)
      PROVE  /\ m[c].bufs[k] # a
             /\ Serves(mm, m[c].len, m[c].bufs[k])
             /\ Contents(mm, m[c].bufs[k]) = Contents(m, m[c].bufs[k])
  <2> DEFINE p == m[c].bufs[k]
  <2>1. Serves(m, m[c].len, p)
    BY DEF Memory, Served
  <2>2. p # a
    BY <2>1, MutatorAssumption DEF Serves
  <2>3. Serves(mm, m[c].len, p)
    BY <1>1, <1>2, <2>1, <2>2 DEF Serves
  <2>4. Contents(mm, p) = Contents(m, p)
    BY <1>1, <2>2 DEF Contents
  <2>5. QED BY <2>2, <2>3, <2>4
<1>4. \A k \in 1 .. Len(b.bufs) : b.bufs[k] \notin Addr /\ Contents(mm, b.bufs[k]) = <<>>
  <2>1. NULL \notin DOMAIN mm /\ Unset \notin DOMAIN mm
    BY <1>1, MutatorAssumption DEF Memory, Blocks
  <2>2. QED BY <2>1, MutatorAssumption DEF Contents
<1>5. Blocks(mm)
  <2>1. \A c \in DOMAIN mm : c \in Addr /\ mm[c] \in BlockType /\ Len(mm[c].bufs) = Buffers[mm[c].kind]
    BY <1>1 DEF Memory, Blocks
  <2>2. \A c \in DOMAIN mm : mm[c].kind = "box" => Len(mm[c].words) = 1 /\ Leads(mm, mm[c].words[1])
    BY <1>1, <1>2 DEF Memory, Blocks
  <2>3. \A c \in DOMAIN mm : mm[c].kind # "closure" =>
          \A k \in 1 .. Len(mm[c].bufs) : mm[c].bufs[k] # Unset
    BY <1>1, MutatorAssumption DEF Memory, Blocks
  <2>4. \A c \in DOMAIN mm : mm[c].kind = "map" => Size(mm, mm[c].bufs[1]) >= Size(mm, mm[c].bufs[2])
    <3> SUFFICES ASSUME NEW c \in DOMAIN mm, mm[c].kind = "map"
                 PROVE  Size(mm, mm[c].bufs[1]) >= Size(mm, mm[c].bufs[2])
      OBVIOUS
    <3>1. Len(mm[c].bufs) = 2
      BY <2>1, BufferCounts
    <3>2. CASE c = a
      <4>1. Contents(mm, b.bufs[1]) = <<>> /\ Contents(mm, b.bufs[2]) = <<>>
        BY <1>1, <1>4, <3>1, <3>2
      <4>2. QED BY <1>1, <3>2, <4>1 DEF Size
    <3>3. CASE c # a
      <4>1. /\ Contents(mm, m[c].bufs[1]) = Contents(m, m[c].bufs[1])
            /\ Contents(mm, m[c].bufs[2]) = Contents(m, m[c].bufs[2])
        BY <1>1, <1>3, <3>1, <3>3
      <4>2. Size(m, m[c].bufs[1]) >= Size(m, m[c].bufs[2])
        BY <1>1, <3>3 DEF Memory, Blocks
      <4>3. QED BY <1>1, <3>3, <4>1, <4>2 DEF Size
    <3>4. QED BY <3>2, <3>3
  <2>5. QED BY <2>1, <2>2, <2>3, <2>4 DEF Blocks
<1>6. Served(mm)
  <2> SUFFICES ASSUME NEW c \in DOMAIN mm, NEW k \in 1 .. Len(mm[c].bufs)
               PROVE  Serves(mm, mm[c].len, mm[c].bufs[k])
    BY DEF Served
  <2>1. CASE c = a
    BY <1>1, <2>1 DEF Serves
  <2>2. CASE c # a
    <3>1. c \in D /\ mm[c] = m[c]
      BY <1>1, <2>2
    <3>2. QED BY <1>3, <3>1
  <2>3. QED BY <2>1, <2>2
<1>7. Owned(mm)
  <2> SUFFICES ASSUME NEW c \in DOMAIN mm, NEW e \in DOMAIN mm,
                      NEW j \in 1 .. Len(mm[c].bufs), NEW k \in 1 .. Len(mm[e].bufs),
                      mm[c].bufs[j] = mm[e].bufs[k], mm[c].bufs[j] \in Addr
               PROVE  c = e /\ j = k
    BY DEF Owned
  <2>1. c # a /\ e # a
    BY <1>1, <1>4
  <2>2. c \in D /\ mm[c] = m[c] /\ e \in D /\ mm[e] = m[e]
    BY <1>1, <2>1
  <2>3. QED BY <2>2 DEF Memory, Owned
<1>8. QED BY <1>5, <1>6, <1>7 DEF Memory, mm

(* What a block of a closed set leads to is in the set.                    *)
LEMMA ChildrenFacts ==
  ASSUME NEW m, NEW a \in DOMAIN m
  PROVE  /\ \A k \in 1 .. Len(m[a].bufs) : m[a].bufs[k] \in Heap!Children(m, a)
         /\ m[a].kind = "box" => m[a].words[1] \in Heap!Children(m, a)
         /\ m[a].kind # "box" =>
              \A k \in 1 .. Len(m[a].bufs) : \A i \in (1 .. m[a].len) \cap DOMAIN Contents(m, m[a].bufs[k]) :
                Contents(m, m[a].bufs[k])[i] \in Heap!Children(m, a)
<1>1. \A k \in 1 .. Len(m[a].bufs) : m[a].bufs[k] \in Heap!Children(m, a)
  BY DEF Heap!Children
<1>2. m[a].kind = "box" => m[a].words[1] \in Heap!Children(m, a)
  BY DEF Heap!Children, Heap!Elements
<1>3. ASSUME m[a].kind # "box", NEW k \in 1 .. Len(m[a].bufs),
             NEW i \in (1 .. m[a].len) \cap DOMAIN Contents(m, m[a].bufs[k])
      PROVE  Contents(m, m[a].bufs[k])[i] \in Heap!Children(m, a)
  <2>1. Contents(m, m[a].bufs[k])[i] \in Heap!Elements(m, a)
    BY <1>3 DEF Heap!Elements, Heap!Contents, Contents
  <2>2. QED BY <2>1 DEF Heap!Children
<1>4. QED BY <1>1, <1>2, <1>3

LEMMA RestrictedKeepsMemory ==
  ASSUME NEW m, Memory(m), NEW S \in SUBSET DOMAIN m, Heap!Closed(m, S)
  PROVE  Memory([a \in S |-> m[a]])
<1> DEFINE mm == [a \in S |-> m[a]]
<1>1. DOMAIN mm = S /\ \A c \in S : mm[c] = m[c]
  OBVIOUS
<1> HIDE DEF mm
<1>2. \A c \in S : \A w \in Heap!Children(m, c) : Leads(m, w) => Leads(mm, w)
  BY <1>1 DEF Heap!Closed, Leads
<1>3. ASSUME NEW c \in S, NEW k \in 1 .. Len(m[c].bufs)
      PROVE  /\ Serves(mm, m[c].len, m[c].bufs[k])
             /\ Contents(mm, m[c].bufs[k]) = Contents(m, m[c].bufs[k])
  <2> DEFINE p == m[c].bufs[k]
  <2>1. Serves(m, m[c].len, p)
    BY DEF Memory, Served
  <2>2. p \in DOMAIN m => p \in S
    BY ChildrenFacts DEF Heap!Closed
  <2>3. Contents(mm, p) = Contents(m, p)
    BY <1>1, <2>2 DEF Contents
  <2>4. ASSUME p \in DOMAIN m, NEW i \in 1 .. m[c].len, m[c].len <= Len(m[p].words), Leads(m, m[p].words[i])
        PROVE  Leads(mm, m[p].words[i])
    <3>1. c \in DOMAIN m /\ m[c].kind # "box"
      BY BufferCounts, BlockFacts DEF Memory
    <3>2. m[p].words \in Seq(Word \cup {Unset}) /\ m[c].len \in Nat
      BY <2>4, BlockFacts DEF Memory
    <3>3. DOMAIN m[p].words = 1 .. Len(m[p].words) /\ Len(m[p].words) \in Nat
      BY ONLY <3>2, LenProperties
    <3>4. i \in (1 .. m[c].len) \cap DOMAIN Contents(m, p)
      BY <2>4, <3>2, <3>3 DEF Contents
    <3>5. m[p].words[i] \in Heap!Children(m, c)
      BY SMTT(40), <2>4, <3>1, <3>4, ChildrenFacts DEF Contents
    <3>6. QED BY <1>2, <2>4, <3>5
  <2>5. Serves(mm, m[c].len, p)
    BY <1>1, <2>1, <2>2, <2>4 DEF Serves
  <2>6. QED BY <2>3, <2>5
<1>4. Blocks(mm)
  <2>1. \A c \in DOMAIN mm : c \in Addr /\ mm[c] \in BlockType /\ Len(mm[c].bufs) = Buffers[mm[c].kind]
    BY <1>1 DEF Memory, Blocks
  <2>2. \A c \in DOMAIN mm : mm[c].kind = "box" => Len(mm[c].words) = 1 /\ Leads(mm, mm[c].words[1])
    BY <1>1, <1>2, ChildrenFacts DEF Memory, Blocks
  <2>3. \A c \in DOMAIN mm : mm[c].kind # "closure" =>
          \A k \in 1 .. Len(mm[c].bufs) : mm[c].bufs[k] # Unset
    BY <1>1 DEF Memory, Blocks
  <2>4. \A c \in DOMAIN mm : mm[c].kind = "map" => Size(mm, mm[c].bufs[1]) >= Size(mm, mm[c].bufs[2])
    <3> SUFFICES ASSUME NEW c \in S, m[c].kind = "map"
                 PROVE  Size(mm, m[c].bufs[1]) >= Size(mm, m[c].bufs[2])
      BY <1>1
    <3>1. Len(m[c].bufs) = 2
      BY BufferCounts DEF Memory, Blocks
    <3>2. /\ Contents(mm, m[c].bufs[1]) = Contents(m, m[c].bufs[1])
          /\ Contents(mm, m[c].bufs[2]) = Contents(m, m[c].bufs[2])
      BY <1>3, <3>1
    <3>3. QED BY <3>2 DEF Size, Memory, Blocks
  <2>5. QED BY <2>1, <2>2, <2>3, <2>4 DEF Blocks
<1>5. Served(mm)
  BY <1>1, <1>3 DEF Served
<1>6. Owned(mm)
  <2> SUFFICES ASSUME NEW c \in S, NEW e \in S,
                      NEW j \in 1 .. Len(m[c].bufs), NEW k \in 1 .. Len(m[e].bufs),
                      m[c].bufs[j] = m[e].bufs[k], m[c].bufs[j] \in Addr
               PROVE  c = e /\ j = k
    BY <1>1 DEF Owned
  <2> QED BY DEF Memory, Owned
<1>7. QED BY <1>4, <1>5, <1>6 DEF Memory, mm

-------------------------------------------------------------------------------
(* What a step of the mutator starts from.                                 *)

LEMMA InUseFacts ==
  ASSUME HeapInv
  PROVE  /\ \A w \in Usable : Leads(mem, w) /\ w \in Word
         /\ \A k : \A s \in Holding(k) : local[s] \in DOMAIN mem /\ mem[local[s]].kind = k
         /\ \A k : \A s \in Holding(k) : s \in live /\ s \in Slot
<1>1. \A s \in live : Leads(mem, local[s]) /\ local[s] \in Word /\ s \in Slot
  BY DEF HeapInv, Roots
<1>2. \A w \in Usable : Leads(mem, w) /\ w \in Word
  BY <1>1 DEF Usable, Leads, Word
<1>3. \A k : \A s \in Holding(k) : local[s] \in DOMAIN mem /\ mem[local[s]].kind = k /\ s \in live
  BY <1>1, MutatorAssumption DEF Holding, Leads
<1>4. QED BY <1>1, <1>2, <1>3

LEMMA ContainerFacts ==
  ASSUME HeapInv, NEW a \in DOMAIN mem
  PROVE  /\ mem[a].kind = "arr" => Len(mem[a].bufs) = 1
         /\ mem[a].kind = "closure" => Len(mem[a].bufs) = 1
         /\ mem[a].kind = "map" => Len(mem[a].bufs) = 2
         /\ \A k \in 1 .. Len(mem[a].bufs) :
              LET p == mem[a].bufs[k] IN
              /\ Serves(mem, mem[a].len, p)
              /\ p \in Addr \cup {NULL, Unset}
              /\ p \in DOMAIN mem => RawBlock(mem[p]) /\ p # a
              /\ Size(mem, p) \in Nat
              /\ p \notin DOMAIN mem => Size(mem, p) = 0
              /\ p \in DOMAIN mem => Size(mem, p) = Len(mem[p].words)
              /\ mem[a].kind # "closure" => mem[a].len <= Size(mem, p)
<1>1. Memory(mem)
  BY DEF HeapInv
<1>2. Len(mem[a].bufs) = Buffers[mem[a].kind]
  BY <1>1 DEF Memory, Blocks
<1>3. ASSUME NEW k \in 1 .. Len(mem[a].bufs)
      PROVE  LET p == mem[a].bufs[k] IN
             /\ Serves(mem, mem[a].len, p)
             /\ p \in Addr \cup {NULL, Unset}
             /\ p \in DOMAIN mem => RawBlock(mem[p]) /\ p # a
             /\ Size(mem, p) \in Nat
             /\ p \notin DOMAIN mem => Size(mem, p) = 0
             /\ p \in DOMAIN mem => Size(mem, p) = Len(mem[p].words)
             /\ mem[a].kind # "closure" => mem[a].len <= Size(mem, p)
  <2> DEFINE p == mem[a].bufs[k]
  <2>1. Serves(mem, mem[a].len, p)
    BY <1>1 DEF Memory, Served
  <2>2. p \in Addr \cup {NULL, Unset}
    BY <1>1, BlockFacts DEF Memory
  <2>3. p \in DOMAIN mem => mem[p].kind = "raw"
    BY <1>1, <2>1, MutatorAssumption DEF Serves, Memory, Blocks
  <2>4. p \in DOMAIN mem => RawBlock(mem[p]) /\ p # a
    <3>1. mem[a].kind # "raw"
      BY <1>2, BufferCounts
    <3>2. QED BY <1>1, <2>3, <3>1, BufferCounts DEF Memory, Blocks, RawBlock
  <2>5. p \notin DOMAIN mem => Size(mem, p) = 0
    BY EmptySeq DEF Size, Contents
  <2>6. p \in DOMAIN mem => Size(mem, p) = Len(mem[p].words) /\ Len(mem[p].words) \in Nat
    BY <1>1, BlockFacts DEF Size, Contents, Memory
  <2>7. mem[a].kind # "closure" => mem[a].len <= Size(mem, p)
    <3>1. mem[a].kind # "closure" => p # Unset
      BY <1>1 DEF Memory, Blocks
    <3>2. QED BY <2>1, <2>5, <2>6, <3>1 DEF Serves
  <2>8. QED BY <2>1, <2>2, <2>4, <2>5, <2>6, <2>7
<1>4. QED BY <1>2, <1>3, BufferCounts

(* What a step leaves behind.                                              *)

LEMMA LeadsKept ==
  ASSUME NEW m, NEW mm, DOMAIN m \subseteq DOMAIN mm, NEW w, Leads(m, w)
  PROVE  Leads(mm, w)
BY DEF Leads

LEMMA EnterKeeps ==
  ASSUME HeapInv, NEW op, NEW ws, Enter(op, ws), UNCHANGED program, CallInv'
  PROVE  HeapInv'
<1>1. mem' = mem /\ room' = room
  BY DEF Enter, program
<1>2. PICK temps \in SUBSET live : /\ live' = live \ temps
                                   /\ local' = [s \in Slot |-> IF s \in temps THEN Num ELSE local[s]]
  BY DEF Enter
<1>3. Roots'
  BY <1>1, <1>2 DEF HeapInv, Roots, Word, Leads
<1>4. Memory(mem)'
  BY <1>1 DEF HeapInv
<1>5. QED BY <1>1, <1>3, <1>4 DEF HeapInv

LEMMA IdleInv == call' = Idle => CallInv'
<1> SUFFICES ASSUME call' = Idle
             PROVE  CallInv'
  OBVIOUS
<1>1. call'.op = "none" /\ call'.words = <<>>
  BY DEF Idle
<1>2. <<>> \in Seq(Word) /\ Len(<<>>) = 0
  BY EmptySeq
<1>3. call' = [op |-> "none", words |-> <<>>]
  BY DEF Idle
<1>4. Len(call'.words) = 0 /\ call'.words \in Seq(Word)
  BY <1>1, <1>2
<1>5. \A i \in 1 .. Len(call'.words) : Leads(mem', call'.words[i])
  BY <1>4
<1>6. call' = [op |-> call'.op, words |-> call'.words]
  BY <1>3
<1>7. QED BY <1>1, <1>4, <1>5, <1>6 DEF CallInv

LEMMA ResultKeeps ==
  ASSUME HeapInv, NEW w \in Word, Leads(mem', w), Result(w), UNCHANGED program,
         DOMAIN mem \subseteq DOMAIN mem', DOMAIN mem' \subseteq room,
         mem' = [a \in DOMAIN mem' |-> mem'[a]], Memory(mem')
  PROVE  HeapInv'
<1>1. PICK d \in Slot : local' = [local EXCEPT ![d] = w] /\ live' = live \cup {d}
  BY DEF Result
<1>2. Roots'
  BY <1>1 DEF HeapInv, Roots, Leads
<1>3. CallInv'
  BY IdleInv DEF Result
<1>4. room' = room
  BY DEF program
<1>5. QED BY <1>2, <1>3, <1>4 DEF HeapInv

LEMMA ChangeKeeps ==
  ASSUME HeapInv, call = Idle, UNCHANGED <<local, live, call>>, UNCHANGED program,
         DOMAIN mem' = DOMAIN mem,
         mem' = [a \in DOMAIN mem' |-> mem'[a]], Memory(mem')
  PROVE  HeapInv'
<1>1. Roots'
  BY DEF HeapInv, Roots, Leads
<1>2. CallInv'
  BY IdleInv
<1>3. room' = room
  BY DEF program
<1>4. QED BY <1>1, <1>2, <1>3 DEF HeapInv

(* Entering a constructor with words the program may use.                  *)
LEMMA Entered ==
  ASSUME HeapInv, NEW op, op # "none", NEW ws \in Seq(Word), Enter(op, ws),
         \A i \in 1 .. Len(ws) : Leads(mem, ws[i])
  PROVE  /\ mem' = mem /\ call' = [op |-> call'.op, words |-> call'.words]
         /\ call'.op = op /\ call'.words = ws
         /\ call'.words \in Seq(Word)
         /\ \A i \in 1 .. Len(call'.words) : Leads(mem', call'.words[i])
<1>1. mem' = mem /\ call' = [op |-> op, words |-> ws]
  BY DEF Enter
<1>2. call'.op = op /\ call'.words = ws
  BY <1>1
<1>3. QED BY <1>1, <1>2

LEMMA EnterNewKeeps == HeapInv /\ UNCHANGED program /\ EnterNew => HeapInv'
<1> SUFFICES ASSUME HeapInv, UNCHANGED program, EnterNew
             PROVE  HeapInv'
  OBVIOUS
<1>1. ASSUME NEW op \in {"leaf", "arr", "map"}, Enter(op, <<>>)
      PROVE  HeapInv'
  <2>1. <<>> \in Seq(Word) /\ Len(<<>>) = 0 /\ op # "none"
    BY EmptySeq
  <2>2. \A i \in 1 .. Len(<<>>) : Leads(mem, <<>>[i])
    BY <2>1
  <2>3. CallInv'
    BY <1>1, <2>1, <2>2, Entered DEF CallInv
  <2>4. QED BY <1>1, <2>3, EnterKeeps
<1>2. ASSUME NEW w \in Usable, Enter("box", <<w>>)
      PROVE  HeapInv'
  <2>1. <<w>> \in Seq(Word) /\ Len(<<w>>) = 1 /\ <<w>>[1] = w /\ Leads(mem, w)
    BY InUseFacts
  <2>2. \A i \in 1 .. Len(<<w>>) : Leads(mem, <<w>>[i])
    BY <2>1
  <2>3. /\ mem' = mem /\ call' = [op |-> call'.op, words |-> call'.words]
        /\ call'.op = "box" /\ call'.words = <<w>>
    BY <1>2 DEF Enter
  <2>4. CallInv'
    BY <2>1, <2>2, <2>3 DEF CallInv
  <2>5. QED BY <1>2, <2>4, EnterKeeps
<1>3. QED BY <1>1, <1>2 DEF EnterNew

(* The blocks that start without a buffer.                                 *)
LEMMA NewBlocks ==
  /\ Leaf \in BlockType /\ Leaf.kind = "leaf" /\ Len(Leaf.bufs) = 0
  /\ Arr \in BlockType /\ Arr.kind = "arr" /\ Len(Arr.bufs) = 1 /\ Arr.bufs[1] = NULL /\ Arr.len = 0
  /\ Map \in BlockType /\ Map.kind = "map" /\ Len(Map.bufs) = 2
       /\ Map.bufs[1] = NULL /\ Map.bufs[2] = NULL /\ Map.len = 0
  /\ \A w \in Word : /\ Box(w) \in BlockType /\ Box(w).kind = "box" /\ Len(Box(w).bufs) = 0
                     /\ Len(Box(w).words) = 1 /\ Box(w).words[1] = w
  /\ \A n \in Nat : /\ Closure(n) \in BlockType /\ Closure(n).kind = "closure" /\ Len(Closure(n).bufs) = 1
                    /\ Closure(n).bufs[1] = (IF n = 0 THEN NULL ELSE Unset) /\ Closure(n).len = n
<1> USE DEF BlockType, Block, Kind
<1>1. Leaf \in BlockType /\ Leaf.kind = "leaf" /\ Len(Leaf.bufs) = 0
  BY DEF Leaf
<1>2. Arr \in BlockType /\ Arr.kind = "arr" /\ Len(Arr.bufs) = 1 /\ Arr.bufs[1] = NULL /\ Arr.len = 0
  BY DEF Arr
<1>3. Map \in BlockType /\ Map.kind = "map" /\ Len(Map.bufs) = 2
        /\ Map.bufs[1] = NULL /\ Map.bufs[2] = NULL /\ Map.len = 0
  BY DEF Map
<1>4. ASSUME NEW w \in Word
      PROVE  /\ Box(w) \in BlockType /\ Box(w).kind = "box" /\ Len(Box(w).bufs) = 0
             /\ Len(Box(w).words) = 1 /\ Box(w).words[1] = w
  BY DEF Box
<1>5. ASSUME NEW n \in Nat
      PROVE  /\ Closure(n) \in BlockType /\ Closure(n).kind = "closure" /\ Len(Closure(n).bufs) = 1
             /\ Closure(n).bufs[1] = (IF n = 0 THEN NULL ELSE Unset) /\ Closure(n).len = n
  BY DEF Closure
<1>6. QED BY <1>1, <1>2, <1>3, <1>4, <1>5

(* A constructor allocates a block of its own.                             *)
LEMMA WithKeeps ==
  ASSUME HeapInv, NEW a \in Fresh, NEW b, With(a, b), b \in BlockType, Len(b.bufs) = Buffers[b.kind],
         b.kind = "box" => Len(b.words) = 1 /\ Leads(mem, b.words[1]),
         \A k \in 1 .. Len(b.bufs) : \/ b.bufs[k] = NULL /\ b.len = 0
                                     \/ b.bufs[k] = Unset /\ b.kind = "closure"
  PROVE  /\ DOMAIN mem' = DOMAIN mem \cup {a} /\ DOMAIN mem' \subseteq room
         /\ mem' = [c \in DOMAIN mem' |-> mem'[c]] /\ mem'[a] = b
         /\ Memory(mem') /\ a \in Word
<1>1. a \in Addr /\ a \notin DOMAIN mem /\ a \in room /\ DOMAIN mem \subseteq room /\ Memory(mem)
  BY DEF HeapInv, Fresh
<1>2. mem' = Put(mem, a, b)
  BY DEF With
<1>3. Memory(mem')
  BY <1>1, <1>2, PutKeepsMemory
<1>4. /\ DOMAIN mem' = DOMAIN mem \cup {a} /\ mem'[a] = b
      /\ mem' = [c \in DOMAIN mem' |-> mem'[c]]
  BY <1>2 DEF Put
<1>5. QED BY <1>1, <1>3, <1>4 DEF Word

LEMMA FinishNewKeeps == HeapInv /\ UNCHANGED program /\ FinishNew => HeapInv'
<1> SUFFICES ASSUME HeapInv, UNCHANGED program, NEW a \in Fresh, Result(a),
                    \/ call.op = "leaf" /\ With(a, Leaf)
                    \/ call.op = "arr"  /\ With(a, Arr)
                    \/ call.op = "map"  /\ With(a, Map)
                    \/ call.op = "box"  /\ With(a, Box(call.words[1]))
             PROVE  HeapInv'
  BY DEF FinishNew
<1>1. PICK b : /\ With(a, b) /\ b \in BlockType /\ Len(b.bufs) = Buffers[b.kind]
               /\ b.kind = "box" => Len(b.words) = 1 /\ Leads(mem, b.words[1])
               /\ \A k \in 1 .. Len(b.bufs) : b.bufs[k] = NULL /\ b.len = 0
  <2>1. CASE With(a, Leaf)
    BY <2>1, NewBlocks, BufferCounts
  <2>2. CASE With(a, Arr)
    <3>1. \A k \in 1 .. Len(Arr.bufs) : Arr.bufs[k] = NULL /\ Arr.len = 0
      BY NewBlocks
    <3>2. Arr \in BlockType /\ Len(Arr.bufs) = Buffers[Arr.kind] /\ Arr.kind # "box"
      BY NewBlocks, BufferCounts
    <3>3. QED BY ONLY <2>2, <3>1, <3>2
  <2>3. CASE With(a, Map)
    <3>1. \A k \in 1 .. Len(Map.bufs) : Map.bufs[k] = NULL /\ Map.len = 0
      BY NewBlocks
    <3>2. Map \in BlockType /\ Len(Map.bufs) = Buffers[Map.kind] /\ Map.kind # "box"
      BY NewBlocks, BufferCounts
    <3>3. QED BY ONLY <2>3, <3>1, <3>2
  <2>4. CASE call.op = "box" /\ With(a, Box(call.words[1]))
    <3>1. call.words \in Seq(Word) /\ Len(call.words) = 1 /\ Leads(mem, call.words[1])
      BY <2>4 DEF HeapInv, CallInv
    <3>2. call.words[1] \in Word
      BY ONLY <3>1, ElementOfSeq
    <3>3. QED BY <2>4, <3>1, <3>2, NewBlocks, BufferCounts
  <2>5. QED BY <2>1, <2>2, <2>3, <2>4
<1>2. /\ DOMAIN mem' = DOMAIN mem \cup {a} /\ DOMAIN mem' \subseteq room
      /\ mem' = [c \in DOMAIN mem' |-> mem'[c]]
      /\ Memory(mem') /\ a \in Word
  BY <1>1, WithKeeps
<1>3. Leads(mem', a)
  BY <1>2 DEF Leads
<1>4. QED BY <1>2, <1>3, ResultKeeps

LEMMA EnterConcatKeeps == HeapInv /\ UNCHANGED program /\ EnterConcat => HeapInv'
<1> SUFFICES ASSUME HeapInv, UNCHANGED program, Enter("concat", <<>>)
             PROVE  HeapInv'
  BY DEF EnterConcat
<1>1. <<>> \in Seq(Word) /\ Len(<<>>) = 0
  BY EmptySeq
<1>2. \A i \in 1 .. Len(<<>>) : Leads(mem, <<>>[i])
  BY <1>1
<1>3. /\ mem' = mem /\ call' = [op |-> call'.op, words |-> call'.words]
      /\ call'.op = "concat" /\ call'.words = <<>>
  BY DEF Enter
<1>4. CallInv'
  BY <1>1, <1>2, <1>3 DEF CallInv
<1>5. QED BY <1>4, EnterKeeps

LEMMA AllocKeeps ==
  ASSUME HeapInv, UNCHANGED program, UNCHANGED <<local, live>>,
         DOMAIN mem \subseteq DOMAIN mem', DOMAIN mem' \subseteq room,
         mem' = [a \in DOMAIN mem' |-> mem'[a]], Memory(mem'), CallInv'
  PROVE  HeapInv'
<1>1. Roots'
  BY DEF HeapInv, Roots, Leads
<1>2. room' = room
  BY DEF program
<1>3. QED BY <1>1, <1>2 DEF HeapInv

(* A constructor keeps the block it has just made in its C locals.         *)
LEMMA Kept ==
  ASSUME HeapInv, NEW a \in Word, Leads(mem', a), DOMAIN mem \subseteq DOMAIN mem'
  PROVE  LET ws == Append(call.words, a)
             n == Len(call.words)
         IN  /\ ws \in Seq(Word) /\ n \in Nat /\ Len(ws) = n + 1 /\ ws[n + 1] = a
             /\ \A i \in 1 .. Len(ws) : Leads(mem', ws[i])
             /\ \A i \in 1 .. n : ws[i] = call.words[i]
<1> DEFINE ws == Append(call.words, a)
           n == Len(call.words)
<1>1. call.words \in Seq(Word) /\ \A i \in 1 .. n : Leads(mem, call.words[i])
  BY DEF HeapInv, CallInv
<1>2. n \in Nat
  BY ONLY <1>1, LenProperties
<1>3. /\ ws \in Seq(Word) /\ Len(ws) = n + 1 /\ ws[n + 1] = a
      /\ \A i \in 1 .. n : ws[i] = call.words[i]
  BY ONLY <1>1, AppendFacts
<1>4. ASSUME NEW i \in 1 .. Len(ws)
      PROVE  Leads(mem', ws[i])
  <2>1. CASE i = n + 1
    BY <1>3, <2>1
  <2>2. CASE i \in 1 .. n
    BY <1>1, <1>3, <2>2, LeadsKept
  <2>3. QED BY <1>2, <1>3, <2>1, <2>2
<1>5. QED BY <1>2, <1>3, <1>4

LEMMA StepConcatKeeps == HeapInv /\ UNCHANGED program /\ StepConcat => HeapInv'
<1> SUFFICES ASSUME HeapInv, UNCHANGED program, NEW a \in Fresh, call.op = "concat", With(a, Leaf),
                    IF Len(call.words) < 2 THEN KeepIn(Append(call.words, a)) ELSE Result(a)
             PROVE  HeapInv'
  BY DEF StepConcat
<1>1. \A k \in 1 .. Len(Leaf.bufs) : Leaf.bufs[k] = NULL /\ Leaf.len = 0
  BY NewBlocks
<1>2. /\ DOMAIN mem' = DOMAIN mem \cup {a} /\ DOMAIN mem' \subseteq room
      /\ mem' = [c \in DOMAIN mem' |-> mem'[c]]
      /\ Memory(mem') /\ a \in Word
  BY <1>1, WithKeeps, NewBlocks, BufferCounts
<1>3. Leads(mem', a)
  BY <1>2 DEF Leads
<1>4. CASE Len(call.words) < 2
  <2> DEFINE ws == Append(call.words, a)
             n == Len(call.words)
  <2>1. call' = [call EXCEPT !.words = ws] /\ UNCHANGED <<local, live>>
    BY <1>4 DEF KeepIn
  <2>2. /\ ws \in Seq(Word) /\ n \in Nat /\ Len(ws) = n + 1
        /\ \A i \in 1 .. Len(ws) : Leads(mem', ws[i])
    BY <1>2, <1>3, Kept
  <2>3. call = [op |-> call.op, words |-> call.words]
    BY DEF HeapInv, CallInv
  <2> HIDE DEF ws, n
  <2>4. call' = [op |-> call'.op, words |-> call'.words] /\ call'.op = "concat" /\ call'.words = ws
    BY <2>1, <2>3
  <2>5. Len(ws) <= 2
    BY <1>4, <2>2 DEF n
  <2>6. CallInv'
    BY <2>2, <2>4, <2>5 DEF CallInv
  <2>7. QED BY <1>2, <2>1, <2>6, AllocKeeps
<1>5. CASE ~ (Len(call.words) < 2)
  BY <1>2, <1>3, <1>5, ResultKeeps
<1>6. QED BY <1>4, <1>5

LEMMA EnterClosureKeeps == HeapInv /\ UNCHANGED program /\ EnterClosure => HeapInv'
<1> SUFFICES ASSUME HeapInv, UNCHANGED program, NEW n \in Captures, NEW bs \in [1 .. n -> Holding("box")],
                    Enter("closure", [i \in 1 .. n |-> local[bs[i]]])
             PROVE  HeapInv'
  BY DEF EnterClosure
<1> DEFINE ws == [i \in 1 .. n |-> local[bs[i]]]
<1>1. n \in Nat
  BY MutatorAssumption
<1>2. \A i \in 1 .. n : local[bs[i]] \in Word /\ Leads(mem, local[bs[i]])
  BY InUseFacts DEF HeapInv, Roots, Leads
<1>3. ws \in Seq(Word) /\ Len(ws) = n /\ \A i \in 1 .. n : Leads(mem, ws[i])
  BY <1>1, <1>2
<1> HIDE DEF ws
<1>4. /\ mem' = mem /\ call' = [op |-> call'.op, words |-> call'.words]
      /\ call'.op = "closure" /\ call'.words = ws
  BY DEF Enter, ws
<1>5. CallInv'
  BY <1>3, <1>4 DEF CallInv
<1>6. QED BY <1>5, EnterKeeps DEF ws

LEMMA AllocClosureKeeps == HeapInv /\ UNCHANGED program /\ AllocClosure => HeapInv'
<1> DEFINE n == Len(call.words)
           ws(a) == Append(call.words, a)
<1> SUFFICES ASSUME HeapInv, UNCHANGED program, NEW a \in Fresh, call.op = "closure", With(a, Closure(n)),
                    IF call.words = <<>>
                    THEN Result(a)
                    ELSE /\ call' = [call EXCEPT !.op = "upvals", !.words = Append(@, a)]
                         /\ UNCHANGED <<local, live>>
             PROVE  HeapInv'
  BY Zenon DEF AllocClosure
<1>1. n \in Nat
  <2>1. call.words \in Seq(Word)
    BY DEF HeapInv, CallInv
  <2>2. QED BY ONLY <2>1, LenProperties
<1>2. /\ Closure(n) \in BlockType /\ Len(Closure(n).bufs) = Buffers[Closure(n).kind]
      /\ Closure(n).kind = "closure" /\ Closure(n).len = n
      /\ \A k \in 1 .. Len(Closure(n).bufs) : \/ Closure(n).bufs[k] = NULL /\ Closure(n).len = 0
                                              \/ Closure(n).bufs[k] = Unset /\ Closure(n).kind = "closure"
  <2>1. /\ Closure(n) \in BlockType /\ Closure(n).kind = "closure" /\ Len(Closure(n).bufs) = 1
        /\ Closure(n).bufs[1] = (IF n = 0 THEN NULL ELSE Unset) /\ Closure(n).len = n
    BY <1>1, NewBlocks
  <2>2. ASSUME NEW k \in 1 .. Len(Closure(n).bufs)
        PROVE  \/ Closure(n).bufs[k] = NULL /\ Closure(n).len = 0
               \/ Closure(n).bufs[k] = Unset /\ Closure(n).kind = "closure"
    <3>1. k = 1
      BY <2>1
    <3>2. QED BY <2>1, <3>1
  <2>3. QED BY <2>1, <2>2, BufferCounts
<1>3. /\ DOMAIN mem' = DOMAIN mem \cup {a} /\ DOMAIN mem' \subseteq room
      /\ mem' = [c \in DOMAIN mem' |-> mem'[c]] /\ mem'[a] = Closure(n)
      /\ Memory(mem') /\ a \in Word
  BY <1>2, WithKeeps
<1>4. Leads(mem', a)
  BY <1>3 DEF Leads
<1>5. CASE call.words = <<>>
  BY <1>3, <1>4, <1>5, ResultKeeps
<1>6. CASE call.words # <<>>
  <2>1. call' = [call EXCEPT !.op = "upvals", !.words = ws(a)] /\ UNCHANGED <<local, live>>
    BY <1>6
  <2>2. /\ ws(a) \in Seq(Word) /\ Len(ws(a)) = n + 1 /\ ws(a)[n + 1] = a
        /\ \A i \in 1 .. Len(ws(a)) : Leads(mem', ws(a)[i])
    BY <1>3, <1>4, Kept
  <2>3. call = [op |-> call.op, words |-> call.words]
    BY DEF HeapInv, CallInv
  <2> HIDE DEF ws
  <2>4. call' = [op |-> call'.op, words |-> call'.words] /\ call'.op = "upvals" /\ call'.words = ws(a)
    BY <2>1, <2>3
  <2>5. Len(ws(a)) > 0 /\ Len(ws(a)) - 1 = n
    BY <1>1, <2>2
  <2>6. /\ ws(a)[Len(ws(a))] \in DOMAIN mem'
        /\ mem'[ws(a)[Len(ws(a))]].kind = "closure" /\ mem'[ws(a)[Len(ws(a))]].len = Len(ws(a)) - 1
    BY <1>2, <1>3, <2>2, <2>5
  <2>7. CallInv'
    BY <2>2, <2>4, <2>5, <2>6 DEF CallInv
  <2>8. QED BY <1>3, <2>1, <2>7, AllocKeeps
<1>7. QED BY <1>5, <1>6

(* A container with one buffer gets a new one.                             *)
LEMMA NewBufferKeeps ==
  ASSUME HeapInv, NEW a \in DOMAIN mem, mem[a].kind \in {"arr", "closure"},
         NEW p \in Fresh, NEW b \in BlockType, NEW r, RawBlock(r),
         b.kind = mem[a].kind, b.bufs = <<p>>, b.len <= Len(r.words),
         \A i \in 1 .. b.len : Leads(mem, r.words[i]),
         mem' = Put([mem EXCEPT ![a] = b], p, r)
  PROVE  /\ DOMAIN mem' = DOMAIN mem \cup {p} /\ DOMAIN mem' \subseteq room
         /\ mem' = [c \in DOMAIN mem' |-> mem'[c]]
         /\ Memory(mem')
<1>1. p \in Addr /\ p \notin DOMAIN mem /\ p \in room /\ DOMAIN mem \subseteq room /\ Memory(mem)
  BY DEF HeapInv, Fresh
<1>2. /\ DOMAIN mem' = DOMAIN mem \cup {p}
      /\ mem' = [c \in DOMAIN mem' |-> mem'[c]]
      /\ mem'[a] = b /\ mem'[p] = r
      /\ \A c \in DOMAIN mem : c # a => mem'[c] = mem[c]
  BY <1>1 DEF Put
<1>3. Len(mem[a].bufs) = 1
  BY ContainerFacts
<1>4. Serves(mem', b.len, p)
  <2>1. \A i \in 1 .. b.len : Leads(mem', r.words[i])
    BY <1>2, LeadsKept
  <2>2. QED BY <1>2, <2>1 DEF Serves, RawBlock
<1>5. Len(b.bufs) = 1 /\ b.bufs[1] = p
  OBVIOUS
<1>6. Memory(mem')
  <2> DEFINE F == {p}
             n == Len(mem[a].bufs)
  <2>1. \A k \in 1 .. n : mem'[a].bufs[k] = mem[a].bufs[k] \/ mem'[a].bufs[k] \in F
    BY <1>2, <1>3, <1>5
  <2>2. \A k \in 1 .. n : Serves(mem', mem'[a].len, mem'[a].bufs[k])
    BY <1>2, <1>3, <1>4, <1>5
  <2>3. F \in SUBSET (Addr \ DOMAIN mem) /\ mem[a].kind \in Container /\ mem[a].kind # "map"
    BY <1>1 DEF Container
  <2>4. \A c \in DOMAIN mem \ {a} :
          \/ mem'[c] = mem[c]
          \/ RawBlock(mem'[c]) /\ \E k \in 1 .. n : c = mem[a].bufs[k]
    BY <1>2
  <2>5. \A c \in F : RawBlock(mem'[c])
    BY <1>2
  <2>6. mem'[a] \in BlockType /\ mem'[a].kind = mem[a].kind /\ Len(mem'[a].bufs) = n
    BY <1>2, <1>3, <1>5
  <2>7. \A j, k \in 1 .. n : j # k => mem'[a].bufs[j] # mem'[a].bufs[k] \/ mem'[a].bufs[j] \notin F
    BY <1>3
  <2>8. DOMAIN mem' = DOMAIN mem \cup F
    BY <1>2
  <2> HIDE DEF F
  <2>9. QED BY ONLY <1>1, <2>1, <2>2, <2>3, <2>4, <2>5, <2>6, <2>7, <2>8, a \in DOMAIN mem, Replaced
<1>7. QED BY <1>1, <1>2, <1>6

LEMMA RawFacts ==
  ASSUME NEW ws \in Seq(Word \cup {Unset})
  PROVE  RawBlock(Raw(ws)) /\ Raw(ws).words = ws
BY DEF RawBlock, Raw, Block, BlockType, Kind

LEMMA ContainerChanged ==
  ASSUME NEW b \in BlockType, NEW n \in Nat, NEW bs \in Seq(Addr \cup {NULL, Unset}),
         NEW c, c = [b EXCEPT !.len = n, !.bufs = bs]
  PROVE  c \in BlockType /\ c.kind = b.kind /\ c.len = n /\ c.bufs = bs
BY DEF BlockType

LEMMA FillClosureKeeps == HeapInv /\ UNCHANGED program /\ FillClosure => HeapInv'
<1> DEFINE ws == call.words
           n == Len(ws) - 1
           c == ws[n + 1]
           us == SubSeq(ws, 1, n)
<1> SUFFICES ASSUME HeapInv, UNCHANGED program, NEW u \in Fresh, call.op = "upvals", Result(c),
                    mem' = Put([mem EXCEPT ![c].bufs = <<u>>], u, Raw(us))
             PROVE  HeapInv'
  BY DEF FillClosure
<1>1. /\ ws \in Seq(Word) /\ Len(ws) > 0
      /\ \A i \in 1 .. Len(ws) : Leads(mem, ws[i])
      /\ ws[Len(ws)] \in DOMAIN mem /\ mem[ws[Len(ws)]].kind = "closure" /\ mem[ws[Len(ws)]].len = Len(ws) - 1
  BY DEF HeapInv, CallInv
<1>2. Len(ws) \in Nat
  BY ONLY <1>1, LenProperties
<1>3. n \in Nat /\ n + 1 = Len(ws) /\ n \in 0 .. Len(ws)
  BY <1>1, <1>2
<1>4. c \in DOMAIN mem /\ mem[c].kind = "closure" /\ mem[c].len = n
  BY <1>1, <1>3
<1>5. us \in Seq(Word) /\ Len(us) = n /\ \A i \in 1 .. n : us[i] = ws[i]
  BY ONLY <1>1, <1>3, InitialPartFacts
<1>6. \A i \in 1 .. n : Leads(mem, us[i])
  BY <1>1, <1>2, <1>3, <1>5
<1>7. us \in Seq(Word \cup {Unset})
  BY <1>5
<1> HIDE DEF n, c, us
<1> DEFINE b == [mem[c] EXCEPT !.bufs = <<u>>]
<1>8. mem[c] \in BlockType /\ Memory(mem)
  BY <1>4 DEF HeapInv, Memory, Blocks
<1>9. b \in BlockType /\ b.kind = "closure" /\ b.bufs = <<u>> /\ b.len = n
  <2>1. u \in Addr
    BY DEF HeapInv, Fresh
  <2>2. <<u>> \in Seq(Addr \cup {NULL, Unset})
    BY <2>1
  <2>3. QED BY <1>4, <1>8, <2>2 DEF BlockType
<1>10. mem' = Put([mem EXCEPT ![c] = b], u, Raw(us))
  OBVIOUS
<1>11. RawBlock(Raw(us)) /\ Raw(us).words = us
  BY <1>7, RawFacts
<1> HIDE DEF b
<1>12. /\ DOMAIN mem' = DOMAIN mem \cup {u} /\ DOMAIN mem' \subseteq room
       /\ mem' = [a \in DOMAIN mem' |-> mem'[a]]
       /\ Memory(mem')
  <2>1. b.len <= Len(Raw(us).words) /\ \A i \in 1 .. b.len : Leads(mem, Raw(us).words[i])
    BY <1>3, <1>5, <1>6, <1>9, <1>11
  <2>2. QED BY <1>4, <1>9, <1>10, <1>11, <2>1, NewBufferKeeps
<1>13. c \in Word /\ Leads(mem', c)
  BY <1>4, <1>8, <1>12 DEF Leads, Word, Memory, Blocks
<1>14. QED BY <1>12, <1>13, ResultKeeps

(* Capacities.                                                             *)
LEMMA CapFacts ==
  ASSUME HeapInv, NEW a \in DOMAIN mem, mem[a].kind \in {"arr", "map"}
  PROVE  /\ mem[a].len \in Nat /\ Cap(mem[a]) \in Nat /\ NewCap(mem[a]) \in Nat
         /\ Cap(mem[a]) = Size(mem, mem[a].bufs[Len(mem[a].bufs)])
         /\ mem[a].len <= Cap(mem[a]) /\ Cap(mem[a]) <= NewCap(mem[a])
         /\ mem[a].len + 1 <= NewCap(mem[a])
         /\ \A k \in 1 .. Len(mem[a].bufs) : Cap(mem[a]) <= Size(mem, mem[a].bufs[k])
<1> DEFINE n == Len(mem[a].bufs)
<1>1. n \in {1, 2} /\ (n = 2 => mem[a].kind = "map")
  BY ContainerFacts
<1>2. Cap(mem[a]) = Size(mem, mem[a].bufs[n])
  BY DEF Cap, Size
<1>3. mem[a].len \in Nat
  BY BlockFacts DEF HeapInv, Memory
<1>4. \A k \in 1 .. n : mem[a].len <= Size(mem, mem[a].bufs[k]) /\ Size(mem, mem[a].bufs[k]) \in Nat
  BY ContainerFacts
<1>5. n = 2 => Size(mem, mem[a].bufs[2]) <= Size(mem, mem[a].bufs[1])
  BY <1>1, <1>4 DEF HeapInv, Memory, Blocks
<1>6. Cap(mem[a]) \in Nat /\ mem[a].len <= Cap(mem[a])
  <2>1. n \in 1 .. n
    <3>1. CASE n = 1
      BY ONLY <3>1
    <3>2. CASE n = 2
      BY ONLY <3>2
    <3>3. QED BY ONLY <1>1, <3>1, <3>2
  <2>2. QED BY <1>2, <1>4, <2>1
<1>7. /\ NewCap(mem[a]) \in Nat /\ Cap(mem[a]) <= NewCap(mem[a])
      /\ mem[a].len + 1 <= NewCap(mem[a])
  BY <1>3, <1>6, MutatorAssumption DEF NewCap
<1>8. \A k \in 1 .. n : Cap(mem[a]) <= Size(mem, mem[a].bufs[k])
  <2>1. CASE n = 1
    <3>1. \A k \in 1 .. n : k = n
      BY ONLY <2>1
    <3>2. QED BY <1>2, <1>6, <3>1
  <2>2. CASE n = 2
    <3>1. \A k \in 1 .. n : k = 1 \/ k = 2
      BY ONLY <2>2
    <3>2. Cap(mem[a]) <= Size(mem, mem[a].bufs[1]) /\ Cap(mem[a]) <= Size(mem, mem[a].bufs[2])
      BY <1>2, <1>5, <1>6, <2>2
    <3>3. QED BY ONLY <3>1, <3>2
  <2>3. QED BY <1>1, <2>1, <2>2
<1>9. QED BY <1>2, <1>3, <1>6, <1>7, <1>8

LEMMA ElementFacts ==
  ASSUME HeapInv, NEW a \in DOMAIN mem, mem[a].kind \in {"arr", "map"}, NEW k \in 1 .. Len(mem[a].bufs)
  PROVE  LET p == mem[a].bufs[k] IN
         /\ Size(mem, p) > 0 => p \in DOMAIN mem
         /\ Contents(mem, p) \in Seq(Word \cup {Unset}) /\ Len(Contents(mem, p)) \in Nat
         /\ \A i \in 1 .. mem[a].len : /\ i \in 1 .. Len(Contents(mem, p))
                                       /\ Leads(mem, Contents(mem, p)[i]) /\ Contents(mem, p)[i] \in Word
<1> DEFINE p == mem[a].bufs[k]
<1>1. /\ Serves(mem, mem[a].len, p) /\ Size(mem, p) \in Nat
      /\ p \notin DOMAIN mem => Size(mem, p) = 0
      /\ mem[a].len <= Size(mem, p)
  BY ContainerFacts
<1>2. Contents(mem, p) \in Seq(Word \cup {Unset})
  BY BlockFacts, EmptySeq DEF Contents, HeapInv, Memory
<1>3. mem[a].len \in Nat
  BY BlockFacts DEF HeapInv, Memory
<1>4. ASSUME NEW i \in 1 .. mem[a].len
      PROVE  /\ i \in 1 .. Len(Contents(mem, p))
             /\ Leads(mem, Contents(mem, p)[i]) /\ Contents(mem, p)[i] \in Word
  <2>1. p \in DOMAIN mem
    BY <1>1, <1>3
  <2>2. Leads(mem, mem[p].words[i])
    BY <1>1, <1>3, <2>1, MutatorAssumption DEF Serves, HeapInv, Memory, Blocks
  <2>3. mem[p].words[i] \in Word
    BY <2>2 DEF Leads, Word, HeapInv, Memory, Blocks
  <2>4. QED BY <1>1, <1>3, <2>1, <2>2, <2>3 DEF Contents, Size
<1>5. QED BY <1>1, <1>2, <1>4 DEF Size

LEMMA RegrownFacts ==
  ASSUME HeapInv, NEW a \in DOMAIN mem, mem[a].kind \in {"arr", "map"}, NEW k \in 1 .. Len(mem[a].bufs),
         NEW n \in Nat, mem[a].len <= n
  PROVE  LET r == Regrown(mem[a].bufs[k], n) IN
         /\ RawBlock(r) /\ Len(r.words) = n
         /\ \A i \in 1 .. mem[a].len : Leads(mem, r.words[i])
<1> DEFINE p == mem[a].bufs[k]
           old == Contents(mem, p)
           ws == [i \in 1 .. n |-> IF i <= Len(old) THEN old[i] ELSE Unset]
<1>1. /\ old \in Seq(Word \cup {Unset}) /\ Len(old) \in Nat
      /\ \A i \in 1 .. mem[a].len : i \in 1 .. Len(old) /\ Leads(mem, old[i])
  BY ElementFacts
<1>2. mem[a].len \in Nat
  BY CapFacts
<1> HIDE DEF old
<1>3. \A i \in 1 .. Len(old) : old[i] \in Word \cup {Unset}
  BY ONLY <1>1, ElementOfSeq
<1>4. ws \in Seq(Word \cup {Unset}) /\ Len(ws) = n
  BY <1>1, <1>3
<1>5. \A i \in 1 .. mem[a].len : Leads(mem, ws[i])
  BY <1>1, <1>2
<1>6. Regrown(p, n) = Raw(ws)
  BY DEF Regrown, old
<1> HIDE DEF ws
<1>7. QED BY <1>4, <1>5, <1>6, RawFacts

(* A word is stored in a buffer.                                           *)
Stored(b, i, w) == [b EXCEPT !.words[i] = w]

LEMMA WordStored ==
  ASSUME NEW b, RawBlock(b), NEW i \in 1 .. Len(b.words), NEW w \in Word
  PROVE  /\ RawBlock(Stored(b, i, w)) /\ Len(Stored(b, i, w).words) = Len(b.words)
         /\ \A j \in 1 .. Len(b.words) : Stored(b, i, w).words[j] = IF j = i THEN w ELSE b.words[j]
<1> DEFINE c == Stored(b, i, w)
           ws == [b.words EXCEPT ![i] = w]
<1>1. b.words \in Seq(Word \cup {Unset})
  BY DEF RawBlock, BlockType
<1>2. /\ ws \in Seq(Word \cup {Unset}) /\ Len(ws) = Len(b.words)
      /\ \A j \in 1 .. Len(b.words) : ws[j] = IF j = i THEN w ELSE b.words[j]
  <2>1. w \in Word \cup {Unset}
    OBVIOUS
  <2>2. QED BY ONLY <1>1, <2>1, i \in 1 .. Len(b.words), ExceptSeq
<1>3. c = [b EXCEPT !.words = ws]
  BY DEF Stored
<1> HIDE DEF ws, c
<1>4. c.words = ws /\ RawBlock(c)
  BY <1>2, <1>3 DEF RawBlock, BlockType
<1>5. QED BY <1>2, <1>4 DEF c

(* An array or a map that has its buffers gets other elements in them.     *)
Resized(b, n) == [b EXCEPT !.len = n]

Rewritten(a, k, n) ==
  LET p == mem[a].bufs[k] IN
  /\ p \in DOMAIN mem /\ RawBlock(mem'[p]) /\ Len(mem'[p].words) = Len(mem[p].words)
  /\ n <= Len(mem[p].words)
  /\ \A i \in 1 .. n : Leads(mem, mem'[p].words[i])

LEMMA RewrittenKeeps ==
  ASSUME HeapInv, NEW a \in DOMAIN mem, mem[a].kind \in {"arr", "map"}, NEW n \in Nat,
         DOMAIN mem' = DOMAIN mem, mem'[a] = Resized(mem[a], n),
         \A k \in 1 .. Len(mem[a].bufs) : Rewritten(a, k, n),
         \A c \in DOMAIN mem : c # a /\ (\A k \in 1 .. Len(mem[a].bufs) : c # mem[a].bufs[k]) => mem'[c] = mem[c]
  PROVE  Memory(mem')
<1> DEFINE F == {}
           D == DOMAIN mem
           m == Len(mem[a].bufs)
<1>1. Memory(mem) /\ mem[a] \in BlockType
  BY DEF HeapInv, Memory, Blocks
<1>2. /\ mem'[a] \in BlockType /\ mem'[a].kind = mem[a].kind
      /\ mem'[a].bufs = mem[a].bufs /\ mem'[a].len = n
  BY <1>1 DEF BlockType, Resized
<1>3. \A w : Leads(mem, w) => Leads(mem', w)
  BY DEF Leads
<1>4. \A k \in 1 .. m : Serves(mem', mem'[a].len, mem'[a].bufs[k])
  <2> SUFFICES ASSUME NEW k \in 1 .. m
               PROVE  Serves(mem', n, mem[a].bufs[k])
    BY <1>2
  <2>1. Rewritten(a, k, n)
    OBVIOUS
  <2>2. QED BY <1>3, <2>1 DEF Serves, RawBlock, Rewritten
<1>5. \A k \in 1 .. m : mem'[a].bufs[k] = mem[a].bufs[k] \/ mem'[a].bufs[k] \in F
  BY ONLY <1>2
<1>6. \A j, k \in 1 .. m : j # k => mem'[a].bufs[j] # mem'[a].bufs[k] \/ mem'[a].bufs[j] \notin F
  BY ONLY TRUE
<1>7. mem[a].kind = "map" => Size(mem', mem'[a].bufs[1]) >= Size(mem', mem'[a].bufs[2])
  <2> SUFFICES ASSUME mem[a].kind = "map"
               PROVE  Size(mem', mem[a].bufs[1]) >= Size(mem', mem[a].bufs[2])
    BY <1>2
  <2>1. m = 2
    BY ContainerFacts
  <2>2. Rewritten(a, 1, n) /\ Rewritten(a, 2, n)
    BY <2>1
  <2>3. /\ Size(mem', mem[a].bufs[1]) = Size(mem, mem[a].bufs[1])
        /\ Size(mem', mem[a].bufs[2]) = Size(mem, mem[a].bufs[2])
    BY <2>2 DEF Size, Contents, Rewritten
  <2>4. QED BY <1>1, <2>3 DEF Memory, Blocks
<1>8. ASSUME NEW c \in D \ {a}
      PROVE  \/ mem'[c] = mem[c]
             \/ RawBlock(mem'[c]) /\ \E k \in 1 .. m : c = mem[a].bufs[k]
  <2>1. CASE \A k \in 1 .. m : c # mem[a].bufs[k]
    BY <2>1
  <2>2. ASSUME NEW k \in 1 .. m, c = mem[a].bufs[k]
        PROVE  RawBlock(mem'[c])
    <3>1. Rewritten(a, k, n)
      OBVIOUS
    <3>2. QED BY <2>2, <3>1 DEF Rewritten
  <2>3. QED BY <2>1, <2>2
<1>9. /\ F \in SUBSET (Addr \ D) /\ D = D \cup F /\ mem[a].kind \in Container
      /\ \A c \in F : RawBlock(mem'[c])
      /\ Len(mem'[a].bufs) = m
  BY <1>2 DEF Container
<1> HIDE DEF F
<1>10. QED BY ONLY <1>1, <1>2, <1>4, <1>5, <1>6, <1>7, <1>8, <1>9, DOMAIN mem' = DOMAIN mem,
              a \in DOMAIN mem, Replaced

LEMMA PushInPlaceKeeps == HeapInv /\ UNCHANGED program /\ PushInPlace => HeapInv'
<1> SUFFICES ASSUME HeapInv, UNCHANGED program, NEW s \in Holding("arr"), NEW w \in Usable,
                    LET a == local[s] IN
                    /\ call = Idle
                    /\ Room(mem[a])
                    /\ mem' = [mem EXCEPT ![a].len = @ + 1,
                                          ![mem[a].bufs[1]].words[mem[a].len + 1] = w]
                    /\ UNCHANGED <<local, live, call>>
             PROVE  HeapInv'
  BY ZenonT(40) DEF PushInPlace
<1> DEFINE a == local[s]
           b == mem[a]
           p == b.bufs[1]
           i == b.len + 1
<1>1. a \in DOMAIN mem /\ b.kind = "arr" /\ Leads(mem, w) /\ w \in Word
  BY InUseFacts
<1>2. Len(b.bufs) = 1 /\ b.len \in Nat /\ i <= Size(mem, p) /\ Size(mem, p) \in Nat
  BY <1>1, CapFacts, ContainerFacts DEF Room
<1>3. p \in DOMAIN mem /\ p # a /\ RawBlock(mem[p]) /\ Size(mem, p) = Len(mem[p].words)
  BY <1>1, <1>2, ContainerFacts
<1>4. i \in 1 .. Len(mem[p].words)
  BY SMTT(40), <1>2, <1>3
<1> HIDE DEF a, b, p, i
<1>5. /\ DOMAIN mem' = DOMAIN mem /\ mem' = [c \in DOMAIN mem' |-> mem'[c]]
      /\ mem'[a] = Resized(b, i)
      /\ mem'[p] = Stored(mem[p], i, w)
      /\ \A c \in DOMAIN mem : c # a /\ c # p => mem'[c] = mem[c]
  BY <1>1, <1>3 DEF a, b, p, i, Stored, Resized
<1>6. /\ RawBlock(mem'[p]) /\ Len(mem'[p].words) = Len(mem[p].words)
      /\ \A j \in 1 .. Len(mem[p].words) : mem'[p].words[j] = IF j = i THEN w ELSE mem[p].words[j]
  BY ONLY <1>1, <1>3, <1>4, <1>5, WordStored
<1>7. \A j \in 1 .. b.len : Leads(mem, mem[p].words[j])
  <2>1. p = mem[a].bufs[1] /\ 1 \in 1 .. Len(mem[a].bufs) /\ mem[a].kind \in {"arr", "map"}
    BY SMTT(40), <1>1, <1>2 DEF b, p
  <2>2. \A j \in 1 .. mem[a].len : Leads(mem, Contents(mem, p)[j])
    BY <1>1, <2>1, ElementFacts
  <2>3. QED BY <1>3, <2>2 DEF Contents, b
<1>8. \A j \in 1 .. i : Leads(mem, mem'[p].words[j])
  <2> SUFFICES ASSUME NEW j \in 1 .. i
               PROVE  Leads(mem, mem'[p].words[j])
    BY Zenon
  <2>1. j \in 1 .. Len(mem[p].words) /\ (j = i \/ j \in 1 .. b.len)
    BY <1>2, <1>4, <1>3 DEF i
  <2>2. QED BY Zenon, <1>1, <1>6, <1>7, <2>1
<1>9. Memory(mem')
  <2>1. i \in Nat /\ i <= Len(mem[p].words)
    BY SMTT(40), <1>2, <1>3 DEF i
  <2>2. \A k \in 1 .. Len(mem[a].bufs) : mem[a].bufs[k] = p
    BY SMTT(40), <1>2 DEF b, p
  <2>3. p = mem[a].bufs[1] /\ 1 \in 1 .. Len(mem[a].bufs)
    BY <1>2 DEF b, p
  <2>4. mem'[a] = Resized(mem[a], i) /\ mem[a].kind \in {"arr", "map"}
    BY Zenon, <1>1, <1>5 DEF b
  <2>5. \A k \in 1 .. Len(mem[a].bufs) : Rewritten(a, k, i)
    BY Zenon, <1>3, <1>6, <1>8, <2>1, <2>2 DEF Rewritten
  <2>6. \A c \in DOMAIN mem :
          c # a /\ (\A k \in 1 .. Len(mem[a].bufs) : c # mem[a].bufs[k]) => mem'[c] = mem[c]
    BY Zenon, <1>5, <2>3
  <2>7. a \in DOMAIN mem /\ i \in Nat /\ DOMAIN mem' = DOMAIN mem
    BY Zenon, <1>1, <1>5, <2>1
  <2>8. QED BY ONLY SMTT(40), HeapInv, <2>4, <2>5, <2>6, <2>7, RewrittenKeeps
<1>10. QED BY Zenon, <1>5, <1>9, ChangeKeeps DEF a

LEMMA EnterPushKeeps == HeapInv /\ UNCHANGED program /\ EnterPush => HeapInv'
<1> SUFFICES ASSUME HeapInv, UNCHANGED program, NEW s \in Holding("arr"), NEW w \in Usable,
                    Enter("push", <<local[s], w>>)
             PROVE  HeapInv'
  BY DEF EnterPush
<1>0. PICK a : a = local[s]
  OBVIOUS
<1> DEFINE ws == <<a, w>>
<1>1. /\ a \in DOMAIN mem /\ mem[a].kind = "arr" /\ Leads(mem, w) /\ w \in Word
      /\ Leads(mem, a) /\ a \in Word
  BY <1>0, InUseFacts, BlockFacts DEF Leads, Word, HeapInv, Memory
<1>2. mem[a].len + 1 <= NewCap(mem[a])
  BY <1>1, CapFacts
<1>3. ws \in Seq(Word) /\ Len(ws) = 2 /\ ws[1] = a /\ ws[2] = w
  BY <1>1
<1>4. \A i \in 1 .. Len(ws) : Leads(mem, ws[i])
  BY <1>1, <1>3
<1>5. mem' = mem /\ call' = [op |-> "push", words |-> ws]
  BY <1>0 DEF Enter
<1> HIDE DEF ws
<1>6. Grows(a)
  BY <1>2 DEF Grows
<1>7. call' = [op |-> call'.op, words |-> call'.words] /\ call'.op = "push" /\ call'.words = ws
  BY <1>5
<1>8. CallInv'
  BY <1>1, <1>3, <1>4, <1>5, <1>6, <1>7 DEF CallInv, Grows, NewCap, Cap, Contents
<1>9. QED BY <1>0, <1>8, EnterKeeps DEF ws

LEMMA EnterSetKeeps == HeapInv /\ UNCHANGED program /\ EnterSet => HeapInv'
<1> SUFFICES ASSUME HeapInv, UNCHANGED program, NEW s \in Holding("map"), NEW k \in Usable, NEW w \in Usable,
                    Enter("set", <<local[s], k, w>>)
             PROVE  HeapInv'
  BY DEF EnterSet, Keys
<1>0. PICK a : a = local[s]
  OBVIOUS
<1> DEFINE ws == <<a, k, w>>
<1>1. /\ a \in DOMAIN mem /\ mem[a].kind = "map" /\ Leads(mem, w) /\ w \in Word
      /\ Leads(mem, k) /\ k \in Word /\ Leads(mem, a) /\ a \in Word
  BY <1>0, InUseFacts, BlockFacts DEF Leads, Word, HeapInv, Memory
<1>2. mem[a].len + 1 <= NewCap(mem[a])
  BY <1>1, CapFacts
<1>3. ws \in Seq(Word) /\ Len(ws) = 3 /\ ws[1] = a /\ ws[2] = k /\ ws[3] = w
  BY <1>1
<1>4. \A i \in 1 .. Len(ws) : Leads(mem, ws[i])
  BY <1>1, <1>3
<1>5. mem' = mem /\ call' = [op |-> "set", words |-> ws]
  BY <1>0 DEF Enter
<1> HIDE DEF ws
<1>6. Grows(a)
  BY <1>2 DEF Grows
<1>7. call' = [op |-> call'.op, words |-> call'.words] /\ call'.op = "set" /\ call'.words = ws
  BY <1>5
<1>8. CallInv'
  BY <1>1, <1>3, <1>4, <1>5, <1>6, <1>7 DEF CallInv, Grows, NewCap, Cap, Contents
<1>9. QED BY <1>0, <1>8, EnterKeeps DEF ws

LEMMA FinishPushKeeps == HeapInv /\ UNCHANGED program /\ FinishPush => HeapInv'
<1> DEFINE a == call.words[1]
           w == call.words[2]
           b == mem[a]
           n == NewCap(b)
           r == Regrown(b.bufs[1], n)
           i == b.len + 1
<1> SUFFICES ASSUME HeapInv, UNCHANGED program, NEW p \in Fresh, call.op = "push", Result(Num),
                    mem' = Put([mem EXCEPT ![a].len = @ + 1, ![a].bufs = <<p>>],
                               p, [r EXCEPT !.words[i] = w])
             PROVE  HeapInv'
  BY Zenon DEF FinishPush
<1>1. /\ call.words \in Seq(Word) /\ Len(call.words) = 2
      /\ \A j \in 1 .. 2 : Leads(mem, call.words[j])
      /\ a \in DOMAIN mem /\ b.kind = "arr" /\ Grows(a)
  BY DEF HeapInv, CallInv
<1>2. w \in Word /\ Leads(mem, w)
  <2>1. w \in Word
    BY ONLY <1>1, ElementOfSeq
  <2>2. QED BY <1>1, <2>1
<1> HIDE DEF a, w
<1>3. b.len \in Nat /\ n \in Nat /\ i <= n /\ b \in BlockType /\ Len(b.bufs) = 1
  BY <1>1, CapFacts, BlockFacts, ContainerFacts DEF HeapInv, Memory
<1>4. RawBlock(r) /\ Len(r.words) = n /\ \A j \in 1 .. b.len : Leads(mem, r.words[j])
  <2>1. 1 \in 1 .. Len(mem[a].bufs) /\ mem[a].len <= n
    BY <1>3
  <2>2. QED BY <1>1, <1>3, <2>1, RegrownFacts
<1> HIDE DEF r, n
<1> DEFINE rr == Stored(r, i, w)
           bb == [b EXCEPT !.len = i, !.bufs = <<p>>]
<1>5. /\ RawBlock(rr) /\ Len(rr.words) = n
      /\ \A j \in 1 .. n : rr.words[j] = IF j = i THEN w ELSE r.words[j]
  <2>1. i \in 1 .. Len(r.words)
    BY <1>3, <1>4
  <2>2. QED BY <1>2, <1>4, <2>1, WordStored
<1>6. mem' = Put([mem EXCEPT ![a] = bb], p, rr)
  BY <1>1 DEF Stored
<1>7. p \in Addr /\ <<p>> \in Seq(Addr \cup {NULL, Unset}) /\ i \in Nat
  BY <1>3 DEF HeapInv, Fresh
<1>8. bb \in BlockType /\ bb.kind = b.kind /\ bb.len = i /\ bb.bufs = <<p>>
  BY <1>3, <1>7 DEF BlockType
<1>9. \A j \in 1 .. i : Leads(mem, rr.words[j])
  <2> SUFFICES ASSUME NEW j \in 1 .. i
               PROVE  Leads(mem, rr.words[j])
    OBVIOUS
  <2>1. j \in 1 .. n /\ (j = i \/ j \in 1 .. b.len)
    BY <1>3
  <2>2. QED BY <1>2, <1>4, <1>5, <2>1
<1> HIDE DEF rr, bb
<1>10. /\ DOMAIN mem' = DOMAIN mem \cup {p} /\ DOMAIN mem' \subseteq room
       /\ mem' = [c \in DOMAIN mem' |-> mem'[c]]
       /\ Memory(mem')
  <2>1. mem[a].kind \in {"arr", "closure"} /\ bb.kind = mem[a].kind
    BY <1>1, <1>8
  <2>2. bb.len <= Len(rr.words) /\ \A j \in 1 .. bb.len : Leads(mem, rr.words[j])
    BY <1>3, <1>5, <1>8, <1>9
  <2>3. QED BY <1>1, <1>5, <1>6, <1>8, <2>1, <2>2, NewBufferKeeps
<1>11. Num \in Word /\ Leads(mem', Num)
  BY DEF Word, Leads
<1>12. QED BY Zenon, <1>10, <1>11, ResultKeeps

(* The buffers of a container that has elements.                           *)
LEMMA BufferFacts ==
  ASSUME HeapInv, NEW a \in DOMAIN mem, mem[a].kind \in {"arr", "map"}, NEW k \in 1 .. Len(mem[a].bufs),
         Size(mem, mem[a].bufs[k]) > 0
  PROVE  LET p == mem[a].bufs[k] IN
         /\ p \in DOMAIN mem /\ p # a /\ RawBlock(mem[p])
         /\ Len(mem[p].words) \in Nat /\ Len(mem[p].words) = Size(mem, p)
         /\ mem[a].len \in Nat /\ mem[a].len <= Len(mem[p].words)
         /\ \A i \in 1 .. mem[a].len : Leads(mem, mem[p].words[i]) /\ mem[p].words[i] \in Word
<1> DEFINE p == mem[a].bufs[k]
<1>1. /\ Size(mem, p) \in Nat
      /\ p \notin DOMAIN mem => Size(mem, p) = 0
      /\ mem[a].len <= Size(mem, p)
      /\ p \in DOMAIN mem => RawBlock(mem[p]) /\ p # a /\ Size(mem, p) = Len(mem[p].words)
  BY ContainerFacts
<1>2. p \in DOMAIN mem
  BY <1>1
<1>3. mem[a].len \in Nat
  BY CapFacts
<1>4. \A i \in 1 .. mem[a].len : Leads(mem, Contents(mem, p)[i]) /\ Contents(mem, p)[i] \in Word
  BY ElementFacts
<1>5. QED BY <1>1, <1>2, <1>3, <1>4 DEF Contents

LEMMA PopKeeps == HeapInv /\ UNCHANGED program /\ Pop => HeapInv'
<1> SUFFICES ASSUME HeapInv, UNCHANGED program, NEW s \in Holding("arr"), NEW d \in Slot,
                    LET b == mem[local[s]] IN
                    /\ call = Idle
                    /\ b.len > 0
                    /\ mem' = [mem EXCEPT ![local[s]].len = @ - 1]
                    /\ local' = [local EXCEPT ![d] = Contents(mem, b.bufs[1])[b.len]]
                    /\ live' = live \cup {d}
                    /\ UNCHANGED call
             PROVE  HeapInv'
  BY DEF Pop
<1>0. PICK a : a = local[s]
  OBVIOUS
<1> DEFINE b == mem[a]
           p == b.bufs[1]
           n == b.len - 1
<1>1. a \in DOMAIN mem /\ b.kind = "arr"
  BY <1>0, InUseFacts
<1>2. Len(b.bufs) = 1 /\ b.len \in Nat /\ b.len > 0 /\ n \in Nat /\ b.len <= Size(mem, p) /\ Size(mem, p) > 0
  BY SMTT(40), <1>0, <1>1, CapFacts, ContainerFacts
<1>3. /\ p \in DOMAIN mem /\ p # a /\ RawBlock(mem[p])
      /\ Len(mem[p].words) \in Nat /\ b.len <= Len(mem[p].words)
      /\ \A i \in 1 .. b.len : Leads(mem, mem[p].words[i]) /\ mem[p].words[i] \in Word
  BY <1>1, <1>2, BufferFacts
<1>4. DOMAIN mem' = DOMAIN mem /\ mem' = [c \in DOMAIN mem' |-> mem'[c]]
  BY <1>0
<1>5. mem'[a] = Resized(b, n) /\ \A c \in DOMAIN mem : c # a => mem'[c] = mem[c]
  BY <1>0, <1>1 DEF Resized
<1>6. \A k \in 1 .. Len(mem[a].bufs) : Rewritten(a, k, n)
  <2>1. \A k \in 1 .. Len(mem[a].bufs) : k = 1
    BY <1>2
  <2>2. n <= Len(mem[p].words) /\ \A i \in 1 .. n : Leads(mem, mem[p].words[i])
    BY <1>2, <1>3
  <2>3. QED BY <1>3, <1>5, <2>1, <2>2 DEF Rewritten
<1>7. Memory(mem')
  <2>1. mem[a].kind \in {"arr", "map"} /\ n \in Nat /\ mem'[a] = Resized(mem[a], n)
    BY <1>1, <1>2, <1>5
  <2>2. \A c \in DOMAIN mem :
          c # a /\ (\A k \in 1 .. Len(mem[a].bufs) : c # mem[a].bufs[k]) => mem'[c] = mem[c]
    BY <1>5
  <2>3. QED BY ONLY HeapInv, <1>1, <1>4, <1>6, <2>1, <2>2, RewrittenKeeps
<1>8. PICK w : w = Contents(mem, p)[b.len]
  BY SMTT(40)
<1>9. w \in Word /\ Leads(mem', w)
  BY <1>2, <1>3, <1>4, <1>8 DEF Contents, Leads
<1>10. Result(w)
  BY <1>0, <1>8 DEF Result
<1>11. DOMAIN mem \subseteq DOMAIN mem' /\ DOMAIN mem' \subseteq room
  BY <1>4 DEF HeapInv
<1>12. QED BY <1>4, <1>7, <1>9, <1>10, <1>11, ResultKeeps

(* An element of a container gets another word.                            *)
LEMMA ItemStored ==
  ASSUME HeapInv, NEW a \in DOMAIN mem, mem[a].kind \in {"arr", "map"}, NEW h \in 1 .. Len(mem[a].bufs),
         NEW w \in Word, Leads(mem, w), NEW i \in 1 .. mem[a].len,
         mem' = [mem EXCEPT ![mem[a].bufs[h]].words[i] = w]
  PROVE  /\ DOMAIN mem' = DOMAIN mem /\ mem' = [c \in DOMAIN mem' |-> mem'[c]]
         /\ Memory(mem')
<1> DEFINE n == mem[a].len
           p == mem[a].bufs[h]
<1>1. n \in Nat /\ n > 0 /\ mem[a] \in BlockType
  BY CapFacts, BlockFacts DEF HeapInv, Memory
<1>2. \A k \in 1 .. Len(mem[a].bufs) :
        LET q == mem[a].bufs[k] IN
        /\ q \in DOMAIN mem /\ q # a /\ RawBlock(mem[q])
        /\ Len(mem[q].words) \in Nat /\ n <= Len(mem[q].words)
        /\ \A j \in 1 .. n : Leads(mem, mem[q].words[j])
  <2> SUFFICES ASSUME NEW k \in 1 .. Len(mem[a].bufs)
               PROVE  LET q == mem[a].bufs[k] IN
                      /\ q \in DOMAIN mem /\ q # a /\ RawBlock(mem[q])
                      /\ Len(mem[q].words) \in Nat /\ n <= Len(mem[q].words)
                      /\ \A j \in 1 .. n : Leads(mem, mem[q].words[j])
    OBVIOUS
  <2>1. Size(mem, mem[a].bufs[k]) > 0
    BY <1>1, ContainerFacts
  <2>2. QED BY <2>1, BufferFacts
<1>3. /\ DOMAIN mem' = DOMAIN mem /\ mem' = [c \in DOMAIN mem' |-> mem'[c]]
      /\ mem'[p] = Stored(mem[p], i, w)
      /\ \A c \in DOMAIN mem : c # p => mem'[c] = mem[c]
  BY <1>2 DEF Stored
<1>4. mem'[a] = Resized(mem[a], n)
  BY SMTT(40), <1>1, <1>2, <1>3 DEF Resized, BlockType
<1>5. /\ RawBlock(mem'[p]) /\ Len(mem'[p].words) = Len(mem[p].words)
      /\ \A j \in 1 .. Len(mem[p].words) : mem'[p].words[j] = IF j = i THEN w ELSE mem[p].words[j]
  <2>1. i \in 1 .. Len(mem[p].words) /\ RawBlock(mem[p])
    BY SMTT(40), <1>1, <1>2
  <2> HIDE DEF p
  <2>2. QED BY <1>3, <2>1, WordStored
<1>6. \A k \in 1 .. Len(mem[a].bufs) : Rewritten(a, k, n)
  <2> SUFFICES ASSUME NEW k \in 1 .. Len(mem[a].bufs)
               PROVE  Rewritten(a, k, n)
    OBVIOUS
  <2>1. PICK q : q = mem[a].bufs[k]
    OBVIOUS
  <2>2. /\ q \in DOMAIN mem /\ RawBlock(mem[q]) /\ Len(mem[q].words) \in Nat /\ n <= Len(mem[q].words)
        /\ \A j \in 1 .. n : Leads(mem, mem[q].words[j])
    BY <1>2, <2>1
  <2>3. /\ RawBlock(mem'[q]) /\ Len(mem'[q].words) = Len(mem[q].words)
        /\ \A j \in 1 .. n : Leads(mem, mem'[q].words[j])
    <3>1. CASE q = p
      <4>1. \A j \in 1 .. n : j \in 1 .. Len(mem[q].words)
        BY <1>1, <2>2
      <4> HIDE DEF n, p
      <4>2. QED BY <1>5, <2>2, <3>1, <4>1
    <3>2. CASE q # p
      BY SMTT(40), <1>3, <2>2, <3>2
    <3>3. QED BY <3>1, <3>2
  <2>4. QED BY <2>1, <2>2, <2>3 DEF Rewritten
<1>7. \A c \in DOMAIN mem :
        c # a /\ (\A k \in 1 .. Len(mem[a].bufs) : c # mem[a].bufs[k]) => mem'[c] = mem[c]
  BY <1>3
<1>8. n \in Nat /\ a \in DOMAIN mem /\ DOMAIN mem' = DOMAIN mem
  BY <1>1, <1>3
<1> HIDE DEF n
<1>9. Memory(mem')
  BY ONLY HeapInv, mem[a].kind \in {"arr", "map"}, <1>4, <1>6, <1>7, <1>8, RewrittenKeeps
<1>10. QED BY <1>3, <1>9

LEMMA StoreItemKeeps == HeapInv /\ UNCHANGED program /\ StoreItem => HeapInv'
<1> SUFFICES ASSUME HeapInv, UNCHANGED program, NEW s \in Holding("arr"), NEW w \in Usable,
                    NEW i \in 1 .. mem[local[s]].len,
                    mem' = [mem EXCEPT ![mem[local[s]].bufs[1]].words[i] = w],
                    call = Idle, UNCHANGED <<local, live, call>>
             PROVE  HeapInv'
  BY Zenon DEF StoreItem
<1>0. PICK a : a = local[s]
  OBVIOUS
<1>1. /\ a \in DOMAIN mem /\ mem[a].kind = "arr" /\ w \in Word /\ Leads(mem, w)
      /\ i \in 1 .. mem[a].len /\ mem' = [mem EXCEPT ![mem[a].bufs[1]].words[i] = w]
  BY SMTT(40), <1>0, InUseFacts
<1>2. mem[a].kind \in {"arr", "map"} /\ 1 \in 1 .. Len(mem[a].bufs)
  BY SMTT(40), <1>1, ContainerFacts
<1>3. /\ DOMAIN mem' = DOMAIN mem /\ mem' = [c \in DOMAIN mem' |-> mem'[c]]
      /\ Memory(mem')
  BY ONLY HeapInv, <1>1, <1>2, ItemStored
<1>4. QED BY Zenon, <1>3, ChangeKeeps

LEMMA StoreBoxKeeps == HeapInv /\ UNCHANGED program /\ StoreBox => HeapInv'
<1> SUFFICES ASSUME HeapInv, UNCHANGED program, NEW s \in Holding("box"), NEW w \in Usable,
                    call = Idle, mem' = [mem EXCEPT ![local[s]].words = <<w>>],
                    UNCHANGED <<local, live, call>>
             PROVE  HeapInv'
  BY DEF StoreBox
<1>0. PICK a : a = local[s]
  OBVIOUS
<1> DEFINE b == [mem[a] EXCEPT !.words = <<w>>]
<1>1. a \in DOMAIN mem /\ mem[a].kind = "box" /\ w \in Word /\ Leads(mem, w)
  BY <1>0, InUseFacts
<1>2. Memory(mem) /\ a \in Addr /\ mem[a] \in BlockType /\ Len(mem[a].bufs) = 0
  BY <1>1, BlockFacts, BufferCounts DEF HeapInv, Memory
<1>3. b.kind = "box" /\ b.bufs = mem[a].bufs /\ b.words = <<w>> /\ b \in BlockType
  <2>1. <<w>> \in Seq(Word \cup {Unset})
    BY <1>1
  <2>2. QED BY <1>1, <1>2, <2>1 DEF BlockType
<1>4. Len(b.words) = 1 /\ b.words[1] = w /\ Len(b.bufs) = Buffers[b.kind] /\ Len(b.bufs) = 0
  BY <1>2, <1>3, BufferCounts
<1> HIDE DEF b
<1>5. mem' = Put(mem, a, b)
  BY <1>0, <1>1 DEF Put, b, HeapInv
<1>6. \A k \in 1 .. Len(b.bufs) : \/ b.bufs[k] = NULL /\ b.len = 0
                                  \/ b.bufs[k] = Unset /\ b.kind = "closure"
  BY <1>4
<1>7. Memory(Put(mem, a, b))
  BY <1>1, <1>2, <1>3, <1>4, <1>6, PutKeepsMemory
<1>8. DOMAIN mem' = DOMAIN mem /\ mem' = [c \in DOMAIN mem' |-> mem'[c]]
  BY <1>0
<1>9. QED BY <1>5, <1>7, <1>8, ChangeKeeps

(* The two buffers of a map.                                               *)
LEMMA MapFacts ==
  ASSUME HeapInv, NEW a \in DOMAIN mem, mem[a].kind = "map"
  PROVE  /\ Len(mem[a].bufs) = 2 /\ mem[a].len \in Nat /\ mem[a] \in BlockType
         /\ Cap(mem[a]) = Size(mem, mem[a].bufs[2]) /\ Cap(mem[a]) \in Nat /\ mem[a].len <= Cap(mem[a])
         /\ Cap(mem[a]) > 0 =>
              /\ mem[a].bufs[1] # mem[a].bufs[2]
              /\ \A k \in {1, 2} :
                   LET q == mem[a].bufs[k] IN
                   /\ q \in DOMAIN mem /\ q # a /\ RawBlock(mem[q])
                   /\ Len(mem[q].words) \in Nat /\ Cap(mem[a]) <= Len(mem[q].words)
                   /\ \A j \in 1 .. mem[a].len : Leads(mem, mem[q].words[j])
<1>1. Len(mem[a].bufs) = 2
  BY ContainerFacts
<1>2. /\ mem[a].len \in Nat /\ Cap(mem[a]) \in Nat /\ mem[a].len <= Cap(mem[a])
      /\ Cap(mem[a]) = Size(mem, mem[a].bufs[2])
      /\ \A k \in 1 .. Len(mem[a].bufs) : Cap(mem[a]) <= Size(mem, mem[a].bufs[k])
  BY <1>1, CapFacts
<1>3. ASSUME Cap(mem[a]) > 0, NEW k \in {1, 2}
      PROVE  LET q == mem[a].bufs[k] IN
             /\ q \in DOMAIN mem /\ q # a /\ RawBlock(mem[q])
             /\ Len(mem[q].words) \in Nat /\ Cap(mem[a]) <= Len(mem[q].words)
             /\ \A j \in 1 .. mem[a].len : Leads(mem, mem[q].words[j])
  <2>1. k \in 1 .. Len(mem[a].bufs)
    BY <1>1
  <2>2. Cap(mem[a]) <= Size(mem, mem[a].bufs[k]) /\ Size(mem, mem[a].bufs[k]) \in Nat
    BY <1>2, <2>1, ContainerFacts
  <2>3. Size(mem, mem[a].bufs[k]) > 0
    BY <1>2, <1>3, <2>2
  <2>4. QED BY <2>1, <2>2, <2>3, BufferFacts
<1>4. ASSUME Cap(mem[a]) > 0
      PROVE  mem[a].bufs[1] # mem[a].bufs[2]
  <2>1. mem[a].bufs[1] \in DOMAIN mem
    BY <1>3, <1>4
  <2>2. mem[a].bufs[1] \in Addr
    BY <2>1 DEF HeapInv, Memory, Blocks
  <2>3. 1 \in 1 .. Len(mem[a].bufs) /\ 2 \in 1 .. Len(mem[a].bufs)
    BY <1>1
  <2>4. QED BY <2>2, <2>3 DEF HeapInv, Memory, Owned
<1>5. mem[a] \in BlockType
  BY BlockFacts DEF HeapInv, Memory
<1>6. QED BY <1>1, <1>2, <1>3, <1>4, <1>5

LEMMA MapStoreKeeps ==
  ASSUME HeapInv, NEW a \in DOMAIN mem, mem[a].kind = "map", Room(mem[a]),
         NEW k \in Word, NEW w \in Word, Leads(mem, k), Leads(mem, w), MapStore(a, k, w)
  PROVE  /\ DOMAIN mem' = DOMAIN mem /\ mem' = [c \in DOMAIN mem' |-> mem'[c]]
         /\ Memory(mem')
<1> DEFINE b == mem[a]
           p == b.bufs[1]
           q == b.bufs[2]
           i == b.len + 1
<1>1. /\ Len(b.bufs) = 2 /\ b.len \in Nat /\ b \in BlockType /\ i \in Nat /\ i <= Cap(b) /\ Cap(b) > 0
  BY MapFacts DEF Room
<1>2. /\ p # q /\ p \in DOMAIN mem /\ q \in DOMAIN mem /\ p # a /\ q # a
      /\ RawBlock(mem[p]) /\ RawBlock(mem[q])
      /\ i \in 1 .. Len(mem[p].words) /\ i \in 1 .. Len(mem[q].words)
      /\ \A j \in 1 .. b.len : Leads(mem, mem[p].words[j]) /\ Leads(mem, mem[q].words[j])
  BY <1>1, MapFacts
<1>3. /\ DOMAIN mem' = DOMAIN mem /\ mem' = [c \in DOMAIN mem' |-> mem'[c]]
      /\ mem'[a] = Resized(b, i)
      /\ mem'[p] = Stored(mem[p], i, k) /\ mem'[q] = Stored(mem[q], i, w)
      /\ \A c \in DOMAIN mem : c # a /\ c # p /\ c # q => mem'[c] = mem[c]
  BY Zenon, <1>2 DEF MapStore, Stored, Resized
<1> HIDE DEF b, p, q, i
<1>4. /\ RawBlock(mem'[p]) /\ Len(mem'[p].words) = Len(mem[p].words)
      /\ \A j \in 1 .. Len(mem[p].words) : mem'[p].words[j] = IF j = i THEN k ELSE mem[p].words[j]
  BY <1>2, <1>3, WordStored
<1>5. /\ RawBlock(mem'[q]) /\ Len(mem'[q].words) = Len(mem[q].words)
      /\ \A j \in 1 .. Len(mem[q].words) : mem'[q].words[j] = IF j = i THEN w ELSE mem[q].words[j]
  BY <1>2, <1>3, WordStored
<1>6. \A j \in 1 .. i : j = i \/ j \in 1 .. b.len
  BY <1>1 DEF i
<1>7. /\ \A j \in 1 .. i : Leads(mem, mem'[p].words[j]) /\ i <= Len(mem[p].words)
      /\ \A j \in 1 .. i : Leads(mem, mem'[q].words[j]) /\ i <= Len(mem[q].words)
  <2>1. RawBlock(mem[p]) /\ RawBlock(mem[q]) => Len(mem[p].words) \in Nat /\ Len(mem[q].words) \in Nat
    BY LenProperties DEF RawBlock, BlockType
  <2>2. \A j \in 1 .. i : j \in 1 .. Len(mem[p].words) /\ j \in 1 .. Len(mem[q].words)
    BY <1>1, <1>2, <2>1
  <2>3. i <= Len(mem[p].words) /\ i <= Len(mem[q].words)
    BY <1>1, <1>2, <2>1
  <2>4. QED BY <1>2, <1>4, <1>5, <1>6, <2>2, <2>3
<1>8. \A h \in 1 .. Len(mem[a].bufs) : mem[a].bufs[h] = p \/ mem[a].bufs[h] = q
  BY <1>1 DEF b, p, q
<1>9. \A h \in 1 .. Len(mem[a].bufs) : Rewritten(a, h, i)
  <2> SUFFICES ASSUME NEW h \in 1 .. Len(mem[a].bufs)
               PROVE  Rewritten(a, h, i)
    OBVIOUS
  <2>1. PICK e : e = mem[a].bufs[h]
    OBVIOUS
  <2>2. /\ e \in DOMAIN mem /\ RawBlock(mem'[e]) /\ Len(mem'[e].words) = Len(mem[e].words)
        /\ i <= Len(mem[e].words) /\ \A j \in 1 .. i : Leads(mem, mem'[e].words[j])
    <3>1. CASE e = p
      BY <1>2, <1>4, <1>7, <3>1 DEF i
    <3>2. CASE e = q
      BY <1>2, <1>5, <1>7, <3>2 DEF i
    <3>3. QED BY <1>8, <2>1, <3>1, <3>2
  <2>3. QED BY <2>1, <2>2 DEF Rewritten
<1>10. \A c \in DOMAIN mem :
         c # a /\ (\A h \in 1 .. Len(mem[a].bufs) : c # mem[a].bufs[h]) => mem'[c] = mem[c]
  BY <1>1, <1>3 DEF b, p, q
<1>11. i \in Nat /\ mem[a].kind \in {"arr", "map"} /\ mem'[a] = Resized(mem[a], i) /\ DOMAIN mem' = DOMAIN mem
  BY <1>1, <1>3 DEF b
<1>12. Memory(mem')
  BY ONLY HeapInv, a \in DOMAIN mem, <1>9, <1>10, <1>11, RewrittenKeeps
<1>13. QED BY <1>3, <1>12

LEMMA SetInPlaceKeeps == HeapInv /\ UNCHANGED program /\ SetInPlace => HeapInv'
<1> SUFFICES ASSUME HeapInv, UNCHANGED program, NEW s \in Holding("map"), NEW w \in Usable,
                    \/ \E i \in 1 .. mem[local[s]].len : mem' = [mem EXCEPT ![mem[local[s]].bufs[2]].words[i] = w]
                    \/ Room(mem[local[s]]) /\ \E k \in Keys : MapStore(local[s], k, w),
                    call = Idle, UNCHANGED <<local, live, call>>
             PROVE  HeapInv'
  BY Zenon DEF SetInPlace
<1>0. PICK a : a = local[s]
  BY Zenon
<1>1. /\ a \in DOMAIN mem /\ mem[a].kind = "map" /\ w \in Word /\ Leads(mem, w)
      /\ \A k \in Keys : k \in Word /\ Leads(mem, k)
  BY Zenon, <1>0, InUseFacts DEF Keys
<1>2. mem[a].kind \in {"arr", "map"} /\ 2 \in 1 .. Len(mem[a].bufs)
  <2>1. Len(mem[a].bufs) = 2
    BY Zenon, <1>1, MapFacts
  <2>2. QED BY ONLY <1>1, <2>1
<1>3. /\ DOMAIN mem' = DOMAIN mem /\ mem' = [c \in DOMAIN mem' |-> mem'[c]]
      /\ Memory(mem')
  <2>1. ASSUME NEW i \in 1 .. mem[a].len, mem' = [mem EXCEPT ![mem[a].bufs[2]].words[i] = w]
        PROVE  <1>3!:
    BY ONLY HeapInv, <1>1, <1>2, <2>1, ItemStored
  <2>2. ASSUME NEW k \in Keys, Room(mem[a]), MapStore(a, k, w)
        PROVE  <1>3!:
    BY ONLY HeapInv, k \in Keys, <1>1, <2>2, MapStoreKeeps
  <2>3. QED BY Zenon, <1>0, <2>1, <2>2
<1>4. QED BY Zenon, <1>3, ChangeKeeps

(* What stands where an entry of a map was is what stood one behind it.    *)
LEMMA ShiftedFacts ==
  ASSUME NEW S, NEW ws \in Seq(S), NEW n \in Nat, n <= Len(ws), NEW i \in 1 .. n
  PROVE  /\ Shifted(ws, i, n) \in Seq(S) /\ Len(Shifted(ws, i, n)) = Len(ws)
         /\ \A j \in 1 .. n - 1 : \E h \in 1 .. n : Shifted(ws, i, n)[j] = ws[h]
<1> DEFINE m == Len(ws)
           us == [j \in 1 .. m |-> IF j >= i /\ j < n THEN ws[j + 1] ELSE ws[j]]
<1>1. m \in Nat /\ \A j \in 1 .. m : ws[j] \in S
  BY ONLY ws \in Seq(S), LenProperties, ElementOfSeq
<1>2. Shifted(ws, i, n) = us
  BY DEF Shifted
<1> HIDE DEF m
<1>3. n <= m
  BY DEF m
<1>4. us \in Seq(S) /\ Len(us) = m
  <2>1. \A j \in 1 .. m : us[j] \in S
    BY <1>1, <1>3
  <2>2. QED BY <1>1, <2>1
<1>5. ASSUME NEW j \in 1 .. n - 1
      PROVE  \E h \in 1 .. n : us[j] = ws[h]
  <2>1. j \in 1 .. n /\ j + 1 \in 1 .. n /\ j \in 1 .. m
    BY <1>1, <1>3
  <2>2. us[j] = ws[j] \/ us[j] = ws[j + 1]
    BY <2>1
  <2>3. QED BY ONLY <2>1, <2>2
<1>6. QED BY <1>2, <1>4, <1>5 DEF m

(* The words of a buffer are replaced.                                     *)
Reworded(b, ws) == [b EXCEPT !.words = ws]

LEMMA RewordedFacts ==
  ASSUME NEW b, RawBlock(b), NEW ws \in Seq(Word \cup {Unset})
  PROVE  RawBlock(Reworded(b, ws)) /\ Reworded(b, ws).words = ws
BY DEF Reworded, RawBlock, BlockType

LEMMA DeleteKeeps == HeapInv /\ UNCHANGED program /\ Delete => HeapInv'
<1> SUFFICES ASSUME HeapInv, UNCHANGED program, NEW s \in Holding("map"),
                    NEW i \in 1 .. mem[local[s]].len,
                    LET b == mem[local[s]] IN
                    mem' = [mem EXCEPT ![local[s]].len = @ - 1,
                                       ![b.bufs[1]].words = Shifted(@, i, b.len),
                                       ![b.bufs[2]].words = Shifted(@, i, b.len)],
                    call = Idle, UNCHANGED <<local, live, call>>
             PROVE  HeapInv'
  BY Zenon DEF Delete
<1>0. PICK a : a = local[s]
  BY Zenon
<1> DEFINE b == mem[a]
           p == b.bufs[1]
           q == b.bufs[2]
           n == b.len - 1
           Sh(c) == Shifted(mem[c].words, i, b.len)
<1>1. a \in DOMAIN mem /\ mem[a].kind = "map" /\ i \in 1 .. b.len
  BY Zenon, <1>0, InUseFacts
<1>2. Len(b.bufs) = 2 /\ b.len \in Nat /\ b \in BlockType /\ n \in Nat /\ Cap(b) > 0 /\ Cap(b) \in Nat /\ b.len <= Cap(b)
  <2>1. /\ Len(b.bufs) = 2 /\ b.len \in Nat /\ b \in BlockType
        /\ Cap(b) \in Nat /\ b.len <= Cap(b)
    BY Zenon, <1>1, MapFacts
  <2> HIDE DEF b
  <2>2. n \in Nat /\ Cap(b) > 0
    BY ONLY <1>1, <2>1
  <2>3. QED BY Zenon, <2>1, <2>2
<1>3. /\ p # q /\ p \in DOMAIN mem /\ q \in DOMAIN mem /\ p # a /\ q # a
      /\ \A c \in {p, q} : /\ RawBlock(mem[c]) /\ Len(mem[c].words) \in Nat /\ b.len <= Len(mem[c].words)
                           /\ \A j \in 1 .. b.len : Leads(mem, mem[c].words[j])
  <2>1. /\ p # q
        /\ \A k \in {1, 2} :
             LET c == mem[a].bufs[k] IN
             /\ c \in DOMAIN mem /\ c # a /\ RawBlock(mem[c])
             /\ Len(mem[c].words) \in Nat /\ Cap(mem[a]) <= Len(mem[c].words)
             /\ \A j \in 1 .. mem[a].len : Leads(mem, mem[c].words[j])
    BY ONLY HeapInv, <1>1, <1>2, MapFacts
  <2>2. \A c \in {p, q} : /\ c \in DOMAIN mem /\ c # a /\ RawBlock(mem[c])
                          /\ Len(mem[c].words) \in Nat /\ Cap(b) <= Len(mem[c].words)
                          /\ \A j \in 1 .. b.len : Leads(mem, mem[c].words[j])
    BY Zenon, <2>1
  <2>3. \A c \in {p, q} : b.len <= Len(mem[c].words)
    <3> HIDE DEF b, p, q
    <3>1. QED BY ONLY <1>2, <2>2
  <2>4. QED BY Zenon, <2>1, <2>2, <2>3
<1>4. /\ DOMAIN mem' = DOMAIN mem /\ mem' = [c \in DOMAIN mem' |-> mem'[c]]
      /\ mem'[a] = Resized(b, n)
      /\ mem'[p] = Reworded(mem[p], Sh(p)) /\ mem'[q] = Reworded(mem[q], Sh(q))
      /\ \A c \in DOMAIN mem : c # a /\ c # p /\ c # q => mem'[c] = mem[c]
  BY Zenon, <1>0, <1>1, <1>3 DEF Reworded, Resized
<1> HIDE DEF p, q, Sh
<1>5. ASSUME NEW c \in {p, q}
      PROVE  /\ RawBlock(mem'[c]) /\ Len(mem'[c].words) = Len(mem[c].words)
             /\ n <= Len(mem[c].words)
             /\ \A j \in 1 .. n : Leads(mem, mem'[c].words[j])
  <2>1. mem[c].words \in Seq(Word \cup {Unset})
    BY Zenon, <1>3 DEF RawBlock, BlockType
  <2>2. /\ Sh(c) \in Seq(Word \cup {Unset}) /\ Len(Sh(c)) = Len(mem[c].words)
        /\ \A j \in 1 .. n : \E h \in 1 .. b.len : Sh(c)[j] = mem[c].words[h]
    <3>1. b.len \in Nat /\ b.len <= Len(mem[c].words)
      BY Zenon, <1>2, <1>3
    <3> DEFINE m == b.len
               ws == mem[c].words
    <3> HIDE DEF ws, m
    <3>2. ws \in Seq(Word \cup {Unset}) /\ m \in Nat /\ m <= Len(ws) /\ i \in 1 .. m
      BY Zenon, <1>1, <2>1, <3>1 DEF ws, m
    <3>3. /\ Shifted(ws, i, m) \in Seq(Word \cup {Unset}) /\ Len(Shifted(ws, i, m)) = Len(ws)
          /\ \A j \in 1 .. m - 1 : \E h \in 1 .. m : Shifted(ws, i, m)[j] = ws[h]
      BY ONLY <3>2, ShiftedFacts
    <3>4. QED BY Zenon, <3>3 DEF ws, m, Sh
  <2>3. mem'[c] = Reworded(mem[c], Sh(c)) /\ RawBlock(mem[c])
    BY Zenon, <1>3, <1>4
  <2>4. RawBlock(mem'[c]) /\ mem'[c].words = Sh(c)
    BY ONLY <2>2, <2>3, RewordedFacts
  <2>5. n <= Len(mem[c].words)
    <3>1. b.len <= Len(mem[c].words) /\ Len(mem[c].words) \in Nat /\ b.len \in Nat
      BY Zenon, <1>2, <1>3
    <3>2. QED BY ONLY <3>1
  <2>6. \A h \in 1 .. b.len : Leads(mem, mem[c].words[h])
    BY Zenon, <1>3
  <2> HIDE DEF n, b
  <2>7. QED BY Zenon, <2>2, <2>4, <2>5, <2>6
<1>6. \A h \in 1 .. Len(mem[a].bufs) : mem[a].bufs[h] = p \/ mem[a].bufs[h] = q
  <2>1. Len(mem[a].bufs) = 2
    BY Zenon, <1>2
  <2>2. \A h \in 1 .. Len(mem[a].bufs) : h = 1 \/ h = 2
    BY ONLY <2>1
  <2>3. QED BY ONLY <2>2 DEF p, q
<1>7. \A h \in 1 .. Len(mem[a].bufs) : Rewritten(a, h, n)
  <2> SUFFICES ASSUME NEW h \in 1 .. Len(mem[a].bufs)
               PROVE  Rewritten(a, h, n)
    BY Zenon
  <2>1. PICK e : e = mem[a].bufs[h]
    BY Zenon
  <2>2. e \in {p, q} /\ e \in DOMAIN mem
    BY Zenon, <1>3, <1>6, <2>1
  <2> HIDE DEF n
  <2>3. QED BY Zenon, <1>5, <2>1, <2>2 DEF Rewritten
<1>8. \A c \in DOMAIN mem :
        c # a /\ (\A h \in 1 .. Len(mem[a].bufs) : c # mem[a].bufs[h]) => mem'[c] = mem[c]
  <2>1. 1 \in 1 .. Len(mem[a].bufs) /\ 2 \in 1 .. Len(mem[a].bufs)
    <3>1. Len(mem[a].bufs) = 2
      BY <1>2
    <3>2. QED BY ONLY <3>1
  <2>2. QED BY ONLY <1>4, <2>1 DEF p, q
<1>9. n \in Nat /\ mem[a].kind \in {"arr", "map"} /\ mem'[a] = Resized(mem[a], n) /\ DOMAIN mem' = DOMAIN mem
  BY Zenon, <1>1, <1>2, <1>4
<1> HIDE DEF n
<1>10. Memory(mem')
  BY ONLY HeapInv, <1>1, <1>7, <1>8, <1>9, RewrittenKeeps
<1>11. QED BY Zenon, <1>4, <1>10, ChangeKeeps

LEMMA MoveKeeps == HeapInv /\ UNCHANGED program /\ (Move \/ Forget \/ Clobber) => HeapInv'
<1> SUFFICES ASSUME HeapInv, UNCHANGED program, Move \/ Forget \/ Clobber
             PROVE  HeapInv'
  OBVIOUS
<1>1. mem' = mem /\ room' = room /\ call' = Idle
  BY DEF Move, Forget, Clobber, program
<1>2. Roots'
  <2>1. room \subseteq Word
    BY DEF HeapInv, Word
  <2>2. CASE Move
    BY <1>1, <2>2, InUseFacts DEF Move, HeapInv, Roots, Leads
  <2>3. CASE Forget
    BY <1>1, <2>3 DEF Forget, HeapInv, Roots, Leads
  <2>4. CASE Clobber
    BY <1>1, <2>1, <2>4 DEF Clobber, HeapInv, Roots, Leads, Word
  <2>5. QED BY <2>2, <2>3, <2>4
<1>3. CallInv'
  BY <1>1, IdleInv
<1>4. Memory(mem')
  BY <1>1 DEF HeapInv
<1>5. QED BY <1>1, <1>2, <1>3, <1>4 DEF HeapInv

(* A map gets one new buffer: at h, the other one stays at g.              *)
Halves == {1, 2}
Rehoused(b, n, h, p) == [b EXCEPT !.len = n, !.bufs[h] = p]

LEMMA RehousedFacts ==
  ASSUME NEW b \in BlockType, Len(b.bufs) = 2, NEW n \in Nat, NEW h \in Halves, NEW g \in Halves, g # h,
         NEW p \in Addr
  PROVE  /\ Rehoused(b, n, h, p) \in BlockType /\ Rehoused(b, n, h, p).kind = b.kind
         /\ Rehoused(b, n, h, p).len = n /\ Len(Rehoused(b, n, h, p).bufs) = 2
         /\ Rehoused(b, n, h, p).bufs[h] = p /\ Rehoused(b, n, h, p).bufs[g] = b.bufs[g]
<1> DEFINE bs == [b.bufs EXCEPT ![h] = p]
           c == Rehoused(b, n, h, p)
<1>1. b.bufs \in Seq(Addr \cup {NULL, Unset}) /\ h \in 1 .. Len(b.bufs) /\ g \in 1 .. Len(b.bufs)
  BY DEF BlockType, Halves
<1>2. p \in Addr \cup {NULL, Unset}
  OBVIOUS
<1>3. /\ bs \in Seq(Addr \cup {NULL, Unset}) /\ Len(bs) = Len(b.bufs)
      /\ \A j \in 1 .. Len(b.bufs) : bs[j] = IF j = h THEN p ELSE b.bufs[j]
  BY ONLY <1>1, <1>2, ExceptSeq
<1>4. c = [b EXCEPT !.len = n, !.bufs = bs]
  BY DEF Rehoused
<1> HIDE DEF bs, c
<1>5. c \in BlockType /\ c.kind = b.kind /\ c.len = n /\ c.bufs = bs
  BY <1>3, <1>4 DEF BlockType
<1>6. QED BY <1>1, <1>3, <1>5 DEF c

LEMMA RehousedKeeps ==
  ASSUME HeapInv, NEW a \in DOMAIN mem, mem[a].kind = "map", NEW p \in Fresh, NEW n \in Nat,
         NEW h \in {1, 2}, NEW g \in {1, 2}, g # h, NEW q, q = mem[a].bufs[g],
         DOMAIN mem' = DOMAIN mem \cup {p},
         mem'[a] = Rehoused(mem[a], n, h, p),
         RawBlock(mem'[p]), n <= Len(mem'[p].words), \A j \in 1 .. n : Leads(mem, mem'[p].words[j]),
         q \in DOMAIN mem => RawBlock(mem'[q]) /\ Len(mem'[q].words) = Len(mem[q].words),
         Serves(mem', n, q),
         h = 1 => Len(mem'[p].words) >= Size(mem, q),
         h = 2 => Size(mem, q) >= Len(mem'[p].words),
         \A c \in DOMAIN mem : c # a /\ c # q => mem'[c] = mem[c]
  PROVE  Memory(mem')
<1> DEFINE F == {p}
           b == mem'[a]
           D == DOMAIN mem
           m == Len(mem[a].bufs)
<1>1. Len(mem[a].bufs) = 2 /\ mem[a] \in BlockType /\ Memory(mem)
  BY MapFacts DEF HeapInv
<1>2. p \in Addr /\ p \notin DOMAIN mem
  BY DEF HeapInv, Fresh
<1>3. /\ b \in BlockType /\ b.kind = mem[a].kind /\ b.len = n /\ Len(b.bufs) = 2
      /\ b.bufs[h] = p /\ b.bufs[g] = q
  <2>1. mem'[a] = Rehoused(mem[a], n, h, p) /\ q = mem[a].bufs[g]
    OBVIOUS
  <2>2. PICK e : e = mem[a]
    OBVIOUS
  <2>3. e \in BlockType /\ Len(e.bufs) = 2 /\ p \in Addr
    BY <1>1, <1>2, <2>2
  <2>4. /\ Rehoused(e, n, h, p) \in BlockType /\ Rehoused(e, n, h, p).kind = e.kind
        /\ Rehoused(e, n, h, p).len = n /\ Len(Rehoused(e, n, h, p).bufs) = 2
        /\ Rehoused(e, n, h, p).bufs[h] = p /\ Rehoused(e, n, h, p).bufs[g] = e.bufs[g]
    <3>1. h \in Halves /\ g \in Halves
      BY DEF Halves
    <3>2. QED BY ONLY SMTT(60), <2>3, <3>1, n \in Nat, g # h, RehousedFacts
  <2>5. QED BY ONLY <2>1, <2>2, <2>4
<1>4. \A k \in 1 .. m : k = h \/ k = g
  <2>1. m = 2
    BY <1>1
  <2>2. QED BY ONLY <2>1, h \in {1, 2}, g \in {1, 2}, g # h
<1>5. h \in 1 .. m /\ g \in 1 .. m
  <2>1. m = 2
    BY <1>1
  <2>2. QED BY ONLY <2>1, h \in {1, 2}, g \in {1, 2}
<1>6. q # p /\ q \in Addr \cup {NULL, Unset} /\ (q \notin D => Size(mem, q) = 0)
  <2>1. Serves(mem, mem[a].len, q) /\ q \in Addr \cup {NULL, Unset} /\ (q \notin D => Size(mem, q) = 0)
    BY <1>5, ContainerFacts
  <2>2. QED BY <1>2, <2>1, MutatorAssumption DEF Serves
<1>7. \A w : Leads(mem, w) => Leads(mem', w)
  BY DEF Leads
<1>8. Serves(mem', n, p)
  BY <1>7 DEF Serves, RawBlock
<1> HIDE DEF b, m
<1>9. \A k \in 1 .. m : Serves(mem', b.len, b.bufs[k])
  BY <1>3, <1>4, <1>8
<1>10. \A k \in 1 .. m : b.bufs[k] = mem[a].bufs[k] \/ b.bufs[k] \in F
  BY <1>3, <1>4
<1>11. \A j, k \in 1 .. m : j # k => b.bufs[j] # b.bufs[k] \/ b.bufs[j] \notin F
  BY <1>3, <1>4, <1>6
<1>12. mem[a].kind = "map" => Size(mem', b.bufs[1]) >= Size(mem', b.bufs[2])
  <2>1. Size(mem', p) = Len(mem'[p].words)
    BY DEF Size, Contents
  <2>2. Size(mem', q) = Size(mem, q)
    BY <1>6 DEF Size, Contents
  <2>3. CASE h = 1
    <3>1. b.bufs[1] = p /\ b.bufs[2] = q
      BY <1>3, <2>3
    <3>2. QED BY <2>1, <2>2, <2>3, <3>1
  <2>4. CASE h = 2
    <3>1. b.bufs[1] = q /\ b.bufs[2] = p
      BY <1>3, <2>4
    <3>2. QED BY <2>1, <2>2, <2>4, <3>1
  <2>5. QED BY <2>3, <2>4
<1>13. ASSUME NEW c \in D \ {a}
       PROVE  \/ mem'[c] = mem[c]
              \/ RawBlock(mem'[c]) /\ \E k \in 1 .. m : c = mem[a].bufs[k]
  <2>1. CASE c = q
    BY <1>5, <2>1
  <2>2. CASE c # q
    BY <2>2
  <2>3. QED BY <2>1, <2>2
<1>14. /\ F \in SUBSET (Addr \ D) /\ DOMAIN mem' = D \cup F
       /\ \A c \in F : RawBlock(mem'[c])
       /\ b \in BlockType /\ b.kind = mem[a].kind /\ Len(b.bufs) = m
       /\ mem[a].kind \in Container
  BY <1>1, <1>2, <1>3 DEF m, Container
<1> HIDE DEF F
<1>15. QED BY ONLY a \in DOMAIN mem, <1>1, <1>9, <1>10, <1>11, <1>12, <1>13, <1>14, Replaced DEF b, m

(* What a map must hold for the constructor that grows it.                 *)
LEMMA GrowingFacts ==
  ASSUME HeapInv, call.op \in {"set", "values"}
  PROVE  LET a == call.words[1]
             n == NewCap(mem[a])
         IN  /\ call = [op |-> call.op, words |-> call.words]
             /\ call.words \in Seq(Word) /\ Len(call.words) = 3
             /\ \A j \in 1 .. 3 : Leads(mem, call.words[j]) /\ call.words[j] \in Word
             /\ a \in DOMAIN mem /\ mem[a].kind = "map" /\ mem[a] \in BlockType
             /\ mem[a].len \in Nat /\ n \in Nat /\ mem[a].len + 1 <= n
             /\ Cap(mem[a]) = Size(mem, mem[a].bufs[2]) /\ Cap(mem[a]) <= n
             /\ Len(mem[a].bufs) = 2
             /\ \A k \in {1, 2} : RawBlock(Regrown(mem[a].bufs[k], n)) /\ Len(Regrown(mem[a].bufs[k], n).words) = n
             /\ \A k \in {1, 2} : \A j \in 1 .. mem[a].len : Leads(mem, Regrown(mem[a].bufs[k], n).words[j])
<1> DEFINE n == NewCap(mem[call.words[1]])
<1>1. /\ call = [op |-> call.op, words |-> call.words]
      /\ call.words \in Seq(Word) /\ Len(call.words) = 3
      /\ \A j \in 1 .. 3 : Leads(mem, call.words[j])
      /\ call.words[1] \in DOMAIN mem /\ mem[call.words[1]].kind = "map"
  BY DEF HeapInv, CallInv
<1>2. \A j \in 1 .. 3 : call.words[j] \in Word
  BY ONLY <1>1, ElementOfSeq
<1>3. PICK a : a = call.words[1]
  OBVIOUS
<1>4. a \in DOMAIN mem /\ mem[a].kind = "map" /\ n = NewCap(mem[a])
  BY <1>1, <1>3
<1>5. /\ mem[a] \in BlockType /\ Len(mem[a].bufs) = 2 /\ mem[a].len \in Nat
      /\ Cap(mem[a]) = Size(mem, mem[a].bufs[2])
  BY <1>4, MapFacts
<1>6. n \in Nat /\ mem[a].len + 1 <= n /\ Cap(mem[a]) <= n
  BY <1>4, CapFacts
<1> HIDE DEF n
<1>7. ASSUME NEW k \in {1, 2}
      PROVE  /\ RawBlock(Regrown(mem[a].bufs[k], n)) /\ Len(Regrown(mem[a].bufs[k], n).words) = n
             /\ \A j \in 1 .. mem[a].len : Leads(mem, Regrown(mem[a].bufs[k], n).words[j])
  <2>1. k \in 1 .. Len(mem[a].bufs) /\ mem[a].kind \in {"arr", "map"} /\ mem[a].len <= n
    BY <1>4, <1>5, <1>6
  <2>2. QED BY ONLY HeapInv, <1>4, <1>6, <2>1, RegrownFacts
<1>8. QED BY Zenon, <1>1, <1>2, <1>3, <1>4, <1>5, <1>6, <1>7 DEF n

LEMMA GrowKeysKeeps == HeapInv /\ UNCHANGED program /\ GrowKeys => HeapInv'
<1> SUFFICES ASSUME HeapInv, UNCHANGED program, NEW p \in Fresh, call.op = "set",
                    LET m == call.words[1] IN
                    mem' = Put([mem EXCEPT ![m].bufs[1] = p], p, Regrown(mem[m].bufs[1], NewCap(mem[m]))),
                    call' = [call EXCEPT !.op = "values"],
                    UNCHANGED <<local, live>>
             PROVE  HeapInv'
  BY DEF GrowKeys
<1>1. PICK a, b, n, r, q : /\ a = call.words[1] /\ b = mem[a] /\ n = NewCap(b)
                           /\ r = Regrown(b.bufs[1], n) /\ q = b.bufs[2]
  OBVIOUS
<1>2. /\ call.words \in Seq(Word) /\ Len(call.words) = 3
      /\ \A j \in 1 .. 3 : Leads(mem, call.words[j]) /\ call.words[j] \in Word
      /\ a \in DOMAIN mem /\ b.kind = "map" /\ b \in BlockType
      /\ b.len \in Nat /\ n \in Nat /\ b.len + 1 <= n
      /\ Cap(b) = Size(mem, q) /\ Cap(b) <= n
      /\ Len(b.bufs) = 2
      /\ RawBlock(r) /\ Len(r.words) = n
      /\ \A j \in 1 .. b.len : Leads(mem, r.words[j])
      /\ call = [op |-> call.op, words |-> call.words]
  BY Zenon, <1>1, GrowingFacts
<1>3. p \in Addr /\ p \notin DOMAIN mem /\ p \in room /\ DOMAIN mem \subseteq room
  BY SMTT(40) DEF HeapInv, Fresh
<1>4. /\ DOMAIN mem' = DOMAIN mem \cup {p} /\ mem' = [c \in DOMAIN mem' |-> mem'[c]]
      /\ mem'[p] = r
      /\ \A c \in DOMAIN mem : c # a => mem'[c] = mem[c]
  BY <1>1, <1>3 DEF Put
<1>5. mem'[a] = Rehoused(b, b.len, 1, p)
  <2>1. mem'[a] = [b EXCEPT !.bufs[1] = p]
    BY <1>1, <1>2, <1>3 DEF Put
  <2>2. QED BY <1>2, <2>1 DEF Rehoused, BlockType
<1>6. Serves(mem, b.len, q) /\ q # a /\ q # p /\ (q \in DOMAIN mem => RawBlock(mem[q]))
  <2>1. 2 \in 1 .. Len(mem[a].bufs)
    BY <1>1, <1>2
  <2>2. Serves(mem, mem[a].len, mem[a].bufs[2]) /\ (mem[a].bufs[2] \in DOMAIN mem => RawBlock(mem[mem[a].bufs[2]]) /\ mem[a].bufs[2] # a)
    BY Zenon, <1>2, <2>1, ContainerFacts
  <2>3. q # p
    BY Zenon, <1>1, <1>3, <2>2, MutatorAssumption DEF Serves
  <2>4. QED BY SMTT(40), <1>1, <1>2, <2>2, <2>3
<1>7. Serves(mem', b.len, q) /\ Size(mem', q) = Size(mem, q)
  <2>1. q \in DOMAIN mem => mem'[q] = mem[q]
    BY Zenon, <1>4, <1>6
  <2>2. \A w : Leads(mem, w) => Leads(mem', w)
    BY Zenon, <1>4 DEF Leads
  <2>3. Serves(mem', b.len, q)
    BY Zenon, <1>4, <1>6, <2>1, <2>2 DEF Serves
  <2>4. Size(mem', q) = Size(mem, q)
    BY Zenon, <1>4, <1>6, <2>1 DEF Size, Contents
  <2>5. QED BY <2>3, <2>4
<1>8. Memory(mem')
  <2>1. /\ 1 \in {1, 2} /\ 2 \in {1, 2} /\ 2 # 1 /\ b.len <= Len(mem'[p].words) /\ Len(mem'[p].words) >= Size(mem, q)
        /\ RawBlock(mem'[p]) /\ \A j \in 1 .. b.len : Leads(mem, mem'[p].words[j])
    <3>1. b.len <= n /\ n >= Size(mem, q)
      BY ONLY <1>2
    <3>2. QED BY ONLY <1>2, <1>4, <3>1
  <2>2. /\ mem'[a] = Rehoused(mem[a], b.len, 1, p) /\ q = mem[a].bufs[2] /\ mem[a].kind = "map" /\ b.len \in Nat
        /\ q \in DOMAIN mem => RawBlock(mem'[q]) /\ Len(mem'[q].words) = Len(mem[q].words)
        /\ \A c \in DOMAIN mem : c # a /\ c # q => mem'[c] = mem[c]
    BY Zenon, <1>1, <1>2, <1>4, <1>5, <1>6
  <2>3. QED BY ONLY HeapInv, p \in Fresh, <1>2, <1>4, <1>7, <2>1, <2>2, RehousedKeeps
<1>9. CallInv'
  <2>1. call' = [op |-> call'.op, words |-> call'.words] /\ call'.op = "values" /\ call'.words = call.words
    BY <1>2
  <2>2. \A j \in 1 .. 3 : Leads(mem', call.words[j])
    BY Zenon, <1>2, <1>4 DEF Leads
  <2>3. /\ mem'[a].kind = "map" /\ mem'[a].len = b.len /\ Len(mem'[a].bufs) = 2
        /\ mem'[a].bufs[1] = p /\ mem'[a].bufs[2] = q
    <3>1. 1 \in Halves /\ 2 \in Halves /\ 2 # 1
      BY DEF Halves
    <3>2. /\ Rehoused(b, b.len, 1, p).kind = b.kind
          /\ Rehoused(b, b.len, 1, p).len = b.len /\ Len(Rehoused(b, b.len, 1, p).bufs) = 2
          /\ Rehoused(b, b.len, 1, p).bufs[1] = p /\ Rehoused(b, b.len, 1, p).bufs[2] = b.bufs[2]
      BY ONLY SMTT(60), <1>2, <1>3, <3>1, RehousedFacts
    <3>3. QED BY ONLY <1>1, <1>2, <1>5, <3>2
  <2>4. Len(Contents(mem', mem'[a].bufs[Len(mem'[a].bufs)])) = Cap(b)
    BY Zenon, <1>2, <1>7, <2>3 DEF Size
  <2>5. n = IF Cap(b) = 0 THEN FirstCap ELSE 2 * Cap(b)
    BY <1>1 DEF NewCap
  <2>6. Size(mem', mem'[a].bufs[1]) = n
    BY Zenon, <1>2, <1>4, <2>3 DEF Size, Contents
  <2>7. Grows(a)' /\ (Size(mem, mem[a].bufs[1]) >= NewCap(mem[a]))'
    <3>1. PICK cap : cap = Cap(b)
      OBVIOUS
    <3>2. /\ n = IF cap = 0 THEN FirstCap ELSE 2 * cap
          /\ Len(Contents(mem', mem'[a].bufs[Len(mem'[a].bufs)])) = cap
          /\ mem'[a].len + 1 <= n
      BY ONLY <1>2, <2>3, <2>4, <2>5, <3>1
    <3>3. NewCap(mem[a])' = n
      BY ONLY <3>2 DEF NewCap, Cap
    <3>4. Grows(a)'
      BY ONLY <3>2, <3>3 DEF Grows
    <3>5. Size(mem', mem'[a].bufs[1]) >= n
      BY ONLY <1>2, <2>6
    <3>6. QED BY ONLY <3>3, <3>4, <3>5
  <2>8. a \in DOMAIN mem'
    BY Zenon, <1>2, <1>4
  <2>9. QED BY ZenonT(40), <1>1, <1>2, <2>1, <2>2, <2>3, <2>7, <2>8 DEF CallInv, Grows, NewCap, Cap
<1>10. Roots'
  BY Zenon, <1>4 DEF HeapInv, Roots, Leads
<1>11. QED BY Zenon, <1>3, <1>4, <1>8, <1>9, <1>10 DEF HeapInv, program

LEMMA FinishSetKeeps == HeapInv /\ UNCHANGED program /\ FinishSet => HeapInv'
<1> SUFFICES ASSUME HeapInv, UNCHANGED program, NEW p \in Fresh, call.op = "values", Result(Num),
                    LET m == call.words[1]
                        b == mem[m]
                        r == Regrown(b.bufs[2], NewCap(b))
                    IN  mem' = Put([mem EXCEPT ![m].len = @ + 1, ![m].bufs[2] = p,
                                               ![b.bufs[1]].words[b.len + 1] = call.words[2]],
                                   p, [r EXCEPT !.words[b.len + 1] = call.words[3]])
             PROVE  HeapInv'
  BY Zenon DEF FinishSet
<1>1. PICK a, b, n, i, r, q, k, w :
        /\ a = call.words[1] /\ b = mem[a] /\ n = NewCap(b) /\ i = b.len + 1
        /\ r = Regrown(b.bufs[2], n) /\ q = b.bufs[1]
        /\ k = call.words[2] /\ w = call.words[3]
  BY Zenon
<1>2. /\ k \in Word /\ Leads(mem, k) /\ w \in Word /\ Leads(mem, w)
      /\ a \in DOMAIN mem /\ b.kind = "map" /\ b \in BlockType
      /\ b.len \in Nat /\ n \in Nat /\ i <= n /\ i \in Nat /\ i > 0
      /\ Len(b.bufs) = 2
      /\ RawBlock(r) /\ Len(r.words) = n
      /\ \A j \in 1 .. b.len : Leads(mem, r.words[j])
  <2>1. call.op \in {"set", "values"}
    BY Zenon
  <2>2. /\ \A j \in 1 .. 3 : Leads(mem, call.words[j]) /\ call.words[j] \in Word
        /\ a \in DOMAIN mem /\ b.kind = "map" /\ b \in BlockType
        /\ b.len \in Nat /\ n \in Nat /\ b.len + 1 <= n
        /\ Len(b.bufs) = 2
        /\ \A x \in {1, 2} : RawBlock(Regrown(b.bufs[x], n)) /\ Len(Regrown(b.bufs[x], n).words) = n
        /\ \A x \in {1, 2} : \A j \in 1 .. b.len : Leads(mem, Regrown(b.bufs[x], n).words[j])
    BY ONLY Zenon, HeapInv, <2>1, <1>1, GrowingFacts
  <2>3. i \in Nat /\ i > 0 /\ i <= n
    <3>1. i = b.len + 1 /\ b.len \in Nat /\ b.len + 1 <= n
      BY ONLY Zenon, <1>1, <2>2
    <3>2. QED BY ONLY <3>1
  <2>4. /\ 2 \in 1 .. 3 /\ 3 \in 1 .. 3 /\ 2 \in {1, 2}
    BY ONLY TRUE
  <2>5. QED BY ONLY Zenon, <1>1, <2>2, <2>3, <2>4
<1>3. p \in Addr /\ p \notin DOMAIN mem /\ p \in room /\ DOMAIN mem \subseteq room
  BY Zenon DEF HeapInv, Fresh
<1>4. Size(mem, q) >= n
  BY Zenon, <1>1 DEF HeapInv, CallInv
<1>5. /\ q \in DOMAIN mem /\ q # a /\ RawBlock(mem[q])
      /\ Len(mem[q].words) \in Nat /\ Len(mem[q].words) = Size(mem, q)
      /\ \A j \in 1 .. b.len : Leads(mem, mem[q].words[j])
  <2>1. 1 \in 1 .. Len(mem[a].bufs) /\ mem[a].kind \in {"arr", "map"} /\ q = mem[a].bufs[1]
    <3>1. Len(mem[a].bufs) = 2
      BY ONLY <1>1, <1>2
    <3>2. QED BY ONLY <1>1, <1>2, <3>1
  <2>2. Size(mem, mem[a].bufs[1]) \in Nat
    BY Zenon, <1>2, <2>1, ContainerFacts
  <2>3. Size(mem, mem[a].bufs[1]) > 0
    <3>1. Size(mem, q) \in Nat /\ n \in Nat /\ n > 0 /\ Size(mem, q) >= n
      BY ONLY <1>2, <1>4, <2>1, <2>2
    <3>2. QED BY ONLY <2>1, <3>1
  <2>4. QED BY Zenon, <1>1, <1>2, <2>1, <2>3, BufferFacts
<1>6. i \in 1 .. Len(mem[q].words) /\ i \in 1 .. Len(r.words) /\ i <= Len(mem[q].words)
  BY ONLY <1>2, <1>4, <1>5
<1>7. /\ DOMAIN mem' = DOMAIN mem \cup {p} /\ mem' = [c \in DOMAIN mem' |-> mem'[c]]
      /\ \A c \in DOMAIN mem : c # a /\ c # q => mem'[c] = mem[c]
  BY ZenonT(40), <1>1, <1>2, <1>3, <1>5 DEF Put
<1>8. mem'[a] = Rehoused(b, i, 2, p) /\ mem'[q] = Stored(mem[q], i, k) /\ mem'[p] = Stored(r, i, w)
  BY Zenon, <1>1, <1>2, <1>3, <1>5 DEF Put, Rehoused, Stored
<1>9. /\ RawBlock(mem'[p]) /\ Len(mem'[p].words) = n
      /\ \A j \in 1 .. n : mem'[p].words[j] = IF j = i THEN w ELSE r.words[j]
  BY ONLY <1>2, <1>6, <1>8, WordStored
<1>10. /\ RawBlock(mem'[q]) /\ Len(mem'[q].words) = Len(mem[q].words)
       /\ \A j \in 1 .. Len(mem[q].words) : mem'[q].words[j] = IF j = i THEN k ELSE mem[q].words[j]
  BY ONLY <1>2, <1>5, <1>6, <1>8, WordStored
<1>11. \A j \in 1 .. i : (j = i \/ j \in 1 .. b.len) /\ j \in 1 .. n /\ j \in 1 .. Len(mem[q].words)
  <2>1. PICK m, l : m = b.len /\ l = Len(mem[q].words)
    BY Zenon
  <2>2. m \in Nat /\ i = m + 1 /\ i \in Nat /\ i <= n /\ n \in Nat /\ l \in Nat
    BY ONLY Zenon, <1>1, <1>2, <1>5, <2>1
  <2>3. l >= n
    BY ONLY Zenon, <1>4, <1>5, <2>1
  <2>4. \A j \in 1 .. i : (j = i \/ j \in 1 .. m) /\ j \in 1 .. n /\ j \in 1 .. l
    BY ONLY <2>2, <2>3
  <2>5. QED BY ONLY <2>1, <2>4
<1>12. /\ \A j \in 1 .. i : Leads(mem, mem'[p].words[j])
       /\ \A j \in 1 .. i : Leads(mem, mem'[q].words[j])
  BY ONLY <1>2, <1>5, <1>9, <1>10, <1>11
<1>13. Memory(mem')
  <2>1. \A j \in 1 .. i : Leads(mem', mem'[q].words[j])
    BY Zenon, <1>7, <1>12 DEF Leads
  <2>2. Serves(mem', i, q)
    BY ZenonT(40), <1>5, <1>6, <1>7, <1>10, <2>1 DEF Serves, RawBlock
  <2>3. /\ mem'[a] = Rehoused(mem[a], i, 2, p) /\ q = mem[a].bufs[1] /\ mem[a].kind = "map"
        /\ 1 \in {1, 2} /\ 2 \in {1, 2} /\ 1 # 2
        /\ i <= Len(mem'[p].words) /\ Size(mem, q) >= Len(mem'[p].words)
    <3>1. i <= n /\ Len(mem'[p].words) = n
      BY ONLY <1>2, <1>9
    <3>2. QED BY ONLY <1>1, <1>2, <1>4, <1>8, <3>1
  <2>4. QED BY ONLY SMTT(40), HeapInv, p \in Fresh, <1>2, <1>7, <1>9, <1>10, <1>12, <2>2, <2>3, RehousedKeeps
<1>14. Num \in Word /\ Leads(mem', Num) /\ DOMAIN mem' \subseteq room /\ DOMAIN mem \subseteq DOMAIN mem'
  BY Zenon, <1>3, <1>7 DEF Word, Leads
<1>15. QED BY Zenon, <1>7, <1>13, <1>14, ResultKeeps

(* The mutator keeps the heap intact, whatever the program does.           *)
LEMMA MutateKeeps == HeapInv /\ Mutate => HeapInv'
<1> SUFFICES ASSUME HeapInv, Mutate
             PROVE  HeapInv'
  OBVIOUS
<1>1. UNCHANGED program
  BY DEF Mutate
<1>2. CASE EnterNew \/ FinishNew
  BY <1>1, <1>2, EnterNewKeeps, FinishNewKeeps
<1>3. CASE EnterConcat \/ StepConcat
  BY <1>1, <1>3, EnterConcatKeeps, StepConcatKeeps
<1>4. CASE EnterClosure \/ AllocClosure \/ FillClosure
  BY <1>1, <1>4, EnterClosureKeeps, AllocClosureKeeps, FillClosureKeeps
<1>5. CASE PushInPlace \/ EnterPush \/ FinishPush
  BY <1>1, <1>5, PushInPlaceKeeps, EnterPushKeeps, FinishPushKeeps
<1>6. CASE Pop \/ StoreItem \/ StoreBox
  BY <1>1, <1>6, PopKeeps, StoreItemKeeps, StoreBoxKeeps
<1>7. CASE SetInPlace \/ EnterSet \/ GrowKeys \/ FinishSet \/ Delete
  BY <1>1, <1>7, SetInPlaceKeeps, EnterSetKeeps, GrowKeysKeeps, FinishSetKeeps, DeleteKeeps
<1>8. CASE Move \/ Forget \/ Clobber
  BY <1>1, <1>8, MoveKeeps
<1>9. QED BY <1>2, <1>3, <1>4, <1>5, <1>6, <1>7, <1>8 DEF Mutate

LEMMA InitHeap == Init => HeapInv
<1> SUFFICES ASSUME Init
             PROVE  HeapInv
  OBVIOUS
<1>1. mem = <<>> /\ local = [s \in Slot |-> Num] /\ live = {} /\ call = Idle /\ room \subseteq Addr
  BY DEF Init
<1>2. DOMAIN mem = {} /\ mem = [a \in DOMAIN mem |-> mem[a]]
  BY <1>1
<1>3. Memory(mem)
  BY <1>2 DEF Memory, Blocks, Served, Owned
<1>4. Roots
  BY <1>1 DEF Roots, Word
<1>5. CallInv
  BY <1>1, EmptySeq DEF CallInv, Idle
<1>6. QED BY <1>1, <1>2, <1>3, <1>4, <1>5 DEF HeapInv
================================================================================
