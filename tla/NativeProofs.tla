----------------------------- MODULE NativeProofs ------------------------------
(***************************************************************************)
(* When the executables are balanced (Native), as what codegen_x64.c makes *)
(* is, the processor finds the stack as the code believes it to be: the    *)
(* frames that are on it follow one another, each as high as the plan of   *)
(* its body says at the instruction it has come to, each with the handlers *)
(* of the tries it has open.  The links between them, the saved rbp and    *)
(* the return address, are words of the same stack that the code writes    *)
(* its locals and arguments to; nothing but the plan keeps them apart.     *)
(*                                                                         *)
(* Nothing is assumed of values: what an instruction computes may be       *)
(* anything.                                                               *)
(***************************************************************************)
EXTENDS Native, SequenceFacts

Program(is) == is \in Seq([op : STRING, i : Int, n : Int])

Good(is, main, p) == Program(is) /\ Balances(is, main, p)

Body(is, p) == {a \in DOMAIN p : ~ IsEntry(is[a + 1])}
Entries(is, p) == {a \in DOMAIN p : IsEntry(is[a + 1])}

(* A frame: where rbp points and rsp should, the instruction it goes on    *)
(* with, and the numbers of handlers below and with its own.               *)
FrameRec == [base : Nat, top : Nat, pc : Int, hs : Nat, hn : Nat]

FrameOf(p, base, hs, a) ==
  [base |-> base, top |-> base + p[a].height, pc |-> a, hs |-> hs, hn |-> hs + Len(p[a].tries)]

(* What is below the frame of main.                                        *)
Ground == [base |-> 0, top |-> 0, pc |-> 0 - 1, hs |-> 0, hn |-> 0]

Framed(is, p, F, k) ==
  /\ F[k].pc \in Body(is, p)
  /\ F[k] = FrameOf(p, F[k].base, F[k].hs, F[k].pc)
  /\ F[k].base % 2 = 0
  /\ Fits(is, p[F[k].pc].entry, F[k - 1].top - F[k - 1].base)

Frames(is, p, F) ==
  /\ F \in Seq(FrameRec) /\ F # <<>> /\ F[1] = Ground
  /\ \A k \in 2 .. Len(F) :
       Framed(is, p, F, k) /\ F[k].base = F[k - 1].top + 2 /\ F[k].hs = F[k - 1].hn
  /\ \A j, k \in 1 .. Len(F) : j < k => F[j].top + 2 <= F[k].base /\ F[j].hn <= F[k].hs

HandlerOf(p, base, c) == [rsp |-> base + p[c].height, rbp |-> base, pc |-> c]

(* The last of the handlers are those of the tries open at a.              *)
Owns(p, base, hs, a, hd) ==
  /\ Len(hd) = hs + Len(p[a].tries)
  /\ \A t \in 1 .. Len(p[a].tries) : hd[hs + t] = HandlerOf(p, base, p[a].tries[t])

(* The words that link the frames, and the handlers.                       *)
Links(F, st) ==
  \A k \in 2 .. Len(F) : st[F[k].base] = RbpOf(F[k - 1].base) /\ st[F[k].base - 1] = RetTo(F[k - 1].pc)

Guards(p, F, hd) ==
  /\ Len(hd) = F[Len(F)].hn
  /\ \A k \in 2 .. Len(F) : \A t \in 1 .. Len(p[F[k].pc].tries) :
       hd[F[k].hs + t] = HandlerOf(p, F[k].base, p[F[k].pc].tries[t])

(* Control is in the body of the last frame, or at the entry point of what *)
(* that has called.                                                        *)
InBody(F, st, c) == Len(F) >= 2 /\ c = F[Len(F)].pc /\ Len(st) = F[Len(F)].top

AtEntry(is, p, F, st, c) ==
  LET f == F[Len(F)] IN
  /\ c \in Entries(is, p) /\ Len(st) = f.top + 1 /\ st[Len(st)] = RetTo(f.pc)
  /\ Fits(is, c, f.top - f.base)
  /\ Len(F) = 1 => is[c + 1].op = "ENTER"

Control(is, p, F, st, hd, rb, c) ==
  /\ Frames(is, p, F) /\ Links(F, st) /\ Guards(p, F, hd)
  /\ rb = F[Len(F)].base
  /\ InBody(F, st, c) \/ AtEntry(is, p, F, st, c)
-------------------------------------------------------------------------------
(* Balanced code.                                                          *)
LEMMA PlannedFacts ==
  ASSUME NEW is, NEW main, NEW p, Good(is, main, p), NEW a \in DOMAIN p
  PROVE  /\ a \in Nat /\ a + 1 \in 1 .. Len(is) /\ is[a + 1] \in [op : STRING, i : Int, n : Int]
         /\ p[a] \in [height : Nat, entry : DOMAIN p, tries : Seq(DOMAIN p)]
         /\ p[a].height % 2 = 0
         /\ Belongs(is, a, p[a].entry)
<1>1. Planned(is, p, a) /\ a \in 0 .. Len(is) - 1 /\ Len(is) \in Nat
  BY LenProperties DEF Good, Balances, Program
<1>2. a \in Nat /\ a + 1 \in 1 .. Len(is)
  BY <1>1
<1>3. is[a + 1] \in [op : STRING, i : Int, n : Int]
  BY <1>2, ElementOfSeq DEF Good, Program
<1>4. QED BY <1>1, <1>2, <1>3 DEF Planned

LEMMA EntryFacts ==
  ASSUME NEW is, NEW main, NEW p, Good(is, main, p), NEW e \in Entries(is, p)
  PROVE  /\ e \in DOMAIN p /\ p[e].height = 0 /\ p[e].entry = e /\ p[e].tries = <<>>
         /\ is[e + 1].op \in {"ENTER", "TRAMPOLINE"}
         /\ is[e + 1].op = "ENTER" => is[e + 1].i > 0
<1>1. Planned(is, p, e) /\ IsEntry(is[e + 1])
  BY DEF Good, Balances, Entries
<1>2. QED BY <1>1 DEF Planned, EntryPoint, IsEntry, Entries

(* Control does not come to an entry point but by a call.                  *)
LEMMA BodyFacts ==
  ASSUME NEW is, NEW main, NEW p, Good(is, main, p), NEW a \in DOMAIN p,
         NEW b \in DOMAIN p, p[b].entry = p[a].entry, b # p[a].entry
  PROVE  b \in Body(is, p)
BY EntryFacts DEF Body, Entries

LEMMA NextFacts ==
  ASSUME NEW is, NEW main, NEW p, Good(is, main, p), NEW a \in DOMAIN p,
         NEW b \in Successors(a, is[a + 1])
  PROVE  /\ b \in Body(is, p) /\ p[b].entry = p[a].entry
         /\ p[b].height = p[a].height + Moves(is[a + 1])
         /\ p[b].tries = Opened(p[a].tries, is[a + 1])
<1>1. Planned(is, p, a)
  BY DEF Good, Balances
<1>2. b \in DOMAIN p \ {p[a].entry} /\ p[b] = After(p[a], is[a + 1])
  BY <1>1 DEF Planned
<1>3. /\ p[b].entry = p[a].entry /\ p[b].height = p[a].height + Moves(is[a + 1])
      /\ p[b].tries = Opened(p[a].tries, is[a + 1])
  BY <1>2 DEF After
<1>4. QED BY <1>2, <1>3, BodyFacts

(* The catch labels of the tries that are open.                            *)
LEMMA TryFacts ==
  ASSUME NEW is, NEW main, NEW p, Good(is, main, p), NEW a \in DOMAIN p,
         NEW t \in 1 .. Len(p[a].tries), NEW c, c = p[a].tries[t]
  PROVE  /\ c \in Body(is, p) /\ p[c].entry = p[a].entry /\ p[c].height <= p[a].height
         /\ p[c].tries = SubSeq(p[a].tries, 1, t - 1)
<1>1. Planned(is, p, a) /\ p[a].tries \in Seq(DOMAIN p)
  BY PlannedFacts DEF Good, Balances
<1>2. DOMAIN p[a].tries = 1 .. Len(p[a].tries) /\ p[a].tries[t] \in DOMAIN p
  BY <1>1, LenProperties, ElementOfSeq
<1>3. /\ c # p[a].entry /\ p[c].height <= p[a].height
      /\ p[c] = [height |-> p[c].height, entry |-> p[a].entry, tries |-> SubSeq(p[a].tries, 1, t - 1)]
  BY <1>1, <1>2 DEF Planned
<1>4. p[c].entry = p[a].entry /\ p[c].tries = SubSeq(p[a].tries, 1, t - 1)
  BY <1>3
<1>5. QED BY <1>2, <1>3, <1>4, BodyFacts

LEMMA FitsMore ==
  ASSUME NEW is, Program(is), NEW e \in Nat, NEW m \in Int, NEW n \in Int, m <= n, Fits(is, e, m)
  PROVE  Fits(is, e, n)
<1> SUFFICES ASSUME NEW a \in 0 .. Len(is) - 1, Writes(is[a + 1]), Belongs(is, a, e) PROVE Target(is[a + 1]) <= n
  BY DEF Fits
<1>1. Len(is) \in Nat /\ a \in Nat /\ a + 1 \in 1 .. Len(is)
  BY LenProperties DEF Program
<1>2. is[a + 1] \in [op : STRING, i : Int, n : Int]
  BY <1>1, ElementOfSeq DEF Program
<1>3. Target(is[a + 1]) \in Int
  BY <1>2 DEF Target
<1>4. Target(is[a + 1]) <= m
  BY DEF Fits
<1>5. QED BY <1>3, <1>4

-------------------------------------------------------------------------------
(* Frames.                                                                 *)
LEMMA FrameFacts ==
  ASSUME NEW is, NEW main, NEW p, Good(is, main, p), NEW F, Frames(is, p, F), NEW k \in 2 .. Len(F)
  PROVE  /\ Len(F) \in Nat /\ k - 1 \in 1 .. Len(F) /\ F[k] \in FrameRec /\ F[k - 1] \in FrameRec
         /\ F[k].pc \in DOMAIN p /\ F[k].pc \in Nat
         /\ p[F[k].pc] \in [height : Nat, entry : DOMAIN p, tries : Seq(DOMAIN p)]
         /\ F[k].top = F[k].base + p[F[k].pc].height
         /\ Len(p[F[k].pc].tries) \in Nat /\ F[k].hn = F[k].hs + Len(p[F[k].pc].tries)
<1>1. Len(F) \in Nat
  BY LenProperties DEF Frames
<1>2. k - 1 \in 1 .. Len(F) /\ k \in 1 .. Len(F)
  BY <1>1
<1>3. F[k] \in FrameRec /\ F[k - 1] \in FrameRec
  BY <1>2, ElementOfSeq DEF Frames
<1>4. Framed(is, p, F, k)
  BY DEF Frames
<1>5. F[k].pc \in DOMAIN p /\ F[k] = FrameOf(p, F[k].base, F[k].hs, F[k].pc)
  BY <1>4 DEF Framed, Body
<1>6. F[k].pc \in Nat /\ p[F[k].pc] \in [height : Nat, entry : DOMAIN p, tries : Seq(DOMAIN p)]
  BY <1>5, PlannedFacts
<1>7. Len(p[F[k].pc].tries) \in Nat
  BY <1>6, LenProperties
<1>8. F[k].top = F[k].base + p[F[k].pc].height /\ F[k].hn = F[k].hs + Len(p[F[k].pc].tries)
  BY <1>5 DEF FrameOf
<1>9. QED BY <1>1, <1>2, <1>3, <1>5, <1>6, <1>7, <1>8

LEMMA FrameGrows ==
  ASSUME NEW is, NEW main, NEW p, Good(is, main, p), NEW F, Frames(is, p, F), NEW k \in 1 .. Len(F)
  PROVE  F[k] \in FrameRec /\ F[k].base <= F[k].top /\ F[k].hs <= F[k].hn
<1>1. Len(F) \in Nat /\ F[k] \in FrameRec
  BY LenProperties, ElementOfSeq DEF Frames
<1>2. CASE k = 1
  BY <1>1, <1>2 DEF Frames, Ground
<1>3. CASE k # 1
  <2>1. k \in 2 .. Len(F)
    BY <1>1, <1>3
  <2>2. /\ F[k].top = F[k].base + p[F[k].pc].height /\ p[F[k].pc].height \in Nat
        /\ Len(p[F[k].pc].tries) \in Nat /\ F[k].hn = F[k].hs + Len(p[F[k].pc].tries)
    BY <2>1, FrameFacts
  <2>3. F[k].base \in Nat /\ F[k].hs \in Nat
    BY <1>1 DEF FrameRec
  <2>4. F[k].base <= F[k].top
    BY ONLY <2>2, <2>3
  <2>5. F[k].hs <= F[k].hn
    BY ONLY <2>2, <2>3
  <2>6. QED BY <1>1, <2>4, <2>5
<1>4. QED BY <1>2, <1>3

LEMMA FrameTyped ==
  ASSUME NEW is, NEW main, NEW p, Good(is, main, p), NEW base \in Nat, NEW hs \in Nat, NEW a \in DOMAIN p
  PROVE  FrameOf(p, base, hs, a) \in FrameRec
<1>1. a \in Nat /\ p[a].height \in Nat /\ p[a].tries \in Seq(DOMAIN p)
  BY PlannedFacts
<1>2. base + p[a].height \in Nat /\ hs + Len(p[a].tries) \in Nat /\ a \in Int
  BY <1>1, LenProperties
<1>3. QED BY <1>2 DEF FrameOf, FrameRec

(* The m-th frame goes on at a, as the last one.                           *)
Back(p, F, m, a) == Append(SubSeq(F, 1, m - 1), FrameOf(p, F[m].base, F[m].hs, a))

LEMMA BackFacts ==
  ASSUME NEW is, NEW main, NEW p, Good(is, main, p), NEW F, Frames(is, p, F),
         NEW m \in 2 .. Len(F), NEW a \in Body(is, p), p[a].entry = p[F[m].pc].entry,
         NEW G, G = Back(p, F, m, a)
  PROVE  /\ Frames(is, p, G) /\ Len(G) = m /\ G[m] = FrameOf(p, F[m].base, F[m].hs, a)
         /\ \A k \in 1 .. m - 1 : G[k] = F[k]
         /\ \A k \in 1 .. m : G[k].base = F[k].base /\ G[k].hs = F[k].hs
<1>1. /\ Len(F) \in Nat /\ F \in Seq(FrameRec) /\ m - 1 \in 0 .. Len(F) /\ F[m] \in FrameRec /\ m \in Nat
      /\ a \in DOMAIN p
  BY FrameFacts DEF Frames, Body
<1>2. FrameOf(p, F[m].base, F[m].hs, a) \in FrameRec
  BY <1>1, FrameTyped DEF FrameRec
<1>3. PICK e : e = FrameOf(p, F[m].base, F[m].hs, a)
  OBVIOUS
<1>4. PICK c : c = SubSeq(F, 1, m - 1)
  OBVIOUS
<1>5. c \in Seq(FrameRec) /\ Len(c) = m - 1 /\ \A k \in 1 .. m - 1 : c[k] = F[k]
  BY <1>1, <1>4, InitialPartFacts
<1>6. e \in FrameRec /\ G = Append(c, e)
  BY <1>2, <1>3, <1>4 DEF Back
<1>7. G \in Seq(FrameRec) /\ Len(G) = Len(c) + 1 /\ G[Len(c) + 1] = e /\ \A i \in 1 .. Len(c) : G[i] = c[i]
  BY ONLY <1>5, <1>6, AppendFacts
<1>8. Len(G) = m /\ G[m] = e /\ \A k \in 1 .. m - 1 : G[k] = F[k]
  BY <1>1, <1>5, <1>7
<1>9. \A k \in 1 .. m : k # m => k \in 1 .. m - 1
  BY <1>1
<1>10. e.base = F[m].base /\ e.hs = F[m].hs /\ e.pc = a
  BY <1>3 DEF FrameOf
<1>11. \A k \in 1 .. m : G[k].base = F[k].base /\ G[k].hs = F[k].hs
  BY <1>8, <1>9, <1>10
<1>12. \A k \in 2 .. m :
         Framed(is, p, G, k) /\ G[k].base = G[k - 1].top + 2 /\ G[k].hs = G[k - 1].hn
  <2> SUFFICES ASSUME NEW k \in 2 .. m
               PROVE  Framed(is, p, G, k) /\ G[k].base = G[k - 1].top + 2 /\ G[k].hs = G[k - 1].hn
    OBVIOUS
  <2>1. k \in 2 .. Len(F) /\ k - 1 \in 1 .. m - 1 /\ k \in 1 .. m
    BY <1>1
  <2>2. Framed(is, p, F, k) /\ F[k].base = F[k - 1].top + 2 /\ F[k].hs = F[k - 1].hn
    BY <2>1 DEF Frames
  <2>3. G[k - 1] = F[k - 1] /\ G[k].base = F[k].base /\ G[k].hs = F[k].hs
    BY <1>8, <1>11, <2>1
  <2>4. CASE k = m
    <3>1. Framed(is, p, G, k)
      BY <1>3, <1>8, <1>10, <2>2, <2>3, <2>4 DEF Framed
    <3>2. QED BY <2>2, <2>3, <3>1
  <2>5. CASE k # m
    <3>1. G[k] = F[k]
      BY <1>8, <1>9, <2>1, <2>5
    <3>2. QED BY <2>2, <2>3, <3>1 DEF Framed
  <2>6. QED BY <2>4, <2>5
<1>13. \A j, k \in 1 .. m : j < k => G[j].top + 2 <= G[k].base /\ G[j].hn <= G[k].hs
  <2> SUFFICES ASSUME NEW j \in 1 .. m, NEW k \in 1 .. m, j < k
               PROVE  G[j].top + 2 <= G[k].base /\ G[j].hn <= G[k].hs
    OBVIOUS
  <2>1. j \in 1 .. m - 1 /\ j \in 1 .. Len(F) /\ k \in 1 .. Len(F)
    BY <1>1
  <2>2. F[j].top + 2 <= F[k].base /\ F[j].hn <= F[k].hs
    BY <2>1 DEF Frames
  <2>3. QED BY <1>8, <1>11, <2>1, <2>2
<1>14. G # <<>> /\ G[1] = Ground
  <2>1. 1 \in 1 .. m - 1 /\ Len(<<>>) = 0 /\ m # 0
    BY <1>1
  <2>2. QED BY <1>8, <2>1 DEF Frames
<1>15. Frames(is, p, G)
  BY <1>7, <1>8, <1>12, <1>13, <1>14 DEF Frames
<1>16. QED BY <1>3, <1>8, <1>11, <1>15

LinkKept(F, k, st, st2) ==
  st2[F[k].base] = st[F[k].base] /\ st2[F[k].base - 1] = st[F[k].base - 1]

LEMMA LinksBack ==
  ASSUME NEW is, NEW main, NEW p, Good(is, main, p), NEW F, Frames(is, p, F),
         NEW m \in 2 .. Len(F), NEW a \in Body(is, p), p[a].entry = p[F[m].pc].entry,
         NEW G, G = Back(p, F, m, a),
         NEW st, NEW st2, Links(F, st), \A k \in 2 .. m : LinkKept(F, k, st, st2)
  PROVE  Links(G, st2)
<1>1. /\ Len(G) = m /\ \A k \in 1 .. m - 1 : G[k] = F[k]
      /\ \A k \in 1 .. m : G[k].base = F[k].base /\ G[k].hs = F[k].hs
  BY BackFacts
<1>2. Len(F) \in Nat
  BY FrameFacts
<1> SUFFICES ASSUME NEW k \in 2 .. m
             PROVE  st2[G[k].base] = RbpOf(G[k - 1].base) /\ st2[G[k].base - 1] = RetTo(G[k - 1].pc)
  BY <1>1 DEF Links
<1>3. k \in 2 .. Len(F) /\ k - 1 \in 1 .. m - 1 /\ k \in 1 .. m
  BY <1>2
<1>4. G[k].base = F[k].base /\ G[k - 1] = F[k - 1]
  BY <1>1, <1>3
<1>5. st[F[k].base] = RbpOf(F[k - 1].base) /\ st[F[k].base - 1] = RetTo(F[k - 1].pc)
  BY <1>3 DEF Links
<1>6. QED BY <1>4, <1>5 DEF LinkKept

LEMMA GuardsBack ==
  ASSUME NEW is, NEW main, NEW p, Good(is, main, p), NEW F, Frames(is, p, F),
         NEW m \in 2 .. Len(F), NEW a \in Body(is, p), p[a].entry = p[F[m].pc].entry,
         NEW G, G = Back(p, F, m, a),
         NEW hd, NEW hd2, Guards(p, F, hd), Owns(p, F[m].base, F[m].hs, a, hd2),
         \A j \in 1 .. F[m].hs : hd2[j] = hd[j]
  PROVE  Guards(p, G, hd2)
<1>1. /\ Len(G) = m /\ G[m] = FrameOf(p, F[m].base, F[m].hs, a) /\ \A k \in 1 .. m - 1 : G[k] = F[k]
      /\ \A k \in 1 .. m : G[k].base = F[k].base /\ G[k].hs = F[k].hs
  BY BackFacts
<1>2. Len(F) \in Nat /\ m \in Nat /\ F[m].hs \in Nat
  BY FrameFacts DEF FrameRec
<1>3. G[m].hn = F[m].hs + Len(p[a].tries) /\ G[m].pc = a
  BY <1>1 DEF FrameOf
<1>4. ASSUME NEW k \in 2 .. m, NEW t \in 1 .. Len(p[G[k].pc].tries)
      PROVE  hd2[G[k].hs + t] = HandlerOf(p, G[k].base, p[G[k].pc].tries[t])
  <2>1. CASE k = m
    <3>1. G[k].pc = a /\ G[k].hs = F[m].hs /\ G[k].base = F[m].base
      BY <1>1, <1>2, <1>3, <2>1
    <3>2. QED BY <1>4, <3>1 DEF Owns
  <2>2. CASE k # m
    <3>1. k \in 1 .. m - 1 /\ k \in 2 .. Len(F) /\ m \in 1 .. Len(F) /\ k \in 1 .. Len(F) /\ k < m
      BY <1>2, <2>2
    <3>2. G[k] = F[k]
      BY <1>1, <3>1
    <3>3. F[k].hn <= F[m].hs
      BY <3>1 DEF Frames
    <3>4. F[k].hs \in Nat /\ Len(p[F[k].pc].tries) \in Nat /\ F[k].hn = F[k].hs + Len(p[F[k].pc].tries)
      <4>1. Good(is, main, p) /\ Frames(is, p, F) /\ k \in 2 .. Len(F)
        BY <3>1
      <4>2. F[k] \in FrameRec /\ Len(p[F[k].pc].tries) \in Nat /\ F[k].hn = F[k].hs + Len(p[F[k].pc].tries)
        BY ONLY <4>1, FrameFacts
      <4>3. QED BY ONLY <4>2 DEF FrameRec
    <3>5. t \in 1 .. Len(p[F[k].pc].tries)
      BY <1>4, <3>2
    <3>6. F[k].hs + t \in 1 .. F[m].hs
      BY ONLY SMTT(40), <1>2, <3>3, <3>4, <3>5
    <3>7. hd[F[k].hs + t] = HandlerOf(p, F[k].base, p[F[k].pc].tries[t])
      BY <3>1, <3>5 DEF Guards
    <3>8. QED BY <3>2, <3>6, <3>7
  <2>3. QED BY <2>1, <2>2
<1>5. Len(hd2) = G[m].hn
  BY <1>3 DEF Owns
<1>6. QED BY <1>1, <1>4, <1>5 DEF Guards

(* A frame on top of the others.                                           *)
Deeper(p, F, n, a) == Append(F, FrameOf(p, F[n].top + 2, F[n].hn, a))

LEMMA DeeperFacts ==
  ASSUME NEW is, NEW main, NEW p, Good(is, main, p), NEW F, Frames(is, p, F),
         NEW n, n = Len(F),
         NEW a \in Body(is, p), F[n].top % 2 = 0, Fits(is, p[a].entry, F[n].top - F[n].base),
         NEW G, G = Deeper(p, F, n, a)
  PROVE  /\ Frames(is, p, G) /\ Len(G) = n + 1
         /\ G[n + 1] = FrameOf(p, F[n].top + 2, F[n].hn, a)
         /\ \A k \in 1 .. n : G[k] = F[k]
<1>1. n \in Nat /\ n >= 1 /\ F \in Seq(FrameRec) /\ a \in DOMAIN p
  <2>1. F \in Seq(FrameRec) /\ F # <<>>
    BY DEF Frames
  <2>2. Len(F) \in Nat /\ Len(F) # 0
    BY <2>1, LenProperties, EmptySeq
  <2>3. QED BY <2>1, <2>2 DEF Body
<1>2. n \in 1 .. n /\ F[n] \in FrameRec
  BY <1>1, ElementOfSeq
<1>3. F[n].top \in Nat /\ F[n].base \in Nat /\ F[n].hn \in Nat /\ F[n].top + 2 \in Nat /\ F[n].hs \in Nat
  BY <1>2 DEF FrameRec
<1>4. PICK e : e = FrameOf(p, F[n].top + 2, F[n].hn, a)
  OBVIOUS
<1>5. e \in FrameRec
  BY <1>1, <1>3, <1>4, FrameTyped
<1>6. G \in Seq(FrameRec) /\ Len(G) = n + 1 /\ G[n + 1] = e /\ \A i \in 1 .. n : G[i] = F[i]
  <2>1. G = Append(F, e)
    BY <1>4 DEF Deeper
  <2>2. F \in Seq(FrameRec) /\ n = Len(F)
    BY <1>1
  <2>3. QED BY ONLY <1>5, <2>1, <2>2, AppendFacts
<1>7. e.base = F[n].top + 2 /\ e.hs = F[n].hn /\ e.pc = a
  BY <1>4 DEF FrameOf
<1>8. ASSUME NEW k \in 2 .. n + 1
      PROVE  Framed(is, p, G, k) /\ G[k].base = G[k - 1].top + 2 /\ G[k].hs = G[k - 1].hn
  <2>1. k - 1 \in 1 .. n
    BY <1>1
  <2>2. G[k - 1] = F[k - 1]
    BY <1>6, <2>1
  <2>3. CASE k = n + 1
    <3>1. k - 1 = n /\ G[k] = e
      BY <1>1, <1>6, <2>3
    <3>2. e.base % 2 = 0
      BY <1>3, <1>7
    <3>3. Framed(is, p, G, k)
      BY <1>4, <1>7, <2>2, <3>1, <3>2 DEF Framed
    <3>4. QED BY <1>7, <2>2, <3>1, <3>3
  <2>4. CASE k # n + 1
    <3>1. k \in 2 .. n /\ k \in 1 .. n
      BY <1>1, <2>4
    <3>2. G[k] = F[k]
      BY <1>6, <3>1
    <3>3. Framed(is, p, F, k) /\ F[k].base = F[k - 1].top + 2 /\ F[k].hs = F[k - 1].hn
      BY <3>1 DEF Frames
    <3>4. QED BY <2>2, <3>2, <3>3 DEF Framed
  <2>5. QED BY <2>3, <2>4
<1>9. F[n].base <= F[n].top /\ F[n].hs <= F[n].hn
  BY <1>2, FrameGrows
<1>10. ASSUME NEW j \in 1 .. n + 1, NEW k \in 1 .. n + 1, j < k
       PROVE  G[j].top + 2 <= G[k].base /\ G[j].hn <= G[k].hs
  <2>1. j \in 1 .. n
    BY <1>1, <1>10
  <2>2. G[j] = F[j] /\ F[j] \in FrameRec
    BY <1>1, <1>6, <2>1, ElementOfSeq
  <2>3. F[j].top \in Nat /\ F[j].hn \in Nat
    BY <2>2 DEF FrameRec
  <2>4. j # n => F[j].top + 2 <= F[n].base /\ F[j].hn <= F[n].hs
    BY <1>1, <1>2, <2>1 DEF Frames
  <2>5. CASE k = n + 1
    <3>1. F[j].top + 2 <= F[n].top + 2 /\ F[j].hn <= F[n].hn
      BY ONLY <1>3, <1>9, <2>3, <2>4
    <3>2. G[k] = e
      BY ONLY <1>6, <2>5
    <3>3. QED BY ONLY <1>7, <2>2, <3>1, <3>2
  <2>6. CASE k # n + 1
    <3>1. k \in 1 .. n
      BY <1>1, <2>6
    <3>2. QED BY <1>6, <1>10, <2>1, <2>2, <3>1 DEF Frames
  <2>7. QED BY <2>5, <2>6
<1>11. G # <<>> /\ G[1] = Ground
  <2>1. 1 \in 1 .. n /\ Len(<<>>) = 0 /\ n + 1 # 0
    BY <1>1
  <2>2. QED BY <1>6, <2>1 DEF Frames
<1>12. Frames(is, p, G)
  BY <1>6, <1>8, <1>10, <1>11 DEF Frames
<1>13. QED BY <1>4, <1>6, <1>12

LEMMA ArityTyped == ASSUME NEW f \in DOMAIN Builtins PROVE Arity(f) \in Nat
BY DEF Builtins, Arity, Entry

LEMMA MovesTyped ==
  ASSUME NEW is, NEW main, NEW p, Good(is, main, p), NEW a \in DOMAIN p
  PROVE  Moves(is[a + 1]) \in Int
<1>1. Planned(is, p, a) /\ is[a + 1] \in [op : STRING, i : Int, n : Int]
  BY PlannedFacts DEF Good, Balances
<1>2. is[a + 1].op = "BUILTIN" => Arity(Named(is[a + 1].i)) \in Nat
  <2> HAVE is[a + 1].op = "BUILTIN"
  <2>1. is[a + 1].i \in Ids
    BY <1>1 DEF Planned
  <2>2. Named(is[a + 1].i) \in DOMAIN Builtins
    BY <2>1 DEF Ids, Named
  <2>3. QED BY <2>2, ArityTyped
<1>3. QED BY <1>1, <1>2 DEF Moves

-------------------------------------------------------------------------------
(* Steps, one kind at a time.  Control is in a body ...                    *)
LEMMA InBodyFacts ==
  ASSUME NEW is, NEW main, NEW p, Good(is, main, p),
         NEW F, NEW st, NEW hd, NEW rb, NEW c, Control(is, p, F, st, hd, rb, c),
         NEW n, n = Len(F), ~ IsEntry(is[c + 1])
  PROVE  /\ n \in 2 .. n /\ n \in Nat /\ F[n] \in FrameRec /\ F[n].pc = c /\ rb = F[n].base
         /\ c \in Body(is, p) /\ c \in DOMAIN p /\ p[c].height \in Nat /\ Len(p[c].tries) \in Nat
         /\ p[c].tries \in Seq(DOMAIN p)
         /\ Len(st) = rb + p[c].height
         /\ Owns(p, F[n].base, F[n].hs, c, hd)
<1>1. Frames(is, p, F) /\ Guards(p, F, hd) /\ rb = F[n].base /\ (InBody(F, st, c) \/ AtEntry(is, p, F, st, c))
  BY DEF Control
<1>2. ~ AtEntry(is, p, F, st, c)
  BY DEF AtEntry, Entries
<1>3. n >= 2 /\ c = F[n].pc /\ Len(st) = F[n].top
  BY <1>1, <1>2 DEF InBody
<1>4. n \in Nat
  BY <1>1, LenProperties DEF Frames
<1>5. n \in 2 .. n
  BY ONLY <1>3, <1>4
<1>6. /\ F[n] \in FrameRec /\ c \in DOMAIN p /\ p[c].height \in Nat /\ p[c].tries \in Seq(DOMAIN p)
      /\ F[n].top = F[n].base + p[c].height
      /\ Len(p[c].tries) \in Nat /\ F[n].hn = F[n].hs + Len(p[c].tries)
  BY <1>1, <1>3, <1>5, FrameFacts
<1>7. c \in Body(is, p)
  BY <1>1, <1>3, <1>5 DEF Frames, Framed
<1>8. /\ Len(hd) = F[n].hn
      /\ \A t \in 1 .. Len(p[c].tries) : hd[F[n].hs + t] = HandlerOf(p, F[n].base, p[c].tries[t])
  BY <1>1, <1>3, <1>5 DEF Guards
<1>9. Owns(p, F[n].base, F[n].hs, c, hd)
  BY <1>6, <1>8 DEF Owns
<1>10. QED BY <1>1, <1>3, <1>4, <1>5, <1>6, <1>7, <1>9

(* ... and goes on in it with other words, or other handlers.              *)
LEMMA GoesOn ==
  ASSUME NEW is, NEW main, NEW p, Good(is, main, p),
         NEW F, NEW st, NEW hd, NEW rb, NEW c, Control(is, p, F, st, hd, rb, c),
         NEW n, n = Len(F), ~ IsEntry(is[c + 1]),
         NEW d \in Body(is, p), p[d].entry = p[c].entry,
         NEW st2, Len(st2) = rb + p[d].height, \A k \in 2 .. n : LinkKept(F, k, st, st2),
         NEW hd2, Owns(p, F[n].base, F[n].hs, d, hd2), \A j \in 1 .. F[n].hs : hd2[j] = hd[j]
  PROVE  \E G : Control(is, p, G, st2, hd2, rb, d)
<1>1. n \in 2 .. n /\ n \in Nat /\ F[n].pc = c /\ rb = F[n].base
  BY InBodyFacts
<1>2. Frames(is, p, F) /\ Links(F, st) /\ Guards(p, F, hd) /\ n \in 2 .. Len(F) /\ p[d].entry = p[F[n].pc].entry
  BY <1>1 DEF Control
<1>3. PICK G : G = Back(p, F, n, d)
  OBVIOUS
<1>4. /\ Frames(is, p, G) /\ Len(G) = n /\ G[n] = FrameOf(p, F[n].base, F[n].hs, d)
      /\ \A k \in 1 .. n : G[k].base = F[k].base /\ G[k].hs = F[k].hs
  BY <1>2, <1>3, BackFacts
<1>5. Links(G, st2)
  BY <1>2, <1>3, LinksBack
<1>6. Guards(p, G, hd2)
  BY SMTT(40), <1>2, <1>3, GuardsBack
<1>7. rb = G[n].base /\ G[n].pc = d /\ G[n].top = rb + p[d].height
  BY <1>1, <1>4 DEF FrameOf
<1>8. InBody(G, st2, d)
  BY <1>1, <1>4, <1>7 DEF InBody
<1>9. QED BY <1>4, <1>5, <1>6, <1>7, <1>8 DEF Control

LEMMA LocalStep ==
  ASSUME NEW is, NEW main, NEW p, Good(is, main, p),
         NEW F, NEW st, NEW hd, NEW rb, NEW c, Control(is, p, F, st, hd, rb, c),
         NEW n, n = Len(F), ~ IsEntry(is[c + 1]),
         NEW d \in Successors(c, is[c + 1]), is[c + 1].op \notin {"TRY", "UNTRY"},
         NEW st2, Len(st2) = Len(st) + Moves(is[c + 1]), \A k \in 2 .. n : LinkKept(F, k, st, st2)
  PROVE  \E G : Control(is, p, G, st2, hd, rb, d)
<1>1. /\ c \in DOMAIN p /\ Len(st) = rb + p[c].height /\ rb = F[n].base /\ F[n] \in FrameRec /\ p[c].height \in Nat
      /\ Owns(p, F[n].base, F[n].hs, c, hd)
  BY InBodyFacts
<1>2. /\ d \in Body(is, p) /\ p[d].entry = p[c].entry
      /\ p[d].height = p[c].height + Moves(is[c + 1]) /\ p[d].tries = Opened(p[c].tries, is[c + 1])
  BY <1>1, NextFacts
<1>3. Owns(p, F[n].base, F[n].hs, d, hd)
  BY <1>1, <1>2 DEF Opened, Owns
<1>4. Len(st2) = rb + p[d].height
  <2>1. rb \in Nat /\ p[d].height \in Nat
    BY <1>1, <1>2, PlannedFacts DEF FrameRec, Body
  <2>2. Moves(is[c + 1]) = p[d].height - p[c].height
    <3>1. Moves(is[c + 1]) \in Int
      BY <1>1, MovesTyped
    <3>2. QED BY ONLY <1>1, <1>2, <2>1, <3>1
  <2>3. QED BY <1>1, <1>2, <2>1, <2>2
<1>5. QED BY <1>1, <1>2, <1>3, <1>4, GoesOn

-------------------------------------------------------------------------------
(* Sequences of anything.                                                  *)
Words(s) == \E W : s \in Seq(W)

LEMMA WordsTyped ==
  ASSUME NEW s, Words(s)
  PROVE  Len(s) \in Nat /\ DOMAIN s = 1 .. Len(s)
BY LenProperties DEF Words

LEMMA SeqGrows ==
  ASSUME NEW W, NEW V, NEW s \in Seq(W), W \subseteq V
  PROVE  s \in Seq(V)
<1>1. Len(s) \in Nat /\ s \in [1 .. Len(s) -> W]
  BY LenProperties
<1>2. \A i \in 1 .. Len(s) : s[i] \in V
  BY <1>1
<1>3. s \in [1 .. Len(s) -> V]
  BY <1>1, <1>2
<1>4. QED BY <1>1, <1>3

LEMMA AppendedFacts ==
  ASSUME NEW s, Words(s), NEW x
  PROVE  /\ Words(Append(s, x)) /\ Len(Append(s, x)) = Len(s) + 1
         /\ Append(s, x)[Len(s) + 1] = x
         /\ \A i \in 1 .. Len(s) : Append(s, x)[i] = s[i]
<1>1. PICK W : s \in Seq(W)
  BY DEF Words
<1>2. PICK V : V = W \cup {x}
  OBVIOUS
<1>3. x \in V /\ s \in Seq(V)
  BY <1>1, <1>2, SeqGrows
<1>4. QED BY <1>3, AppendFacts DEF Words

LEMMA JoinedFacts ==
  ASSUME NEW s, Words(s), NEW r, Words(r)
  PROVE  /\ Words(s \o r) /\ Len(s \o r) = Len(s) + Len(r)
         /\ \A i \in 1 .. Len(s) : (s \o r)[i] = s[i]
         /\ \A i \in 1 .. Len(r) : (s \o r)[Len(s) + i] = r[i]
<1>1. PICK W : s \in Seq(W)
  BY DEF Words
<1>2. PICK U : r \in Seq(U)
  BY DEF Words
<1>3. PICK V : V = W \cup U
  OBVIOUS
<1>4. s \in Seq(V) /\ r \in Seq(V)
  BY <1>1, <1>2, <1>3, SeqGrows
<1>5. QED BY <1>4, ConcatFacts DEF Words

LEMMA CutFacts ==
  ASSUME NEW s, Words(s), NEW n \in 0 .. Len(s)
  PROVE  /\ Words(SubSeq(s, 1, n)) /\ Len(SubSeq(s, 1, n)) = n
         /\ \A i \in 1 .. n : SubSeq(s, 1, n)[i] = s[i]
BY InitialPartFacts DEF Words

LEMMA AssignedFacts ==
  ASSUME NEW s, Words(s), NEW j, NEW x
  PROVE  /\ Words([s EXCEPT ![j] = x]) /\ Len([s EXCEPT ![j] = x]) = Len(s)
         /\ \A i \in 1 .. Len(s) : i # j => [s EXCEPT ![j] = x][i] = s[i]
<1>1. PICK W : s \in Seq(W)
  BY DEF Words
<1>2. PICK V : V = W \cup {x}
  OBVIOUS
<1>3. PICK r : r = [s EXCEPT ![j] = x]
  OBVIOUS
<1>4. Len(s) \in Nat /\ s \in [1 .. Len(s) -> V]
  BY <1>1, <1>2, SeqGrows, LenProperties
<1>5. r \in [1 .. Len(s) -> V] /\ \A i \in 1 .. Len(s) : i # j => r[i] = s[i]
  BY <1>2, <1>3, <1>4
<1>6. r \in Seq(V)
  BY <1>4, <1>5
<1>7. Len(r) = Len(s)
  BY <1>4, <1>5, <1>6, LenProperties
<1>8. QED BY <1>3, <1>5, <1>6, <1>7 DEF Words

-------------------------------------------------------------------------------
(* What leaves the words up to rbp alone leaves the links alone.           *)
LEMMA LowWords ==
  ASSUME NEW is, NEW main, NEW p, Good(is, main, p),
         NEW F, NEW st, NEW hd, NEW rb, NEW c, Control(is, p, F, st, hd, rb, c),
         NEW n, n = Len(F), NEW m \in 2 .. n,
         NEW st2, \A i \in 1 .. F[m].base : st2[i] = st[i]
  PROVE  \A k \in 2 .. m : LinkKept(F, k, st, st2)
<1> SUFFICES ASSUME NEW k \in 2 .. m PROVE LinkKept(F, k, st, st2)
  OBVIOUS
<1>1. Frames(is, p, F) /\ n \in Nat
  BY LenProperties DEF Control, Frames
<1>2. k \in 2 .. n /\ m \in 1 .. n /\ k \in 1 .. n /\ k - 1 \in 1 .. n /\ m \in Nat
  BY ONLY <1>1, m \in 2 .. n, k \in 2 .. m
<1>3. F[k] \in FrameRec /\ F[k - 1] \in FrameRec /\ F[m] \in FrameRec
  BY <1>1, <1>2, FrameFacts
<1>4. F[k].base = F[k - 1].top + 2 /\ F[k - 1].top \in Nat /\ F[k].base \in Nat /\ F[k].top \in Nat /\ F[m].base \in Nat
  BY <1>1, <1>2, <1>3 DEF Frames, FrameRec
<1>5. F[k].base <= F[m].base
  <2>1. CASE k = m
    BY <1>4, <2>1
  <2>2. CASE k # m
    <3>1. k < m
      BY ONLY <1>2, <2>2, k \in 2 .. m
    <3>2. F[k].top + 2 <= F[m].base
      BY <1>1, <1>2, <3>1 DEF Frames
    <3>3. F[k].top = F[k].base + p[F[k].pc].height /\ p[F[k].pc].height \in Nat
      BY <1>1, <1>2, FrameFacts
    <3>4. QED BY ONLY <1>4, <3>2, <3>3
  <2>3. QED BY <2>1, <2>2
<1>6. F[k].base \in 1 .. F[m].base /\ F[k].base - 1 \in 1 .. F[m].base
  BY ONLY <1>4, <1>5
<1>7. QED BY <1>6 DEF LinkKept

(* So does an assignment to a local or to an argument there is.            *)
LEMMA WrittenWords ==
  ASSUME NEW is, NEW main, NEW p, Good(is, main, p),
         NEW F, NEW st, NEW hd, NEW rb, NEW c, Control(is, p, F, st, hd, rb, c),
         NEW n, n = Len(F), ~ IsEntry(is[c + 1]), Writes(is[c + 1]),
         Words(st), NEW x, NEW st2, st2 = [st EXCEPT ![rb - Target(is[c + 1])] = x]
  PROVE  \A k \in 2 .. n : LinkKept(F, k, st, st2)
<1>1. /\ n \in 2 .. n /\ n \in Nat /\ F[n].pc = c /\ rb = F[n].base /\ c \in DOMAIN p /\ F[n] \in FrameRec
      /\ p[c].height \in Nat /\ Len(st) = rb + p[c].height
  BY InBodyFacts
<1>2. Frames(is, p, F)
  BY DEF Control
<1>3. PICK d : d = Target(is[c + 1])
  OBVIOUS
<1>4. d \in Int /\ (d <= 0 - 2 \/ d >= 2)
  <2>1. Planned(is, p, c) /\ is[c + 1] \in [op : STRING, i : Int, n : Int]
    BY <1>1, PlannedFacts DEF Good, Balances
  <2>2. d \in (0 - is[p[c].entry + 1].i) .. 0 - 2 \/ d >= 2
    BY <1>3, <2>1 DEF Planned
  <2>3. d \in Int
    BY <1>3, <2>1 DEF Target
  <2>4. QED BY ONLY <2>2, <2>3
<1>5. d <= F[n - 1].top - F[n - 1].base
  <2>1. Fits(is, p[c].entry, F[n - 1].top - F[n - 1].base)
    BY <1>1, <1>2 DEF Frames, Framed
  <2>2. Belongs(is, c, p[c].entry) /\ c \in 0 .. Len(is) - 1
    BY <1>1, PlannedFacts DEF Good, Balances
  <2>3. QED BY <1>3, <2>1, <2>2 DEF Fits
<1>6. F[n].base = F[n - 1].top + 2 /\ F[n - 1] \in FrameRec /\ n - 1 \in 1 .. n
  BY <1>1, <1>2, FrameFacts DEF Frames
<1>7. rb \in Nat /\ F[n - 1].top \in Nat /\ F[n - 1].base \in Nat
  BY <1>1, <1>6 DEF FrameRec
<1>8. PICK b, t, h : b = F[n - 1].base /\ t = F[n - 1].top /\ h = p[c].height
  OBVIOUS
<1>9. /\ rb \in Nat /\ b \in Nat /\ t \in Nat /\ h \in Nat /\ rb = t + 2 /\ d <= t - b /\ Len(st) = rb + h
       /\ d \in Int /\ (d <= 0 - 2 \/ d >= 2) /\ b <= t
  BY <1>8, <1>1, <1>2, <1>4, <1>5, <1>6, <1>7, FrameGrows
<1>10. rb - d > b /\ rb - d # rb /\ rb - d # rb - 1 /\ b <= rb
  BY ONLY <1>9
<1>11. \A i \in 1 .. Len(st) : i # rb - d => st2[i] = st[i]
  BY <1>3, AssignedFacts
<1>12. LinkKept(F, n, st, st2)
  <2>1. rb \in 1 .. Len(st) /\ rb - 1 \in 1 .. Len(st)
    BY ONLY <1>9
  <2>2. QED BY <1>1, <1>10, <1>11, <2>1 DEF LinkKept
<1>13. ASSUME NEW k \in 2 .. n, k # n PROVE LinkKept(F, k, st, st2)
  <2>1. n - 1 \in 2 .. n /\ k \in 2 .. n - 1
    BY ONLY <1>1, <1>13
  <2>2. \A i \in 1 .. F[n - 1].base : st2[i] = st[i]
    <3>1. \A i \in 1 .. b : i \in 1 .. Len(st) /\ i # rb - d
      BY ONLY <1>9, <1>10
    <3>2. QED BY <1>8, <1>11, <3>1
  <2>3. \A j \in 2 .. n - 1 : LinkKept(F, j, st, st2)
    BY <2>1, <2>2, LowWords
  <2>4. QED BY <2>1, <2>3
<1>14. QED BY <1>12, <1>13

-------------------------------------------------------------------------------
(* A try is opened: the handler remembers rsp as the plan knows it.        *)
LEMMA TryStep ==
  ASSUME NEW is, NEW main, NEW p, Good(is, main, p),
         NEW F, NEW st, NEW hd, NEW rb, NEW c, Control(is, p, F, st, hd, rb, c), Words(hd),
         is[c + 1].op = "TRY"
  PROVE  \E G : Control(is, p, G, st, Append(hd, [rsp |-> Len(st), rbp |-> rb, pc |-> is[c + 1].i]), rb, c + 1)
<1>1. PICK n, in, hd2 :
        n = Len(F) /\ in = is[c + 1] /\ hd2 = Append(hd, [rsp |-> Len(st), rbp |-> rb, pc |-> is[c + 1].i])
  OBVIOUS
<1>2. ~ IsEntry(is[c + 1]) /\ c + 1 \in Successors(c, is[c + 1]) /\ Moves(in) = 0 /\ in.op = "TRY"
  BY <1>1 DEF IsEntry, Successors, Moves
<1>3. /\ n \in 2 .. n /\ c \in DOMAIN p /\ Len(st) = rb + p[c].height /\ rb = F[n].base /\ F[n] \in FrameRec
      /\ p[c].tries \in Seq(DOMAIN p) /\ Owns(p, F[n].base, F[n].hs, c, hd) /\ p[c].height \in Nat
  BY <1>1, <1>2, InBodyFacts
<1>4. /\ c + 1 \in Body(is, p) /\ p[c + 1].entry = p[c].entry
      /\ p[c + 1].height = p[c].height + Moves(in) /\ p[c + 1].tries = Opened(p[c].tries, in)
  BY <1>1, <1>2, <1>3, NextFacts
<1>5. p[c + 1].height = p[c].height /\ p[c + 1].tries = Append(p[c].tries, in.i)
  BY <1>2, <1>3, <1>4 DEF Opened
<1>6. in.i \in DOMAIN p /\ p[in.i] = p[c]
  BY <1>1, <1>2, <1>3 DEF Good, Balances, Planned
<1>7. PICK h : h = Len(p[c].tries)
  OBVIOUS
<1>8. /\ h \in Nat /\ Len(p[c + 1].tries) = h + 1 /\ p[c + 1].tries[h + 1] = in.i
      /\ \A t \in 1 .. h : p[c + 1].tries[t] = p[c].tries[t]
  BY <1>3, <1>5, <1>6, <1>7, AppendFacts, LenProperties
<1>9. PICK k : k = F[n].hs
  OBVIOUS
<1>10. k \in Nat /\ Len(hd) = k + h /\ \A t \in 1 .. h : hd[k + t] = HandlerOf(p, rb, p[c].tries[t])
  BY <1>3, <1>7, <1>9 DEF FrameRec, Owns
<1>11. /\ Len(hd2) = k + h + 1 /\ hd2[k + h + 1] = [rsp |-> Len(st), rbp |-> rb, pc |-> in.i]
       /\ \A j \in 1 .. k + h : hd2[j] = hd[j]
  BY <1>1, <1>10, AppendedFacts
<1>12. ASSUME NEW t \in 1 .. h + 1 PROVE hd2[k + t] = HandlerOf(p, rb, p[c + 1].tries[t])
  <2>1. CASE t = h + 1
    <3>1. k + t = k + h + 1
      BY ONLY <1>8, <1>10, <2>1
    <3>2. HandlerOf(p, rb, in.i) = [rsp |-> Len(st), rbp |-> rb, pc |-> in.i]
      BY <1>3, <1>6 DEF HandlerOf
    <3>3. QED BY <1>8, <1>11, <2>1, <3>1, <3>2
  <2>2. CASE t # h + 1
    <3>1. t \in 1 .. h /\ k + t \in 1 .. k + h
      BY ONLY <1>8, <1>10, <1>12, <2>2
    <3>2. QED BY <1>8, <1>10, <1>11, <3>1
  <2>3. QED BY <2>1, <2>2
<1>13. Owns(p, F[n].base, F[n].hs, c + 1, hd2)
  <2>1. Len(hd2) = k + (h + 1)
    BY ONLY <1>8, <1>10, <1>11
  <2>2. QED BY <1>3, <1>8, <1>9, <1>12, <2>1 DEF Owns
<1>14. \A j \in 1 .. F[n].hs : hd2[j] = hd[j]
  BY SMTT(40), <1>8, <1>9, <1>10, <1>11
<1>15. Len(st) = rb + p[c + 1].height /\ \A j \in 2 .. n : LinkKept(F, j, st, st)
  BY <1>3, <1>5 DEF LinkKept
<1>16. \E G : Control(is, p, G, st, hd2, rb, c + 1)
  <2>1. Good(is, main, p) /\ Control(is, p, F, st, hd, rb, c) /\ n = Len(F)
    BY <1>1
  <2>2. c + 1 \in Body(is, p) /\ p[c + 1].entry = p[c].entry
    BY <1>4
  <2>3. QED BY ONLY <1>2, <1>13, <1>14, <1>15, <2>1, <2>2, GoesOn
<1>17. QED BY <1>1, <1>16

LEMMA UntryStep ==
  ASSUME NEW is, NEW main, NEW p, Good(is, main, p),
         NEW F, NEW st, NEW hd, NEW rb, NEW c, Control(is, p, F, st, hd, rb, c), Words(hd),
         is[c + 1].op = "UNTRY"
  PROVE  \E G : Control(is, p, G, st, SubSeq(hd, 1, Len(hd) - 1), rb, c + 1)
<1>1. PICK n, in, hd2 : n = Len(F) /\ in = is[c + 1] /\ hd2 = SubSeq(hd, 1, Len(hd) - 1)
  OBVIOUS
<1>2. ~ IsEntry(is[c + 1]) /\ c + 1 \in Successors(c, is[c + 1]) /\ Moves(in) = 0 /\ in.op = "UNTRY"
  BY <1>1 DEF IsEntry, Successors, Moves
<1>3. /\ n \in 2 .. n /\ c \in DOMAIN p /\ Len(st) = rb + p[c].height /\ rb = F[n].base /\ F[n] \in FrameRec
      /\ p[c].tries \in Seq(DOMAIN p) /\ Owns(p, F[n].base, F[n].hs, c, hd) /\ p[c].height \in Nat
  BY <1>1, <1>2, InBodyFacts
<1>4. /\ c + 1 \in Body(is, p) /\ p[c + 1].entry = p[c].entry
      /\ p[c + 1].height = p[c].height + Moves(in) /\ p[c + 1].tries = Opened(p[c].tries, in)
  BY <1>1, <1>2, <1>3, NextFacts
<1>5. PICK h, k : h = Len(p[c].tries) /\ k = F[n].hs
  OBVIOUS
<1>6. p[c + 1].height = p[c].height /\ p[c + 1].tries = SubSeq(p[c].tries, 1, h - 1)
  BY <1>2, <1>3, <1>4, <1>5 DEF Opened
<1>7. h \in Nat /\ h # 0
  <2>1. p[c].tries # <<>>
    BY <1>1, <1>2, <1>3 DEF Good, Balances, Planned
  <2>2. QED BY <1>3, <1>5, <2>1, LenProperties, EmptySeq
<1>8. Len(p[c + 1].tries) = h - 1 /\ \A t \in 1 .. h - 1 : p[c + 1].tries[t] = p[c].tries[t]
  <2>1. h - 1 \in 0 .. Len(p[c].tries)
    BY <1>5, <1>7
  <2>2. QED BY <1>3, <1>6, <2>1, InitialPartFacts
<1>9. k \in Nat /\ Len(hd) = k + h /\ \A t \in 1 .. h : hd[k + t] = HandlerOf(p, rb, p[c].tries[t])
  BY <1>3, <1>5 DEF FrameRec, Owns
<1>10. Len(hd2) = k + (h - 1) /\ \A j \in 1 .. k + (h - 1) : hd2[j] = hd[j]
  <2>1. Len(hd) - 1 = k + (h - 1) /\ k + (h - 1) \in 0 .. Len(hd)
    BY <1>7, <1>9
  <2>2. QED BY <1>1, <2>1, CutFacts
<1>11. ASSUME NEW t \in 1 .. h - 1 PROVE hd2[k + t] = HandlerOf(p, rb, p[c + 1].tries[t])
  <2>1. t \in 1 .. h /\ k + t \in 1 .. k + (h - 1)
    BY ONLY <1>7, <1>9, <1>11
  <2>2. QED BY <1>8, <1>9, <1>10, <2>1
<1>12. Owns(p, F[n].base, F[n].hs, c + 1, hd2)
  BY <1>3, <1>5, <1>8, <1>10, <1>11 DEF Owns
<1>13. \A j \in 1 .. F[n].hs : hd2[j] = hd[j]
  <2>1. \A j \in 1 .. k : j \in 1 .. k + (h - 1)
    BY ONLY <1>7, <1>9
  <2>2. QED BY <1>5, <1>10, <2>1
<1>14. Len(st) = rb + p[c + 1].height /\ \A j \in 2 .. n : LinkKept(F, j, st, st)
  BY <1>3, <1>6 DEF LinkKept
<1>15. \E G : Control(is, p, G, st, hd2, rb, c + 1)
  <2>1. Good(is, main, p) /\ Control(is, p, F, st, hd, rb, c) /\ n = Len(F)
    BY <1>1
  <2>2. c + 1 \in Body(is, p) /\ p[c + 1].entry = p[c].entry
    BY <1>4
  <2>3. QED BY ONLY <1>2, <1>12, <1>13, <1>14, <2>1, <2>2, GoesOn
<1>16. QED BY <1>1, <1>15

-------------------------------------------------------------------------------
(* A call, by name or through a closure, leaves control at an entry point, *)
(* with the return address on top of the stack.                            *)
LEMMA CallStep ==
  ASSUME NEW is, NEW main, NEW p, Good(is, main, p),
         NEW F, NEW st, NEW hd, NEW rb, NEW c, Control(is, p, F, st, hd, rb, c), Words(st),
         is[c + 1].op \in {"CALL", "CALL_VALUE"},
         NEW e \in Entries(is, p), Fits(is, e, p[c].height)
  PROVE  \E G : Control(is, p, G, Append(st, RetTo(c + 1)), hd, rb, e)
<1>1. PICK n, in, st2 : n = Len(F) /\ in = is[c + 1] /\ st2 = Append(st, RetTo(c + 1))
  OBVIOUS
<1>2. /\ ~ IsEntry(is[c + 1]) /\ c + 1 \in Successors(c, is[c + 1]) /\ Moves(is[c + 1]) = 0
      /\ is[c + 1].op \notin {"TRY", "UNTRY"}
  BY <1>1 DEF IsEntry, Successors, Moves
<1>3. /\ n \in 2 .. n /\ c \in DOMAIN p /\ Len(st) = rb + p[c].height /\ rb = F[n].base /\ F[n] \in FrameRec
      /\ p[c].height \in Nat
  BY <1>1, <1>2, InBodyFacts
<1>4. \A j \in 2 .. n : LinkKept(F, j, st, st)
  BY DEF LinkKept
<1>5. Len(st) \in Nat /\ Len(st) = Len(st) + Moves(is[c + 1])
  BY <1>2, WordsTyped
<1>6. PICK G : Control(is, p, G, st, hd, rb, c + 1)
  BY <1>1, <1>2, <1>4, <1>5, LocalStep
<1>7. PICK m : m = Len(G)
  OBVIOUS
<1>8. c + 1 \in Body(is, p) /\ ~ IsEntry(is[(c + 1) + 1])
  BY <1>2, <1>3, NextFacts DEF Body
<1>9. m \in 2 .. m /\ G[m].pc = c + 1 /\ rb = G[m].base /\ Len(st) = rb + p[c + 1].height /\ p[c + 1].height \in Nat
  BY <1>6, <1>7, <1>8, InBodyFacts
<1>10. Frames(is, p, G) /\ Links(G, st) /\ Guards(p, G, hd) /\ G[m] \in FrameRec
  BY <1>6, <1>7, <1>9, FrameFacts DEF Control
<1>11. G[m].top = G[m].base + p[c + 1].height
  BY <1>7, <1>9, <1>10, FrameFacts
<1>12. G[m].top = Len(st) /\ G[m].top - G[m].base = p[c].height
  <2>1. rb \in Nat
    BY <1>9, <1>10 DEF FrameRec
  <2>2. QED BY ONLY <1>3, <1>9, <1>11, <2>1
<1>13. Len(st2) = Len(st) + 1 /\ st2[Len(st) + 1] = RetTo(c + 1) /\ \A i \in 1 .. Len(st) : st2[i] = st[i]
  BY <1>1, AppendedFacts
<1>14. \A k \in 2 .. m : LinkKept(G, k, st, st2)
  <2>1. \A i \in 1 .. G[m].base : i \in 1 .. Len(st)
    BY SMTT(40), <1>9, <1>10 DEF FrameRec
  <2>2. \A i \in 1 .. G[m].base : st2[i] = st[i]
    BY <1>13, <2>1
  <2>3. QED BY <1>6, <1>7, <1>9, <2>2, LowWords
<1>15. Links(G, st2)
  BY <1>7, <1>10, <1>14 DEF Links, LinkKept
<1>16. m # 1
  BY <1>9
<1>17. AtEntry(is, p, G, st2, e)
  BY <1>7, <1>9, <1>12, <1>13, <1>16 DEF AtEntry
<1>18. Control(is, p, G, st2, hd, rb, e)
  BY <1>7, <1>9, <1>10, <1>15, <1>17 DEF Control
<1>19. QED BY <1>1, <1>18

LEMMA AtEntryFacts ==
  ASSUME NEW is, NEW main, NEW p, Good(is, main, p),
         NEW F, NEW st, NEW hd, NEW rb, NEW c, Control(is, p, F, st, hd, rb, c), IsEntry(is[c + 1])
  PROVE  /\ AtEntry(is, p, F, st, c) /\ c \in Entries(is, p)
         /\ Len(F) \in Nat /\ Len(F) # 0 /\ F[Len(F)] \in FrameRec
<1>1. Frames(is, p, F)
  BY DEF Control
<1>2. Len(F) \in Nat /\ Len(F) # 0
  BY <1>1, LenProperties, EmptySeq DEF Frames
<1>3. ~ InBody(F, st, c)
  <2>1. Len(F) >= 2 => Len(F) \in 2 .. Len(F)
    BY <1>2
  <2>2. Len(F) >= 2 => F[Len(F)].pc \in Body(is, p)
    BY <1>1, <2>1 DEF Frames, Framed
  <2>3. QED BY <2>2 DEF InBody, Body
<1>4. Len(F) \in 1 .. Len(F)
  BY <1>2
<1>5. QED BY <1>1, <1>2, <1>3, <1>4, FrameGrows DEF Control, AtEntry

(* The prologue sets up the frame.                                         *)
LEMMA EnterStep ==
  ASSUME NEW is, NEW main, NEW p, Good(is, main, p),
         NEW F, NEW st, NEW hd, NEW rb, NEW c, Control(is, p, F, st, hd, rb, c), Words(st),
         is[c + 1].op = "ENTER", NEW x
  PROVE  \E G : Control(is, p, G, (st \o <<RbpOf(rb), x>>) \o [k \in 1 .. is[c + 1].i - 1 |-> Junk], hd,
                        Len(st) + 1, c + 1)
<1>1. PICK n, w, st2 :
        n = Len(F) /\ w = is[c + 1].i /\ st2 = (st \o <<RbpOf(rb), x>>) \o [k \in 1 .. is[c + 1].i - 1 |-> Junk]
  OBVIOUS
<1>2. Frames(is, p, F) /\ Links(F, st) /\ Guards(p, F, hd) /\ rb = F[n].base
  BY <1>1 DEF Control
<1>3. n \in Nat /\ n # 0 /\ F[1] = Ground
  BY <1>1, <1>2, LenProperties, EmptySeq DEF Frames
<1>4. AtEntry(is, p, F, st, c) /\ c \in Entries(is, p)
  BY AtEntryFacts DEF IsEntry
<1>5. /\ Len(st) = F[n].top + 1 /\ st[Len(st)] = RetTo(F[n].pc) /\ Fits(is, c, F[n].top - F[n].base)
  BY <1>1, <1>4 DEF AtEntry
<1>6. c \in DOMAIN p /\ p[c].height = 0 /\ p[c].entry = c /\ p[c].tries = <<>> /\ w > 0 /\ w \in Int
  BY <1>1, <1>4, EntryFacts, PlannedFacts
<1>7. c + 1 \in Successors(c, is[c + 1]) /\ Moves(is[c + 1]) = w
  BY <1>1 DEF Successors, Moves
<1>8. /\ c + 1 \in Body(is, p) /\ p[c + 1].entry = c /\ p[c + 1].height = w /\ p[c + 1].tries = <<>>
  <2>1. /\ c + 1 \in Body(is, p) /\ p[c + 1].entry = p[c].entry
        /\ p[c + 1].height = p[c].height + w /\ p[c + 1].tries = Opened(p[c].tries, is[c + 1])
    BY <1>6, <1>7, NextFacts
  <2>2. Opened(p[c].tries, is[c + 1]) = p[c].tries
    BY DEF Opened
  <2>3. QED BY <1>6, <2>1, <2>2
<1>9. F[n] \in FrameRec /\ n \in 1 .. n /\ n \in 1 .. Len(F)
  BY <1>1, <1>2, <1>3, FrameGrows
<1>10. F[n].top % 2 = 0
  <2>1. CASE n = 1
    BY <1>3, <2>1 DEF Ground
  <2>2. CASE n # 1
    <3>1. n \in 2 .. Len(F)
      BY <1>1, <1>3, <2>2
    <3>2. F[n].base % 2 = 0 /\ F[n].pc \in DOMAIN p /\ F[n].top = F[n].base + p[F[n].pc].height
      BY <1>2, <3>1, FrameFacts DEF Frames, Framed
    <3>3. PICK b, h : b = F[n].base /\ h = p[F[n].pc].height
      OBVIOUS
    <3>4. b \in Nat /\ h \in Nat /\ b % 2 = 0 /\ h % 2 = 0 /\ F[n].top = b + h
      BY <1>9, <3>2, <3>3, PlannedFacts DEF FrameRec
    <3>5. (b + h) % 2 = 0
      BY ONLY <3>4
    <3>6. QED BY <3>4, <3>5
  <2>3. QED BY <2>1, <2>2
<1>11. PICK G : G = Deeper(p, F, n, c + 1)
  OBVIOUS
<1>12. Fits(is, p[c + 1].entry, F[n].top - F[n].base)
  BY <1>5, <1>8
<1>13. /\ Frames(is, p, G) /\ Len(G) = n + 1
       /\ G[n + 1] = FrameOf(p, F[n].top + 2, F[n].hn, c + 1)
       /\ \A k \in 1 .. n : G[k] = F[k]
  <2>1. Good(is, main, p) /\ n = Len(F)
    BY <1>1
  <2>2. QED BY ONLY <1>2, <1>8, <1>10, <1>11, <1>12, <2>1, DeeperFacts
<1>14. PICK s : s = Len(st)
  OBVIOUS
<1>15. s \in Nat /\ F[n].top + 1 = s /\ F[n].top + 2 = s + 1 /\ F[n].hn \in Nat /\ F[n].base \in Nat /\ F[n].top \in Nat
  <2>1. F[n].hn \in Nat /\ F[n].base \in Nat /\ F[n].top \in Nat
    BY ONLY <1>9 DEF FrameRec
  <2>2. PICK t : t = F[n].top
    OBVIOUS
  <2>3. t \in Nat /\ s = t + 1
    BY ONLY <1>5, <1>14, <2>1, <2>2
  <2>4. QED BY ONLY <2>1, <2>2, <2>3
<1>16. /\ G[n + 1].base = s + 1 /\ G[n + 1].top = (s + 1) + w /\ G[n + 1].pc = c + 1
       /\ G[n + 1].hs = F[n].hn /\ G[n + 1].hn = F[n].hn
  <2>1. PICK b, k, r : b = F[n].top + 2 /\ k = F[n].hn /\ r = G[n + 1]
    OBVIOUS
  <2>2. r = FrameOf(p, b, k, c + 1)
    BY ONLY <1>13, <2>1
  <2>3. /\ r.base = b /\ r.top = b + p[c + 1].height /\ r.pc = c + 1
        /\ r.hs = k /\ r.hn = k + Len(p[c + 1].tries)
    BY ONLY <2>2 DEF FrameOf
  <2>4. p[c + 1].height = w /\ Len(p[c + 1].tries) = 0
    BY ONLY <1>8
  <2>5. b = s + 1 /\ k \in Nat
    BY ONLY <1>15, <2>1
  <2>6. r.hn = k
    BY ONLY <2>3, <2>4, <2>5
  <2>7. r.top = (s + 1) + w
    BY ONLY <2>3, <2>4, <2>5
  <2>8. QED BY ONLY <2>1, <2>3, <2>5, <2>6, <2>7
<1>17. Len(st2) = (s + 1) + w /\ st2[s + 1] = RbpOf(rb) /\ \A i \in 1 .. s : st2[i] = st[i]
  <2>1. PICK r, q, u : r = <<RbpOf(rb), x>> /\ q = [k \in 1 .. w - 1 |-> Junk] /\ u = st \o r
    OBVIOUS
  <2>2. Words(r) /\ Len(r) = 2 /\ r[1] = RbpOf(rb)
    <3>1. r \in Seq({RbpOf(rb), x})
      BY <2>1
    <3>2. QED BY <2>1, <3>1 DEF Words
  <2>3. Words(q) /\ Len(q) = w - 1
    <3>1. w - 1 \in Nat
      BY <1>6
    <3>2. q \in Seq({Junk})
      BY <2>1, <3>1
    <3>3. Len(q) = w - 1
      BY <2>1, <3>1, <3>2, LenProperties
    <3>4. QED BY <3>2, <3>3 DEF Words
  <2>4. /\ Words(u) /\ Len(u) = s + 2 /\ \A i \in 1 .. s : u[i] = st[i]
        /\ \A i \in 1 .. 2 : u[s + i] = r[i]
    <3>1. Words(st) /\ Words(r)
      BY <2>2
    <3>2. /\ Words(st \o r) /\ Len(st \o r) = Len(st) + Len(r) /\ \A i \in 1 .. Len(st) : (st \o r)[i] = st[i]
          /\ \A i \in 1 .. Len(r) : (st \o r)[Len(st) + i] = r[i]
      BY ONLY <3>1, JoinedFacts
    <3>3. st \o r = u
      BY <2>1
    <3>4. QED BY ONLY <1>14, <2>2, <3>2, <3>3
  <2>5. Len(u \o q) = Len(u) + Len(q) /\ \A i \in 1 .. Len(u) : (u \o q)[i] = u[i]
    <3>1. Words(u) /\ Words(q)
      BY ONLY <2>3, <2>4
    <3>2. QED BY ONLY <3>1, JoinedFacts
  <2>6. st2 = u \o q
    BY <1>1, <2>1
  <2>7. Len(st2) = (s + 1) + w
    <3>1. Len(st2) = (s + 2) + (w - 1)
      BY ONLY <2>3, <2>4, <2>5, <2>6
    <3>2. QED BY ONLY <1>6, <1>15, <3>1
  <2>8. \A i \in 1 .. s + 2 : st2[i] = u[i]
    BY <2>4, <2>5, <2>6
  <2>9. st2[s + 1] = RbpOf(rb)
    <3>1. s + 1 \in 1 .. s + 2 /\ 1 \in 1 .. 2
      BY <1>15
    <3>2. QED BY <2>2, <2>4, <2>8, <3>1
  <2>10. \A i \in 1 .. s : st2[i] = st[i]
    BY <1>15, <2>4, <2>8
  <2>11. QED BY <2>7, <2>9, <2>10
<1>18. ASSUME NEW k \in 2 .. n + 1
       PROVE  st2[G[k].base] = RbpOf(G[k - 1].base) /\ st2[G[k].base - 1] = RetTo(G[k - 1].pc)
  <2>1. k - 1 \in 1 .. n
    BY <1>3
  <2>2. G[k - 1] = F[k - 1]
    BY <1>13, <2>1
  <2>3. CASE k = n + 1
    <3>1. k - 1 = n /\ (s + 1) - 1 = s /\ s \in 1 .. s
      BY <1>3, <1>15, <2>3
    <3>2. st2[s] = RetTo(F[n].pc)
      BY <1>5, <1>14, <1>17, <3>1
    <3>3. QED BY <1>2, <1>16, <1>17, <2>2, <2>3, <3>1, <3>2
  <2>4. CASE k # n + 1
    <3>1. k \in 2 .. n /\ k \in 1 .. n /\ n \in 2 .. n
      BY <1>3, <2>4
    <3>2. \A i \in 1 .. F[n].base : i \in 1 .. s
      <4>1. F[n].base <= F[n].top
        BY <1>2, <1>9, FrameGrows
      <4>2. QED BY ONLY <1>15, <4>1
    <3>3. \A i \in 1 .. F[n].base : st2[i] = st[i]
      BY <1>17, <3>2
    <3>4. LinkKept(F, k, st, st2)
      BY <1>1, <3>1, <3>3, LowWords
    <3>5. st[F[k].base] = RbpOf(F[k - 1].base) /\ st[F[k].base - 1] = RetTo(F[k - 1].pc)
      BY <1>1, <1>2, <3>1 DEF Links
    <3>6. G[k] = F[k]
      BY <1>13, <3>1
    <3>7. QED BY <2>2, <3>4, <3>5, <3>6 DEF LinkKept
  <2>5. QED BY <2>3, <2>4
<1>19. Links(G, st2)
  BY <1>13, <1>18 DEF Links
<1>20. Guards(p, G, hd)
  <2>1. Len(hd) = G[Len(G)].hn
    BY <1>1, <1>2, <1>13, <1>16 DEF Guards
  <2>2. ASSUME NEW k \in 2 .. n + 1, NEW t \in 1 .. Len(p[G[k].pc].tries)
        PROVE  hd[G[k].hs + t] = HandlerOf(p, G[k].base, p[G[k].pc].tries[t])
    <3>1. k # n + 1
      <4>1. Len(<<>>) = 0 /\ 1 .. 0 = {}
        OBVIOUS
      <4>2. QED BY <1>8, <1>16, <2>2, <4>1
    <3>2. k \in 2 .. n /\ k \in 1 .. n
      BY <1>3, <3>1
    <3>3. G[k] = F[k]
      BY <1>13, <3>2
    <3>4. QED BY <1>1, <1>2, <2>2, <3>2, <3>3 DEF Guards
  <2>3. QED BY <1>13, <2>1, <2>2 DEF Guards
<1>21. InBody(G, st2, c + 1)
  <2>1. n + 1 >= 2
    BY <1>3
  <2>2. QED BY <1>13, <1>16, <1>17, <2>1 DEF InBody
<1>22. Control(is, p, G, st2, hd, s + 1, c + 1)
  BY <1>13, <1>16, <1>19, <1>20, <1>21 DEF Control
<1>23. QED BY <1>1, <1>14, <1>22

(* A library function called through a closure comes back at once.         *)
LEMMA TrampolineStep ==
  ASSUME NEW is, NEW main, NEW p, Good(is, main, p),
         NEW F, NEW st, NEW hd, NEW rb, NEW c, Control(is, p, F, st, hd, rb, c), Words(st),
         is[c + 1].op = "TRAMPOLINE"
  PROVE  Control(is, p, F, SubSeq(st, 1, Len(st) - 1), hd, rb, st[Len(st)].v)
<1>1. PICK n, st2 : n = Len(F) /\ st2 = SubSeq(st, 1, Len(st) - 1)
  OBVIOUS
<1>2. /\ c \in Entries(is, p) /\ Len(st) = F[n].top + 1 /\ st[Len(st)] = RetTo(F[n].pc) /\ n # 1
      /\ n \in Nat /\ n # 0 /\ F[n] \in FrameRec
  <2>1. IsEntry(is[c + 1]) /\ is[c + 1].op # "ENTER"
    BY DEF IsEntry
  <2>2. /\ AtEntry(is, p, F, st, c) /\ c \in Entries(is, p)
        /\ Len(F) \in Nat /\ Len(F) # 0 /\ F[Len(F)] \in FrameRec
    BY <2>1, AtEntryFacts
  <2>3. QED BY <1>1, <2>1, <2>2 DEF AtEntry
<1>3. n \in 2 .. n /\ n \in 1 .. n /\ n >= 2
  BY <1>2
<1>4. Frames(is, p, F) /\ Links(F, st) /\ Guards(p, F, hd) /\ rb = F[n].base
  BY <1>1 DEF Control
<1>5. F[n].top \in Nat /\ F[n].base \in Nat /\ F[n].base <= F[n].top
  BY <1>1, <1>2, <1>3, <1>4, FrameGrows DEF FrameRec
<1>6. Len(st2) = F[n].top /\ \A i \in 1 .. F[n].top : st2[i] = st[i]
  <2>1. Len(st) - 1 = F[n].top /\ F[n].top \in 0 .. Len(st)
    BY <1>2, <1>5
  <2>2. QED BY <1>1, <2>1, CutFacts
<1>7. \A k \in 2 .. n : LinkKept(F, k, st, st2)
  <2>1. \A i \in 1 .. F[n].base : i \in 1 .. F[n].top
    BY <1>5
  <2>2. \A i \in 1 .. F[n].base : st2[i] = st[i]
    BY <1>6, <2>1
  <2>3. QED BY <1>1, <1>3, <2>2, LowWords
<1>8. Links(F, st2)
  BY <1>1, <1>4, <1>7 DEF Links, LinkKept
<1>9. st[Len(st)].v = F[n].pc
  BY <1>2 DEF RetTo
<1>10. InBody(F, st2, F[n].pc)
  BY <1>1, <1>3, <1>6 DEF InBody
<1>11. Control(is, p, F, st2, hd, rb, F[n].pc)
  BY <1>1, <1>4, <1>8, <1>10 DEF Control
<1>12. QED BY <1>1, <1>9, <1>11

(* Control goes on in some frame, which is the last one again: after a     *)
(* return in the one before, after a throw in that of the handler.         *)
Agrees(s, t, n) == \A i \in 1 .. n : t[i] = s[i]

LEMMA BackStep ==
  ASSUME NEW is, NEW main, NEW p, Good(is, main, p),
         NEW F, NEW st, NEW hd, NEW rb, NEW c, Control(is, p, F, st, hd, rb, c),
         NEW m \in 2 .. Len(F), NEW a \in Body(is, p), p[a].entry = p[F[m].pc].entry,
         NEW st2, Len(st2) = F[m].base + p[a].height, Agrees(st, st2, F[m].base),
         NEW hd2, Owns(p, F[m].base, F[m].hs, a, hd2), Agrees(hd, hd2, F[m].hs)
  PROVE  \E G : Control(is, p, G, st2, hd2, F[m].base, a)
<1>1. /\ Frames(is, p, F) /\ Links(F, st) /\ Guards(p, F, hd)
      /\ (\A i \in 1 .. F[m].base : st2[i] = st[i]) /\ (\A j \in 1 .. F[m].hs : hd2[j] = hd[j])
  BY DEF Control, Agrees
<1>2. \A k \in 2 .. m : LinkKept(F, k, st, st2)
  <2>1. /\ Good(is, main, p) /\ Control(is, p, F, st, hd, rb, c) /\ m \in 2 .. Len(F)
        /\ \A i \in 1 .. F[m].base : st2[i] = st[i]
    BY <1>1
  <2>2. QED BY ONLY <2>1, LowWords
<1>3. PICK G : G = Back(p, F, m, a)
  OBVIOUS
<1>4. /\ Frames(is, p, G) /\ Len(G) = m /\ G[m] = FrameOf(p, F[m].base, F[m].hs, a)
      /\ \A k \in 1 .. m : G[k].base = F[k].base /\ G[k].hs = F[k].hs
  BY <1>1, <1>3, BackFacts
<1>5. Links(G, st2)
  BY <1>1, <1>2, <1>3, LinksBack
<1>6. Guards(p, G, hd2)
  BY <1>1, <1>3, GuardsBack
<1>7. G[m].base = F[m].base /\ G[m].pc = a /\ G[m].top = F[m].base + p[a].height /\ m >= 2
  BY <1>1, <1>4 DEF FrameOf
<1>8. InBody(G, st2, a)
  BY <1>4, <1>7 DEF InBody
<1>9. QED BY <1>4, <1>5, <1>6, <1>7, <1>8 DEF Control

LEMMA ReturnStep ==
  ASSUME NEW is, NEW main, NEW p, Good(is, main, p),
         NEW F, NEW st, NEW hd, NEW rb, NEW c, Control(is, p, F, st, hd, rb, c), Words(st), Words(hd),
         is[c + 1].op = "RET"
  PROVE  \/ /\ st[rb - 1].v = 0 - 1 /\ st[rb].v = 0
            /\ SubSeq(st, 1, rb - 2) = <<>> /\ hd = <<>>
         \/ /\ st[rb - 1].v # 0 - 1
            /\ \E G : Control(is, p, G, SubSeq(st, 1, rb - 2), hd, st[rb].v, st[rb - 1].v)
<1>1. PICK n, st2 : n = Len(F) /\ st2 = SubSeq(st, 1, rb - 2)
  OBVIOUS
<1>2. /\ n \in 2 .. n /\ n \in Nat /\ F[n] \in FrameRec /\ F[n].pc = c /\ rb = F[n].base /\ c \in DOMAIN p
      /\ p[c].height \in Nat /\ Len(st) = rb + p[c].height /\ Owns(p, F[n].base, F[n].hs, c, hd)
  BY <1>1, InBodyFacts DEF IsEntry
<1>3. PICK m : m = n - 1
  OBVIOUS
<1>4. Frames(is, p, F) /\ Links(F, st) /\ Guards(p, F, hd)
  BY DEF Control
<1>5. /\ F[n].base = F[m].top + 2 /\ F[n].hs = F[m].hn /\ F[m] \in FrameRec /\ m \in 1 .. n /\ m \in Nat /\ n = m + 1
      /\ st[rb] = RbpOf(F[m].base) /\ st[rb - 1] = RetTo(F[m].pc)
  BY <1>1, <1>2, <1>3, <1>4, FrameFacts DEF Frames, Links
<1>6. Len(hd) = F[m].hn
  <2>1. p[c].tries = <<>>
    BY <1>2 DEF Good, Balances, Planned
  <2>2. Len(<<>>) = 0 /\ F[n].hs \in Nat
    BY <1>2 DEF FrameRec
  <2>3. QED BY <1>2, <1>5, <2>1, <2>2 DEF Owns
<1>7. st[rb].v = F[m].base /\ st[rb - 1].v = F[m].pc
  BY <1>5 DEF RbpOf, RetTo
<1>8. rb - 2 = F[m].top /\ F[m].top \in 0 .. Len(st) /\ F[m].top \in Nat /\ F[m].base \in Nat /\ F[m].base <= F[m].top
  <2>1. F[m].top \in Nat /\ F[m].base \in Nat
    BY <1>5 DEF FrameRec
  <2>2. F[m].base <= F[m].top
    BY <1>1, <1>4, <1>5, FrameGrows
  <2>3. PICK a, b, l, h : a = F[m].top /\ b = F[m].base /\ l = Len(st) /\ h = p[c].height
    OBVIOUS
  <2>4. a \in Nat /\ b \in Nat /\ b <= a /\ h \in Nat /\ rb = a + 2 /\ l = rb + h
    BY ONLY <1>2, <1>5, <2>1, <2>2, <2>3
  <2>5. rb - 2 = a /\ a \in 0 .. l
    BY ONLY <2>4
  <2>6. QED BY ONLY <2>3, <2>4, <2>5
<1>9. Len(st2) = F[m].top /\ \A i \in 1 .. F[m].top : st2[i] = st[i]
  BY <1>1, <1>8, CutFacts
<1>10. CASE m = 1
  <2>1. F[m] = Ground
    BY <1>4, <1>10 DEF Frames
  <2>2. F[m].top = 0 /\ F[m].base = 0 /\ F[m].pc = 0 - 1 /\ F[m].hn = 0
    BY <2>1 DEF Ground
  <2>3. hd = <<>>
    BY <1>6, <2>2, EmptySeq DEF Words
  <2>4. st2 = <<>>
    <3>1. Words(st2)
      BY <1>1, <1>8, CutFacts
    <3>2. QED BY <1>9, <2>2, <3>1, EmptySeq DEF Words
  <2>5. QED BY <1>1, <1>7, <2>2, <2>3, <2>4
<1>11. CASE m # 1
  <2>1. m \in 2 .. n /\ m \in 2 .. Len(F)
    BY ONLY <1>1, <1>5, <1>11
  <2>2. F[m].pc \in Body(is, p) /\ F[m].pc \in Nat /\ F[m].top = F[m].base + p[F[m].pc].height
        /\ F[m].hn = F[m].hs + Len(p[F[m].pc].tries) /\ F[m].hs \in Nat
    <3>1. F[m].pc \in Body(is, p)
      BY <1>4, <2>1 DEF Frames, Framed
    <3>2. F[m].pc \in Nat /\ F[m].top = F[m].base + p[F[m].pc].height /\ F[m].hn = F[m].hs + Len(p[F[m].pc].tries)
      BY <1>4, <2>1, FrameFacts
    <3>3. F[m].hs \in Nat
      BY <1>5 DEF FrameRec
    <3>4. QED BY <3>1, <3>2, <3>3
  <2>3. PICK a : a = F[m].pc
    OBVIOUS
  <2>4. Owns(p, F[m].base, F[m].hs, a, hd)
    BY <1>4, <1>6, <2>1, <2>2, <2>3 DEF Owns, Guards
  <2>5. Len(st2) = F[m].base + p[a].height /\ \A i \in 1 .. F[m].base : st2[i] = st[i]
    BY <1>8, <1>9, <2>2, <2>3
  <2>6. a # 0 - 1
    BY <2>2, <2>3
  <2>7. \E G : Control(is, p, G, st2, hd, F[m].base, a)
    <3>1. Good(is, main, p) /\ Control(is, p, F, st, hd, rb, c)
      BY <1>1
    <3>2. a \in Body(is, p) /\ p[a].entry = p[F[m].pc].entry
      BY <2>2, <2>3
    <3>3. Len(st2) = F[m].base + p[a].height
      BY ONLY <2>5
    <3>4. Agrees(st, st2, F[m].base) /\ Agrees(hd, hd, F[m].hs)
      BY <2>5 DEF Agrees
    <3>5. QED BY ONLY <2>1, <2>4, <3>1, <3>2, <3>3, <3>4, BackStep
  <2>8. QED BY <1>1, <1>7, <2>3, <2>6, <2>7
<1>12. QED BY <1>10, <1>11

(* A throw cuts the stack back to the frame whose try the last handler     *)
(* belongs to, however many frames are above it.                           *)
LEMMA ThrowStep ==
  ASSUME NEW is, NEW main, NEW p, Good(is, main, p),
         NEW F, NEW st, NEW hd, NEW rb, NEW c, Control(is, p, F, st, hd, rb, c), Words(st), Words(hd),
         hd # <<>>, ~ IsEntry(is[c + 1]), NEW h, h = hd[Len(hd)]
  PROVE  /\ h.rsp \in 0 .. Len(st)
         /\ \E G : Control(is, p, G, SubSeq(st, 1, h.rsp), SubSeq(hd, 1, Len(hd) - 1), h.rbp, h.pc)
<1>1. PICK n, l : n = Len(F) /\ l = Len(hd)
  OBVIOUS
<1>2. Frames(is, p, F) /\ Links(F, st) /\ Guards(p, F, hd) /\ Len(hd) = F[n].hn
  BY <1>1 DEF Control, Guards
<1>3. n \in Nat /\ n \in 2 .. n /\ F[n] \in FrameRec
  BY <1>1, InBodyFacts
<1>4. l \in Nat /\ l # 0
  <2>1. l \in Nat /\ (l = 0 => hd = <<>>)
    BY <1>1, EmptySeq, LenProperties DEF Words
  <2>2. QED BY <2>1
<1> DEFINE U == {k \in 1 .. n : F[k].hs < l}
<1>5. PICK m \in U : \A k \in U : m >= k
  <2>1. U \in SUBSET (0 .. n)
    BY <1>3
  <2>2. 1 \in U
    BY <1>2, <1>3, <1>4 DEF Frames, Ground
  <2>3. U # {}
    BY <2>2
  <2> HIDE DEF U
  <2>4. QED BY ONLY <1>3, <2>1, <2>3, GreatestElement
<1>6. m \in 1 .. n /\ F[m].hs < l /\ F[m] \in FrameRec /\ m \in Nat
  BY <1>1, <1>2, <1>3, <1>5, FrameGrows
<1>7. F[m].hn = l
  <2>1. CASE m = n
    BY <1>1, <1>2, <2>1
  <2>2. CASE m # n
    <3>1. m + 1 \in 2 .. n /\ m + 1 \in 1 .. n /\ ~ (m >= m + 1) /\ (m + 1) - 1 = m
      BY ONLY <1>3, <1>6, <2>2
    <3>2. m + 1 \notin U
      BY <1>5, <3>1
    <3>3. ~ (F[m + 1].hs < l)
      BY <3>1, <3>2
    <3>4. F[m + 1].hs = F[m].hn
      BY <1>1, <1>2, <3>1 DEF Frames
    <3>5. n \in 1 .. n /\ m < n
      BY ONLY <1>3, <1>6, <2>2
    <3>6. F[m].hn <= F[n].hs /\ F[n].hs <= F[n].hn
      BY <1>1, <1>2, <1>6, <3>5, FrameGrows DEF Frames
    <3>7. F[m].hn \in Nat /\ F[n].hs \in Nat /\ F[n].hn \in Nat
      BY <1>3, <1>6 DEF FrameRec
    <3>8. F[n].hn = l
      BY <1>1, <1>2
    <3>9. QED BY ONLY <1>4, <3>3, <3>4, <3>6, <3>7, <3>8
  <2>3. QED BY <2>1, <2>2
<1> HIDE DEF U
<1>8. m \in 2 .. n /\ m \in 2 .. Len(F)
  <2>1. m # 1
    BY <1>2, <1>4, <1>7 DEF Frames, Ground
  <2>2. QED BY ONLY <1>1, <1>6, <2>1
<1>9. PICK t, b, k, q : t = Len(p[F[m].pc].tries) /\ b = F[m].base /\ k = F[m].hs /\ q = p[F[m].pc].tries
  OBVIOUS
<1>10. /\ t \in Nat /\ F[m].hn = k + t /\ F[m].pc \in DOMAIN p /\ k \in Nat /\ b \in Nat
       /\ q \in Seq(DOMAIN p) /\ t = Len(q)
  <2>1. /\ F[m].pc \in DOMAIN p /\ p[F[m].pc] \in [height : Nat, entry : DOMAIN p, tries : Seq(DOMAIN p)]
        /\ Len(p[F[m].pc].tries) \in Nat /\ F[m].hn = F[m].hs + Len(p[F[m].pc].tries)
    BY <1>2, <1>8, FrameFacts
  <2>2. QED BY <1>6, <1>9, <2>1 DEF FrameRec
<1>11. l = k + t /\ t \in 1 .. t /\ t - 1 \in 0 .. t
  BY ONLY <1>4, <1>6, <1>7, <1>9, <1>10
<1>12. PICK a : a = q[t]
  OBVIOUS
<1>13. /\ a \in Body(is, p) /\ p[a].entry = p[F[m].pc].entry /\ p[a].height <= p[F[m].pc].height
       /\ p[a].tries = SubSeq(q, 1, t - 1)
  <2>1. Good(is, main, p) /\ F[m].pc \in DOMAIN p /\ t \in 1 .. Len(p[F[m].pc].tries) /\ a = p[F[m].pc].tries[t]
    BY <1>9, <1>10, <1>11, <1>12
  <2>2. /\ a \in Body(is, p) /\ p[a].entry = p[F[m].pc].entry /\ p[a].height <= p[F[m].pc].height
        /\ p[a].tries = SubSeq(p[F[m].pc].tries, 1, t - 1)
    BY ONLY SMTT(40), <2>1, TryFacts
  <2>3. QED BY <1>9, <2>2
<1>14. h = HandlerOf(p, b, a)
  BY <1>1, <1>2, <1>8, <1>9, <1>11, <1>12 DEF Guards
<1>15. h.rsp = b + p[a].height /\ h.rbp = b /\ h.pc = a
  BY <1>14 DEF HandlerOf
<1>16. PICK st2, hd2 : st2 = SubSeq(st, 1, h.rsp) /\ hd2 = SubSeq(hd, 1, l - 1)
  OBVIOUS
<1>17. p[a].height \in Nat
  BY <1>13, PlannedFacts DEF Body
<1>18. h.rsp \in 0 .. Len(st)
  <2>1. Len(st) \in Nat /\ h.rsp \in Nat
    BY <1>10, <1>15, <1>17, WordsTyped
  <2>2. F[m].top = b + p[F[m].pc].height /\ p[F[m].pc].height \in Nat
    BY <1>2, <1>8, <1>9, FrameFacts
  <2>3. Len(st) = F[n].top
    BY <1>1 DEF Control, InBody, AtEntry, Entries
  <2>4. F[m].top <= F[n].top
    <3>1. CASE m = n
      BY <1>6, <3>1 DEF FrameRec
    <3>2. CASE m # n
      <4>1. n \in 1 .. n /\ m < n
        BY ONLY <1>3, <1>6, <3>2
      <4>2. F[m].top + 2 <= F[n].base /\ F[n].base <= F[n].top
        BY <1>1, <1>2, <1>6, <4>1, FrameGrows DEF Frames
      <4>3. F[m].top \in Nat /\ F[n].base \in Nat /\ F[n].top \in Nat
        BY <1>3, <1>6 DEF FrameRec
      <4>4. QED BY ONLY <4>2, <4>3
    <3>3. QED BY <3>1, <3>2
  <2>5. PICK x, y, z : x = p[a].height /\ y = p[F[m].pc].height /\ z = F[m].top
    OBVIOUS
  <2>6. h.rsp = b + x /\ x <= y /\ z = b + y /\ z <= Len(st) /\ x \in Nat /\ y \in Nat
    BY <1>13, <1>15, <1>17, <2>2, <2>3, <2>4, <2>5
  <2>7. QED BY ONLY <1>10, <2>1, <2>6
<1>19. Len(st2) = b + p[a].height /\ \A i \in 1 .. b : st2[i] = st[i]
  <2>1. Len(st2) = h.rsp /\ \A i \in 1 .. h.rsp : st2[i] = st[i]
    BY <1>16, <1>18, CutFacts
  <2>2. \A i \in 1 .. b : i \in 1 .. h.rsp
    BY ONLY <1>10, <1>15, <1>17
  <2>3. QED BY <1>15, <2>1, <2>2
<1>20. Len(hd2) = l - 1 /\ \A j \in 1 .. l - 1 : hd2[j] = hd[j]
  <2>1. l - 1 \in 0 .. Len(hd)
    BY <1>1, <1>4
  <2>2. QED BY <1>16, <2>1, CutFacts
<1>21. Len(p[a].tries) = t - 1 /\ \A i \in 1 .. t - 1 : p[a].tries[i] = q[i]
  BY <1>10, <1>11, <1>13, InitialPartFacts
<1>22. Owns(p, F[m].base, F[m].hs, a, hd2)
  <2>1. Len(hd2) = k + (t - 1)
    BY ONLY <1>10, <1>11, <1>20
  <2>2. ASSUME NEW i \in 1 .. t - 1 PROVE hd2[k + i] = HandlerOf(p, b, p[a].tries[i])
    <3>1. i \in 1 .. t /\ k + i \in 1 .. l - 1
      BY ONLY <1>10, <1>11, <2>2
    <3>2. hd[k + i] = HandlerOf(p, b, q[i])
      BY <1>2, <1>8, <1>9, <3>1 DEF Guards
    <3>3. QED BY <1>20, <1>21, <3>1, <3>2
  <2>3. QED BY <1>9, <1>21, <2>1, <2>2 DEF Owns
<1>23. \A j \in 1 .. F[m].hs : hd2[j] = hd[j]
  <2>1. \A j \in 1 .. k : j \in 1 .. l - 1
    BY ONLY <1>10, <1>11
  <2>2. QED BY <1>9, <1>20, <2>1
<1>24. \E G : Control(is, p, G, st2, hd2, F[m].base, a)
  <2>1. Good(is, main, p) /\ Control(is, p, F, st, hd, rb, c)
    BY <1>1
  <2>2. Len(st2) = F[m].base + p[a].height
    BY <1>9, <1>19
  <2>3. Agrees(st, st2, F[m].base) /\ Agrees(hd, hd2, F[m].hs)
    BY <1>9, <1>19, <1>23 DEF Agrees
  <2>4. m \in 2 .. Len(F) /\ a \in Body(is, p) /\ p[a].entry = p[F[m].pc].entry
    BY <1>8, <1>13
  <2>5. QED BY ONLY <1>22, <2>1, <2>2, <2>3, <2>4, BackStep
<1>25. /\ st2 = SubSeq(st, 1, h.rsp) /\ hd2 = SubSeq(hd, 1, Len(hd) - 1)
       /\ F[m].base = h.rbp /\ a = h.pc
  BY ONLY <1>1, <1>9, <1>15, <1>16
<1>26. \E G : Control(is, p, G, SubSeq(st, 1, h.rsp), SubSeq(hd, 1, Len(hd) - 1), h.rbp, h.pc)
  BY ONLY <1>24, <1>25
<1>27. QED BY ONLY <1>18, <1>26

-------------------------------------------------------------------------------
(* The machine.                                                            *)
plan == Plan(code, image.entry)

Governed == \E F : Control(code, plan, F, stack, handlers, rbp, pc)

Closures(is, p, f) == \A k \in DOMAIN f : "pc" \in DOMAIN f[k] /\ f[k].pc \in Entries(is, p)

Shaped ==
  /\ image \in Images /\ Balanced(image)
  /\ Words(stack) /\ Words(handlers) /\ Words(fns) /\ Closures(code, plan, fns)

NativeInv == Shaped /\ CleanExit /\ (Running => Governed)

LEMMA CodeGood ==
  ASSUME Shaped
  PROVE  Good(code, image.entry, plan)
BY MachineAssumption DEF Good, Program, Shaped, Balanced, plan, code

(* Most instructions stay in the body, and change the stack in one of four *)
(* ways.                                                                   *)
Kept    == stack' = stack /\ Moves(In) = 0
Taller  == stack' = Push(xmm0) /\ Moves(In) = 2
Cut     == \E k \in Nat : stack' = Without(k) /\ Moves(In) = 0 - k
Written == Writes(In) /\ Moves(In) = 0 /\ \E x : stack' = [stack EXCEPT ![rbp - Target(In)] = x]

Local ==
  /\ Running /\ ~ IsEntry(In) /\ In.op \notin {"TRY", "UNTRY"}
  /\ pc' \in Successors(pc, In) /\ UNCHANGED <<image, rbp, handlers, status>>
  /\ Kept \/ Taller \/ Cut \/ Written

(* What becomes of the closures.                                           *)
Made ==
  \/ fns' = fns
  \/ In.op = "NEW_FN" /\ \E u : fns' = Append(fns, [pc |-> In.i, upvals |-> u])
  \/ \E j, k, b : fns' = [fns EXCEPT ![j].upvals[k] = b]

StillOps ==
  {"IMM", "TEXT", "LOAD", "LOAD_BOX", "LOAD_UPVAL", "STORE_BOX", "STORE_UPVAL", "NEG", "NOT",
   "NEW_ARR", "ARR_PUSH", "NEW_MAP", "PEEK_INDEX", "NEW_FN", "CAPTURE", "CAPTURE_UPVAL", "PRINT", "EXCEPTION"}
WriteOps == {"STORE", "NEW_BOX", "BOX_ARG", "MOVE_ARG"}
BinaryOps == {"POP", "ADD", "SUB", "MUL", "LT", "LE", "GT", "GE", "EQ", "NEQ", "SUBSD", "MULSD", "GET_INDEX"}
GoingOps == StillOps \cup WriteOps \cup BinaryOps \cup {"PUSH", "DROP", "SET_INDEX", "BUILTIN"}

LEMMA StillMoves ==
  ASSUME NEW in, in.op \in StillOps \cup WriteOps \cup {"JMP", "JZ", "JNZ"} PROVE Moves(in) = 0
BY DEF StillOps, WriteOps, Moves

LEMMA BinaryMoves == ASSUME NEW in, in.op \in BinaryOps PROVE Moves(in) = 0 - 2
BY DEF BinaryOps, Moves

LEMMA Going ==
  ASSUME NEW in, NEW a, in.op \in GoingOps
  PROVE  a + 1 \in Successors(a, in) /\ ~ IsEntry(in) /\ in.op \notin {"TRY", "UNTRY"}
BY DEF GoingOps, StillOps, WriteOps, BinaryOps, Successors, IsEntry

LEMMA GoesLocal ==
  ASSUME NEW op \in GoingOps, Exec(op), Goes, UNCHANGED handlers, Kept \/ Taller \/ Cut \/ Written
  PROVE  Local
<1>1. Running /\ In.op = op /\ image' = image /\ pc' = pc + 1 /\ UNCHANGED <<rbp, status>>
  BY DEF Exec, Goes
<1>2. pc + 1 \in Successors(pc, In) /\ ~ IsEntry(In) /\ In.op \notin {"TRY", "UNTRY"}
  BY <1>1, Going
<1>3. QED BY <1>1, <1>2 DEF Local

LEMMA ComputesFacts ==
  ASSUME NEW op, NEW s, NEW x, Computes(op, s, x)
  PROVE  Exec(op) /\ Goes /\ stack' = s /\ UNCHANGED handlers /\ fns' = fns /\ In.op = op
BY DEF Computes, heap, tries, Exec

LEMMA StillSteps ==
  ASSUME IMM \/ TEXT \/ LOAD \/ LOAD_BOX \/ LOAD_UPVAL \/ STORE_BOX \/ STORE_UPVAL \/ NEG \/ NOT
         \/ NEW_ARR \/ ARR_PUSH \/ NEW_MAP \/ PEEK_INDEX \/ NEW_FN \/ CAPTURE \/ CAPTURE_UPVAL \/ PRINT \/ EXCEPTION
  PROVE  Local /\ Made
<1>1. \E op \in StillOps : Exec(op) /\ Goes /\ stack' = stack /\ UNCHANGED handlers
  <2>1. CASE IMM \/ TEXT \/ LOAD \/ LOAD_BOX \/ LOAD_UPVAL \/ NEG \/ NOT \/ PEEK_INDEX \/ EXCEPTION
    <3>1. \E op \in StillOps : \E x : Computes(op, stack, x)
      BY <2>1 DEF IMM, TEXT, LOAD, LOAD_BOX, LOAD_UPVAL, NEG, NOT, PEEK_INDEX, EXCEPTION, StillOps
    <3>2. QED BY <3>1, ComputesFacts
  <2>2. CASE STORE_BOX \/ STORE_UPVAL \/ NEW_ARR \/ ARR_PUSH \/ NEW_MAP \/ NEW_FN \/ CAPTURE \/ CAPTURE_UPVAL
    BY <2>2 DEF STORE_BOX, STORE_UPVAL, SetBox, NEW_ARR, ARR_PUSH, NEW_MAP, NEW_FN, CAPTURE, CAPTURE_UPVAL, Capture,
                tries, StillOps
  <2>3. CASE PRINT
    BY <2>3 DEF PRINT, tries, StillOps
  <2>4. QED BY <2>1, <2>2, <2>3
<1>2. PICK op \in StillOps : Exec(op) /\ Goes /\ stack' = stack /\ UNCHANGED handlers
  BY <1>1
<1>3. Moves(In) = 0
  BY <1>2, StillMoves DEF Exec
<1>4. Kept
  BY <1>2, <1>3 DEF Kept
<1>5. Local
  BY <1>2, <1>4, GoesLocal DEF GoingOps
<1>6. Made
  <2>1. CASE IMM \/ TEXT \/ LOAD \/ LOAD_BOX \/ LOAD_UPVAL \/ NEG \/ NOT \/ PEEK_INDEX \/ EXCEPTION
    <3>1. \E o, x : Computes(o, stack, x)
      BY <2>1 DEF IMM, TEXT, LOAD, LOAD_BOX, LOAD_UPVAL, NEG, NOT, PEEK_INDEX, EXCEPTION
    <3>2. QED BY <3>1, ComputesFacts DEF Made
  <2>2. CASE STORE_BOX \/ STORE_UPVAL \/ NEW_ARR \/ ARR_PUSH \/ NEW_MAP
    BY <2>2 DEF STORE_BOX, STORE_UPVAL, SetBox, NEW_ARR, ARR_PUSH, NEW_MAP, Made
  <2>3. CASE PRINT
    BY <2>3 DEF PRINT, heap, Made
  <2>4. CASE NEW_FN
    <3>1. In.op = "NEW_FN" /\ fns' = Append(fns, [pc |-> In.i, upvals |-> [k \in 1 .. In.n |-> 0]])
      BY <2>4 DEF NEW_FN, Exec
    <3>2. QED BY <3>1 DEF Made
  <2>5. CASE CAPTURE \/ CAPTURE_UPVAL
    <3>1. \E b : fns' = [fns EXCEPT ![Slot(0).v].upvals[In.n + 1] = b]
      BY <2>5 DEF CAPTURE, CAPTURE_UPVAL, Capture
    <3>2. QED BY <3>1 DEF Made
  <2>6. QED BY <2>1, <2>2, <2>3, <2>4, <2>5
<1>7. QED BY <1>5, <1>6

LEMMA WriteSteps ==
  ASSUME STORE \/ NEW_BOX \/ BOX_ARG \/ MOVE_ARG
  PROVE  Local /\ Made
<1>1. \E op \in WriteOps : /\ Exec(op) /\ Goes /\ UNCHANGED handlers /\ fns' = fns
                           /\ \E x : stack' = [stack EXCEPT ![rbp - Target(In)] = x]
  <2>1. CASE STORE
    <3>1. Computes("STORE", [stack EXCEPT ![rbp - In.i] = xmm0], xmm0)
      BY <2>1 DEF STORE
    <3>2. /\ Exec("STORE") /\ Goes /\ UNCHANGED handlers /\ fns' = fns /\ In.op = "STORE"
          /\ stack' = [stack EXCEPT ![rbp - In.i] = xmm0]
      BY <3>1, ComputesFacts
    <3>3. Target(In) = In.i
      BY <3>2 DEF Target
    <3>4. QED BY <3>2, <3>3 DEF WriteOps
  <2>2. CASE MOVE_ARG
    <3>1. Computes("MOVE_ARG", [stack EXCEPT ![rbp - In.n] = Slot(In.i)], xmm0)
      BY <2>2 DEF MOVE_ARG
    <3>2. /\ Exec("MOVE_ARG") /\ Goes /\ UNCHANGED handlers /\ fns' = fns /\ In.op = "MOVE_ARG"
          /\ stack' = [stack EXCEPT ![rbp - In.n] = Slot(In.i)]
      BY <3>1, ComputesFacts
    <3>3. Target(In) = In.n
      BY <3>2 DEF Target
    <3>4. QED BY <3>2, <3>3 DEF WriteOps
  <2>3. CASE NEW_BOX \/ BOX_ARG
    <3>1. PICK op \in {"NEW_BOX", "BOX_ARG"} : \E x : NewBox(op, x)
      BY <2>3 DEF NEW_BOX, BOX_ARG
    <3>2. /\ Exec(op) /\ Goes /\ UNCHANGED handlers /\ fns' = fns /\ In.op = op
          /\ \E x : stack' = [stack EXCEPT ![rbp - In.i] = x]
      BY <3>1 DEF NewBox, Exec, tries
    <3>3. Target(In) = In.i
      BY <3>2 DEF Target
    <3>4. QED BY <3>2, <3>3 DEF WriteOps
  <2>4. QED BY <2>1, <2>2, <2>3
<1>2. PICK op \in WriteOps : /\ Exec(op) /\ Goes /\ UNCHANGED handlers /\ fns' = fns
                             /\ \E x : stack' = [stack EXCEPT ![rbp - Target(In)] = x]
  BY <1>1
<1>3. In.op = op
  BY <1>2 DEF Exec
<1>4. Moves(In) = 0 /\ Writes(In)
  BY <1>3, StillMoves DEF WriteOps, Writes
<1>5. Written
  BY <1>2, <1>4 DEF Written
<1>6. Local
  BY <1>2, <1>5, GoesLocal DEF GoingOps
<1>7. QED BY <1>2, <1>6 DEF Made

LEMMA PushStep ==
  ASSUME PUSH
  PROVE  Local /\ Made
<1>1. Exec("PUSH") /\ Goes /\ stack' = Push(xmm0) /\ UNCHANGED handlers /\ fns' = fns /\ In.op = "PUSH"
  BY ComputesFacts DEF PUSH
<1>2. Moves(In) = 2
  BY <1>1 DEF Moves
<1>3. Taller
  BY <1>1, <1>2 DEF Taller
<1>4. Local
  BY <1>1, <1>3, GoesLocal DEF GoingOps
<1>5. QED BY <1>1, <1>4 DEF Made

LEMMA BinarySteps ==
  ASSUME POP \/ ADD \/ SUB \/ MUL \/ LT \/ GT \/ LE \/ GE \/ EQ \/ NEQ \/ SUBSD \/ MULSD \/ GET_INDEX
  PROVE  Local /\ Made
<1>1. \E op \in BinaryOps : \E x : Computes(op, Without(2), x)
  <2>1. CASE POP \/ GET_INDEX
    BY <2>1 DEF POP, GET_INDEX, BinaryOps
  <2>2. CASE ADD \/ SUB \/ MUL \/ LT \/ GT \/ LE
    BY <2>2 DEF ADD, SUB, MUL, LT, GT, LE, Binary, BinaryOps
  <2>3. CASE GE \/ EQ \/ NEQ \/ SUBSD \/ MULSD
    BY <2>3 DEF GE, EQ, NEQ, SUBSD, MULSD, Binary, BinaryOps
  <2>4. QED BY <2>1, <2>2, <2>3
<1>2. PICK op \in BinaryOps : \E x : Computes(op, Without(2), x)
  BY <1>1
<1>3. Exec(op) /\ Goes /\ stack' = Without(2) /\ UNCHANGED handlers /\ fns' = fns /\ In.op = op
  BY <1>2, ComputesFacts
<1>4. Moves(In) = 0 - 2
  BY <1>3, BinaryMoves
<1>5. Cut
  BY <1>3, <1>4 DEF Cut
<1>6. Local
  BY <1>3, <1>5, GoesLocal DEF GoingOps
<1>7. QED BY <1>3, <1>6 DEF Made

(* The instructions that take a number of words off the stack that they    *)
(* name.                                                                   *)
LEMMA DropSteps ==
  ASSUME DROP \/ SET_INDEX, In.i \in Nat
  PROVE  Local /\ Made
<1>1. /\ \E op \in {"DROP", "SET_INDEX"} : Exec(op) /\ In.op = op
      /\ Goes /\ UNCHANGED handlers /\ fns' = fns /\ stack' = Without(2 * In.i)
  <2>1. CASE DROP
    BY <2>1, ComputesFacts DEF DROP
  <2>2. CASE SET_INDEX
    BY <2>2 DEF SET_INDEX, Exec, tries
  <2>3. QED BY <2>1, <2>2
<1>2. PICK op \in {"DROP", "SET_INDEX"} : Exec(op) /\ In.op = op
  BY <1>1
<1>3. Moves(In) = 0 - 2 * In.i
  BY <1>2 DEF Moves
<1>4. PICK k : k = 2 * In.i
  OBVIOUS
<1>5. k \in Nat
  BY <1>4
<1>6. Cut
  BY <1>1, <1>3, <1>4, <1>5 DEF Cut
<1>7. Local
  BY <1>1, <1>2, <1>6, GoesLocal DEF GoingOps
<1>8. QED BY <1>1, <1>7 DEF Made

LEMMA BuiltinStep ==
  ASSUME BUILTIN, Arity(Named(In.i)) \in Nat
  PROVE  Local /\ Made
<1>1. Exec("BUILTIN") /\ UNCHANGED <<rbp, r10, boxes, fns, tries, out, status>>
  BY DEF BUILTIN, Library
<1>2. In.op = "BUILTIN" /\ Goes /\ UNCHANGED handlers /\ fns' = fns /\ stack' = Without(2 * Arity(Named(In.i)))
  BY <1>1 DEF BUILTIN, Exec, Goes, tries
<1>3. Moves(In) = 0 - 2 * Arity(Named(In.i))
  BY <1>2 DEF Moves
<1>4. PICK k : k = 2 * Arity(Named(In.i))
  OBVIOUS
<1>5. k \in Nat
  BY <1>4
<1>6. Cut
  BY <1>2, <1>3, <1>4, <1>5 DEF Cut
<1>7. Local
  BY <1>1, <1>2, <1>6, GoesLocal DEF GoingOps
<1>8. QED BY <1>2, <1>7 DEF Made

LEMMA BranchSteps ==
  ASSUME JMP \/ JZ \/ JNZ
  PROVE  Local /\ Made
<1>1. PICK op \in {"JMP", "JZ", "JNZ"} : \E b : Branch(op, b) /\ (op = "JMP" => b = TRUE)
  BY DEF JMP, JZ, JNZ
<1>2. PICK b : Branch(op, b) /\ (op = "JMP" => b = TRUE)
  BY <1>1
<1>3. /\ Running /\ In.op = op /\ UNCHANGED <<image, rbp, handlers, status>> /\ stack' = stack /\ fns' = fns
      /\ pc' = IF b THEN In.i ELSE pc + 1
  BY <1>2 DEF Branch, Exec, heap, tries
<1>4. pc' \in Successors(pc, In)
  BY <1>2, <1>3 DEF Successors
<1>5. ~ IsEntry(In) /\ In.op \notin {"TRY", "UNTRY"}
  BY <1>3 DEF IsEntry
<1>6. Kept
  BY <1>3, StillMoves DEF Kept
<1>7. QED BY <1>3, <1>4, <1>5, <1>6 DEF Local, Made

LEMMA HereFacts ==
  ASSUME Shaped, Governed
  PROVE  pc \in DOMAIN plan /\ Planned(code, plan, pc) /\ In \in [op : STRING, i : Int, n : Int]
<1>1. PICK F : Control(code, plan, F, stack, handlers, rbp, pc)
  BY DEF Governed
<1>2. Good(code, image.entry, plan)
  BY CodeGood
<1>3. CASE ~ IsEntry(code[pc + 1])
  <2>1. pc \in DOMAIN plan
    BY <1>1, <1>2, <1>3, InBodyFacts
  <2>2. QED BY <1>2, <2>1, PlannedFacts DEF Good, Balances, In
<1>4. CASE IsEntry(code[pc + 1])
  <2>1. pc \in Entries(code, plan)
    BY <1>1, <1>2, <1>4, AtEntryFacts
  <2>2. pc \in DOMAIN plan
    BY <2>1 DEF Entries
  <2>3. QED BY <1>2, <2>2, PlannedFacts DEF Good, Balances, In
<1>5. QED BY <1>3, <1>4

LEMMA ClosureMade ==
  ASSUME NEW is, NEW p, NEW f, Words(f), Closures(is, p, f), NEW e \in Entries(is, p), NEW u
  PROVE  Words(Append(f, [pc |-> e, upvals |-> u])) /\ Closures(is, p, Append(f, [pc |-> e, upvals |-> u]))
<1>1. PICK g, x : x = [pc |-> e, upvals |-> u] /\ g = Append(f, x)
  OBVIOUS
<1>2. Words(g) /\ Len(g) = Len(f) + 1 /\ g[Len(f) + 1] = x /\ \A i \in 1 .. Len(f) : g[i] = f[i]
  BY <1>1, AppendedFacts
<1>3. Len(f) \in Nat /\ DOMAIN f = 1 .. Len(f) /\ DOMAIN g = 1 .. Len(g)
  BY <1>2, WordsTyped
<1>4. ASSUME NEW k \in DOMAIN g PROVE "pc" \in DOMAIN g[k] /\ g[k].pc \in Entries(is, p)
  <2>1. k = Len(f) + 1 \/ k \in 1 .. Len(f)
    BY <1>2, <1>3
  <2>2. QED BY <1>1, <1>2, <1>3, <2>1 DEF Closures
<1>5. QED BY <1>1, <1>2, <1>4 DEF Closures

LEMMA ClosureFilled ==
  ASSUME NEW is, NEW p, NEW f, Words(f), Closures(is, p, f), NEW j, NEW k, NEW b,
         NEW g, g = [f EXCEPT ![j].upvals[k] = b]
  PROVE  Words(g) /\ Closures(is, p, g)
<1>1. PICK x : x = [f[j] EXCEPT !.upvals = [f[j].upvals EXCEPT ![k] = b]]
  OBVIOUS
<1>2. g = [f EXCEPT ![j] = x]
  BY <1>1
<1>3. Words(g)
  <2>1. Words([f EXCEPT ![j] = x])
    BY AssignedFacts
  <2>2. QED BY <1>2, <2>1
<1>4. DOMAIN g = DOMAIN f /\ \A i \in DOMAIN f : g[i] = IF i = j THEN x ELSE f[i]
  BY <1>2
<1>5. "pc" \in DOMAIN f[j] => "pc" \in DOMAIN x /\ x.pc = f[j].pc
  BY <1>1
<1>6. Closures(is, p, g)
  BY <1>4, <1>5 DEF Closures
<1>7. QED BY <1>3, <1>6

LEMMA MadeKept ==
  ASSUME Shaped, Governed, Made
  PROVE  Words(fns') /\ Closures(code, plan, fns')
<1>1. CASE fns' = fns
  BY <1>1 DEF Shaped
<1>2. CASE In.op = "NEW_FN" /\ \E u : fns' = Append(fns, [pc |-> In.i, upvals |-> u])
  <2>1. Planned(code, plan, pc)
    BY HereFacts DEF Shaped
  <2>2. In.i \in DOMAIN plan /\ IsEntry(code[In.i + 1])
    BY <1>2, <2>1 DEF Planned, In
  <2>3. In.i \in Entries(code, plan)
    BY <2>2 DEF Entries
  <2>4. QED BY <1>2, <2>3, ClosureMade DEF Shaped
<1>3. CASE \E j, k, b : fns' = [fns EXCEPT ![j].upvals[k] = b]
  <2>1. PICK j, k, b : fns' = [fns EXCEPT ![j].upvals[k] = b]
    BY <1>3
  <2>2. Words(fns) /\ Closures(code, plan, fns)
    BY DEF Shaped
  <2>3. QED BY ONLY <2>1, <2>2, ClosureFilled
<1>4. QED BY <1>1, <1>2, <1>3 DEF Made

(* An instruction that leaves the executable alone, and the program        *)
(* running.                                                                *)
LEMMA InvKept ==
  ASSUME Shaped, image' = image, Running, status' = status,
         Words(stack'), Words(handlers'), Words(fns'), Closures(code, plan, fns'),
         \E F : Control(code, plan, F, stack', handlers', rbp', pc')
  PROVE  NativeInv'
<1>1. code' = code /\ plan' = plan
  BY DEF code, plan
<1>2. Governed'
  BY <1>1 DEF Governed
<1>3. Shaped'
  BY <1>1 DEF Shaped
<1>4. CleanExit'
  BY DEF CleanExit, Running
<1>5. QED BY <1>2, <1>3, <1>4 DEF NativeInv

LEMMA LocalKept ==
  ASSUME Shaped, Governed, Local, Made
  PROVE  NativeInv'
<1>1. PICK F : Control(code, plan, F, stack, handlers, rbp, pc)
  BY DEF Governed
<1>2. Good(code, image.entry, plan)
  BY CodeGood DEF Shaped
<1>3. PICK n, d, st2, in : n = Len(F) /\ d = pc' /\ st2 = stack' /\ in = code[pc + 1]
  OBVIOUS
<1>4. /\ ~ IsEntry(code[pc + 1]) /\ d \in Successors(pc, code[pc + 1]) /\ code[pc + 1].op \notin {"TRY", "UNTRY"}
      /\ Kept \/ Taller \/ Cut \/ Written
  BY <1>3 DEF Local, In
<1>5. /\ n \in 2 .. n /\ n \in Nat /\ F[n] \in FrameRec /\ rbp = F[n].base /\ pc \in DOMAIN plan
      /\ plan[pc].height \in Nat /\ Len(stack) = rbp + plan[pc].height
  BY <1>1, <1>2, <1>3, <1>4, InBodyFacts
<1>6. d \in Body(code, plan) /\ plan[d].height = plan[pc].height + Moves(in)
  BY <1>2, <1>3, <1>4, <1>5, NextFacts
<1>7. plan[d].height \in Nat /\ rbp \in Nat
  BY <1>2, <1>5, <1>6, PlannedFacts DEF Body, FrameRec
<1>8. PICK h, g, l : h = plan[pc].height /\ g = plan[d].height /\ l = Len(stack)
  OBVIOUS
<1>9. Words(stack) /\ Words(handlers) /\ l \in Nat
  BY <1>8, WordsTyped DEF Shaped
<1>10. ASSUME \A i \in 1 .. rbp : st2[i] = stack[i] PROVE \A k \in 2 .. n : LinkKept(F, k, stack, st2)
  <2>1. \A i \in 1 .. F[n].base : st2[i] = stack[i]
    BY <1>5, <1>10
  <2>2. n \in 2 .. n /\ n = Len(F)
    BY <1>3, <1>5
  <2>3. QED BY ONLY <1>1, <1>2, <2>1, <2>2, LowWords
<1>11. /\ Words(st2) /\ Len(st2) = l + Moves(in)
       /\ \A k \in 2 .. n : LinkKept(F, k, stack, st2)
  <2>1. CASE Kept
    <3>1. st2 = stack /\ Moves(in) = 0
      BY <1>3, <2>1 DEF Kept, In
    <3>2. QED BY <1>8, <1>9, <3>1 DEF LinkKept
  <2>2. CASE Taller
    <3>1. st2 = stack \o <<Junk, xmm0>> /\ Moves(in) = 2
      BY <1>3, <2>2 DEF Taller, Push, In
    <3>2. PICK r : r = <<Junk, xmm0>>
      OBVIOUS
    <3>3. Words(r) /\ Len(r) = 2
      <4>1. r \in Seq({Junk, xmm0})
        BY <3>2
      <4>2. QED BY <3>2, <4>1 DEF Words
    <3>4. Words(st2) /\ Len(st2) = l + 2 /\ \A i \in 1 .. l : st2[i] = stack[i]
      BY <1>8, <1>9, <3>1, <3>2, <3>3, JoinedFacts
    <3>5. \A i \in 1 .. rbp : i \in 1 .. l
      BY ONLY <1>5, <1>7, <1>8
    <3>6. QED BY <1>10, <3>1, <3>4, <3>5
  <2>3. CASE Cut
    <3>1. PICK k \in Nat : st2 = SubSeq(stack, 1, l - k) /\ Moves(in) = 0 - k
      BY <1>3, <1>8, <2>3 DEF Cut, Without, In
    <3>2. l = rbp + h /\ g = h + (0 - k) /\ h \in Nat /\ g \in Nat
      BY <1>5, <1>6, <1>7, <1>8, <3>1
    <3>3. PICK j : j = l - k
      OBVIOUS
    <3>4. j \in 0 .. l /\ rbp <= j /\ j = l + (0 - k)
      BY ONLY <1>7, <1>9, <3>1, <3>2, <3>3
    <3>5. Words(st2) /\ Len(st2) = j /\ \A i \in 1 .. j : st2[i] = stack[i]
      BY <1>8, <1>9, <3>1, <3>3, <3>4, CutFacts
    <3>6. \A i \in 1 .. rbp : i \in 1 .. j
      BY ONLY <1>7, <3>4
    <3>7. QED BY <1>10, <3>1, <3>4, <3>5, <3>6
  <2>4. CASE Written
    <3>1. PICK x : st2 = [stack EXCEPT ![rbp - Target(in)] = x]
      BY <1>3, <2>4 DEF Written, In
    <3>2. Writes(in) /\ Moves(in) = 0
      BY <1>3, <2>4 DEF Written, In
    <3>3. Words(st2) /\ Len(st2) = l
      <4>1. PICK j : j = rbp - Target(in)
        OBVIOUS
      <4>2. Words([stack EXCEPT ![j] = x]) /\ Len([stack EXCEPT ![j] = x]) = Len(stack)
        BY <1>9, AssignedFacts
      <4>3. QED BY <1>8, <3>1, <4>1, <4>2
    <3>4. \A k \in 2 .. n : LinkKept(F, k, stack, st2)
      <4>1. n = Len(F) /\ ~ IsEntry(code[pc + 1]) /\ Writes(code[pc + 1])
        BY <1>3, <1>4, <3>2
      <4>2. st2 = [stack EXCEPT ![rbp - Target(code[pc + 1])] = x] /\ Words(stack)
        BY <1>3, <1>9, <3>1
      <4>3. QED BY ONLY <1>1, <1>2, <4>1, <4>2, WrittenWords
    <3>5. QED BY <1>9, <3>2, <3>3, <3>4
  <2>5. QED BY <1>4, <2>1, <2>2, <2>3, <2>4
<1>12. \E G : Control(code, plan, G, stack', handlers', rbp', pc')
  <2>1. \E G : Control(code, plan, G, st2, handlers, rbp, d)
    <3>1. n = Len(F) /\ Len(st2) = Len(stack) + Moves(code[pc + 1])
      BY <1>3, <1>8, <1>11
    <3>2. /\ ~ IsEntry(code[pc + 1]) /\ d \in Successors(pc, code[pc + 1])
          /\ code[pc + 1].op \notin {"TRY", "UNTRY"} /\ \A k \in 2 .. n : LinkKept(F, k, stack, st2)
      BY <1>4, <1>11
    <3>3. QED BY ONLY <1>1, <1>2, <3>1, <3>2, LocalStep
  <2>2. handlers' = handlers /\ rbp' = rbp
    BY DEF Local
  <2>3. QED BY <1>3, <2>1, <2>2
<1>13. /\ image' = image /\ Running /\ status' = status /\ Words(stack') /\ Words(handlers')
       /\ Words(fns') /\ Closures(code, plan, fns')
  BY <1>3, <1>9, <1>11, MadeKept DEF Local
<1>14. QED BY ONLY Shaped, <1>12, <1>13, InvKept

-------------------------------------------------------------------------------
(* The instructions that leave the body, open a try or close one.          *)
LEMMA FrameSize ==
  ASSUME Shaped, Governed, ~ IsEntry(In), NEW z, z = code[plan[pc].entry + 1].i
  PROVE  z \in Int /\ z > 0 /\ plan[pc].height >= z /\ plan[pc].height \in Nat
<1>1. Good(code, image.entry, plan) /\ pc \in DOMAIN plan /\ Planned(code, plan, pc)
  BY CodeGood, HereFacts DEF Shaped
<1>2. PICK e : e = plan[pc].entry
  OBVIOUS
<1>3. code[e + 1].op = "ENTER" /\ plan[pc].height >= z /\ e \in DOMAIN plan /\ plan[pc].height \in Nat
  BY <1>1, <1>2 DEF Planned, In
<1>4. z \in Int /\ Planned(code, plan, e)
  BY <1>1, <1>2, <1>3, PlannedFacts DEF Good, Balances
<1>5. z > 0
  BY <1>2, <1>3, <1>4 DEF Planned
<1>6. QED BY <1>3, <1>4, <1>5

LEMMA CallKept ==
  ASSUME Shaped, Governed, Running, In.op \in {"CALL", "CALL_VALUE"},
         pc' \in Entries(code, plan), Fits(code, pc', plan[pc].height),
         stack' = Append(stack, RetTo(pc + 1)), UNCHANGED <<image, rbp, handlers, fns, status>>
  PROVE  NativeInv'
<1>1. PICK F : Control(code, plan, F, stack, handlers, rbp, pc)
  BY DEF Governed
<1>2. Good(code, image.entry, plan) /\ Words(stack) /\ code[pc + 1].op \in {"CALL", "CALL_VALUE"}
  BY CodeGood DEF Shaped, In
<1>3. PICK e : e = pc'
  OBVIOUS
<1>4. e \in Entries(code, plan) /\ Fits(code, e, plan[pc].height)
  BY <1>3
<1>5. \E G : Control(code, plan, G, Append(stack, RetTo(pc + 1)), handlers, rbp, e)
  BY ONLY <1>1, <1>2, <1>4, CallStep
<1>6. \E G : Control(code, plan, G, stack', handlers', rbp', pc')
  BY <1>3, <1>5
<1>7. Words(stack')
  <2>1. PICK x : x = RetTo(pc + 1)
    OBVIOUS
  <2>2. Words(Append(stack, x))
    BY <1>2, AppendedFacts
  <2>3. QED BY <2>1, <2>2
<1>8. Words(handlers') /\ Words(fns') /\ Closures(code, plan, fns') /\ image' = image /\ status' = status
  BY DEF Shaped
<1>9. QED BY ONLY Shaped, Running, <1>6, <1>7, <1>8, InvKept

LEMMA CallSteps ==
  ASSUME Shaped, Governed, CallsFit, CALL \/ CALL_VALUE
  PROVE  NativeInv'
<1>1. /\ Running /\ In.op \in {"CALL", "CALL_VALUE"} /\ Trusted
      /\ stack' = Append(stack, RetTo(pc + 1)) /\ UNCHANGED <<image, rbp, handlers, fns, status>>
  BY DEF CALL, CALL_VALUE, Exec, heap, tries
<1>2. ~ IsEntry(In)
  BY <1>1 DEF IsEntry
<1>3. PICK z, h, e : z = code[plan[pc].entry + 1].i /\ h = plan[pc].height /\ e = pc'
  OBVIOUS
<1>4. z \in Int /\ z > 0 /\ h >= z /\ h \in Nat
  BY <1>2, <1>3, FrameSize
<1>5. /\ Good(code, image.entry, plan) /\ Program(code) /\ Planned(code, plan, pc)
      /\ In \in [op : STRING, i : Int, n : Int]
  BY CodeGood, HereFacts DEF Shaped, Good
<1>6. e \in Entries(code, plan) /\ Fits(code, e, h)
  <2>1. ASSUME NEW m \in Int, m <= h, e \in Entries(code, plan), Fits(code, e, m) PROVE Fits(code, e, h)
    <3>1. e \in Nat /\ h \in Int /\ m \in Int
      BY <1>4, <1>5, <2>1, PlannedFacts DEF Entries
    <3>2. QED BY ONLY <1>5, <2>1, <3>1, FitsMore
  <2>2. CASE CALL
    <3>1. In.op = "CALL" /\ e = In.i
      BY <1>3, <2>2 DEF CALL, Exec
    <3>2. In.i \in DOMAIN plan /\ IsEntry(code[In.i + 1]) /\ Fits(code, In.i, h - z)
      BY <1>3, <1>5, <3>1 DEF Planned, In
    <3>3. PICK m : m = h - z
      OBVIOUS
    <3>4. m \in Int /\ m <= h
      BY ONLY <1>4, <3>3
    <3>5. e \in Entries(code, plan) /\ Fits(code, e, m)
      BY <3>1, <3>2, <3>3 DEF Entries
    <3>6. QED BY <2>1, <3>4, <3>5
  <2>3. CASE CALL_VALUE
    <3>1. In.op = "CALL_VALUE" /\ e = fns[Slot(In.i).v].pc
      BY <1>3, <2>3 DEF CALL_VALUE, Exec
    <3>2. Slot(In.i).v \in DOMAIN fns
      BY <1>1, <3>1 DEF Trusted
    <3>3. e \in Entries(code, plan)
      BY <3>1, <3>2 DEF Shaped, Closures
    <3>4. Fits(code, e, 2 * In.i)
      BY <1>1, <3>1 DEF CallsFit
    <3>5. 2 * (In.i + 1) <= h - z /\ In.i \in Int
      BY <1>3, <1>5, <3>1 DEF Planned, In
    <3>6. PICK i : i = In.i
      OBVIOUS
    <3>7. 2 * i \in Int /\ 2 * i <= h
      BY ONLY <1>4, <3>5, <3>6
    <3>8. QED BY <2>1, <3>3, <3>4, <3>6, <3>7
  <2>4. QED BY <2>2, <2>3
<1>7. pc' \in Entries(code, plan) /\ Fits(code, pc', plan[pc].height)
  BY <1>3, <1>6
<1>8. QED BY ONLY Shaped, Governed, <1>1, <1>7, CallKept

LEMMA EnterKept ==
  ASSUME Shaped, Governed, ENTER
  PROVE  NativeInv'
<1>1. PICK F : Control(code, plan, F, stack, handlers, rbp, pc)
  BY DEF Governed
<1>2. /\ Running /\ In.op = "ENTER" /\ UNCHANGED <<image, handlers, fns, status>>
      /\ stack' = (stack \o <<RbpOf(rbp), r10>>) \o [k \in 1 .. In.i - 1 |-> Junk]
      /\ rbp' = Len(stack) + 1 /\ pc' = pc + 1
  BY DEF ENTER, Exec, heap, tries
<1>3. /\ Good(code, image.entry, plan) /\ Words(stack) /\ code[pc + 1].op = "ENTER"
      /\ Planned(code, plan, pc) /\ In \in [op : STRING, i : Int, n : Int]
  BY <1>2, CodeGood, HereFacts DEF Shaped, In
<1>4. \E G : Control(code, plan, G, (stack \o <<RbpOf(rbp), r10>>) \o [k \in 1 .. code[pc + 1].i - 1 |-> Junk],
                     handlers, Len(stack) + 1, pc + 1)
  BY ONLY <1>1, <1>3, EnterStep
<1>5. \E G : Control(code, plan, G, stack', handlers', rbp', pc')
  BY <1>2, <1>4 DEF In
<1>6. Words(stack')
  <2>1. PICK z : z = In.i - 1
    OBVIOUS
  <2>2. z \in Nat
    BY <1>2, <1>3, <2>1 DEF Planned, In
  <2>3. PICK r, s : r = <<RbpOf(rbp), r10>> /\ s = [k \in 1 .. z |-> Junk]
    OBVIOUS
  <2>4. Words(r)
    <3>1. r \in Seq({RbpOf(rbp), r10})
      BY <2>3
    <3>2. QED BY <3>1 DEF Words
  <2>5. Words(s)
    <3>1. s \in Seq({Junk})
      BY <2>2, <2>3
    <3>2. QED BY <3>1 DEF Words
  <2>6. Words(stack \o r)
    BY <1>3, <2>4, JoinedFacts
  <2>7. Words((stack \o r) \o s)
    BY <2>5, <2>6, JoinedFacts
  <2>8. QED BY <1>2, <2>1, <2>3, <2>7
<1>7. Words(handlers') /\ Words(fns') /\ Closures(code, plan, fns') /\ image' = image /\ status' = status /\ Running
  BY <1>2 DEF Shaped
<1>8. QED BY ONLY Shaped, <1>5, <1>6, <1>7, InvKept

LEMMA TrampolineKept ==
  ASSUME Shaped, Governed, TRAMPOLINE
  PROVE  NativeInv'
<1>1. PICK F : Control(code, plan, F, stack, handlers, rbp, pc)
  BY DEF Governed
<1>2. Exec("TRAMPOLINE") /\ UNCHANGED <<rbp, r10, boxes, fns, tries, out, status>>
  BY DEF TRAMPOLINE, Library
<1>3. /\ Running /\ In.op = "TRAMPOLINE" /\ UNCHANGED <<image, rbp, handlers, fns, status>>
      /\ stack' = SubSeq(stack, 1, Len(stack) - 1) /\ pc' = stack[Len(stack)].v
  BY <1>2 DEF TRAMPOLINE, Exec, tries, Without, Last
<1>4. Good(code, image.entry, plan) /\ Words(stack) /\ code[pc + 1].op = "TRAMPOLINE"
  BY <1>3, CodeGood DEF Shaped, In
<1>5. Control(code, plan, F, SubSeq(stack, 1, Len(stack) - 1), handlers, rbp, stack[Len(stack)].v)
  BY ONLY <1>1, <1>4, TrampolineStep
<1>6. \E G : Control(code, plan, G, stack', handlers', rbp', pc')
  BY <1>3, <1>5
<1>7. Words(stack')
  <2>1. PICK l : l = Len(stack) - 1
    OBVIOUS
  <2>2. Len(stack) \in Nat /\ Len(stack) # 0
    <3>1. AtEntry(code, plan, F, stack, pc) /\ F[Len(F)] \in FrameRec
      BY <1>1, <1>4, AtEntryFacts DEF IsEntry
    <3>2. Len(stack) = F[Len(F)].top + 1 /\ F[Len(F)].top \in Nat
      BY <3>1 DEF AtEntry, FrameRec
    <3>3. QED BY <3>2
  <2>3. l \in 0 .. Len(stack)
    BY ONLY <2>1, <2>2
  <2>4. Words(SubSeq(stack, 1, l))
    BY <1>4, <2>3, CutFacts
  <2>5. QED BY <1>3, <2>1, <2>4
<1>8. Words(handlers') /\ Words(fns') /\ Closures(code, plan, fns') /\ image' = image /\ status' = status
  BY <1>3 DEF Shaped
<1>9. QED BY ONLY Shaped, <1>3, <1>6, <1>7, <1>8, InvKept

LEMMA StoppedKept ==
  ASSUME Shaped, UNCHANGED <<image, fns>>, Words(stack'), Words(handlers'), status' # "running", CleanExit'
  PROVE  NativeInv'
<1>1. code' = code /\ plan' = plan
  BY DEF code, plan
<1>2. Shaped' /\ ~ Running'
  BY <1>1 DEF Shaped, Running
<1>3. QED BY <1>2 DEF NativeInv

LEMMA ReturnKept ==
  ASSUME Shaped, Governed, RET
  PROVE  NativeInv'
<1>1. PICK F : Control(code, plan, F, stack, handlers, rbp, pc)
  BY DEF Governed
<1>2. /\ Running /\ In.op = "RET" /\ UNCHANGED <<image, handlers, fns>>
      /\ stack' = SubSeq(stack, 1, rbp - 2) /\ rbp' = stack[rbp].v
      /\ stack[rbp - 1].v = 0 - 1 => status' = "done"
      /\ stack[rbp - 1].v # 0 - 1 => pc' = stack[rbp - 1].v /\ status' = status
  <2>1. Running /\ In.op = "RET" /\ UNCHANGED <<image, handlers, fns>>
    BY DEF RET, Exec, heap, tries
  <2>2. stack' = SubSeq(stack, 1, rbp - 2) /\ rbp' = stack[rbp].v
    BY DEF RET
  <2>3. PICK v : v = stack[rbp - 1].v
    OBVIOUS
  <2>4. -1 = 0 - 1
    OBVIOUS
  <2>5. IF v = -1 THEN status' = "done" ELSE pc' = v /\ status' = status
    BY <2>3 DEF RET
  <2>6. QED BY <2>1, <2>2, <2>3, <2>4, <2>5
<1>3. Good(code, image.entry, plan) /\ Words(stack) /\ Words(handlers) /\ code[pc + 1].op = "RET"
  BY <1>2, CodeGood DEF Shaped, In
<1>4. \/ /\ stack[rbp - 1].v = 0 - 1 /\ stack[rbp].v = 0
         /\ SubSeq(stack, 1, rbp - 2) = <<>> /\ handlers = <<>>
      \/ /\ stack[rbp - 1].v # 0 - 1
         /\ \E G : Control(code, plan, G, SubSeq(stack, 1, rbp - 2), handlers, stack[rbp].v, stack[rbp - 1].v)
  BY ONLY <1>1, <1>3, ReturnStep
<1>5. CASE /\ stack[rbp - 1].v = 0 - 1 /\ stack[rbp].v = 0
           /\ SubSeq(stack, 1, rbp - 2) = <<>> /\ handlers = <<>>
  <2>1. stack' = <<>> /\ handlers' = <<>> /\ rbp' = 0 /\ status' = "done" /\ UNCHANGED <<image, fns>>
    BY <1>2, <1>5
  <2>2. Words(<<>>)
    <3>1. <<>> \in Seq({})
      OBVIOUS
    <3>2. QED BY <3>1 DEF Words
  <2>3. Words(stack') /\ Words(handlers') /\ status' # "running" /\ CleanExit'
    BY <2>1, <2>2 DEF CleanExit
  <2>4. QED BY ONLY Shaped, <2>1, <2>3, StoppedKept
<1>6. CASE /\ stack[rbp - 1].v # 0 - 1
           /\ \E G : Control(code, plan, G, SubSeq(stack, 1, rbp - 2), handlers, stack[rbp].v, stack[rbp - 1].v)
  <2>1. pc' = stack[rbp - 1].v /\ status' = status
    BY <1>2, <1>6
  <2>2. \E G : Control(code, plan, G, stack', handlers', rbp', pc')
    BY <1>2, <1>6, <2>1
  <2>3. Words(stack')
    <3>1. PICK j : j = rbp - 2
      OBVIOUS
    <3>2. j \in 0 .. Len(stack)
      <4>1. PICK n : n = Len(F)
        OBVIOUS
      <4>2. /\ rbp = F[n].base /\ F[n] \in FrameRec /\ n \in 2 .. n /\ plan[pc].height \in Nat
            /\ Len(stack) = rbp + plan[pc].height
        BY <1>1, <1>3, <4>1, InBodyFacts DEF IsEntry
      <4>3. F[n].base = F[n - 1].top + 2 /\ F[n - 1] \in FrameRec
        BY <1>1, <1>3, <4>1, <4>2, FrameFacts DEF Control, Frames
      <4>4. PICK t : t = F[n - 1].top
        OBVIOUS
      <4>5. t \in Nat /\ rbp = t + 2
        BY <4>2, <4>3, <4>4 DEF FrameRec
      <4>6. QED BY ONLY <3>1, <4>2, <4>5
    <3>3. Words(SubSeq(stack, 1, j))
      BY <1>3, <3>2, CutFacts
    <3>4. QED BY <1>2, <3>1, <3>3
  <2>4. Words(handlers') /\ Words(fns') /\ Closures(code, plan, fns') /\ image' = image
    BY <1>2 DEF Shaped
  <2>5. QED BY ONLY Shaped, <1>2, <2>1, <2>2, <2>3, <2>4, InvKept
<1>7. QED BY <1>4, <1>5, <1>6

LEMMA TrySteps ==
  ASSUME Shaped, Governed, TRY \/ UNTRY
  PROVE  NativeInv'
<1>1. PICK F : Control(code, plan, F, stack, handlers, rbp, pc)
  BY DEF Governed
<1>2. Running /\ image' = image /\ pc' = pc + 1 /\ UNCHANGED <<rbp, stack, fns, status>>
  BY DEF TRY, UNTRY, Exec, Goes, heap
<1>3. Good(code, image.entry, plan) /\ Words(handlers)
  BY CodeGood DEF Shaped
<1>4. Words(handlers') /\ \E G : Control(code, plan, G, stack, handlers', rbp, pc + 1)
  <2>1. CASE TRY
    <3>1. PICK h : h = [rsp |-> Len(stack), rbp |-> rbp, pc |-> In.i]
      OBVIOUS
    <3>2. handlers' = Append(handlers, h) /\ code[pc + 1].op = "TRY"
      BY <2>1, <3>1 DEF TRY, Exec, In
    <3>3. \E G : Control(code, plan, G, stack,
                         Append(handlers, [rsp |-> Len(stack), rbp |-> rbp, pc |-> code[pc + 1].i]), rbp, pc + 1)
      BY ONLY <1>1, <1>3, <3>2, TryStep
    <3>4. \E G : Control(code, plan, G, stack, handlers', rbp, pc + 1)
      BY <3>1, <3>2, <3>3 DEF In
    <3>5. Words(Append(handlers, h))
      BY <1>3, AppendedFacts
    <3>6. QED BY <3>2, <3>4, <3>5
  <2>2. CASE UNTRY
    <3>1. handlers' = SubSeq(handlers, 1, Len(handlers) - 1) /\ code[pc + 1].op = "UNTRY" /\ handlers # <<>>
      BY <2>2 DEF UNTRY, Exec, Passes, In, Front
    <3>2. \E G : Control(code, plan, G, stack, SubSeq(handlers, 1, Len(handlers) - 1), rbp, pc + 1)
      BY ONLY <1>1, <1>3, <3>1, UntryStep
    <3>3. PICK l : l = Len(handlers) - 1
      OBVIOUS
    <3>4. l \in 0 .. Len(handlers)
      <4>1. Len(handlers) \in Nat /\ Len(handlers) # 0
        BY <1>3, <3>1, EmptySeq, WordsTyped DEF Words
      <4>2. QED BY ONLY <3>3, <4>1
    <3>5. Words(SubSeq(handlers, 1, l))
      BY <1>3, <3>4, CutFacts
    <3>6. QED BY <3>1, <3>2, <3>3, <3>5
  <2>3. QED BY <2>1, <2>2
<1>5. \E G : Control(code, plan, G, stack', handlers', rbp', pc')
  BY <1>2, <1>4
<1>6. Words(stack') /\ Words(fns') /\ Closures(code, plan, fns') /\ image' = image /\ status' = status
  BY <1>2 DEF Shaped
<1>7. QED BY ONLY Shaped, <1>2, <1>4, <1>5, <1>6, InvKept

LEMMA ThrowKept ==
  ASSUME Shaped, Governed, THROW
  PROVE  NativeInv'
<1>1. PICK F : Control(code, plan, F, stack, handlers, rbp, pc)
  BY DEF Governed
<1>2. PICK h, l : h = handlers[Len(handlers)] /\ l = Len(handlers) - 1
  OBVIOUS
<1>3. /\ Running /\ In.op = "THROW" /\ image' = image /\ fns' = fns
      /\ \/ handlers = <<>> /\ status' = "uncaught" /\ UNCHANGED <<stack, handlers>>
         \/ /\ handlers # <<>> /\ handlers' = SubSeq(handlers, 1, l) /\ status' = status
            /\ stack' = SubSeq(stack, 1, h.rsp) /\ rbp' = h.rbp /\ pc' = h.pc
  BY <1>2 DEF THROW, Exec, heap, tries, Front, Last
<1>4. /\ Good(code, image.entry, plan) /\ Words(stack) /\ Words(handlers)
      /\ ~ IsEntry(code[pc + 1]) /\ h = handlers[Len(handlers)]
  BY <1>2, <1>3, CodeGood DEF Shaped, In, IsEntry
<1>5. CASE handlers = <<>> /\ status' = "uncaught" /\ UNCHANGED <<stack, handlers>>
  <2>1. Words(stack') /\ Words(handlers') /\ UNCHANGED <<image, fns>> /\ status' # "running" /\ CleanExit'
    BY <1>3, <1>4, <1>5 DEF CleanExit
  <2>2. QED BY ONLY Shaped, <2>1, StoppedKept
<1>6. CASE /\ handlers # <<>> /\ handlers' = SubSeq(handlers, 1, l) /\ status' = status
           /\ stack' = SubSeq(stack, 1, h.rsp) /\ rbp' = h.rbp /\ pc' = h.pc
  <2>1. handlers # <<>>
    BY <1>6
  <2>2. /\ h.rsp \in 0 .. Len(stack)
        /\ \E G : Control(code, plan, G, SubSeq(stack, 1, h.rsp), SubSeq(handlers, 1, Len(handlers) - 1), h.rbp, h.pc)
    BY ONLY <1>1, <1>4, <2>1, ThrowStep
  <2>3. \E G : Control(code, plan, G, stack', handlers', rbp', pc')
    BY <1>2, <1>6, <2>2
  <2>4. Words(handlers')
    <3>1. Len(handlers) \in Nat /\ Len(handlers) # 0
      BY <1>4, <2>1, EmptySeq, WordsTyped DEF Words
    <3>2. l \in 0 .. Len(handlers)
      BY ONLY <1>2, <3>1
    <3>3. Words(SubSeq(handlers, 1, l))
      BY <1>4, <3>2, CutFacts
    <3>4. QED BY <1>6, <3>3
  <2>5. Words(stack')
    <3>1. PICK j : j = h.rsp
      OBVIOUS
    <3>2. Words(SubSeq(stack, 1, j))
      BY <1>4, <2>2, <3>1, CutFacts
    <3>3. QED BY <1>6, <3>1, <3>2
  <2>6. Words(fns') /\ Closures(code, plan, fns') /\ image' = image /\ status' = status
    BY <1>3, <1>6 DEF Shaped
  <2>7. QED BY ONLY Shaped, <1>3, <2>3, <2>4, <2>5, <2>6, InvKept
<1>7. QED BY <1>3, <1>5, <1>6

-------------------------------------------------------------------------------
(* All of them.                                                            *)
LEMMA StepRuns ==
  ASSUME Step
  PROVE  Running /\ image' = image
<1>1. CASE Die \/ Crash
  BY <1>1 DEF Die, Crash
<1>2. CASE \E op : Exec(op)
  BY <1>2 DEF Exec
<1>3. CASE \E op, s, x : Computes(op, s, x)
  BY <1>3, <1>2 DEF Computes
<1>4. CASE IMM \/ TEXT \/ LOAD \/ LOAD_BOX \/ LOAD_UPVAL \/ STORE \/ PUSH \/ POP \/ DROP \/ NEG \/ NOT
           \/ GET_INDEX \/ PEEK_INDEX \/ MOVE_ARG \/ EXCEPTION
  BY <1>3, <1>4 DEF IMM, TEXT, LOAD, LOAD_BOX, LOAD_UPVAL, STORE, PUSH, POP, DROP, NEG, NOT, GET_INDEX,
                    PEEK_INDEX, MOVE_ARG, EXCEPTION
<1>5. CASE ADD \/ SUB \/ MUL \/ LT \/ GT \/ LE \/ GE \/ EQ \/ NEQ \/ SUBSD \/ MULSD
  <2>1. \E op, x : Binary(op, x)
    BY <1>5 DEF ADD, SUB, MUL, LT, GT, LE, GE, EQ, NEQ, SUBSD, MULSD
  <2>2. QED BY <1>3, <2>1 DEF Binary
<1>6. CASE STORE_BOX \/ STORE_UPVAL \/ NEW_BOX \/ BOX_ARG \/ NEW_ARR \/ ARR_PUSH \/ NEW_MAP \/ SET_INDEX
           \/ NEW_FN \/ CAPTURE \/ CAPTURE_UPVAL \/ PRINT
  BY <1>2, <1>6 DEF STORE_BOX, STORE_UPVAL, NEW_BOX, BOX_ARG, NewBox, NEW_ARR, ARR_PUSH, NEW_MAP, SET_INDEX,
                    NEW_FN, CAPTURE, CAPTURE_UPVAL, PRINT
<1>7. CASE JMP \/ JZ \/ JNZ \/ CALL \/ CALL_VALUE \/ ENTER \/ RET \/ BUILTIN \/ TRAMPOLINE \/ TRY \/ UNTRY \/ THROW
  BY <1>2, <1>7 DEF JMP, JZ, JNZ, Branch, CALL, CALL_VALUE, ENTER, RET, BUILTIN, TRAMPOLINE, Library, TRY, UNTRY, THROW
<1>8. QED BY <1>1, <1>4, <1>5, <1>6, <1>7 DEF Step

LEMMA StepKept ==
  ASSUME NativeInv, CallsFit, Step
  PROVE  NativeInv'
<1>1. Shaped /\ Running
  BY StepRuns DEF NativeInv
<1>2. Governed
  BY <1>1 DEF NativeInv
<1>3. Planned(code, plan, pc) /\ In \in [op : STRING, i : Int, n : Int]
  BY <1>1, <1>2, HereFacts
<1>4. CASE Local /\ Made
  BY <1>1, <1>2, <1>4, LocalKept
<1>5. CASE IMM \/ TEXT \/ LOAD \/ LOAD_BOX \/ LOAD_UPVAL \/ STORE_BOX \/ STORE_UPVAL \/ NEG \/ NOT
           \/ NEW_ARR \/ ARR_PUSH \/ NEW_MAP \/ PEEK_INDEX \/ NEW_FN \/ CAPTURE \/ CAPTURE_UPVAL \/ PRINT \/ EXCEPTION
  BY ONLY <1>4, <1>5, StillSteps
<1>6. CASE STORE \/ NEW_BOX \/ BOX_ARG \/ MOVE_ARG
  BY ONLY <1>4, <1>6, WriteSteps
<1>7. CASE PUSH
  BY ONLY <1>4, <1>7, PushStep
<1>8. CASE POP \/ ADD \/ SUB \/ MUL \/ LT \/ GT \/ LE \/ GE \/ EQ \/ NEQ \/ SUBSD \/ MULSD \/ GET_INDEX
  BY ONLY <1>4, <1>8, BinarySteps
<1>9. CASE DROP \/ SET_INDEX
  <2>1. In.op \in {"DROP", "SET_INDEX"}
    BY <1>9, ComputesFacts DEF DROP, SET_INDEX, Exec
  <2>2. In.i >= 0 /\ In.i \in Int
    BY <1>3, <2>1 DEF Planned, In
  <2>3. In.i \in Nat
    BY <2>2
  <2>4. QED BY ONLY <1>4, <1>9, <2>3, DropSteps
<1>10. CASE BUILTIN
  <2>1. In.op = "BUILTIN"
    BY <1>10 DEF BUILTIN, Library, Exec
  <2>2. In.i \in Ids
    BY <1>3, <2>1 DEF Planned, In
  <2>3. Named(In.i) \in DOMAIN Builtins
    BY <2>2 DEF Ids, Named
  <2>4. Arity(Named(In.i)) \in Nat
    BY <2>3, ArityTyped
  <2>5. QED BY ONLY <1>4, <1>10, <2>4, BuiltinStep
<1>11. CASE JMP \/ JZ \/ JNZ
  BY ONLY <1>4, <1>11, BranchSteps
<1>12. CASE CALL \/ CALL_VALUE
  BY ONLY <1>1, <1>2, <1>12, CallsFit, CallSteps
<1>13. CASE ENTER
  BY ONLY <1>1, <1>2, <1>13, EnterKept
<1>14. CASE TRAMPOLINE
  BY ONLY <1>1, <1>2, <1>14, TrampolineKept
<1>15. CASE RET
  BY ONLY <1>1, <1>2, <1>15, ReturnKept
<1>16. CASE TRY \/ UNTRY
  BY ONLY <1>1, <1>2, <1>16, TrySteps
<1>17. CASE THROW
  BY ONLY <1>1, <1>2, <1>17, ThrowKept
<1>18. CASE Die \/ Crash
  <2>1. UNCHANGED <<image, fns, stack, handlers, rbp>> /\ status' \in {"died", "wild"}
    BY <1>18 DEF Die, Crash, heap, tries
  <2>2. Words(stack') /\ Words(handlers') /\ status' # "running" /\ CleanExit'
    BY <1>1, <2>1 DEF Shaped, CleanExit
  <2>3. QED BY ONLY <1>1, <2>1, <2>2, StoppedKept
<1>19. QED
  BY ONLY Step, <1>5, <1>6, <1>7, <1>8, <1>9, <1>10, <1>11, <1>12, <1>13, <1>14, <1>15, <1>16, <1>17, <1>18 DEF Step

LEMMA LoadGoverned ==
  ASSUME Load, Balanced(image)
  PROVE  NativeInv
<1>1. /\ image \in Images /\ pc = image.entry /\ rbp = 0 /\ stack = <<RetTo(0 - 1)>> /\ fns = <<>> /\ handlers = <<>>
      /\ status = "running"
  BY DEF Load
<1>2. Words(<<>>) /\ Words(stack)
  <2>1. <<>> \in Seq({}) /\ stack \in Seq({RetTo(0 - 1)})
    BY <1>1
  <2>2. QED BY <2>1 DEF Words
<1>3. Shaped
  BY <1>1, <1>2 DEF Shaped, Closures
<1>4. Good(code, image.entry, plan)
  BY <1>3, CodeGood
<1>5. PICK F : F = <<Ground>>
  OBVIOUS
<1>6. F \in Seq(FrameRec) /\ F # <<>> /\ Len(F) = 1 /\ F[1] = Ground
  <2>1. Ground \in FrameRec
    BY DEF Ground, FrameRec
  <2>2. QED BY <1>5, <2>1
<1>7. Frames(code, plan, F)
  BY <1>6 DEF Frames
<1>8. Links(F, stack)
  BY <1>6 DEF Links
<1>9. Ground.base = 0 /\ Ground.top = 0 /\ Ground.pc = 0 - 1 /\ Ground.hn = 0
  BY DEF Ground
<1>10. Guards(plan, F, handlers)
  BY <1>1, <1>6, <1>9 DEF Guards
<1>11. AtEntry(code, plan, F, stack, pc)
  <2>1. pc \in DOMAIN plan /\ code[pc + 1].op = "ENTER" /\ Fits(code, pc, 0)
    BY <1>1, <1>4 DEF Good, Balances
  <2>2. pc \in Entries(code, plan)
    BY <2>1 DEF Entries, IsEntry
  <2>3. Len(stack) = 1 /\ stack[Len(stack)] = RetTo(0 - 1)
    BY <1>1
  <2>4. F[Len(F)].top - F[Len(F)].base = 0 /\ Len(stack) = F[Len(F)].top + 1
    BY <1>6, <1>9, <2>3
  <2>5. QED BY <1>6, <1>9, <2>1, <2>2, <2>3, <2>4 DEF AtEntry
<1>12. Governed
  BY <1>1, <1>6, <1>7, <1>8, <1>9, <1>10, <1>11 DEF Governed, Control
<1>13. QED BY <1>1, <1>3, <1>12 DEF NativeInv, CleanExit

(* What has been noted of the instructions that have run is what the plan  *)
(* says.                                                                   *)
AsPlanned == \A q \in DOMAIN heights : q \in Body(code, plan) => heights[q] = plan[q].height

LEMMA HeightHere ==
  ASSUME Shaped, Governed, ~ IsEntry(In)
  PROVE  /\ pc \in Body(code, plan) /\ Len(stack) \in Nat /\ rbp \in Nat /\ plan[pc].height \in Nat
         /\ Len(stack) = rbp + plan[pc].height /\ rbp % 2 = 0 /\ plan[pc].height % 2 = 0
<1>1. PICK F, n : Control(code, plan, F, stack, handlers, rbp, pc) /\ n = Len(F)
  BY DEF Governed
<1>2. Good(code, image.entry, plan) /\ ~ IsEntry(code[pc + 1])
  BY CodeGood DEF In
<1>3. /\ n \in 2 .. n /\ F[n] \in FrameRec /\ rbp = F[n].base /\ pc \in Body(code, plan)
      /\ plan[pc].height \in Nat /\ Len(stack) = rbp + plan[pc].height /\ pc \in DOMAIN plan
  BY <1>1, <1>2, InBodyFacts
<1>4. F[n].base % 2 = 0
  BY <1>1, <1>3 DEF Control, Frames, Framed
<1>5. rbp \in Nat /\ rbp % 2 = 0 /\ plan[pc].height % 2 = 0 /\ Len(stack) \in Nat
  BY <1>2, <1>3, <1>4, PlannedFacts, WordsTyped DEF FrameRec, Shaped
<1>6. QED BY <1>3, <1>5

LEMMA NotedKept ==
  ASSUME NativeInv, CallsFit, AsPlanned, Next
  PROVE  AsPlanned'
<1>1. /\ Step /\ DOMAIN heights' = DOMAIN heights \cup {pc}
      /\ \A q \in DOMAIN heights' : heights'[q] = IF q \in DOMAIN heights THEN heights[q] ELSE Len(stack) - rbp
  BY DEF Next
<1>2. image' = image /\ Running
  BY <1>1, StepRuns
<1>3. code' = code /\ plan' = plan
  BY <1>2 DEF code, plan
<1>4. Shaped /\ Governed
  BY <1>2 DEF NativeInv
<1>5. ASSUME NEW q \in DOMAIN heights', q \in Body(code, plan) PROVE heights'[q] = plan[q].height
  <2>1. CASE q \in DOMAIN heights
    BY <1>1, <1>5, <2>1 DEF AsPlanned
  <2>2. CASE q \notin DOMAIN heights
    <3>1. q = pc /\ heights'[q] = Len(stack) - rbp
      BY <1>1, <2>2
    <3>2. ~ IsEntry(In)
      BY <1>5, <3>1 DEF Body, In
    <3>3. PICK l, h : l = Len(stack) /\ h = plan[pc].height
      OBVIOUS
    <3>4. l \in Nat /\ rbp \in Nat /\ h \in Nat /\ l = rbp + h
      BY <1>4, <3>2, <3>3, HeightHere
    <3>5. l - rbp = h
      BY ONLY <3>4
    <3>6. QED BY <3>1, <3>3, <3>5
  <2>3. QED BY <2>1, <2>2
<1>6. QED BY <1>3, <1>5 DEF AsPlanned

-------------------------------------------------------------------------------
(* Balanced code whose indirect calls pass the arguments the closures      *)
(* assign runs in the frames the plan knows of.  The two promises are      *)
(* invariants of the run of Native: the first is the generator's, the      *)
(* second is that of the program's author, as neither the generator nor    *)
(* the runtime counts the arguments of an indirect call.                   *)
NativeIInv == NativeInv /\ AsPlanned

THEOREM NativeFrames ==
  Spec /\ [](CodeBalanced /\ CallsFit) => []NativeIInv
<1>1. Init /\ CodeBalanced => NativeIInv
  <2> SUFFICES ASSUME Init, CodeBalanced PROVE NativeIInv
    OBVIOUS
  <2>1. Load /\ heights = <<>> /\ Balanced(image)
    BY DEF Init, CodeBalanced
  <2>2. AsPlanned
    BY <2>1 DEF AsPlanned
  <2>3. QED BY <2>1, <2>2, LoadGoverned DEF NativeIInv
<1>2. NativeIInv /\ CallsFit /\ [Next]_vars => NativeIInv'
  <2> SUFFICES ASSUME NativeIInv, CallsFit, [Next]_vars PROVE NativeIInv'
    OBVIOUS
  <2>1. CASE Next
    <3>1. NativeInv'
      BY <2>1, StepKept DEF NativeIInv, Next
    <3>2. AsPlanned'
      BY <2>1, NotedKept DEF NativeIInv
    <3>3. QED BY <3>1, <3>2 DEF NativeIInv
  <2>2. CASE UNCHANGED vars
    <3>1. UNCHANGED <<image, pc, rbp, stack, fns, handlers, status, heights>>
      BY <2>2 DEF vars, mvars, heap, tries
    <3>2. code' = code /\ plan' = plan
      BY <3>1 DEF code, plan
    <3>3. Shaped' /\ CleanExit' /\ (Running' => Governed') /\ AsPlanned'
      <4>1. Shaped'
        BY <3>1, <3>2 DEF NativeIInv, NativeInv, Shaped
      <4>2. CleanExit'
        BY <3>1 DEF NativeIInv, NativeInv, CleanExit
      <4>3. Running' => Governed'
        BY <3>1, <3>2 DEF NativeIInv, NativeInv, Running, Governed
      <4>4. AsPlanned'
        BY <3>1, <3>2 DEF NativeIInv, AsPlanned
      <4>5. QED BY <4>1, <4>2, <4>3, <4>4
    <3>4. QED BY <3>3 DEF NativeIInv, NativeInv
  <2>3. QED BY <2>1, <2>2
<1>3. QED BY <1>1, <1>2, PTL DEF Spec

(* Whatever jump, return or throw brings control to an instruction of a    *)
(* body, rsp is where it was before: what the code reads and writes below  *)
(* rbp and above rsp are its own locals and operands.                      *)
THEOREM NativeSpFixed ==
  Spec /\ [](CodeBalanced /\ CallsFit) => []SpFixed
<1>1. NativeIInv => SpFixed
  <2> SUFFICES ASSUME NativeIInv, Running, In.op \notin {"ENTER", "TRAMPOLINE"}, pc \in DOMAIN heights
               PROVE  heights[pc] = Len(stack) - rbp
    BY DEF SpFixed
  <2>1. Shaped /\ Governed /\ ~ IsEntry(In)
    BY DEF NativeIInv, NativeInv, IsEntry
  <2>2. PICK l, h : l = Len(stack) /\ h = plan[pc].height
    OBVIOUS
  <2>3. pc \in Body(code, plan) /\ l \in Nat /\ rbp \in Nat /\ h \in Nat /\ l = rbp + h
    BY <2>1, <2>2, HeightHere
  <2>4. heights[pc] = h
    BY <2>2, <2>3 DEF NativeIInv, AsPlanned
  <2>5. l - rbp = h
    BY ONLY <2>3
  <2>6. QED BY <2>2, <2>4, <2>5
<1>2. QED BY <1>1, NativeFrames, PTL

(* rsp is a multiple of 16 at every instruction of a body, and so at every *)
(* call of the runtime.                                                    *)
THEOREM NativeAligned ==
  Spec /\ [](CodeBalanced /\ CallsFit) => []Aligned
<1>1. NativeIInv => Aligned
  <2> SUFFICES ASSUME NativeIInv, Running, In.op \notin {"ENTER", "TRAMPOLINE"}
               PROVE  Len(stack) % 2 = 0
    BY DEF Aligned
  <2>1. Shaped /\ Governed /\ ~ IsEntry(In)
    BY DEF NativeIInv, NativeInv, IsEntry
  <2>2. PICK l, h : l = Len(stack) /\ h = plan[pc].height
    OBVIOUS
  <2>3. l \in Nat /\ rbp \in Nat /\ h \in Nat /\ l = rbp + h /\ rbp % 2 = 0 /\ h % 2 = 0
    BY <2>1, <2>2, HeightHere
  <2>4. l % 2 = 0
    BY ONLY <2>3
  <2>5. QED BY <2>2, <2>4
<1>2. QED BY <1>1, NativeFrames, PTL

(* The words a return goes by are those the call and the prologue have     *)
(* put there, however many assignments to locals and arguments came        *)
(* between, and a throw finds the words of the frame it goes back to.      *)
THEOREM NativeReturnsHome ==
  Spec /\ [](CodeBalanced /\ CallsFit) => []ReturnsHome
<1>1. NativeIInv => ReturnsHome
  <2> SUFFICES ASSUME NativeIInv, Running, In.op \in {"RET", "THROW"} PROVE Trusted
    BY DEF ReturnsHome
  <2>1. Shaped /\ Governed /\ ~ IsEntry(In)
    BY DEF NativeIInv, NativeInv, IsEntry
  <2>2. PICK F, n : Control(code, plan, F, stack, handlers, rbp, pc) /\ n = Len(F)
    BY <2>1 DEF Governed
  <2>3. Good(code, image.entry, plan) /\ ~ IsEntry(code[pc + 1]) /\ Words(stack) /\ Words(handlers)
    BY <2>1, CodeGood DEF In, Shaped
  <2>4. CASE In.op = "RET"
    <3>1. n \in 2 .. n /\ rbp = F[n].base
      BY <2>2, <2>3, InBodyFacts
    <3>2. stack[rbp] = RbpOf(F[n - 1].base) /\ stack[rbp - 1] = RetTo(F[n - 1].pc)
      BY <2>2, <3>1 DEF Control, Links
    <3>3. stack[rbp].tag = "rbp" /\ stack[rbp - 1].tag = "ret"
      BY <3>2 DEF RbpOf, RetTo
    <3>4. QED BY <2>4, <3>3 DEF Trusted
  <2>5. CASE In.op = "THROW"
    <3>1. ASSUME handlers # <<>> PROVE Last(handlers).rsp <= Len(stack)
      <4>1. PICK h : h = handlers[Len(handlers)]
        OBVIOUS
      <4>2. h.rsp \in 0 .. Len(stack)
        BY <2>2, <2>3, <3>1, <4>1, ThrowStep
      <4>3. h.rsp <= Len(stack)
        BY <4>2
      <4>4. QED BY <4>1, <4>3 DEF Last
    <3>2. QED BY <2>5, <3>1 DEF Trusted
  <2>6. QED BY <2>4, <2>5
<1>2. QED BY <1>1, NativeFrames, PTL

(* When main returns, nothing is left on the stack, and no handler.        *)
THEOREM NativeCleanExit ==
  Spec /\ [](CodeBalanced /\ CallsFit) => []CleanExit
<1>1. NativeIInv => CleanExit
  BY DEF NativeIInv, NativeInv
<1>2. QED BY <1>1, NativeFrames, PTL
================================================================================
