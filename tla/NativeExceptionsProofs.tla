------------------------ MODULE NativeExceptionsProofs ------------------------
(***************************************************************************)
(* Proofs about NativeExceptions, for every number of functions, values    *)
(* and handlers and for contexts of any length.                            *)
(***************************************************************************)
EXTENDS NativeExceptions, SequenceFacts, SequenceTheorems, FunctionTheorems, FiniteSetTheorems, TLAPS

(* The three ways a context or a handler table changes.                    *)
LEMMA PrefixFacts ==
  ASSUME NEW S, NEW c \in Seq(S), NEW n \in 0 .. Len(c)
  PROVE  /\ Prefix(c, n) \in Seq(S)
         /\ Len(Prefix(c, n)) = n
         /\ \A i \in 1 .. n : Prefix(c, n)[i] = c[i]
<1>1. \A i \in 1 .. n : c[i] \in S
  BY ElementOfSeq
<1>2. Len(c) \in Nat
  BY LenProperties
<1>3. QED
  BY <1>1, <1>2, SubSeqProperties DEF Prefix

(* What the first type invariant says of the top of a sequence of length n.*)
LEMMA EntryFacts ==
  /\ \A f \in Fns : Frame(f) \in Entry
  /\ Frame(Main) \in Entry /\ Frame(Main).kind = "fn"
  /\ Loop \in Entry /\ Loop.kind = "loop"
  /\ Try \in Entry /\ Try.kind = "try"
  /\ \A v \in Vals : Catch(v) \in Entry /\ Catch(v).kind = "catch"
BY DEF Frame, Loop, Try, Catch, Entry

LEMMA NewHandlerFacts ==
  ASSUME ctl \in Seq(Entry), NEW i \in 1 .. Len(ctl)
  PROVE  /\ NewHandler(i) \in Handler
         /\ NewHandler(i).rbp = i
         /\ Len(NewHandler(i).pc) = Len(ctl) - i + 1
         /\ \A j \in 1 .. Len(ctl) - i + 1 : NewHandler(i).pc[j] = ctl[i + j - 1]
<1> DEFINE x == SubSeq(ctl, i, Len(ctl))
<1>1. Len(ctl) \in Nat /\ \A k \in i .. Len(ctl) : ctl[k] \in Entry
  BY LenProperties, ElementOfSeq
<1>2. /\ x \in Seq(Entry)
      /\ Len(x) = Len(ctl) - i + 1
      /\ \A j \in 1 .. Len(ctl) - i + 1 : x[j] = ctl[i + j - 1]
  BY <1>1, SubSeqProperties
<1> HIDE DEF x
<1>3. x # <<>>
  BY <1>1, <1>2, EmptySeq
<1>4. NewHandler(i) = [rbp |-> i, pc |-> x]
  BY DEF NewHandler, x
<1>5. QED
  BY <1>1, <1>2, <1>3, <1>4 DEF Handler
-------------------------------------------------------------------------------
(* Type correctness.                                                       *)

LEMMA TypeInit == Init => TypeOK
<1> SUFFICES ASSUME Init PROVE TypeOK
  OBVIOUS
<1>1. ctl \in Seq(Entry) /\ Len(ctl) > 0 /\ ctl[1] = Frame(Main)
  BY EntryFacts DEF Init
<1>2. handlers \in Seq(Handler) /\ Len(handlers) <= MaxHandlers
  BY EmptySeq, HandlersAssumption DEF Init
<1>3. QED
  BY <1>1, <1>2 DEF Init, TypeOK

LEMMA ContextAppend ==
  ASSUME TypeOK, NEW e \in Entry, ctl' = Append(ctl, e)
  PROVE  /\ ctl' \in Seq(Entry) /\ Len(ctl') > 0 /\ ctl'[1] = ctl[1]
         /\ Len(ctl') = Len(ctl) + 1
         /\ ctl'[Len(ctl) + 1] = e
         /\ \A i \in 1 .. Len(ctl) : ctl'[i] = ctl[i]
<1>1. ctl \in Seq(Entry) /\ Len(ctl) \in Nat /\ 1 \in 1 .. Len(ctl)
  BY LenProperties DEF TypeOK
<1>2. QED
  BY <1>1, AppendFacts

LEMMA ContextCut ==
  ASSUME TypeOK, NEW n \in 1 .. Len(ctl), ctl' = Prefix(ctl, n)
  PROVE  /\ ctl' \in Seq(Entry) /\ Len(ctl') > 0 /\ ctl'[1] = ctl[1]
         /\ Len(ctl') = n
         /\ \A i \in 1 .. n : ctl'[i] = ctl[i]
<1>1. ctl \in Seq(Entry) /\ Len(ctl) \in Nat /\ n \in 0 .. Len(ctl) /\ 1 \in 1 .. n
  BY LenProperties DEF TypeOK
<1>2. QED
  BY SMTT(40), <1>1, PrefixFacts

(* The context in which a catch block starts: the part below the handler's *)
(* frame stays, the part the catch label stands for is put on top of it.   *)
LEMMA ContextLand ==
  ASSUME TypeOK, NEW h \in Handler, FrameInPlace(h), NEW e \in Entry,
         ctl' = Append(Prefix(ctl, h.rbp - 1) \o h.pc, e)
  PROVE  /\ ctl' \in Seq(Entry) /\ Len(ctl') > 0 /\ ctl'[1] = ctl[1]
         /\ Len(ctl') = Body(h)
         /\ ctl'[Body(h)] = e
         /\ \A i \in 1 .. h.rbp - 1 : ctl'[i] = ctl[i]
         /\ \A j \in 1 .. Len(h.pc) : ctl'[h.rbp + j - 1] = h.pc[j]
<1> DEFINE n == h.rbp - 1
           x == h.pc
           p == Prefix(ctl, n)
           q == p \o x
<1>1. /\ ctl \in Seq(Entry) /\ Len(ctl) \in Nat
      /\ x \in Seq(Entry) /\ Len(x) \in Nat \ {0}
      /\ h.rbp \in 1 .. Len(ctl) /\ n \in 0 .. Len(ctl) /\ h.rbp = n + 1
      /\ ctl[h.rbp] = x[1]
      /\ Body(h) = n + Len(x) + 1
  <2>1. h.rbp \in Nat \ {0} /\ x \in Seq(Entry) \ {<<>>}
    BY DEF Handler
  <2>2. Len(x) \in Nat \ {0} /\ Len(ctl) \in Nat /\ ctl \in Seq(Entry)
    BY <2>1, EmptySeq, LenProperties DEF TypeOK
  <2>3. QED
    BY <2>1, <2>2 DEF FrameInPlace, Body
<1>2. ctl' = Append(q, e)
  OBVIOUS
<1> HIDE DEF n, x
<1>3. p \in Seq(Entry) /\ Len(p) = n /\ \A i \in 1 .. n : p[i] = ctl[i]
  BY <1>1, PrefixFacts
<1> HIDE DEF p
<1>4. /\ q \in Seq(Entry)
      /\ Len(q) = Len(p) + Len(x)
      /\ \A i \in 1 .. Len(p) : q[i] = p[i]
      /\ \A j \in 1 .. Len(x) : q[Len(p) + j] = x[j]
  <2>1. p \in Seq(Entry) /\ x \in Seq(Entry)
    BY <1>1, <1>3
  <2>2. QED
    BY ONLY <2>1, ConcatFacts
<1> HIDE DEF q
<1>5. e \in Entry
  OBVIOUS
<1>6. /\ ctl' \in Seq(Entry)
      /\ Len(ctl') = Len(q) + 1
      /\ ctl'[Len(q) + 1] = e
      /\ \A i \in 1 .. Len(q) : ctl'[i] = q[i]
  BY ONLY <1>2, <1>4, <1>5, AppendFacts
<1>7. Len(q) = n + Len(x)
  BY <1>3, <1>4
<1>8. \A i \in 1 .. n : ctl'[i] = ctl[i]
  BY SMTT(40), <1>1, <1>3, <1>4, <1>6, <1>7
<1>9. \A j \in 1 .. Len(x) : ctl'[n + j] = x[j]
  <2> TAKE j \in 1 .. Len(x)
  <2>1. n + j \in 1 .. Len(q) /\ q[n + j] = x[j]
    BY <1>1, <1>3, <1>4, <1>7
  <2>2. QED BY <2>1, <1>6
<1>10. ctl'[1] = ctl[1]
  <2>1. CASE n = 0
    <3>1. 1 \in 1 .. Len(x) /\ h.rbp = 1 /\ n + 1 = 1
      BY <1>1, <2>1
    <3>2. ctl'[n + 1] = x[1]
      BY <1>9, <3>1
    <3>3. QED BY <1>1, <3>1, <3>2
  <2>2. CASE n # 0
    BY <1>1, <1>8, <2>2
  <2>3. QED BY <2>1, <2>2
<1>11. ctl' \in Seq(Entry) /\ Len(ctl') = Body(h) /\ ctl'[Body(h)] = e /\ Len(ctl') > 0
  BY <1>1, <1>6, <1>7
<1>12. \A j \in 1 .. Len(h.pc) : ctl'[h.rbp + j - 1] = h.pc[j]
  <2> TAKE j \in 1 .. Len(h.pc)
  <2>1. h.rbp + j - 1 = n + j
    BY <1>1
  <2>2. QED BY <2>1, <1>9 DEF x
<1>13. QED
  BY <1>8, <1>10, <1>11, <1>12 DEF n

LEMMA TypeOpen ==
  ASSUME TypeOK, NEW e \in Entry, Open(e)
  PROVE  TypeOK'
BY ContextAppend DEF TypeOK, Open

LEMMA TypeJumpOut ==
  ASSUME TypeOK, NEW n \in 1 .. Len(ctl), NEW how, JumpOut(n, how)
  PROVE  TypeOK'
BY ContextCut DEF TypeOK, JumpOut

LEMMA TypeFinish ==
  ASSUME TypeOK, NEW w \in {"done", "uncaught", "overflow", "underflow"}, Finish(w)
  PROVE  TypeOK'
BY DEF TypeOK, Finish

(* The bottom of the context is the frame of the top-level code, so a      *)
(* construct other than a frame is never at the bottom.                    *)
LEMMA AboveMain ==
  ASSUME TypeOK, NEW i \in 1 .. Len(ctl), ctl[i].kind # "fn"
  PROVE  i - 1 \in 1 .. Len(ctl)
<1>1. i # 1
  BY EntryFacts DEF TypeOK
<1>2. QED
  BY <1>1, LenProperties DEF TypeOK

LEMMA TypeStep == TypeOK /\ [Next]_vars => TypeOK'
<1> SUFFICES ASSUME TypeOK, [Next]_vars PROVE TypeOK'
  OBVIOUS
<1>0. Len(ctl) \in Nat /\ Len(ctl) \in 1 .. Len(ctl) /\ Len(handlers) \in Nat
  BY LenProperties DEF TypeOK
<1>1. CASE Call
  BY <1>1, TypeOpen, EntryFacts DEF Call
<1>2. CASE Return
  <2>1. PICK i \in 1 .. Len(ctl) :
          IF i = 1 THEN Finish("done") ELSE JumpOut(i - 1, "return")
    BY <1>2 DEF Return
  <2>2. CASE i = 1
    BY <2>1, <2>2, TypeFinish
  <2>3. CASE i # 1
    BY <1>0, <2>1, <2>3, TypeJumpOut
  <2>4. QED BY <2>2, <2>3
<1>3. CASE TailCall
  BY <1>0, <1>3, TypeJumpOut DEF TailCall
<1>4. CASE EnterLoop
  BY <1>4, TypeOpen, EntryFacts DEF EnterLoop
<1>5. CASE Break
  <2>1. PICK i \in 1 .. Len(ctl) : IsCurrentLoop(ctl, i) /\ JumpOut(i - 1, "break")
    BY <1>5 DEF Break
  <2>2. i - 1 \in 1 .. Len(ctl)
    BY <2>1, AboveMain DEF IsCurrentLoop
  <2>3. QED BY <2>1, <2>2, TypeJumpOut
<1>6. CASE Continue
  BY <1>6, TypeJumpOut DEF Continue
<1>7. CASE cl_try_push
  <2>1. CASE Len(handlers) + 1 > MaxHandlers
    BY <1>7, <2>1, TypeFinish DEF cl_try_push
  <2>2. CASE ~ (Len(handlers) + 1 > MaxHandlers)
    <3>1. PICK i \in 1 .. Len(ctl) : handlers' = Append(handlers, NewHandler(i))
      BY <1>7, <2>2 DEF cl_try_push
    <3>2. handlers' \in Seq(Handler) /\ Len(handlers') = Len(handlers) + 1
      BY <3>1, NewHandlerFacts, AppendFacts DEF TypeOK
    <3>3. ctl' = Append(ctl, Try)
      BY <1>7, <2>2 DEF cl_try_push
    <3>4. ctl' \in Seq(Entry) /\ Len(ctl') > 0 /\ ctl'[1] = ctl[1]
      BY <3>3, EntryFacts, ContextAppend
    <3>5. Len(handlers') <= MaxHandlers
      BY <1>0, <2>2, <3>2, HandlersAssumption
    <3>6. QED
      BY <1>7, <2>2, <3>2, <3>4, <3>5 DEF TypeOK, cl_try_push
  <2>3. QED BY <2>1, <2>2
<1>8. CASE cl_try_pop
  <2>1. CASE handlers = <<>>
    BY <1>8, <2>1, TypeFinish DEF cl_try_pop
  <2>2. CASE handlers # <<>>
    <3>1. Len(handlers) - 1 \in 0 .. Len(handlers)
      BY <1>0, <2>2, EmptySeq DEF TypeOK
    <3>2. handlers' \in Seq(Handler) /\ Len(handlers') = Len(handlers) - 1
      BY <1>8, <2>2, <3>1, PrefixFacts DEF cl_try_pop, TypeOK
    <3>3. Len(ctl) - 1 \in 1 .. Len(ctl)
      BY <1>0, <1>8, AboveMain, EntryFacts DEF cl_try_pop, Top
    <3>4. ctl' \in Seq(Entry) /\ Len(ctl') > 0 /\ ctl'[1] = ctl[1]
      BY <1>8, <2>2, <3>3, ContextCut DEF cl_try_pop
    <3>5. Len(handlers') <= MaxHandlers
      BY <1>0, <3>2, HandlersAssumption DEF TypeOK
    <3>6. QED
      BY <1>8, <2>2, <3>2, <3>4, <3>5 DEF cl_try_pop, TypeOK
  <2>3. QED BY <2>1, <2>2
<1>9. CASE LeaveCatch
  <2>1. Len(ctl) - 1 \in 1 .. Len(ctl)
    BY <1>0, <1>9, AboveMain DEF LeaveCatch, Top
  <2>2. ctl' \in Seq(Entry) /\ Len(ctl') > 0 /\ ctl'[1] = ctl[1]
    BY <1>9, <2>1, ContextCut DEF LeaveCatch
  <2>3. QED
    BY <1>9, <2>2 DEF LeaveCatch, TypeOK
<1>10. CASE Throw
  <2>1. PICK v \in Vals : cl_throw(v)
    BY <1>10 DEF Throw
  <2>2. CASE handlers = <<>>
    BY <2>1, <2>2, TypeFinish DEF cl_throw
  <2>3. CASE handlers # <<>>
    <3> DEFINE h == handlers[Len(handlers)]
    <3>1. Len(handlers) - 1 \in 0 .. Len(handlers) /\ h \in Handler
      BY <1>0, <2>3, EmptySeq, ElementOfSeq DEF TypeOK
    <3>3. handlers' \in Seq(Handler) /\ Len(handlers') = Len(handlers) - 1
      BY <2>1, <2>3, <3>1, PrefixFacts DEF cl_throw, TypeOK
    <3>4. Len(handlers') <= MaxHandlers
      BY <1>0, <3>3, HandlersAssumption DEF TypeOK
    <3>5. ctl' \in Seq(Entry) /\ Len(ctl') > 0 /\ ctl'[1] = ctl[1]
      <4>1. CASE FrameInPlace(h)
        BY <2>1, <2>3, <3>1, <4>1, EntryFacts, ContextLand DEF cl_throw
      <4>2. CASE ~ FrameInPlace(h)
        BY <2>1, <2>3, <4>2 DEF cl_throw, TypeOK
      <4>3. QED BY <4>1, <4>2
    <3>6. exc' = v /\ (status' = status \/ status' = "wild")
      BY <2>1, <2>3 DEF cl_throw
    <3>7. QED
      BY <3>3, <3>4, <3>5, <3>6 DEF TypeOK
  <2>4. QED BY <2>2, <2>3
<1>11. CASE UNCHANGED vars
  BY <1>11 DEF TypeOK, vars
<1>12. QED
  BY <1>1, <1>2, <1>3, <1>4, <1>5, <1>6, <1>7, <1>8, <1>9, <1>10, <1>11 DEF Next

(* The state of the runtime and of the emitted code keeps its types, and   *)
(* the handler table its limit, whatever early exits the program uses.     *)
THEOREM TypeCorrect == Spec => []TypeOK
<1>1. Init => TypeOK
  BY TypeInit
<1>2. TypeOK /\ [Next]_vars => TypeOK'
  BY TypeStep
<1>3. QED
  BY <1>1, <1>2, PTL DEF Spec-------------------------------------------------------------------------------
(* A running body keeps its handler.  The handlers that early exits leave  *)
(* behind are in the way: the one pushed for a body need not be the only   *)
(* one for its position, nor the topmost.  What is invariant is that every *)
(* handler above it in the table was pushed deeper in the context, and     *)
(* that the same was true, when a handler was pushed, of the bodies around *)
(* it: a throw that lands there finds them covered again.                  *)

LastHandler(s, i, n) == \E t \in 1 .. n :
  /\ Body(s[t]) = i
  /\ \A m \in t + 1 .. n : Body(s[m]) > i

Covered(c, s) == \A i \in OpenTries(c) : LastHandler(s, i, Len(s))

SavedAt(s, k) == \A j \in 1 .. Len(s[k].pc) :
  s[k].pc[j].kind = "try" => LastHandler(s, s[k].rbp + j - 1, k - 1)

SavedCovered(s) == \A k \in 1 .. Len(s) : SavedAt(s, k)

CoverInv ==
  /\ TypeOK
  /\ status = "wild" \/ Covered(ctl, handlers)
  /\ SavedCovered(handlers)
  /\ status # "underflow"

LEMMA LastHandlerSame ==
  ASSUME NEW s, NEW r, NEW i, NEW n \in Nat, \A k \in 1 .. n : r[k] = s[k],
         LastHandler(s, i, n)
  PROVE  LastHandler(r, i, n)
<1>1. PICK t \in 1 .. n : Body(s[t]) = i /\ \A m \in t + 1 .. n : Body(s[m]) > i
  BY DEF LastHandler
<1>2. \A m \in t + 1 .. n : m \in 1 .. n
  OBVIOUS
<1>3. Body(r[t]) = i /\ \A m \in t + 1 .. n : Body(r[m]) > i
  BY <1>1, <1>2
<1>4. QED
  BY <1>3 DEF LastHandler

(* Every step that leaves the table alone and opens no protected body.     *)
LEMMA CoverSameTable ==
  ASSUME CoverInv, status = "run", TypeOK',
         UNCHANGED handlers, status' # "underflow",
         OpenTries(ctl') \subseteq OpenTries(ctl)
  PROVE  CoverInv'
BY DEF CoverInv, Covered, SavedCovered

LEMMA CoverOpen ==
  ASSUME CoverInv, status = "run", NEW e \in Entry, e.kind # "try", Open(e)
  PROVE  CoverInv'
<1>1. TypeOK /\ TypeOK' /\ Len(ctl) \in Nat
  BY TypeOpen, LenProperties DEF CoverInv, TypeOK
<1>2. /\ Len(ctl') = Len(ctl) + 1
      /\ ctl'[Len(ctl) + 1] = e
      /\ \A i \in 1 .. Len(ctl) : ctl'[i] = ctl[i]
  BY <1>1, ContextAppend DEF Open
<1>3. OpenTries(ctl') \subseteq OpenTries(ctl)
  BY <1>1, <1>2 DEF OpenTries
<1>4. QED
  BY <1>1, <1>3, CoverSameTable DEF CoverInv, Open

LEMMA CoverCut ==
  ASSUME CoverInv, status = "run", TypeOK',
         NEW n \in 1 .. Len(ctl), ctl' = Prefix(ctl, n),
         UNCHANGED handlers, UNCHANGED status
  PROVE  CoverInv'
<1>1. TypeOK /\ Len(ctl) \in Nat
  BY LenProperties DEF CoverInv, TypeOK
<1>2. Len(ctl') = n /\ \A i \in 1 .. n : ctl'[i] = ctl[i]
  BY <1>1, ContextCut
<1>3. OpenTries(ctl') \subseteq OpenTries(ctl)
  BY <1>1, <1>2 DEF OpenTries
<1>4. QED
  BY <1>3, CoverSameTable DEF CoverInv

LEMMA CoverFinish ==
  ASSUME CoverInv, status = "run", TypeOK',
         NEW w \in {"done", "uncaught", "overflow"}, Finish(w)
  PROVE  CoverInv'
BY CoverSameTable DEF Finish

(* A step that keeps the first n handlers keeps what they saved covered.   *)
LEMMA SavedSame ==
  ASSUME NEW s, NEW r, NEW n \in Nat, \A l \in 1 .. n : r[l] = s[l],
         NEW k \in 1 .. n, SavedAt(s, k)
  PROVE  SavedAt(r, k)
<1>1. k - 1 \in Nat /\ r[k] = s[k] /\ \A l \in 1 .. k - 1 : r[l] = s[l]
  OBVIOUS
<1> SUFFICES ASSUME NEW j \in 1 .. Len(r[k].pc), r[k].pc[j].kind = "try"
             PROVE  LastHandler(r, r[k].rbp + j - 1, k - 1)
  BY DEF SavedAt
<1>2. LastHandler(s, r[k].rbp + j - 1, k - 1)
  BY <1>1 DEF SavedAt
<1>3. QED
  BY ONLY <1>1, <1>2, LastHandlerSame

LEMMA CoverPush ==
  ASSUME CoverInv, status = "run", TypeOK',
         cl_try_push, Len(handlers) + 1 <= MaxHandlers
  PROVE  CoverInv'
<1>1. PICK f \in 1 .. Len(ctl) : handlers' = Append(handlers, NewHandler(f))
  BY HandlersAssumption, LenProperties DEF cl_try_push, CoverInv, TypeOK
<1> DEFINE h == NewHandler(f)
           n == Len(handlers)
<1>2. TypeOK /\ Len(ctl) \in Nat /\ n \in Nat /\ handlers \in Seq(Handler)
  BY LenProperties DEF CoverInv, TypeOK
<1>3. ctl' = Append(ctl, Try) /\ status' = status
  BY <1>2, HandlersAssumption DEF cl_try_push
<1>4. /\ Len(ctl') = Len(ctl) + 1
      /\ \A i \in 1 .. Len(ctl) : ctl'[i] = ctl[i]
  BY <1>2, <1>3, ContextAppend, EntryFacts
<1>5. /\ h \in Handler /\ h.rbp = f /\ Len(h.pc) = Len(ctl) - f + 1
      /\ \A j \in 1 .. Len(ctl) - f + 1 : h.pc[j] = ctl[f + j - 1]
  BY <1>2, NewHandlerFacts DEF TypeOK
<1> HIDE DEF h, n
<1>6. Body(h) = Len(ctl) + 1
  BY <1>2, <1>5 DEF Body
<1>7. /\ Len(handlers') = n + 1
      /\ handlers'[n + 1] = h
      /\ \A k \in 1 .. n : handlers'[k] = handlers[k]
  BY <1>1, <1>2, <1>5, AppendFacts DEF h, n
<1>8. \A i \in OpenTries(ctl) : LastHandler(handlers, i, n)
  BY DEF CoverInv, Covered, n
<1>9. \A i \in OpenTries(ctl) : LastHandler(handlers', i, n + 1)
  <2> TAKE i \in OpenTries(ctl)
  <2>1. LastHandler(handlers, i, n)
    BY <1>8
  <2>2. PICK t \in 1 .. n :
          /\ Body(handlers[t]) = i
          /\ \A m \in t + 1 .. n : Body(handlers[m]) > i
    BY <2>1 DEF LastHandler
  <2>3. t \in 1 .. n + 1 /\ Body(handlers'[t]) = i
    BY <1>2, <1>7, <2>2
  <2>4. Body(handlers'[n + 1]) > i
    BY <1>2, <1>6, <1>7 DEF OpenTries
  <2>5. \A m \in t + 1 .. n + 1 : Body(handlers'[m]) > i
    BY <1>2, <1>7, <2>2, <2>4
  <2>6. QED
    BY <2>3, <2>5 DEF LastHandler
<1>10. LastHandler(handlers', Len(ctl) + 1, n + 1)
  BY <1>2, <1>6, <1>7 DEF LastHandler
<1>11. Covered(ctl', handlers')
  <2>1. OpenTries(ctl') \subseteq OpenTries(ctl) \cup {Len(ctl) + 1}
    BY <1>2, <1>4 DEF OpenTries
  <2>2. QED
    BY <1>7, <1>9, <1>10, <2>1 DEF Covered
<1>12. SavedCovered(handlers')
  <2>1. ASSUME NEW k \in 1 .. n PROVE SavedAt(handlers', k)
    <3>1. SavedAt(handlers, k)
      BY DEF CoverInv, SavedCovered, n
    <3>2. QED
      BY ONLY <1>2, <1>7, <2>1, <3>1, SavedSame
  <2>2. SavedAt(handlers', n + 1)
    <3> SUFFICES ASSUME NEW j \in 1 .. Len(h.pc), h.pc[j].kind = "try"
                 PROVE  LastHandler(handlers', h.rbp + j - 1, n)
      BY <1>2, <1>7 DEF SavedAt
    <3>1. f + j - 1 \in OpenTries(ctl)
      BY <1>2, <1>5 DEF OpenTries
    <3>2. LastHandler(handlers, h.rbp + j - 1, n)
      BY <1>5, <1>8, <3>1
    <3>3. QED
      BY <1>2, <1>7, <3>2, LastHandlerSame
  <2>3. \A k \in 1 .. Len(handlers') : k \in 1 .. n \/ k = n + 1
    BY <1>2, <1>7
  <2>4. QED
    BY <2>1, <2>2, <2>3 DEF SavedCovered
<1>13. QED
  BY <1>3, <1>11, <1>12 DEF CoverInv
(* What is left of the table when its topmost handler goes.                *)
LEMMA CoverDrop ==
  ASSUME CoverInv, status = "run", handlers # <<>>,
         handlers' = Prefix(handlers, Len(handlers) - 1)
  PROVE  /\ Len(handlers) \in Nat \ {0}
         /\ Len(handlers') = Len(handlers) - 1
         /\ \A k \in 1 .. Len(handlers) - 1 : handlers'[k] = handlers[k]
         /\ SavedCovered(handlers')
         /\ \A i \in OpenTries(ctl) :
              i < Body(handlers[Len(handlers)])
                => LastHandler(handlers', i, Len(handlers'))
<1> DEFINE n == Len(handlers)
<1>1. n \in Nat \ {0} /\ n - 1 \in 0 .. n /\ handlers \in Seq(Handler)
  BY EmptySeq, LenProperties DEF CoverInv, TypeOK
<1>2. Len(handlers') = n - 1 /\ \A k \in 1 .. n - 1 : handlers'[k] = handlers[k]
  BY <1>1, PrefixFacts
<1>3. n - 1 \in Nat
  BY <1>1
<1>4. ASSUME NEW k \in 1 .. n - 1 PROVE SavedAt(handlers', k)
  <2>1. SavedAt(handlers, k)
    BY <1>1 DEF CoverInv, SavedCovered
  <2>2. QED
    BY ONLY <1>2, <1>3, <1>4, <2>1, SavedSame
<1>5. SavedCovered(handlers')
  BY <1>2, <1>4 DEF SavedCovered
<1>6. ASSUME NEW i \in OpenTries(ctl), i < Body(handlers[n])
      PROVE  LastHandler(handlers', i, n - 1)
  <2>1. PICK t \in 1 .. n :
          /\ Body(handlers[t]) = i
          /\ \A m \in t + 1 .. n : Body(handlers[m]) > i
    BY DEF CoverInv, Covered, LastHandler
  <2>2. t # n
    BY <1>6, <2>1 DEF OpenTries
  <2>3. t \in 1 .. n - 1 /\ \A m \in t + 1 .. n - 1 : m \in t + 1 .. n /\ m \in 1 .. n - 1
    BY <1>1, <2>1, <2>2
  <2>4. QED
    BY <1>2, <2>1, <2>3 DEF LastHandler
<1>7. QED
  BY <1>1, <1>2, <1>5, <1>6

(* The end of a protected body pops its own handler: the handler of the    *)
(* innermost body is the topmost of the table.                             *)
LEMMA CoverPop ==
  ASSUME CoverInv, status = "run", TypeOK', cl_try_pop
  PROVE  CoverInv'
<1> DEFINE n == Len(handlers)
           l == Len(ctl)
<1>1. TypeOK /\ l \in Nat \ {0} /\ n \in Nat
  BY LenProperties DEF CoverInv, TypeOK
<1>2. l \in OpenTries(ctl)
  BY <1>1, EntryFacts DEF cl_try_pop, Top, OpenTries
<1>3. PICK t \in 1 .. n :
        /\ Body(handlers[t]) = l
        /\ \A m \in t + 1 .. n : Body(handlers[m]) > l
  BY <1>2 DEF CoverInv, Covered, LastHandler
<1>4. n \in 1 .. n /\ Body(handlers[n]) \in Int /\ handlers # <<>>
  <2>1. n \in 1 .. n
    BY <1>1, <1>3
  <2>2. handlers[n] \in Handler
    BY <1>1, <2>1, ElementOfSeq DEF TypeOK
  <2>3. QED
    BY <2>1, <2>2, EmptySeq, LenProperties DEF Handler, Body
<1>5. Body(handlers[n]) >= l
  BY <1>1, <1>3, <1>4
<1>6. /\ handlers' = Prefix(handlers, n - 1)
      /\ ctl' = Prefix(ctl, l - 1)
      /\ status' = status
  BY <1>4 DEF cl_try_pop
<1>7. l - 1 \in 1 .. l
  BY <1>1, AboveMain, EntryFacts DEF cl_try_pop, Top
<1>8. Len(ctl') = l - 1 /\ \A i \in 1 .. l - 1 : ctl'[i] = ctl[i]
  BY <1>1, <1>6, <1>7, ContextCut
<1>9. /\ SavedCovered(handlers')
      /\ \A i \in OpenTries(ctl) :
           i < Body(handlers[n]) => LastHandler(handlers', i, Len(handlers'))
  BY <1>4, <1>6, CoverDrop
<1>10. \A i \in OpenTries(ctl') : i \in OpenTries(ctl) /\ i < Body(handlers[n])
  BY <1>1, <1>4, <1>8, <1>5 DEF OpenTries
<1>11. Covered(ctl', handlers')
  BY <1>9, <1>10 DEF Covered
<1>12. QED
  BY <1>6, <1>9, <1>11 DEF CoverInv

(* A throw removes the topmost handler and lands at its body: the bodies   *)
(* below its frame were covered by other handlers, the bodies around its   *)
(* try statement by those that were there when it was pushed.              *)
LEMMA CoverThrow ==
  ASSUME CoverInv, status = "run", TypeOK', NEW v \in Vals, cl_throw(v)
  PROVE  CoverInv'
<1> DEFINE n == Len(handlers)
           h == handlers[n]
<1>1. CASE handlers = <<>>
  BY <1>1, CoverFinish DEF cl_throw
<1>2. CASE handlers # <<>>
  <2>1. TypeOK /\ handlers' = Prefix(handlers, n - 1)
    BY <1>2 DEF cl_throw, CoverInv
  <2>2. /\ n \in Nat \ {0}
        /\ Len(handlers') = n - 1
        /\ \A k \in 1 .. n - 1 : handlers'[k] = handlers[k]
        /\ SavedCovered(handlers')
        /\ \A i \in OpenTries(ctl) :
             i < Body(h) => LastHandler(handlers', i, Len(handlers'))
    BY <1>2, <2>1, CoverDrop
  <2>3. h \in Handler
    BY <2>1, <2>2, ElementOfSeq DEF TypeOK
  <2>4. h.rbp \in Nat \ {0} /\ Len(h.pc) \in Nat /\ Len(ctl) \in Nat
    BY <2>1, <2>3, LenProperties DEF Handler, TypeOK
  <2>5. CASE FrameInPlace(h)
    <3>1. ctl' = Append(Prefix(ctl, h.rbp - 1) \o h.pc, Catch(v)) /\ status' = status
      BY <1>2, <2>5 DEF cl_throw
    <3>2. /\ Len(ctl') = Body(h)
          /\ ctl'[Body(h)] = Catch(v)
          /\ \A i \in 1 .. h.rbp - 1 : ctl'[i] = ctl[i]
          /\ \A j \in 1 .. Len(h.pc) : ctl'[h.rbp + j - 1] = h.pc[j]
      BY <2>1, <2>3, <2>5, <3>1, EntryFacts, ContextLand
    <3>3. h.rbp <= Len(ctl) /\ Body(h) = h.rbp + Len(h.pc)
      BY <2>5 DEF FrameInPlace, Body
    <3> HIDE DEF h, n
    <3>4. ASSUME NEW i \in OpenTries(ctl')
          PROVE  LastHandler(handlers', i, Len(handlers'))
      <4>1. i \in 1 .. Body(h) /\ ctl'[i].kind = "try"
        BY <3>2 DEF OpenTries
      <4>2. CASE i < h.rbp
        <5>1. i \in OpenTries(ctl) /\ i < Body(h)
          BY <2>4, <3>2, <3>3, <4>1, <4>2 DEF OpenTries
        <5>2. QED BY <2>2, <5>1
      <4>3. CASE i >= h.rbp /\ i < Body(h)
        <5>1. PICK j \in 1 .. Len(h.pc) : i = h.rbp + j - 1
          <6>1. i - h.rbp + 1 \in 1 .. Len(h.pc) /\ i = h.rbp + (i - h.rbp + 1) - 1
            BY SMTT(40), <2>4, <3>3, <4>1, <4>3
          <6>2. QED BY <6>1
        <5>2. h.pc[j].kind = "try"
          BY <3>2, <4>1, <5>1
        <5>3. LastHandler(handlers, i, n - 1)
          BY <2>2, <5>1, <5>2 DEF CoverInv, SavedCovered, SavedAt, n, h
        <5>4. n - 1 \in Nat
          BY <2>2
        <5>5. LastHandler(handlers', i, n - 1)
          BY ONLY <2>2, <5>3, <5>4, LastHandlerSame
        <5>6. QED BY <2>2, <5>5
      <4>4. CASE i = Body(h)
        BY <3>2, <4>1, <4>4, EntryFacts
      <4>5. QED
        BY <2>4, <3>3, <4>1, <4>2, <4>3, <4>4
    <3>5. QED
      BY <2>2, <3>1, <3>4 DEF CoverInv, Covered
  <2>6. CASE ~ FrameInPlace(h)
    <3>1. ctl' = ctl /\ status' = "wild"
      BY <1>2, <2>6 DEF cl_throw
    <3>2. QED
      BY <2>2, <3>1 DEF CoverInv, Covered
  <2>7. QED BY <2>5, <2>6
<1>3. QED BY <1>1, <1>2
LEMMA CoverInit == Init => CoverInv
<1> SUFFICES ASSUME Init PROVE CoverInv
  OBVIOUS
<1>1. Len(ctl) = 1 /\ ctl[1].kind = "fn" /\ Len(handlers) = 0
  BY EntryFacts, EmptySeq DEF Init
<1>2. OpenTries(ctl) = {}
  BY <1>1 DEF OpenTries
<1>3. QED
  BY <1>1, <1>2, TypeInit DEF Init, CoverInv, Covered, SavedCovered

LEMMA CoverStep == CoverInv /\ [Next]_vars => CoverInv'
<1> SUFFICES ASSUME CoverInv, [Next]_vars PROVE CoverInv'
  OBVIOUS
<1>1. TypeOK /\ TypeOK' /\ Len(ctl) \in Nat \ {0} /\ Len(handlers) \in Nat
  BY TypeStep, LenProperties DEF CoverInv, TypeOK
<1>2. CASE UNCHANGED vars
  BY <1>1, <1>2 DEF CoverInv, Covered, SavedCovered, SavedAt, LastHandler, vars
<1>3. CASE Next
  <2>0. status = "run"
    BY <1>3 DEF Next
  <2>1. CASE Call
    BY <2>0, <2>1, CoverOpen, EntryFacts DEF Call, Frame
  <2>2. CASE Return
    <3>1. PICK i \in 1 .. Len(ctl) :
            IF i = 1 THEN Finish("done") ELSE JumpOut(i - 1, "return")
      BY <2>2 DEF Return
    <3>2. CASE i = 1
      BY <1>1, <2>0, <3>1, <3>2, CoverFinish
    <3>3. CASE i # 1
      <4>1. i - 1 \in 1 .. Len(ctl) /\ JumpOut(i - 1, "return")
        BY <1>1, <3>1, <3>3
      <4>2. QED
        BY <1>1, <2>0, <4>1, CoverCut DEF JumpOut
    <3>4. QED BY <3>2, <3>3
  <2>3. CASE TailCall
    <3>1. PICK i \in 2 .. Len(ctl) : JumpOut(i, "tailcall")
      BY <2>3 DEF TailCall
    <3>2. i \in 1 .. Len(ctl)
      BY <1>1
    <3>3. QED
      BY <1>1, <2>0, <3>1, <3>2, CoverCut DEF JumpOut
  <2>4. CASE EnterLoop
    BY <2>0, <2>4, CoverOpen, EntryFacts DEF EnterLoop
  <2>5. CASE Break
    <3>1. PICK i \in 1 .. Len(ctl) : IsCurrentLoop(ctl, i) /\ JumpOut(i - 1, "break")
      BY <2>5 DEF Break
    <3>2. i - 1 \in 1 .. Len(ctl)
      BY <1>1, <3>1, AboveMain DEF IsCurrentLoop
    <3>3. QED
      BY <1>1, <2>0, <3>1, <3>2, CoverCut DEF JumpOut
  <2>6. CASE Continue
    BY <1>1, <2>0, <2>6, CoverCut DEF Continue, JumpOut
  <2>7. CASE cl_try_push
    <3>1. CASE Len(handlers) + 1 > MaxHandlers
      BY <1>1, <2>0, <2>7, <3>1, CoverFinish DEF cl_try_push
    <3>2. CASE Len(handlers) + 1 <= MaxHandlers
      BY <1>1, <2>0, <2>7, <3>2, CoverPush
    <3>3. QED
      BY <1>1, <3>1, <3>2, HandlersAssumption
  <2>8. CASE cl_try_pop
    BY <1>1, <2>0, <2>8, CoverPop
  <2>9. CASE LeaveCatch
    <3>1. Len(ctl) - 1 \in 1 .. Len(ctl)
      BY <1>1, <2>9, AboveMain DEF LeaveCatch, Top
    <3>2. QED
      BY <1>1, <2>0, <2>9, <3>1, CoverCut DEF LeaveCatch
  <2>10. CASE Throw
    BY <1>1, <2>0, <2>10, CoverThrow DEF Throw
  <2>11. QED
    BY <1>3, <2>1, <2>2, <2>3, <2>4, <2>5, <2>6, <2>7, <2>8, <2>9, <2>10 DEF Next
<1>4. QED
  BY <1>2, <1>3

(* Whatever a program does - returning, jumping or tail calling out of     *)
(* protected bodies in any order - and for a table of any size: a running  *)
(* body has a handler, and its end never pops an empty table.              *)
THEOREM BodiesCovered == Spec => []BodiesKeepHandlers
<1>1. Init => CoverInv
  BY CoverInit
<1>2. CoverInv /\ [Next]_vars => CoverInv'
  BY CoverStep
<1>3. CoverInv => BodiesKeepHandlers
  <2> SUFFICES ASSUME CoverInv, status # "wild", NEW i \in OpenTries(ctl)
               PROVE  \E k \in 1 .. Len(handlers) : Body(handlers[k]) = i
    BY DEF CoverInv, BodiesKeepHandlers, EachBodyHandled
  <2> QED
    BY DEF CoverInv, Covered, LastHandler
<1>4. QED
  BY <1>1, <1>2, <1>3, PTL DEF Spec-------------------------------------------------------------------------------
(* A program that never leaves a protected body early.                     *)

MatchInv ==
  /\ TypeOK
  /\ HandlersMatch
  /\ status \notin {"underflow", "wild"}
  /\ status = "overflow" => Len(handlers) = MaxHandlers

LEMMA HandlerTypes ==
  ASSUME TypeOK, NEW k \in 1 .. Len(handlers)
  PROVE  /\ handlers[k] \in Handler
         /\ handlers[k].rbp \in Nat \ {0}
         /\ handlers[k].pc \in Seq(Entry)
         /\ Len(handlers[k].pc) \in Nat \ {0}
         /\ Body(handlers[k]) \in Nat
<1>1. handlers[k] \in Handler
  BY ElementOfSeq DEF TypeOK
<1>2. handlers[k].rbp \in Nat \ {0} /\ handlers[k].pc \in Seq(Entry) \ {<<>>}
  BY <1>1 DEF Handler
<1>3. Len(handlers[k].pc) \in Nat \ {0}
  BY <1>2, EmptySeq, LenProperties
<1>4. QED
  BY <1>1, <1>2, <1>3 DEF Body

(* Steps that leave the table alone and, up to the last running body, the  *)
(* context too.                                                            *)
LEMMA MatchSameTable ==
  ASSUME MatchInv, TypeOK', UNCHANGED handlers,
         status' = status \/ status' \in {"done", "uncaught"}
           \/ (status' = "overflow" /\ Len(handlers) = MaxHandlers),
         OpenTries(ctl') = OpenTries(ctl),
         \A i \in OpenTries(ctl) : \A j \in 1 .. i : ctl'[j] = ctl[j]
  PROVE  MatchInv'
<1>1. TypeOK /\ HandlersMatch /\ Len(ctl) \in Nat /\ Len(ctl') \in Nat
  BY LenProperties DEF MatchInv, TypeOK
<1>2. ASSUME NEW k \in 1 .. Len(handlers)
      PROVE  /\ Body(handlers[k]) <= Len(ctl')
             /\ ctl'[Body(handlers[k])].kind = "try"
             /\ \A j \in 1 .. Len(handlers[k].pc) :
                  handlers[k].pc[j] = ctl'[handlers[k].rbp + j - 1]
  <2> DEFINE h == handlers[k]
  <2>1. /\ h.rbp \in Nat \ {0} /\ Len(h.pc) \in Nat \ {0}
        /\ Body(h) = h.rbp + Len(h.pc)
    BY <1>1, HandlerTypes DEF Body
  <2>2. /\ Body(h) <= Len(ctl)
        /\ ctl[Body(h)].kind = "try"
        /\ \A j \in 1 .. Len(h.pc) : h.pc[j] = ctl[h.rbp + j - 1]
    BY <1>1 DEF HandlersMatch, EachHandlerOpen
  <2> HIDE DEF h
  <2>3. Body(h) \in OpenTries(ctl)
    BY <1>1, <2>1, <2>2 DEF OpenTries
  <2>4. Body(h) \in OpenTries(ctl') /\ \A j \in 1 .. Body(h) : ctl'[j] = ctl[j]
    BY <2>3
  <2>5. \A j \in 1 .. Len(h.pc) : h.rbp + j - 1 \in 1 .. Body(h)
    BY <2>1
  <2>6. \A j \in 1 .. Len(h.pc) : h.pc[j] = ctl'[h.rbp + j - 1]
    BY <2>2, <2>4, <2>5
  <2>7. QED
    BY <1>1, <2>4, <2>6 DEF OpenTries, h
<1>3. EachHandlerOpen'
  BY <1>2 DEF EachHandlerOpen
<1>4. HandlersOrdered' /\ EachBodyHandled'
  BY <1>1 DEF HandlersMatch, HandlersOrdered, EachBodyHandled
<1>5. QED
  BY <1>3, <1>4 DEF MatchInv, HandlersMatch

LEMMA MatchOpen ==
  ASSUME MatchInv, NEW e \in Entry, e.kind # "try", Open(e)
  PROVE  MatchInv'
<1>1. TypeOK /\ TypeOK' /\ Len(ctl) \in Nat
  BY TypeOpen, LenProperties DEF MatchInv, TypeOK
<1>2. /\ Len(ctl') = Len(ctl) + 1
      /\ ctl'[Len(ctl) + 1] = e
      /\ \A i \in 1 .. Len(ctl) : ctl'[i] = ctl[i]
  BY <1>1, ContextAppend DEF Open
<1>3. OpenTries(ctl') = OpenTries(ctl)
  BY <1>1, <1>2 DEF OpenTries
<1>4. \A i \in OpenTries(ctl) : \A j \in 1 .. i : ctl'[j] = ctl[j]
  BY <1>1, <1>2 DEF OpenTries
<1>5. QED
  BY <1>1, <1>3, <1>4, MatchSameTable DEF Open

LEMMA MatchCut ==
  ASSUME MatchInv, TypeOK', NEW n \in 1 .. Len(ctl), ctl' = Prefix(ctl, n),
         NoTryAbove(ctl, n), UNCHANGED handlers, UNCHANGED status
  PROVE  MatchInv'
<1>1. TypeOK /\ Len(ctl) \in Nat
  BY LenProperties DEF MatchInv, TypeOK
<1>2. Len(ctl') = n /\ \A i \in 1 .. n : ctl'[i] = ctl[i]
  BY <1>1, ContextCut
<1>3. \A i \in OpenTries(ctl) : i <= n
  BY <1>1 DEF OpenTries, NoTryAbove
<1>4. OpenTries(ctl') = OpenTries(ctl)
  BY <1>1, <1>2, <1>3 DEF OpenTries
<1>5. \A i \in OpenTries(ctl) : \A j \in 1 .. i : ctl'[j] = ctl[j]
  BY <1>1, <1>2, <1>3 DEF OpenTries
<1>6. QED
  BY <1>4, <1>5, MatchSameTable

LEMMA MatchFinish ==
  ASSUME MatchInv, TypeOK', NEW w, Finish(w),
         w \in {"done", "uncaught"} \/ (w = "overflow" /\ Len(handlers) = MaxHandlers)
  PROVE  MatchInv'
BY DEF Finish, MatchInv, HandlersMatch, EachHandlerOpen, HandlersOrdered, EachBodyHandled

LEMMA MatchPush ==
  ASSUME MatchInv, TypeOK', cl_try_push, Len(handlers) + 1 <= MaxHandlers
  PROVE  MatchInv'
<1>1. PICK f \in 1 .. Len(ctl) : handlers' = Append(handlers, NewHandler(f))
  BY HandlersAssumption, LenProperties DEF cl_try_push, MatchInv, TypeOK
<1> DEFINE h == NewHandler(f)
           n == Len(handlers)
           l == Len(ctl)
<1>2. TypeOK /\ HandlersMatch /\ l \in Nat /\ n \in Nat /\ handlers \in Seq(Handler)
  BY LenProperties DEF MatchInv, TypeOK
<1>3. ctl' = Append(ctl, Try) /\ status' = status
  BY <1>2, HandlersAssumption DEF cl_try_push
<1>4. /\ Len(ctl') = l + 1
      /\ ctl'[l + 1].kind = "try"
      /\ \A i \in 1 .. l : ctl'[i] = ctl[i]
  BY <1>2, <1>3, ContextAppend, EntryFacts
<1>5. /\ h \in Handler /\ h.rbp = f /\ Len(h.pc) = l - f + 1
      /\ \A j \in 1 .. l - f + 1 : h.pc[j] = ctl[f + j - 1]
  BY <1>2, NewHandlerFacts DEF TypeOK
<1> HIDE DEF h, n
<1>6. Body(h) = l + 1
  BY <1>2, <1>5 DEF Body
<1>7. /\ Len(handlers') = n + 1
      /\ handlers'[n + 1] = h
      /\ \A k \in 1 .. n : handlers'[k] = handlers[k]
  BY <1>1, <1>2, <1>5, AppendFacts DEF h, n
<1>8. \A k \in 1 .. n + 1 : k \in 1 .. n \/ k = n + 1
  BY <1>2
<1>9. ASSUME NEW k \in 1 .. n
      PROVE  /\ Body(handlers[k]) \in 1 .. l
             /\ ctl[Body(handlers[k])].kind = "try"
             /\ \A j \in 1 .. Len(handlers[k].pc) :
                  /\ handlers[k].rbp + j - 1 \in 1 .. l
                  /\ handlers[k].pc[j] = ctl[handlers[k].rbp + j - 1]
  <2>1. /\ handlers[k].rbp \in Nat \ {0} /\ Len(handlers[k].pc) \in Nat \ {0}
        /\ Body(handlers[k]) = handlers[k].rbp + Len(handlers[k].pc)
    BY <1>2, HandlerTypes DEF Body, n
  <2>2. /\ Body(handlers[k]) <= Len(ctl)
        /\ ctl[Body(handlers[k])].kind = "try"
        /\ \A j \in 1 .. Len(handlers[k].pc) :
             handlers[k].pc[j] = ctl[handlers[k].rbp + j - 1]
    BY <1>2 DEF HandlersMatch, EachHandlerOpen, n
  <2>3. \A j \in 1 .. Len(handlers[k].pc) : handlers[k].rbp + j - 1 \in 1 .. l
    <3> DEFINE r == handlers[k].rbp
               b == Len(handlers[k].pc)
    <3>1. r \in Nat \ {0} /\ b \in Nat /\ r + b <= l
      BY <2>1, <2>2
    <3> HIDE DEF r, b
    <3>2. \A j \in 1 .. b : r + j - 1 \in 1 .. l
      BY <1>2, <3>1
    <3>3. QED BY <3>2 DEF r, b
  <2>4. QED
    BY <1>2, <2>1, <2>2, <2>3
<1>10. EachHandlerOpen'
  <2>1. ASSUME NEW k \in 1 .. n
        PROVE  /\ Body(handlers'[k]) <= Len(ctl')
               /\ ctl'[Body(handlers'[k])].kind = "try"
               /\ \A j \in 1 .. Len(handlers'[k].pc) :
                    handlers'[k].pc[j] = ctl'[handlers'[k].rbp + j - 1]
    <3>1. handlers'[k] = handlers[k]
      BY <1>7
    <3>2. Body(handlers[k]) <= l + 1 /\ ctl'[Body(handlers[k])].kind = "try"
      BY <1>2, <1>4, <1>9
    <3>3. \A j \in 1 .. Len(handlers[k].pc) :
            handlers[k].pc[j] = ctl'[handlers[k].rbp + j - 1]
      BY <1>4, <1>9
    <3>4. QED BY <1>4, <3>1, <3>2, <3>3
  <2>2. /\ Body(h) <= Len(ctl')
        /\ ctl'[Body(h)].kind = "try"
        /\ \A j \in 1 .. Len(h.pc) : h.pc[j] = ctl'[h.rbp + j - 1]
    <3>1. \A j \in 1 .. Len(h.pc) : f + j - 1 \in 1 .. l
      BY <1>2, <1>5
    <3>2. QED BY <1>2, <1>4, <1>5, <1>6, <3>1
  <2>3. QED
    BY <1>7, <1>8, <2>1, <2>2 DEF EachHandlerOpen
<1>11. HandlersOrdered'
  <2>1. \A k \in 1 .. n : Body(handlers'[k]) < l + 1
    BY <1>2, <1>7, <1>9
  <2>2. \A k, m \in 1 .. n : k < m => Body(handlers'[k]) < Body(handlers'[m])
    BY <1>2, <1>7 DEF HandlersMatch, HandlersOrdered, n
  <2>3. QED
    BY <1>2, <1>6, <1>7, <1>8, <2>1, <2>2 DEF HandlersOrdered
<1>12. EachBodyHandled'
  <2>1. \A i \in OpenTries(ctl') : i \in OpenTries(ctl) \/ i = l + 1
    BY <1>2, <1>4 DEF OpenTries
  <2>2. \A i \in OpenTries(ctl) : \E k \in 1 .. n : Body(handlers'[k]) = i
    BY <1>2, <1>7 DEF HandlersMatch, EachBodyHandled, n
  <2>3. QED
    BY <1>2, <1>6, <1>7, <2>1, <2>2 DEF EachBodyHandled
<1>13. QED
  BY <1>2, <1>3, <1>10, <1>11, <1>12 DEF MatchInv, HandlersMatch, n
(* The topmost handler belongs to the innermost running body.              *)
LEMMA TopHandler ==
  ASSUME MatchInv, handlers # <<>>
  PROVE  LET n == Len(handlers)
             b == Body(handlers[n])
         IN  /\ n \in 1 .. n /\ n - 1 \in 0 .. n
             /\ b \in OpenTries(ctl)
             /\ \A i \in OpenTries(ctl) : i <= b
             /\ \A k \in 1 .. n - 1 : Body(handlers[k]) < b
<1> DEFINE n == Len(handlers)
           b == Body(handlers[n])
<1>1. TypeOK /\ HandlersMatch /\ Len(ctl) \in Nat /\ n \in 1 .. n /\ n - 1 \in 0 .. n
  BY EmptySeq, LenProperties DEF MatchInv, TypeOK
<1>2. /\ handlers[n].rbp \in Nat \ {0} /\ Len(handlers[n].pc) \in Nat \ {0}
      /\ b = handlers[n].rbp + Len(handlers[n].pc)
      /\ b <= Len(ctl) /\ ctl[b].kind = "try"
  BY <1>1, HandlerTypes DEF HandlersMatch, EachHandlerOpen, Body
<1>3. b \in OpenTries(ctl)
  BY <1>1, <1>2 DEF OpenTries
<1>4. \A k \in 1 .. n - 1 : Body(handlers[k]) < b
  BY <1>1 DEF HandlersMatch, HandlersOrdered
<1>5. ASSUME NEW i \in OpenTries(ctl) PROVE i <= b
  <2>1. PICK k \in 1 .. n : Body(handlers[k]) = i
    BY <1>1 DEF HandlersMatch, EachBodyHandled
  <2>2. CASE k = n
    BY <1>2, <2>1, <2>2
  <2>3. CASE k # n
    <3>1. k \in 1 .. n - 1
      BY <1>1, <2>3
    <3>2. i < b
      BY <1>4, <2>1, <3>1
    <3>3. QED BY <1>2, <3>2 DEF OpenTries
  <2>4. QED BY <2>2, <2>3
<1>6. QED
  BY <1>1, <1>3, <1>4, <1>5

(* The end of a body and a throw both close the innermost running body and *)
(* remove the topmost handler.                                             *)
LEMMA MatchDrop ==
  ASSUME MatchInv, TypeOK', handlers # <<>>, status' = "run",
         handlers' = Prefix(handlers, Len(handlers) - 1),
         OpenTries(ctl') = OpenTries(ctl) \ {Body(handlers[Len(handlers)])},
         \A i \in 1 .. Body(handlers[Len(handlers)]) - 1 : ctl'[i] = ctl[i]
  PROVE  MatchInv'
<1> DEFINE n == Len(handlers)
           b == Body(handlers[n])
<1>1. /\ n \in 1 .. n /\ n - 1 \in 0 .. n
      /\ b \in OpenTries(ctl)
      /\ \A k \in 1 .. n - 1 : Body(handlers[k]) < b
  BY TopHandler
<1>2. TypeOK /\ HandlersMatch /\ handlers \in Seq(Handler) /\ b \in Nat
  BY <1>1 DEF MatchInv, TypeOK, OpenTries
<1>3. Len(handlers') = n - 1 /\ \A k \in 1 .. n - 1 : handlers'[k] = handlers[k]
  BY <1>1, <1>2, PrefixFacts
<1> HIDE DEF b
<1>4. ASSUME NEW k \in 1 .. n - 1
      PROVE  /\ Body(handlers'[k]) <= Len(ctl')
             /\ ctl'[Body(handlers'[k])].kind = "try"
             /\ \A j \in 1 .. Len(handlers'[k].pc) :
                  handlers'[k].pc[j] = ctl'[handlers'[k].rbp + j - 1]
  <2> DEFINE h == handlers[k]
  <2>1. k \in 1 .. n /\ handlers'[k] = h
    BY <1>1, <1>3
  <2>2. /\ h.rbp \in Nat \ {0} /\ Len(h.pc) \in Nat \ {0}
        /\ Body(h) = h.rbp + Len(h.pc) /\ Body(h) \in Nat
    BY <1>2, <2>1, HandlerTypes DEF Body
  <2>3. /\ Body(h) <= Len(ctl)
        /\ ctl[Body(h)].kind = "try"
        /\ \A j \in 1 .. Len(h.pc) : h.pc[j] = ctl[h.rbp + j - 1]
    BY <1>2, <2>1 DEF HandlersMatch, EachHandlerOpen
  <2>4. Body(h) < b
    BY <1>1
  <2> HIDE DEF h
  <2>5. Len(ctl) \in Nat /\ Len(ctl') \in Nat
    BY <1>2, LenProperties DEF TypeOK
  <2>6. Body(h) \in OpenTries(ctl) /\ Body(h) # b
    BY <1>2, <2>2, <2>3, <2>4, <2>5 DEF OpenTries
  <2>7. Body(h) \in OpenTries(ctl')
    BY <2>6 DEF b
  <2>8. ASSUME NEW j \in 1 .. Len(h.pc) PROVE h.pc[j] = ctl'[h.rbp + j - 1]
    <3>1. h.rbp + j - 1 \in 1 .. b - 1
      BY SMTT(40), <1>2, <2>2, <2>4
    <3>2. QED BY <2>3, <3>1 DEF b
  <2>9. QED
    BY SMTT(40), <2>1, <2>5, <2>7, <2>8 DEF OpenTries
<1>5. EachHandlerOpen'
  BY <1>3, <1>4 DEF EachHandlerOpen
<1>6. HandlersOrdered'
  BY <1>1, <1>2, <1>3 DEF HandlersMatch, HandlersOrdered
<1>7. EachBodyHandled'
  <2> SUFFICES ASSUME NEW i \in OpenTries(ctl'), i \in OpenTries(ctl), i # b
               PROVE  \E k \in 1 .. n - 1 : Body(handlers'[k]) = i
    BY <1>3 DEF EachBodyHandled, b
  <2>1. PICK k \in 1 .. n : Body(handlers[k]) = i
    BY <1>2 DEF HandlersMatch, EachBodyHandled
  <2>2. k # n
    BY <2>1 DEF b
  <2>3. k \in 1 .. n - 1
    BY <1>1, <2>2
  <2>4. QED
    BY <1>3, <2>1, <2>3
<1>8. QED
  BY <1>5, <1>6, <1>7 DEF MatchInv, HandlersMatch

LEMMA MatchPop ==
  ASSUME MatchInv, status = "run", TypeOK', cl_try_pop
  PROVE  MatchInv'
<1> DEFINE l == Len(ctl)
<1>1. TypeOK /\ HandlersMatch /\ l \in Nat \ {0}
  BY LenProperties DEF MatchInv, TypeOK
<1>2. l \in OpenTries(ctl)
  BY <1>1, EntryFacts DEF cl_try_pop, Top, OpenTries
<1>3. handlers # <<>>
  BY <1>1, <1>2, EmptySeq DEF HandlersMatch, EachBodyHandled
<1>4. Body(handlers[Len(handlers)]) = l
  BY <1>1, <1>2, <1>3, TopHandler DEF OpenTries
<1>5. /\ handlers' = Prefix(handlers, Len(handlers) - 1)
      /\ ctl' = Prefix(ctl, l - 1)
      /\ status' = "run"
  BY <1>3 DEF cl_try_pop
<1>6. l - 1 \in 1 .. l
  BY <1>1, AboveMain, EntryFacts DEF cl_try_pop, Top
<1>7. Len(ctl') = l - 1 /\ \A i \in 1 .. l - 1 : ctl'[i] = ctl[i]
  BY <1>1, <1>5, <1>6, ContextCut
<1>8. OpenTries(ctl') = OpenTries(ctl) \ {l}
  BY <1>1, <1>7 DEF OpenTries
<1>9. QED
  BY <1>3, <1>4, <1>5, <1>7, <1>8, MatchDrop

(* With a table that matches, a throw cuts the context at the innermost    *)
(* running body: what the handler saved is what is still there.            *)
LEMMA ThrowCuts ==
  ASSUME MatchInv, status = "run", NEW v \in Vals, cl_throw(v), handlers # <<>>
  PROVE  LET b == Body(handlers[Len(handlers)]) IN
         /\ b - 1 \in 1 .. Len(ctl)
         /\ Len(ctl') = b
         /\ ctl' \in Seq(Entry)
         /\ ctl'[b] = Catch(v)
         /\ \A i \in 1 .. b - 1 : ctl'[i] = ctl[i]
         /\ status' = "run"
<1> DEFINE n == Len(handlers)
           h == handlers[n]
<1>1. TypeOK /\ HandlersMatch /\ Len(ctl) \in Nat /\ n \in 1 .. n
  BY TopHandler, LenProperties DEF MatchInv, TypeOK
<1>2. /\ h \in Handler
      /\ h.rbp \in Nat \ {0} /\ Len(h.pc) \in Nat \ {0}
      /\ Body(h) = h.rbp + Len(h.pc)
  BY <1>1, HandlerTypes DEF Body
<1>3. /\ Body(h) <= Len(ctl)
      /\ ctl[Body(h)].kind = "try"
      /\ \A j \in 1 .. Len(h.pc) : h.pc[j] = ctl[h.rbp + j - 1]
  BY <1>1 DEF HandlersMatch, EachHandlerOpen
<1>4. FrameInPlace(h)
  <2>1. 1 \in 1 .. Len(h.pc) /\ h.rbp + 1 - 1 = h.rbp /\ h.rbp <= Len(ctl)
    BY <1>1, <1>2, <1>3
  <2>2. h.pc[1] = ctl[h.rbp]
    BY <1>3, <2>1
  <2>3. QED BY <2>1, <2>2 DEF FrameInPlace
<1>5. ctl' = Append(Prefix(ctl, h.rbp - 1) \o h.pc, Catch(v)) /\ status' = "run"
  BY <1>4 DEF cl_throw
<1>6. /\ ctl' \in Seq(Entry)
      /\ Len(ctl') = Body(h)
      /\ ctl'[Body(h)] = Catch(v)
      /\ \A i \in 1 .. h.rbp - 1 : ctl'[i] = ctl[i]
      /\ \A j \in 1 .. Len(h.pc) : ctl'[h.rbp + j - 1] = h.pc[j]
  BY <1>1, <1>2, <1>4, <1>5, EntryFacts, ContextLand
<1> HIDE DEF h, n
<1>7. ASSUME NEW i \in 1 .. Body(h) - 1 PROVE ctl'[i] = ctl[i]
  <2>1. CASE i < h.rbp
    BY <1>2, <1>6, <2>1
  <2>2. CASE i >= h.rbp
    <3>1. i - h.rbp + 1 \in 1 .. Len(h.pc) /\ h.rbp + (i - h.rbp + 1) - 1 = i
      BY <1>2, <2>2
    <3>2. QED BY <1>3, <1>6, <3>1
  <2>3. QED BY <1>2, <2>1, <2>2
<1>8. Body(h) - 1 \in 1 .. Len(ctl)
  BY <1>1, <1>2, <1>3
<1>9. QED
  BY <1>5, <1>6, <1>7, <1>8 DEF h, n

LEMMA MatchThrow ==
  ASSUME MatchInv, status = "run", TypeOK', NEW v \in Vals, cl_throw(v)
  PROVE  MatchInv'
<1>1. CASE handlers = <<>>
  BY <1>1, MatchFinish DEF cl_throw
<1>2. CASE handlers # <<>>
  <2> DEFINE b == Body(handlers[Len(handlers)])
  <2>1. /\ b - 1 \in 1 .. Len(ctl)
        /\ Len(ctl') = b
        /\ ctl'[b] = Catch(v)
        /\ \A i \in 1 .. b - 1 : ctl'[i] = ctl[i]
        /\ status' = "run"
    BY <1>2, ThrowCuts
  <2>2. b \in OpenTries(ctl) /\ \A i \in OpenTries(ctl) : i <= b
    BY <1>2, TopHandler
  <2>3. handlers' = Prefix(handlers, Len(handlers) - 1)
    BY <1>2 DEF cl_throw
  <2> HIDE DEF b
  <2>4. OpenTries(ctl') = OpenTries(ctl) \ {b}
    <3>1. Len(ctl) \in Nat /\ b \in 1 .. Len(ctl)
      BY <2>2, LenProperties DEF MatchInv, TypeOK, OpenTries
    <3>2. ctl'[b].kind # "try"
      BY <2>1, EntryFacts
    <3>3. \A i \in 1 .. b : i \in 1 .. b - 1 \/ i = b
      BY <3>1
    <3>4. OpenTries(ctl') \subseteq OpenTries(ctl) \ {b}
      BY <2>1, <3>1, <3>2, <3>3 DEF OpenTries
    <3>5. OpenTries(ctl) \ {b} \subseteq OpenTries(ctl')
      BY <2>1, <2>2, <3>1 DEF OpenTries
    <3>6. QED BY <3>4, <3>5
  <2>5. QED
    BY <1>2, <2>1, <2>3, <2>4, MatchDrop DEF b
<1>3. QED BY <1>1, <1>2
LEMMA MatchInit == Init => MatchInv
<1> SUFFICES ASSUME Init PROVE MatchInv
  OBVIOUS
<1>1. Len(ctl) = 1 /\ ctl[1].kind = "fn" /\ Len(handlers) = 0
  BY EntryFacts, EmptySeq DEF Init
<1>2. OpenTries(ctl) = {}
  BY <1>1 DEF OpenTries
<1>3. HandlersMatch
  BY <1>1, <1>2 DEF HandlersMatch, EachHandlerOpen, HandlersOrdered, EachBodyHandled
<1>4. QED
  BY <1>3, TypeInit DEF Init, MatchInv

LEMMA MatchStep ==
  ASSUME Exits = {}, MatchInv, [Next]_vars
  PROVE  MatchInv'
<1>1. TypeOK /\ TypeOK' /\ Len(ctl) \in Nat \ {0} /\ Len(handlers) \in Nat
  BY TypeStep, LenProperties DEF MatchInv, TypeOK
<1>2. CASE UNCHANGED vars
  BY <1>1, <1>2 DEF MatchInv, HandlersMatch, EachHandlerOpen, HandlersOrdered,
                    EachBodyHandled, vars
<1>3. CASE Next
  <2>0. status = "run"
    BY <1>3 DEF Next
  <2>1. CASE Call
    BY <2>1, MatchOpen, EntryFacts DEF Call, Frame
  <2>2. CASE Return
    <3>1. PICK i \in 1 .. Len(ctl) :
            IF i = 1 THEN Finish("done") ELSE JumpOut(i - 1, "return")
      BY <2>2 DEF Return
    <3>2. CASE i = 1
      BY <1>1, <3>1, <3>2, MatchFinish
    <3>3. CASE i # 1
      <4>1. i - 1 \in 1 .. Len(ctl) /\ JumpOut(i - 1, "return")
        BY <1>1, <3>1, <3>3
      <4>2. QED
        BY <1>1, <4>1, MatchCut DEF JumpOut
    <3>4. QED BY <3>2, <3>3
  <2>3. CASE TailCall
    <3>1. PICK i \in 2 .. Len(ctl) : JumpOut(i, "tailcall")
      BY <2>3 DEF TailCall
    <3>2. i \in 1 .. Len(ctl)
      BY <1>1
    <3>3. QED
      BY <1>1, <3>1, <3>2, MatchCut DEF JumpOut
  <2>4. CASE EnterLoop
    BY <2>4, MatchOpen, EntryFacts DEF EnterLoop
  <2>5. CASE Break
    <3>1. PICK i \in 1 .. Len(ctl) : IsCurrentLoop(ctl, i) /\ JumpOut(i - 1, "break")
      BY <2>5 DEF Break
    <3>2. i - 1 \in 1 .. Len(ctl)
      BY <1>1, <3>1, AboveMain DEF IsCurrentLoop
    <3>3. QED
      BY <1>1, <3>1, <3>2, MatchCut DEF JumpOut
  <2>6. CASE Continue
    BY <1>1, <2>6, MatchCut DEF Continue, JumpOut
  <2>7. CASE cl_try_push
    <3>1. CASE Len(handlers) + 1 > MaxHandlers
      <4>1. Len(handlers) = MaxHandlers
        BY <1>1, <3>1, HandlersAssumption DEF TypeOK
      <4>2. QED
        BY <1>1, <2>7, <3>1, <4>1, MatchFinish DEF cl_try_push
    <3>2. CASE Len(handlers) + 1 <= MaxHandlers
      BY <1>1, <2>7, <3>2, MatchPush
    <3>3. QED
      BY <1>1, <3>1, <3>2, HandlersAssumption
  <2>8. CASE cl_try_pop
    BY <1>1, <2>0, <2>8, MatchPop
  <2>9. CASE LeaveCatch
    <3>1. Len(ctl) - 1 \in 1 .. Len(ctl)
      BY <1>1, <2>9, AboveMain DEF LeaveCatch, Top
    <3>2. NoTryAbove(ctl, Len(ctl) - 1)
      BY <1>1, <2>9 DEF NoTryAbove, LeaveCatch, Top
    <3>3. QED
      BY <1>1, <2>9, <3>1, <3>2, MatchCut DEF LeaveCatch
  <2>10. CASE Throw
    BY <1>1, <2>0, <2>10, MatchThrow DEF Throw
  <2>11. QED
    BY <1>3, <2>1, <2>2, <2>3, <2>4, <2>5, <2>6, <2>7, <2>8, <2>9, <2>10 DEF Next
<1>4. QED
  BY <1>2, <1>3

LEMMA MatchAlways == ASSUME Exits = {} PROVE Spec => []MatchInv
<1>1. Init => MatchInv
  BY MatchInit
<1>2. MatchInv /\ [Next]_vars => MatchInv'
  BY MatchStep
<1>3. QED
  BY <1>1, <1>2, PTL DEF Spec

(* A program that leaves no protected body early keeps the table and the   *)
(* running bodies in step, so the topmost handler is the right one.        *)
THEOREM TableMatches == ASSUME Exits = {} PROVE Spec => []HandlersMatch
<1>1. MatchInv => HandlersMatch
  BY DEF MatchInv
<1>2. QED
  BY <1>1, MatchAlways, PTL

(* Then there are as many running bodies as handlers.                      *)
LEMMA MatchCount ==
  ASSUME MatchInv
  PROVE  Cardinality(OpenTries(ctl)) = Len(handlers)
<1> DEFINE n == Len(handlers)
           F == [k \in 1 .. n |-> Body(handlers[k])]
<1>1. TypeOK /\ HandlersMatch /\ n \in Nat /\ Len(ctl) \in Nat
  BY LenProperties DEF MatchInv, TypeOK
<1>2. ASSUME NEW k \in 1 .. n PROVE Body(handlers[k]) \in OpenTries(ctl)
  <2>1. Body(handlers[k]) \in 1 .. Len(ctl)
    <3>1. /\ handlers[k].rbp \in Nat \ {0} /\ Len(handlers[k].pc) \in Nat \ {0}
          /\ Body(handlers[k]) = handlers[k].rbp + Len(handlers[k].pc)
      BY <1>1, HandlerTypes DEF Body
    <3>2. Body(handlers[k]) <= Len(ctl)
      BY <1>1 DEF HandlersMatch, EachHandlerOpen
    <3>3. QED BY <1>1, <3>1, <3>2
  <2>2. QED
    BY <1>1, <2>1 DEF HandlersMatch, EachHandlerOpen, OpenTries
<1>3. ASSUME NEW k \in 1 .. n, NEW m \in 1 .. n, F[k] = F[m] PROVE k = m
  <2>1. Body(handlers[k]) = Body(handlers[m]) /\ Body(handlers[k]) \in Nat
    BY <1>1, <1>2, <1>3 DEF OpenTries
  <2>2. ~ (k < m) /\ ~ (m < k)
    BY <1>1, <2>1 DEF HandlersMatch, HandlersOrdered
  <2>3. QED BY <2>2
<1>4. \A i \in OpenTries(ctl) : \E k \in 1 .. n : F[k] = i
  BY <1>1 DEF HandlersMatch, EachBodyHandled
<1>5. F \in [1 .. n -> OpenTries(ctl)]
  BY <1>2
<1>6. F \in Bijection(1 .. n, OpenTries(ctl))
  BY <1>3, <1>4, <1>5, Fun_IsBij
<1>7. ExistsBijection(1 .. n, OpenTries(ctl))
  BY <1>6 DEF ExistsBijection
<1>8. QED
  BY <1>1, <1>7, FS_CountingElements

(* The program is stopped for lack of handlers only when CL_MAX_HANDLERS   *)
(* protected bodies are running at once.                                   *)
THEOREM OverflowIsReal == ASSUME Exits = {} PROVE Spec => []NoEarlyOverflow
<1>1. MatchInv => NoEarlyOverflow
  BY MatchCount DEF MatchInv, NoEarlyOverflow
<1>2. QED
  BY <1>1, MatchAlways, PTL-------------------------------------------------------------------------------
(* Without early exits the handler table implements structured exceptions. *)

LEMMA SameContexts ==
  /\ \A f : Abstract!Frame(f) = Frame(f)
  /\ Abstract!Loop = Loop
  /\ Abstract!Try = Try
  /\ \A v : Abstract!Catch(v) = Catch(v)
  /\ Abstract!OpenTries(ctl) = OpenTries(ctl)
  /\ Abstract!Top(ctl) = Top(ctl)
  /\ \A n : Abstract!Prefix(ctl, n) = Prefix(ctl, n)
  /\ \A i : Abstract!IsCurrentFrame(ctl, i) <=> IsCurrentFrame(ctl, i)
  /\ \A i : Abstract!IsCurrentLoop(ctl, i) <=> IsCurrentLoop(ctl, i)
  /\ \A i : Abstract!NoTryAbove(ctl, i) <=> NoTryAbove(ctl, i)
BY DEF Abstract!Frame, Frame, Abstract!Loop, Loop, Abstract!Try, Try,
       Abstract!Catch, Catch, Abstract!OpenTries, OpenTries, Abstract!Top, Top,
       Abstract!Prefix, Prefix, Abstract!IsCurrentFrame, IsCurrentFrame,
       Abstract!IsCurrentLoop, IsCurrentLoop, Abstract!NoTryAbove, NoTryAbove

LEMMA SameCount == \A S : Abstract!Cardinality(S) = Cardinality(S)
BY ZenonT(30) DEF Abstract!Cardinality, Cardinality

(* A throw through the table is a throw to the innermost running body.     *)
LEMMA ThrowRefines ==
  ASSUME MatchInv, status = "run", NEW v \in Vals, cl_throw(v)
  PROVE  Abstract!Throw(v)
<1>1. CASE handlers = <<>>
  <2>1. OpenTries(ctl) = {}
    BY <1>1, EmptySeq DEF MatchInv, HandlersMatch, EachBodyHandled
  <2>2. Finish("uncaught")
    BY <1>1 DEF cl_throw
  <2>3. QED
    BY <2>1, <2>2, SameContexts DEF Finish, Abstract!Throw, Abstract!Finish
<1>2. CASE handlers # <<>>
  <2> DEFINE b == Body(handlers[Len(handlers)])
             d == Append(Prefix(ctl, b - 1), Catch(v))
  <2>1. /\ b - 1 \in 1 .. Len(ctl)
        /\ Len(ctl') = b
        /\ ctl' \in Seq(Entry)
        /\ ctl'[b] = Catch(v)
        /\ \A i \in 1 .. b - 1 : ctl'[i] = ctl[i]
        /\ status' = "run"
    BY <1>2, ThrowCuts
  <2>2. b \in OpenTries(ctl) /\ \A i \in OpenTries(ctl) : i <= b
    BY <1>2, TopHandler
  <2>3. exc' = v
    BY <1>2 DEF cl_throw
  <2> HIDE DEF b
  <2>4. ctl \in Seq(Entry) /\ Len(ctl) \in Nat /\ b \in 1 .. Len(ctl) /\ b - 1 \in 0 .. Len(ctl)
    BY <2>1, <2>2, LenProperties DEF MatchInv, TypeOK, OpenTries
  <2>5. ctl' = d
    <3> DEFINE p == Prefix(ctl, b - 1)
    <3>1. p \in Seq(Entry) /\ Len(p) = b - 1 /\ \A i \in 1 .. b - 1 : p[i] = ctl[i]
      BY <2>4, PrefixFacts
    <3>2. d = Append(p, Catch(v)) /\ Catch(v) \in Entry
      BY EntryFacts
    <3> HIDE DEF p, d
    <3>3. /\ d \in Seq(Entry) /\ Len(d) = Len(p) + 1 /\ d[Len(p) + 1] = Catch(v)
          /\ \A i \in 1 .. Len(p) : d[i] = p[i]
      BY ONLY <3>1, <3>2, AppendFacts
    <3>4. Len(d) = b /\ d[b] = Catch(v) /\ \A i \in 1 .. b - 1 : d[i] = ctl[i]
      BY <2>4, <3>1, <3>3
    <3>5. \A i \in 1 .. b : i \in 1 .. b - 1 \/ i = b
      BY <2>4
    <3>6. \A i \in 1 .. Len(d) : ctl'[i] = d[i]
      BY <2>1, <3>4, <3>5
    <3>7. QED
      BY <2>1, <3>3, <3>4, <3>6, SeqEqual
  <2>6. NoTryAbove(ctl, b)
    BY <2>2, <2>4 DEF NoTryAbove, OpenTries
  <2>7. QED
    BY <2>1, <2>2, <2>3, <2>5, <2>6, SameContexts DEF Abstract!Throw
<1>3. QED BY <1>1, <1>2

LEMMA StepRefines ==
  ASSUME Exits = {}, MatchInv, [Next]_vars
  PROVE  [Abstract!Next]_(Abstract!vars)
<1>1. CASE UNCHANGED vars
  BY <1>1 DEF vars, Abstract!vars
<1>2. CASE Next
  <2>0. status = "run" /\ Len(ctl) \in Nat /\ Len(handlers) \in Nat
    BY <1>2, LenProperties DEF Next, MatchInv, TypeOK
  <2>1. CASE Call
    BY <2>0, <2>1, SameContexts DEF Call, Open, Abstract!Next, Abstract!Call, Abstract!Open
  <2>2. CASE Return
    <3>1. PICK i \in 1 .. Len(ctl) :
            /\ IsCurrentFrame(ctl, i)
            /\ IF i = 1 THEN Finish("done") ELSE JumpOut(i - 1, "return")
      BY <2>2 DEF Return
    <3>2. Abstract!Return
      BY <3>1, SameContexts
         DEF Finish, JumpOut, Abstract!Return, Abstract!Finish, Abstract!LeaveTo
    <3>3. QED BY <2>0, <3>2 DEF Abstract!Next
  <2>3. CASE TailCall
    <3>1. Abstract!TailCall
      BY <2>3, SameContexts DEF TailCall, JumpOut, Abstract!TailCall, Abstract!LeaveTo
    <3>2. QED BY <2>0, <3>1 DEF Abstract!Next
  <2>4. CASE EnterLoop
    BY <2>0, <2>4, SameContexts
       DEF EnterLoop, Open, Abstract!Next, Abstract!EnterLoop, Abstract!Open
  <2>5. CASE Break
    <3>1. Abstract!Break
      BY <2>5, SameContexts DEF Break, JumpOut, Abstract!Break, Abstract!LeaveTo
    <3>2. QED BY <2>0, <3>1 DEF Abstract!Next
  <2>6. CASE Continue
    <3>1. Abstract!Continue
      BY <2>6, SameContexts DEF Continue, JumpOut, Abstract!Continue, Abstract!LeaveTo
    <3>2. QED BY <2>0, <3>1 DEF Abstract!Next
  <2>7. CASE cl_try_push
    <3>1. Cardinality(OpenTries(ctl)) = Len(handlers) /\ Len(handlers) <= MaxHandlers
      BY MatchCount DEF MatchInv, TypeOK
    <3>2. Abstract!EnterTry
      <4>1. CASE Len(handlers) + 1 > MaxHandlers
        <5>1. Cardinality(OpenTries(ctl)) = MaxHandlers
          BY <2>0, <3>1, <4>1, HandlersAssumption
        <5>2. QED
          BY <2>7, <4>1, <5>1, SameContexts, SameCount
             DEF cl_try_push, Finish, Abstract!EnterTry, Abstract!Finish
      <4>2. CASE ~ (Len(handlers) + 1 > MaxHandlers)
        <5>1. Cardinality(OpenTries(ctl)) # MaxHandlers
          BY <2>0, <3>1, <4>2, HandlersAssumption
        <5>2. QED
          BY <2>7, <4>2, <5>1, SameContexts, SameCount
             DEF cl_try_push, Abstract!EnterTry, Abstract!Open
      <4>3. QED BY <4>1, <4>2
    <3>3. QED BY <2>0, <3>2 DEF Abstract!Next
  <2>8. CASE cl_try_pop
    <3>1. handlers # <<>>
      <4>1. Len(ctl) \in OpenTries(ctl)
        BY <2>0, <2>8, EntryFacts DEF cl_try_pop, Top, OpenTries, MatchInv, TypeOK
      <4>2. QED
        BY <4>1, EmptySeq DEF MatchInv, HandlersMatch, EachBodyHandled
    <3>2. Abstract!LeaveBlock
      BY <2>8, <3>1, SameContexts, EntryFacts
         DEF cl_try_pop, Abstract!LeaveBlock, Abstract!LeaveTo
    <3>3. QED BY <2>0, <3>2 DEF Abstract!Next
  <2>9. CASE LeaveCatch
    <3>1. Abstract!LeaveBlock
      BY <2>9, SameContexts DEF LeaveCatch, Abstract!LeaveBlock, Abstract!LeaveTo
    <3>2. QED BY <2>0, <3>1 DEF Abstract!Next
  <2>10. CASE Throw
    <3>1. \E v \in Vals : Abstract!Throw(v)
      BY <2>0, <2>10, ThrowRefines DEF Throw
    <3>2. QED BY <2>0, <3>1 DEF Abstract!Next
  <2>11. QED
    BY <1>2, <2>1, <2>2, <2>3, <2>4, <2>5, <2>6, <2>7, <2>8, <2>9, <2>10 DEF Next
<1>3. QED
  BY <1>1, <1>2

(* docs/book.md, "Exceptions": a throw ends in the catch block of the      *)
(* innermost protected body that is running.  The handler table does that  *)
(* for every program that leaves no protected body early, at any depth of  *)
(* calls, loops and nested bodies.                                         *)
THEOREM TableImplementsStructured ==
  ASSUME Exits = {} PROVE Spec => ImplementsStructured
<1>1. Init => Abstract!Init
  BY SameContexts DEF Init, Abstract!Init
<1>2. MatchInv /\ [Next]_vars => [Abstract!Next]_(Abstract!vars)
  BY StepRefines
<1>3. QED
  BY <1>1, <1>2, MatchAlways, PTL DEF Spec, ImplementsStructured, Abstract!Spec
===============================================================================
