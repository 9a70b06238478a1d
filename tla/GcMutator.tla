------------------------------- MODULE GcMutator -------------------------------
(***************************************************************************)
(* The heap of a natively compiled program as its code and the runtime's   *)
(* constructors see it (runtime_x64.c, codegen_x64.c).                     *)
(*                                                                         *)
(* Every block is allocated by cl_alloc.  A constructor that allocates is  *)
(* cut at its cl_alloc calls, because each may run the collector before it *)
(* returns: between two of them the C locals of the constructor are all    *)
(* that keeps its unfinished work reachable.                               *)
(*                                                                         *)
(* A word is an address or Num, a number.  Tagged and raw pointers are not *)
(* told apart: the collector accepts both.  Unset stands for what malloc   *)
(* left in a field that nothing has been stored in.                        *)
(***************************************************************************)
EXTENDS Naturals, Sequences, FiniteSets

CONSTANTS
  Addr,      \* addresses malloc may return
  Num,       \* any word that is not an address
  NULL,
  Unset,
  NSlots,    \* words of the native stack that emitted code uses
  FirstCap,  \* capacity of a container's first buffer
  MaxCap,    \* bound on the capacity of a buffer
  Captures,  \* how many variables a closure may capture
  Programs   \* what the programs use: ops, the constructors, and blocks,
             \* how many addresses malloc has for them

ASSUME MutatorAssumption ==
  /\ Num \notin Addr /\ NULL \notin Addr /\ Unset \notin Addr /\ NULL # Unset
  /\ NSlots \in Nat /\ FirstCap \in Nat \ {0} /\ MaxCap \in Nat
  /\ Captures \subseteq Nat
  /\ Programs \subseteq [ops : SUBSET STRING, blocks : Nat]

VARIABLES
  ops,    \* the constructors of the program
  room,   \* the addresses malloc may return to it
  mem,    \* the allocated blocks, by address
  local,  \* the stack words of emitted code
  live,   \* the slots whose word the program may still use
  call    \* the running constructor and its C locals

program == <<ops, room>>
mvars == <<program, mem, local, live, call>>

Word == Addr \cup {Num}
Slot == 1 .. NSlots

Block(k, bufs, n, ws) == [kind |-> k, bufs |-> bufs, len |-> n, words |-> ws]
Leaf       == Block("leaf", <<>>, 0, <<>>)            \* a string or a complex
Box(w)     == Block("box", <<>>, 0, <<w>>)
Raw(ws)    == Block("raw", <<>>, 0, ws)
Arr        == Block("arr", <<NULL>>, 0, <<>>)
Map        == Block("map", <<NULL, NULL>>, 0, <<>>)
Closure(n) == Block("closure", <<IF n = 0 THEN NULL ELSE Unset>>, n, <<>>)

Contents(m, p) == IF p \in DOMAIN m THEN m[p].words ELSE <<>>

(* Capacity as cl_arr_push and map_grow see it: cap is set last.           *)
Cap(b) == Len(Contents(mem, b.bufs[Len(b.bufs)]))

(* What cl_realloc returns: the old words, then unset ones.                *)
Regrown(p, n) ==
  Raw([i \in 1 .. n |-> IF i <= Len(Contents(mem, p)) THEN Contents(mem, p)[i] ELSE Unset])

NewCap(b) == IF Cap(b) = 0 THEN FirstCap ELSE 2 * Cap(b)

(* The live slots that hold a block of kind k.                             *)
Holding(k) == {s \in live : local[s] \in Addr /\ mem[local[s]].kind = k}

Usable == {local[s] : s \in live} \cup {Num}

Idle == [op |-> "none", words |-> <<>>]

Init ==
  /\ \E p \in Programs :
       /\ ops = p.ops
       /\ room \in {A \in SUBSET Addr : Cardinality(A) = p.blocks}
  /\ mem = <<>>
  /\ local = [s \in Slot |-> Num]
  /\ live = {}
  /\ call = Idle
-------------------------------------------------------------------------------
(* Starting a constructor, and the two ways it goes on.  Operands that     *)
(* emitted code kept as temporaries are popped off the stack by the call:  *)
(* from then on only the C locals of the constructor hold them.            *)

Enter(op, ws) ==
  /\ call = Idle
  /\ op \in ops
  /\ call' = [op |-> op, words |-> ws]
  /\ \E temps \in SUBSET live :
       /\ live' = live \ temps
       /\ local' = [s \in Slot |-> IF s \in temps THEN Num ELSE local[s]]
  /\ UNCHANGED mem

KeepIn(ws) ==
  /\ call' = [call EXCEPT !.words = ws]
  /\ UNCHANGED <<local, live>>

Result(w) ==
  /\ \E d \in Slot : local' = [local EXCEPT ![d] = w] /\ live' = live \cup {d}
  /\ call' = Idle

Fresh == room \ DOMAIN mem

(* The memory m with the new block b at address a.                         *)
Put(m, a, b) == [c \in DOMAIN m \cup {a} |-> IF c = a THEN b ELSE m[c]]

With(a, b) == mem' = Put(mem, a, b)

(* cl_new_str, cpx_new, cl_new_arr, cl_new_map, cl_box_new.                *)
EnterNew == Enter("leaf", <<>>) \/ Enter("arr", <<>>) \/ Enter("map", <<>>)
              \/ \E w \in Usable : Enter("box", <<w>>)

FinishNew == \E a \in Fresh :
  /\ \/ call.op = "leaf" /\ With(a, Leaf)
     \/ call.op = "arr"  /\ With(a, Arr)
     \/ call.op = "map"  /\ With(a, Map)
     \/ call.op = "box"  /\ With(a, Box(call.words[1]))
  /\ Result(a)

(* cl_concat of two numbers: a string for each, then one for the result.   *)
EnterConcat == Enter("concat", <<>>)

StepConcat == \E a \in Fresh :
  /\ call.op = "concat"
  /\ With(a, Leaf)
  /\ IF Len(call.words) < 2 THEN KeepIn(Append(call.words, a)) ELSE Result(a)

(* cl_new_closure(n), and the emitted code that fills its upvalues with    *)
(* the boxes of the captured variables before anything else is allocated.  *)
EnterClosure == \E n \in Captures : \E bs \in [1 .. n -> Holding("box")] :
  Enter("closure", [i \in 1 .. n |-> local[bs[i]]])

AllocClosure == \E a \in Fresh :
  /\ call.op = "closure"
  /\ With(a, Closure(Len(call.words)))
  /\ IF call.words = <<>>
     THEN Result(a)
     ELSE /\ call' = [call EXCEPT !.op = "upvals", !.words = Append(@, a)]
          /\ UNCHANGED <<local, live>>

FillClosure == \E u \in Fresh :
  LET n == Len(call.words) - 1
      c == call.words[n + 1]
  IN  /\ call.op = "upvals"
      /\ mem' = Put([mem EXCEPT ![c].bufs = <<u>>], u, Raw(SubSeq(call.words, 1, n)))
      /\ Result(c)

(* cl_arr_push.                                                            *)
Room(b) == b.len + 1 <= Cap(b)

CanGrow(b) == ~ Room(b) /\ NewCap(b) <= MaxCap

PushInPlace == \E s \in Holding("arr") : \E w \in Usable :
  LET a == local[s] IN
  /\ call = Idle
  /\ Room(mem[a])
  /\ mem' = [mem EXCEPT ![a].len = @ + 1,
                        ![mem[a].bufs[1]].words[mem[a].len + 1] = w]
  /\ UNCHANGED <<local, live, call>>

EnterPush == \E s \in Holding("arr") : \E w \in Usable :
  /\ CanGrow(mem[local[s]])
  /\ Enter("push", <<local[s], w>>)

FinishPush == \E p \in Fresh :
  LET a == call.words[1]
      b == mem[a]
      r == Regrown(b.bufs[1], NewCap(b))
  IN  /\ call.op = "push"
      /\ mem' = Put([mem EXCEPT ![a].len = @ + 1, ![a].bufs = <<p>>],
                     p, [r EXCEPT !.words[b.len + 1] = call.words[2]])
      /\ Result(Num)

(* cl_arr_pop; cl_index_set on an array; assignment to a captured variable.*)
Pop == \E s \in Holding("arr") : \E d \in Slot :
  LET b == mem[local[s]] IN
  /\ call = Idle
  /\ b.len > 0
  /\ mem' = [mem EXCEPT ![local[s]].len = @ - 1]
  /\ local' = [local EXCEPT ![d] = Contents(mem, b.bufs[1])[b.len]]
  /\ live' = live \cup {d}
  /\ UNCHANGED call

StoreItem == \E s \in Holding("arr") : \E w \in Usable :
  LET b == mem[local[s]] IN
  /\ call = Idle
  /\ \E i \in 1 .. b.len : mem' = [mem EXCEPT ![b.bufs[1]].words[i] = w]
  /\ UNCHANGED <<local, live, call>>

StoreBox == \E s \in Holding("box") : \E w \in Usable :
  /\ call = Idle
  /\ mem' = [mem EXCEPT ![local[s]].words = <<w>>]
  /\ UNCHANGED <<local, live, call>>

(* map_set: the key is there, or there is room for it, or the buffers are  *)
(* regrown one after the other.  cl_builtin_del shifts the later entries.  *)
Keys == {k \in Usable : k = Num \/ mem[k].kind = "leaf"}

MapStore(m, k, w) ==
  LET b == mem[m] IN
  mem' = [mem EXCEPT ![m].len = @ + 1,
                     ![b.bufs[1]].words[b.len + 1] = k,
                     ![b.bufs[2]].words[b.len + 1] = w]

SetInPlace == \E s \in Holding("map") : \E w \in Usable :
  LET b == mem[local[s]] IN
  /\ call = Idle
  /\ \/ \E i \in 1 .. b.len : mem' = [mem EXCEPT ![b.bufs[2]].words[i] = w]
     \/ Room(b) /\ \E k \in Keys : MapStore(local[s], k, w)
  /\ UNCHANGED <<local, live, call>>

EnterSet == \E s \in Holding("map") : \E k \in Keys : \E w \in Usable :
  /\ CanGrow(mem[local[s]])
  /\ Enter("set", <<local[s], k, w>>)

GrowKeys == \E p \in Fresh :
  LET m == call.words[1] IN
  /\ call.op = "set"
  /\ mem' = Put([mem EXCEPT ![m].bufs[1] = p], p, Regrown(mem[m].bufs[1], NewCap(mem[m])))
  /\ call' = [call EXCEPT !.op = "values"]
  /\ UNCHANGED <<local, live>>

FinishSet == \E p \in Fresh :
  LET m == call.words[1]
      b == mem[m]
      r == Regrown(b.bufs[2], NewCap(b))
  IN  /\ call.op = "values"
      /\ mem' = Put([mem EXCEPT ![m].len = @ + 1, ![m].bufs[2] = p,
                                ![b.bufs[1]].words[b.len + 1] = call.words[2]],
                     p, [r EXCEPT !.words[b.len + 1] = call.words[3]])
      /\ Result(Num)

Shifted(ws, i, n) ==
  [j \in 1 .. Len(ws) |-> IF j >= i /\ j < n THEN ws[j + 1] ELSE ws[j]]

Delete == \E s \in Holding("map") :
  LET b == mem[local[s]] IN
  /\ call = Idle
  /\ \E i \in 1 .. b.len :
       mem' = [mem EXCEPT ![local[s]].len = @ - 1,
                          ![b.bufs[1]].words = Shifted(@, i, b.len),
                          ![b.bufs[2]].words = Shifted(@, i, b.len)]
  /\ UNCHANGED <<local, live, call>>

(* Emitted code moves words between its slots; a variable goes out of      *)
(* scope and leaves its word; a dead word is overwritten by anything that  *)
(* was once there.                                                         *)
Move == \E w \in Usable : \E d \in Slot :
  /\ call = Idle
  /\ local' = [local EXCEPT ![d] = w]
  /\ live' = live \cup {d}
  /\ UNCHANGED <<mem, call>>

Forget == \E s \in live :
  /\ call = Idle
  /\ live' = live \ {s}
  /\ UNCHANGED <<mem, local, call>>

Clobber == \E s \in Slot \ live : \E w \in room \cup {Num} :
  /\ call = Idle
  /\ local' = [local EXCEPT ![s] = w]
  /\ UNCHANGED <<mem, live, call>>

Mutate ==
  /\ \/ EnterNew \/ FinishNew
     \/ EnterConcat \/ StepConcat
     \/ EnterClosure \/ AllocClosure \/ FillClosure
     \/ PushInPlace \/ EnterPush \/ FinishPush
     \/ Pop \/ StoreItem \/ StoreBox
     \/ SetInPlace \/ EnterSet \/ GrowKeys \/ FinishSet \/ Delete
     \/ Move \/ Forget \/ Clobber
  /\ UNCHANGED program
===============================================================================
