------------------------------- MODULE NativeGC --------------------------------
(***************************************************************************)
(* The mark-and-sweep collector of the native runtime (cl_gc and what it   *)
(* calls in runtime_x64.c), step by step, under the mutator of GcMutator.  *)
(*                                                                         *)
(* The mark phase reads every word of the stack and tries it against the   *)
(* list of allocations; the recursion of cl_mark_descend is kept as a path *)
(* of blocks, each with the number of references already followed.  The    *)
(* byte counter that starts a collection is left out: a collection may run *)
(* at every cl_alloc.  The list of allocations is a set, and the loop that *)
(* sweeps it, during which nothing else runs, is one step.                 *)
(***************************************************************************)
EXTENDS GcMutator, FiniteSetsExt

VARIABLES
  phase,    \* "off" or "mark"
  scan,     \* the stack words the mark phase has read
  path,     \* the running calls of cl_mark_descend
  marked,   \* the blocks whose mark is set
  fault     \* the collector followed a pointer nothing had been stored in

gvars == <<phase, scan, path, marked, fault>>
vars  == <<mvars, gvars>>

GCInit ==
  /\ Init
  /\ phase = "off" /\ scan = 0 /\ path = <<>>
  /\ marked = {} /\ fault = FALSE

(* The stack from rsp up: C frames first, then the slots of emitted code.  *)
(* Fault seeded into Stack: C locals kept in registers are not scanned.    *)
StackWithoutFrames == local

Stack == call.words \o local

(* The references cl_mark_descend follows: the word of a box; the buffers  *)
(* of a container, then its elements (of a map: each key and its value).   *)
RefCount(a) == LET b == mem[a] IN
  IF b.kind = "box" THEN 1 ELSE Len(b.bufs) * (1 + b.len)

(* Fault seeded into Ref: for each entry of a map its key is marked twice. *)
KeysTwice(a, i) ==
  LET b == mem[a]
      n == Len(b.bufs)
  IN  CASE b.kind = "box" -> b.words[1]
        [] b.kind # "box" /\ i <= n -> b.bufs[i]
        [] b.kind # "box" /\ i > n  -> mem[b.bufs[1]].words[((i - n - 1) \div n) + 1]

Ref(a, i) ==
  LET b == mem[a]
      n == Len(b.bufs)
      j == i - n - 1
  IN  CASE b.kind = "box" -> b.words[1]
        [] b.kind # "box" /\ i <= n -> b.bufs[i]
        [] b.kind # "box" /\ i > n  -> mem[b.bufs[(j % n) + 1]].words[(j \div n) + 1]

(* Fault seeded into Unseen: the mark is not tested.                       *)
UnseenAlways(w) == w \in DOMAIN mem

(* cl_mark_word and cl_mark_child_alloc go into the blocks without a mark  *)
(* and pass over every other word.                                         *)
Unseen(w) == w \in DOMAIN mem \ marked

Mark(p, w) ==
  /\ marked' = marked \cup {w}
  /\ path' = Append(p, <<w, 0>>)

(* cl_alloc finds the threshold passed.                                    *)
cl_gc ==
  /\ phase = "off" /\ call # Idle
  /\ phase' = "mark" /\ scan' = 0
  /\ UNCHANGED <<mvars, path, marked, fault>>

(* The words of the stack, and the references of a block, that remain.     *)
Words == {i \in scan + 1 .. Len(Stack) : Unseen(Stack[i])}

Refs(a, done) ==
  {i \in done + 1 .. RefCount(a) :
     Unset \in {mem[a].bufs[k] : k \in DOMAIN mem[a].bufs} \/ Unseen(Ref(a, i))}

(* The innermost call of cl_mark_descend that has something left to do:    *)
(* the ones below it on the C stack return without a step of their own.    *)
Busy == {k \in DOMAIN path : Refs(path[k][1], path[k][2]) # {}}

ScanWord ==
  /\ phase = "mark" /\ Busy = {} /\ Words # {}
  /\ scan' = Min(Words)
  /\ Mark(<<>>, Stack[scan'])
  /\ UNCHANGED <<mvars, phase, fault>>

Descend ==
  /\ phase = "mark" /\ Busy # {}
  /\ LET k == Max(Busy)
         a == path[k][1]
         i == Min(Refs(a, path[k][2]))
     IN  IF Ref(a, i) = Unset
         THEN fault' = TRUE /\ UNCHANGED <<path, marked>>
         ELSE Mark(SubSeq(path, 1, k - 1) \o <<<<a, i>>>>, Ref(a, i)) /\ UNCHANGED fault
  /\ UNCHANGED <<mvars, phase, scan>>

(* Fault seeded into Sweep: survivors keep their mark.                     *)
SweepKeepsMarks ==
  /\ phase = "mark" /\ Busy = {} /\ Words = {}
  /\ mem' = [a \in marked |-> mem[a]]
  /\ phase' = "off" /\ scan' = 0 /\ path' = <<>>
  /\ UNCHANGED <<program, local, live, call, marked, fault>>

(* What has no mark is freed, what has one loses it.                       *)
Sweep ==
  /\ phase = "mark" /\ Busy = {} /\ Words = {}
  /\ mem' = [a \in marked |-> mem[a]]
  /\ marked' = {}
  /\ phase' = "off" /\ scan' = 0 /\ path' = <<>>
  /\ UNCHANGED <<program, local, live, call, fault>>

MutatorStep == phase = "off" /\ Mutate /\ UNCHANGED gvars

CollectorStep == ScanWord \/ Descend \/ Sweep

Next == ~ fault /\ (MutatorStep \/ cl_gc \/ CollectorStep)

Spec == GCInit /\ [][Next]_vars
--------------------------------------------------------------------------------
(* Properties.                                                             *)

Kind == {"leaf", "box", "raw", "arr", "map", "closure"}

(* Types; between collections no mark is set and nothing is half done.     *)
TypeOK ==
  /\ DOMAIN mem \subseteq room /\ room \subseteq Addr
  /\ \A a \in DOMAIN mem : mem[a].kind \in Kind
  /\ local \in [Slot -> Word] /\ live \subseteq Slot
  /\ phase \in {"off", "mark"}
  /\ marked \subseteq DOMAIN mem
  /\ phase = "off" => marked = {} /\ path = <<>>

Heap == INSTANCE ManagedHeap

(* The collector implements the atomic one: it frees exactly what no word  *)
(* of the stack leads to and leaves every other block as it was.           *)
ImplementsHeap == Heap!Spec

(* What the program or the running constructor can still get at.           *)
InUse ==
  LET W == {local[s] : s \in live} \cup {call.words[i] : i \in 1 .. Len(call.words)}
  IN  [roots |-> W, blocks |-> Heap!Reachable(mem, W)]

BuffersOf(a) == {mem[a].bufs[k] : k \in 1 .. Len(mem[a].bufs)} \ {NULL, Unset}

(* Nothing in use has been freed or has lost its buffers to another block: *)
(* every word leads to a block, every container has its own buffers, large *)
(* enough for its elements.  (Marking changes no block.)                   *)
Intact == phase = "off" =>
  LET U == InUse IN
  /\ U.roots \subseteq DOMAIN mem \cup {Num}
  /\ \A a \in U.blocks :
       /\ mem[a].kind = "box" => mem[a].words[1] \in DOMAIN mem \cup {Num}
       /\ \A p \in BuffersOf(a) :
            /\ p \in DOMAIN mem
            /\ mem[p].kind = "raw"
            /\ mem[a].len <= Len(mem[p].words)
            /\ \A i \in 1 .. mem[a].len : mem[p].words[i] \in DOMAIN mem \cup {Num}
       /\ \A c \in U.blocks : c # a => BuffersOf(a) \cap BuffersOf(c) = {}

(* runtime_x64.c, header comment: the scan may "retain a few dead objects  *)
(* but never collect a live one": it only follows pointers that were set.  *)
NoUnsetRead == ~ fault

(* Marking ends, on cyclic data too: no call of cl_mark_descend is for a   *)
(* block another running call is for, all of these blocks are marked, and  *)
(* so none is entered again (cl_mark_child_alloc, 170-178).                *)
DescentSimple ==
  /\ \A i, j \in DOMAIN path : path[i][1] = path[j][1] => i = j
  /\ \A i \in DOMAIN path : path[i][1] \in marked

================================================================================
