------------------------------ MODULE ManagedHeap ------------------------------
(***************************************************************************)
(* What the collector promises: when cl_alloc is called it may first free, *)
(* in one step, exactly the blocks that no word of the native stack leads  *)
(* to, and it changes nothing else.                                        *)
(***************************************************************************)
EXTENDS GcMutator

StackWords == {local[s] : s \in Slot} \cup {call.words[i] : i \in 1 .. Len(call.words)}

(* The words of block a that lead further: a box holds one, a container    *)
(* those of its buffers that are in use.                                   *)
Elements(m, a) ==
  IF m[a].kind = "box"
  THEN {m[a].words[1]}
  ELSE UNION {LET ws == Contents(m, m[a].bufs[k])
              IN  {ws[i] : i \in (1 .. m[a].len) \cap DOMAIN ws} : k \in 1 .. Len(m[a].bufs)}

Children(m, a) == {m[a].bufs[k] : k \in 1 .. Len(m[a].bufs)} \cup Elements(m, a)

(* A set of blocks that contains whatever its blocks lead to.              *)
Closed(m, S) == \A a \in S : DOMAIN m \cap Children(m, a) \subseteq S

(* The blocks that the words of R lead to: those in every closed set that  *)
(* contains the blocks among R.                                            *)
Reachable(m, R) ==
  {a \in DOMAIN m : \A S \in SUBSET DOMAIN m :
     R \cap DOMAIN m \subseteq S /\ Closed(m, S) => a \in S}

Collect ==
  /\ call # Idle
  /\ mem' # mem
  /\ mem' = [a \in Reachable(mem, StackWords) |-> mem[a]]
  /\ UNCHANGED <<program, local, live, call>>

Next == Mutate \/ Collect

Spec == Init /\ [][Next]_mvars
================================================================================
