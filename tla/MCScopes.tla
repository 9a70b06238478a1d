-------------------------------- MODULE MCScopes -------------------------------
(* A small instance of Scopes for TLC.                                     *)
EXTENDS Scopes

(* Names are only compared for equality.                                   *)
Symmetry == Permutations(Name)

(* What is left of a function that was closed is reset when the next one   *)
(* opens at its depth, and read by nobody before: states that differ only  *)
(* there are one state.                                                    *)
Live ==
  LET open(f) == [d \in 1 .. st.depth |-> f[d]]
  IN  << [st EXCEPT !.next = open(@), !.peak = open(@)], open(ups), within >>
===============================================================================
