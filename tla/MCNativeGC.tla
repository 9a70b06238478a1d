------------------------------ MODULE MCNativeGC -------------------------------
(* Small instances of NativeGC for TLC.                                    *)
EXTENDS NativeGC, TLC

(* Addresses are only compared for equality.                               *)
Symmetry == Permutations(Addr)

(* A program with maps, and two with boxes and what else holds values.     *)
Mixed == {
  [ops |-> {"leaf", "map", "set"}, blocks |-> 4],
  [ops |-> {"box", "closure", "arr", "push"}, blocks |-> 3],
  [ops |-> {"box", "concat"}, blocks |-> 3] }

Closures == {[ops |-> {"box", "closure"}, blocks |-> 3]}
================================================================================
