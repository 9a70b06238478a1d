----------------------------- MODULE NativeLibrary -----------------------------
(***************************************************************************)
(* The library functions as the native runtime has them (runtime_x64.c):   *)
(* xs are the arguments, as and ms the arrays and maps there are.          *)
(***************************************************************************)
EXTENDS Calclib

(* require_num, require_str, require_arr and require_map.                  *)
NativeKinds(f) ==
  CASE f = "abs" -> <<num>>
    [] f \in {"min", "max", "array_range"} -> <<num, num>>
    [] f \in {"to_num", "to_str"} -> <<num \cup str>>
    [] f = "len" -> <<str \cup arr \cup map>>
    [] f = "type_of" -> <<any>>
    [] f \in {"str_upper", "str_lower", "str_trim"} -> <<str>>
    [] f \in {"str_at", "str_repeat"} -> <<str, num>>
    [] f = "str_slice" -> <<str, num, num>>
    [] f \in {"str_find", "str_starts_with", "str_ends_with", "str_split"} -> <<str, str>>
    [] f = "str_join" -> <<arr, str>>
    [] f \in {"pop", "array_reverse", "array_sort"} -> <<arr>>
    [] f \in {"push", "array_find", "array_contains"} -> <<arr, any>>
    [] f = "array_concat" -> <<arr, arr>>
    [] f = "array_slice" -> <<arr, num, num>>
    [] f \in {"keys", "values"} -> <<map>>
    [] f \in {"has_key", "del"} -> <<map, any>>

(* to_num: where strtod stops, only white space may follow; of a text of   *)
(* nothing but white space it makes 0.                                     *)
Consumed(s) == LET n == Strtod(s).end IN n + Run(s, n, {9, 10, 13, 32})

Homogeneous(s) == \/ \A k \in DOMAIN s : s[k].tag = "num"
                  \/ \A k \in DOMAIN s : s[k].tag = "str"

NativeAllows(f, xs, as) ==
  CASE f = "to_num"     -> xs[1].tag = "str" => xs[1].text # <<>> /\ Consumed(xs[1].text) = Len(xs[1].text)
    [] f = "str_at"     -> xs[2].v >= 0 /\ xs[2].v < Len(xs[1].text)
    [] f = "str_join"   -> \A k \in DOMAIN as[xs[1].v] : as[xs[1].v][k].tag = "str"
    [] f = "pop"        -> Len(as[xs[1].v]) # 0
    [] f = "array_sort" -> Homogeneous(as[xs[1].v])
    [] OTHER            -> TRUE

NativeAccepts(f, xs, as) == Fit(NativeKinds(f), xs) /\ NativeAllows(f, xs, as)
-------------------------------------------------------------------------------
(* A range of n items: a negative beginning counts as 0, an end that is    *)
(* negative or too large as the whole length, and nothing is before it.    *)
Clamp(s, a, b, n) ==
  LET lo == IF a < 0 THEN 0 ELSE a
      hi == IF b < 0 \/ b > n THEN n ELSE b
  IN  Part(s, lo, IF hi < lo THEN lo ELSE hi)

NativeNumber(f, xs, as, ms) ==
  LET x == xs[1] IN
  CASE f = "abs" -> Abs(x.v)
    [] f = "min" -> IF x.v < xs[2].v THEN x.v ELSE xs[2].v
    [] f = "max" -> IF x.v > xs[2].v THEN x.v ELSE xs[2].v
    [] f = "to_num" /\ x.tag = "num" -> x.v
    [] f = "to_num" /\ x.tag = "str" -> Strtod(x.text).value
    [] f = "len" /\ x.tag = "str" -> Len(x.text)
    [] f = "len" /\ x.tag = "arr" -> Len(as[x.v])
    [] f = "len" /\ x.tag = "map" -> Len(ms[x.v])

(* memcmp at every offset, the least of which counts.                      *)
NativeSearch(f, s, t) ==
  LET places == {i \in 0 .. Len(s) - Len(t) : Occurs(s, t, i)} IN
  CASE f = "str_starts_with" -> Flag(0 \in places)
    [] f = "str_ends_with"   -> Flag(Len(s) - Len(t) \in places)
    [] f = "str_find" /\ places = {} -> -1
    [] f = "str_find" /\ places # {} -> CHOOSE i \in places : \A j \in places : i <= j

Copies(s, n) == FoldLeft(LAMBDA u, k : u \o s, <<>>, [k \in 1 .. n |-> k])

Stripped(s) ==
  LET a == Run(s, 0, Spaces)
      b == Len(s) - Run(Reverse(s), 0, Spaces)
  IN  Part(s, a, IF b > a THEN b ELSE a)

Glued(ts, sep) ==
  IF ts = <<>> THEN <<>> ELSE FoldLeft(LAMBDA u, x : u \o sep \o x.text, ts[1].text, Tail(ts))

NativeText(f, xs, as) ==
  LET s == xs[1].text IN
  CASE f = "to_str"     -> AsText(xs[1])
    [] f = "type_of"    -> KindName[xs[1].tag]
    [] f = "str_at"     -> Part(s, xs[2].v, xs[2].v + 1)
    [] f = "str_slice"  -> Clamp(s, xs[2].v, xs[3].v, Len(s))
    [] f = "str_upper"  -> [k \in DOMAIN s |-> ToUpper(s[k])]
    [] f = "str_lower"  -> [k \in DOMAIN s |-> ToLower(s[k])]
    [] f = "str_trim"   -> Stripped(s)
    [] f = "str_repeat" -> Copies(s, xs[2].v)
    [] f = "str_join"   -> Glued(as[xs[1].v], xs[2].text)

(* From offset i, with a piece that begins at start: cut at a separator,   *)
(* or go on with the next character.                                       *)
KeepsStart(s, sep) ==     \* a mutant of NativeSplit
  LET scan[start \in 0 .. Len(s), i \in 0 .. Len(s)] ==
        CASE i + Len(sep) > Len(s) -> <<TextOf(Part(s, start, Len(s)))>>
          [] i + Len(sep) <= Len(s) /\ Occurs(s, sep, i) ->
               <<TextOf(Part(s, start, i))>> \o scan[start, i + Len(sep)]
          [] OTHER -> scan[start, i + 1]
  IN  IF sep = <<>> THEN [k \in DOMAIN s |-> TextOf(<<s[k]>>)] ELSE scan[0, 0]

NativeSplit(s, sep) ==
  LET scan[start \in 0 .. Len(s), i \in 0 .. Len(s)] ==
        CASE i + Len(sep) > Len(s) -> <<TextOf(Part(s, start, Len(s)))>>
          [] i + Len(sep) <= Len(s) /\ Occurs(s, sep, i) ->
               <<TextOf(Part(s, start, i))>> \o scan[i + Len(sep), i + Len(sep)]
          [] OTHER -> scan[start, i + 1]
  IN  IF sep = <<>> THEN [k \in DOMAIN s |-> TextOf(<<s[k]>>)] ELSE scan[0, 0]
-------------------------------------------------------------------------------
(* qsort with cmp_num or cmp_str.                                          *)
Ordered(x, y) == IF x.tag = "num" THEN x.v < y.v ELSE Before(x.text, y.text)

NativeArray(f, xs, as, ms) ==
  CASE f = "str_split"    -> NativeSplit(xs[1].text, xs[2].text)
    [] f = "array_concat" -> as[xs[1].v] \o as[xs[2].v]
    [] f = "array_slice"  -> Clamp(as[xs[1].v], xs[2].v, xs[3].v, Len(as[xs[1].v]))
    [] f = "array_range"  -> [k \in 1 .. xs[2].v - xs[1].v |-> Number(xs[1].v + k - 1)]
    [] f = "keys"         -> [k \in DOMAIN ms[xs[1].v] |-> ms[xs[1].v][k].key]
    [] f = "values"       -> [k \in DOMAIN ms[xs[1].v] |-> ms[xs[1].v][k].value]

(* Later entries move down by one.                                         *)
Shifted(s, i) == [k \in 1 .. Len(s) - 1 |-> IF k < i THEN s[k] ELSE s[k + 1]]

(* Those that change what they are given.  at is the position, from 1, of  *)
(* the element or key that is looked for, 0 if there is none.              *)
NativeChanges(f, xs, as, ms, at) ==
  LET a == xs[1].v
      n == Len(as[a])
  IN  CASE f = "push" -> Outcome(Number(n + 1), [as EXCEPT ![a] = Append(@, xs[2])], ms)
        [] f = "pop"  -> Outcome(as[a][n], [as EXCEPT ![a] = Part(@, 0, n - 1)], ms)
        [] f = "array_reverse" -> Outcome(xs[1], [as EXCEPT ![a] = [k \in 1 .. n |-> @[n + 1 - k]]], ms)
        [] f = "array_sort"    -> Outcome(xs[1], [as EXCEPT ![a] = SortSeq(@, Ordered)], ms)
        [] f = "del" /\ at = 0 -> Outcome(Number(0), as, ms)
        [] f = "del" /\ at > 0 -> Outcome(Number(1), as, [ms EXCEPT ![a] = Shifted(@, at)])

NativeResult(f, xs, as, ms, at) ==
  CASE f \in NumberFns -> Outcome(Number(NativeNumber(f, xs, as, ms)), as, ms)
    [] f \in SearchFns ->
         Outcome(Number(NativeSearch(f, xs[1].text, xs[2].text)), as, ms)
    [] f \in TextFns -> Outcome(TextOf(NativeText(f, xs, as)), as, ms)
    [] f \in ArrayFns ->
         Outcome(ArrayAt(Len(as) + 1), Append(as, NativeArray(f, xs, as, ms)), ms)
    [] f = "array_find" -> Outcome(Number(at - 1), as, ms)
    [] f \in {"array_contains", "has_key"} -> Outcome(Number(Flag(at > 0)), as, ms)
    [] f \in ChangeFns -> NativeChanges(f, xs, as, ms, at)
================================================================================
