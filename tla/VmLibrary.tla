------------------------------- MODULE VmLibrary -------------------------------
(***************************************************************************)
(* The library functions as the virtual machine has them (calcvm.c, the    *)
(* cases of OP_BUILTIN).  xs are the arguments, as and ms the arrays and   *)
(* maps there are.  A text ends at its first NUL: none of ours has one.    *)
(***************************************************************************)
EXTENDS Calclib

(* The kinds the machine asks for: type_error otherwise.                   *)
VmKinds(f) ==
  CASE f = "abs" -> <<num>>
    [] f \in {"min", "max", "array_range"} -> <<num, num>>
    [] f = "to_num" -> <<num \cup str>>
    [] f = "len" -> <<str \cup arr \cup map>>
    [] f \in {"to_str", "type_of"} -> <<any>>
    [] f \in {"str_upper", "str_lower", "str_trim"} -> <<str>>
    [] f \in {"str_at", "str_repeat"} -> <<str, num>>
    [] f = "str_slice" -> <<str, num, num>>
    [] f \in {"str_find", "str_starts_with", "str_ends_with", "str_split"} -> <<str, str>>
    [] f = "str_join" -> <<arr, str>>
    [] f \in {"pop", "array_reverse", "array_sort"} -> <<arr>>
    [] f \in {"push", "array_find", "array_contains"} -> <<arr, any>>
    [] f = "array_concat" -> <<arr, arr>>
    [] f = "array_slice" -> <<arr, num, num>>
    [] f \in {"keys", "values"} -> <<map>>
    [] f \in {"has_key", "del"} -> <<map, any>>

(* to_num: white space around the number, and nothing else.                *)
IsNumeral(s) ==
  LET n == Strtod(s).end
  IN  n > 0 /\ \A k \in n + 1 .. Len(s) : IsSpace(s[k])

AllOf(xs, kind) == \A k \in DOMAIN xs : xs[k].tag = kind

(* What else it checks before it acts.                                     *)
VmAllows(f, xs, as) ==
  CASE f = "to_num"      -> xs[1].tag = "str" => IsNumeral(xs[1].text)
    [] f = "str_at"      -> xs[2].v \in 0 .. Len(xs[1].text) - 1
    [] f = "str_slice"   -> xs[2].v >= 0 /\ xs[3].v \in xs[2].v .. Len(xs[1].text)
    [] f = "str_repeat"  -> xs[2].v >= 0
    [] f = "str_split"   -> xs[2].text # <<>>
    [] f = "str_join"    -> AllOf(as[xs[1].v], "str")
    [] f = "pop"         -> as[xs[1].v] # <<>>
    [] f = "array_sort"  -> LET s == as[xs[1].v] IN Len(s) > 1 => AllOf(s, "num") \/ AllOf(s, "str")
    [] f = "array_slice" -> xs[2].v >= 0 /\ xs[3].v \in xs[2].v .. Len(as[xs[1].v])
    [] OTHER             -> TRUE

VmAccepts(f, xs, as) == Fit(VmKinds(f), xs) /\ VmAllows(f, xs, as)
-------------------------------------------------------------------------------
(* to_str prints the word of any other value as if it were a number.       *)
WordText == <<63>>

VmNumber(f, xs, as, ms) ==
  CASE f = "abs" -> Abs(xs[1].v)
    [] f = "min" -> IF xs[1].v < xs[2].v THEN xs[1].v ELSE xs[2].v
    [] f = "max" -> IF xs[1].v > xs[2].v THEN xs[1].v ELSE xs[2].v
    [] f = "to_num" -> IF xs[1].tag = "num" THEN xs[1].v ELSE Strtod(xs[1].text).value
    [] f = "len" -> CASE xs[1].tag = "str" -> Len(xs[1].text)
                      [] xs[1].tag = "arr" -> Len(as[xs[1].v])
                      [] xs[1].tag = "map" -> Len(ms[xs[1].v])

Trimmed(s) ==
  LET i == Run(s, 0, Spaces)
      j == CHOOSE e \in i .. Len(s) : /\ \A k \in e + 1 .. Len(s) : IsSpace(s[k])
                                      /\ e > i => ~ IsSpace(s[e])
  IN  Part(s, i, j)

Joined(ts, sep) ==
  LET joined[k \in 0 .. Len(ts)] ==
        IF k = 0 THEN <<>> ELSE joined[k - 1] \o (IF k > 1 THEN sep ELSE <<>>) \o ts[k].text
  IN  joined[Len(ts)]

VmText(f, xs, as) ==
  LET s == xs[1].text IN
  CASE f = "to_str"     -> IF xs[1].tag \in {"num", "str"} THEN AsText(xs[1]) ELSE WordText
    [] f = "type_of"    -> KindName[xs[1].tag]
    [] f = "str_at"     -> <<s[xs[2].v + 1]>>
    [] f = "str_slice"  -> Part(s, xs[2].v, xs[3].v)
    [] f = "str_upper"  -> [k \in DOMAIN s |-> ToUpper(s[k])]
    [] f = "str_lower"  -> [k \in DOMAIN s |-> ToLower(s[k])]
    [] f = "str_trim"   -> Trimmed(s)
    [] f = "str_repeat" -> [k \in 1 .. xs[2].v * Len(s) |-> s[1 + ((k - 1) % Len(s))]]
    [] f = "str_join"   -> Joined(as[xs[1].v], xs[2].text)

VmSearch(f, s, t) ==
  CASE f = "str_find"        -> Strstr(s, t, 0)
    [] f = "str_starts_with" -> Flag(Occurs(s, t, 0))
    [] f = "str_ends_with"   -> Flag(Occurs(s, t, Len(s) - Len(t)))

SplitAfterOne(s, sep) ==     \* a mutant of VmSplit: it goes on one character after a separator
  LET split[p \in 0 .. Len(s)] ==
        LET q == Strstr(s, sep, p)
        IN  IF q = -1 THEN <<TextOf(Part(s, p, Len(s)))>> ELSE <<TextOf(Part(s, p, q))>> \o split[q + 1]
  IN  split[0]

VmSplit(s, sep) ==
  LET split[p \in 0 .. Len(s)] ==
        LET q == Strstr(s, sep, p)
        IN  IF q = -1 THEN <<TextOf(Part(s, p, Len(s)))>>
            ELSE <<TextOf(Part(s, p, q))>> \o split[q + Len(sep)]
  IN  split[0]
-------------------------------------------------------------------------------
Lesser(x, y) == IF x.tag = "num" THEN x.v < y.v ELSE Before(x.text, y.text)

(* qsort: elements the comparison takes for equal are equal, so there is   *)
(* one order, here found by inserting one element after the other.         *)
Inserted(t, x) == InsertAt(t, 1 + Cardinality({k \in DOMAIN t : ~ Lesser(x, t[k])}), x)

Sorted(s) ==
  LET sorted[k \in 0 .. Len(s)] == IF k = 0 THEN <<>> ELSE Inserted(sorted[k - 1], s[k])
  IN  sorted[Len(s)]

(* The new array of those functions that make one.                         *)
VmArray(f, xs, as, ms) ==
  CASE f = "str_split"    -> VmSplit(xs[1].text, xs[2].text)
    [] f = "array_concat" -> as[xs[1].v] \o as[xs[2].v]
    [] f = "array_slice"  -> Part(as[xs[1].v], xs[2].v, xs[3].v)
    [] f = "array_range"  -> [k \in 1 .. xs[2].v - xs[1].v |-> Number(xs[1].v + k - 1)]
    [] f = "keys"         -> [k \in DOMAIN ms[xs[1].v] |-> ms[xs[1].v][k].key]
    [] f = "values"       -> [k \in DOMAIN ms[xs[1].v] |-> ms[xs[1].v][k].value]

Removed(s, k) == SubSeq(s, 1, k - 1) \o SubSeq(s, k + 1, Len(s))

(* Those that change what they are given.  at is the position, from 1, of  *)
(* the element or key that is looked for, 0 if there is none.              *)
VmChanges(f, xs, as, ms, at) ==
  LET a == xs[1].v IN
  CASE f = "push" -> Outcome(Number(Len(as[a]) + 1), [as EXCEPT ![a] = Append(@, xs[2])], ms)
    [] f = "pop"  -> Outcome(Last(as[a]), [as EXCEPT ![a] = Front(@)], ms)
    [] f = "array_reverse" -> Outcome(xs[1], [as EXCEPT ![a] = Reverse(@)], ms)
    [] f = "array_sort"    -> Outcome(xs[1], [as EXCEPT ![a] = Sorted(@)], ms)
    [] f = "del" /\ at = 0 -> Outcome(Number(0), as, ms)
    [] f = "del" /\ at > 0 -> Outcome(Number(1), as, [ms EXCEPT ![a] = Removed(@, at)])

VmResult(f, xs, as, ms, at) ==
  CASE f \in NumberFns -> Outcome(Number(VmNumber(f, xs, as, ms)), as, ms)
    [] f \in SearchFns ->
         Outcome(Number(VmSearch(f, xs[1].text, xs[2].text)), as, ms)
    [] f \in TextFns -> Outcome(TextOf(VmText(f, xs, as)), as, ms)
    [] f \in ArrayFns ->
         Outcome(ArrayAt(Len(as) + 1), Append(as, VmArray(f, xs, as, ms)), ms)
    [] f = "array_find" -> Outcome(Number(at - 1), as, ms)
    [] f \in {"array_contains", "has_key"} -> Outcome(Number(Flag(at > 0)), as, ms)
    [] f \in ChangeFns -> VmChanges(f, xs, as, ms, at)
================================================================================
