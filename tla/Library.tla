-------------------------------- MODULE Library --------------------------------
(***************************************************************************)
(* What the library functions promise (README.md, 320-392), without a word *)
(* about how: for arguments xs, arrays as and maps ms.  A range that leaves*)
(* its text or array, an empty separator and a negative count are errors,  *)
(* as they are for the virtual machine; the documents say nothing of them. *)
(***************************************************************************)
EXTENDS Calclib

key == num \cup str

Documented(f) ==
  CASE f = "abs" -> <<num>>
    [] f \in {"min", "max", "array_range"} -> <<num, num>>
    [] f \in {"to_str", "to_num"} -> <<num \cup str>>
    [] f = "len" -> <<str \cup arr \cup map>>
    [] f = "type_of" -> <<any>>
    [] f \in {"str_upper", "str_lower", "str_trim"} -> <<str>>
    [] f \in {"str_at", "str_repeat"} -> <<str, num>>
    [] f \in {"str_find", "str_starts_with", "str_ends_with", "str_split"} -> <<str, str>>
    [] f = "str_slice" -> <<str, num, num>>
    [] f = "str_join" -> <<arr, str>>
    [] f \in {"pop", "array_reverse", "array_sort"} -> <<arr>>
    [] f \in {"push", "array_find", "array_contains"} -> <<arr, any>>
    [] f = "array_concat" -> <<arr, arr>>
    [] f = "array_slice" -> <<arr, num, num>>
    [] f \in {"keys", "values"} -> <<map>>
    [] f \in {"has_key", "del"} -> <<map, key>>

Only(s, kind) == {s[k].tag : k \in DOMAIN s} \subseteq kind

InRange(i, j, n) == 0 <= i /\ i <= j /\ j <= n

(* The text without the white space around it.                             *)
Bare(s) ==
  LET inner == {k \in DOMAIN s : ~ IsSpace(s[k])}
  IN  IF inner = {} THEN <<>> ELSE SubSeq(s, Min(inner), Max(inner))

Promised(f, xs, as) ==
  /\ Fit(Documented(f), xs)
  /\ CASE f = "to_num" -> xs[1].tag = "str" =>
            Bare(xs[1].text) # <<>> /\ Strtod(Bare(xs[1].text)).end = Len(Bare(xs[1].text))
       [] f = "str_at"      -> InRange(xs[2].v, xs[2].v + 1, Len(xs[1].text))
       [] f = "str_slice"   -> InRange(xs[2].v, xs[3].v, Len(xs[1].text))
       [] f = "array_slice" -> InRange(xs[2].v, xs[3].v, Len(as[xs[1].v]))
       [] f = "str_repeat"  -> xs[2].v >= 0
       [] f = "str_split"   -> xs[2].text # <<>>
       [] f = "str_join"    -> Only(as[xs[1].v], str)
       [] f = "pop"         -> as[xs[1].v] # <<>>
       [] f = "array_sort"  -> Only(as[xs[1].v], num) \/ Only(as[xs[1].v], str)
       [] OTHER             -> TRUE
-------------------------------------------------------------------------------
Smaller(x, y) == IF x.tag = "num" THEN x.v < y.v ELSE Before(x.text, y.text)

(* The places in order of what stands there, equals as they were.          *)
InOrderOf(s) ==
  LET order == SetToSortSeq(DOMAIN s, LAMBDA p, q :
                 Smaller(s[p], s[q]) \/ (~ Smaller(s[q], s[p]) /\ p < q))
  IN  [k \in DOMAIN s |-> s[order[k]]]

Backwards(s) == [k \in DOMAIN s |-> s[Len(s) + 1 - k]]

(* Separators count from the left and do not overlap; the pieces are what  *)
(* stands before, between and behind them.                                 *)
Pieces(s, sep) ==
  LET cut[i \in 0 .. Len(s)] ==
        Occurs(s, sep, i) /\ \A j \in 0 .. i - 1 : cut[j] => i >= j + Len(sep)
      cuts == SetToSortSeq({i \in 0 .. Len(s) : cut[i]}, LAMBDA i, j : i < j)
      ends == Append(cuts, Len(s))
  IN  [k \in DOMAIN ends |-> TextOf(Part(s, IF k = 1 THEN 0 ELSE ends[k - 1] + Len(sep), ends[k]))]

Together(ts, sep) ==
  FoldLeft(LAMBDA u, k : (IF k = 1 THEN <<>> ELSE u \o sep) \o ts[k].text, <<>>, [k \in DOMAIN ts |-> k])

FirstPlace(s, t) ==
  LET places == {i \in 0 .. Len(s) : Occurs(s, t, i)}
  IN  IF places = {} THEN -1 ELSE CHOOSE i \in places : \A j \in places : i <= j

(* at is the position, from 1, of the element or key that is looked for, 0 *)
(* if there is none.                                                       *)
Promise(f, xs, as, ms, at) ==
  LET x == xs[1]
      s == x.text
      a == as[x.v]
      m == ms[x.v]
      number(n) == Outcome(Number(n), as, ms)
      text(t)   == Outcome(TextOf(t), as, ms)
      new(b)    == Outcome(ArrayAt(Len(as) + 1), Append(as, b), ms)
      change(v, b) == Outcome(v, [as EXCEPT ![x.v] = b], ms)
      without(k)   == SubSeq(m, 1, k - 1) \o SubSeq(m, k + 1, Len(m))
  IN  CASE f = "abs"     -> number(Abs(x.v))
        [] f = "min"     -> number(CHOOSE n \in {x.v, xs[2].v} : n <= x.v /\ n <= xs[2].v)
        [] f = "max"     -> number(CHOOSE n \in {x.v, xs[2].v} : n >= x.v /\ n >= xs[2].v)
        [] f = "to_num"  -> IF x.tag = "num" THEN number(x.v) ELSE number(Strtod(Bare(s)).value)
        [] f = "to_str"  -> text(AsText(x))
        [] f = "type_of" -> text(KindName[x.tag])
        [] f = "len"     -> number(CASE x.tag = "str" -> Len(s) [] x.tag = "arr" -> Len(a) [] OTHER -> Len(m))
        [] f = "str_at"    -> text(<<s[xs[2].v + 1]>>)
        [] f = "str_slice" -> text(Part(s, xs[2].v, xs[3].v))
        [] f = "str_find"  -> number(FirstPlace(s, xs[2].text))
        [] f = "str_upper" -> text([k \in DOMAIN s |-> ToUpper(s[k])])
        [] f = "str_lower" -> text([k \in DOMAIN s |-> ToLower(s[k])])
        [] f = "str_trim"  -> text(Bare(s))
        [] f = "str_repeat" -> text(Together([k \in 1 .. xs[2].v |-> x], <<>>))
        [] f = "str_starts_with" -> number(Flag(IsPrefix(xs[2].text, s)))
        [] f = "str_ends_with"   -> number(Flag(IsSuffix(xs[2].text, s)))
        [] f = "str_split"  -> new(Pieces(s, xs[2].text))
        [] f = "str_join"   -> text(Together(a, xs[2].text))
        [] f = "push" -> change(Number(Len(a) + 1), Append(a, xs[2]))
        [] f = "pop"  -> change(Last(a), Front(a))
        [] f = "array_reverse"  -> change(x, Backwards(a))
        [] f = "array_sort"     -> change(x, InOrderOf(a))
        [] f = "array_concat"   -> new(a \o as[xs[2].v])
        [] f = "array_slice"    -> new(Part(a, xs[2].v, xs[3].v))
        [] f = "array_range"    -> new([k \in 1 .. xs[2].v - x.v |-> Number(x.v + k - 1)])
        [] f = "array_find"     -> number(at - 1)
        [] f \in {"array_contains", "has_key"} -> number(Flag(at # 0))
        [] f = "keys"   -> new([k \in DOMAIN m |-> m[k].key])
        [] f = "values" -> new([k \in DOMAIN m |-> m[k].value])
        [] f = "del"    -> IF at = 0 THEN number(0)
                           ELSE Outcome(Number(1), as, [ms EXCEPT ![x.v] = without(at)])
================================================================================
