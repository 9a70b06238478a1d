-------------------------------- MODULE Calclib --------------------------------
(***************************************************************************)
(* Values, and what both machines and the meaning of programs take from    *)
(* arithmetic and from C; then the library functions that both paths have  *)
(* built in (calclib.c), except those of floating-point arithmetic, of     *)
(* random numbers and of files.  Numbers are integers; a text is the       *)
(* sequence of its character codes.                                        *)
(***************************************************************************)
EXTENDS Integers, Sequences, FiniteSets, SequencesExt

(* A value: a number, a text, or a reference.                              *)
Number(n)  == [tag |-> "num", v |-> n]
TextOf(s)  == [tag |-> "str", text |-> s]
ArrayAt(a) == [tag |-> "arr", v |-> a]
MapAt(a)   == [tag |-> "map", v |-> a]
FnAt(k)    == [tag |-> "fn", v |-> k]

IsKey(x) == x.tag \in {"num", "str"}

(* What is printed: of an array, a map or a function only the kind is kept.*)
Shown(x) == IF x.tag \in {"num", "str"} THEN x ELSE [x EXCEPT !.v = 0]

Flag(b) == IF b THEN 1 ELSE 0

(* printf's %.10g of an integer of at most ten digits.                     *)
Tens == <<1, 10, 100, 1000, 10000, 100000, 1000000, 10000000, 100000000, 1000000000>>

Digits(n) ==
  LET width == 1 + Cardinality({k \in 2 .. 10 : n >= Tens[k]})
  IN  [k \in 1 .. width |-> 48 + ((n \div Tens[width - k + 1]) % 10)]

Decimal(n) == IF n < 0 THEN <<45>> \o Digits(0 - n) ELSE Digits(n)

(* What + makes of a number beside a text.                                 *)
AsText(x) == IF x.tag = "num" THEN Decimal(x.v) ELSE x.text

(* strcmp: the first difference decides, and a prefix comes first.         *)
Before(s, t) ==
  \E k \in 1 .. Len(t) :
    /\ k - 1 <= Len(s)
    /\ \A j \in 1 .. k - 1 : s[j] = t[j]
    /\ k > Len(s) \/ s[k] < t[k]

(* fmod: the remainder has the sign of the dividend.                       *)
Abs(n) == IF n < 0 THEN 0 - n ELSE n

Fmod(m, n) == IF m < 0 THEN 0 - (Abs(m) % Abs(n)) ELSE m % Abs(n)
-------------------------------------------------------------------------------
Entry(id, arity) == [id |-> id, arity |-> arity]

Builtins == [
  abs |-> Entry(3, 1), to_str |-> Entry(5, 1), to_num |-> Entry(6, 1), len |-> Entry(7, 1),
  push |-> Entry(9, 2), min |-> Entry(10, 2), max |-> Entry(11, 2), type_of |-> Entry(47, 1),
  str_at |-> Entry(27, 2), str_slice |-> Entry(28, 3), str_find |-> Entry(29, 2),
  str_upper |-> Entry(30, 1), str_lower |-> Entry(31, 1), str_trim |-> Entry(32, 1),
  str_repeat |-> Entry(33, 2), str_starts_with |-> Entry(34, 2), str_ends_with |-> Entry(35, 2),
  str_split |-> Entry(36, 2), str_join |-> Entry(37, 2),
  pop |-> Entry(38, 1), array_reverse |-> Entry(39, 1), array_sort |-> Entry(40, 1),
  array_concat |-> Entry(41, 2), array_slice |-> Entry(42, 3), array_find |-> Entry(43, 2),
  array_contains |-> Entry(44, 2), array_range |-> Entry(45, 2),
  keys |-> Entry(48, 1), values |-> Entry(49, 1), has_key |-> Entry(50, 2), del |-> Entry(51, 2)]

IsBuiltin(f) == f \in DOMAIN Builtins
Arity(f) == Builtins[f].arity

(* The function with a number, and the numbers that are one's.             *)
IdOf(f) == Builtins[f].id
Ids == {IdOf(f) : f \in DOMAIN Builtins}
Named(id) == CHOOSE f \in DOMAIN Builtins : IdOf(f) = id

(* Kinds of arguments.                                                     *)
num == {"num"}
str == {"str"}
arr == {"arr"}
map == {"map"}
any == {"num", "str", "arr", "map", "fn"}

(* Families of functions: that look at values, look for a text in a text,  *)
(* make a text, make an array, change the array or map they are given.     *)
NumberFns == {"abs", "min", "max", "to_num", "len"}
SearchFns == {"str_find", "str_starts_with", "str_ends_with"}
TextFns   == {"to_str", "type_of", "str_at", "str_slice", "str_upper", "str_lower", "str_trim", "str_repeat",
              "str_join"}
ArrayFns  == {"str_split", "array_concat", "array_slice", "array_range", "keys", "values"}
ChangeFns == {"push", "pop", "array_reverse", "array_sort", "del"}

(* What a call gives: its value, and the arrays and maps there are then.   *)
Outcome(x, as, ms) == [val |-> x, arrays |-> as, maps |-> ms]

Fit(kinds, xs) == \A k \in DOMAIN kinds : xs[k].tag \in kinds[k]

KindName == [num |-> <<110, 117, 109>>, str |-> <<115, 116, 114>>, arr |-> <<97, 114, 114>>,
             map |-> <<109, 97, 112>>, fn |-> <<102, 110>>]
-------------------------------------------------------------------------------
(* isspace, isdigit, toupper and tolower of one character.                 *)
IsSpace(c) == c = 32 \/ c \in 9 .. 13
IsDigit(c) == c \in 48 .. 57
ToUpper(c) == IF c \in 97 .. 122 THEN c - 32 ELSE c
ToLower(c) == IF c \in 65 .. 90 THEN c + 32 ELSE c

(* The part of a text, or an array, from offset i up to j.                 *)
Part(s, i, j) == SubSeq(s, i + 1, j)

(* memcmp: t is what s has at offset i.                                    *)
Occurs(s, t, i) == i >= 0 /\ i + Len(t) <= Len(s) /\ \A k \in 1 .. Len(t) : s[i + k] = t[k]

(* strstr from offset i on: the first place of t, or -1.                   *)
Strstr(s, t, i) ==
  LET places == {p \in i .. Len(s) : Occurs(s, t, p)}
  IN  IF places = {} THEN -1 ELSE CHOOSE p \in places : \A q \in places : p <= q

(* How many characters of a set follow offset i.                           *)
Run(s, i, S) == CHOOSE n \in 0 .. Len(s) - i :
  /\ \A k \in 1 .. n : s[i + k] \in S
  /\ i + n < Len(s) => s[i + n + 1] \notin S

Spaces == {c \in 0 .. 127 : IsSpace(c)}

(* What the n digits behind offset i amount to.                            *)
NumeralValue(s, i, n) ==
  LET value[k \in 0 .. n] == IF k = 0 THEN 0 ELSE 10 * value[k - 1] + s[i + k] - 48
  IN  value[n]

(* strtod of a text with no point or exponent: the number and where it     *)
(* ends, at the beginning if there is none.                                *)
Strtod(s) ==
  LET a == Run(s, 0, Spaces)
      sign == IF a < Len(s) /\ s[a + 1] \in {43, 45} THEN 1 ELSE 0
      n == Run(s, a + sign, 48 .. 57)
      abs == NumeralValue(s, a + sign, n)
  IN  IF n = 0 THEN [value |-> 0, end |-> 0]
      ELSE [value |-> IF sign = 1 /\ s[a + 1] = 45 THEN 0 - abs ELSE abs, end |-> a + sign + n]
================================================================================
