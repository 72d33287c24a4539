------------------------------ MODULE Versions ------------------------------
(***************************************************************************)
(* Version strings: how they are split, printed and compared (pkg_parse.c, *)
(* and pkg.c, from dpkg's vercmp.c), and what a constraint says of them.   *)
(* A string is a sequence of characters; epochs are unsigned longs and are *)
(* compared and printed through an int.                                    *)
(***************************************************************************)
EXTENDS Integers, SequencesExt

CONSTANTS
  LongSize, IntSize,  \* how many values an unsigned long and an int have
  NoString            \* a NULL char pointer

ASSUME WidthAssumption ==
  IntSize \in Nat \ {0} /\ LongSize \in Nat /\ \E k \in 1..LongSize : LongSize = k * IntSize

Numerals == <<"0", "1", "2", "3", "4", "5", "6", "7", "8", "9">>

Digits   == {Numerals[i] : i \in 1..10}
Digit(c) == CHOOSE n \in 0..9 : Numerals[n + 1] = c

Alpha == [c \in {"a", "b"} |-> IF c = "a" THEN 97 ELSE 98]
Other == [c \in {"+", "-", ".", ":"} |->
            CASE c = "+" -> 43 [] c = "-" -> 45 [] c = "." -> 46 [] c = ":" -> 58]

Char == {"~"} \cup Digits \cup DOMAIN Alpha \cup DOMAIN Other

End == "end of the string"

\* What parse_version fills in.
Version == [epoch : Nat, version : Seq(Char), revision : Seq(Char) \cup {NoString}]

First(s) == IF s = <<>> THEN End ELSE s[1]

From(s, i) == SubSeq(s, i, Len(s))

\* The first place where s has no character of the set.
After(s, set) ==
  CHOOSE j \in 1..(Len(s) + 1) : (j <= Len(s) => s[j] \notin set) /\ \A k \in 1..(j - 1) : s[k] \in set

AddDigit(n, c) == 10 * n + Digit(c)

Number(s) == FoldLeft(AddDigit, 0, s)

StrToUL(s) == IF Number(s) < LongSize THEN Number(s) ELSE LongSize - 1

ToInt(n) == LET low == n % IntSize IN IF 2 * low < IntSize THEN low ELSE low - IntSize

Sgn(n) == CASE n < 0 -> -1 [] n = 0 -> 0 [] n > 0 -> 1

\* parse_version: a colon after nothing but digits ends the epoch, and the last
\* dash begins the revision.
ParseVersion(s) ==
  LET colon == After(s, Digits)
      rest  == IF First(From(s, colon)) = ":" THEN From(s, colon + 1) ELSE s
      dash  == SelectLastInSeq(rest, LAMBDA c : c = "-")
  IN  [epoch    |-> IF First(From(s, colon)) = ":" THEN StrToUL(SubSeq(s, 1, colon - 1)) ELSE 0,
       version  |-> IF dash = 0 THEN rest ELSE SubSeq(rest, 1, dash - 1),
       revision |-> IF dash = 0 THEN NoString ELSE From(rest, dash + 1)]

\* printf("%d"), from the last digit to the first.
PutDigit(d, i) ==
  IF d.left = 0 /\ d.text # <<>> THEN d
  ELSE [left |-> d.left \div 10, text |-> <<Numerals[(d.left % 10) + 1]>> \o d.text]

Decimal(n) ==
  LET text(m) == FoldLeft(PutDigit, [left |-> m, text |-> <<>>], [i \in 1..IntSize |-> i]).text
  IN  IF n < 0 THEN <<"-">> \o text(-n) ELSE text(n)

\* pkg_version_str_alloc
VersionString(v) ==
  (IF v.epoch = 0 THEN <<>> ELSE Decimal(ToInt(v.epoch)) \o <<":">>)
    \o v.version
    \o (IF v.revision = NoString THEN <<>> ELSE <<"-">> \o v.revision)

\* Mutant: other characters do not come after the letters.
OrderByCode(c) ==
  CASE c = "~"                -> -1
    [] c \in Digits \cup {End} -> 0
    [] c \in DOMAIN Alpha      -> Alpha[c]
    [] c \in DOMAIN Other      -> Other[c]

Order(c) ==
  CASE c = "~"                -> -1
    [] c \in Digits \cup {End} -> 0
    [] c \in DOMAIN Alpha      -> Alpha[c]
    [] c \in DOMAIN Other      -> 256 + Other[c]

(***************************************************************************)
(* verrevcmp goes through both strings at a time: characters other than    *)
(* digits are compared one by one; at digits zeros are skipped and the     *)
(* longer number, or the first digit that differs, decides.  What is left  *)
(* of a string after a step does not depend on the other one.              *)
(***************************************************************************)
IsText(s) == First(s) \notin Digits \cup {End}

Significant(s) == From(s, After(s, {"0"}))

Leading(t) == SubSeq(t, 1, After(t, Digits) - 1)
Behind(t)  == From(t, After(t, Digits))

Numeral(s) == Leading(Significant(s))

Rest(s, n) == IF IsText(s) THEN From(s, 2) ELSE Behind(Significant(s))

CompareNumerals(a, b) ==
  LET differing == {k \in 1..Len(a) : a[k] # b[k]}
      first     == CHOOSE k \in differing : \A l \in differing : k <= l
  IN  IF Len(a) # Len(b) THEN IF Len(a) > Len(b) THEN 1 ELSE -1
      ELSE IF differing # {} THEN Digit(a[first]) - Digit(b[first])
      ELSE 0

CompareHeads(v, w) ==
  IF IsText(v) \/ IsText(w) THEN Order(First(v)) - Order(First(w))
  ELSE CompareNumerals(Numeral(v), Numeral(w))

\* What is left of a string after every step.
Left(s) ==
  LET at[n \in Nat] == IF n = 0 THEN s ELSE Rest(at[n - 1], n) IN at

Text(s) == IF s = NoString THEN <<>> ELSE s

\* The first step at which two strings differ.
CompareSteps(v, w) ==
  LET steps    == IF Len(v[0]) > Len(w[0]) THEN Len(v[0]) ELSE Len(w[0])
      deciding == {n \in 0..steps : CompareHeads(v[n], w[n]) # 0}
      first    == CHOOSE n \in deciding : \A m \in deciding : n <= m
  IN  IF deciding = {} THEN 0 ELSE CompareHeads(v[first], w[first])

VerRevCmp(val, ref) == CompareSteps(Left(Text(val)), Left(Text(ref)))

\* pkg_compare_versions_no_reinstall: r is an int.
CompareVersions(v, w) ==
  LET epochs   == ToInt((v.epoch - w.epoch) % LongSize)
      versions == VerRevCmp(v.version, w.version)
  IN  CASE epochs # 0                   -> epochs
        [] epochs = 0 /\ versions # 0   -> versions
        [] OTHER                        -> VerRevCmp(v.revision, w.revision)

Constraints == {"<<", "<=", "=", ">=", ">>"}

\* version_constraints_satisfied, pkg_version_satisfied
Satisfied(v, op, w) ==
  LET r == CompareVersions(v, w)
  IN  CASE op = "<<" -> r < 0
        [] op = "<=" -> r <= 0
        [] op = "="  -> r = 0
        [] op = ">=" -> r >= 0
        [] op = ">>" -> r > 0

(***************************************************************************)
(* The order that is meant (Debian policy 5.6.12): a version is a sequence *)
(* of numbers, the characters before each number weighed and ended by 0,   *)
(* and sequences are compared like words, with zeros beyond their ends.    *)
(* A tilde is before the end, letters are before all other characters.     *)
(***************************************************************************)
Weight(c) ==
  IF c = "~" THEN -1 ELSE SelectInSeq(<<"a", "b", "+", "-", ".", ":">>, LAMBDA x : x = c)

\* One more character: of a number that goes on, of one that begins, or of none.
Weigh(w, c) ==
  IF c \notin Digits THEN [list |-> Append(w.list, Weight(c)), number |-> FALSE]
  ELSE IF w.number THEN [w EXCEPT !.list[Len(w.list)] = AddDigit(@, c)]
  ELSE [list |-> w.list \o <<0, Digit(c)>>, number |-> TRUE]

Weights(s) == FoldLeft(Weigh, [list |-> <<>>, number |-> FALSE], s).list

Padded(s, i) == IF i <= Len(s) THEN s[i] ELSE 0

Precedence(x, y) ==
  LET differing == {i \in 1..(Len(x) + Len(y)) : Padded(x, i) # Padded(y, i)}
      first     == CHOOSE i \in differing : \A k \in differing : i <= k
  IN  IF differing = {} THEN 0 ELSE Sgn(Padded(x, first) - Padded(y, first))

\* An epoch that an int can hold.
Fits(v) == 2 * v.epoch < IntSize

\* What a version is worth: its epoch, then the two strings.
PolicyOrder(v, w) ==
  LET first  == Sgn(v.epoch - w.epoch)
      second == Precedence(Weights(Text(v.version)), Weights(Text(w.version)))
  IN  CASE first # 0                 -> first
        [] first = 0 /\ second # 0   -> second
        [] OTHER -> Precedence(Weights(Text(v.revision)), Weights(Text(w.revision)))
=============================================================================
