-------------------------- MODULE Versions_proofs ---------------------------
(***************************************************************************)
(* What holds of version strings of any length: reading and printing stay  *)
(* within versions and strings, verrevcmp comes to an end, to compare      *)
(* equal is an equivalence, which pkg_vec_insert_merge takes for granted,  *)
(* and versions come in the order that is meant, that of their weights.    *)
(***************************************************************************)
EXTENDS Versions, FoldTheorems

Numbers == INSTANCE FoldTheorems WITH Op <- AddDigit
Prints  == INSTANCE FoldTheorems WITH Op <- PutDigit
Steps   == INSTANCE FoldTheorems WITH Op <- Rest

LEMMA DigitIs ==
  ASSUME NEW c \in Digits
  PROVE  Digit(c) \in 0..9 /\ Numerals[Digit(c) + 1] = c
<1>1. PICK i \in 1..10 : c = Numerals[i]
  BY DEF Digits
<1>2. i - 1 \in 0..9 /\ Numerals[(i - 1) + 1] = c
  BY <1>1
<1> QED
  BY <1>2 DEF Digit

LEMMA CharIs ==
  /\ Digits \subseteq Char /\ {"~", "-", ":"} \subseteq Char /\ {"-", ":"} \cap Digits = {}
  /\ End \notin Char
<1>1. \A i \in 1..10 : Numerals[i] \in {"0", "1", "2", "3", "4", "5", "6", "7", "8", "9"}
  BY DEF Numerals
<1>2. Digits \subseteq {"0", "1", "2", "3", "4", "5", "6", "7", "8", "9"}
  BY <1>1 DEF Digits
<1>3. DOMAIN Alpha = {"a", "b"} /\ DOMAIN Other = {"+", "-", ".", ":"}
  BY DEF Alpha, Other
<1>4. Digits \subseteq Char /\ {"~", "-", ":"} \subseteq Char
  BY <1>3 DEF Char
<1>5. {"-", ":"} \cap Digits = {}
  BY <1>2
<1>6. End \notin Char
  BY <1>2, <1>3 DEF Char, End
<1> QED
  BY <1>4, <1>5, <1>6

LEMMA NumberIs ==
  ASSUME NEW s \in Seq(Digits)
  PROVE  Number(s) \in Nat
<1> DEFINE n == Len(s)
           I == [i \in 0..n |-> Nat]
<1>1. n \in Nat /\ DOMAIN s = 1..n /\ \A i \in 1..n : s[i] \in Digits
  OBVIOUS
<1>2. Number(s) = Numbers!Fold(0, s)
  BY DEF Number, Numbers!Fold, Numbers!FoldLeft, Numbers!MapThenFoldSet, FoldLeft,
         MapThenFoldSet, Max, Numbers!Max
<1>3. 0 \in I[0]
  BY <1>1
<1>4. ASSUME NEW i \in 1..n, NEW x \in I[i - 1] PROVE AddDigit(x, s[i]) \in I[i]
  <2>1. x \in Nat /\ i \in 0..n
    BY <1>1
  <2>2. Digit(s[i]) \in 0..9
    BY <1>1, DigitIs
  <2> QED
    BY <2>1, <2>2 DEF AddDigit
<1> HIDE DEF I
<1>5. Numbers!Fold(0, s) \in I[n]
  BY <1>1, <1>3, <1>4, Numbers!FoldStays
<1> QED
  BY <1>1, <1>2, <1>5 DEF I

LEMMA AfterIs ==
  ASSUME NEW S, NEW s \in Seq(S), NEW set
  PROVE  /\ After(s, set) \in 1..(Len(s) + 1)
         /\ After(s, set) <= Len(s) => s[After(s, set)] \notin set
         /\ \A k \in 1..(After(s, set) - 1) : s[k] \in set
<1> DEFINE n == Len(s)
           T == {j \in 1..(n + 1) : j <= n => s[j] \notin set}
<1>1. n \in Nat
  OBVIOUS
<1> HIDE DEF n
<1>2. T \in SUBSET Nat /\ n + 1 \in T
  BY <1>1
<1>3. PICK j \in T : \A i \in T : j <= i
  BY <1>2, LeastNat
<1>4. j \in 1..(n + 1) /\ (j <= n => s[j] \notin set)
  OBVIOUS
<1>5. \A k \in 1..(j - 1) : s[k] \in set
  <2> SUFFICES ASSUME NEW k \in 1..(j - 1), s[k] \notin set PROVE FALSE
    OBVIOUS
  <2>1. k \in T /\ k < j
    BY <1>1, <1>4
  <2> QED
    BY <1>1, <1>3, <1>4, <2>1
<1>6. \E i \in 1..(n + 1) : (i <= n => s[i] \notin set) /\ \A k \in 1..(i - 1) : s[k] \in set
  BY <1>4, <1>5
<1>7. After(s, set) =
        CHOOSE i \in 1..(n + 1) : (i <= n => s[i] \notin set) /\ \A k \in 1..(i - 1) : s[k] \in set
  BY DEF After, n
<1> QED
  BY <1>6, <1>7 DEF n

LEMMA FromIs ==
  ASSUME NEW S, NEW s \in Seq(S), NEW i \in 1..(Len(s) + 1)
  PROVE  /\ From(s, i) \in Seq(S) /\ Len(From(s, i)) = (Len(s) - i) + 1
         /\ \A j \in 1..((Len(s) - i) + 1) : From(s, i)[j] = s[(i + j) - 1]
BY DEF From

LEMMA UptoIs ==
  ASSUME NEW S, NEW s \in Seq(S), NEW i \in 1..(Len(s) + 1)
  PROVE  /\ SubSeq(s, 1, i - 1) \in Seq(S) /\ Len(SubSeq(s, 1, i - 1)) = i - 1
         /\ \A j \in 1..(i - 1) : SubSeq(s, 1, i - 1)[j] = s[j]
OBVIOUS

\* The characters that a string begins with.
LEMMA BeforeIs ==
  ASSUME NEW S, NEW s \in Seq(S), NEW set
  PROVE  SubSeq(s, 1, After(s, set) - 1) \in Seq(set)
<1> DEFINE j == After(s, set)
           t == SubSeq(s, 1, j - 1)
<1>1. j \in 1..(Len(s) + 1) /\ \A k \in 1..(j - 1) : s[k] \in set
  BY AfterIs
<1> HIDE DEF j
<1>2. t \in Seq(S) /\ Len(t) = j - 1 /\ \A k \in 1..(j - 1) : t[k] = s[k]
  BY <1>1, UptoIs
<1> HIDE DEF t
<1>3. t \in Seq(set)
  BY <1>1, <1>2
<1> QED
  BY <1>3 DEF t, j

LEMMA LastDashIs ==
  ASSUME NEW S, NEW s \in Seq(S)
  PROVE  SelectLastInSeq(s, LAMBDA c : c = "-") \in 0..Len(s)
<1> DEFINE T == {i \in 1..Len(s) : s[i] = "-"}
<1>1. SelectLastInSeq(s, LAMBDA c : c = "-") = IF T # {} THEN Max(T) ELSE 0
  BY DEF SelectLastInSeq
<1>2. Len(s) \in Nat /\ T \in SUBSET (0..Len(s))
  OBVIOUS
<1> HIDE DEF T
<1> QED
  BY <1>1, <1>2, MaxOfPlaces

\* parse_version
LEMMA ParseIs ==
  ASSUME NEW s \in Seq(Char)
  PROVE  ParseVersion(s) \in Version
<1> DEFINE colon == After(s, Digits)
           rest  == IF First(From(s, colon)) = ":" THEN From(s, colon + 1) ELSE s
           dash  == SelectLastInSeq(rest, LAMBDA c : c = "-")
           epoch == IF First(From(s, colon)) = ":" THEN StrToUL(SubSeq(s, 1, colon - 1)) ELSE 0
<1>1. colon \in 1..(Len(s) + 1) /\ Len(s) \in Nat
  BY AfterIs
<1>2. SubSeq(s, 1, colon - 1) \in Seq(Digits)
  BY BeforeIs
<1> HIDE DEF colon
<1>3. epoch \in Nat
  <2>1. Number(SubSeq(s, 1, colon - 1)) \in Nat
    BY <1>2, NumberIs
  <2>2. LongSize - 1 \in Nat
    BY WidthAssumption
  <2> QED
    BY <2>1, <2>2 DEF StrToUL
<1>4. rest \in Seq(Char)
  <2>1. CASE First(From(s, colon)) = ":"
    <3>1. From(s, colon) # <<>>
      BY <2>1 DEF First, End
    <3>2. From(s, colon) \in Seq(Char) /\ Len(From(s, colon)) = (Len(s) - colon) + 1
      BY <1>1, FromIs
    <3>3. Len(From(s, colon)) # 0
      BY <3>1, <3>2
    <3>4. colon + 1 \in 1..(Len(s) + 1)
      BY <1>1, <3>2, <3>3
    <3>5. From(s, colon + 1) \in Seq(Char)
      BY <3>4, FromIs
    <3> QED
      BY <2>1, <3>5
  <2>2. CASE First(From(s, colon)) # ":"
    BY <2>2
  <2> QED
    BY <2>1, <2>2
<1>5. ParseVersion(s) = [epoch |-> epoch, version |-> IF dash = 0 THEN rest ELSE SubSeq(rest, 1, dash - 1),
                         revision |-> IF dash = 0 THEN NoString ELSE From(rest, dash + 1)]
  BY DEF ParseVersion, colon
<1> HIDE DEF rest, epoch
<1>6. dash \in 0..Len(rest) /\ Len(rest) \in Nat
  BY <1>4, LastDashIs
<1> HIDE DEF dash
<1>7. dash # 0 => SubSeq(rest, 1, dash - 1) \in Seq(Char)
  <2>1. dash # 0 => dash \in 1..(Len(rest) + 1)
    BY <1>6
  <2> QED
    BY <1>4, <2>1, UptoIs
<1>8. dash # 0 => From(rest, dash + 1) \in Seq(Char)
  <2>1. dash # 0 => dash + 1 \in 1..(Len(rest) + 1)
    BY <1>6
  <2> QED
    BY <1>4, <2>1, FromIs
<1> QED
  BY <1>3, <1>4, <1>5, <1>7, <1>8 DEF Version

LEMMA ToIntIs ==
  ASSUME NEW n \in Int
  PROVE  ToInt(n) \in Int /\ (ToInt(n) = 0 <=> n % IntSize = 0)
<1>1. IntSize \in Nat \ {0}
  BY WidthAssumption
<1>2. n % IntSize \in 0..(IntSize - 1)
  BY <1>1
<1> DEFINE low == n % IntSize
<1>3. ToInt(n) = IF 2 * low < IntSize THEN low ELSE low - IntSize
  BY DEF ToInt
<1> HIDE DEF low
<1>4. low \in 0..(IntSize - 1)
  BY <1>2 DEF low
<1> QED
  BY <1>1, <1>3, <1>4 DEF low

\* printf
LEMMA DecimalIs ==
  ASSUME NEW n \in Int
  PROVE  Decimal(n) \in Seq(Char)
<1> DEFINE places == [i \in 1..IntSize |-> i]
           D == [left : Nat, text : Seq(Char)]
           text(m) == FoldLeft(PutDigit, [left |-> m, text |-> <<>>], places).text
<1>1. IntSize \in Nat /\ DOMAIN places = 1..IntSize
  BY WidthAssumption
<1>2. ASSUME NEW d \in D, NEW i PROVE PutDigit(d, i) \in D
  <2>1. d.left \in Nat /\ d.text \in Seq(Char)
    OBVIOUS
  <2>2. d.left \div 10 \in Nat /\ d.left % 10 \in 0..9
    BY <2>1
  <2>3. (d.left % 10) + 1 \in 1..10
    BY <2>2
  <2>4. Numerals[(d.left % 10) + 1] \in Char
    BY <2>3, CharIs DEF Digits
  <2>5. <<Numerals[(d.left % 10) + 1]>> \o d.text \in Seq(Char)
    BY <2>1, <2>4
  <2> QED
    BY <2>2, <2>5 DEF PutDigit
<1>3. ASSUME NEW m \in Nat PROVE text(m) \in Seq(Char)
  <2> DEFINE I == [i \in 0..IntSize |-> D]
             b == [left |-> m, text |-> <<>>]
  <2>1. FoldLeft(PutDigit, b, places) = Prints!Fold(b, places)
    BY DEF Prints!Fold, Prints!FoldLeft, Prints!MapThenFoldSet, FoldLeft, MapThenFoldSet, Max, Prints!Max
  <2>2. b \in I[0]
    BY <1>1
  <2>3. ASSUME NEW i \in 1..IntSize, NEW x \in I[i - 1] PROVE PutDigit(x, places[i]) \in I[i]
    <3>1. x \in D /\ i \in 0..IntSize
      BY <1>1
    <3> HIDE DEF D, places
    <3> QED
      BY <1>2, <3>1
  <2> HIDE DEF I, b, places
  <2>4. Prints!Fold(b, places) \in I[IntSize]
    BY <1>1, <2>2, <2>3, Prints!FoldStays
  <2>5. FoldLeft(PutDigit, b, places) \in D
    BY <1>1, <2>1, <2>4 DEF I
  <2> QED
    BY <2>5 DEF b
<1>4. Decimal(n) = IF n < 0 THEN <<"-">> \o text(-n) ELSE text(n)
  BY DEF Decimal
<1> HIDE DEF text
<1>5. n < 0 => -n \in Nat
  OBVIOUS
<1>6. ~(n < 0) => n \in Nat
  OBVIOUS
<1>7. <<"-">> \in Seq(Char)
  BY CharIs
<1> QED
  BY <1>3, <1>4, <1>5, <1>6, <1>7

LEMMA VersionStringIs ==
  ASSUME NEW v \in Version
  PROVE  VersionString(v) \in Seq(Char)
<1>1. v.epoch \in Nat /\ v.version \in Seq(Char) /\ (v.revision # NoString => v.revision \in Seq(Char))
  BY DEF Version
<1>2. Decimal(ToInt(v.epoch)) \in Seq(Char)
  <2>1. ToInt(v.epoch) \in Int
    BY <1>1, ToIntIs
  <2> QED
    BY <2>1, DecimalIs
<1>3. <<":">> \in Seq(Char) /\ <<"-">> \in Seq(Char) /\ <<>> \in Seq(Char)
  BY CharIs
<1> DEFINE a == IF v.epoch = 0 THEN <<>> ELSE Decimal(ToInt(v.epoch)) \o <<":">>
           c == IF v.revision = NoString THEN <<>> ELSE <<"-">> \o v.revision
<1>4. a \in Seq(Char) /\ c \in Seq(Char)
  BY <1>1, <1>2, <1>3
<1>5. VersionString(v) = a \o v.version \o c
  BY DEF VersionString
<1> HIDE DEF a, c
<1> QED
  BY <1>1, <1>4, <1>5

(***************************************************************************)
(* verrevcmp.                                                              *)
(***************************************************************************)

\* Order tells characters that are no digits from what is not there.
LEMMA OrderIs ==
  ASSUME NEW c \in Char \cup {End}
  PROVE  Order(c) \in Int /\ (Order(c) = 0 <=> c \in Digits \cup {End})
<1>1. \A i \in 1..10 : Numerals[i] \in {"0", "1", "2", "3", "4", "5", "6", "7", "8", "9"}
  BY DEF Numerals
<1>2. Digits \subseteq {"0", "1", "2", "3", "4", "5", "6", "7", "8", "9"}
  BY <1>1 DEF Digits
<1>3. /\ DOMAIN Alpha = {"a", "b"} /\ \A x \in DOMAIN Alpha : Alpha[x] \in 97..98
      /\ DOMAIN Other = {"+", "-", ".", ":"} /\ \A x \in DOMAIN Other : Other[x] \in 43..58
  BY DEF Alpha, Other
<1>4. CASE c = "~"
  <2>1. c \notin Digits /\ c # End /\ c \notin DOMAIN Alpha /\ c \notin DOMAIN Other
    BY <1>2, <1>3, <1>4 DEF End
  <2>2. Order(c) = -1
    BY <1>4, <2>1 DEF Order
  <2> QED
    BY <2>1, <2>2
<1>5. CASE c \in Digits \cup {End}
  <2>1. c # "~" /\ c \notin DOMAIN Alpha /\ c \notin DOMAIN Other
    BY <1>2, <1>3, <1>5 DEF End
  <2>2. Order(c) = 0
    BY <1>5, <2>1 DEF Order
  <2> QED
    BY <1>5, <2>2
<1>6. CASE c \in DOMAIN Alpha
  <2>1. c # "~" /\ c \notin Digits \cup {End}
    BY <1>2, <1>3, <1>6 DEF End
  <2>2. Order(c) = Alpha[c]
    BY <1>3, <1>6, <2>1 DEF Order
  <2> QED
    BY <1>3, <1>6, <2>1, <2>2
<1>7. CASE c \in DOMAIN Other
  <2>1. c # "~" /\ c \notin Digits \cup {End} /\ c \notin DOMAIN Alpha
    BY <1>2, <1>3, <1>7 DEF End
  <2>2. Order(c) = 256 + Other[c]
    BY <1>3, <1>7, <2>1 DEF Order
  <2> QED
    BY <1>3, <1>7, <2>1, <2>2
<1> QED
  BY <1>4, <1>5, <1>6, <1>7 DEF Char

LEMMA FirstIs ==
  ASSUME NEW s \in Seq(Char)
  PROVE  /\ First(s) \in Char \cup {End}
         /\ s = <<>> => First(s) = End
         /\ Len(s) # 0 => First(s) = s[1] /\ First(s) # End
<1>1. s # <<>> => Len(s) >= 1 /\ s[1] \in Char
  OBVIOUS
<1> QED
  BY <1>1, CharIs DEF First

\* A step goes on in a string that is not at its end.
LEMMA RestIs ==
  ASSUME NEW s \in Seq(Char), NEW n
  PROVE  /\ Rest(s, n) \in Seq(Char)
         /\ s = <<>> => Rest(s, n) = <<>>
         /\ Len(s) # 0 => Len(Rest(s, n)) < Len(s)
<1> DEFINE j == After(s, {"0"})
           t == From(s, j)
           k == After(t, Digits)
<1>1. /\ j \in 1..(Len(s) + 1) /\ Len(s) \in Nat
      /\ j <= Len(s) => s[j] \notin {"0"}
  BY AfterIs
<1>2. Significant(s) = t
  BY DEF Significant
<1> HIDE DEF j
<1>3. /\ t \in Seq(Char) /\ Len(t) = (Len(s) - j) + 1
      /\ \A i \in 1..((Len(s) - j) + 1) : t[i] = s[(j + i) - 1]
  BY <1>1, FromIs
<1> HIDE DEF t
<1>4. k \in 1..(Len(t) + 1) /\ (k <= Len(t) => t[k] \notin Digits)
  BY <1>3, AfterIs
<1>5. Rest(s, n) = IF IsText(s) THEN From(s, 2) ELSE From(t, k)
  BY <1>2 DEF Rest, Behind
<1> HIDE DEF k
<1>6. From(t, k) \in Seq(Char) /\ Len(From(t, k)) = (Len(t) - k) + 1
  BY <1>3, <1>4, FromIs
<1>7. CASE IsText(s)
  <2>1. Len(s) # 0
    <3>1. s # <<>>
      BY <1>7, FirstIs DEF IsText
    <3> QED
      BY <3>1
  <2>2. 2 \in 1..(Len(s) + 1)
    BY <1>1, <2>1
  <2>3. From(s, 2) \in Seq(Char) /\ Len(From(s, 2)) = (Len(s) - 2) + 1
    BY <2>2, FromIs
  <2> QED
    BY <1>1, <1>5, <1>7, <2>1, <2>3
<1>8. CASE ~IsText(s)
  <2>1. CASE Len(s) = 0
    <3>1. Len(From(t, k)) = 0
      BY <1>1, <1>3, <1>4, <1>6, <2>1
    <3>2. From(t, k) = <<>>
      BY <1>6, <3>1
    <3> QED
      BY <1>5, <1>6, <1>8, <2>1, <3>2
  <2>2. CASE Len(s) # 0
    <3>1. s[1] \in Digits
      <4>1. First(s) = s[1] /\ First(s) # End
        BY <2>2, FirstIs
      <4> QED
        BY <1>8, <4>1 DEF IsText
    <3>2. j > 1 \/ k > 1
      <4> SUFFICES ASSUME j = 1, k = 1 PROVE FALSE
        BY <1>1, <1>3, <1>4
      <4>1. Len(t) = Len(s) /\ t[1] = s[1]
        BY <1>1, <1>3, <2>2
      <4> QED
        BY <1>1, <1>4, <2>2, <3>1, <4>1
    <3>3. Len(From(t, k)) < Len(s)
      <4>1. \A l, m, a, b \in Nat : m = (l - a) + 1 /\ a >= 1 /\ b >= 1 /\ (a > 1 \/ b > 1) => (m - b) + 1 < l
        OBVIOUS
      <4> QED
        BY <1>1, <1>3, <1>4, <1>6, <3>2, <4>1
    <3>4. s # <<>>
      BY <2>2
    <3> QED
      BY <1>5, <1>6, <1>8, <3>3, <3>4
  <2> QED
    BY <2>1, <2>2
<1> QED
  BY <1>7, <1>8

\* After as many steps as a string is long, nothing is left of it.
LEMMA LeftIs ==
  ASSUME NEW s \in Seq(Char)
  PROVE  /\ Left(s)[0] = s
         /\ \A n \in Nat : Left(s)[n + 1] = Rest(Left(s)[n], n + 1)
         /\ \A n \in Nat : Left(s)[n] \in Seq(Char)
         /\ \A n \in Nat : n >= Len(s) => Left(s)[n] = <<>>
<1> DEFINE at == Left(s)
           L == Len(s)
<1>1. at = [n \in Nat |-> IF n = 0 THEN s ELSE Rest(at[n - 1], n)]
  <2> DEFINE IsRun(run) == run = [n \in Nat |-> IF n = 0 THEN s ELSE Rest(run[n - 1], n)]
  <2>1. \E run : IsRun(run)
    BY Steps!RunExists
  <2>2. at = CHOOSE run : IsRun(run)
    BY DEF Left
  <2> HIDE DEF at
  <2> QED
    BY <2>1, <2>2
<1> HIDE DEF at
<1>2. at[0] = s /\ \A n \in Nat : at[n + 1] = Rest(at[n], n + 1)
  BY <1>1
<1>3. L \in Nat
  OBVIOUS
<1> HIDE DEF L
<1> DEFINE T == {n \in Nat : at[n] \in Seq(Char) /\ (at[n] = <<>> \/ Len(at[n]) + n <= L)}
<1>4. 0 \in T
  BY <1>2, <1>3 DEF L
<1>5. ASSUME NEW n \in Nat, n \in T PROVE n + 1 \in T
  <2>1. at[n] \in Seq(Char) /\ (at[n] = <<>> \/ Len(at[n]) + n <= L) /\ Len(at[n]) \in Nat
    BY <1>5
  <2>2. /\ at[n + 1] \in Seq(Char)
        /\ at[n] = <<>> => at[n + 1] = <<>>
        /\ Len(at[n]) # 0 => Len(at[n + 1]) < Len(at[n])
    BY <1>2, <2>1, RestIs
  <2>3. Len(at[n]) = 0 => at[n] = <<>>
    BY <2>1
  <2>4. Len(at[n + 1]) \in Nat
    BY <2>2
  <2> QED
    BY <1>3, <2>1, <2>2, <2>3, <2>4
<1> HIDE DEF T
<1>6. \A n \in Nat : n \in T
  BY <1>4, <1>5, NatInduct
<1>7. ASSUME NEW n \in Nat, n >= L PROVE at[n] = <<>>
  <2>1. at[n] \in Seq(Char) /\ (at[n] = <<>> \/ Len(at[n]) + n <= L) /\ Len(at[n]) \in Nat
    BY <1>6 DEF T
  <2>2. at[n] = <<>> \/ Len(at[n]) = 0
    BY <1>3, <1>7, <2>1
  <2> QED
    BY <2>1, <2>2
<1> QED
  BY <1>2, <1>6, <1>7 DEF T, at, L

\* What a step compares.
Token(s) ==
  IF IsText(s) THEN [text |-> TRUE, order |-> Order(First(s)), number |-> <<>>]
  ELSE [text |-> FALSE, order |-> 0, number |-> Numeral(s)]

LEMMA NumeralIs ==
  ASSUME NEW s \in Seq(Char)
  PROVE  Numeral(s) \in Seq(Digits)
<1>1. After(s, {"0"}) \in 1..(Len(s) + 1)
  BY AfterIs
<1>2. Significant(s) \in Seq(Char)
  BY <1>1, FromIs DEF Significant
<1> QED
  BY <1>2, BeforeIs DEF Numeral, Leading

LEMMA LeastOfPlaces ==
  ASSUME NEW T \in SUBSET Nat, T # {}
  PROVE  (CHOOSE k \in T : \A l \in T : k <= l) \in T
BY LeastNat

LEMMA HeadsAgree ==
  ASSUME NEW v \in Seq(Char), NEW w \in Seq(Char)
  PROVE  /\ CompareHeads(v, w) \in Int
         /\ CompareHeads(v, w) = 0 <=> Token(v) = Token(w)
<1> DEFINE a == Numeral(v)
           b == Numeral(w)
           differing == {k \in 1..Len(a) : a[k] # b[k]}
           first     == CHOOSE k \in differing : \A l \in differing : k <= l
<1>1. a \in Seq(Digits) /\ b \in Seq(Digits) /\ Len(a) \in Nat /\ Len(b) \in Nat
  BY NumeralIs
<1>2. Order(First(v)) \in Int /\ (Order(First(v)) # 0 <=> IsText(v))
  BY FirstIs, OrderIs DEF IsText
<1>3. Order(First(w)) \in Int /\ (Order(First(w)) # 0 <=> IsText(w))
  BY FirstIs, OrderIs DEF IsText
<1>4. CompareHeads(v, w) =
        IF IsText(v) \/ IsText(w) THEN Order(First(v)) - Order(First(w))
        ELSE IF Len(a) # Len(b) THEN IF Len(a) > Len(b) THEN 1 ELSE -1
        ELSE IF differing # {} THEN Digit(a[first]) - Digit(b[first])
        ELSE 0
  BY DEF CompareHeads, CompareNumerals
<1>5. Token(v) = IF IsText(v) THEN [text |-> TRUE, order |-> Order(First(v)), number |-> <<>>]
                 ELSE [text |-> FALSE, order |-> 0, number |-> a]
  BY DEF Token
<1>6. Token(w) = IF IsText(w) THEN [text |-> TRUE, order |-> Order(First(w)), number |-> <<>>]
                 ELSE [text |-> FALSE, order |-> 0, number |-> b]
  BY DEF Token
<1> HIDE DEF a, b
<1>7. CASE IsText(v) \/ IsText(w)
  <2>1. CompareHeads(v, w) = Order(First(v)) - Order(First(w))
    BY <1>4, <1>7
  <2>2. CASE IsText(v) /\ IsText(w)
    <3>1. /\ Token(v) = [text |-> TRUE, order |-> Order(First(v)), number |-> <<>>]
          /\ Token(w) = [text |-> TRUE, order |-> Order(First(w)), number |-> <<>>]
      BY <1>5, <1>6, <2>2
    <3>2. Token(v).order = Order(First(v)) /\ Token(w).order = Order(First(w))
      BY <3>1
    <3>3. Token(v) = Token(w) <=> Order(First(v)) = Order(First(w))
      <4>1. Order(First(v)) = Order(First(w)) => Token(v) = Token(w)
        BY <3>1
      <4> QED
        BY <3>2, <4>1
    <3> QED
      BY <1>2, <1>3, <2>1, <3>3
  <2>3. CASE ~(IsText(v) /\ IsText(w))
    <3>1. Token(v) # Token(w)
      BY <1>5, <1>6, <1>7, <2>3
    <3> QED
      BY <1>2, <1>3, <1>7, <2>1, <2>3, <3>1
  <2> QED
    BY <2>2, <2>3
<1>8. CASE ~IsText(v) /\ ~IsText(w)
  <2>1. Token(v) = Token(w) <=> a = b
    <3>1. /\ Token(v) = [text |-> FALSE, order |-> 0, number |-> a]
          /\ Token(w) = [text |-> FALSE, order |-> 0, number |-> b]
      BY <1>5, <1>6, <1>8
    <3>2. Token(v).number = a /\ Token(w).number = b
      BY <3>1
    <3>3. a = b => Token(v) = Token(w)
      BY <3>1
    <3> QED
      BY <3>2, <3>3
  <2>2. CASE Len(a) # Len(b)
    <3>1. a # b
      BY <2>2
    <3>2. CompareHeads(v, w) = IF Len(a) > Len(b) THEN 1 ELSE -1
      BY <1>4, <1>8, <2>2
    <3> QED
      BY <2>1, <3>1, <3>2
  <2>3. CASE Len(a) = Len(b) /\ differing = {}
    <3>1. \A k \in 1..Len(a) : a[k] = b[k]
      BY <2>3
    <3>2. a = b
      BY <1>1, <2>3, <3>1
    <3>3. CompareHeads(v, w) = 0
      BY <1>4, <1>8, <2>3
    <3> QED
      BY <2>1, <3>2, <3>3
  <2>4. CASE Len(a) = Len(b) /\ differing # {}
    <3>1. differing \in SUBSET Nat
      BY <1>1
    <3>2. CompareHeads(v, w) = Digit(a[first]) - Digit(b[first])
      BY <1>4, <1>8, <2>4
    <3> HIDE DEF differing
    <3>3. first \in differing
      BY <2>4, <3>1, LeastOfPlaces
    <3> HIDE DEF first
    <3>4. first \in 1..Len(a) /\ a[first] # b[first]
      BY <3>3 DEF differing
    <3>5. a[first] \in Digits /\ b[first] \in Digits
      BY <1>1, <2>4, <3>4
    <3>6. Digit(a[first]) \in 0..9 /\ Digit(b[first]) \in 0..9 /\ Digit(a[first]) # Digit(b[first])
      BY <3>4, <3>5, DigitIs
    <3>7. a # b
      BY <3>4
    <3> QED
      BY <2>1, <3>2, <3>6, <3>7
  <2> QED
    BY <2>2, <2>3, <2>4
<1> QED
  BY <1>7, <1>8

\* Strings compare equal when all their steps do.
LEMMA VerRevCmpIs ==
  ASSUME NEW v, NEW w, Text(v) \in Seq(Char), Text(w) \in Seq(Char)
  PROVE  /\ VerRevCmp(v, w) \in Int
         /\ VerRevCmp(v, w) = 0 <=>
              \A n \in Nat : Token(Left(Text(v))[n]) = Token(Left(Text(w))[n])
<1> DEFINE a == Left(Text(v))
           b == Left(Text(w))
           steps    == IF Len(a[0]) > Len(b[0]) THEN Len(a[0]) ELSE Len(b[0])
           deciding == {n \in 0..steps : CompareHeads(a[n], b[n]) # 0}
           first    == CHOOSE n \in deciding : \A m \in deciding : n <= m
<1>1. VerRevCmp(v, w) = IF deciding = {} THEN 0 ELSE CompareHeads(a[first], b[first])
  BY DEF VerRevCmp, CompareSteps
<1>2. a[0] = Text(v) /\ \A n \in Nat : a[n] \in Seq(Char) /\ (n >= Len(Text(v)) => a[n] = <<>>)
  BY LeftIs
<1>3. b[0] = Text(w) /\ \A n \in Nat : b[n] \in Seq(Char) /\ (n >= Len(Text(w)) => b[n] = <<>>)
  BY LeftIs
<1> HIDE DEF a, b
<1>4. \A n \in Nat : CompareHeads(a[n], b[n]) \in Int /\ (CompareHeads(a[n], b[n]) = 0 <=> Token(a[n]) = Token(b[n]))
  BY <1>2, <1>3, HeadsAgree
<1>5. steps \in Nat /\ steps >= Len(Text(v)) /\ steps >= Len(Text(w))
  BY <1>2, <1>3
<1> HIDE DEF steps
<1>6. \A n \in Nat : n > steps => Token(a[n]) = Token(b[n])
  <2> SUFFICES ASSUME NEW n \in Nat, n > steps PROVE Token(a[n]) = Token(b[n])
    OBVIOUS
  <2>1. n >= Len(Text(v)) /\ n >= Len(Text(w))
    <3>1. Len(Text(v)) \in Nat /\ Len(Text(w)) \in Nat
      OBVIOUS
    <3> QED
      BY <1>5, <3>1
  <2>2. a[n] = <<>> /\ b[n] = <<>>
    BY <1>2, <1>3, <2>1
  <2> QED
    BY <2>2
<1>7. CASE deciding = {}
  <2>1. \A n \in 0..steps : Token(a[n]) = Token(b[n])
    BY <1>4, <1>5, <1>7
  <2>2. \A n \in Nat : n \in 0..steps \/ n > steps
    BY <1>5
  <2>3. \A n \in Nat : Token(a[n]) = Token(b[n])
    BY <1>6, <2>1, <2>2
  <2> QED
    BY <1>1, <1>7, <2>3 DEF a, b
<1>8. CASE deciding # {}
  <2>1. deciding \in SUBSET Nat
    BY <1>5
  <2>2. VerRevCmp(v, w) = CompareHeads(a[first], b[first])
    BY <1>1, <1>8
  <2> HIDE DEF deciding
  <2>3. first \in deciding
    BY <1>8, <2>1, LeastOfPlaces
  <2> HIDE DEF first
  <2>4. first \in Nat /\ CompareHeads(a[first], b[first]) # 0
    BY <2>1, <2>3 DEF deciding
  <2>5. Token(a[first]) # Token(b[first]) /\ CompareHeads(a[first], b[first]) \in Int
    BY <1>4, <2>4
  <2> QED
    BY <2>2, <2>4, <2>5 DEF a, b
<1> QED
  BY <1>7, <1>8

LEMMA RemainderIs ==
  ASSUME NEW m \in Nat \ {0}, NEW q \in Int, NEW e \in 0..(m - 1)
  PROVE  (q * m + e) % m = e
<1> DEFINE d == q * m + e
           p == d \div m
           f == d % m
<1>1. \A t \in Int : (t >= 1 => t * m >= m) /\ (t <= -1 => t * m <= -m)
  OBVIOUS
<1>2. d \in Int
  OBVIOUS
<1>3. p \in Int /\ f \in 0..(m - 1) /\ d = p * m + f
  BY <1>2
<1>4. q * m + e = p * m + f
  BY <1>3
<1> HIDE DEF d, p, f
<1>5. (q - p) * m = f - e
  BY <1>3, <1>4
<1>6. q - p = 0
  <2>1. f - e < m /\ f - e > -m
    BY <1>3
  <2>2. q - p \in Int
    BY <1>3
  <2>3. ~(q - p >= 1) /\ ~(q - p <= -1)
    BY <1>1, <1>5, <2>1, <2>2
  <2> QED
    BY <2>2, <2>3
<1>7. f = e
  BY <1>3, <1>5, <1>6
<1> QED
  BY <1>7 DEF f, d

\* Taken modulo the one size and then the other.
LEMMA EpochsModulo ==
  ASSUME NEW x \in Nat, NEW y \in Nat
  PROVE  (x - y) % LongSize \in Int /\ ((x - y) % LongSize) % IntSize = (x - y) % IntSize
<1>1. PICK k \in 1..LongSize : LongSize = k * IntSize
  BY WidthAssumption
<1>2. IntSize \in Nat \ {0} /\ LongSize \in Nat \ {0} /\ k \in Nat
  BY <1>1, WidthAssumption
<1> DEFINE d == x - y
           q == d \div LongSize
           r == d % LongSize
           p == r \div IntSize
           e == r % IntSize
<1>3. d \in Int /\ q \in Int /\ r \in Int /\ d = q * LongSize + r
  BY <1>2
<1> HIDE DEF d
<1>4. p \in Int /\ e \in 0..(IntSize - 1) /\ r = p * IntSize + e
  BY <1>2, <1>3
<1> HIDE DEF q, r
<1> HIDE DEF p, e
<1>5. d = (q * k + p) * IntSize + e
  <2>1. \A a, b, c, i \in Int : a * (b * i) + c * i = (a * b + c) * i
    OBVIOUS
  <2>2. q * (k * IntSize) + p * IntSize = (q * k + p) * IntSize
    BY <1>2, <1>3, <1>4, <2>1
  <2>3. d = q * (k * IntSize) + (p * IntSize + e)
    BY <1>1, <1>3, <1>4
  <2>4. q * (k * IntSize) \in Int /\ p * IntSize \in Int /\ e \in Int
    BY <1>2, <1>3, <1>4
  <2> QED
    BY <2>2, <2>3, <2>4
<1>6. d % IntSize = e
  <2>1. q * k + p \in Int
    BY <1>2, <1>3, <1>4
  <2> QED
    BY <1>2, <1>4, <1>5, <2>1, RemainderIs
<1> QED
  BY <1>3, <1>6 DEF d, e, r

\* The difference of two epochs, as an int.
LEMMA EpochsAgree ==
  ASSUME NEW x \in Nat, NEW y \in Nat
  PROVE  /\ ToInt((x - y) % LongSize) \in Int
         /\ ToInt((x - y) % LongSize) = 0 <=> (x - y) % IntSize = 0
BY EpochsModulo, ToIntIs

\* Epochs that agree: equal as ints.
SameEpoch(x, y) == (x - y) % IntSize = 0

LEMMA SameEpochIsEquivalence ==
  ASSUME NEW x \in Nat, NEW y \in Nat, NEW z \in Nat
  PROVE  /\ SameEpoch(x, x)
         /\ SameEpoch(x, y) => SameEpoch(y, x)
         /\ SameEpoch(x, y) /\ SameEpoch(y, z) => SameEpoch(x, z)
<1>1. IntSize \in Nat \ {0} /\ 0 \in 0..(IntSize - 1)
  BY WidthAssumption
<1>2. \A q \in Int : (q * IntSize) % IntSize = 0
  <2> SUFFICES ASSUME NEW q \in Int PROVE (q * IntSize) % IntSize = 0
    OBVIOUS
  <2>1. (q * IntSize + 0) % IntSize = 0
    BY <1>1, RemainderIs
  <2>2. q * IntSize \in Int
    BY <1>1
  <2>3. q * IntSize + 0 = q * IntSize
    BY <2>2
  <2> QED
    BY <2>1, <2>3
<1>3. \A d \in Int : d % IntSize = 0 => \E q \in Int : d = q * IntSize
  <2> SUFFICES ASSUME NEW d \in Int, d % IntSize = 0 PROVE \E q \in Int : d = q * IntSize
    OBVIOUS
  <2> DEFINE q == d \div IntSize
  <2>1. q \in Int /\ d = q * IntSize + (d % IntSize)
    BY <1>1
  <2> HIDE DEF q
  <2>2. q * IntSize \in Int
    BY <1>1, <2>1
  <2>3. d = q * IntSize
    BY <2>1, <2>2
  <2> QED
    BY <2>1, <2>3
<1>4. SameEpoch(x, x)
  <2>1. x - x = 0 * IntSize
    BY <1>1
  <2> QED
    BY <1>2, <2>1 DEF SameEpoch
<1>5. SameEpoch(x, y) => SameEpoch(y, x)
  <2> SUFFICES ASSUME SameEpoch(x, y) PROVE SameEpoch(y, x)
    OBVIOUS
  <2>1. PICK q \in Int : x - y = q * IntSize
    BY <1>3 DEF SameEpoch
  <2>2. y - x = (-q) * IntSize
    BY <1>1, <2>1
  <2> QED
    BY <1>2, <2>2 DEF SameEpoch
<1>6. SameEpoch(x, y) /\ SameEpoch(y, z) => SameEpoch(x, z)
  <2> SUFFICES ASSUME SameEpoch(x, y), SameEpoch(y, z) PROVE SameEpoch(x, z)
    OBVIOUS
  <2>1. PICK p \in Int : x - y = p * IntSize
    BY <1>3 DEF SameEpoch
  <2>2. PICK q \in Int : y - z = q * IntSize
    BY <1>3 DEF SameEpoch
  <2>3. x - z = p * IntSize + q * IntSize
    BY <2>1, <2>2
  <2>4. x - z = (p + q) * IntSize
    BY <1>1, <2>3
  <2> QED
    BY <1>2, <2>4 DEF SameEpoch
<1> QED
  BY <1>4, <1>5, <1>6

SameText(a, b) == \A n \in Nat : Token(Left(Text(a))[n]) = Token(Left(Text(b))[n])

LEMMA CompareIs ==
  ASSUME NEW v \in Version, NEW w \in Version
  PROVE  /\ CompareVersions(v, w) \in Int
         /\ CompareVersions(v, w) = 0 <=>
              SameEpoch(v.epoch, w.epoch) /\ SameText(v.version, w.version) /\ SameText(v.revision, w.revision)
<1> DEFINE epochs    == ToInt((v.epoch - w.epoch) % LongSize)
           versions  == VerRevCmp(v.version, w.version)
           revisions == VerRevCmp(v.revision, w.revision)
<1>1. v.epoch \in Nat /\ w.epoch \in Nat
  BY DEF Version
<1>2. /\ Text(v.version) \in Seq(Char) /\ Text(w.version) \in Seq(Char)
      /\ Text(v.revision) \in Seq(Char) /\ Text(w.revision) \in Seq(Char)
  BY DEF Version, Text
<1>3. epochs \in Int /\ (epochs = 0 <=> SameEpoch(v.epoch, w.epoch))
  BY <1>1, EpochsAgree DEF SameEpoch
<1>4. versions \in Int /\ (versions = 0 <=> SameText(v.version, w.version))
  BY <1>2, VerRevCmpIs DEF SameText
<1>5. revisions \in Int /\ (revisions = 0 <=> SameText(v.revision, w.revision))
  BY <1>2, VerRevCmpIs DEF SameText
<1>6. CompareVersions(v, w) = CASE epochs # 0                 -> epochs
                                [] epochs = 0 /\ versions # 0 -> versions
                                [] OTHER                      -> revisions
  BY DEF CompareVersions
<1> HIDE DEF epochs, versions, revisions
<1>7. CASE epochs # 0
  BY <1>3, <1>6, <1>7
<1>8. CASE epochs = 0 /\ versions # 0
  BY <1>3, <1>4, <1>6, <1>8
<1>9. CASE epochs = 0 /\ versions = 0
  <2>1. CompareVersions(v, w) = revisions
    BY <1>6, <1>9
  <2> QED
    BY <1>3, <1>4, <1>5, <1>9, <2>1
<1> QED
  BY <1>7, <1>8, <1>9

\* pkg_compare_versions_no_reinstall says of versions of any length and epoch that
\* they are equal as an equivalence would: it is no matter which of two records
\* is asked about the other, nor which of several equal ones.
THEOREM EqualVersions ==
  ASSUME NEW u \in Version, NEW v \in Version, NEW w \in Version
  PROVE  /\ CompareVersions(u, u) = 0
         /\ CompareVersions(u, v) = 0 => CompareVersions(v, u) = 0
         /\ CompareVersions(u, v) = 0 /\ CompareVersions(v, w) = 0 => CompareVersions(u, w) = 0
<1>1. u.epoch \in Nat /\ v.epoch \in Nat /\ w.epoch \in Nat
  BY DEF Version
<1>2. /\ SameEpoch(u.epoch, u.epoch)
      /\ SameEpoch(u.epoch, v.epoch) => SameEpoch(v.epoch, u.epoch)
      /\ SameEpoch(u.epoch, v.epoch) /\ SameEpoch(v.epoch, w.epoch) => SameEpoch(u.epoch, w.epoch)
  BY <1>1, SameEpochIsEquivalence
<1>3. \A a, b, c : /\ SameText(a, a)
                   /\ SameText(a, b) => SameText(b, a)
                   /\ SameText(a, b) /\ SameText(b, c) => SameText(a, c)
  BY DEF SameText
<1>4. /\ CompareVersions(u, u) = 0
      /\ CompareVersions(u, v) = 0 => CompareVersions(v, u) = 0
  BY <1>2, <1>3, CompareIs
<1>5. CompareVersions(u, v) = 0 /\ CompareVersions(v, w) = 0 => CompareVersions(u, w) = 0
  BY <1>2, <1>3, CompareIs
<1> QED
  BY <1>4, <1>5


\* The first place where two sequences differ decides.
LEMMA FirstDiffers ==
  ASSUME NEW x \in Seq(Int), NEW y \in Seq(Int), NEW k \in Nat \ {0},
         \A i \in 1..(k - 1) : Padded(x, i) = Padded(y, i), Padded(x, k) # Padded(y, k)
  PROVE  Precedence(x, y) = Sgn(Padded(x, k) - Padded(y, k))
<1> DEFINE differing == {i \in 1..(Len(x) + Len(y)) : Padded(x, i) # Padded(y, i)}
           first     == CHOOSE i \in differing : \A j \in differing : i <= j
<1>1. Precedence(x, y) = IF differing = {} THEN 0 ELSE Sgn(Padded(x, first) - Padded(y, first))
  BY DEF Precedence
<1>2. k \in 1..(Len(x) + Len(y))
  <2>1. Len(x) \in Nat /\ Len(y) \in Nat
    OBVIOUS
  <2>2. k <= Len(x) \/ k <= Len(y)
    BY DEF Padded
  <2> QED
    BY <2>1, <2>2
<1>3. k \in differing /\ \A j \in differing : k <= j
  BY <1>2
<1>4. differing \in SUBSET Nat
  OBVIOUS
<1> HIDE DEF differing
<1>5. first = k
  <2>1. first \in differing
    BY <1>3, <1>4, LeastOfPlaces
  <2>2. \A j \in differing : first <= j
    BY <1>3
  <2> HIDE DEF first
  <2> QED
    BY <1>3, <1>4, <2>1, <2>2
<1> QED
  BY <1>1, <1>3, <1>5

LEMMA NothingDiffers ==
  ASSUME NEW x, NEW y, \A i \in Nat \ {0} : Padded(x, i) = Padded(y, i),
         Len(x) \in Nat, Len(y) \in Nat
  PROVE  Precedence(x, y) = 0
<1>1. \A i \in 1..(Len(x) + Len(y)) : Padded(x, i) = Padded(y, i)
  OBVIOUS
<1> QED
  BY <1>1 DEF Precedence

SameUpto(x, y, d) == \A i \in 1..d : Padded(x, i) = Padded(y, i)

Without(x, d, u) == \A i \in Nat \ {0} : Padded(x, i + d) = Padded(u, i)

\* What two sequences have in common at their beginnings does not count.
LEMMA BeginningsLeft ==
  ASSUME NEW x \in Seq(Int), NEW y \in Seq(Int), NEW u \in Seq(Int), NEW v \in Seq(Int), NEW d \in Nat,
         SameUpto(x, y, d), Without(x, d, u), Without(y, d, v)
  PROVE  Precedence(x, y) = Precedence(u, v)
<1>1. /\ \A i \in 1..d : Padded(x, i) = Padded(y, i)
      /\ \A i \in Nat \ {0} : Padded(x, i + d) = Padded(u, i) /\ Padded(y, i + d) = Padded(v, i)
  BY DEF SameUpto, Without
<1>2. Len(x) \in Nat /\ Len(y) \in Nat /\ Len(u) \in Nat /\ Len(v) \in Nat
  OBVIOUS
<1>3. \A i \in Nat \ {0} : i \in 1..d \/ (i - d \in Nat \ {0} /\ (i - d) + d = i)
  OBVIOUS
<1> DEFINE T == {i \in Nat \ {0} : Padded(u, i) # Padded(v, i)}
<1>4. CASE T = {}
  <2>1. \A i \in Nat \ {0} : Padded(u, i) = Padded(v, i)
    BY <1>4
  <2>2. \A i \in Nat \ {0} : Padded(x, i) = Padded(y, i)
    <3> SUFFICES ASSUME NEW i \in Nat \ {0}, i \notin 1..d PROVE Padded(x, i) = Padded(y, i)
      BY <1>1
    <3>1. PICK j \in Nat \ {0} : i = j + d
      BY <1>3
    <3> QED
      BY <1>1, <2>1, <3>1
  <2> QED
    BY <1>2, <2>1, <2>2, NothingDiffers
<1>5. CASE T # {}
  <2>1. T \in SUBSET Nat
    OBVIOUS
  <2>2. PICK k \in T : \A i \in T : k <= i
    BY <1>5, <2>1, LeastNat
  <2>3. k \in Nat \ {0} /\ Padded(u, k) # Padded(v, k)
    OBVIOUS
  <2>4. \A i \in 1..(k - 1) : Padded(u, i) = Padded(v, i)
    BY <2>2, <2>3
  <2>5. k + d \in Nat \ {0} /\ Padded(x, k + d) = Padded(u, k) /\ Padded(y, k + d) = Padded(v, k)
    BY <1>1, <2>3
  <2>6. ASSUME NEW i \in 1..((k + d) - 1) PROVE Padded(x, i) = Padded(y, i)
    <3>1. CASE i \in 1..d
      BY <1>1, <3>1
    <3>2. CASE i \notin 1..d
      <4>1. i - d \in 1..(k - 1) /\ i - d \in Nat \ {0} /\ (i - d) + d = i
        BY <2>3, <3>2
      <4>2. Padded(x, (i - d) + d) = Padded(u, i - d) /\ Padded(y, (i - d) + d) = Padded(v, i - d)
        BY <1>1, <4>1
      <4> QED
        BY <2>4, <4>1, <4>2
    <3> QED
      BY <3>1, <3>2
  <2>7. Precedence(u, v) = Sgn(Padded(u, k) - Padded(v, k))
    BY <2>3, <2>4, FirstDiffers
  <2>8. Precedence(x, y) = Sgn(Padded(x, k + d) - Padded(y, k + d))
    BY <2>3, <2>5, <2>6, FirstDiffers
  <2> QED
    BY <2>5, <2>7, <2>8
<1> QED
  BY <1>4, <1>5

(***************************************************************************)
(* The sequence of numbers that a string stands for: those of what one step*)
(* of verrevcmp reads, and those of the rest.                              *)
(***************************************************************************)
Weighing == INSTANCE FoldTheorems WITH Op <- Weigh

Blank == [list |-> <<>>, number |-> FALSE]

Weighed == {w \in [list : Seq(Int), number : BOOLEAN] : w.number => Len(w.list) # 0}

WeightIsFor(c) ==
  \/ Order(c) = -1  /\ Weight(c) = -1
  \/ Order(c) = 97  /\ Weight(c) = 1
  \/ Order(c) = 98  /\ Weight(c) = 2
  \/ Order(c) = 299 /\ Weight(c) = 3
  \/ Order(c) = 301 /\ Weight(c) = 4
  \/ Order(c) = 302 /\ Weight(c) = 5
  \/ Order(c) = 314 /\ Weight(c) = 6

LEMMA WeightIs ==
  ASSUME NEW c \in Char, c \notin Digits
  PROVE  Weight(c) \in Int /\ WeightIsFor(c)
<1> DEFINE all == <<"a", "b", "+", "-", ".", ":">>
<1>1. c \in {"~", "a", "b", "+", "-", ".", ":"}
  BY DEF Char, Alpha, Other
<1>2. ASSUME NEW i \in 1..6, c = all[i], c # "~" PROVE Weight(c) = i
  <2> DEFINE T == {j \in 1..Len(all) : all[j] = c}
  <2>1. Weight(c) = SelectInSeq(all, LAMBDA x : x = c)
    BY <1>2 DEF Weight
  <2>2. T = {i}
    <3>1. Len(all) = 6
      OBVIOUS
    <3>2. \A j \in 1..6 : all[j] = c => j = i
      BY <1>2
    <3> QED
      BY <1>2, <3>1, <3>2
  <2>3. SelectInSeq(all, LAMBDA x : x = c) = IF T # {} THEN Min(T) ELSE 0
    BY DEF SelectInSeq
  <2> HIDE DEF T
  <2>4. Min(T) \in T
    BY <2>2, MinOfSet
  <2> QED
    BY <2>1, <2>2, <2>3, <2>4
<1>3. /\ DOMAIN Alpha = {"a", "b"} /\ Alpha["a"] = 97 /\ Alpha["b"] = 98
      /\ DOMAIN Other = {"+", "-", ".", ":"}
      /\ Other["+"] = 43 /\ Other["-"] = 45 /\ Other["."] = 46 /\ Other[":"] = 58
  BY DEF Alpha, Other
<1>4. CASE c = "~"
  <2>1. Order(c) = -1 /\ Weight(c) = -1
    BY <1>3, <1>4 DEF Order, Weight, End
  <2> QED
    BY <2>1 DEF WeightIsFor
<1>5. CASE c \in {"a", "b"}
  <2>1. c # "~" /\ c \notin Digits \cup {End}
    BY <1>5 DEF End
  <2>2. Order(c) = Alpha[c]
    BY <1>3, <1>5, <2>1 DEF Order
  <2>3. c = "a" => Weight(c) = 1
    BY <1>2
  <2>4. c = "b" => Weight(c) = 2
    BY <1>2
  <2> QED
    BY <1>3, <1>5, <2>2, <2>3, <2>4 DEF WeightIsFor
<1>6. CASE c \in {"+", "-", ".", ":"}
  <2>1. c # "~" /\ c \notin Digits \cup {End} /\ c \notin DOMAIN Alpha
    BY <1>3, <1>6 DEF End
  <2>2. Order(c) = 256 + Other[c]
    BY <1>3, <1>6, <2>1 DEF Order
  <2>3. c = "+" => Weight(c) = 3
    BY <1>2
  <2>4. c = "-" => Weight(c) = 4
    BY <1>2
  <2>5. c = "." => Weight(c) = 5
    BY <1>2
  <2>6. c = ":" => Weight(c) = 6
    BY <1>2
  <2> QED
    BY <1>3, <1>6, <2>2, <2>3, <2>4, <2>5, <2>6 DEF WeightIsFor
<1> QED
  BY <1>1, <1>4, <1>5, <1>6

\* The three ways in which a character is taken in.
AddsWeight(new, w, c) ==
  /\ new.number = FALSE /\ Len(new.list) = Len(w.list) + 1
  /\ \A i \in 1..Len(w.list) : new.list[i] = w.list[i]
  /\ new.list[Len(w.list) + 1] = Weight(c)

BeginsNumber(new, w, c) ==
  /\ new.number = TRUE /\ Len(new.list) = Len(w.list) + 2
  /\ \A i \in 1..Len(w.list) : new.list[i] = w.list[i]
  /\ new.list[Len(w.list) + 1] = 0 /\ new.list[Len(w.list) + 2] = Digit(c)

GoesOn(new, w, c) ==
  /\ new.number = TRUE /\ Len(new.list) = Len(w.list)
  /\ \A i \in 1..Len(w.list) :
       new.list[i] = IF i = Len(w.list) THEN AddDigit(w.list[i], c) ELSE w.list[i]

LEMMA WeighIs ==
  ASSUME NEW w \in Weighed, NEW c \in Char
  PROVE  /\ Weigh(w, c) \in Weighed
         /\ c \notin Digits => AddsWeight(Weigh(w, c), w, c)
         /\ c \in Digits /\ w.number = FALSE => BeginsNumber(Weigh(w, c), w, c)
         /\ c \in Digits /\ w.number = TRUE => GoesOn(Weigh(w, c), w, c)
<1> DEFINE l == w.list
           n == Len(l)
           new == Weigh(w, c)
<1>1. l \in Seq(Int) /\ w.number \in BOOLEAN /\ (w.number => n # 0) /\ n \in Nat
  BY DEF Weighed
<1>2. w = [list |-> l, number |-> w.number]
  BY DEF Weighed
<1>3. CASE c \notin Digits
  <2>1. new = [list |-> Append(l, Weight(c)), number |-> FALSE]
    BY <1>3 DEF Weigh
  <2>2. Weight(c) \in Int
    BY <1>3, WeightIs
  <2> HIDE DEF l, new
  <2> DEFINE m == Append(l, Weight(c))
  <2>3. /\ m \in Seq(Int) /\ Len(m) = n + 1 /\ m[n + 1] = Weight(c)
        /\ \A i \in 1..n : m[i] = l[i]
    BY <1>1, <2>2
  <2> HIDE DEF m
  <2>4. new = [list |-> m, number |-> FALSE]
    BY <2>1 DEF m
  <2>5. new.list = m /\ new.number = FALSE /\ new \in [list : Seq(Int), number : BOOLEAN]
    BY <2>3, <2>4
  <2>6. new \in Weighed
    BY <2>5 DEF Weighed
  <2> QED
    BY <1>3, <2>3, <2>5, <2>6 DEF AddsWeight, l, new
<1>4. CASE c \in Digits /\ w.number = FALSE
  <2>1. new = [list |-> l \o <<0, Digit(c)>>, number |-> TRUE]
    BY <1>4 DEF Weigh
  <2>2. Digit(c) \in Int
    <3>1. Digit(c) \in 0..9
      BY <1>4, DigitIs
    <3> QED
      BY <3>1
  <2> HIDE DEF l, new
  <2> DEFINE d == Digit(c)
             m == l \o <<0, d>>
  <2>3. /\ m \in Seq(Int) /\ Len(m) = n + 2 /\ m[n + 1] = 0 /\ m[n + 2] = d
        /\ \A i \in 1..n : m[i] = l[i]
    <3>1. d \in Int
      BY <2>2
    <3> HIDE DEF d
    <3> QED
      BY <1>1, <3>1
  <2> HIDE DEF m
  <2>4. new = [list |-> m, number |-> TRUE]
    BY <2>1 DEF m
  <2>5. new.list = m /\ new.number = TRUE /\ new \in [list : Seq(Int), number : BOOLEAN]
    BY <2>3, <2>4
  <2>6. Len(m) # 0
    BY <1>1, <2>3
  <2>7. new \in Weighed
    BY <2>5, <2>6 DEF Weighed
  <2> QED
    BY <1>4, <2>3, <2>5, <2>7 DEF BeginsNumber, l, new
<1>5. CASE c \in Digits /\ w.number = TRUE
  <2> DEFINE e == AddDigit(l[n], c)
             m == [l EXCEPT ![n] = e]
  <2>1. new = [w EXCEPT !.list = m]
    BY <1>5 DEF Weigh
  <2>2. n \in 1..n /\ l[n] \in Int /\ e \in Int
    <3>1. Digit(c) \in 0..9
      BY <1>5, DigitIs
    <3>2. n \in 1..n
      BY <1>1, <1>5
    <3>3. l[n] \in Int
      <4> HIDE DEF l
      <4> QED
        BY <1>1, <3>2
    <3> QED
      BY <3>1, <3>2, <3>3 DEF AddDigit
  <2>3. new = [list |-> m, number |-> TRUE]
    <3> HIDE DEF m
    <3> QED
      BY <1>2, <1>5, <2>1
  <2> HIDE DEF l, new, e
  <2>4. m \in Seq(Int) /\ Len(m) = n /\ \A i \in 1..n : m[i] = IF i = n THEN e ELSE l[i]
    BY <1>1, <2>2
  <2> HIDE DEF m
  <2>5. new.list = m /\ new.number = TRUE /\ new \in [list : Seq(Int), number : BOOLEAN]
    BY <2>3, <2>4
  <2>6. Len(m) # 0
    BY <1>1, <1>5, <2>4
  <2>7. new \in Weighed
    BY <2>5, <2>6 DEF Weighed
  <2>8. GoesOn(new, w, c)
    <3>1. \A i \in 1..n : m[i] = IF i = n THEN AddDigit(l[i], c) ELSE l[i]
      BY <2>4 DEF e
    <3> QED
      BY <2>4, <2>5, <3>1 DEF GoesOn, l
  <2> QED
    BY <1>5, <2>7, <2>8 DEF new
<1> QED
  BY <1>1, <1>3, <1>4, <1>5

WeighRun(run, s) ==
  /\ run[0] = Blank /\ run[Len(s)].list = Weights(s)
  /\ \A i \in 1..Len(s) : run[i] = Weigh(run[i - 1], s[i])
  /\ \A i \in 0..Len(s) : run[i] \in Weighed

LEMMA WeighRunExists ==
  ASSUME NEW s \in Seq(Char)
  PROVE  \E run : WeighRun(run, s)
<1> DEFINE n == Len(s)
<1>1. n \in Nat /\ DOMAIN s = 1..n /\ \A i \in 1..n : s[i] \in Char
  OBVIOUS
<1>2. Weights(s) = Weighing!Fold(Blank, s).list
  BY DEF Weights, Blank, Weighing!Fold, Weighing!FoldLeft, Weighing!MapThenFoldSet, FoldLeft,
         MapThenFoldSet, Max, Weighing!Max
<1> HIDE DEF n
<1>3. PICK run : /\ run[0] = Blank /\ run[n] = Weighing!Fold(Blank, s)
                 /\ \A i \in 1..n : run[i] = Weigh(run[i - 1], s[i])
  <2>1. \E run : Weighing!IsFoldRun(run, Blank, n, s)
    BY <1>1, Weighing!FoldRun
  <2> QED
    BY <2>1 DEF Weighing!IsFoldRun
<1> DEFINE T == {i \in Nat : i <= n => run[i] \in Weighed}
<1>4. Blank \in Weighed
  <2>1. Blank.list = <<>> /\ Blank.number = FALSE /\ Blank \in [list : Seq(Int), number : BOOLEAN]
    BY DEF Blank
  <2> QED
    BY <2>1 DEF Weighed
<1>5. 0 \in T
  BY <1>3, <1>4
<1>6. ASSUME NEW i \in Nat, i \in T PROVE i + 1 \in T
  <2> SUFFICES ASSUME i + 1 <= n PROVE run[i + 1] \in Weighed
    OBVIOUS
  <2>1. i + 1 \in 1..n /\ (i + 1) - 1 = i /\ i <= n
    BY <1>1
  <2>2. run[i + 1] = Weigh(run[i], s[i + 1]) /\ run[i] \in Weighed
    BY <1>3, <1>6, <2>1
  <2> QED
    BY <1>1, <2>1, <2>2, WeighIs
<1> HIDE DEF T
<1>7. \A i \in Nat : i \in T
  BY <1>5, <1>6, NatInduct
<1>8. \A i \in 0..n : run[i] \in Weighed
  BY <1>7 DEF T
<1> QED
  BY <1>2, <1>3, <1>8 DEF WeighRun, n

\* A state that has taken in h before another one began.
IsBehind(x, h, y) ==
  /\ Len(x.list) = Len(h) + Len(y.list)
  /\ \A i \in 1..Len(h) : x.list[i] = h[i]
  /\ \A i \in 1..Len(y.list) : x.list[Len(h) + i] = y.list[i]

LEMMA WeighBehind ==
  ASSUME NEW x \in Weighed, NEW y \in Weighed, NEW h \in Seq(Int), NEW c \in Char,
         IsBehind(x, h, y), x.number = y.number \/ c \notin Digits
  PROVE  IsBehind(Weigh(x, c), h, Weigh(y, c)) /\ Weigh(x, c).number = Weigh(y, c).number
<1> DEFINE k == Len(h)
           n == Len(y.list)
           x2 == Weigh(x, c)
           y2 == Weigh(y, c)
<1>1. /\ k \in Nat /\ n \in Nat /\ x.number \in BOOLEAN /\ y.number \in BOOLEAN
      /\ y.number => n # 0
  BY DEF Weighed
<1>2. /\ Len(x.list) = k + n
      /\ \A i \in 1..k : x.list[i] = h[i]
      /\ \A i \in 1..n : x.list[k + i] = y.list[i]
  BY DEF IsBehind
<1>3. ASSUME Len(x2.list) = k + Len(y2.list), \A i \in 1..k : x2.list[i] = h[i],
             \A i \in 1..Len(y2.list) : x2.list[k + i] = y2.list[i]
      PROVE  IsBehind(x2, h, y2)
  BY <1>3 DEF IsBehind
<1>4. CASE c \notin Digits
  <2>1. AddsWeight(x2, x, c) /\ AddsWeight(y2, y, c)
    BY <1>4, WeighIs
  <2> HIDE DEF k, n, x2, y2
  <2>2. /\ x2.number = FALSE /\ Len(x2.list) = (k + n) + 1 /\ x2.list[(k + n) + 1] = Weight(c)
        /\ \A i \in 1..(k + n) : x2.list[i] = x.list[i]
    BY <1>2, <2>1 DEF AddsWeight
  <2>3. /\ y2.number = FALSE /\ Len(y2.list) = n + 1 /\ y2.list[n + 1] = Weight(c)
        /\ \A i \in 1..n : y2.list[i] = y.list[i]
    BY <2>1 DEF AddsWeight, n
  <2>4. \A i \in 1..k : x2.list[i] = h[i]
    BY <1>1, <1>2, <2>2
  <2>5. \A i \in 1..(n + 1) : x2.list[k + i] = y2.list[i]
    <3> SUFFICES ASSUME NEW i \in 1..(n + 1) PROVE x2.list[k + i] = y2.list[i]
      OBVIOUS
    <3>1. CASE i = n + 1
      <4>1. k + i = (k + n) + 1
        BY <1>1, <3>1
      <4> QED
        BY <2>2, <2>3, <3>1, <4>1
    <3>2. CASE i # n + 1
      <4>1. i \in 1..n /\ k + i \in 1..(k + n)
        BY <1>1, <3>2
      <4> QED
        BY <1>2, <2>2, <2>3, <4>1
    <3> QED
      BY <3>1, <3>2
  <2>6. Len(x2.list) = k + Len(y2.list)
    BY <1>1, <2>2, <2>3
  <2>7. IsBehind(x2, h, y2)
    BY <1>3, <2>3, <2>4, <2>5, <2>6
  <2> QED
    BY <2>2, <2>3, <2>7 DEF x2, y2
<1>5. CASE c \in Digits /\ x.number = FALSE /\ y.number = FALSE
  <2>1. BeginsNumber(x2, x, c) /\ BeginsNumber(y2, y, c)
    BY <1>5, WeighIs
  <2> HIDE DEF k, n, x2, y2
  <2>2. /\ x2.number = TRUE /\ Len(x2.list) = (k + n) + 2
        /\ x2.list[(k + n) + 1] = 0 /\ x2.list[(k + n) + 2] = Digit(c)
        /\ \A i \in 1..(k + n) : x2.list[i] = x.list[i]
    BY <1>2, <2>1 DEF BeginsNumber
  <2>3. /\ y2.number = TRUE /\ Len(y2.list) = n + 2 /\ y2.list[n + 1] = 0 /\ y2.list[n + 2] = Digit(c)
        /\ \A i \in 1..n : y2.list[i] = y.list[i]
    BY <2>1 DEF BeginsNumber, n
  <2>4. \A i \in 1..k : x2.list[i] = h[i]
    BY <1>1, <1>2, <2>2
  <2>5. \A i \in 1..(n + 2) : x2.list[k + i] = y2.list[i]
    <3> SUFFICES ASSUME NEW i \in 1..(n + 2) PROVE x2.list[k + i] = y2.list[i]
      OBVIOUS
    <3>1. CASE i = n + 1
      <4>1. k + i = (k + n) + 1
        BY <1>1, <3>1
      <4> QED
        BY <2>2, <2>3, <3>1, <4>1
    <3>2. CASE i = n + 2
      <4>1. k + i = (k + n) + 2
        BY <1>1, <3>2
      <4> QED
        BY <2>2, <2>3, <3>2, <4>1
    <3>3. CASE i # n + 1 /\ i # n + 2
      <4>1. i \in 1..n /\ k + i \in 1..(k + n)
        BY <1>1, <3>3
      <4> QED
        BY <1>2, <2>2, <2>3, <4>1
    <3> QED
      BY <3>1, <3>2, <3>3
  <2>6. Len(x2.list) = k + Len(y2.list)
    BY <1>1, <2>2, <2>3
  <2>7. IsBehind(x2, h, y2)
    BY <1>3, <2>3, <2>4, <2>5, <2>6
  <2> QED
    BY <2>2, <2>3, <2>7 DEF x2, y2
<1>6. CASE c \in Digits /\ x.number = TRUE /\ y.number = TRUE
  <2>1. GoesOn(x2, x, c) /\ GoesOn(y2, y, c)
    BY <1>6, WeighIs
  <2> HIDE DEF k, n, x2, y2
  <2>2. /\ x2.number = TRUE /\ Len(x2.list) = k + n
        /\ \A i \in 1..(k + n) :
             x2.list[i] = IF i = k + n THEN AddDigit(x.list[i], c) ELSE x.list[i]
    BY <1>2, <2>1 DEF GoesOn
  <2>3. /\ y2.number = TRUE /\ Len(y2.list) = n
        /\ \A i \in 1..n : y2.list[i] = IF i = n THEN AddDigit(y.list[i], c) ELSE y.list[i]
    BY <2>1 DEF GoesOn, n
  <2>4. \A i \in 1..k : x2.list[i] = h[i]
    <3> SUFFICES ASSUME NEW i \in 1..k PROVE x2.list[i] = h[i]
      OBVIOUS
    <3>1. i \in 1..(k + n) /\ i # k + n
      BY <1>1, <1>6
    <3> QED
      BY <1>2, <2>2, <3>1
  <2>5. \A i \in 1..n : x2.list[k + i] = y2.list[i]
    <3> SUFFICES ASSUME NEW i \in 1..n PROVE x2.list[k + i] = y2.list[i]
      OBVIOUS
    <3>1. k + i \in 1..(k + n) /\ (k + i = k + n <=> i = n)
      BY <1>1
    <3> QED
      BY <1>2, <2>2, <2>3, <3>1
  <2>6. Len(x2.list) = k + Len(y2.list)
    BY <1>1, <2>2, <2>3
  <2>7. IsBehind(x2, h, y2)
    BY <1>3, <2>3, <2>4, <2>5, <2>6
  <2> QED
    BY <2>2, <2>3, <2>7 DEF x2, y2
<1> QED
  BY <1>1, <1>4, <1>5, <1>6

LEMMA WeightsAre ==
  ASSUME NEW s \in Seq(Char)
  PROVE  Weights(s) \in Seq(Int)
<1>1. PICK run : WeighRun(run, s)
  BY WeighRunExists
<1>2. Len(s) \in 0..Len(s)
  OBVIOUS
<1> QED
  BY <1>1, <1>2 DEF WeighRun, Weighed

\* Where no number goes on, a string falls into two that are weighed apart.
LEMMA SuffixWeights ==
  ASSUME NEW s \in Seq(Char), NEW run, WeighRun(run, s), NEW k \in 0..Len(s),
         run[k].number = FALSE \/ (k < Len(s) => s[k + 1] \notin Digits)
  PROVE  IsBehind([list |-> Weights(s)], run[k].list, [list |-> Weights(From(s, k + 1))])
<1> DEFINE t == From(s, k + 1)
           n == Len(t)
           h == run[k].list
<1>1. /\ t \in Seq(Char) /\ n = Len(s) - k /\ n \in Nat /\ Len(s) \in Nat /\ k \in Nat
      /\ \A i \in 1..n : t[i] = s[k + i]
  <2>1. k + 1 \in 1..(Len(s) + 1) /\ Len(s) \in Nat
    OBVIOUS
  <2> QED
    BY <2>1, FromIs
<1>2. /\ run[Len(s)].list = Weights(s)
      /\ \A i \in 1..Len(s) : run[i] = Weigh(run[i - 1], s[i])
      /\ \A i \in 0..Len(s) : run[i] \in Weighed
  BY DEF WeighRun
<1> HIDE DEF t
<1>3. PICK own : WeighRun(own, t)
  BY <1>1, WeighRunExists
<1>4. /\ own[0] = Blank /\ own[n].list = Weights(t)
      /\ \A i \in 1..n : own[i] = Weigh(own[i - 1], t[i])
      /\ \A i \in 0..n : own[i] \in Weighed
  BY <1>3 DEF WeighRun
<1> HIDE DEF n, h
<1>5. h \in Seq(Int) /\ run[k] \in Weighed
  BY <1>2 DEF Weighed, h
<1> DEFINE Goes(i) == IsBehind(run[k + i], h, own[i]) /\ (i # 0 => run[k + i].number = own[i].number)
           T == {i \in Nat : i <= n => Goes(i)}
<1>6. 0 \in T
  <2>1. Len(own[0].list) = 0
    BY <1>4 DEF Blank
  <2>2. k + 0 = k /\ Len(h) \in Nat
    BY <1>1, <1>5
  <2>3. IsBehind(run[k], h, own[0])
    BY <2>1, <2>2 DEF IsBehind, h
  <2> QED
    BY <2>2, <2>3
<1>7. ASSUME NEW i \in Nat, i \in T PROVE i + 1 \in T
  <2> SUFFICES ASSUME i + 1 <= n PROVE Goes(i + 1)
    OBVIOUS
  <2> DEFINE c == t[i + 1]
  <2>1. /\ i + 1 \in 1..n /\ (i + 1) - 1 = i /\ i <= n /\ i \in 0..n
        /\ k + (i + 1) \in 1..Len(s) /\ (k + (i + 1)) - 1 = k + i /\ k + i \in 0..Len(s)
    BY <1>1
  <2>2. c \in Char /\ c = s[k + (i + 1)]
    BY <1>1, <2>1
  <2>3. Goes(i)
    BY <1>7, <2>1
  <2>4. /\ own[i + 1] = Weigh(own[i], c) /\ run[k + (i + 1)] = Weigh(run[k + i], c)
        /\ own[i] \in Weighed /\ run[k + i] \in Weighed
    <3>1. own[i + 1] = Weigh(own[i], t[i + 1])
      BY <1>4, <2>1
    <3>2. run[k + (i + 1)] = Weigh(run[k + i], s[k + (i + 1)])
      BY <1>2, <2>1
    <3> QED
      BY <1>2, <1>4, <2>1, <2>2, <3>1, <3>2
  <2>5. run[k + i].number = own[i].number \/ c \notin Digits
    <3>1. CASE i = 0
      <4>1. own[0].number = FALSE /\ k + 0 = k /\ k < Len(s) /\ c = s[k + 1]
        BY <1>1, <1>4, <2>1, <2>2, <3>1 DEF Blank
      <4> QED
        BY <3>1, <4>1
    <3>2. CASE i # 0
      BY <2>3, <3>2
    <3> QED
      BY <3>1, <3>2
  <2> HIDE DEF c
  <2>6. IsBehind(run[k + i], h, own[i])
    BY <2>3
  <2>7. /\ IsBehind(Weigh(run[k + i], c), h, Weigh(own[i], c))
        /\ Weigh(run[k + i], c).number = Weigh(own[i], c).number
    BY <1>5, <2>2, <2>4, <2>5, <2>6, WeighBehind
  <2> QED
    BY <2>4, <2>7
<1> HIDE DEF T
<1>8. n \in T
  BY <1>1, <1>6, <1>7, NatInduct
<1>9. IsBehind(run[Len(s)], h, own[n])
  <2>1. k + n = Len(s) /\ n <= n
    BY <1>1
  <2> QED
    BY <1>8, <2>1 DEF T
<1> QED
  BY <1>2, <1>4, <1>9 DEF IsBehind, h, t

BeginsWith(x, h, y) ==
  /\ \A i \in 1..Len(h) : Padded(x, i) = h[i]
  /\ \A i \in Nat \ {0} : Padded(x, i + Len(h)) = Padded(y, i)

\* What is behind, read with zeros beyond the end.
LEMMA PaddedBehind ==
  ASSUME NEW x, NEW h, NEW y, x.list \in Seq(Int), h \in Seq(Int), y.list \in Seq(Int), IsBehind(x, h, y)
  PROVE  BeginsWith(x.list, h, y.list)
<1> DEFINE k == Len(h)
           n == Len(y.list)
<1>1. k \in Nat /\ n \in Nat /\ Len(x.list) = k + n
  BY DEF IsBehind
<1>2. /\ \A i \in 1..k : x.list[i] = h[i]
      /\ \A i \in 1..n : x.list[k + i] = y.list[i]
  BY DEF IsBehind
<1> HIDE DEF k, n
<1>3. \A i \in 1..k : Padded(x.list, i) = h[i]
  BY <1>1, <1>2 DEF Padded
<1>4. ASSUME NEW i \in Nat \ {0} PROVE Padded(x.list, i + k) = Padded(y.list, i)
  <2>1. i + k = k + i /\ (i + k <= k + n <=> i <= n) /\ (i <= n => i \in 1..n)
    BY <1>1
  <2> QED
    BY <1>1, <1>2, <2>1 DEF Padded, n
<1> QED
  BY <1>3, <1>4 DEF BeginsWith, k

(***************************************************************************)
(* Numbers of any length are compared by length and digits.                *)
(***************************************************************************)
NumberRun(run, a) ==
  /\ run[0] = 0 /\ run[Len(a)] = Number(a)
  /\ \A i \in 1..Len(a) : run[i] = AddDigit(run[i - 1], a[i])
  /\ \A i \in 0..Len(a) : run[i] \in Nat

LEMMA NumberRunExists ==
  ASSUME NEW a \in Seq(Digits)
  PROVE  \E run : NumberRun(run, a)
<1> DEFINE n == Len(a)
<1>1. n \in Nat /\ DOMAIN a = 1..n /\ \A i \in 1..n : a[i] \in Digits
  OBVIOUS
<1>2. Number(a) = Numbers!Fold(0, a)
  BY DEF Number, Numbers!Fold, Numbers!FoldLeft, Numbers!MapThenFoldSet, FoldLeft,
         MapThenFoldSet, Max, Numbers!Max
<1> HIDE DEF n
<1>3. PICK run : Numbers!IsFoldRun(run, 0, n, a)
  BY <1>1, Numbers!FoldRun
<1>4. /\ run[0] = 0 /\ run[n] = Number(a)
      /\ \A i \in 1..n : run[i] = AddDigit(run[i - 1], a[i])
  BY <1>2, <1>3 DEF Numbers!IsFoldRun
<1> DEFINE T == {i \in Nat : i <= n => run[i] \in Nat}
<1>5. 0 \in T
  BY <1>4
<1>6. ASSUME NEW i \in Nat, i \in T PROVE i + 1 \in T
  <2> SUFFICES ASSUME i + 1 <= n PROVE run[i + 1] \in Nat
    OBVIOUS
  <2>1. i + 1 \in 1..n /\ (i + 1) - 1 = i /\ i <= n
    BY <1>1
  <2>2. run[i + 1] = AddDigit(run[i], a[i + 1]) /\ run[i] \in Nat
    BY <1>4, <1>6, <2>1
  <2>3. Digit(a[i + 1]) \in 0..9
    BY <1>1, <2>1, DigitIs
  <2> QED
    BY <2>2, <2>3 DEF AddDigit
<1> HIDE DEF T
<1>7. \A i \in Nat : i \in T
  BY <1>5, <1>6, NatInduct
<1>8. \A i \in 0..n : run[i] \in Nat
  BY <1>7 DEF T
<1> QED
  BY <1>4, <1>8 DEF NumberRun, n

\* Who is ahead with as many digits to come stays ahead.
LEMMA NumberAhead ==
  ASSUME NEW a \in Seq(Digits), NEW b \in Seq(Digits), NEW x, NEW y, NumberRun(x, a), NumberRun(y, b),
         NEW p \in 0..Len(a), NEW q \in 0..Len(b), Len(a) - p = Len(b) - q, x[p] > y[q]
  PROVE  Number(a) > Number(b)
<1> DEFINE k == Len(a)
           n == Len(b)
           d == k - p
<1>1. k \in Nat /\ n \in Nat /\ p \in 0..k /\ q \in 0..n /\ k - p = n - q
  OBVIOUS
<1>2. /\ \A i \in 1..k : a[i] \in Digits /\ x[i] = AddDigit(x[i - 1], a[i])
      /\ \A i \in 0..k : x[i] \in Nat
      /\ x[k] = Number(a)
  BY DEF NumberRun
<1>3. /\ \A i \in 1..n : b[i] \in Digits /\ y[i] = AddDigit(y[i - 1], b[i])
      /\ \A i \in 0..n : y[i] \in Nat
      /\ y[n] = Number(b)
  BY DEF NumberRun
<1> HIDE DEF k, n
<1>4. d \in Nat /\ p + d = k /\ q + d = n
  BY <1>1
<1> HIDE DEF d
<1> DEFINE T == {i \in Nat : i <= d => x[p + i] > y[q + i]}
<1>5. 0 \in T
  <2>1. p + 0 = p /\ q + 0 = q
    BY <1>1
  <2> QED
    BY <2>1
<1>6. ASSUME NEW i \in Nat, i \in T PROVE i + 1 \in T
  <2> SUFFICES ASSUME i + 1 <= d PROVE x[p + (i + 1)] > y[q + (i + 1)]
    OBVIOUS
  <2> DEFINE u == p + i
             w == q + i
  <2>1. /\ p + (i + 1) = u + 1 /\ q + (i + 1) = w + 1 /\ i <= d
        /\ u + 1 \in 1..k /\ w + 1 \in 1..n /\ u \in 0..k /\ w \in 0..n
        /\ (u + 1) - 1 = u /\ (w + 1) - 1 = w
    BY <1>1, <1>4
  <2>2. x[u] > y[w]
    BY <1>6, <2>1
  <2> HIDE DEF u, w
  <2>3. x[u + 1] = AddDigit(x[u], a[u + 1]) /\ a[u + 1] \in Digits /\ x[u] \in Nat
    BY <1>2, <2>1
  <2>4. y[w + 1] = AddDigit(y[w], b[w + 1]) /\ b[w + 1] \in Digits /\ y[w] \in Nat
    BY <1>3, <2>1
  <2>5. Digit(a[u + 1]) \in 0..9 /\ Digit(b[w + 1]) \in 0..9
    BY <2>3, <2>4, DigitIs
  <2>6. x[u + 1] > y[w + 1]
    <3>1. \A l, m \in Nat : \A e, f \in 0..9 : l > m => 10 * l + e > 10 * m + f
      OBVIOUS
    <3>2. 10 * x[u] + Digit(a[u + 1]) > 10 * y[w] + Digit(b[w + 1])
      BY <2>2, <2>3, <2>4, <2>5, <3>1
    <3> QED
      BY <2>3, <2>4, <3>2 DEF AddDigit
  <2> QED
    BY <2>1, <2>6
<1> HIDE DEF T
<1>7. d \in T
  BY <1>4, <1>5, <1>6, NatInduct
<1> QED
  BY <1>2, <1>3, <1>4, <1>7 DEF T

LEMMA SgnIs ==
  ASSUME NEW n \in Int
  PROVE  /\ n > 0 => Sgn(n) = 1
         /\ n = 0 => Sgn(n) = 0
         /\ n < 0 => Sgn(n) = -1
         /\ Sgn(n) \in {-1, 0, 1} /\ (Sgn(n) = 0 <=> n = 0)
<1>1. CASE n > 0
  BY <1>1 DEF Sgn
<1>2. CASE n = 0
  BY <1>2 DEF Sgn
<1>3. CASE n < 0
  BY <1>3 DEF Sgn
<1> QED
  BY <1>1, <1>2, <1>3

LEMMA ZeroIs ==
  /\ "0" \in Digits /\ Digit("0") = 0
  /\ \A c \in Digits : c # "0" => Digit(c) # 0
<1>1. Numerals[1] = "0" /\ \A i \in 2..10 : Numerals[i] # "0"
  BY DEF Numerals
<1>2. "0" \in Digits
  BY <1>1 DEF Digits
<1>3. Digit("0") \in 0..9 /\ Numerals[Digit("0") + 1] = "0"
  BY <1>2, DigitIs
<1>4. Digit("0") = 0
  <2> SUFFICES ASSUME Digit("0") # 0 PROVE FALSE
    OBVIOUS
  <2>1. Digit("0") + 1 \in 2..10
    BY <1>3
  <2> QED
    BY <1>1, <1>3, <2>1
<1>5. ASSUME NEW c \in Digits, Digit(c) = 0 PROVE c = "0"
  <2>1. Numerals[0 + 1] = c
    BY <1>5, DigitIs
  <2> QED
    BY <1>1, <2>1
<1> QED
  BY <1>2, <1>4, <1>5

\* A number without zeros in front, or none at all.
IsNumeral(a) == a \in Seq(Digits) /\ (a # <<>> => a[1] # "0")

LEMMA LongerIsGreater ==
  ASSUME NEW a, NEW b, IsNumeral(a), IsNumeral(b), Len(a) > Len(b)
  PROVE  Number(a) > Number(b)
<1>1. a \in Seq(Digits) /\ b \in Seq(Digits) /\ Len(a) \in Nat /\ Len(b) \in Nat
  BY DEF IsNumeral
<1>2. PICK x : NumberRun(x, a)
  BY <1>1, NumberRunExists
<1>3. PICK y : NumberRun(y, b)
  BY <1>1, NumberRunExists
<1> DEFINE p == Len(a) - Len(b)
<1>4. p \in Nat \ {0} /\ p \in 0..Len(a) /\ Len(a) - p = Len(b) - 0
  BY <1>1
<1> HIDE DEF p
<1>5. \A i \in 1..Len(a) : a[i] \in Digits /\ x[i] = AddDigit(x[i - 1], a[i]) /\ x[i - 1] \in Nat
  <2>1. \A i \in 1..Len(a) : i - 1 \in 0..Len(a)
    BY <1>1
  <2> QED
    BY <1>1, <1>2, <2>1 DEF NumberRun
<1> DEFINE T == {i \in Nat : i # 0 /\ i <= Len(a) => x[i] \in Nat /\ x[i] > 0}
<1>6. 0 \in T
  OBVIOUS
<1>7. ASSUME NEW i \in Nat, i \in T PROVE i + 1 \in T
  <2> SUFFICES ASSUME i + 1 <= Len(a) PROVE x[i + 1] \in Nat /\ x[i + 1] > 0
    OBVIOUS
  <2>1. i + 1 \in 1..Len(a) /\ (i + 1) - 1 = i /\ i <= Len(a)
    BY <1>1
  <2>2. x[i + 1] = AddDigit(x[i], a[i + 1]) /\ a[i + 1] \in Digits /\ x[i] \in Nat
    BY <1>5, <2>1
  <2>3. Digit(a[i + 1]) \in 0..9
    BY <2>2, DigitIs
  <2>4. x[i] > 0 \/ Digit(a[i + 1]) > 0
    <3>1. CASE i = 0
      <4>1. a # <<>> /\ a[1] \in Digits
        BY <1>1, <2>1, <2>2, <3>1
      <4>2. Digit(a[1]) # 0
        BY <4>1, ZeroIs DEF IsNumeral
      <4> QED
        BY <2>3, <3>1, <4>2
    <3>2. CASE i # 0
      BY <1>7, <2>1, <3>2
    <3> QED
      BY <3>1, <3>2
  <2>5. \A m \in Nat : \A d \in 0..9 : 10 * m + d \in Nat /\ (m > 0 \/ d > 0 => 10 * m + d > 0)
    OBVIOUS
  <2> QED
    BY <2>2, <2>3, <2>4, <2>5 DEF AddDigit
<1> HIDE DEF T
<1>8. p \in T
  BY <1>4, <1>6, <1>7, NatInduct
<1>9. x[p] > y[0]
  BY <1>3, <1>4, <1>8 DEF T, NumberRun
<1>10. 0 \in 0..Len(b)
  BY <1>1
<1> QED
  BY <1>1, <1>2, <1>3, <1>4, <1>9, <1>10, NumberAhead

\* Up to the first digit that differs two numbers are the same.
LEMMA FirstDigitDecides ==
  ASSUME NEW a \in Seq(Digits), NEW b \in Seq(Digits), Len(a) = Len(b),
         NEW k \in 1..Len(a), \A i \in 1..(k - 1) : a[i] = b[i], Digit(a[k]) > Digit(b[k])
  PROVE  Number(a) > Number(b)
<1> DEFINE n == Len(a)
<1>1. n \in Nat /\ n = Len(b) /\ k \in 1..n
  OBVIOUS
<1>2. PICK x : NumberRun(x, a)
  BY NumberRunExists
<1>3. PICK y : NumberRun(y, b)
  BY NumberRunExists
<1> HIDE DEF n
<1>4. /\ x[0] = 0 /\ \A i \in 1..n : x[i] = AddDigit(x[i - 1], a[i])
      /\ \A i \in 0..n : x[i] \in Nat
  BY <1>2 DEF NumberRun, n
<1>5. /\ y[0] = 0 /\ \A i \in 1..n : y[i] = AddDigit(y[i - 1], b[i])
  BY <1>1, <1>3 DEF NumberRun
<1> DEFINE T == {i \in Nat : i < k => x[i] = y[i]}
<1>6. 0 \in T
  BY <1>4, <1>5
<1>7. ASSUME NEW i \in Nat, i \in T PROVE i + 1 \in T
  <2> SUFFICES ASSUME i + 1 < k PROVE x[i + 1] = y[i + 1]
    OBVIOUS
  <2>1. i + 1 \in 1..n /\ (i + 1) - 1 = i /\ i < k /\ i + 1 \in 1..(k - 1)
    BY <1>1
  <2>2. x[i + 1] = AddDigit(x[i], a[i + 1]) /\ y[i + 1] = AddDigit(y[i], b[i + 1])
    BY <1>4, <1>5, <2>1
  <2> QED
    BY <1>7, <2>1, <2>2
<1> HIDE DEF T
<1>8. k - 1 \in T
  <2>1. k - 1 \in Nat
    BY <1>1
  <2> QED
    BY <1>6, <1>7, <2>1, NatInduct
<1>9. x[k] > y[k]
  <2>1. x[k - 1] = y[k - 1] /\ x[k - 1] \in Nat
    <3>1. k - 1 < k /\ k - 1 \in 0..n
      BY <1>1
    <3> QED
      BY <1>4, <1>8, <3>1 DEF T
  <2>2. a[k] \in Digits /\ b[k] \in Digits
    BY <1>1
  <2>3. Digit(a[k]) \in 0..9 /\ Digit(b[k]) \in 0..9
    BY <2>2, DigitIs
  <2>4. x[k] = AddDigit(x[k - 1], a[k]) /\ y[k] = AddDigit(y[k - 1], b[k])
    BY <1>1, <1>4, <1>5
  <2>5. \A m \in Nat : \A d, e \in 0..9 : d > e => 10 * m + d > 10 * m + e
    OBVIOUS
  <2>6. 10 * x[k - 1] + Digit(a[k]) > 10 * x[k - 1] + Digit(b[k])
    BY <2>1, <2>3, <2>5
  <2> QED
    BY <2>1, <2>4, <2>6 DEF AddDigit
<1>10. k \in 0..Len(a) /\ k \in 0..Len(b) /\ Len(a) - k = Len(b) - k
  BY <1>1
<1> QED
  BY <1>2, <1>3, <1>9, <1>10, NumberAhead

LEMMA CompareNumeralsIs ==
  ASSUME NEW a, NEW b, IsNumeral(a), IsNumeral(b)
  PROVE  Sgn(CompareNumerals(a, b)) = Sgn(Number(a) - Number(b))
<1> DEFINE differing == {k \in 1..Len(a) : a[k] # b[k]}
           first     == CHOOSE k \in differing : \A l \in differing : k <= l
<1>1. a \in Seq(Digits) /\ b \in Seq(Digits) /\ Len(a) \in Nat /\ Len(b) \in Nat
  BY DEF IsNumeral
<1>2. Number(a) \in Nat /\ Number(b) \in Nat
  BY <1>1, NumberIs
<1>3. CompareNumerals(a, b) =
        IF Len(a) # Len(b) THEN IF Len(a) > Len(b) THEN 1 ELSE -1
        ELSE IF differing # {} THEN Digit(a[first]) - Digit(b[first])
        ELSE 0
  BY DEF CompareNumerals
<1>4. ASSUME Number(a) > Number(b), CompareNumerals(a, b) \in Int, CompareNumerals(a, b) > 0
      PROVE  Sgn(CompareNumerals(a, b)) = Sgn(Number(a) - Number(b))
  <2>1. Number(a) - Number(b) \in Int /\ Number(a) - Number(b) > 0
    BY <1>2, <1>4
  <2> QED
    BY <1>4, <2>1, SgnIs
<1>5. ASSUME Number(b) > Number(a), CompareNumerals(a, b) \in Int, CompareNumerals(a, b) < 0
      PROVE  Sgn(CompareNumerals(a, b)) = Sgn(Number(a) - Number(b))
  <2>1. Number(a) - Number(b) \in Int /\ Number(a) - Number(b) < 0
    BY <1>2, <1>5
  <2> QED
    BY <1>5, <2>1, SgnIs
<1>6. CASE Len(a) > Len(b)
  <2>1. CompareNumerals(a, b) = 1
    BY <1>1, <1>3, <1>6
  <2> QED
    BY <1>4, <1>6, <2>1, LongerIsGreater
<1>7. CASE Len(b) > Len(a)
  <2>1. CompareNumerals(a, b) = -1
    BY <1>1, <1>3, <1>7
  <2> QED
    BY <1>5, <1>7, <2>1, LongerIsGreater
<1>8. CASE Len(a) = Len(b) /\ differing = {}
  <2>1. \A k \in 1..Len(a) : a[k] = b[k]
    BY <1>8
  <2>2. a = b
    BY <1>1, <1>8, <2>1
  <2>3. CompareNumerals(a, b) = 0
    BY <1>3, <1>8
  <2>4. Number(a) - Number(b) = 0
    BY <1>2, <2>2
  <2> QED
    BY <2>3, <2>4
<1>9. CASE Len(a) = Len(b) /\ differing # {}
  <2>1. CompareNumerals(a, b) = Digit(a[first]) - Digit(b[first])
    BY <1>3, <1>9
  <2>2. differing \in SUBSET Nat
    BY <1>1
  <2> HIDE DEF differing
  <2>3. first \in differing
    BY <1>9, <2>2, LeastOfPlaces
  <2>4. \A l \in differing : first <= l
    BY <1>9, <2>2, LeastNat
  <2> HIDE DEF first
  <2>5. first \in 1..Len(a) /\ a[first] # b[first] /\ first \in Nat
    BY <2>2, <2>3 DEF differing
  <2>6. \A i \in 1..(first - 1) : a[i] = b[i]
    <3> SUFFICES ASSUME NEW i \in 1..(first - 1), a[i] # b[i] PROVE FALSE
      OBVIOUS
    <3>1. i \in 1..Len(a) /\ i < first
      BY <1>1, <2>5
    <3>2. i \in differing
      BY <3>1 DEF differing
    <3>3. first <= i
      BY <2>4, <3>2
    <3> QED
      BY <2>5, <3>1, <3>3
  <2>7. a[first] \in Digits /\ b[first] \in Digits
    BY <1>1, <1>9, <2>5
  <2>8. Digit(a[first]) \in 0..9 /\ Digit(b[first]) \in 0..9 /\ Digit(a[first]) # Digit(b[first])
    BY <2>5, <2>7, DigitIs
  <2>9. CASE Digit(a[first]) > Digit(b[first])
    <3>1. Number(a) > Number(b)
      BY <1>1, <1>9, <2>5, <2>6, <2>9, FirstDigitDecides
    <3> QED
      BY <1>4, <2>1, <2>8, <2>9, <3>1
  <2>10. CASE Digit(b[first]) > Digit(a[first])
    <3>1. first \in 1..Len(b) /\ \A i \in 1..(first - 1) : b[i] = a[i]
      BY <1>9, <2>5, <2>6
    <3>2. Number(b) > Number(a)
      BY <1>1, <1>9, <2>10, <3>1, FirstDigitDecides
    <3> QED
      BY <1>5, <2>1, <2>8, <2>10, <3>2
  <2> QED
    BY <2>8, <2>9, <2>10
<1> QED
  BY <1>1, <1>6, <1>7, <1>8, <1>9

(***************************************************************************)
(* A step of verrevcmp, and the numbers it stands for.                     *)
(***************************************************************************)
LEMMA EmptyWeighsNothing == Weights(<<>>) = <<>>
<1>1. <<>> \in Seq(Char) /\ Len(<<>>) = 0
  OBVIOUS
<1>2. PICK run : WeighRun(run, <<>>)
  BY <1>1, WeighRunExists
<1> QED
  BY <1>1, <1>2 DEF WeighRun, Blank

TextHead(s, rest) ==
  /\ Padded(Weights(s), 1) = Weight(First(s))
  /\ \A i \in Nat \ {0} : Padded(Weights(s), i + 1) = Padded(Weights(rest), i)

NumberHead(s, rest) ==
  /\ Padded(Weights(s), 1) = 0 /\ Padded(Weights(s), 2) = Number(Numeral(s))
  /\ \A i \in Nat \ {0} : Padded(Weights(s), i + 2) = Padded(Weights(rest), i)

LEMMA TextHeadIs ==
  ASSUME NEW s \in Seq(Char), IsText(s), NEW n
  PROVE  TextHead(s, Rest(s, n))
<1>1. First(s) \in Char \ Digits /\ s # <<>> /\ First(s) = s[1]
  BY FirstIs DEF IsText, First
<1>2. Len(s) \in Nat /\ 1 \in 1..Len(s) /\ 1 \in 0..Len(s) /\ 0 \in 0..Len(s)
  BY <1>1
<1>3. PICK run : WeighRun(run, s)
  BY WeighRunExists
<1>4. run[0] = Blank /\ run[0] \in Weighed /\ run[1] \in Weighed
  BY <1>2, <1>3 DEF WeighRun
<1>5. run[1] = Weigh(Blank, s[1])
  BY <1>2, <1>3, <1>4 DEF WeighRun
<1>6. AddsWeight(run[1], Blank, s[1])
  BY <1>1, <1>4, <1>5, WeighIs
<1> DEFINE h == run[1].list
<1>7. h \in Seq(Int) /\ run[1].number = FALSE /\ Len(h) = 1 /\ h[1] = Weight(s[1])
  BY <1>4, <1>6 DEF AddsWeight, Blank, Weighed
<1>8. Rest(s, n) = From(s, 1 + 1)
  BY DEF Rest
<1>9. Rest(s, n) \in Seq(Char)
  BY RestIs
<1>10. IsBehind([list |-> Weights(s)], h, [list |-> Weights(Rest(s, n))])
  BY <1>2, <1>3, <1>7, <1>8, SuffixWeights
<1>11. Weights(s) \in Seq(Int) /\ Weights(Rest(s, n)) \in Seq(Int)
  BY <1>9, WeightsAre
<1> HIDE DEF h
<1>12. /\ \A i \in 1..Len(h) : Padded(Weights(s), i) = h[i]
       /\ \A i \in Nat \ {0} : Padded(Weights(s), i + Len(h)) = Padded(Weights(Rest(s, n)), i)
  <2> DEFINE x == [list |-> Weights(s)]
             y == [list |-> Weights(Rest(s, n))]
  <2>1. x.list = Weights(s) /\ y.list = Weights(Rest(s, n)) /\ IsBehind(x, h, y)
    BY <1>10
  <2> HIDE DEF x, y
  <2>2. x.list \in Seq(Int) /\ y.list \in Seq(Int)
    BY <1>11, <2>1
  <2>3. BeginsWith(x.list, h, y.list)
    BY <1>7, <2>1, <2>2, PaddedBehind
  <2> QED
    BY <2>1, <2>3 DEF BeginsWith
<1> QED
  BY <1>1, <1>7, <1>12 DEF TextHead

\* The digits a string begins with: zeros, then its numeral.
LEMMA DigitsOfHead ==
  ASSUME NEW s \in Seq(Char), ~IsText(s), s # <<>>, NEW n
  PROVE  \E z \in Nat, k \in 1..Len(s) :
           /\ k = z + Len(Numeral(s)) /\ IsNumeral(Numeral(s)) /\ Rest(s, n) = From(s, k + 1)
           /\ k < Len(s) => s[k + 1] \notin Digits
           /\ \A i \in 1..z : s[i] = "0"
           /\ \A i \in 1..Len(Numeral(s)) : s[z + i] = Numeral(s)[i]
<1> DEFINE j == After(s, {"0"})
           t == From(s, j)
           m == After(t, Digits)
           a == Numeral(s)
           z == j - 1
           k == z + (m - 1)
<1>1. /\ j \in 1..(Len(s) + 1) /\ Len(s) \in Nat
      /\ j <= Len(s) => s[j] \notin {"0"}
      /\ \A i \in 1..(j - 1) : s[i] \in {"0"}
  BY AfterIs
<1>2. Significant(s) = t
  BY DEF Significant
<1> HIDE DEF j
<1>3. /\ t \in Seq(Char) /\ Len(t) = (Len(s) - j) + 1
      /\ \A i \in 1..((Len(s) - j) + 1) : t[i] = s[(j + i) - 1]
  BY <1>1, FromIs
<1> HIDE DEF t
<1>4. m \in 1..(Len(t) + 1) /\ (m <= Len(t) => t[m] \notin Digits)
  BY <1>3, AfterIs
<1>5. a = SubSeq(t, 1, m - 1)
  BY <1>2 DEF Numeral, Leading
<1>6. Rest(s, n) = From(t, m)
  BY <1>2 DEF Rest, Behind
<1>7. a \in Seq(Digits)
  BY NumeralIs
<1> HIDE DEF m
<1>8. Len(a) = m - 1 /\ \A i \in 1..(m - 1) : a[i] = t[i]
  BY <1>3, <1>4, <1>5, UptoIs
<1> HIDE DEF a
<1>9. z \in Nat /\ k \in 0..Len(s) /\ k = z + Len(a) /\ Len(t) = Len(s) - z /\ m - 1 \in Nat /\ m - 1 <= Len(t)
  BY <1>1, <1>3, <1>4, <1>8
<1>10. \A i \in 1..(m - 1) : a[i] = s[z + i]
  <2> SUFFICES ASSUME NEW i \in 1..(m - 1) PROVE a[i] = s[z + i]
    OBVIOUS
  <2>1. i \in 1..((Len(s) - j) + 1) /\ (j + i) - 1 = z + i
    BY <1>1, <1>3, <1>4
  <2> QED
    BY <1>3, <1>8, <2>1
<1>11. IsNumeral(a)
  <2> SUFFICES ASSUME a # <<>> PROVE a[1] # "0"
    BY <1>7 DEF IsNumeral
  <2>1. 1 \in 1..(m - 1)
    BY <1>7, <1>8, <1>9
  <2>2. a[1] = s[z + 1] /\ z + 1 = j /\ j <= Len(s)
    BY <1>1, <1>3, <1>9, <1>10, <2>1
  <2> QED
    BY <1>1, <2>2
<1>12. k < Len(s) => s[k + 1] \notin Digits
  <2> SUFFICES ASSUME k < Len(s) PROVE s[k + 1] \notin Digits
    OBVIOUS
  <2>1. m <= Len(t) /\ m \in 1..((Len(s) - j) + 1) /\ (j + m) - 1 = k + 1
    BY <1>1, <1>3, <1>4, <1>9
  <2> QED
    BY <1>3, <1>4, <2>1
<1>13. k \in 1..Len(s)
  <2> SUFFICES ASSUME k = 0 PROVE FALSE
    BY <1>9
  <2>1. First(s) = s[1] /\ Len(s) # 0 /\ s[1] \in Char
    BY DEF First
  <2>2. s[1] \in Digits
    <3>1. First(s) # End
      BY <2>1, CharIs
    <3> QED
      BY <2>1, <3>1 DEF IsText
  <2>3. 0 < Len(s)
    BY <1>1, <2>1
  <2> QED
    BY <1>12, <2>2, <2>3
<1>14. Rest(s, n) = From(s, k + 1)
  <2> DEFINE u == From(t, m)
             w == From(s, k + 1)
  <2>1. /\ u \in Seq(Char) /\ Len(u) = (Len(t) - m) + 1
        /\ \A i \in 1..((Len(t) - m) + 1) : u[i] = t[(m + i) - 1]
    BY <1>3, <1>4, FromIs
  <2>2. k + 1 \in 1..(Len(s) + 1)
    BY <1>9
  <2>3. /\ w \in Seq(Char) /\ Len(w) = (Len(s) - (k + 1)) + 1
        /\ \A i \in 1..((Len(s) - (k + 1)) + 1) : w[i] = s[((k + 1) + i) - 1]
    BY <2>2, FromIs
  <2> HIDE DEF u, w
  <2>4. (Len(t) - m) + 1 = (Len(s) - (k + 1)) + 1
    BY <1>1, <1>3, <1>4
  <2>5. ASSUME NEW i \in 1..((Len(t) - m) + 1) PROVE u[i] = w[i]
    <3>1. /\ (m + i) - 1 \in 1..((Len(s) - j) + 1)
          /\ (j + ((m + i) - 1)) - 1 = ((k + 1) + i) - 1
      BY <1>1, <1>3, <1>4
    <3>2. u[i] = s[(j + ((m + i) - 1)) - 1]
      BY <1>3, <2>1, <3>1
    <3> QED
      BY <2>3, <2>4, <3>1, <3>2
  <2>6. u = w
    BY <2>1, <2>3, <2>4, <2>5
  <2> QED
    BY <1>6, <2>6 DEF u, w
<1>15. \A i \in 1..z : s[i] = "0"
  BY <1>1
<1>16. \A i \in 1..Len(a) : s[z + i] = a[i]
  BY <1>8, <1>10
<1> HIDE DEF k, z
<1> QED
  BY <1>9, <1>11, <1>12, <1>13, <1>14, <1>15, <1>16 DEF a

LEMMA EmptyNumeral == Numeral(<<>>) = <<>>
<1>1. <<>> \in Seq(Char) /\ Len(<<>>) = 0
  OBVIOUS
<1>2. After(<<>>, {"0"}) = 1 /\ After(<<>>, Digits) = 1
  <2>1. After(<<>>, {"0"}) \in 1..(Len(<<>>) + 1) /\ After(<<>>, Digits) \in 1..(Len(<<>>) + 1)
    BY <1>1, AfterIs
  <2> QED
    BY <1>1, <2>1
<1>3. SubSeq(<<>>, 1, 0) = <<>>
  OBVIOUS
<1> QED
  BY <1>1, <1>2, <1>3 DEF Numeral, Leading, Significant, From

LEMMA NumberHeadIs ==
  ASSUME NEW s \in Seq(Char), ~IsText(s), NEW n
  PROVE  NumberHead(s, Rest(s, n))
<1> DEFINE a == Numeral(s)
<1>1. Rest(s, n) \in Seq(Char) /\ (s = <<>> => Rest(s, n) = <<>>)
  BY RestIs
<1>2. a \in Seq(Digits)
  BY NumeralIs
<1>3. PICK num : NumberRun(num, a)
  BY <1>2, NumberRunExists
<1> HIDE DEF a
<1>4. CASE s = <<>>
  <2>1. Weights(s) = <<>> /\ Weights(Rest(s, n)) = <<>>
    BY <1>1, <1>4, EmptyWeighsNothing
  <2>2. \A i \in Nat \ {0} : Padded(<<>>, i) = 0
    BY DEF Padded
  <2>3. \A i \in Nat \ {0} : i + 2 \in Nat \ {0}
    OBVIOUS
  <2>4. 1 \in Nat \ {0} /\ 2 \in Nat \ {0}
    OBVIOUS
  <2>5. Number(a) = 0
    <3>1. Numeral(<<>>) = <<>>
      BY EmptyNumeral
    <3>2. Len(a) = 0
      BY <1>4, <3>1 DEF a
    <3> QED
      BY <1>3, <3>2 DEF NumberRun
  <2> QED
    BY <2>1, <2>2, <2>3, <2>4, <2>5 DEF NumberHead, a
<1>5. CASE s # <<>>
  <2>1. PICK z \in Nat, k \in 1..Len(s) :
           /\ k = z + Len(a) /\ IsNumeral(a) /\ Rest(s, n) = From(s, k + 1)
           /\ k < Len(s) => s[k + 1] \notin Digits
           /\ \A i \in 1..z : s[i] = "0"
           /\ \A i \in 1..Len(a) : s[z + i] = a[i]
    BY <1>5, DigitsOfHead DEF a
  <2>2. PICK run : WeighRun(run, s)
    BY WeighRunExists
  <2>3. /\ run[0] = Blank /\ \A i \in 1..Len(s) : run[i] = Weigh(run[i - 1], s[i])
        /\ \A i \in 0..Len(s) : run[i] \in Weighed
    BY <2>2 DEF WeighRun
  <2>4. /\ num[0] = 0 /\ num[Len(a)] = Number(a)
        /\ \A i \in 1..Len(a) : num[i] = AddDigit(num[i - 1], a[i])
    BY <1>3 DEF NumberRun
  <2>5. /\ Len(s) \in Nat /\ Len(a) \in Nat
        /\ \A i \in 1..Len(s) : s[i] \in Char
        /\ \A i \in 1..Len(a) : a[i] \in Digits
    BY <1>2
  <2> DEFINE Value(i) == IF i <= z THEN 0 ELSE num[i - z]
             Reads(i) == /\ run[i].number = TRUE /\ Len(run[i].list) = 2
                         /\ run[i].list[1] = 0 /\ run[i].list[2] = Value(i)
             T == {i \in Nat : i # 0 /\ i <= k => Reads(i)}
  <2>6. ASSUME NEW i \in Nat, i + 1 <= k
        PROVE  /\ s[i + 1] \in Digits /\ Value(i + 1) = AddDigit(Value(i), s[i + 1])
               /\ Value(0) = 0 /\ i + 1 \in 1..Len(s)
    <3>1. i + 1 \in 1..Len(s)
      BY <2>1, <2>5, <2>6
    <3>2. Value(0) = 0
      OBVIOUS
    <3>3. CASE i + 1 <= z
      <4>1. i + 1 \in 1..z /\ i <= z
        BY <3>3
      <4>2. s[i + 1] = "0"
        BY <2>1, <4>1
      <4>3. Value(i) = 0 /\ Value(i + 1) = 0
        BY <3>3, <4>1
      <4> HIDE DEF Value
      <4> QED
        BY <3>1, <3>2, <4>2, <4>3, ZeroIs DEF AddDigit
    <3>4. CASE ~(i + 1 <= z)
      <4> DEFINE l == (i + 1) - z
      <4>1. l \in 1..Len(a) /\ z + l = i + 1 /\ l - 1 = i - z /\ i >= z
        BY <2>1, <2>5, <2>6, <3>4
      <4>2. s[i + 1] = a[l] /\ a[l] \in Digits
        BY <2>1, <2>5, <4>1
      <4>3. num[l] = AddDigit(num[l - 1], a[l])
        BY <2>4, <4>1
      <4>4. Value(i + 1) = num[l]
        BY <3>4
      <4>5. Value(i) = num[l - 1]
        <5>1. CASE i = z
          <6>1. l - 1 = 0 /\ i <= z
            BY <4>1, <5>1
          <6> QED
            BY <2>4, <6>1
        <5>2. CASE i # z
          <6>1. ~(i <= z)
            BY <4>1, <5>2
          <6> QED
            BY <4>1, <6>1
        <5> QED
          BY <5>1, <5>2
      <4> HIDE DEF Value, l
      <4> QED
        BY <3>1, <3>2, <4>2, <4>3, <4>4, <4>5
    <3> QED
      BY <3>3, <3>4
  <2>7. 0 \in T
    OBVIOUS
  <2> HIDE DEF Value
  <2>8. ASSUME NEW i \in Nat, i \in T PROVE i + 1 \in T
    <3> SUFFICES ASSUME i + 1 <= k PROVE Reads(i + 1)
      <4> HIDE DEF Reads
      <4> QED
        OBVIOUS
    <3>1. /\ s[i + 1] \in Digits /\ Value(i + 1) = AddDigit(Value(i), s[i + 1])
          /\ Value(0) = 0 /\ i + 1 \in 1..Len(s)
      BY <2>6
    <3>2. /\ (i + 1) - 1 = i /\ i \in 0..Len(s) /\ i <= k
      BY <2>5, <3>1
    <3>3. run[i + 1] = Weigh(run[i], s[i + 1]) /\ run[i] \in Weighed /\ s[i + 1] \in Char
      BY <2>3, <2>5, <3>1, <3>2
    <3>4. CASE i = 0
      <4>1. run[i].number = FALSE /\ run[i].list = <<>>
        BY <2>3, <3>4 DEF Blank
      <4>2. BeginsNumber(run[i + 1], run[i], s[i + 1])
        BY <3>1, <3>3, <4>1, WeighIs
      <4>3. /\ run[i + 1].number = TRUE /\ Len(run[i + 1].list) = 2
            /\ run[i + 1].list[1] = 0 /\ run[i + 1].list[2] = Digit(s[i + 1])
        BY <4>1, <4>2 DEF BeginsNumber
      <4>4. Value(i + 1) = Digit(s[i + 1])
        <5>1. Digit(s[i + 1]) \in 0..9
          BY <3>1, DigitIs
        <5> QED
          BY <3>1, <3>4, <5>1 DEF AddDigit
      <4> QED
        BY <4>3, <4>4
    <3>5. CASE i # 0
      <4>1. /\ run[i].number = TRUE /\ Len(run[i].list) = 2
            /\ run[i].list[1] = 0 /\ run[i].list[2] = Value(i)
        BY <2>8, <3>2, <3>5
      <4>2. GoesOn(run[i + 1], run[i], s[i + 1])
        BY <3>1, <3>3, <4>1, WeighIs
      <4>3. /\ run[i + 1].number = TRUE /\ Len(run[i + 1].list) = 2
            /\ run[i + 1].list[1] = 0 /\ run[i + 1].list[2] = AddDigit(Value(i), s[i + 1])
        BY <4>1, <4>2 DEF GoesOn
      <4> QED
        BY <3>1, <4>3
    <3> QED
      BY <3>4, <3>5
  <2> HIDE DEF T
  <2>9. k \in T /\ k \in Nat
    <3>1. k \in Nat
      OBVIOUS
    <3> QED
      BY <2>7, <2>8, <3>1, NatInduct
  <2>10. Reads(k)
    BY <2>9 DEF T
  <2>11. Value(k) = Number(a)
    <3>1. CASE k <= z
      <4>1. Len(a) = 0
        BY <2>1, <2>5, <3>1
      <4> QED
        BY <2>4, <3>1, <4>1 DEF Value
    <3>2. CASE ~(k <= z)
      <4>1. k - z = Len(a)
        BY <2>1, <2>5
      <4> QED
        BY <2>4, <3>2, <4>1 DEF Value
    <3> QED
      BY <3>1, <3>2
  <2> DEFINE h == run[k].list
  <2>12. k \in 0..Len(s)
    BY <2>5
  <2>13. h \in Seq(Int) /\ Len(h) = 2 /\ h[1] = 0 /\ h[2] = Number(a)
    BY <2>3, <2>10, <2>11, <2>12 DEF Weighed
  <2>14. IsBehind([list |-> Weights(s)], h, [list |-> Weights(Rest(s, n))])
    BY <2>1, <2>2, <2>12, SuffixWeights
  <2>15. Weights(s) \in Seq(Int) /\ Weights(Rest(s, n)) \in Seq(Int)
    BY <1>1, WeightsAre
  <2> HIDE DEF h
  <2>16. /\ \A i \in 1..Len(h) : Padded(Weights(s), i) = h[i]
         /\ \A i \in Nat \ {0} : Padded(Weights(s), i + Len(h)) = Padded(Weights(Rest(s, n)), i)
    <3> DEFINE x == [list |-> Weights(s)]
               y == [list |-> Weights(Rest(s, n))]
    <3>1. x.list = Weights(s) /\ y.list = Weights(Rest(s, n)) /\ IsBehind(x, h, y)
      BY <2>14
    <3> HIDE DEF x, y
    <3>2. x.list \in Seq(Int) /\ y.list \in Seq(Int)
      BY <2>15, <3>1
    <3>3. BeginsWith(x.list, h, y.list)
      BY <2>13, <3>1, <3>2, PaddedBehind
    <3> QED
      BY <3>1, <3>3 DEF BeginsWith
  <2> QED
    BY <2>13, <2>16 DEF NumberHead, a
<1> QED
  BY <1>4, <1>5

\* What order() and Weight give to the first characters of strings.
Agree(o, w) ==
  \/ o = 0   /\ w = 0
  \/ o = -1  /\ w = -1
  \/ o = 97  /\ w = 1
  \/ o = 98  /\ w = 2
  \/ o = 299 /\ w = 3
  \/ o = 301 /\ w = 4
  \/ o = 302 /\ w = 5
  \/ o = 314 /\ w = 6

LEMMA HeadsWeighed ==
  ASSUME NEW s \in Seq(Char)
  PROVE  Agree(Order(First(s)), Padded(Weights(s), 1)) /\ (Order(First(s)) # 0 <=> IsText(s))
<1>1. Order(First(s)) # 0 <=> IsText(s)
  BY FirstIs, OrderIs DEF IsText
<1>2. CASE IsText(s)
  <2>1. First(s) \in Char /\ First(s) \notin Digits
    BY <1>2, FirstIs DEF IsText
  <2>2. WeightIsFor(First(s))
    BY <2>1, WeightIs
  <2>3. Padded(Weights(s), 1) = Weight(First(s))
    BY <1>2, TextHeadIs DEF TextHead
  <2> QED
    BY <1>1, <2>2, <2>3 DEF Agree, WeightIsFor
<1>3. CASE ~IsText(s)
  <2>1. Padded(Weights(s), 1) = 0
    BY <1>3, NumberHeadIs DEF NumberHead
  <2> QED
    BY <1>1, <1>3, <2>1 DEF Agree
<1> QED
  BY <1>2, <1>3

LEMMA AgreeingDiffer ==
  ASSUME NEW o, NEW w, NEW p, NEW x, Agree(o, w), Agree(p, x)
  PROVE  Sgn(o - p) = Sgn(w - x) /\ (o = p <=> w = x)
<1>1. o \in Int /\ p \in Int /\ w \in Int /\ x \in Int
  BY DEF Agree
<1>2. (o > p <=> w > x) /\ (o = p <=> w = x)
  BY DEF Agree
<1>3. o - p \in Int /\ w - x \in Int /\ (o > p <=> o - p > 0) /\ (w > x <=> w - x > 0)
      /\ (o = p <=> o - p = 0) /\ (w = x <=> w - x = 0)
  BY <1>1
<1>4. CASE o > p
  BY <1>2, <1>3, <1>4, SgnIs
<1>5. CASE o = p
  BY <1>2, <1>3, <1>5, SgnIs
<1>6. CASE o < p
  <2>1. o - p < 0 /\ w - x < 0
    BY <1>1, <1>2, <1>6
  <2> QED
    BY <1>1, <1>2, <1>3, <1>6, <2>1, SgnIs
<1> QED
  BY <1>1, <1>4, <1>5, <1>6

LEMMA HeadNumeral ==
  ASSUME NEW s \in Seq(Char), ~IsText(s)
  PROVE  IsNumeral(Numeral(s))
<1>1. CASE s = <<>>
  BY <1>1, EmptyNumeral, NumeralIs DEF IsNumeral
<1>2. CASE s # <<>>
  BY <1>2, DigitsOfHead
<1> QED
  BY <1>1, <1>2

\* A step that decides does so as the weights do, and one that does not leaves
\* it to the rests.
LEMMA StepDecides ==
  ASSUME NEW v \in Seq(Char), NEW w \in Seq(Char), NEW n
  PROVE  IF CompareHeads(v, w) # 0
         THEN Precedence(Weights(v), Weights(w)) = Sgn(CompareHeads(v, w))
         ELSE Precedence(Weights(v), Weights(w)) = Precedence(Weights(Rest(v, n)), Weights(Rest(w, n)))
<1> DEFINE x == Weights(v)
           y == Weights(w)
           p == Weights(Rest(v, n))
           q == Weights(Rest(w, n))
           c == CompareHeads(v, w)
<1>1. Rest(v, n) \in Seq(Char) /\ Rest(w, n) \in Seq(Char)
  BY RestIs
<1>2. x \in Seq(Int) /\ y \in Seq(Int) /\ p \in Seq(Int) /\ q \in Seq(Int)
  BY <1>1, WeightsAre
<1>3. /\ Agree(Order(First(v)), Padded(x, 1)) /\ (Order(First(v)) # 0 <=> IsText(v))
      /\ Agree(Order(First(w)), Padded(y, 1)) /\ (Order(First(w)) # 0 <=> IsText(w))
  BY HeadsWeighed
<1>4. c \in Int
  BY HeadsAgree
<1>5. CASE IsText(v) \/ IsText(w)
  <2>1. c = Order(First(v)) - Order(First(w))
    BY <1>5 DEF CompareHeads
  <2>2. /\ Sgn(c) = Sgn(Padded(x, 1) - Padded(y, 1))
        /\ Order(First(v)) = Order(First(w)) <=> Padded(x, 1) = Padded(y, 1)
    BY <1>3, <2>1, AgreeingDiffer
  <2>3. Order(First(v)) \in Int /\ Order(First(w)) \in Int
    BY <1>3 DEF Agree
  <2>4. TextHead(v, Rest(v, n)) \/ ~IsText(v)
    BY TextHeadIs
  <2>5. TextHead(w, Rest(w, n)) \/ ~IsText(w)
    BY TextHeadIs
  <2> HIDE DEF x, y, p, q, c
  <2>6. CASE c # 0
    <3>1. Padded(x, 1) # Padded(y, 1)
      BY <2>1, <2>2, <2>3, <2>6
    <3>2. 1 \in Nat \ {0} /\ \A i \in 1..(1 - 1) : Padded(x, i) = Padded(y, i)
      OBVIOUS
    <3>3. Precedence(x, y) = Sgn(Padded(x, 1) - Padded(y, 1))
      BY <1>2, <3>1, <3>2, FirstDiffers
    <3> QED
      BY <2>2, <2>6, <3>3 DEF x, y, c
  <2>7. CASE c = 0
    <3>1. Order(First(v)) = Order(First(w))
      BY <2>1, <2>3, <2>7
    <3>2. IsText(v) /\ IsText(w) /\ Padded(x, 1) = Padded(y, 1)
      BY <1>3, <1>5, <2>2, <3>1
    <3>3. SameUpto(x, y, 1) /\ 1 \in Nat
      BY <3>2 DEF SameUpto
    <3>4. Without(x, 1, p)
      BY <2>4, <3>2 DEF TextHead, Without, x, p
    <3>5. Without(y, 1, q)
      BY <2>5, <3>2 DEF TextHead, Without, y, q
    <3>6. Precedence(x, y) = Precedence(p, q)
      BY <1>2, <3>3, <3>4, <3>5, BeginningsLeft
    <3> QED
      BY <2>7, <3>6 DEF x, y, p, q, c
  <2> QED
    BY <2>6, <2>7
<1>6. CASE ~IsText(v) /\ ~IsText(w)
  <2> DEFINE a == Numeral(v)
             b == Numeral(w)
  <2>1. c = CompareNumerals(a, b)
    BY <1>6 DEF CompareHeads
  <2>2. IsNumeral(a) /\ IsNumeral(b)
    BY <1>6, HeadNumeral
  <2>3. Sgn(c) = Sgn(Number(a) - Number(b))
    BY <2>1, <2>2, CompareNumeralsIs
  <2>4. Number(a) \in Nat /\ Number(b) \in Nat
    BY <2>2, NumberIs DEF IsNumeral
  <2>5. NumberHead(v, Rest(v, n)) /\ NumberHead(w, Rest(w, n))
    BY <1>6, NumberHeadIs
  <2>6. /\ Padded(x, 1) = 0 /\ Padded(x, 2) = Number(a)
        /\ \A i \in Nat \ {0} : Padded(x, i + 2) = Padded(p, i)
    BY <2>5 DEF NumberHead
  <2>7. /\ Padded(y, 1) = 0 /\ Padded(y, 2) = Number(b)
        /\ \A i \in Nat \ {0} : Padded(y, i + 2) = Padded(q, i)
    BY <2>5 DEF NumberHead
  <2> HIDE DEF x, y, p, q, c, a, b
  <2>8. c = 0 <=> Number(a) = Number(b)
    <3>1. Number(a) - Number(b) \in Int
      BY <2>4
    <3>2. c = 0 <=> Number(a) - Number(b) = 0
      BY <1>4, <2>3, <3>1, SgnIs
    <3> QED
      BY <2>4, <3>2
  <2>9. CASE c # 0
    <3>1. Padded(x, 2) # Padded(y, 2)
      BY <2>6, <2>7, <2>8, <2>9
    <3>2. 2 \in Nat \ {0} /\ \A i \in 1..(2 - 1) : Padded(x, i) = Padded(y, i)
      BY <2>6, <2>7
    <3>3. Precedence(x, y) = Sgn(Padded(x, 2) - Padded(y, 2))
      BY <1>2, <3>1, <3>2, FirstDiffers
    <3> QED
      BY <2>3, <2>6, <2>7, <2>9, <3>3 DEF x, y, c
  <2>10. CASE c = 0
    <3>1. SameUpto(x, y, 2) /\ 2 \in Nat
      <4>1. \A i \in 1..2 : i = 1 \/ i = 2
        OBVIOUS
      <4> QED
        BY <2>6, <2>7, <2>8, <2>10, <4>1 DEF SameUpto
    <3>2. Without(x, 2, p) /\ Without(y, 2, q)
      BY <2>6, <2>7 DEF Without
    <3>3. Precedence(x, y) = Precedence(p, q)
      BY <1>2, <3>1, <3>2, BeginningsLeft
    <3> QED
      BY <2>10, <3>3 DEF x, y, p, q, c
  <2> QED
    BY <2>9, <2>10
<1> QED
  BY <1>5, <1>6

\* verrevcmp, for strings of any length, compares what they weigh.
LEMMA VerRevCmpDecides ==
  ASSUME NEW v, NEW w, Text(v) \in Seq(Char), Text(w) \in Seq(Char)
  PROVE  Sgn(VerRevCmp(v, w)) = Precedence(Weights(Text(v)), Weights(Text(w)))
<1> DEFINE a == Left(Text(v))
           b == Left(Text(w))
           steps    == IF Len(a[0]) > Len(b[0]) THEN Len(a[0]) ELSE Len(b[0])
           deciding == {n \in 0..steps : CompareHeads(a[n], b[n]) # 0}
           first    == CHOOSE n \in deciding : \A m \in deciding : n <= m
           P(n)     == Precedence(Weights(a[n]), Weights(b[n]))
<1>1. VerRevCmp(v, w) = IF deciding = {} THEN 0 ELSE CompareHeads(a[first], b[first])
  BY DEF VerRevCmp, CompareSteps
<1>2. /\ a[0] = Text(v) /\ \A n \in Nat : a[n + 1] = Rest(a[n], n + 1)
      /\ \A n \in Nat : a[n] \in Seq(Char) /\ (n >= Len(Text(v)) => a[n] = <<>>)
  BY LeftIs
<1>3. /\ b[0] = Text(w) /\ \A n \in Nat : b[n + 1] = Rest(b[n], n + 1)
      /\ \A n \in Nat : b[n] \in Seq(Char) /\ (n >= Len(Text(w)) => b[n] = <<>>)
  BY LeftIs
<1> HIDE DEF a, b
<1>4. P(0) = Precedence(Weights(Text(v)), Weights(Text(w)))
  BY <1>2, <1>3
<1>5. \A n \in Nat : IF CompareHeads(a[n], b[n]) # 0 THEN P(n) = Sgn(CompareHeads(a[n], b[n]))
                     ELSE P(n) = P(n + 1)
  <2> SUFFICES ASSUME NEW n \in Nat
               PROVE  IF CompareHeads(a[n], b[n]) # 0 THEN P(n) = Sgn(CompareHeads(a[n], b[n]))
                      ELSE P(n) = P(n + 1)
    OBVIOUS
  <2>1. a[n] \in Seq(Char) /\ b[n] \in Seq(Char)
    BY <1>2, <1>3
  <2>2. a[n + 1] = Rest(a[n], n + 1) /\ b[n + 1] = Rest(b[n], n + 1)
    BY <1>2, <1>3
  <2> QED
    BY <2>1, <2>2, StepDecides
<1> HIDE DEF P
<1>6. steps \in Nat /\ steps >= Len(Text(v)) /\ steps >= Len(Text(w))
  <2>1. Len(Text(v)) \in Nat /\ Len(Text(w)) \in Nat
    OBVIOUS
  <2>2. steps = IF Len(Text(v)) > Len(Text(w)) THEN Len(Text(v)) ELSE Len(Text(w))
    BY <1>2, <1>3
  <2> QED
    BY <2>1, <2>2
<1> HIDE DEF steps
<1>7. ASSUME NEW k \in Nat, \A n \in Nat : n < k => CompareHeads(a[n], b[n]) = 0
      PROVE  P(k) = P(0)
  <2> DEFINE T == {n \in Nat : n <= k => P(n) = P(0)}
  <2>1. 0 \in T
    OBVIOUS
  <2>2. ASSUME NEW n \in Nat, n \in T PROVE n + 1 \in T
    BY <1>5, <1>7, <2>2
  <2> HIDE DEF T
  <2>3. k \in T
    BY <2>1, <2>2, NatInduct
  <2> QED
    BY <2>3 DEF T
<1>8. CASE deciding = {}
  <2>1. \A n \in Nat : n < steps => CompareHeads(a[n], b[n]) = 0
    BY <1>6, <1>8
  <2>2. P(steps) = P(0)
    BY <1>6, <1>7, <2>1
  <2>3. a[steps] = <<>> /\ b[steps] = <<>>
    BY <1>2, <1>3, <1>6
  <2>4. P(steps) = 0
    <3>1. Precedence(<<>>, <<>>) = 0
      <4>1. Len(<<>>) \in Nat /\ \A i \in Nat \ {0} : Padded(<<>>, i) = Padded(<<>>, i)
        OBVIOUS
      <4> QED
        BY <4>1, NothingDiffers
    <3> QED
      BY <2>3, <3>1, EmptyWeighsNothing DEF P
  <2>5. VerRevCmp(v, w) = 0
    BY <1>1, <1>8
  <2> QED
    BY <1>4, <2>2, <2>4, <2>5, SgnIs
<1>9. CASE deciding # {}
  <2>1. deciding \in SUBSET Nat
    BY <1>6
  <2>2. VerRevCmp(v, w) = CompareHeads(a[first], b[first])
    BY <1>1, <1>9
  <2> HIDE DEF deciding
  <2>3. first \in deciding
    BY <1>9, <2>1, LeastOfPlaces
  <2>4. \A m \in deciding : first <= m
    BY <1>9, <2>1, LeastNat
  <2> HIDE DEF first
  <2>5. first \in Nat /\ first <= steps /\ CompareHeads(a[first], b[first]) # 0
    BY <1>6, <2>1, <2>3 DEF deciding
  <2>6. \A n \in Nat : n < first => CompareHeads(a[n], b[n]) = 0
    <3> SUFFICES ASSUME NEW n \in Nat, n < first, CompareHeads(a[n], b[n]) # 0 PROVE FALSE
      OBVIOUS
    <3>1. n \in deciding
      BY <1>6, <2>5 DEF deciding
    <3>2. first <= n
      BY <2>4, <3>1
    <3> QED
      BY <2>5, <3>2
  <2>7. P(first) = P(0)
    BY <1>7, <2>5, <2>6
  <2>8. P(first) = Sgn(CompareHeads(a[first], b[first]))
    BY <1>5, <2>5
  <2> QED
    BY <1>4, <2>2, <2>7, <2>8
<1> QED
  BY <1>8, <1>9

\* Of epochs that an int holds the difference is what it says.
LEMMA EpochsDiffer ==
  ASSUME NEW x \in Nat, NEW y \in Nat, 2 * x < IntSize, 2 * y < IntSize
  PROVE  ToInt((x - y) % LongSize) = x - y
<1> DEFINE d == x - y
           low == d % IntSize
<1>1. IntSize \in Nat \ {0}
  BY WidthAssumption
<1>2. d \in Int /\ 2 * d < IntSize /\ 2 * d > -IntSize
  BY <1>1
<1>3. ((d % LongSize) % IntSize) = low
  BY EpochsModulo
<1>4. ToInt(d % LongSize) = IF 2 * low < IntSize THEN low ELSE low - IntSize
  BY <1>3 DEF ToInt
<1> HIDE DEF d
<1>5. CASE d >= 0
  <2>1. d \in 0..(IntSize - 1) /\ 0 * IntSize + d = d
    BY <1>1, <1>2, <1>5
  <2>2. low = d
    <3>1. (0 * IntSize + d) % IntSize = d
      BY <1>1, <2>1, RemainderIs
    <3> QED
      BY <2>1, <3>1
  <2> QED
    BY <1>2, <1>4, <2>2 DEF d
<1>6. CASE d < 0
  <2>1. d + IntSize \in 0..(IntSize - 1) /\ -1 \in Int /\ (-1) * IntSize + (d + IntSize) = d
    BY <1>1, <1>2, <1>6
  <2>2. low = d + IntSize
    <3>1. ((-1) * IntSize + (d + IntSize)) % IntSize = d + IntSize
      BY <1>1, <2>1, RemainderIs
    <3> QED
      BY <2>1, <3>1
  <2>3. ~(2 * low < IntSize) /\ low - IntSize = d
    BY <1>1, <1>2, <2>2
  <2> QED
    BY <1>4, <2>3 DEF d
<1> QED
  BY <1>2, <1>5, <1>6

LEMMA PrecedenceTurned ==
  ASSUME NEW x \in Seq(Int), NEW y \in Seq(Int)
  PROVE  Precedence(x, y) \in Int /\ Precedence(y, x) = -Precedence(x, y)
<1> DEFINE T == {i \in Nat \ {0} : Padded(x, i) # Padded(y, i)}
<1>1. Len(x) \in Nat /\ Len(y) \in Nat
  OBVIOUS
<1>2. CASE T = {}
  <2>1. \A i \in Nat \ {0} : Padded(x, i) = Padded(y, i)
    BY <1>2
  <2>2. Precedence(x, y) = 0
    BY <1>1, <2>1, NothingDiffers
  <2>3. Precedence(y, x) = 0
    BY <1>1, <2>1, NothingDiffers
  <2>4. \A i \in Int : i = 0 <=> -i = 0
    OBVIOUS
  <2>5. Precedence(x, y) \in Int /\ Precedence(y, x) \in Int
    BY <2>2, <2>3
  <2> QED
    BY <2>2, <2>3, <2>4, <2>5
<1>3. CASE T # {}
  <2>1. T \in SUBSET Nat
    OBVIOUS
  <2>2. PICK k \in T : \A i \in T : k <= i
    BY <1>3, <2>1, LeastNat
  <2>3. k \in Nat \ {0} /\ Padded(x, k) # Padded(y, k)
    OBVIOUS
  <2>4. \A i \in 1..(k - 1) : Padded(x, i) = Padded(y, i)
    BY <2>2, <2>3
  <2>5. Precedence(x, y) = Sgn(Padded(x, k) - Padded(y, k))
    BY <2>3, <2>4, FirstDiffers
  <2>6. Precedence(y, x) = Sgn(Padded(y, k) - Padded(x, k))
    BY <2>3, <2>4, FirstDiffers
  <2> DEFINE p == Padded(x, k)
             q == Padded(y, k)
  <2>7. p \in Int /\ q \in Int
    BY <2>3 DEF Padded
  <2> HIDE DEF p, q
  <2>8. Sgn(p - q) \in Int /\ Sgn(q - p) = -Sgn(p - q)
    <3>1. p - q \in Int /\ q - p \in Int
      BY <2>7
    <3>2. CASE p > q
      <4>1. p - q > 0 /\ q - p < 0
        BY <2>7, <3>2
      <4>2. Sgn(p - q) = 1 /\ Sgn(q - p) = -1
        BY <3>1, <4>1, SgnIs
      <4> QED
        BY <4>2
    <3>3. CASE p = q
      <4>1. p - q = 0 /\ q - p = 0
        BY <2>7, <3>3
      <4>2. Sgn(p - q) = 0 /\ Sgn(q - p) = 0
        BY <3>1, <4>1, SgnIs
      <4> QED
        BY <4>2
    <3>4. CASE p < q
      <4>1. p - q < 0 /\ q - p > 0
        BY <2>7, <3>4
      <4>2. Sgn(p - q) = -1 /\ Sgn(q - p) = 1
        BY <3>1, <4>1, SgnIs
      <4> QED
        BY <4>2
    <3> QED
      BY <2>7, <3>2, <3>3, <3>4
  <2> QED
    BY <2>5, <2>6, <2>8 DEF p, q
<1> QED
  BY <1>2, <1>3

LEMMA PolicyTurned ==
  ASSUME NEW v \in Version, NEW w \in Version
  PROVE  PolicyOrder(v, w) \in Int /\ PolicyOrder(w, v) = -PolicyOrder(v, w)
<1> DEFINE e1 == Sgn(v.epoch - w.epoch)
           e2 == Sgn(w.epoch - v.epoch)
           v1 == Precedence(Weights(Text(v.version)), Weights(Text(w.version)))
           v2 == Precedence(Weights(Text(w.version)), Weights(Text(v.version)))
           r1 == Precedence(Weights(Text(v.revision)), Weights(Text(w.revision)))
           r2 == Precedence(Weights(Text(w.revision)), Weights(Text(v.revision)))
<1>1. v.epoch \in Nat /\ w.epoch \in Nat
  BY DEF Version
<1>2. /\ Text(v.version) \in Seq(Char) /\ Text(w.version) \in Seq(Char)
      /\ Text(v.revision) \in Seq(Char) /\ Text(w.revision) \in Seq(Char)
  BY DEF Version, Text
<1>3. e1 \in Int /\ e2 = -e1
  <2> DEFINE p == v.epoch
             q == w.epoch
  <2>1. p \in Nat /\ q \in Nat
    BY <1>1
  <2> HIDE DEF p, q
  <2>2. p - q \in Int /\ q - p \in Int
    BY <2>1
  <2>3. Sgn(p - q) \in Int /\ Sgn(q - p) = -Sgn(p - q)
    <3>1. CASE p - q > 0
      <4>1. q - p < 0
        BY <2>1, <3>1
      <4>2. Sgn(p - q) = 1 /\ Sgn(q - p) = -1
        BY <2>2, <3>1, <4>1, SgnIs
      <4> QED
        BY <4>2
    <3>2. CASE p - q = 0
      <4>1. q - p = 0
        BY <2>1, <3>2
      <4>2. Sgn(p - q) = 0 /\ Sgn(q - p) = 0
        BY <2>2, <3>2, <4>1, SgnIs
      <4> QED
        BY <4>2
    <3>3. CASE p - q < 0
      <4>1. q - p > 0
        BY <2>1, <3>3
      <4>2. Sgn(p - q) = -1 /\ Sgn(q - p) = 1
        BY <2>2, <3>3, <4>1, SgnIs
      <4> QED
        BY <4>2
    <3> QED
      BY <2>2, <3>1, <3>2, <3>3
  <2> QED
    BY <2>3 DEF p, q
<1>4. v1 \in Int /\ v2 = -v1
  BY <1>2, WeightsAre, PrecedenceTurned
<1>5. r1 \in Int /\ r2 = -r1
  BY <1>2, WeightsAre, PrecedenceTurned
<1>6. PolicyOrder(v, w) = CASE e1 # 0 -> e1 [] e1 = 0 /\ v1 # 0 -> v1 [] OTHER -> r1
  BY DEF PolicyOrder
<1>7. PolicyOrder(w, v) = CASE e2 # 0 -> e2 [] e2 = 0 /\ v2 # 0 -> v2 [] OTHER -> r2
  BY DEF PolicyOrder
<1> HIDE DEF e1, e2, v1, v2, r1, r2
<1>8. (e1 = 0 <=> e2 = 0) /\ (v1 = 0 <=> v2 = 0)
  <2>1. \A i \in Int : i = 0 <=> -i = 0
    OBVIOUS
  <2> QED
    BY <1>3, <1>4, <2>1
<1>9. CASE e1 # 0
  <2>1. e2 # 0
    BY <1>9, <1>8
  <2>2. PolicyOrder(v, w) = e1 /\ PolicyOrder(w, v) = e2
    BY <1>6, <1>7, <1>9, <2>1
  <2> QED
    BY <1>3, <2>2
<1>10. CASE e1 = 0 /\ v1 # 0
  <2>1. e2 = 0 /\ v2 # 0
    BY <1>10, <1>8
  <2>2. PolicyOrder(v, w) = v1 /\ PolicyOrder(w, v) = v2
    BY <1>6, <1>7, <1>10, <2>1
  <2> QED
    BY <1>4, <2>2
<1>11. CASE e1 = 0 /\ v1 = 0
  <2>1. e2 = 0 /\ v2 = 0
    BY <1>11, <1>8
  <2>2. PolicyOrder(v, w) = r1 /\ PolicyOrder(w, v) = r2
    BY <1>6, <1>7, <1>11, <2>1
  <2> QED
    BY <1>5, <2>2
<1> QED
  BY <1>9, <1>10, <1>11

\* For versions of any length, with epochs that an int can hold,
\* pkg_compare_versions_no_reinstall says which comes first as the policy does.
THEOREM OrderOfVersions ==
  ASSUME NEW v \in Version, NEW w \in Version, Fits(v), Fits(w)
  PROVE  /\ Sgn(CompareVersions(v, w)) = PolicyOrder(v, w)
         /\ Sgn(CompareVersions(w, v)) = -PolicyOrder(v, w)
<1>1. ASSUME NEW x \in Version, NEW y \in Version, Fits(x), Fits(y)
      PROVE  Sgn(CompareVersions(x, y)) = PolicyOrder(x, y)
  <2> DEFINE epochs    == ToInt((x.epoch - y.epoch) % LongSize)
             versions  == VerRevCmp(x.version, y.version)
             revisions == VerRevCmp(x.revision, y.revision)
             e == Sgn(x.epoch - y.epoch)
             p == Precedence(Weights(Text(x.version)), Weights(Text(y.version)))
             q == Precedence(Weights(Text(x.revision)), Weights(Text(y.revision)))
  <2>1. x.epoch \in Nat /\ y.epoch \in Nat
    BY DEF Version
  <2>2. /\ Text(x.version) \in Seq(Char) /\ Text(y.version) \in Seq(Char)
        /\ Text(x.revision) \in Seq(Char) /\ Text(y.revision) \in Seq(Char)
    BY DEF Version, Text
  <2>3. epochs = x.epoch - y.epoch
    BY <1>1, <2>1, EpochsDiffer DEF Fits
  <2>4. versions \in Int /\ Sgn(versions) = p
    BY <2>2, VerRevCmpIs, VerRevCmpDecides
  <2>5. revisions \in Int /\ Sgn(revisions) = q
    BY <2>2, VerRevCmpIs, VerRevCmpDecides
  <2>6. epochs \in Int /\ Sgn(epochs) = e
    BY <2>1, <2>3
  <2>7. CompareVersions(x, y) = CASE epochs # 0                 -> epochs
                                  [] epochs = 0 /\ versions # 0 -> versions
                                  [] OTHER                      -> revisions
    BY DEF CompareVersions
  <2>8. PolicyOrder(x, y) = CASE e # 0 -> e [] e = 0 /\ p # 0 -> p [] OTHER -> q
    BY DEF PolicyOrder
  <2> HIDE DEF epochs, versions, revisions, e, p, q
  <2>9. (epochs = 0 <=> e = 0) /\ (versions = 0 <=> p = 0)
    BY <2>4, <2>6, SgnIs
  <2>10. CASE epochs # 0
    BY <2>6, <2>7, <2>8, <2>9, <2>10
  <2>11. CASE epochs = 0 /\ versions # 0
    BY <2>4, <2>7, <2>8, <2>9, <2>11
  <2>12. CASE epochs = 0 /\ versions = 0
    <3>1. CompareVersions(x, y) = revisions /\ PolicyOrder(x, y) = q
      BY <2>7, <2>8, <2>9, <2>12
    <3> QED
      BY <2>5, <3>1
  <2> QED
    BY <2>10, <2>11, <2>12
<1>2. Sgn(CompareVersions(v, w)) = PolicyOrder(v, w)
  BY <1>1
<1>3. Sgn(CompareVersions(w, v)) = PolicyOrder(w, v)
  BY <1>1
<1> QED
  BY <1>2, <1>3, PolicyTurned

\* Which constraints such versions satisfy.
LEMMA SatisfiedIs ==
  ASSUME NEW v \in Version, NEW w \in Version, NEW o \in Int, Sgn(CompareVersions(v, w)) = o
  PROVE  {op \in Constraints : Satisfied(v, op, w)} =
           CASE o < 0 -> {"<<", "<="} [] o = 0 -> {"<=", "=", ">="} [] o > 0 -> {">=", ">>"}
<1> DEFINE c == CompareVersions(v, w)
<1>1. c \in Int
  BY CompareIs
<1>2. /\ Satisfied(v, "<<", w) <=> c < 0
      /\ Satisfied(v, "<=", w) <=> c <= 0
      /\ Satisfied(v, "=", w) <=> c = 0
      /\ Satisfied(v, ">=", w) <=> c >= 0
      /\ Satisfied(v, ">>", w) <=> c > 0
  BY DEF Satisfied
<1> HIDE DEF c
<1>3. (o < 0 <=> c < 0) /\ (o = 0 <=> c = 0) /\ (o > 0 <=> c > 0)
  <2>1. Sgn(c) = o
    BY DEF c
  <2>2. CASE c > 0
    BY <1>1, <2>1, <2>2, SgnIs
  <2>3. CASE c = 0
    BY <1>1, <2>1, <2>3, SgnIs
  <2>4. CASE c < 0
    BY <1>1, <2>1, <2>4, SgnIs
  <2> QED
    BY <1>1, <2>2, <2>3, <2>4
<1> DEFINE S == {op \in Constraints : Satisfied(v, op, w)}
<1>4. CASE o < 0
  <2>1. S = {"<<", "<="}
    BY <1>1, <1>2, <1>3, <1>4 DEF Constraints
  <2> QED
    BY <1>4, <2>1
<1>5. CASE o = 0
  <2>1. S = {"<=", "=", ">="}
    BY <1>1, <1>2, <1>3, <1>5 DEF Constraints
  <2> QED
    BY <1>5, <2>1
<1>6. CASE o > 0
  <2>1. S = {">=", ">>"}
    BY <1>1, <1>2, <1>3, <1>6 DEF Constraints
  <2> HIDE DEF S
  <2>2. ~(o < 0) /\ o # 0
    BY <1>6
  <2> QED
    BY <1>6, <2>1, <2>2 DEF S
<1> QED
  BY <1>4, <1>5, <1>6
=============================================================================
