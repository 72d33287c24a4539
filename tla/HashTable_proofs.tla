-------------------------- MODULE HashTable_proofs --------------------------
(***************************************************************************)
(* What hash_table.c does to a table of any keys and data, for every       *)
(* number of buckets and every hash: chains keep their shape, a key is     *)
(* found with what was last inserted under it and is not found once it has *)
(* been removed, other keys are not disturbed, and hash_table_foreach      *)
(* meets every key once.                                                   *)
(***************************************************************************)
EXTENDS HashTable, FoldTheorems

Entry(Key, Data) == [key : Key, data : Data] \cup {Vacant}

\* A chain of bucket b.
IsChain(c, b, Key, Data) ==
  /\ c \in Seq(Entry(Key, Data)) /\ Len(c) # 0
  /\ \A i \in 1..Len(c) : c[i].key = NoKey => Len(c) = 1
  /\ \A i \in 1..Len(c) : c[i].key # NoKey => Hash[c[i].key] = b
  /\ \A i, j \in 1..Len(c) : c[i].key = c[j].key => i = j

IsTable(t, Key, Data) ==
  /\ t \in [Bucket -> Seq(Entry(Key, Data))]
  /\ \A b \in Bucket : IsChain(t[b], b, Key, Data)

\* What a table is made for.
IsUse(Key, Data) ==
  /\ Buckets \in Nat /\ Hash \in [Key -> Bucket]
  /\ NoKey \notin Key /\ NoData \notin Data

LEMMA EntryIs ==
  ASSUME NEW Key, NEW Data, IsUse(Key, Data), NEW e \in Entry(Key, Data)
  PROVE  /\ e = [key |-> e.key, data |-> e.data]
         /\ e.key = NoKey => e = Vacant
         /\ e.key # NoKey => e.key \in Key /\ e.data \in Data
BY DEF IsUse, Entry, Vacant

\* Place finds the first entry with a key.
LEMMA PlaceIs ==
  ASSUME NEW S, NEW c \in Seq(S), NEW k
  PROVE  /\ Place(c, k) \in 0..Len(c)
         /\ Place(c, k) # 0 => c[Place(c, k)].key = k
         /\ \A i \in 1..Len(c) : c[i].key = k => Place(c, k) # 0 /\ Place(c, k) <= i
<1> DEFINE I == {i \in 1..Len(c) : c[i].key = k}
<1>1. Place(c, k) = IF I # {} THEN Min(I) ELSE 0
  BY DEF Place, SelectInSeq
<1>2. I \in SUBSET Nat /\ (I # {} => Min(I) \in I /\ \A m \in I : Min(I) <= m)
  BY MinOfSet
<1>3. Len(c) \in Nat
  OBVIOUS
<1>4. \A i \in I : i \in 1..Len(c) /\ c[i].key = k
  OBVIOUS
<1>5. \A i \in 1..Len(c) : c[i].key = k => i \in I
  OBVIOUS
<1> HIDE DEF I
<1>6. CASE I = {}
  BY <1>1, <1>3, <1>5, <1>6
<1>7. CASE I # {}
  <2>1. Place(c, k) \in I /\ \A i \in I : Place(c, k) <= i
    BY <1>1, <1>2, <1>7
  <2>2. Place(c, k) \in 1..Len(c) /\ c[Place(c, k)].key = k
    BY <1>4, <2>1
  <2> QED
    BY <1>3, <1>5, <2>1, <2>2
<1> QED
  BY <1>6, <1>7

LEMMA TableIsWellFormed ==
  ASSUME NEW Key, NEW Data, NEW t, IsTable(t, Key, Data)
  PROVE  WellFormed(t)
<1> SUFFICES ASSUME NEW b \in Bucket, NEW i \in DOMAIN t[b]
             PROVE  IF t[b][i].key = NoKey THEN Len(t[b]) = 1
                    ELSE Hash[t[b][i].key] = b /\ Place(t[b], t[b][i].key) = i
  BY DEF WellFormed
<1>1. IsChain(t[b], b, Key, Data) /\ i \in 1..Len(t[b])
  BY DEF IsTable
<1>2. Place(t[b], t[b][i].key) = i
  <2>1. t[b] \in Seq(Entry(Key, Data))
    BY <1>1 DEF IsChain
  <2> DEFINE p == Place(t[b], t[b][i].key)
  <2>2. p \in 0..Len(t[b]) /\ p # 0 /\ t[b][p].key = t[b][i].key
    BY <1>1, <2>1, PlaceIs
  <2> QED
    BY <1>1, <2>2 DEF IsChain
<1> QED
  BY <1>1, <1>2 DEF IsChain

\* Lookup finds the one entry with a key.
LEMMA LookupIs ==
  ASSUME NEW Key, NEW Data, IsUse(Key, Data), NEW t, IsTable(t, Key, Data), NEW k \in Key
  PROVE  /\ \A i \in 1..Len(t[Hash[k]]) :
              t[Hash[k]][i].key = k => Lookup(t, k) = t[Hash[k]][i].data /\ Lookup(t, k) \in Data
         /\ (\A i \in 1..Len(t[Hash[k]]) : t[Hash[k]][i].key # k) => Lookup(t, k) = NoData
         /\ Lookup(t, k) \in Data \cup {NoData}
<1> DEFINE c == t[Hash[k]]
           p == Place(c, k)
<1>1. Hash[k] \in Bucket /\ IsChain(c, Hash[k], Key, Data) /\ k # NoKey
  BY DEF IsUse, IsTable
<1>2. c \in Seq(Entry(Key, Data))
  BY <1>1 DEF IsChain
<1>3. /\ p \in 0..Len(c) /\ (p # 0 => c[p].key = k)
      /\ \A i \in 1..Len(c) : c[i].key = k => p # 0
  BY <1>2, PlaceIs
<1>4. Lookup(t, k) = IF p = 0 THEN NoData ELSE c[p].data
  BY DEF Lookup
<1>5. p # 0 => p \in 1..Len(c) /\ c[p].data \in Data
  <2>1. p # 0 => p \in 1..Len(c) /\ c[p] \in Entry(Key, Data)
    BY <1>2, <1>3
  <2> QED
    BY <1>1, <1>3, <2>1, EntryIs
<1>6. \A i \in 1..Len(c) : c[i].key = k => p = i
  BY <1>1, <1>3, <1>5 DEF IsChain
<1> HIDE DEF p
<1> QED
  BY <1>3, <1>4, <1>5, <1>6

\* hash_table_init
LEMMA NewTableIs ==
  ASSUME NEW Key, NEW Data, IsUse(Key, Data)
  PROVE  /\ IsTable(NewTable, Key, Data)
         /\ \A k \in Key : Lookup(NewTable, k) = NoData
<1>1. IsTable(NewTable, Key, Data)
  <2>1. <<Vacant>> \in Seq(Entry(Key, Data)) /\ Len(<<Vacant>>) = 1 /\ <<Vacant>>[1].key = NoKey
    BY DEF Entry, Vacant
  <2>2. \A b \in Bucket : IsChain(<<Vacant>>, b, Key, Data)
    BY <2>1 DEF IsChain
  <2> QED
    BY <2>1, <2>2 DEF IsTable, NewTable
<1>2. ASSUME NEW k \in Key PROVE Lookup(NewTable, k) = NoData
  <2>1. NewTable[Hash[k]] = <<Vacant>> /\ Vacant.key # k
    BY DEF IsUse, NewTable, Vacant
  <2> QED
    BY <1>1, <2>1, LookupIs
<1> QED
  BY <1>1, <1>2

\* A chain that takes the place of one in a table.
LEMMA ChainReplaced ==
  ASSUME NEW Key, NEW Data, IsUse(Key, Data), NEW t, IsTable(t, Key, Data),
         NEW b \in Bucket, NEW c, IsChain(c, b, Key, Data)
  PROVE  /\ IsTable([t EXCEPT ![b] = c], Key, Data)
         /\ \A k \in Key : Hash[k] # b => Lookup([t EXCEPT ![b] = c], k) = Lookup(t, k)
<1> DEFINE u == [t EXCEPT ![b] = c]
<1>1. c \in Seq(Entry(Key, Data))
  BY DEF IsChain
<1>2. u \in [Bucket -> Seq(Entry(Key, Data))] /\ u[b] = c /\ \A a \in Bucket : a # b => u[a] = t[a]
  BY <1>1 DEF IsTable
<1>3. IsTable(u, Key, Data)
  BY <1>2 DEF IsTable
<1>4. ASSUME NEW k \in Key, Hash[k] # b PROVE Lookup(u, k) = Lookup(t, k)
  <2>1. u[Hash[k]] = t[Hash[k]]
    BY <1>2, <1>4 DEF IsUse
  <2> QED
    BY <2>1 DEF Lookup
<1> QED
  BY <1>3, <1>4

\* Two chains with the same entries for a key.
SameFor(c, new, j) ==
  /\ \A l \in 1..Len(c) : c[l].key = j => \E q \in 1..Len(new) : new[q] = c[l]
  /\ \A q \in 1..Len(new) : new[q].key = j => \E l \in 1..Len(c) : new[q] = c[l]

\* Keys that a chain loses and gains by the side, keep what they have.
LEMMA OthersInChain ==
  ASSUME NEW Key, NEW Data, IsUse(Key, Data), NEW t, IsTable(t, Key, Data),
         NEW k \in Key, NEW c, IsChain(c, Hash[k], Key, Data), NEW j \in Key, j # k,
         SameFor(t[Hash[k]], c, j)
  PROVE  Lookup([t EXCEPT ![Hash[k]] = c], j) = Lookup(t, j)
<1> DEFINE b == Hash[k]
           u == [t EXCEPT ![b] = c]
<1> SUFFICES Lookup(u, j) = Lookup(t, j)
  OBVIOUS
<1>1. b \in Bucket /\ u[b] = c
  BY DEF IsUse, IsTable
<1>2. IsChain(c, b, Key, Data)
  OBVIOUS
<1> HIDE DEF b
<1>3. IsTable(u, Key, Data)
  BY <1>2, <1>1, ChainReplaced
<1>4. CASE Hash[j] # b
  BY <1>2, <1>1, <1>4, ChainReplaced
<1>5. CASE Hash[j] = b
  <2> USE DEF b
  <2>1. CASE \E l \in 1..Len(t[b]) : t[b][l].key = j
    <3>1. PICK l \in 1..Len(t[b]) : t[b][l].key = j
      BY <2>1
    <3>2. PICK q \in 1..Len(c) : c[q] = t[b][l]
      BY <3>1 DEF SameFor
    <3>3. Lookup(t, j) = t[b][l].data
      BY <1>5, <3>1, LookupIs
    <3> HIDE DEF u
    <3>4. Lookup(u, j) = c[q].data
      BY <1>1, <1>3, <1>5, <3>1, <3>2, LookupIs
    <3> QED
      BY <3>2, <3>3, <3>4
  <2>2. CASE \A l \in 1..Len(t[b]) : t[b][l].key # j
    <3>1. \A q \in 1..Len(c) : c[q].key # j
      BY <2>2 DEF SameFor
    <3>2. Lookup(t, j) = NoData
      BY <1>5, <2>2, LookupIs
    <3> HIDE DEF u
    <3>3. Lookup(u, j) = NoData
      BY <1>1, <1>3, <1>5, <3>1, LookupIs
    <3> QED
      BY <3>2, <3>3
  <2> QED
    BY <2>1, <2>2
<1> QED
  BY <1>4, <1>5

\* hash_table_insert
LEMMA InsertIs ==
  ASSUME NEW Key, NEW Data, IsUse(Key, Data), NEW t, IsTable(t, Key, Data),
         NEW k \in Key, NEW d \in Data
  PROVE  /\ IsTable(Insert(t, k, d), Key, Data)
         /\ \A j \in Key : Lookup(Insert(t, k, d), j) = IF j = k THEN d ELSE Lookup(t, j)
<1> DEFINE b == Hash[k]
           c == t[b]
           e == [key |-> k, data |-> d]
           p == Place(c, k)
           i == IF c[1].key = NoKey THEN 1 ELSE p
           new == IF i = 0 THEN Append(c, e) ELSE ReplaceAt(c, i, e)
           Kept == /\ IsChain(new, b, Key, Data)
                   /\ \E q \in 1..Len(new) : new[q] = e
                   /\ \A l \in 1..Len(c) : c[l].key \notin {NoKey, k} => \E q \in 1..Len(new) : new[q] = c[l]
                   /\ \A q \in 1..Len(new) : new[q].key = k \/ \E l \in 1..Len(c) : new[q] = c[l]
<1> HIDE DEF Kept
<1>1. b \in Bucket /\ IsChain(c, b, Key, Data) /\ k # NoKey
  BY DEF IsUse, IsTable
<1>2. /\ c \in Seq(Entry(Key, Data)) /\ Len(c) \in Nat /\ Len(c) >= 1
      /\ DOMAIN c = 1..Len(c)
  BY <1>1 DEF IsChain
<1>3. e \in Entry(Key, Data) /\ e.key = k /\ e.data = d
  BY DEF Entry
<1>4. /\ p \in 0..Len(c) /\ (p # 0 => c[p].key = k)
      /\ \A j \in 1..Len(c) : c[j].key = k => p # 0
  BY <1>2, PlaceIs
<1>5. Insert(t, k, d) = [t EXCEPT ![b] = new]
  BY DEF Insert
<1>6. /\ i \in 0..Len(c)
      /\ i = 0 => c[1].key # NoKey /\ \A j \in 1..Len(c) : c[j].key # k
      /\ i # 0 => c[i].key = k \/ (c[i].key = NoKey /\ Len(c) = 1)
  BY <1>1, <1>2, <1>4 DEF IsChain
<1>7. ASSUME i = 0 PROVE Kept
  <2>1. /\ new \in Seq(Entry(Key, Data)) /\ Len(new) = Len(c) + 1
        /\ \A j \in 1..Len(c) : new[j] = c[j]
        /\ new[Len(c) + 1] = e
    BY <1>2, <1>3, <1>7
  <2>2. \A j \in 1..Len(c) : c[j].key # NoKey /\ c[j].key # k
    <3>1. Len(c) = 1 => c[1].key # NoKey
      BY <1>6, <1>7
    <3> QED
      BY <1>1, <1>2, <1>6, <1>7, <3>1 DEF IsChain
  <2>3. \A j \in 1..Len(new) : j \in 1..Len(c) \/ (j = Len(c) + 1 /\ new[j].key = k)
    BY <1>2, <1>3, <2>1
  <2> HIDE DEF c, e, new, p, i
  <2>4. IsChain(new, b, Key, Data)
    <3>1. \A j \in 1..Len(new) : new[j].key # NoKey
      BY <1>1, <2>1, <2>2, <2>3
    <3>2. \A j \in 1..Len(new) : Hash[new[j].key] = b
      BY <1>1, <2>1, <2>2, <2>3 DEF IsChain, b
    <3>3. \A j, l \in 1..Len(new) : new[j].key = new[l].key => j = l
      BY <1>1, <2>1, <2>2, <2>3 DEF IsChain
    <3> QED
      BY <1>2, <2>1, <3>1, <3>2, <3>3 DEF IsChain
  <2>5. \E q \in 1..Len(new) : new[q] = e
    BY <1>2, <2>1
  <2>6. \A l \in 1..Len(c) : \E q \in 1..Len(new) : new[q] = c[l]
    BY <1>2, <2>1
  <2>7. \A q \in 1..Len(new) : new[q].key = k \/ \E l \in 1..Len(c) : new[q] = c[l]
    BY <2>1, <2>3
  <2>8. \A l \in 1..Len(c) : c[l].key \notin {NoKey, k} => \E q \in 1..Len(new) : new[q] = c[l]
    BY <2>6
  <2> QED
    BY <2>4, <2>5, <2>7, <2>8 DEF Kept
<1>8. ASSUME i # 0 PROVE Kept
  <2>1. /\ new \in Seq(Entry(Key, Data)) /\ Len(new) = Len(c)
        /\ \A j \in 1..Len(c) : new[j] = IF j = i THEN e ELSE c[j]
    BY <1>2, <1>3, <1>6, <1>8 DEF ReplaceAt
  <2>2. \A j \in 1..Len(c) : j # i => c[j].key # NoKey /\ c[j].key # k
    BY <1>1, <1>2, <1>6, <1>8 DEF IsChain
  <2>3. i \in 1..Len(c)
    BY <1>2, <1>6, <1>8
  <2> HIDE DEF c, e, new, p, i
  <2>4. IsChain(new, b, Key, Data)
    <3>1. \A j \in 1..Len(new) : new[j].key # NoKey
      BY <1>1, <1>3, <2>1, <2>2
    <3>2. \A j \in 1..Len(new) : Hash[new[j].key] = b
      BY <1>1, <1>3, <2>1, <2>2 DEF IsChain, b
    <3>3. \A j, l \in 1..Len(new) : new[j].key = new[l].key => j = l
      BY <1>1, <1>3, <2>1, <2>2 DEF IsChain
    <3> QED
      BY <1>2, <2>1, <3>1, <3>2, <3>3 DEF IsChain
  <2>5. \E q \in 1..Len(new) : new[q] = e
    BY <2>1, <2>3
  <2>6. \A l \in 1..Len(c) : c[l].key \notin {NoKey, k} => \E q \in 1..Len(new) : new[q] = c[l]
    BY <1>3, <1>6, <1>8, <2>1
  <2>7. \A q \in 1..Len(new) : new[q].key = k \/ \E l \in 1..Len(c) : new[q] = c[l]
    BY <1>3, <2>1
  <2> QED
    BY <2>4, <2>5, <2>6, <2>7 DEF Kept
<1> HIDE DEF new, i, p
<1>9. /\ IsChain(new, b, Key, Data)
      /\ \E q \in 1..Len(new) : new[q] = e
      /\ \A l \in 1..Len(c) : c[l].key \notin {NoKey, k} => \E q \in 1..Len(new) : new[q] = c[l]
      /\ \A q \in 1..Len(new) : new[q].key = k \/ \E l \in 1..Len(c) : new[q] = c[l]
  BY <1>7, <1>8 DEF Kept
<1>10. IsTable(Insert(t, k, d), Key, Data)
  <2>1. b \in Bucket /\ IsChain(new, b, Key, Data)
    BY <1>1, <1>9
  <2> HIDE DEF b, c
  <2>2. IsTable([t EXCEPT ![b] = new], Key, Data)
    BY <2>1, ChainReplaced
  <2> QED
    BY <1>5, <2>2
<1>11. Lookup(Insert(t, k, d), k) = d
  <2>1. PICK q \in 1..Len(new) : new[q] = e
    BY <1>9
  <2>2. Insert(t, k, d)[b] = new
    BY <1>1, <1>5 DEF IsTable
  <2> QED
    BY <1>3, <1>10, <2>1, <2>2, LookupIs
<1>12. ASSUME NEW j \in Key, j # k PROVE Lookup(Insert(t, k, d), j) = Lookup(t, j)
  <2>1. j # NoKey
    BY DEF IsUse
  <2>2. SameFor(c, new, j)
    BY <1>9, <1>12, <2>1 DEF SameFor
  <2>3. IsChain(new, Hash[k], Key, Data)
    BY <1>9
  <2>4. Lookup([t EXCEPT ![Hash[k]] = new], j) = Lookup(t, j)
    BY <1>12, <2>2, <2>3, OthersInChain
  <2> QED
    BY <1>5, <2>4
<1> QED
  BY <1>10, <1>11, <1>12

LEMMA RemoveAtIs ==
  ASSUME NEW S, NEW c \in Seq(S), NEW p \in 1..Len(c)
  PROVE  /\ RemoveAt(c, p) \in Seq(S) /\ Len(RemoveAt(c, p)) = Len(c) - 1
         /\ \A j \in 1..(Len(c) - 1) : RemoveAt(c, p)[j] = IF j < p THEN c[j] ELSE c[j + 1]
<1> DEFINE x == SubSeq(c, 1, p - 1)
           y == SubSeq(c, p + 1, Len(c))
<1>1. x \in Seq(S) /\ Len(x) = p - 1 /\ \A j \in 1..(p - 1) : x[j] = c[j]
  OBVIOUS
<1>2. y \in Seq(S) /\ Len(y) = Len(c) - p /\ \A j \in 1..(Len(c) - p) : y[j] = c[j + p]
  OBVIOUS
<1>3. RemoveAt(c, p) = x \o y
  BY DEF RemoveAt
<1>4. Len(c) \in Nat /\ p \in Nat
  OBVIOUS
<1> HIDE DEF x, y
<1>5. x \o y \in Seq(S) /\ Len(x \o y) = Len(c) - 1
  <2>1. x \in Seq(S) /\ y \in Seq(S)
    BY <1>1, <1>2
  <2>2. x \o y \in Seq(S) /\ Len(x \o y) = Len(x) + Len(y)
    BY <2>1
  <2>3. (p - 1) + (Len(c) - p) = Len(c) - 1
    BY <1>4
  <2> QED
    BY <1>1, <1>2, <2>2, <2>3
<1>6. ASSUME NEW j \in 1..(Len(c) - 1) PROVE (x \o y)[j] = IF j < p THEN c[j] ELSE c[j + 1]
  <2>1. CASE j < p
    BY <1>1, <1>2, <1>4, <2>1
  <2>2. CASE ~(j < p)
    <3>1. (x \o y)[j] = y[j - (p - 1)]
      BY <1>1, <1>2, <1>4, <2>2
    <3>2. j - (p - 1) \in 1..(Len(c) - p) /\ (j - (p - 1)) + p = j + 1
      BY <1>4, <2>2
    <3> QED
      BY <1>2, <2>2, <3>1, <3>2
  <2> QED
    BY <2>1, <2>2
<1> QED
  BY <1>3, <1>5, <1>6

\* hash_table_remove
LEMMA DeleteIs ==
  ASSUME NEW Key, NEW Data, IsUse(Key, Data), NEW t, IsTable(t, Key, Data), NEW k \in Key
  PROVE  /\ IsTable(Delete(t, k), Key, Data)
         /\ \A j \in Key : Lookup(Delete(t, k), j) = IF j = k THEN NoData ELSE Lookup(t, j)
<1> DEFINE b == Hash[k]
           c == t[b]
           p == Place(c, k)
<1>1. b \in Bucket /\ IsChain(c, b, Key, Data) /\ k # NoKey
  BY DEF IsUse, IsTable
<1>2. /\ c \in Seq(Entry(Key, Data)) /\ Len(c) \in Nat /\ Len(c) >= 1
      /\ DOMAIN c = 1..Len(c)
  BY <1>1 DEF IsChain
<1>3. /\ p \in 0..Len(c) /\ (p # 0 => c[p].key = k)
      /\ \A j \in 1..Len(c) : c[j].key = k => p # 0
  BY <1>2, PlaceIs
<1>4. CASE p = 0
  <2>1. Delete(t, k) = t
    BY <1>4 DEF Delete
  <2>2. Lookup(t, k) = NoData
    BY <1>3, <1>4, LookupIs
  <2> QED
    BY <2>1, <2>2
<1>5. CASE p # 0
  <2> DEFINE new == IF Len(c) = 1 THEN <<Vacant>> ELSE RemoveAt(c, p)
  <2>1. Delete(t, k) = [t EXCEPT ![b] = new]
    <3>1. Delete(t, k) = CASE p = 0                -> t
                           [] p # 0 /\ Len(c) = 1  -> [t EXCEPT ![b] = <<Vacant>>]
                           [] p # 0 /\ Len(c) > 1  -> [t EXCEPT ![b] = RemoveAt(c, p)]
      BY DEF Delete
    <3> HIDE DEF b, c, p
    <3>2. CASE Len(c) = 1
      BY <1>5, <3>1, <3>2
    <3>3. CASE Len(c) > 1
      <4>1. Len(c) # 1
        BY <1>2, <3>3
      <4> QED
        BY <1>5, <3>1, <3>3, <4>1
    <3> QED
      BY <1>2, <3>2, <3>3
  <2>2. p \in 1..Len(c) /\ c[p].key = k /\ \A j \in 1..Len(c) : c[j].key = k => j = p
    BY <1>1, <1>2, <1>3, <1>5 DEF IsChain
  <2>3. /\ IsChain(new, b, Key, Data)
        /\ \A q \in 1..Len(new) : new[q].key # k
        /\ \A l \in 1..Len(c) : c[l].key \notin {NoKey, k} => \E q \in 1..Len(new) : new[q] = c[l]
        /\ \A q \in 1..Len(new) : new[q].key = NoKey \/ \E l \in 1..Len(c) : new[q] = c[l]
    <3>1. CASE Len(c) = 1
      <4>1. /\ new = <<Vacant>> /\ new \in Seq(Entry(Key, Data)) /\ Len(new) = 1
            /\ \A q \in 1..Len(new) : q = 1 /\ new[q].key = NoKey
        BY <3>1 DEF Entry, Vacant
      <4>2. IsChain(new, b, Key, Data)
        BY <4>1 DEF IsChain
      <4>3. \A l \in 1..Len(c) : c[l].key = k
        BY <2>2, <3>1
      <4> QED
        BY <1>1, <4>1, <4>2, <4>3
    <3>2. CASE Len(c) # 1
      <4>1. /\ new \in Seq(Entry(Key, Data)) /\ Len(new) = Len(c) - 1
            /\ \A j \in 1..(Len(c) - 1) : new[j] = IF j < p THEN c[j] ELSE c[j + 1]
        BY <1>2, <2>2, <3>2, RemoveAtIs
      <4>2. \A j \in 1..Len(c) : c[j].key # NoKey
        BY <1>1, <3>2 DEF IsChain
      <4>3. Len(new) >= 1 /\ Len(new) \in Nat
        <5>1. Len(c) - 1 >= 1 /\ Len(c) - 1 \in Nat
          <6>1. \A n \in Nat : n >= 1 /\ n # 1 => n - 1 >= 1 /\ n - 1 \in Nat
            OBVIOUS
          <6> QED
            BY <1>2, <3>2, <6>1
        <5> QED
          BY <4>1, <5>1
      <4> DEFINE from(j) == IF j < p THEN j ELSE j + 1
      <4>4. \A j \in 1..Len(new) : from(j) \in 1..Len(c) /\ from(j) # p /\ new[j] = c[from(j)]
        BY <1>2, <2>2, <4>1
      <4>5. \A j, l \in 1..Len(new) : from(j) = from(l) => j = l
        BY <2>2, <4>3
      <4>6. \A l \in 1..Len(c) : l # p => \E j \in 1..Len(new) : from(j) = l
        <5> SUFFICES ASSUME NEW l \in 1..Len(c), l # p PROVE \E j \in 1..Len(new) : from(j) = l
          OBVIOUS
        <5>1. CASE l < p
          BY <1>2, <2>2, <4>1, <5>1
        <5>2. CASE l > p
          <6>1. l - 1 \in 1..Len(new) /\ from(l - 1) = l
            BY <1>2, <2>2, <4>1, <5>2
          <6> QED
            BY <6>1
        <5> QED
          BY <1>2, <2>2, <5>1, <5>2
      <4> HIDE DEF new, from, c, p
      <4>7. IsChain(new, b, Key, Data)
        <5>1. \A j \in 1..Len(new) : new[j].key # NoKey /\ Hash[new[j].key] = b
          BY <1>1, <4>2, <4>4 DEF IsChain
        <5>2. \A j, l \in 1..Len(new) : new[j].key = new[l].key => j = l
          BY <1>1, <4>4, <4>5 DEF IsChain
        <5> QED
          BY <4>1, <4>3, <5>1, <5>2 DEF IsChain
      <4>8. \A q \in 1..Len(new) : new[q].key # k
        BY <2>2, <4>4
      <4>9. \A l \in 1..Len(c) : c[l].key # k => \E q \in 1..Len(new) : new[q] = c[l]
        BY <2>2, <4>4, <4>6
      <4> QED
        BY <4>4, <4>7, <4>8, <4>9
    <3> QED
      BY <3>1, <3>2
  <2> HIDE DEF new, p
  <2>4. IsTable(Delete(t, k), Key, Data)
    <3>1. b \in Bucket /\ IsChain(new, b, Key, Data)
      BY <1>1, <2>3
    <3>2. IsTable([t EXCEPT ![b] = new], Key, Data)
      <4> HIDE DEF b
      <4> QED
        BY <3>1, ChainReplaced
    <3> QED
      BY <2>1, <3>2
  <2>5. Lookup(Delete(t, k), k) = NoData
    <3>1. Delete(t, k)[b] = new
      BY <1>1, <2>1 DEF IsTable
    <3> QED
      BY <2>3, <2>4, <3>1, LookupIs
  <2>6. ASSUME NEW j \in Key, j # k PROVE Lookup(Delete(t, k), j) = Lookup(t, j)
    <3>1. j # NoKey
      BY DEF IsUse
    <3>2. SameFor(c, new, j)
      BY <2>3, <2>6, <3>1 DEF SameFor
    <3>3. IsChain(new, b, Key, Data)
      BY <2>3
    <3>4. Lookup([t EXCEPT ![Hash[k]] = new], j) = Lookup(t, j)
      BY <2>6, <3>2, <3>3, OthersInChain
    <3> QED
      BY <2>1, <3>4
  <2> QED
    BY <2>4, <2>5, <2>6
<1> QED
  BY <1>4, <1>5

\* What hash_table_foreach meets of one chain.
Listed(c) == FlattenSeq([i \in DOMAIN c |-> IF c[i].key = NoKey THEN <<>> ELSE <<c[i]>>])

IsListing(l, c, Key, Data) ==
  /\ l \in Seq([key : Key, data : Data])
  /\ \A k \in 1..Len(l) : \E i \in 1..Len(c) : l[k] = c[i]
  /\ \A i \in 1..Len(c) : c[i].key # NoKey => \E k \in 1..Len(l) : l[k] = c[i]
  /\ \A k, m \in 1..Len(l) : l[k].key = l[m].key => k = m

LEMMA ListedIs ==
  ASSUME NEW Key, NEW Data, IsUse(Key, Data), NEW b, NEW c, IsChain(c, b, Key, Data)
  PROVE  IsListing(Listed(c), c, Key, Data)
<1> DEFINE E == [key : Key, data : Data]
           s == [i \in DOMAIN c |-> IF c[i].key = NoKey THEN <<>> ELSE <<c[i]>>]
           all == FlattenSeq(s)
<1>1. c \in Seq(Entry(Key, Data)) /\ Len(c) \in Nat /\ DOMAIN c = 1..Len(c)
  BY DEF IsChain
<1>2. \A i \in 1..Len(c) : c[i].key # NoKey => c[i] \in E
  <2> SUFFICES ASSUME NEW i \in 1..Len(c), c[i].key # NoKey PROVE c[i] \in E
    OBVIOUS
  <2>1. c[i] \in Entry(Key, Data)
    BY <1>1
  <2> QED
    BY <2>1 DEF Entry, Vacant
<1> HIDE DEF E
<1>3. s \in Seq(Seq(E)) /\ Len(s) = Len(c) /\ DOMAIN s = 1..Len(c)
  <2>1. \A i \in 1..Len(c) : s[i] \in Seq(E)
    BY <1>1, <1>2
  <2> QED
    BY <1>1, <2>1
<1>4. \A i \in 1..Len(c) : \A j \in DOMAIN s[i] : j = 1 /\ c[i].key # NoKey /\ s[i][j] = c[i]
  BY <1>1
<1>5. \A i \in 1..Len(c) : c[i].key # NoKey => 1 \in DOMAIN s[i]
  BY <1>1
<1> HIDE DEF s
<1>6. all \in Seq(E) /\ \E x, y : Flattened(s, all, x, y)
  BY <1>3, FlattenSeqPlaces
<1>7. PICK x, y : Flattened(s, all, x, y)
  BY <1>6
<1>8. DOMAIN all = 1..Len(all)
  BY <1>6
<1> HIDE DEF all
<1>9. \A k \in 1..Len(all) : x[k] \in 1..Len(c) /\ y[k] = 1 /\ all[k] = c[x[k]]
  BY <1>3, <1>4, <1>7, <1>8 DEF Flattened, FlattenedUpto
<1>10. \A i \in 1..Len(c) : c[i].key # NoKey => \E k \in 1..Len(all) : x[k] = i
  BY <1>3, <1>5, <1>7, <1>8 DEF Flattened, FlattenedUpto
<1>11. \A k, l \in 1..Len(all) : x[k] = x[l] => k = l
  BY <1>7, <1>8, <1>9 DEF Flattened, FlattenedUpto
<1>12. Listed(c) = all
  BY DEF Listed, s, all
<1>13. \A k, l \in 1..Len(all) : all[k].key = all[l].key => k = l
  BY <1>9, <1>11 DEF IsChain
<1>14. \A i \in 1..Len(c) : c[i].key # NoKey => \E k \in 1..Len(all) : all[k] = c[i]
  BY <1>9, <1>10
<1>15. \A k \in 1..Len(all) : \E i \in 1..Len(c) : all[k] = c[i]
  BY <1>9
<1> QED
  BY <1>6, <1>12, <1>13, <1>14, <1>15 DEF E, IsListing

\* hash_table_foreach
LEMMA EntriesIs ==
  ASSUME NEW Key, NEW Data, IsUse(Key, Data), NEW t, IsTable(t, Key, Data)
  PROVE  /\ Entries(t) \in Seq([key : Key, data : Data])
         /\ \A n \in 1..Len(Entries(t)) : Lookup(t, Entries(t)[n].key) = Entries(t)[n].data
         /\ \A k \in Key : Lookup(t, k) # NoData => \E n \in 1..Len(Entries(t)) : Entries(t)[n].key = k
         /\ \A m, n \in 1..Len(Entries(t)) : Entries(t)[m].key = Entries(t)[n].key => m = n
<1> DEFINE E == [key : Key, data : Data]
           s == [b \in Bucket |-> Listed(t[b])]
           all == FlattenSeq(s)
<1>1. \A b \in Bucket : IsChain(t[b], b, Key, Data)
  BY DEF IsTable
<1>2. \A b \in Bucket : IsListing(s[b], t[b], Key, Data)
  BY <1>1, ListedIs
<1>3. \A b \in Bucket : s[b] \in Seq(E)
  BY <1>2 DEF IsListing
<1>4. \A b \in Bucket : \A i \in 1..Len(t[b]) :
         t[b][i].key # NoKey => \E k \in 1..Len(s[b]) : s[b][k] = t[b][i]
  BY <1>2 DEF IsListing
<1>5. \A b \in Bucket : \A k \in 1..Len(s[b]) : \E i \in 1..Len(t[b]) : s[b][k] = t[b][i]
  BY <1>2 DEF IsListing
<1>6. \A b \in Bucket : \A k, l \in 1..Len(s[b]) : s[b][k].key = s[b][l].key => k = l
  BY <1>2 DEF IsListing
<1>7. Entries(t) = all
  BY DEF Entries, Listed
<1>8. DOMAIN s = Bucket /\ Bucket = 1..Buckets /\ Buckets \in Nat
  BY DEF Bucket, IsUse
<1> HIDE DEF s, E
<1>9. s \in Seq(Seq(E)) /\ Len(s) = Buckets
  <2>1. s = [b \in 1..Buckets |-> s[b]]
    BY <1>8 DEF s
  <2> QED
    BY <1>3, <1>8, <2>1
<1>10. all \in Seq(E) /\ \E x, y : Flattened(s, all, x, y)
  BY <1>9, FlattenSeqPlaces
<1>11. PICK x, y : Flattened(s, all, x, y)
  BY <1>10
<1>12. DOMAIN all = 1..Len(all)
  BY <1>10
<1> HIDE DEF all
<1>13. \A n \in 1..Len(all) : x[n] \in Bucket /\ y[n] \in 1..Len(s[x[n]]) /\ all[n] = s[x[n]][y[n]]
  <2>1. \A n \in 1..Len(all) : x[n] \in Bucket /\ y[n] \in DOMAIN s[x[n]] /\ all[n] = s[x[n]][y[n]]
    BY <1>8, <1>9, <1>11, <1>12 DEF Flattened, FlattenedUpto
  <2>2. \A b \in Bucket : DOMAIN s[b] = 1..Len(s[b])
    BY <1>3
  <2> QED
    BY <2>1, <2>2
<1>14. \A n \in 1..Len(all) : all[n].key \in Key /\ all[n].key # NoKey
  <2>1. \A n \in 1..Len(all) : all[n] \in E
    BY <1>10
  <2> QED
    BY <2>1 DEF IsUse, E
<1>15. \A n \in 1..Len(all) : \E i \in 1..Len(t[x[n]]) : all[n] = t[x[n]][i]
  <2> SUFFICES ASSUME NEW n \in 1..Len(all) PROVE \E i \in 1..Len(t[x[n]]) : all[n] = t[x[n]][i]
    OBVIOUS
  <2> DEFINE b == x[n]
             k == y[n]
  <2>1. b \in Bucket /\ k \in 1..Len(s[b]) /\ all[n] = s[b][k]
    BY <1>13
  <2> HIDE DEF b, k
  <2>2. \E i \in 1..Len(t[b]) : s[b][k] = t[b][i]
    BY <1>5, <2>1
  <2>3. \E i \in 1..Len(t[b]) : all[n] = t[b][i]
    BY <2>1, <2>2
  <2> QED
    BY <2>3 DEF b
<1>16. \A n \in 1..Len(all) : x[n] = Hash[all[n].key] /\ Lookup(t, all[n].key) = all[n].data
  <2> SUFFICES ASSUME NEW n \in 1..Len(all)
               PROVE  x[n] = Hash[all[n].key] /\ Lookup(t, all[n].key) = all[n].data
    OBVIOUS
  <2>1. PICK i \in 1..Len(t[x[n]]) : all[n] = t[x[n]][i]
    BY <1>15
  <2>2. x[n] \in Bucket /\ all[n].key \in Key /\ all[n].key # NoKey
    BY <1>13, <1>14
  <2>3. IsChain(t[x[n]], x[n], Key, Data)
    BY <1>1, <2>2
  <2>4. Hash[all[n].key] = x[n]
    BY <2>1, <2>2, <2>3 DEF IsChain
  <2> QED
    BY <2>1, <2>2, <2>4, LookupIs
<1>17. ASSUME NEW k \in Key, Lookup(t, k) # NoData PROVE \E n \in 1..Len(all) : all[n].key = k
  <2>1. PICK i \in 1..Len(t[Hash[k]]) : t[Hash[k]][i].key = k
    BY <1>17, LookupIs
  <2>2. Hash[k] \in Bucket /\ k # NoKey
    BY DEF IsUse
  <2>3. PICK j \in 1..Len(s[Hash[k]]) : s[Hash[k]][j] = t[Hash[k]][i]
    BY <1>4, <2>1, <2>2
  <2>4. j \in DOMAIN s[Hash[k]]
    BY <1>3, <2>2
  <2>5. PICK n \in 1..Len(all) : x[n] = Hash[k] /\ y[n] = j
    <3>1. FlattenedUpto(Buckets, s, all, x, y)
      BY <1>9, <1>11 DEF Flattened
    <3>2. \A m \in 1..Buckets : \A l \in DOMAIN s[m] : \E n \in DOMAIN all : x[n] = m /\ y[n] = l
      BY <3>1 DEF FlattenedUpto
    <3>3. Hash[k] \in 1..Buckets /\ j \in DOMAIN s[Hash[k]]
      BY <1>8, <2>2, <2>4
    <3>4. \E n \in DOMAIN all : x[n] = Hash[k] /\ y[n] = j
      BY <3>2, <3>3
    <3> QED
      BY <1>12, <3>4
  <2> QED
    BY <1>13, <2>1, <2>3, <2>5
<1>18. ASSUME NEW m \in 1..Len(all), NEW n \in 1..Len(all), all[m].key = all[n].key PROVE m = n
  <2>1. x[m] = x[n]
    BY <1>16, <1>18
  <2> DEFINE b == x[m]
  <2>2. b \in Bucket /\ y[m] \in 1..Len(s[b]) /\ all[m] = s[b][y[m]]
    BY <1>13
  <2>3. y[n] \in 1..Len(s[b]) /\ all[n] = s[b][y[n]]
    BY <1>13, <2>1
  <2> HIDE DEF b
  <2>4. y[m] = y[n]
    BY <1>18, <1>6, <2>2, <2>3
  <2> QED
    BY <1>11, <1>12, <2>1, <2>4 DEF Flattened, FlattenedUpto
<1> QED
  BY <1>7, <1>10, <1>16, <1>17, <1>18 DEF E
=============================================================================
