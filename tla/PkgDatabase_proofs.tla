------------------------ MODULE PkgDatabase_proofs --------------------------
(***************************************************************************)
(* DatabaseInv, OwnersMatch and VersionOrder, for any lists, names, files, *)
(* versions and hashes.                                                    *)
(***************************************************************************)
EXTENDS PkgDatabase, Versions_proofs

Ensures == INSTANCE FoldTheorems WITH Op <- Ensured

PT == INSTANCE HashTable_proofs WITH Hash <- NameHash
FT == INSTANCE HashTable_proofs WITH Hash <- FileHash

(***************************************************************************)
(* The two tables.                                                         *)
(***************************************************************************)
PkgTableInv(t)  == PT!IsTable(t, Names, Seq(Record))
FileTableInv(t) == FT!IsTable(t, File, Reference)

LEMMA TableUse ==
  /\ PT!IsUse(Names, Seq(Record)) /\ FT!IsUse(File, Reference)
BY TableAssumption DEF PT!IsUse, FT!IsUse, PT!Bucket, FT!Bucket

LEMMA SamePkgTable ==
  /\ PkgTable!NewTable = PT!NewTable
  /\ \A t, k : PkgTable!Lookup(t, k) = PT!Lookup(t, k)
  /\ \A t, k, d : PkgTable!Insert(t, k, d) = PT!Insert(t, k, d)
  /\ \A t : PkgTable!Entries(t) = PT!Entries(t)
  /\ \A t : PkgTable!WellFormed(t) <=> PT!WellFormed(t)
<1>1. \A c, k : PkgTable!Place(c, k) = PT!Place(c, k)
  BY DEF PkgTable!Place, PT!Place, PkgTable!SelectInSeq, PT!SelectInSeq, PkgTable!Min, PT!Min
<1>2. PkgTable!Bucket = PT!Bucket /\ PkgTable!Vacant = PT!Vacant
  BY DEF PkgTable!Bucket, PT!Bucket, PkgTable!Vacant, PT!Vacant
<1>3. PkgTable!NewTable = PT!NewTable
  BY <1>2 DEF PkgTable!NewTable, PT!NewTable
<1>4. \A t, k : PkgTable!Lookup(t, k) = PT!Lookup(t, k)
  BY <1>1 DEF PkgTable!Lookup, PT!Lookup
<1>5. \A t, k, d : PkgTable!Insert(t, k, d) = PT!Insert(t, k, d)
  BY <1>1 DEF PkgTable!Insert, PT!Insert, PkgTable!ReplaceAt, PT!ReplaceAt
<1>6. \A t : PkgTable!Entries(t) = PT!Entries(t)
  <2>1. \A s : PkgTable!FlattenSeq(s) = PT!FlattenSeq(s)
    BY DEF PkgTable!FlattenSeq, PT!FlattenSeq
  <2> QED
    BY <1>2, <2>1 DEF PkgTable!Entries, PT!Entries
<1>7. \A t : PkgTable!WellFormed(t) <=> PT!WellFormed(t)
  BY <1>1, <1>2 DEF PkgTable!WellFormed, PT!WellFormed
<1> QED
  BY <1>3, <1>4, <1>5, <1>6, <1>7

LEMMA SameFileTable ==
  /\ FileTable!NewTable = FT!NewTable
  /\ \A t, k : FileTable!Lookup(t, k) = FT!Lookup(t, k)
  /\ \A t, k, d : FileTable!Insert(t, k, d) = FT!Insert(t, k, d)
  /\ \A t, k : FileTable!Delete(t, k) = FT!Delete(t, k)
  /\ \A t : FileTable!WellFormed(t) <=> FT!WellFormed(t)
<1>1. \A c, k : FileTable!Place(c, k) = FT!Place(c, k)
  BY DEF FileTable!Place, FT!Place, FileTable!SelectInSeq, FT!SelectInSeq, FileTable!Min, FT!Min
<1>2. FileTable!Bucket = FT!Bucket /\ FileTable!Vacant = FT!Vacant
  BY DEF FileTable!Bucket, FT!Bucket, FileTable!Vacant, FT!Vacant
<1>3. FileTable!NewTable = FT!NewTable
  BY <1>2 DEF FileTable!NewTable, FT!NewTable
<1>4. \A t, k : FileTable!Lookup(t, k) = FT!Lookup(t, k)
  BY <1>1 DEF FileTable!Lookup, FT!Lookup
<1>5. \A t, k, d : FileTable!Insert(t, k, d) = FT!Insert(t, k, d)
  BY <1>1 DEF FileTable!Insert, FT!Insert, FileTable!ReplaceAt, FT!ReplaceAt
<1>6. \A t, k : FileTable!Delete(t, k) = FT!Delete(t, k)
  BY <1>1, <1>2 DEF FileTable!Delete, FT!Delete, FileTable!RemoveAt, FT!RemoveAt
<1>7. \A t : FileTable!WellFormed(t) <=> FT!WellFormed(t)
  BY <1>1, <1>2 DEF FileTable!WellFormed, FT!WellFormed
<1> QED
  BY <1>3, <1>4, <1>5, <1>6, <1>7

LEMMA VecIs ==
  ASSUME NEW t, PkgTableInv(t), NEW n \in Names
  PROVE  Vec(t, n) \in Seq(Record)
<1>1. PkgTable!Lookup(t, n) \in Seq(Record) \cup {NoData}
  BY TableUse, SamePkgTable, PT!LookupIs DEF PkgTableInv
<1>2. <<>> \in Seq(Record)
  OBVIOUS
<1> QED
  BY <1>1, <1>2 DEF Vec

LEMMA NewPkgTableIs ==
  /\ PkgTableInv(PkgTable!NewTable)
  /\ \A n \in Names : Vec(PkgTable!NewTable, n) = <<>>
<1>1. /\ PT!IsTable(PT!NewTable, Names, Seq(Record))
      /\ \A n \in Names : PT!Lookup(PT!NewTable, n) = NoData
  BY TableUse, PT!NewTableIs
<1> QED
  BY <1>1, SamePkgTable DEF PkgTableInv, Vec

HasVec(u, t, n, vec) ==
  PkgTableInv(u) /\ \A m \in Names : Vec(u, m) = IF m = n THEN vec ELSE Vec(t, m)

LEMMA PkgInsertIs ==
  ASSUME NEW t, PkgTableInv(t), NEW n \in Names, NEW vec \in Seq(Record)
  PROVE  HasVec(PkgTable!Insert(t, n, vec), t, n, vec)
<1> DEFINE u == PkgTable!Insert(t, n, vec)
<1>1. u = PT!Insert(t, n, vec)
  BY SamePkgTable
<1>2. /\ PT!IsTable(u, Names, Seq(Record))
      /\ \A m \in Names : PT!Lookup(u, m) = IF m = n THEN vec ELSE PT!Lookup(t, m)
  BY <1>1, TableUse, PT!InsertIs DEF PkgTableInv
<1> HIDE DEF u
<1>3. \A m \in Names : PkgTable!Lookup(u, m) = IF m = n THEN vec ELSE PkgTable!Lookup(t, m)
  BY <1>2, SamePkgTable
<1>4. vec # NoData
  BY TableAssumption
<1>5. \A m \in Names : Vec(u, m) = IF m = n THEN vec ELSE Vec(t, m)
  BY <1>3, <1>4 DEF Vec
<1> QED
  BY <1>2, <1>5 DEF PkgTableInv, HasVec, u

LEMMA FileTableIs ==
  /\ FileTableInv(FileTable!NewTable)
  /\ \A f \in File : FileTable!Lookup(FileTable!NewTable, f) = NoData
  /\ \A t : FileTableInv(t) => \A f \in File : FileTable!Lookup(t, f) \in Reference \cup {NoData}
<1>1. /\ FT!IsTable(FT!NewTable, File, Reference)
      /\ \A f \in File : FT!Lookup(FT!NewTable, f) = NoData
  BY TableUse, FT!NewTableIs
<1>2. \A t : FT!IsTable(t, File, Reference) => \A f \in File : FT!Lookup(t, f) \in Reference \cup {NoData}
  BY TableUse, FT!LookupIs
<1> QED
  BY <1>1, <1>2, SameFileTable DEF FileTableInv

LEMMA FileInsertIs ==
  ASSUME NEW t, FileTableInv(t), NEW f \in File, NEW p \in Reference
  PROVE  /\ FileTableInv(FileTable!Insert(t, f, p))
         /\ \A g \in File : FileTable!Lookup(FileTable!Insert(t, f, p), g) =
                              IF g = f THEN p ELSE FileTable!Lookup(t, g)
<1>1. /\ FT!IsTable(FT!Insert(t, f, p), File, Reference)
      /\ \A g \in File : FT!Lookup(FT!Insert(t, f, p), g) = IF g = f THEN p ELSE FT!Lookup(t, g)
  BY TableUse, FT!InsertIs DEF FileTableInv
<1> QED
  BY <1>1, SameFileTable DEF FileTableInv

LEMMA FileDeleteIs ==
  ASSUME NEW t, FileTableInv(t), NEW f \in File
  PROVE  /\ FileTableInv(FileTable!Delete(t, f))
         /\ \A g \in File : FileTable!Lookup(FileTable!Delete(t, f), g) =
                              IF g = f THEN NoData ELSE FileTable!Lookup(t, g)
<1>1. /\ FT!IsTable(FT!Delete(t, f), File, Reference)
      /\ \A g \in File : FT!Lookup(FT!Delete(t, f), g) = IF g = f THEN NoData ELSE FT!Lookup(t, g)
  BY TableUse, FT!DeleteIs DEF FileTableInv
<1> QED
  BY <1>1, SameFileTable DEF FileTableInv

LEMMA TablesAreWellFormed ==
  /\ \A t : PkgTableInv(t) => PkgTable!WellFormed(t)
  /\ \A t : FileTableInv(t) => FileTable!WellFormed(t)
BY SamePkgTable, SameFileTable, PT!TableIsWellFormed, FT!TableIsWellFormed
   DEF PkgTableInv, FileTableInv

(***************************************************************************)
(* pkg_hash_fetch_available lists all records, each once.                  *)
(***************************************************************************)
IsPlaced(t, p) == p.name \in Names /\ p.place \in 1..Len(Vec(t, p.name)) /\ p \in Reference

LEMMA PointersIs ==
  ASSUME NEW t, PkgTableInv(t)
  PROVE  /\ Pointers(t) \in Seq(Reference)
         /\ \A i \in 1..Len(Pointers(t)) : IsPlaced(t, Pointers(t)[i])
         /\ \A p \in Reference : IsPlaced(t, p) => \E i \in 1..Len(Pointers(t)) : Pointers(t)[i] = p
         /\ \A i, j \in 1..Len(Pointers(t)) : Pointers(t)[i] = Pointers(t)[j] => i = j
<1> DEFINE entries == PkgTable!Entries(t)
           s == [i \in DOMAIN entries |->
                  [j \in DOMAIN entries[i].data |-> [name |-> entries[i].key, place |-> j]]]
           all == FlattenSeq(s)
<1>1. entries = PT!Entries(t)
  BY SamePkgTable
<1>2. /\ entries \in Seq([key : Names, data : Seq(Record)])
      /\ \A n \in 1..Len(entries) : PT!Lookup(t, entries[n].key) = entries[n].data
      /\ \A k \in Names : PT!Lookup(t, k) # NoData => \E n \in 1..Len(entries) : entries[n].key = k
      /\ \A m, n \in 1..Len(entries) : entries[m].key = entries[n].key => m = n
  <2>1. PT!IsUse(Names, Seq(Record)) /\ PT!IsTable(t, Names, Seq(Record))
    BY TableUse DEF PkgTableInv
  <2>2. /\ PT!Entries(t) \in Seq([key : Names, data : Seq(Record)])
        /\ \A n \in 1..Len(PT!Entries(t)) : PT!Lookup(t, PT!Entries(t)[n].key) = PT!Entries(t)[n].data
        /\ \A k \in Names : PT!Lookup(t, k) # NoData =>
             \E n \in 1..Len(PT!Entries(t)) : PT!Entries(t)[n].key = k
        /\ \A m, n \in 1..Len(PT!Entries(t)) : PT!Entries(t)[m].key = PT!Entries(t)[n].key => m = n
    BY <2>1, PT!EntriesIs
  <2> HIDE DEF entries
  <2> QED
    BY <1>1, <2>2
<1> HIDE DEF entries
<1>3. DOMAIN entries = 1..Len(entries) /\ Len(entries) \in Nat
  BY <1>2
<1>4. \A n \in 1..Len(entries) :
        /\ entries[n].key \in Names /\ entries[n].data \in Seq(Record)
        /\ entries[n].data = Vec(t, entries[n].key)
  <2> SUFFICES ASSUME NEW n \in 1..Len(entries)
               PROVE  /\ entries[n].key \in Names /\ entries[n].data \in Seq(Record)
                      /\ entries[n].data = Vec(t, entries[n].key)
    OBVIOUS
  <2>1. entries[n] \in [key : Names, data : Seq(Record)]
    <3> DEFINE R == [key : Names, data : Seq(Record)]
    <3>1. entries \in Seq(R)
      BY <1>2
    <3> HIDE DEF R
    <3>2. entries[n] \in R
      BY <3>1
    <3> QED
      BY <3>2 DEF R
  <2>2. entries[n].key \in Names /\ entries[n].data \in Seq(Record)
    BY <2>1
  <2>3. PkgTable!Lookup(t, entries[n].key) = entries[n].data
    BY <1>2, SamePkgTable
  <2>4. entries[n].data # NoData
    BY <2>2, TableAssumption
  <2> QED
    BY <2>2, <2>3, <2>4 DEF Vec
<1>5. \A k \in Names : Len(Vec(t, k)) # 0 => \E n \in 1..Len(entries) : entries[n].key = k
  <2> SUFFICES ASSUME NEW k \in Names, PT!Lookup(t, k) = NoData PROVE Len(Vec(t, k)) = 0
    BY <1>2
  <2>1. PkgTable!Lookup(t, k) = NoData
    BY SamePkgTable
  <2> QED
    BY <2>1 DEF Vec
<1>6. s \in Seq(Seq(Reference)) /\ Len(s) = Len(entries)
  <2>1. ASSUME NEW n \in 1..Len(entries) PROVE s[n] \in Seq(Reference)
    <3> DEFINE d == entries[n].data
               k == entries[n].key
    <3>1. d \in Seq(Record) /\ k \in Names
      BY <1>4
    <3> HIDE DEF d, k
    <3>2. [j \in DOMAIN d |-> [name |-> k, place |-> j]] \in Seq(Reference)
      <4>1. DOMAIN d = 1..Len(d) /\ Len(d) \in Nat
        BY <3>1
      <4>2. \A j \in 1..Len(d) : [name |-> k, place |-> j] \in Reference
        BY <3>1, <4>1 DEF Reference
      <4> QED
        BY <4>1, <4>2
    <3> QED
      BY <1>3, <3>2 DEF d, k
  <2> QED
    BY <1>3, <2>1
<1>7. \A n \in 1..Len(entries) : DOMAIN s[n] = 1..Len(entries[n].data)
  BY <1>3, <1>4
<1>8. \A n \in 1..Len(entries) : \A j \in DOMAIN s[n] : s[n][j] = [name |-> entries[n].key, place |-> j]
  BY <1>3
<1> HIDE DEF s
<1>9. all \in Seq(Reference) /\ \E x, y : Flattened(s, all, x, y)
  BY <1>6, FlattenSeqPlaces
<1>10. PICK x, y : Flattened(s, all, x, y)
  BY <1>9
<1>11. Pointers(t) = all
  BY DEF Pointers, s, entries
<1>12. DOMAIN all = 1..Len(all)
  BY <1>9
<1> HIDE DEF all
<1>13. FlattenedUpto(Len(entries), s, all, x, y)
  BY <1>6, <1>10 DEF Flattened
<1>14. \A i \in 1..Len(all) :
         x[i] \in 1..Len(entries) /\ y[i] \in DOMAIN s[x[i]] /\ all[i] = s[x[i]][y[i]]
  BY <1>12, <1>13 DEF FlattenedUpto
<1>15. \A i \in 1..Len(all) : all[i] = [name |-> entries[x[i]].key, place |-> y[i]]
  BY <1>8, <1>14
<1>16. \A i \in 1..Len(all) : all[i].name = entries[x[i]].key /\ all[i].place = y[i]
  <2> SUFFICES ASSUME NEW i \in 1..Len(all)
               PROVE  all[i].name = entries[x[i]].key /\ all[i].place = y[i]
    OBVIOUS
  <2>1. all[i] = [name |-> entries[x[i]].key, place |-> y[i]]
    BY <1>15
  <2> QED
    BY <2>1
<1>17. ASSUME NEW i \in 1..Len(all) PROVE IsPlaced(t, all[i])
  <2> DEFINE n == x[i]
  <2>1. n \in 1..Len(entries) /\ y[i] \in DOMAIN s[n]
    BY <1>14
  <2>2. all[i].name = entries[n].key /\ all[i].place = y[i]
    BY <1>16
  <2> HIDE DEF n
  <2>3. y[i] \in 1..Len(Vec(t, entries[n].key)) /\ entries[n].key \in Names
    BY <1>4, <1>7, <2>1
  <2> QED
    BY <1>9, <2>2, <2>3 DEF IsPlaced
<1>18. ASSUME NEW p \in Reference, IsPlaced(t, p) PROVE \E i \in 1..Len(all) : all[i] = p
  <2>1. p.name \in Names /\ p.place \in 1..Len(Vec(t, p.name))
    BY <1>18 DEF IsPlaced
  <2>2. Len(Vec(t, p.name)) # 0
    <3>1. Len(Vec(t, p.name)) \in Nat
      BY <2>1, VecIs
    <3> QED
      BY <2>1, <3>1
  <2>3. PICK n \in 1..Len(entries) : entries[n].key = p.name
    BY <1>5, <2>1, <2>2
  <2>4. p.place \in DOMAIN s[n]
    BY <1>4, <1>7, <2>1, <2>3
  <2>5. PICK i \in DOMAIN all : x[i] = n /\ y[i] = p.place
    BY <1>13, <2>4 DEF FlattenedUpto
  <2>6. i \in 1..Len(all) /\ all[i] = [name |-> p.name, place |-> p.place]
    BY <1>12, <1>15, <2>3, <2>5
  <2> QED
    BY <2>6 DEF Reference
<1>19. ASSUME NEW i \in 1..Len(all), NEW j \in 1..Len(all), all[i] = all[j] PROVE i = j
  <2>1. all[i].name = entries[x[i]].key /\ all[j].name = entries[x[j]].key /\ all[i].place = y[i] /\ all[j].place = y[j]
    BY <1>16
  <2>2. x[i] = x[j] /\ y[i] = y[j]
    BY <1>2, <1>14, <1>19, <2>1
  <2> QED
    BY <1>12, <1>13, <2>2 DEF FlattenedUpto
<1> QED
  BY <1>9, <1>11, <1>17, <1>18, <1>19

(***************************************************************************)
(* pkg_vec_insert_merge.                                                   *)
(***************************************************************************)

LEMMA ParsedIs ==
  ASSUME NEW st \in Stanza
  PROVE  /\ Parsed(st) \in Record
         /\ Parsed(st).name = st.name /\ Parsed(st).want = st.want /\ Parsed(st).flags = st.flags
         /\ Parsed(st).status = st.status /\ Parsed(st).files = st.files
<1>1. ParseVersion(st.version) \in Version
  <2>1. st.version \in Seq(Char)
    BY DEF Stanza
  <2> QED
    BY <2>1, ParseIs
<1> QED
  BY <1>1 DEF Stanza, Record, Parsed

\* Where a record is put, and what of it and of the one it replaces is kept.
IsPut(new, vec, r, i) ==
  /\ new \in Seq(Record)
  /\ i \in 1..(Len(vec) + 1) /\ Len(new) = IF i <= Len(vec) THEN Len(vec) ELSE Len(vec) + 1
  /\ \A j \in 1..Len(vec) : j # i => new[j] = vec[j]
  /\ new[i].name = r.name /\ new[i].v = r.v /\ new[i].arch = r.arch /\ new[i].want = r.want
  /\ new[i].flags = r.flags /\ new[i].status = r.status
  /\ new[i].provides = r.provides \/ (i <= Len(vec) /\ new[i].provides = vec[i].provides)
  /\ new[i].needs = r.needs \/ (i <= Len(vec) /\ new[i].needs = vec[i].needs)
  /\ r.status # "not-installed" => new[i].files = r.files
  /\ i <= Len(vec) => SameRecord(r, vec[i])
  /\ \A j \in 1..Len(vec) : j < i => ~SameRecord(r, vec[j])

LEMMA MergedIs ==
  ASSUME NEW r \in Record, NEW o \in Record
  PROVE  /\ Merged(r, o) \in Record
         /\ Merged(r, o).name = r.name /\ Merged(r, o).v = r.v /\ Merged(r, o).arch = r.arch
         /\ Merged(r, o).want = r.want /\ Merged(r, o).flags = r.flags /\ Merged(r, o).status = r.status
         /\ Merged(r, o).provides \in {r.provides, o.provides} /\ Merged(r, o).needs \in {r.needs, o.needs}
         /\ r.status # "not-installed" => Merged(r, o).files = r.files
<1> DEFINE auto     == r.auto \/ o.auto
           needs    == IF r.needs = {} THEN o.needs ELSE r.needs
           provides == IF r.provides = {} THEN o.provides ELSE r.provides
           info     == IF r.info = NoInfo THEN o.info ELSE r.info
           files    == IF r.status = "not-installed" THEN o.files ELSE r.files
           x == [r EXCEPT !.auto = auto, !.needs = needs, !.provides = provides, !.info = info,
                          !.files = files]
<1>1. Merged(r, o) = x
  BY DEF Merged
<1>2. /\ auto \in BOOLEAN /\ needs \in SUBSET [type : STRING, name : Names]
      /\ provides \in SUBSET Names /\ info \in Info \cup {NoInfo} /\ files \in SUBSET File
  BY DEF Record
<1>3. /\ needs \in {r.needs, o.needs} /\ provides \in {r.provides, o.provides}
      /\ r.status # "not-installed" => files = r.files
  OBVIOUS
<1> HIDE DEF auto, needs, provides, info, files
<1>4. x \in Record
  BY <1>2 DEF Record
<1>5. /\ x.name = r.name /\ x.v = r.v /\ x.arch = r.arch /\ x.want = r.want
      /\ x.flags = r.flags /\ x.status = r.status
      /\ x.provides = provides /\ x.needs = needs /\ x.files = files
  BY DEF Record
<1> HIDE DEF x
<1> QED
  BY <1>1, <1>3, <1>4, <1>5

LEMMA InsertMergeIs ==
  ASSUME NEW vec \in Seq(Record), NEW r \in Record, NEW setStatus \in BOOLEAN
  PROVE  \E i \in 1..(Len(vec) + 1) : IsPut(InsertMerge(vec, r, setStatus), vec, r, i)
<1> DEFINE n == Len(vec)
           T == {i \in 1..n : SameRecord(r, vec[i])}
           p == SelectInSeq(vec, LAMBDA o : SameRecord(r, o))
           new == InsertMerge(vec, r, setStatus)
<1>1. p = IF T # {} THEN Min(T) ELSE 0
  BY DEF SelectInSeq
<1>2. n \in Nat /\ DOMAIN vec = 1..n /\ \A i \in 1..n : vec[i] \in Record
  OBVIOUS
<1>3. new = IF p = 0 THEN Append(vec, r)
            ELSE ReplaceAt(vec, p, IF setStatus THEN Merged(r, vec[p]) ELSE r)
  BY DEF InsertMerge
<1>4. T # {} => Min(T) \in T /\ \A i \in T : Min(T) <= i
  <2>1. T \in SUBSET Nat
    BY <1>2
  <2> HIDE DEF T
  <2> QED
    BY <2>1, MinOfSet
<1>5. \A i \in 1..n : SameRecord(r, vec[i]) <=> i \in T
  BY <1>2
<1>6. T \subseteq 1..n
  OBVIOUS
<1> HIDE DEF p, T, new, n
<1>7. CASE T = {}
  <2>1. new = Append(vec, r)
    BY <1>1, <1>3, <1>7
  <2>2. /\ new \in Seq(Record) /\ Len(new) = n + 1 /\ new[n + 1] = r
        /\ \A j \in 1..n : new[j] = vec[j]
    BY <2>1 DEF n
  <2>3. ~(n + 1 <= n) /\ n + 1 \in 1..(n + 1) /\ \A j \in 1..n : ~SameRecord(r, vec[j])
    BY <1>2, <1>5, <1>7
  <2>4. IsPut(new, vec, r, n + 1)
    BY <2>2, <2>3 DEF IsPut, n
  <2> QED
    BY <2>3, <2>4 DEF new, n
<1>8. CASE T # {}
  <2> DEFINE x == IF setStatus THEN Merged(r, vec[p]) ELSE r
  <2>1. p \in T /\ p \in 1..n /\ \A i \in T : p <= i
    BY <1>1, <1>4, <1>6, <1>8
  <2>2. new = [vec EXCEPT ![p] = x]
    BY <1>2, <1>3, <2>1 DEF ReplaceAt
  <2>3. vec[p] \in Record
    BY <1>2, <2>1
  <2>4. /\ x \in Record
        /\ x.name = r.name /\ x.v = r.v /\ x.arch = r.arch /\ x.want = r.want
        /\ x.flags = r.flags /\ x.status = r.status
        /\ x.provides = r.provides \/ x.provides = vec[p].provides
        /\ x.needs = r.needs \/ x.needs = vec[p].needs
        /\ r.status # "not-installed" => x.files = r.files
    BY <2>3, MergedIs
  <2> HIDE DEF x
  <2>5. /\ new \in Seq(Record) /\ Len(new) = n /\ new[p] = x
        /\ \A j \in 1..n : j # p => new[j] = vec[j]
    BY <1>2, <2>1, <2>2, <2>4 DEF n
  <2>6. SameRecord(r, vec[p]) /\ \A j \in 1..n : j < p => ~SameRecord(r, vec[j])
    BY <1>2, <1>5, <2>1
  <2>7. p <= n /\ p \in 1..(n + 1)
    BY <1>2, <2>1
  <2>8. IsPut(new, vec, r, p)
    BY <2>4, <2>5, <2>6, <2>7 DEF IsPut, n
  <2> QED
    BY <2>7, <2>8 DEF new, n
<1> QED
  BY <1>7, <1>8

\* No two records of one package.
Distinct(vec) == \A i, j \in DOMAIN vec : i < j => ~SameRecord(vec[j], vec[i])

NoneHeldGone(vec) == \A i \in DOMAIN vec : ~HeldGone(vec[i])

\* A record is put in the place of the first that it equals; that none of those
\* behind equals it too takes that equal versions are an equivalence.
LEMMA StaysDistinct ==
  ASSUME NEW vec \in Seq(Record), Distinct(vec), NoneHeldGone(vec),
         NEW r \in Record, ~HeldGone(r), NEW new, NEW i, IsPut(new, vec, r, i)
  PROVE  Distinct(new) /\ NoneHeldGone(new)
<1>1. /\ new \in Seq(Record) /\ DOMAIN vec = 1..Len(vec) /\ DOMAIN new = 1..Len(new)
      /\ Len(vec) \in Nat /\ Len(new) \in Nat
  BY DEF IsPut
<1>2. /\ i \in 1..(Len(vec) + 1) /\ Len(new) = IF i <= Len(vec) THEN Len(vec) ELSE Len(vec) + 1
      /\ \A j \in 1..Len(vec) : j # i => new[j] = vec[j]
      /\ new[i].v = r.v /\ new[i].arch = r.arch /\ new[i].want = r.want /\ new[i].flags = r.flags
      /\ i <= Len(vec) => SameRecord(r, vec[i])
      /\ \A j \in 1..Len(vec) : j < i => ~SameRecord(r, vec[j])
  BY DEF IsPut
<1>3. \A j \in 1..Len(new) : j = i \/ (j # i /\ j \in 1..Len(vec) /\ new[j] = vec[j])
  BY <1>1, <1>2
<1>4. \A j \in 1..Len(vec) : vec[j] \in Record /\ vec[j].v \in Version /\ ~HeldGone(vec[j])
  <2> SUFFICES ASSUME NEW j \in 1..Len(vec)
               PROVE  vec[j] \in Record /\ vec[j].v \in Version /\ ~HeldGone(vec[j])
    OBVIOUS
  <2>1. vec[j] \in Record
    BY <1>1
  <2>2. ~HeldGone(vec[j])
    BY <1>1 DEF NoneHeldGone
  <2> QED
    BY <2>1, <2>2 DEF Record
<1>5. ~HeldGone(new[i])
  BY <1>2 DEF HeldGone
<1>6. NoneHeldGone(new)
  BY <1>1, <1>3, <1>4, <1>5 DEF NoneHeldGone
<1>7. ASSUME NEW k \in 1..Len(new), NEW l \in 1..Len(new), k < l, SameRecord(new[l], new[k])
      PROVE  FALSE
  <2>1. CASE l = i
    <3>1. k \in 1..Len(vec) /\ new[k] = vec[k] /\ k < i
      BY <1>1, <1>3, <1>7, <2>1
    <3>2. SameRecord(r, vec[k])
      BY <1>2, <1>7, <2>1, <3>1 DEF SameRecord, HeldGone
    <3> QED
      BY <1>2, <3>1, <3>2
  <2>2. CASE k = i
    <3>1. l \in 1..Len(vec) /\ new[l] = vec[l] /\ i < l /\ i \in 1..Len(vec)
      BY <1>1, <1>2, <1>3, <1>7, <2>2
    <3>2. CompareVersions(vec[l].v, r.v) = 0 /\ vec[l].arch = r.arch
      BY <1>2, <1>4, <1>7, <2>2, <3>1 DEF SameRecord
    <3>3. CompareVersions(r.v, vec[i].v) = 0 /\ r.arch = vec[i].arch
      <4>1. SameRecord(r, vec[i])
        BY <1>1, <1>2, <3>1
      <4> QED
        BY <4>1 DEF SameRecord
    <3>4. CompareVersions(vec[l].v, vec[i].v) = 0
      <4>1. vec[l].v \in Version /\ vec[i].v \in Version /\ r.v \in Version
        BY <1>4, <3>1 DEF Record
      <4> QED
        BY <3>2, <3>3, <4>1, EqualVersions
    <3>5. SameRecord(vec[l], vec[i])
      BY <3>2, <3>3, <3>4 DEF SameRecord
    <3> QED
      BY <1>1, <3>1, <3>5 DEF Distinct
  <2>3. CASE k # i /\ l # i
    <3>1. k \in 1..Len(vec) /\ l \in 1..Len(vec) /\ new[k] = vec[k] /\ new[l] = vec[l]
      BY <1>3, <2>3
    <3> QED
      BY <1>1, <1>7, <3>1 DEF Distinct
  <2> QED
    BY <2>1, <2>2, <2>3
<1>8. Distinct(new)
  BY <1>1, <1>7 DEF Distinct
<1> QED
  BY <1>6, <1>8

(***************************************************************************)
(* hash_insert_pkg.                                                        *)
(***************************************************************************)
PkgTables == [PT!Bucket -> Seq(PT!Entry(Names, Seq(Record)))]

LEMMA SetToSeqIs ==
  ASSUME NEW S, IsFiniteSet(S), NEW T \in SUBSET S
  PROVE  /\ SetToSeq(T) \in Seq(T) /\ SetToSeq(T) \in Seq(S)
         /\ \A x \in T : \E i \in 1..Len(SetToSeq(T)) : SetToSeq(T)[i] = x
<1>1. IsFiniteSet(T)
  BY FS_Subset
<1>2. /\ SetToSeq(T) \in Seq(T)
      /\ \A x \in T : \E i \in DOMAIN SetToSeq(T) : SetToSeq(T)[i] = x
  BY <1>1, SetToSeqMembers
<1> DEFINE q == SetToSeq(T)
<1> HIDE DEF q
<1>3. q \in Seq(T) /\ \A x \in T : \E i \in DOMAIN q : q[i] = x
  BY <1>2 DEF q
<1>4. q \in Seq(S) /\ DOMAIN q = 1..Len(q)
  BY <1>3
<1> QED
  BY <1>3, <1>4 DEF q

LEMMA EnsuredIs ==
  ASSUME NEW t, PkgTableInv(t), NEW names \in Seq(Names)
  PROVE  /\ PkgTableInv(FoldLeft(Ensured, t, names))
         /\ \A n \in Names : Vec(FoldLeft(Ensured, t, names), n) = Vec(t, n)
<1> DEFINE k == Len(names)
           Ok(u) == PkgTableInv(u) /\ \A n \in Names : Vec(u, n) = Vec(t, n)
           S == {u \in PkgTables : Ok(u)}
           I == [i \in 0..k |-> S]
<1>1. k \in Nat /\ DOMAIN names = 1..k /\ \A i \in 1..k : names[i] \in Names
  OBVIOUS
<1>2. FoldLeft(Ensured, t, names) = Ensures!Fold(t, names)
  BY DEF Ensures!Fold, Ensures!FoldLeft, Ensures!MapThenFoldSet, FoldLeft, MapThenFoldSet, Max, Ensures!Max
<1>3. \A u : PkgTableInv(u) => u \in PkgTables
  BY DEF PkgTableInv, PT!IsTable, PkgTables
<1>4. ASSUME NEW u, Ok(u), NEW n \in Names PROVE Ok(Ensured(u, n))
  <2>1. CASE PkgTable!Lookup(u, n) = NoData
    <3>1. Ensured(u, n) = PkgTable!Insert(u, n, <<>>) /\ Vec(u, n) = <<>>
      BY <2>1 DEF Ensured, Vec
    <3>2. <<>> \in Seq(Record) /\ PkgTableInv(u)
      BY <1>4
    <3>3. HasVec(PkgTable!Insert(u, n, <<>>), u, n, <<>>)
      BY <3>2, PkgInsertIs
    <3>4. /\ PkgTableInv(Ensured(u, n))
          /\ \A m \in Names : Vec(Ensured(u, n), m) = IF m = n THEN <<>> ELSE Vec(u, m)
      BY <3>1, <3>3 DEF HasVec
    <3> QED
      BY <1>4, <3>1, <3>4
  <2>2. CASE PkgTable!Lookup(u, n) # NoData
    BY <1>4, <2>2 DEF Ensured
  <2> QED
    BY <2>1, <2>2
<1>5. Ok(t)
  OBVIOUS
<1> HIDE DEF Ok
<1>6. t \in I[0]
  BY <1>1, <1>3, <1>5 DEF Ok
<1>7. ASSUME NEW i \in 1..k, NEW u \in I[i - 1] PROVE Ensured(u, names[i]) \in I[i]
  <2>1. Ok(u) /\ i \in 0..k
    BY <1>1
  <2>2. Ok(Ensured(u, names[i]))
    BY <1>1, <1>4, <2>1
  <2>3. Ensured(u, names[i]) \in PkgTables
    BY <1>3, <2>2 DEF Ok
  <2> QED
    BY <2>1, <2>2, <2>3
<1> HIDE DEF I
<1>8. Ensures!Fold(t, names) \in I[k]
  BY <1>1, <1>6, <1>7, Ensures!FoldStays
<1>9. Ok(FoldLeft(Ensured, t, names))
  BY <1>1, <1>2, <1>8 DEF I
<1> QED
  BY <1>9 DEF Ok

(***************************************************************************)
(* The inductive invariant.  OwnersMatch needs that no two versions of a   *)
(* package are in place and that two packages in place share no file, which*)
(* opkg's checks see to for what it installs and the status file for the   *)
(* rest; so what the status file says is a part of it, and what a record   *)
(* in place and one that is held can be.                                   *)
(***************************************************************************)
OneInPlace(vec) ==
  \A i, j \in DOMAIN vec : InPlace(vec[i]) /\ InPlace(vec[j]) => i = j

NoneUnwanted(vec) == \A i \in DOMAIN vec : InPlace(vec[i]) => vec[i].want # "deinstall"

IsLinked(r, n, providers, dependents) ==
  /\ r.name = n
  /\ \A m \in r.provides \cup {n} : n \in providers[m]
  /\ \A m \in Needed(r) : n \in dependents[m]

AllLinked(vec, n, providers, dependents) ==
  \A i \in DOMAIN vec : IsLinked(vec[i], n, providers, dependents)

Index == [Names -> SUBSET Names]

DBInv(table, providers, dependents, held) ==
  /\ PkgTableInv(table) /\ providers \in Index /\ dependents \in Index
  /\ \A n \in Names : /\ AllLinked(Vec(table, n), n, providers, dependents)
                      /\ OneInPlace(Vec(table, n)) /\ NoneUnwanted(Vec(table, n))
                      /\ held \/ (Distinct(Vec(table, n)) /\ NoneHeldGone(Vec(table, n)))

\* Only who has a file owns it, and who is in place owns what it has.
OwnersInv(table, owners) ==
  /\ \A f \in File : FileTable!Lookup(owners, f) # NoData =>
       /\ IsPlaced(table, FileTable!Lookup(owners, f))
       /\ f \in Deref(table, FileTable!Lookup(owners, f)).files
  /\ \A p \in Reference : IsPlaced(table, p) /\ InPlace(Deref(table, p)) =>
       \A f \in Deref(table, p).files : FileTable!Lookup(owners, f) = p

FileInv ==
  /\ world \in Worlds /\ feed \in world.feeds
  /\ statusFile \in Seq(Stanza) /\ IsOrderly(statusFile, world.removesHeld)

IInv ==
  /\ FileInv
  /\ DBInv(pkgHash, providedBy, neededBy, world.removesHeld)
  /\ FileTableInv(fileHash) /\ OwnersInv(pkgHash, fileHash)

(***************************************************************************)
(* hash_insert_pkg keeps the database in shape.                            *)
(***************************************************************************)
AtLeast(new, old) == \A m \in Names : old[m] \subseteq new[m]

LEMMA LinkedIs ==
  ASSUME NEW index \in Index, NEW ns \in SUBSET Names, NEW n \in Names
  PROVE  /\ Linked(index, ns, n) \in Index /\ AtLeast(Linked(index, ns, n), index)
         /\ \A m \in ns : n \in Linked(index, ns, n)[m]
BY DEF Linked, Index, AtLeast

LEMMA NeedsAreNames ==
  ASSUME NEW r \in Record
  PROVE  /\ {d.name : d \in r.needs} \in SUBSET Names /\ Needed(r) \in SUBSET Names
         /\ r.provides \in SUBSET Names /\ r.name \in Names
<1>1. r.needs \in SUBSET [type : STRING, name : Names] /\ r.provides \in SUBSET Names /\ r.name \in Names
  BY DEF Record
<1>2. \A d \in r.needs : d.name \in Names
  BY <1>1
<1> QED
  BY <1>1, <1>2 DEF Needed

LEMMA HashInsertIs ==
  ASSUME NEW db, PkgTableInv(db.pkgs), NEW r \in Record, NEW setStatus \in BOOLEAN
  PROVE  /\ PkgTableInv(HashInsert(db, r, setStatus).pkgs)
         /\ \A m \in Names :
              Vec(HashInsert(db, r, setStatus).pkgs, m) =
                IF m = r.name THEN InsertMerge(Vec(db.pkgs, m), r, setStatus) ELSE Vec(db.pkgs, m)
         /\ HashInsert(db, r, setStatus).providedBy = Linked(db.providedBy, r.provides \cup {r.name}, r.name)
         /\ HashInsert(db, r, setStatus).neededBy = Linked(db.neededBy, Needed(r), r.name)
<1> DEFINE needs == {d.name : d \in r.needs}
           names == <<r.name>> \o SetToSeq(needs) \o SetToSeq(r.provides)
           table == FoldLeft(Ensured, db.pkgs, names)
           vec   == InsertMerge(Vec(db.pkgs, r.name), r, setStatus)
           new   == HashInsert(db, r, setStatus)
<1>1. /\ new.pkgs = PkgTable!Insert(table, r.name, InsertMerge(Vec(table, r.name), r, setStatus))
      /\ new.providedBy = Linked(db.providedBy, r.provides \cup {r.name}, r.name)
      /\ new.neededBy = Linked(db.neededBy, Needed(r), r.name)
  BY DEF HashInsert
<1>2. needs \in SUBSET Names /\ r.provides \in SUBSET Names /\ r.name \in Names
  BY NeedsAreNames
<1>3. names \in Seq(Names)
  <2>1. IsFiniteSet(Names)
    BY TableAssumption
  <2> HIDE DEF needs
  <2>2. SetToSeq(needs) \in Seq(Names) /\ SetToSeq(r.provides) \in Seq(Names)
    BY <1>2, <2>1, SetToSeqIs
  <2>3. <<r.name>> \in Seq(Names)
    BY <1>2
  <2> HIDE DEF names
  <2> QED
    BY <2>2, <2>3 DEF names
<1> HIDE DEF names, needs
<1>4. PkgTableInv(table) /\ \A n \in Names : Vec(table, n) = Vec(db.pkgs, n)
  BY <1>3, EnsuredIs
<1> HIDE DEF table, new
<1>5. new.pkgs = PkgTable!Insert(table, r.name, vec)
  BY <1>1, <1>2, <1>4
<1>6. vec \in Seq(Record)
  <2>1. Vec(db.pkgs, r.name) \in Seq(Record)
    BY <1>2, VecIs
  <2> QED
    BY <2>1, InsertMergeIs DEF IsPut
<1>7. /\ PkgTableInv(new.pkgs)
      /\ \A m \in Names : Vec(new.pkgs, m) = IF m = r.name THEN vec ELSE Vec(table, m)
  <2> HIDE DEF vec
  <2> QED
    BY <1>2, <1>4, <1>5, <1>6, PkgInsertIs DEF HasVec
<1>8. \A m \in Names :
        Vec(new.pkgs, m) = IF m = r.name THEN InsertMerge(Vec(db.pkgs, m), r, setStatus) ELSE Vec(db.pkgs, m)
  BY <1>4, <1>7
<1> QED
  BY <1>1, <1>7, <1>8 DEF new

\* The records in place after an insertion are those before and the one inserted.
CameFrom(new, vec, r) ==
  \A j \in DOMAIN new :
    InPlace(new[j]) => \/ \E k \in DOMAIN vec : new[j] = vec[k]
                       \/ InPlace(r) /\ new[j].files = r.files

LEMMA PutIsLinked ==
  ASSUME NEW vec \in Seq(Record), NEW r \in Record, NEW new, NEW i, IsPut(new, vec, r, i),
         NEW P, NEW D, NEW Q, NEW E, AtLeast(Q, P), AtLeast(E, D),
         AllLinked(vec, r.name, P, D), IsLinked(r, r.name, Q, E)
  PROVE  AllLinked(new, r.name, Q, E)
<1>1. /\ i \in 1..(Len(vec) + 1) /\ DOMAIN new = 1..Len(new) /\ DOMAIN vec = 1..Len(vec)
      /\ Len(new) = IF i <= Len(vec) THEN Len(vec) ELSE Len(vec) + 1
      /\ Len(vec) \in Nat /\ \A j \in 1..Len(vec) : j # i => new[j] = vec[j]
      /\ \A j \in 1..Len(vec) : vec[j] \in Record
  BY DEF IsPut
<1>2. /\ new[i].name = r.name
      /\ new[i].provides = r.provides \/ (i <= Len(vec) /\ new[i].provides = vec[i].provides)
      /\ new[i].needs = r.needs \/ (i <= Len(vec) /\ new[i].needs = vec[i].needs)
  BY DEF IsPut
<1>3. \A s, t : s.needs = t.needs => Needed(s) = Needed(t)
  BY DEF Needed
<1>4. \A j \in 1..Len(vec) : IsLinked(vec[j], r.name, P, D)
  BY <1>1 DEF AllLinked
<1>5. ASSUME NEW j \in 1..Len(vec) PROVE IsLinked(vec[j], r.name, Q, E)
  <2>1. vec[j].provides \in SUBSET Names /\ Needed(vec[j]) \in SUBSET Names /\ r.name \in Names
    BY <1>1, NeedsAreNames
  <2> QED
    BY <1>4, <2>1 DEF IsLinked, AtLeast
<1>6. IsLinked(new[i], r.name, Q, E)
  <2>1. Needed(new[i]) = Needed(r) \/ (i \in 1..Len(vec) /\ Needed(new[i]) = Needed(vec[i]))
    BY <1>1, <1>2, <1>3
  <2>2. new[i].provides = r.provides \/ (i \in 1..Len(vec) /\ new[i].provides = vec[i].provides)
    BY <1>1, <1>2
  <2>3. i \in 1..Len(vec) => IsLinked(vec[i], r.name, Q, E)
    BY <1>5
  <2> QED
    BY <1>2, <2>1, <2>2, <2>3 DEF IsLinked
<1>7. \A j \in 1..Len(new) : j = i \/ (j \in 1..Len(vec) /\ new[j] = vec[j])
  BY <1>1
<1> QED
  BY <1>1, <1>5, <1>6, <1>7 DEF AllLinked

LEMMA PutInPlace ==
  ASSUME NEW vec \in Seq(Record), NEW r \in Record, NEW new, NEW i, IsPut(new, vec, r, i),
         OneInPlace(vec), NoneUnwanted(vec),
         InPlace(r) => r.want # "deinstall" /\ \A j \in DOMAIN vec : ~InPlace(vec[j])
  PROVE  OneInPlace(new) /\ NoneUnwanted(new) /\ CameFrom(new, vec, r)
<1>1. /\ i \in 1..(Len(vec) + 1) /\ DOMAIN new = 1..Len(new) /\ DOMAIN vec = 1..Len(vec)
      /\ Len(new) = IF i <= Len(vec) THEN Len(vec) ELSE Len(vec) + 1
      /\ Len(vec) \in Nat /\ \A j \in 1..Len(vec) : j # i => new[j] = vec[j]
  BY DEF IsPut
<1>2. /\ InPlace(new[i]) <=> InPlace(r)
      /\ InPlace(r) => new[i].files = r.files
      /\ new[i].want = r.want
  BY DEF IsPut, InPlace
<1>3. \A j \in 1..Len(new) : j = i \/ (j \in 1..Len(vec) /\ new[j] = vec[j])
  BY <1>1
<1>4. OneInPlace(new)
  BY <1>1, <1>2, <1>3 DEF OneInPlace
<1>5. NoneUnwanted(new)
  BY <1>1, <1>2, <1>3 DEF NoneUnwanted
<1>6. CameFrom(new, vec, r)
  BY <1>1, <1>2, <1>3 DEF CameFrom
<1> QED
  BY <1>4, <1>5, <1>6

IsInserted(new, db, r, held) ==
  /\ DBInv(new.pkgs, new.providedBy, new.neededBy, held)
  /\ \A m \in Names : m # r.name => Vec(new.pkgs, m) = Vec(db.pkgs, m)
  /\ CameFrom(Vec(new.pkgs, r.name), Vec(db.pkgs, r.name), r)

LEMMA DBStays ==
  ASSUME NEW db, NEW held, DBInv(db.pkgs, db.providedBy, db.neededBy, held), NEW r \in Record, NEW setStatus \in BOOLEAN,
         HeldGone(r) => held,
         InPlace(r) => /\ r.want # "deinstall"
                       /\ \A j \in DOMAIN Vec(db.pkgs, r.name) : ~InPlace(Vec(db.pkgs, r.name)[j]),
         NEW new, new = HashInsert(db, r, setStatus)
  PROVE  IsInserted(new, db, r, held)
<1> DEFINE vec == Vec(db.pkgs, r.name)
           neu == Vec(new.pkgs, r.name)
           P == db.providedBy
           D == db.neededBy
           Q == new.providedBy
           E == new.neededBy
<1>1. PkgTableInv(db.pkgs) /\ P \in Index /\ D \in Index
  BY DEF DBInv
<1>2. \A n \in Names :
        /\ AllLinked(Vec(db.pkgs, n), n, P, D)
        /\ OneInPlace(Vec(db.pkgs, n)) /\ NoneUnwanted(Vec(db.pkgs, n))
        /\ held \/ (Distinct(Vec(db.pkgs, n)) /\ NoneHeldGone(Vec(db.pkgs, n)))
  BY DEF DBInv
<1>3. /\ PkgTableInv(new.pkgs)
      /\ \A m \in Names : Vec(new.pkgs, m) = IF m = r.name THEN InsertMerge(Vec(db.pkgs, m), r, setStatus)
                                             ELSE Vec(db.pkgs, m)
      /\ Q = Linked(P, r.provides \cup {r.name}, r.name)
      /\ E = Linked(D, Needed(r), r.name)
  BY <1>1, HashInsertIs
<1>4. r.provides \cup {r.name} \in SUBSET Names /\ Needed(r) \in SUBSET Names /\ r.name \in Names
  BY NeedsAreNames
<1>5. vec \in Seq(Record) /\ neu = InsertMerge(vec, r, setStatus)
  BY <1>1, <1>3, <1>4, VecIs
<1> HIDE DEF P, D, Q, E
<1>6. /\ Q \in Index /\ AtLeast(Q, P) /\ \A m \in r.provides \cup {r.name} : r.name \in Q[m]
      /\ E \in Index /\ AtLeast(E, D) /\ \A m \in Needed(r) : r.name \in E[m]
  BY <1>1, <1>3, <1>4, LinkedIs
<1>7. InPlace(r) => r.want # "deinstall" /\ \A j \in DOMAIN vec : ~InPlace(vec[j])
  OBVIOUS
<1>8. AllLinked(vec, r.name, P, D) /\ OneInPlace(vec) /\ NoneUnwanted(vec)
      /\ (held \/ (Distinct(vec) /\ NoneHeldGone(vec)))
  BY <1>2, <1>4
<1> HIDE DEF vec, neu
<1>9. PICK i : IsPut(neu, vec, r, i)
  BY <1>5, InsertMergeIs
<1>10. AllLinked(neu, r.name, Q, E)
  <2>1. IsLinked(r, r.name, Q, E)
    BY <1>6 DEF IsLinked
  <2> QED
    BY <1>5, <1>6, <1>8, <1>9, <2>1, PutIsLinked
<1>11. OneInPlace(neu) /\ NoneUnwanted(neu) /\ CameFrom(neu, vec, r)
  BY <1>5, <1>7, <1>8, <1>9, PutInPlace
<1>12. held \/ (Distinct(neu) /\ NoneHeldGone(neu))
  BY <1>5, <1>8, <1>9, StaysDistinct
<1>13. ASSUME NEW n \in Names, n # r.name PROVE AllLinked(Vec(new.pkgs, n), n, Q, E)
  <2> DEFINE w == Vec(db.pkgs, n)
  <2>1. Vec(new.pkgs, n) = w /\ AllLinked(w, n, P, D) /\ w \in Seq(Record)
    BY <1>1, <1>2, <1>3, <1>13, VecIs
  <2> HIDE DEF w
  <2>2. ASSUME NEW j \in DOMAIN w PROVE IsLinked(w[j], n, Q, E)
    <3>1. w[j] \in Record /\ IsLinked(w[j], n, P, D)
      BY <2>1 DEF AllLinked
    <3>2. w[j].provides \in SUBSET Names /\ Needed(w[j]) \in SUBSET Names
      BY <3>1, NeedsAreNames
    <3> QED
      BY <1>6, <3>1, <3>2 DEF IsLinked, AtLeast
  <2> QED
    BY <2>1, <2>2 DEF AllLinked
<1>14. \A n \in Names :
         /\ AllLinked(Vec(new.pkgs, n), n, Q, E)
         /\ OneInPlace(Vec(new.pkgs, n)) /\ NoneUnwanted(Vec(new.pkgs, n))
         /\ held \/ (Distinct(Vec(new.pkgs, n)) /\ NoneHeldGone(Vec(new.pkgs, n)))
  BY <1>2, <1>3, <1>10, <1>11, <1>12, <1>13 DEF neu
<1> QED
  BY <1>3, <1>6, <1>11, <1>14 DEF IsInserted, DBInv, Q, E, neu, vec

(***************************************************************************)
(* The feeds, which have no record in place, and then the status file.     *)
(***************************************************************************)
Lists   == INSTANCE FoldTheorems WITH Op <- InsertListed
Recalls == INSTANCE FoldTheorems WITH Op <- InsertRecorded

DBs == [pkgs : PkgTables, providedBy : Index, neededBy : Index]

\* Whatever is in place is what one of the first k stanzas of the file says.
SaidBy(table, file, k) ==
  \A n \in Names : \A j \in DOMAIN Vec(table, n) :
    InPlace(Vec(table, n)[j]) =>
      \E l \in 1..k : /\ InPlace(file[l]) /\ file[l].name = n
                      /\ file[l].files = Vec(table, n)[j].files

IsLoaded(db, file, k, held) ==
  DBInv(db.pkgs, db.providedBy, db.neededBy, held) /\ SaidBy(db.pkgs, file, k)

LEMMA TypedDB ==
  ASSUME NEW db, NEW held, DBInv(db.pkgs, db.providedBy, db.neededBy, held),
         NEW P, NEW n, NEW v, db = [pkgs |-> P, providedBy |-> n, neededBy |-> v]
  PROVE  db \in DBs
BY DEF DBInv, DBs, PkgTableInv, PT!IsTable, PkgTables

LEMMA NewDBIs ==
  ASSUME NEW held, NEW file
  PROVE  IsLoaded(Database, file, 0, held)
<1>1. /\ PkgTableInv(Database.pkgs) /\ \A n \in Names : Vec(Database.pkgs, n) = <<>>
  BY NewPkgTableIs DEF Database
<1>2. Database.providedBy \in Index /\ Database.neededBy \in Index
  BY DEF Database, Index
<1>3. \A P, D, n : AllLinked(<<>>, n, P, D)
  BY DEF AllLinked
<1>4. OneInPlace(<<>>) /\ NoneUnwanted(<<>>) /\ Distinct(<<>>) /\ NoneHeldGone(<<>>)
  BY DEF OneInPlace, NoneUnwanted, Distinct, NoneHeldGone
<1>5. \A n \in Names : DOMAIN Vec(Database.pkgs, n) = {}
  BY <1>1
<1>6. DBInv(Database.pkgs, Database.providedBy, Database.neededBy, held)
  BY <1>1, <1>2, <1>3, <1>4 DEF DBInv
<1>7. SaidBy(Database.pkgs, file, 0)
  BY <1>5 DEF SaidBy
<1> QED
  BY <1>6, <1>7 DEF IsLoaded

LEMMA OneMoreLoaded ==
  ASSUME NEW db, NEW file, NEW k \in Nat, NEW held, IsLoaded(db, file, k, held),
         NEW st \in Stanza, NEW setStatus \in BOOLEAN, HeldGone(st) => held,
         \/ ~InPlace(st)
         \/ /\ st.want # "deinstall" /\ st = file[k + 1]
            /\ \A l \in 1..k : InPlace(file[l]) => file[l].name # st.name
  PROVE  /\ IsLoaded(HashInsert(db, Parsed(st), setStatus), file, k + 1, held)
         /\ ~InPlace(st) => IsLoaded(HashInsert(db, Parsed(st), setStatus), file, k, held)
         /\ HashInsert(db, Parsed(st), setStatus) \in DBs
<1> DEFINE r == Parsed(st)
           new == HashInsert(db, r, setStatus)
           n == st.name
<1>1. /\ r \in Record /\ r.name = n /\ r.want = st.want /\ r.flags = st.flags
      /\ r.status = st.status /\ r.files = st.files
  BY ParsedIs
<1> HIDE DEF r
<1>2. (HeldGone(r) <=> HeldGone(st)) /\ (InPlace(r) <=> InPlace(st))
  BY <1>1 DEF HeldGone, InPlace
<1>3. DBInv(db.pkgs, db.providedBy, db.neededBy, held) /\ SaidBy(db.pkgs, file, k)
  BY DEF IsLoaded
<1>4. n \in Names
  BY <1>1 DEF Record
<1>5. InPlace(r) => /\ r.want # "deinstall"
                    /\ \A j \in DOMAIN Vec(db.pkgs, r.name) : ~InPlace(Vec(db.pkgs, r.name)[j])
  BY <1>1, <1>2, <1>3, <1>4 DEF SaidBy
<1>6. PICK P, D, T : new = [pkgs |-> T, providedBy |-> P, neededBy |-> D]
  BY DEF HashInsert
<1> HIDE DEF new
<1>7. /\ DBInv(new.pkgs, new.providedBy, new.neededBy, held)
      /\ \A m \in Names : m # n => Vec(new.pkgs, m) = Vec(db.pkgs, m)
      /\ CameFrom(Vec(new.pkgs, n), Vec(db.pkgs, n), r)
  <2>1. new = HashInsert(db, r, setStatus)
    BY DEF new
  <2>2. HeldGone(r) => held
    BY <1>2
  <2>3. DBInv(db.pkgs, db.providedBy, db.neededBy, held) /\ r \in Record
    BY <1>1, <1>3
  <2>4. IsInserted(new, db, r, held)
    BY <1>5, <2>1, <2>2, <2>3, DBStays
  <2> QED
    BY <1>1, <2>4 DEF IsInserted
<1>8. \A m \in Names : \A j \in DOMAIN Vec(new.pkgs, m) : InPlace(Vec(new.pkgs, m)[j]) =>
        \/ \E i \in DOMAIN Vec(db.pkgs, m) : Vec(db.pkgs, m)[i] = Vec(new.pkgs, m)[j]
        \/ m = n /\ InPlace(st) /\ Vec(new.pkgs, m)[j].files = st.files
  BY <1>1, <1>2, <1>7 DEF CameFrom
<1>9. \A m \in Names : \A j \in DOMAIN Vec(new.pkgs, m) : InPlace(Vec(new.pkgs, m)[j]) =>
        \/ \E l \in 1..k : /\ InPlace(file[l]) /\ file[l].name = m
                           /\ file[l].files = Vec(new.pkgs, m)[j].files
        \/ m = n /\ InPlace(st) /\ Vec(new.pkgs, m)[j].files = st.files
  BY <1>3, <1>8 DEF SaidBy
<1>10. SaidBy(new.pkgs, file, k + 1)
  <2>1. k + 1 \in 1..(k + 1) /\ \A l \in 1..k : l \in 1..(k + 1)
    OBVIOUS
  <2> QED
    BY <1>9, <2>1 DEF SaidBy
<1>11. ~InPlace(st) => SaidBy(new.pkgs, file, k)
  BY <1>9 DEF SaidBy
<1>12. new \in DBs
  BY <1>6, <1>7, TypedDB
<1> QED
  BY <1>7, <1>10, <1>11, <1>12 DEF IsLoaded, new, r

LEMMA LoadedIs ==
  ASSUME FileInv
  PROVE  IsLoaded(Loaded, statusFile, Len(statusFile), world.removesHeld)
<1> DEFINE held == world.removesHeld
           listed == FoldLeft(InsertListed, Database, feed)
<1>1. /\ world \in Worlds /\ feed \in Seq(Stanza)
      /\ \A i \in DOMAIN feed : feed[i].want = "unknown" /\ feed[i].status = "not-installed"
      /\ statusFile \in Seq(Stanza) /\ IsOrderly(statusFile, held)
  BY WorldAssumption DEF FileInv
<1> HIDE DEF held
<1>2. /\ Len(feed) \in Nat /\ DOMAIN feed = 1..Len(feed) /\ \A i \in 1..Len(feed) : feed[i] \in Stanza
      /\ Len(statusFile) \in Nat /\ DOMAIN statusFile = 1..Len(statusFile)
      /\ \A i \in 1..Len(statusFile) : statusFile[i] \in Stanza
  BY <1>1
<1>3. \A i \in 1..Len(feed) : ~InPlace(feed[i]) /\ ~HeldGone(feed[i])
  BY <1>1, <1>2 DEF InPlace, HeldGone
<1>4. IsLoaded(listed, statusFile, 0, held) /\ listed \in DBs
  <2> DEFINE S == {db \in DBs : IsLoaded(db, statusFile, 0, held)}
             I == [i \in 0..Len(feed) |-> S]
  <2>1. listed = Lists!Fold(Database, feed)
    BY DEF Lists!Fold, Lists!FoldLeft, Lists!MapThenFoldSet, FoldLeft, MapThenFoldSet, Max, Lists!Max
  <2>2. IsLoaded(Database, statusFile, 0, held)
    BY NewDBIs
  <2>3. Database \in DBs
    <3>1. DBInv(Database.pkgs, Database.providedBy, Database.neededBy, held)
      BY <2>2 DEF IsLoaded
    <3> QED
      BY <3>1, TypedDB DEF Database
  <2>4. ASSUME NEW db \in S, NEW i \in 1..Len(feed) PROVE InsertListed(db, feed[i]) \in S
    <3>1. IsLoaded(db, statusFile, 0, held) /\ feed[i] \in Stanza /\ ~InPlace(feed[i]) /\ ~HeldGone(feed[i])
      BY <1>2, <1>3
    <3>2. /\ IsLoaded(HashInsert(db, Parsed(feed[i]), FALSE), statusFile, 0, held)
          /\ HashInsert(db, Parsed(feed[i]), FALSE) \in DBs
      BY <3>1, OneMoreLoaded
    <3> QED
      BY <3>2 DEF InsertListed
  <2>5. Database \in S
    BY <2>2, <2>3
  <2> HIDE DEF S
  <2>6. Database \in I[0] /\ \A i \in 1..Len(feed) : \A db \in I[i - 1] : InsertListed(db, feed[i]) \in I[i]
    BY <1>2, <2>4, <2>5
  <2>7. I[Len(feed)] = S
    BY <1>2
  <2> HIDE DEF I
  <2>8. Lists!Fold(Database, feed) \in I[Len(feed)]
    BY <1>2, <2>6, Lists!FoldStays
  <2> QED
    BY <2>1, <2>7, <2>8 DEF S
<1> HIDE DEF listed
<1>5. ASSUME NEW k \in Nat, k + 1 \in 1..Len(statusFile), NEW db, IsLoaded(db, statusFile, k, held)
      PROVE  /\ IsLoaded(InsertRecorded(db, statusFile[k + 1]), statusFile, k + 1, held)
             /\ InsertRecorded(db, statusFile[k + 1]) \in DBs
  <2> DEFINE st == statusFile[k + 1]
  <2>1. st \in Stanza /\ (HeldGone(st) => held) /\ (InPlace(st) => st.want # "deinstall")
    BY <1>1, <1>2, <1>5 DEF IsOrderly
  <2>2. InPlace(st) => \A l \in 1..k : InPlace(statusFile[l]) => statusFile[l].name # st.name
    <3>1. \A l \in 1..k : l \in 1..Len(statusFile) /\ l # k + 1
      BY <1>2, <1>5
    <3> QED
      BY <1>1, <1>2, <1>5, <3>1 DEF IsOrderly
  <2>3. st = statusFile[k + 1]
    OBVIOUS
  <2> HIDE DEF st
  <2>4. /\ IsLoaded(HashInsert(db, Parsed(st), TRUE), statusFile, k + 1, held)
        /\ HashInsert(db, Parsed(st), TRUE) \in DBs
    BY <1>5, <2>1, <2>2, <2>3, OneMoreLoaded
  <2> QED
    BY <2>4 DEF InsertRecorded, st
<1>6. IsLoaded(Loaded, statusFile, Len(statusFile), held)
  <2> DEFINE I == [i \in 0..Len(statusFile) |-> {db \in DBs : IsLoaded(db, statusFile, i, held)}]
  <2>1. Loaded = Recalls!Fold(listed, statusFile)
    BY DEF Recalls!Fold, Recalls!FoldLeft, Recalls!MapThenFoldSet, FoldLeft, MapThenFoldSet, Max,
           Recalls!Max, Loaded, listed
  <2>2. listed \in I[0]
    BY <1>2, <1>4
  <2>3. ASSUME NEW i \in 1..Len(statusFile), NEW db \in I[i - 1]
        PROVE  InsertRecorded(db, statusFile[i]) \in I[i]
    <3>1. i - 1 \in Nat /\ i - 1 \in 0..Len(statusFile) /\ i \in 0..Len(statusFile) /\ (i - 1) + 1 = i
      BY <1>2
    <3>2. IsLoaded(db, statusFile, i - 1, held)
      BY <3>1
    <3>3. /\ IsLoaded(InsertRecorded(db, statusFile[i]), statusFile, i, held)
          /\ InsertRecorded(db, statusFile[i]) \in DBs
      BY <1>5, <3>1, <3>2
    <3> QED
      BY <3>1, <3>3
  <2>4. \A db \in I[Len(statusFile)] : IsLoaded(db, statusFile, Len(statusFile), held)
    BY <1>2
  <2> HIDE DEF I
  <2>5. Recalls!Fold(listed, statusFile) \in I[Len(statusFile)]
    BY <1>2, <2>2, <2>3, Recalls!FoldStays
  <2> QED
    BY <2>1, <2>4, <2>5
<1> QED
  BY <1>6 DEF held

(***************************************************************************)
(* The owners of files.                                                    *)
(***************************************************************************)
Owning    == INSTANCE FoldTheorems WITH Op <- OwnFile
Disowning == INSTANCE FoldTheorems WITH Op <- Disown

FileTables == [FT!Bucket -> Seq(FT!Entry(File, Reference))]

Claim == [file : File, owner : Reference]

LEMMA TypedFileTable ==
  \A t : FileTableInv(t) => t \in FileTables
BY DEF FileTableInv, FT!IsTable, FileTables

\* After k claims a file is owned by one who claimed it, if any did.
IsClaimed(u, t, s, k) ==
  /\ FileTableInv(u)
  /\ \A f \in File :
       \/ \E i \in 1..k : s[i].file = f /\ FileTable!Lookup(u, f) = s[i].owner
       \/ (\A i \in 1..k : s[i].file # f) /\ FileTable!Lookup(u, f) = FileTable!Lookup(t, f)

LEMMA ClaimedIs ==
  ASSUME NEW t, FileTableInv(t), NEW s \in Seq(Claim)
  PROVE  IsClaimed(FoldLeft(OwnFile, t, s), t, s, Len(s))
<1> DEFINE I == [i \in 0..Len(s) |-> {u \in FileTables : IsClaimed(u, t, s, i)}]
<1>1. Len(s) \in Nat /\ DOMAIN s = 1..Len(s) /\ \A i \in 1..Len(s) : s[i] \in Claim
  OBVIOUS
<1>2. FoldLeft(OwnFile, t, s) = Owning!Fold(t, s)
  BY DEF Owning!Fold, Owning!FoldLeft, Owning!MapThenFoldSet, FoldLeft, MapThenFoldSet, Max, Owning!Max
<1>3. t \in I[0]
  <2>1. IsClaimed(t, t, s, 0)
    BY DEF IsClaimed
  <2> QED
    BY <1>1, <2>1, TypedFileTable
<1>4. ASSUME NEW i \in 1..Len(s), NEW u \in I[i - 1] PROVE OwnFile(u, s[i]) \in I[i]
  <2> DEFINE w == OwnFile(u, s[i])
             f == s[i].file
             p == s[i].owner
  <2>1. i - 1 \in 0..Len(s) /\ i \in 0..Len(s)
    BY <1>1
  <2>2. IsClaimed(u, t, s, i - 1)
    BY <2>1
  <2>3. f \in File /\ p \in Reference
    BY <1>1 DEF Claim
  <2>4. w = FileTable!Insert(u, f, p)
    BY DEF OwnFile
  <2>5. f = s[i].file /\ p = s[i].owner
    OBVIOUS
  <2> HIDE DEF w, f, p
  <2>6. /\ FileTableInv(w)
        /\ \A g \in File : FileTable!Lookup(w, g) = IF g = f THEN p ELSE FileTable!Lookup(u, g)
    BY <2>2, <2>3, <2>4, FileInsertIs DEF IsClaimed
  <2>7. \A j \in 1..i : j = i \/ j \in 1..(i - 1)
    BY <1>1
  <2>8. i \in 1..i /\ \A j \in 1..(i - 1) : j \in 1..i
    BY <1>1
  <2>9. ASSUME NEW g \in File
        PROVE  \/ \E j \in 1..i : s[j].file = g /\ FileTable!Lookup(w, g) = s[j].owner
               \/ (\A j \in 1..i : s[j].file # g) /\ FileTable!Lookup(w, g) = FileTable!Lookup(t, g)
    <3>1. CASE g = f
      BY <2>5, <2>6, <2>8, <3>1
    <3>2. CASE g # f
      <4>1. FileTable!Lookup(w, g) = FileTable!Lookup(u, g)
        BY <2>6, <3>2
      <4>2. \/ \E j \in 1..(i - 1) : s[j].file = g /\ FileTable!Lookup(u, g) = s[j].owner
            \/ (\A j \in 1..(i - 1) : s[j].file # g) /\ FileTable!Lookup(u, g) = FileTable!Lookup(t, g)
        BY <2>2 DEF IsClaimed
      <4> QED
        BY <2>5, <2>7, <2>8, <3>2, <4>1, <4>2
    <3> QED
      BY <3>1, <3>2
  <2>10. IsClaimed(w, t, s, i)
    BY <2>6, <2>9 DEF IsClaimed
  <2> QED
    BY <2>1, <2>6, <2>10, TypedFileTable DEF w
<1>5. \A u \in I[Len(s)] : IsClaimed(u, t, s, Len(s))
  BY <1>1
<1> HIDE DEF I
<1>6. Owning!Fold(t, s) \in I[Len(s)]
  BY <1>1, <1>3, <1>4, Owning!FoldStays
<1> QED
  BY <1>2, <1>5, <1>6

IsDisowned(u, t, s, k) ==
  /\ FileTableInv(u)
  /\ \A f \in File : FileTable!Lookup(u, f) = IF \E i \in 1..k : s[i] = f THEN NoData
                                              ELSE FileTable!Lookup(t, f)

LEMMA DisownedIs ==
  ASSUME NEW t, FileTableInv(t), NEW s \in Seq(File)
  PROVE  IsDisowned(FoldLeft(Disown, t, s), t, s, Len(s))
<1> DEFINE I == [i \in 0..Len(s) |-> {u \in FileTables : IsDisowned(u, t, s, i)}]
<1>1. Len(s) \in Nat /\ DOMAIN s = 1..Len(s) /\ \A i \in 1..Len(s) : s[i] \in File
  OBVIOUS
<1>2. FoldLeft(Disown, t, s) = Disowning!Fold(t, s)
  BY DEF Disowning!Fold, Disowning!FoldLeft, Disowning!MapThenFoldSet, FoldLeft, MapThenFoldSet, Max,
         Disowning!Max
<1>3. t \in I[0]
  <2>1. IsDisowned(t, t, s, 0)
    BY DEF IsDisowned
  <2> QED
    BY <1>1, <2>1, TypedFileTable
<1>4. ASSUME NEW i \in 1..Len(s), NEW u \in I[i - 1] PROVE Disown(u, s[i]) \in I[i]
  <2> DEFINE w == Disown(u, s[i])
             f == s[i]
  <2>1. i - 1 \in 0..Len(s) /\ i \in 0..Len(s) /\ f \in File
    BY <1>1
  <2>2. IsDisowned(u, t, s, i - 1)
    BY <2>1
  <2>3. w = FileTable!Delete(u, f)
    BY DEF Disown
  <2>4. f = s[i]
    OBVIOUS
  <2> HIDE DEF w, f
  <2>5. /\ FileTableInv(w)
        /\ \A g \in File : FileTable!Lookup(w, g) = IF g = f THEN NoData ELSE FileTable!Lookup(u, g)
    BY <2>1, <2>2, <2>3, FileDeleteIs DEF IsDisowned
  <2>6. \A j \in 1..i : j = i \/ j \in 1..(i - 1)
    BY <1>1
  <2>7. i \in 1..i /\ \A j \in 1..(i - 1) : j \in 1..i
    BY <1>1
  <2>8. \A g \in File : (\E j \in 1..i : s[j] = g) <=> (g = f \/ \E j \in 1..(i - 1) : s[j] = g)
    BY <2>4, <2>6, <2>7
  <2>9. IsDisowned(w, t, s, i)
    BY <2>2, <2>5, <2>8 DEF IsDisowned
  <2> QED
    BY <2>1, <2>5, <2>9, TypedFileTable DEF w
<1>5. \A u \in I[Len(s)] : IsDisowned(u, t, s, Len(s))
  BY <1>1
<1> HIDE DEF I
<1>6. Disowning!Fold(t, s) \in I[Len(s)]
  BY <1>1, <1>3, <1>4, Disowning!FoldStays
<1> QED
  BY <1>2, <1>5, <1>6

IsClaimOf(c, p, files) ==
  /\ c \in Seq(Claim)
  /\ \A i \in 1..Len(c) : c[i].owner = p /\ c[i].file \in files
  /\ \A f \in files : \E i \in 1..Len(c) : c[i].file = f

LEMMA ClaimsAre ==
  ASSUME NEW p \in Reference, NEW files \in SUBSET File
  PROVE  IsClaimOf(Claims(p, files), p, files)
<1> DEFINE list == SetToSeq(files)
           c == [i \in DOMAIN list |-> [file |-> list[i], owner |-> p]]
<1>1. /\ list \in Seq(files) /\ list \in Seq(File)
      /\ \A f \in files : \E i \in 1..Len(list) : list[i] = f
  BY TableAssumption, SetToSeqIs
<1>2. Claims(p, files) = c
  BY DEF Claims
<1> HIDE DEF list
<1>3. Len(list) \in Nat /\ DOMAIN list = 1..Len(list) /\ \A i \in 1..Len(list) : list[i] \in files
  BY <1>1
<1>4. \A i \in 1..Len(list) : [file |-> list[i], owner |-> p] \in Claim
  BY <1>3 DEF Claim
<1>5. c \in Seq(Claim) /\ Len(c) = Len(list)
  BY <1>3, <1>4
<1>6. \A i \in 1..Len(list) : c[i].owner = p /\ c[i].file = list[i]
  BY <1>3
<1> HIDE DEF c
<1> QED
  BY <1>1, <1>2, <1>3, <1>5, <1>6 DEF IsClaimOf

LEMMA OwnIs ==
  ASSUME NEW t, FileTableInv(t), NEW p \in Reference, NEW files \in SUBSET File
  PROVE  /\ FileTableInv(Own(t, p, files))
         /\ \A f \in File : FileTable!Lookup(Own(t, p, files), f) =
                              IF f \in files THEN p ELSE FileTable!Lookup(t, f)
<1> DEFINE c == Claims(p, files)
           u == Own(t, p, files)
<1>1. c \in Seq(Claim) /\ IsClaimOf(c, p, files)
  BY ClaimsAre DEF IsClaimOf
<1>2. u = FoldLeft(OwnFile, t, c)
  BY DEF Own
<1> HIDE DEF c, u
<1>3. IsClaimed(u, t, c, Len(c))
  BY <1>1, <1>2, ClaimedIs
<1>4. FileTableInv(u)
      /\ \A f \in File : FileTable!Lookup(u, f) = IF f \in files THEN p ELSE FileTable!Lookup(t, f)
  BY <1>1, <1>3 DEF IsClaimed, IsClaimOf
<1> QED
  BY <1>4 DEF u

LEMMA DisownAllIs ==
  ASSUME NEW t, FileTableInv(t), NEW S \in SUBSET File
  PROVE  /\ FileTableInv(FoldLeft(Disown, t, SetToSeq(S)))
         /\ \A f \in File : FileTable!Lookup(FoldLeft(Disown, t, SetToSeq(S)), f) =
                              IF f \in S THEN NoData ELSE FileTable!Lookup(t, f)
<1> DEFINE list == SetToSeq(S)
           u == FoldLeft(Disown, t, list)
<1>1. /\ list \in Seq(S) /\ list \in Seq(File)
      /\ \A f \in S : \E i \in 1..Len(list) : list[i] = f
  BY TableAssumption, SetToSeqIs
<1> HIDE DEF list
<1>2. \A i \in 1..Len(list) : list[i] \in S
  BY <1>1
<1>3. IsDisowned(u, t, list, Len(list))
  BY <1>1, DisownedIs
<1> HIDE DEF u
<1>4. FileTableInv(u)
      /\ \A f \in File : FileTable!Lookup(u, f) = IF f \in S THEN NoData ELSE FileTable!Lookup(t, f)
  BY <1>1, <1>2, <1>3 DEF IsDisowned
<1> QED
  BY <1>4 DEF u, list

LEMMA DerefIs ==
  ASSUME NEW t, PkgTableInv(t), NEW p \in Reference, IsPlaced(t, p)
  PROVE  Deref(t, p) \in Record /\ Deref(t, p).files \in SUBSET File
<1>1. Vec(t, p.name) \in Seq(Record) /\ p.place \in 1..Len(Vec(t, p.name))
  BY VecIs DEF IsPlaced
<1>2. Deref(t, p) \in Record
  BY <1>1 DEF Deref
<1> QED
  BY <1>2 DEF Record

\* Of two packages in place none has a file of the other.
NoneShared(table) ==
  \A p, q \in Reference :
    /\ IsPlaced(table, p) /\ InPlace(Deref(table, p))
    /\ IsPlaced(table, q) /\ InPlace(Deref(table, q))
    /\ Deref(table, p).files \cap Deref(table, q).files # {}
    => p = q

LEMMA OwnersAre ==
  ASSUME NEW t, PkgTableInv(t), NoneShared(t)
  PROVE  FileTableInv(Owners(t)) /\ OwnersInv(t, Owners(t))
<1> DEFINE ps == Pointers(t)
           s == [i \in DOMAIN ps |-> LET r == Deref(t, ps[i])
                                     IN  IF InPlace(r) THEN Claims(ps[i], r.files) ELSE <<>>]
           all == FlattenSeq(s)
           u == Owners(t)
<1>1. /\ ps \in Seq(Reference) /\ Len(ps) \in Nat /\ DOMAIN ps = 1..Len(ps)
      /\ \A i \in 1..Len(ps) : ps[i] \in Reference /\ IsPlaced(t, ps[i])
      /\ \A p \in Reference : IsPlaced(t, p) => \E i \in 1..Len(ps) : ps[i] = p
  <2>1. ps \in Seq(Reference)
    BY PointersIs
  <2>2. /\ \A i \in 1..Len(ps) : IsPlaced(t, ps[i])
        /\ \A p \in Reference : IsPlaced(t, p) => \E i \in 1..Len(ps) : ps[i] = p
    BY PointersIs
  <2> HIDE DEF ps
  <2> QED
    BY <2>1, <2>2
<1>2. u = FoldLeft(OwnFile, FileTable!NewTable, all)
  BY DEF Owners
<1> HIDE DEF ps, u
<1>3. \A i \in 1..Len(ps) :
        /\ InPlace(Deref(t, ps[i])) => IsClaimOf(s[i], ps[i], Deref(t, ps[i]).files)
        /\ ~InPlace(Deref(t, ps[i])) => s[i] = <<>>
  <2> SUFFICES ASSUME NEW i \in 1..Len(ps)
               PROVE  /\ InPlace(Deref(t, ps[i])) => IsClaimOf(s[i], ps[i], Deref(t, ps[i]).files)
                      /\ ~InPlace(Deref(t, ps[i])) => s[i] = <<>>
    OBVIOUS
  <2> DEFINE p == ps[i]
             r == Deref(t, p)
  <2>1. p \in Reference /\ r.files \in SUBSET File
    BY <1>1, DerefIs
  <2>2. s[i] = IF InPlace(r) THEN Claims(p, r.files) ELSE <<>>
    BY <1>1
  <2> HIDE DEF p, r, s
  <2>3. IsClaimOf(Claims(p, r.files), p, r.files)
    BY <2>1, ClaimsAre
  <2> QED
    BY <2>2, <2>3 DEF p, r
<1>4. DOMAIN s = 1..Len(ps) /\ Len(s) = Len(ps)
  BY <1>1
<1> HIDE DEF s
<1>5. s \in Seq(Seq(Claim))
  <2>1. \A i \in 1..Len(ps) : s[i] \in Seq(Claim)
    <3>1. <<>> \in Seq(Claim)
      OBVIOUS
    <3> QED
      BY <1>3, <3>1 DEF IsClaimOf
  <2>2. s = [i \in 1..Len(ps) |-> s[i]]
    <3>1. \E z : s = [i \in 1..Len(ps) |-> z[i]]
      <4>1. s = [i \in 1..Len(ps) |-> s[i]]
        BY <1>1, <1>4 DEF s
      <4> QED
        BY <4>1
    <3> QED
      BY <3>1
  <2> QED
    BY <1>1, <2>1, <2>2
<1>6. all \in Seq(Claim) /\ \E x, y : Flattened(s, all, x, y)
  BY <1>5, FlattenSeqPlaces
<1>7. PICK x, y : Flattened(s, all, x, y)
  BY <1>6
<1> HIDE DEF all
<1>8. FlattenedUpto(Len(ps), s, all, x, y) /\ DOMAIN all = 1..Len(all)
  BY <1>4, <1>6, <1>7 DEF Flattened
<1>9. \A k \in 1..Len(all) : \E p \in Reference :
        /\ IsPlaced(t, p) /\ InPlace(Deref(t, p))
        /\ all[k].owner = p /\ all[k].file \in Deref(t, p).files
  <2> SUFFICES ASSUME NEW k \in 1..Len(all)
               PROVE  \E p \in Reference : /\ IsPlaced(t, p) /\ InPlace(Deref(t, p))
                                           /\ all[k].owner = p /\ all[k].file \in Deref(t, p).files
    OBVIOUS
  <2> DEFINE i == x[k]
  <2>1. i \in 1..Len(ps) /\ y[k] \in DOMAIN s[i] /\ all[k] = s[i][y[k]]
    BY <1>8 DEF FlattenedUpto
  <2> HIDE DEF i
  <2>2. InPlace(Deref(t, ps[i]))
    <3>1. DOMAIN (<<>>) = {}
      OBVIOUS
    <3> QED
      BY <1>3, <2>1, <3>1
  <2>3. IsClaimOf(s[i], ps[i], Deref(t, ps[i]).files)
    BY <1>3, <2>1, <2>2
  <2>4. DOMAIN s[i] = 1..Len(s[i])
    BY <2>3 DEF IsClaimOf
  <2>5. all[k].owner = ps[i] /\ all[k].file \in Deref(t, ps[i]).files
    BY <2>1, <2>3, <2>4 DEF IsClaimOf
  <2>6. ps[i] \in Reference /\ IsPlaced(t, ps[i])
    BY <1>1, <2>1
  <2> QED
    BY <2>2, <2>5, <2>6
<1>10. ASSUME NEW p \in Reference, IsPlaced(t, p), InPlace(Deref(t, p)), NEW f \in Deref(t, p).files
       PROVE  \E k \in 1..Len(all) : all[k].file = f
  <2>1. PICK i \in 1..Len(ps) : ps[i] = p
    BY <1>1, <1>10
  <2>2. IsClaimOf(s[i], p, Deref(t, p).files)
    BY <1>3, <1>10, <2>1
  <2>3. PICK j \in 1..Len(s[i]) : s[i][j].file = f
    BY <2>2 DEF IsClaimOf
  <2>4. j \in DOMAIN s[i]
    BY <2>2, <2>3 DEF IsClaimOf
  <2>5. PICK k \in DOMAIN all : x[k] = i /\ y[k] = j
    BY <1>8, <2>1, <2>4 DEF FlattenedUpto
  <2>6. all[k] = s[i][j]
    BY <1>8, <2>5 DEF FlattenedUpto
  <2> QED
    BY <1>8, <2>3, <2>5, <2>6
<1>11. /\ FileTableInv(FileTable!NewTable)
       /\ \A f \in File : FileTable!Lookup(FileTable!NewTable, f) = NoData
  BY FileTableIs
<1>12. IsClaimed(u, FileTable!NewTable, all, Len(all))
  BY <1>2, <1>6, <1>11, ClaimedIs
<1>13. ASSUME NEW f \in File, FileTable!Lookup(u, f) # NoData
       PROVE  /\ FileTable!Lookup(u, f) \in Reference
              /\ IsPlaced(t, FileTable!Lookup(u, f)) /\ InPlace(Deref(t, FileTable!Lookup(u, f)))
              /\ f \in Deref(t, FileTable!Lookup(u, f)).files
  <2>1. PICK k \in 1..Len(all) : all[k].file = f /\ FileTable!Lookup(u, f) = all[k].owner
    BY <1>11, <1>12, <1>13 DEF IsClaimed
  <2> QED
    BY <1>9, <2>1
<1>14. ASSUME NEW p \in Reference, IsPlaced(t, p), InPlace(Deref(t, p)), NEW f \in Deref(t, p).files
       PROVE  FileTable!Lookup(u, f) = p
  <2>1. f \in File
    BY <1>14, DerefIs
  <2>2. PICK k \in 1..Len(all) : all[k].file = f
    BY <1>10, <1>14
  <2>3. PICK l \in 1..Len(all) : all[l].file = f /\ FileTable!Lookup(u, f) = all[l].owner
    BY <1>12, <2>1, <2>2 DEF IsClaimed
  <2>4. PICK q \in Reference : /\ IsPlaced(t, q) /\ InPlace(Deref(t, q))
                               /\ all[l].owner = q /\ f \in Deref(t, q).files
    BY <1>9, <2>3
  <2>5. Deref(t, p).files \cap Deref(t, q).files # {}
    BY <1>14, <2>4
  <2> QED
    BY <1>14, <2>3, <2>4, <2>5 DEF NoneShared
<1>15. OwnersInv(t, u)
  BY <1>13, <1>14 DEF OwnersInv
<1> QED
  BY <1>12, <1>15 DEF IsClaimed, u

(***************************************************************************)
(* Records change; what their package is, and has, does not.               *)
(***************************************************************************)
Alike(x, r) ==
  /\ x \in Record
  /\ x.name = r.name /\ x.v = r.v /\ x.arch = r.arch /\ x.needs = r.needs
  /\ x.provides = r.provides /\ x.files = r.files

AllAlike(new, vec) ==
  /\ new \in Seq(Record) /\ Len(new) = Len(vec)
  /\ \A i \in 1..Len(vec) : Alike(new[i], vec[i])

\* What install, remove, configure and flag make of a record.
LEMMA ChangesAreAlike ==
  ASSUME NEW r \in Record, NEW want \in Wants, NEW status \in Statuses, NEW flags \in SUBSET Flags,
         NEW auto \in BOOLEAN
  PROVE  /\ Alike(r, r)
         /\ Alike([r EXCEPT !.want = want, !.status = status, !.flags = flags, !.auto = auto], r)
         /\ Alike([r EXCEPT !.want = want, !.status = status, !.flags = flags], r)
         /\ Alike([r EXCEPT !.want = want, !.status = status], r)
         /\ Alike([r EXCEPT !.status = status], r)
         /\ Alike([r EXCEPT !.flags = flags], r)
<1>1. Alike(r, r)
  BY DEF Alike
<1>2. Alike([r EXCEPT !.want = want, !.status = status, !.flags = flags, !.auto = auto], r)
  BY DEF Alike, Record
<1>3. Alike([r EXCEPT !.want = want, !.status = status, !.flags = flags], r)
  BY DEF Alike, Record
<1>4. Alike([r EXCEPT !.want = want, !.status = status], r)
  BY DEF Alike, Record
<1>5. Alike([r EXCEPT !.status = status], r)
  BY DEF Alike, Record
<1>6. Alike([r EXCEPT !.flags = flags], r)
  BY DEF Alike, Record
<1> QED
  BY <1>1, <1>2, <1>3, <1>4, <1>5, <1>6

LEMMA ExceptIs ==
  ASSUME NEW S, NEW s \in Seq(S), NEW i \in 1..Len(s), NEW x \in S
  PROVE  /\ [s EXCEPT ![i] = x] \in Seq(S) /\ Len([s EXCEPT ![i] = x]) = Len(s)
         /\ [s EXCEPT ![i] = x][i] = x
         /\ \A j \in 1..Len(s) : j # i => [s EXCEPT ![i] = x][j] = s[j]
OBVIOUS

DiffersAt(new, vec, i, x) ==
  /\ AllAlike(new, vec) /\ new[i] = x
  /\ \A j \in 1..Len(vec) : j # i => new[j] = vec[j]

LEMMA OneChanged ==
  ASSUME NEW vec \in Seq(Record), NEW i \in 1..Len(vec), NEW x, Alike(x, vec[i]),
         NEW new, new = [vec EXCEPT ![i] = x]
  PROVE  DiffersAt(new, vec, i, x)
<1>1. /\ Len(vec) \in Nat /\ DOMAIN vec = 1..Len(vec) /\ x \in Record
      /\ \A j \in 1..Len(vec) : vec[j] \in Record
  BY DEF Alike
<1>2. new \in Seq(Record) /\ Len(new) = Len(vec) /\ new[i] = x
      /\ \A j \in 1..Len(vec) : j # i => new[j] = vec[j]
  BY <1>1
<1>3. \A j \in 1..Len(vec) : Alike(vec[j], vec[j])
  BY <1>1 DEF Alike
<1>4. AllAlike(new, vec)
  BY <1>2, <1>3 DEF AllAlike
<1> QED
  BY <1>2, <1>4 DEF DiffersAt

\* Of the versions that were in place, a package that is installed leaves none.
IsRetired(new, vec, i, x) ==
  /\ AllAlike(new, vec) /\ new[i] = x
  /\ \A j \in 1..Len(vec) : j # i => ~InPlace(new[j]) /\ new[j].flags = vec[j].flags
                                     /\ (InPlace(vec[j]) \/ new[j] = vec[j])

LEMMA RetiredIs ==
  ASSUME NEW vec \in Seq(Record), NEW i \in 1..Len(vec), NEW x, Alike(x, vec[i]),
         NEW new, new = [Retired(vec, i) EXCEPT ![i] = x]
  PROVE  IsRetired(new, vec, i, x)
<1> DEFINE old == Retired(vec, i)
           Gone(r) == [r EXCEPT !.want = "deinstall", !.status = "not-installed"]
<1>1. /\ Len(vec) \in Nat /\ DOMAIN vec = 1..Len(vec) /\ x \in Record
      /\ \A j \in 1..Len(vec) : vec[j] \in Record
  BY DEF Alike
<1>2. DOMAIN old = 1..Len(vec)
      /\ \A j \in 1..Len(vec) : old[j] = IF j # i /\ InPlace(vec[j]) THEN Gone(vec[j]) ELSE vec[j]
  BY <1>1 DEF Retired
<1>3. \A r \in Record : Alike(Gone(r), r) /\ Alike(r, r) /\ Gone(r).flags = r.flags
                        /\ Gone(r).status = "not-installed"
  <2> SUFFICES ASSUME NEW r \in Record
               PROVE  /\ Alike(Gone(r), r) /\ Alike(r, r) /\ Gone(r).flags = r.flags
                      /\ Gone(r).status = "not-installed"
    OBVIOUS
  <2>1. Gone(r).flags = r.flags /\ Gone(r).status = "not-installed"
    BY DEF Record
  <2>2. Alike(r, r)
    BY DEF Alike
  <2>3. Alike(Gone(r), r)
    <3> DEFINE want   == "deinstall"
               status == "not-installed"
    <3>1. want \in Wants /\ status \in Statuses
      BY DEF Wants, Statuses
    <3>2. Gone(r) = [r EXCEPT !.want = want, !.status = status]
      OBVIOUS
    <3> HIDE DEF want, status, Gone
    <3> QED
      BY <3>1, <3>2 DEF Alike, Record
  <2> QED
    BY <2>1, <2>2, <2>3
<1> HIDE DEF Gone
<1>4. \A j \in 1..Len(vec) : Alike(old[j], vec[j]) /\ old[j].flags = vec[j].flags
                             /\ (j # i => ~InPlace(old[j]) /\ (InPlace(vec[j]) \/ old[j] = vec[j]))
  BY <1>1, <1>2, <1>3 DEF InPlace
<1> HIDE DEF old
<1>5. \E z : old = [j \in 1..Len(vec) |-> z[j]]
  <2>1. old = [j \in 1..Len(vec) |-> old[j]]
    BY <1>1 DEF old, Retired
  <2> QED
    BY <2>1
<1>6. old \in Seq(Record) /\ Len(old) = Len(vec)
  BY <1>1, <1>4, <1>5 DEF Alike
<1>7. new = [old EXCEPT ![i] = x] /\ DOMAIN old = 1..Len(vec)
  BY <1>2 DEF old
<1>8. new \in Seq(Record) /\ Len(new) = Len(vec) /\ new[i] = x
      /\ \A j \in 1..Len(vec) : j # i => new[j] = old[j]
  <2>1. i \in 1..Len(old) /\ x \in Record /\ old \in Seq(Record) /\ Len(old) = Len(vec)
    BY <1>1, <1>6
  <2>2. /\ [old EXCEPT ![i] = x] \in Seq(Record) /\ Len([old EXCEPT ![i] = x]) = Len(old)
        /\ [old EXCEPT ![i] = x][i] = x
        /\ \A j \in 1..Len(old) : j # i => [old EXCEPT ![i] = x][j] = old[j]
    BY <2>1, ExceptIs
  <2> QED
    BY <1>7, <2>1, <2>2
<1>9. AllAlike(new, vec)
  BY <1>4, <1>8 DEF AllAlike
<1> QED
  BY <1>4, <1>8, <1>9 DEF IsRetired

\* The table in which the vector of n is another one.
IsChanged(u, t, n, new) ==
  \A p \in Reference :
    /\ IsPlaced(u, p) <=> IsPlaced(t, p)
    /\ IsPlaced(t, p) => /\ Deref(u, p).files = Deref(t, p).files
                         /\ Deref(u, p) = IF p.name = n THEN new[p.place] ELSE Deref(t, p)

LEMMA VecChanged ==
  ASSUME NEW t, NEW P, NEW D, NEW held, DBInv(t, P, D, held), NEW n \in Names,
         NEW new, AllAlike(new, Vec(t, n)), OneInPlace(new), NoneUnwanted(new),
         held \/ NoneHeldGone(new),
         NEW u, u = PkgTable!Insert(t, n, new)
  PROVE  DBInv(u, P, D, held) /\ IsChanged(u, t, n, new)
<1> DEFINE vec == Vec(t, n)
<1>1. /\ PkgTableInv(t) /\ P \in Index /\ D \in Index
      /\ \A m \in Names : /\ AllLinked(Vec(t, m), m, P, D)
                          /\ OneInPlace(Vec(t, m)) /\ NoneUnwanted(Vec(t, m))
                          /\ held \/ (Distinct(Vec(t, m)) /\ NoneHeldGone(Vec(t, m)))
  BY DEF DBInv
<1>2. AllLinked(vec, n, P, D) /\ (held \/ Distinct(vec))
  BY <1>1
<1>3. vec \in Seq(Record)
  BY <1>1, VecIs
<1>4. AllAlike(new, vec)
  OBVIOUS
<1>5. new \in Seq(Record)
  BY DEF AllAlike
<1>6. /\ PkgTableInv(u)
      /\ \A m \in Names : Vec(u, m) = IF m = n THEN new ELSE Vec(t, m)
  BY <1>1, <1>5, PkgInsertIs DEF HasVec
<1> HIDE DEF vec
<1>7. /\ DOMAIN new = 1..Len(vec) /\ DOMAIN vec = 1..Len(vec) /\ Len(vec) \in Nat /\ Len(new) = Len(vec)
      /\ \A i \in 1..Len(vec) : Alike(new[i], vec[i])
  BY <1>3, <1>4 DEF AllAlike
<1>8. AllLinked(new, n, P, D)
  <2>1. \A i \in 1..Len(vec) : Needed(new[i]) = Needed(vec[i]) /\ new[i].name = vec[i].name
                               /\ new[i].provides = vec[i].provides
    BY <1>7 DEF Alike, Needed
  <2> QED
    BY <1>2, <1>7, <2>1 DEF AllLinked, IsLinked
<1>9. held \/ (Distinct(new) /\ NoneHeldGone(new))
  <2> SUFFICES ASSUME ~held PROVE Distinct(new) /\ NoneHeldGone(new)
    OBVIOUS
  <2>1. NoneHeldGone(new) /\ Distinct(vec)
    BY <1>2
  <2>2. \A i, j \in 1..Len(vec) : SameRecord(new[j], new[i]) => SameRecord(vec[j], vec[i])
    <3> SUFFICES ASSUME NEW i \in 1..Len(vec), NEW j \in 1..Len(vec), SameRecord(new[j], new[i])
                 PROVE  SameRecord(vec[j], vec[i])
      OBVIOUS
    <3>1. ~HeldGone(new[j])
      BY <1>7, <2>1 DEF NoneHeldGone
    <3>2. CompareVersions(new[j].v, new[i].v) = 0 /\ new[j].arch = new[i].arch
      BY <3>1 DEF SameRecord
    <3>3. new[j].v = vec[j].v /\ new[i].v = vec[i].v /\ new[j].arch = vec[j].arch /\ new[i].arch = vec[i].arch
      BY <1>7 DEF Alike
    <3> QED
      BY <3>2, <3>3 DEF SameRecord
  <2> QED
    BY <1>7, <2>1, <2>2 DEF Distinct
<1>10. \A m \in Names :
         /\ AllLinked(Vec(u, m), m, P, D)
         /\ OneInPlace(Vec(u, m)) /\ NoneUnwanted(Vec(u, m))
         /\ held \/ (Distinct(Vec(u, m)) /\ NoneHeldGone(Vec(u, m)))
  BY <1>1, <1>6, <1>8, <1>9
<1>11. DBInv(u, P, D, held)
  BY <1>1, <1>6, <1>10 DEF DBInv
<1>12. ASSUME NEW p \in Reference
       PROVE  /\ IsPlaced(u, p) <=> IsPlaced(t, p)
              /\ IsPlaced(t, p) => /\ Deref(u, p).files = Deref(t, p).files
                                   /\ Deref(u, p) = IF p.name = n THEN new[p.place] ELSE Deref(t, p)
  <2>1. CASE p.name = n
    <3>1. Vec(u, p.name) = new /\ Vec(t, p.name) = vec
      BY <1>6, <2>1 DEF vec
    <3>2. IsPlaced(u, p) <=> IsPlaced(t, p)
      BY <1>7, <3>1 DEF IsPlaced
    <3>3. ASSUME IsPlaced(t, p) PROVE new[p.place].files = vec[p.place].files
      BY <1>7, <3>1, <3>3 DEF IsPlaced, Alike
    <3> QED
      BY <2>1, <3>1, <3>2, <3>3 DEF Deref
  <2>2. CASE p.name # n
    BY <1>6, <2>2 DEF IsPlaced, Deref
  <2> QED
    BY <2>1, <2>2
<1>13. IsChanged(u, t, n, new)
  BY <1>12 DEF IsChanged
<1> QED
  BY <1>11, <1>13

LEMMA CurrentIs ==
  ASSUME NEW n \in Names, PkgTableInv(pkgHash), OneInPlace(Vec(pkgHash, n))
  PROVE  /\ \A j \in 1..Len(Vec(pkgHash, n)) : InPlace(Vec(pkgHash, n)[j]) => Current(n) = j
         /\ Current(n) # 0 => Current(n) \in 1..Len(Vec(pkgHash, n)) /\ InPlace(Vec(pkgHash, n)[Current(n)])
<1> DEFINE vec == Vec(pkgHash, n)
           T == {i \in 1..Len(vec) : InPlace(vec[i])}
<1>1. vec \in Seq(Record) /\ OneInPlace(vec)
  BY VecIs
<1>2. Current(n) = IF T # {} THEN Min(T) ELSE 0
  BY DEF Current, SelectInSeq
<1> HIDE DEF vec
<1>3. T \in SUBSET Nat /\ DOMAIN vec = 1..Len(vec) /\ Len(vec) \in Nat
  BY <1>1
<1>4. \A j \in T : j \in 1..Len(vec) /\ InPlace(vec[j]) /\ j # 0
  BY <1>3
<1>5. \A j \in 1..Len(vec) : InPlace(vec[j]) => j \in T
  OBVIOUS
<1> HIDE DEF T
<1>6. T # {} => Min(T) \in T
  BY <1>3, MinOfSet
<1>7. \A i, j \in T : i = j
  BY <1>1, <1>3, <1>4 DEF OneInPlace
<1> QED
  BY <1>2, <1>4, <1>5, <1>6, <1>7 DEF vec

(***************************************************************************)
(* Every step keeps the invariant.                                         *)
(***************************************************************************)

\* No two packages in place share a file: of those that are loaded, as the
\* status file has it; of those that are there, because each file has one owner.
LEMMA LoadedShareNothing ==
  ASSUME NEW db, NEW file, file \in Seq(Stanza), NEW held, IsOrderly(file, held),
         IsLoaded(db, file, Len(file), held)
  PROVE  NoneShared(db.pkgs)
<1> DEFINE t == db.pkgs
<1>1. /\ SaidBy(t, file, Len(file)) /\ PkgTableInv(t)
      /\ \A n \in Names : OneInPlace(Vec(t, n))
  BY DEF IsLoaded, DBInv
<1> HIDE DEF t
<1>2. ASSUME NEW p \in Reference, IsPlaced(t, p), InPlace(Deref(t, p))
      PROVE  /\ p.name \in Names /\ p.place \in DOMAIN Vec(t, p.name)
             /\ \E l \in 1..Len(file) : /\ InPlace(file[l]) /\ file[l].name = p.name
                                        /\ file[l].files = Deref(t, p).files
  <2>1. p.name \in Names /\ p.place \in 1..Len(Vec(t, p.name))
    BY <1>2 DEF IsPlaced
  <2>2. Vec(t, p.name) \in Seq(Record)
    BY <1>1, <2>1, VecIs
  <2>3. p.place \in DOMAIN Vec(t, p.name)
    BY <2>1, <2>2
  <2> QED
    BY <1>1, <1>2, <2>1, <2>3 DEF SaidBy, Deref
<1>3. DOMAIN file = 1..Len(file)
  OBVIOUS
<1>4. ASSUME NEW p \in Reference, NEW q \in Reference,
             IsPlaced(t, p), InPlace(Deref(t, p)), IsPlaced(t, q), InPlace(Deref(t, q)),
             Deref(t, p).files \cap Deref(t, q).files # {}
      PROVE  p = q
  <2>1. PICK k \in 1..Len(file) : InPlace(file[k]) /\ file[k].name = p.name
                                  /\ file[k].files = Deref(t, p).files
    BY <1>2, <1>4
  <2>2. PICK l \in 1..Len(file) : InPlace(file[l]) /\ file[l].name = q.name
                                  /\ file[l].files = Deref(t, q).files
    BY <1>2, <1>4
  <2>3. k = l
    BY <1>3, <1>4, <2>1, <2>2 DEF IsOrderly
  <2>4. p.name = q.name /\ p.name \in Names
        /\ p.place \in DOMAIN Vec(t, p.name) /\ q.place \in DOMAIN Vec(t, p.name)
    BY <1>2, <1>4, <2>1, <2>2, <2>3
  <2>5. p.place = q.place
    BY <1>1, <1>4, <2>4 DEF OneInPlace, Deref
  <2> QED
    BY <2>4, <2>5 DEF Reference
<1> QED
  BY <1>4 DEF NoneShared, t

LEMMA OwnersShareNothing ==
  ASSUME NEW t, NEW o, PkgTableInv(t), OwnersInv(t, o)
  PROVE  NoneShared(t)
<1>1. \A p \in Reference : IsPlaced(t, p) /\ InPlace(Deref(t, p)) =>
        \A f \in Deref(t, p).files : FileTable!Lookup(o, f) = p
  BY DEF OwnersInv
<1> QED
  BY <1>1 DEF NoneShared

LEMMA EmptyIs ==
  ASSUME NEW held
  PROVE  /\ DBInv(Database.pkgs, Database.providedBy, Database.neededBy, held)
         /\ FileTableInv(FileTable!NewTable) /\ OwnersInv(Database.pkgs, FileTable!NewTable)
<1>1. DBInv(Database.pkgs, Database.providedBy, Database.neededBy, held)
  BY NewDBIs DEF IsLoaded
<1>2. /\ FileTableInv(FileTable!NewTable)
      /\ \A f \in File : FileTable!Lookup(FileTable!NewTable, f) = NoData
  BY FileTableIs
<1>3. \A n \in Names : Vec(Database.pkgs, n) = <<>>
  BY NewPkgTableIs DEF Database
<1>4. \A p \in Reference : ~IsPlaced(Database.pkgs, p)
  BY <1>3 DEF IsPlaced
<1> QED
  BY <1>1, <1>2, <1>4 DEF OwnersInv

LEMMA InitInv == Init => IInv
<1> SUFFICES ASSUME Init PROVE IInv
  OBVIOUS
<1>1. FileInv
  BY WorldAssumption DEF Init, FileInv
<1> QED
  BY <1>1, EmptyIs DEF Init, IInv

LEMMA LoadInv ==
  ASSUME IInv, Load
  PROVE  IInv'
<1> DEFINE db == Loaded
           held == world.removesHeld
           owners == Owners(db.pkgs)
<1>1. FileInv /\ statusFile \in Seq(Stanza) /\ IsOrderly(statusFile, held)
  BY DEF IInv, FileInv
<1>2. /\ pkgHash' = db.pkgs /\ providedBy' = db.providedBy /\ neededBy' = db.neededBy
      /\ fileHash' = owners /\ world' = world /\ feed' = feed /\ statusFile' = statusFile
  BY DEF Load
<1>3. IsLoaded(db, statusFile, Len(statusFile), held)
  BY <1>1, LoadedIs
<1> HIDE DEF db, owners
<1>4. DBInv(db.pkgs, db.providedBy, db.neededBy, held) /\ PkgTableInv(db.pkgs)
  BY <1>3 DEF IsLoaded, DBInv
<1>5. NoneShared(db.pkgs)
  BY <1>1, <1>3, LoadedShareNothing
<1>6. FileTableInv(owners) /\ OwnersInv(db.pkgs, owners)
  BY <1>4, <1>5, OwnersAre DEF owners
<1>7. FileInv'
  BY <1>1, <1>2 DEF FileInv
<1>8. DBInv(pkgHash', providedBy', neededBy', world'.removesHeld)
  BY <1>2, <1>4
<1>9. FileTableInv(fileHash') /\ OwnersInv(pkgHash', fileHash')
  BY <1>2, <1>6
<1> QED
  BY <1>7, <1>8, <1>9 DEF IInv

\* A command that changes the records of n, and the owners of files.
LEMMA RunningInv ==
  ASSUME IInv, Running, NEW n \in Names, NEW new, AllAlike(new, Vec(pkgHash, n)),
         OneInPlace(new), NoneUnwanted(new), world.removesHeld \/ NoneHeldGone(new),
         SetVec(n, new), NEW owners, fileHash' = owners, FileTableInv(owners),
         \A u : IsChanged(u, pkgHash, n, new) => OwnersInv(u, owners)
  PROVE  IInv'
<1> DEFINE u == PkgTable!Insert(pkgHash, n, new)
           held == world.removesHeld
<1>1. /\ FileInv /\ DBInv(pkgHash, providedBy, neededBy, held)
  BY DEF IInv
<1>2. /\ world' = world /\ feed' = feed /\ statusFile' = statusFile
      /\ providedBy' = providedBy /\ neededBy' = neededBy /\ pkgHash' = u
  BY DEF Running, SetVec
<1>3. u = PkgTable!Insert(pkgHash, n, new)
  OBVIOUS
<1> HIDE DEF u
<1>4. DBInv(u, providedBy, neededBy, held) /\ IsChanged(u, pkgHash, n, new)
  BY <1>1, <1>3, VecChanged
<1>5. OwnersInv(u, owners)
  BY <1>4
<1>6. FileInv'
  BY <1>1, <1>2 DEF FileInv
<1>7. DBInv(pkgHash', providedBy', neededBy', world'.removesHeld)
  BY <1>2, <1>4
<1>8. FileTableInv(fileHash') /\ OwnersInv(pkgHash', fileHash')
  BY <1>2, <1>5
<1> QED
  BY <1>6, <1>7, <1>8 DEF IInv

\* The owners stay when nothing else comes to be in place.
LEMMA SameOwners ==
  ASSUME IInv, NEW n \in Names, NEW new, NEW u, IsChanged(u, pkgHash, n, new),
         \A j \in 1..Len(Vec(pkgHash, n)) : InPlace(new[j]) => InPlace(Vec(pkgHash, n)[j])
  PROVE  OwnersInv(u, fileHash)
<1>1. FileTableInv(fileHash) /\ OwnersInv(pkgHash, fileHash)
  BY DEF IInv
<1>2. \A f \in File : FileTable!Lookup(fileHash, f) \in Reference \cup {NoData}
  BY <1>1, FileTableIs
<1>3. ASSUME NEW f \in File, FileTable!Lookup(fileHash, f) # NoData
      PROVE  /\ IsPlaced(u, FileTable!Lookup(fileHash, f))
             /\ f \in Deref(u, FileTable!Lookup(fileHash, f)).files
  BY <1>1, <1>2, <1>3 DEF OwnersInv, IsChanged
<1>4. ASSUME NEW p \in Reference, IsPlaced(u, p), InPlace(Deref(u, p)), NEW f \in Deref(u, p).files
      PROVE  FileTable!Lookup(fileHash, f) = p
  <2>1. IsPlaced(pkgHash, p) /\ f \in Deref(pkgHash, p).files
        /\ Deref(u, p) = IF p.name = n THEN new[p.place] ELSE Deref(pkgHash, p)
    BY <1>4 DEF IsChanged
  <2>2. InPlace(Deref(pkgHash, p))
    BY <1>4, <2>1 DEF IsPlaced, Deref
  <2> QED
    BY <1>1, <2>1, <2>2 DEF OwnersInv
<1> QED
  BY <1>3, <1>4 DEF OwnersInv

\* A package that is installed takes the files it has.
LEMMA InstallerOwns ==
  ASSUME IInv, NEW n \in Names, NEW i \in 1..Len(Vec(pkgHash, n)), Installable(n, i),
         NEW new, NEW u, IsChanged(u, pkgHash, n, new),
         \A j \in 1..Len(Vec(pkgHash, n)) : j # i => ~InPlace(new[j])
  PROVE  /\ FileTableInv(Own(fileHash, At(n, i), Vec(pkgHash, n)[i].files))
         /\ OwnersInv(u, Own(fileHash, At(n, i), Vec(pkgHash, n)[i].files))
<1> DEFINE vec == Vec(pkgHash, n)
           files == vec[i].files
           q == At(n, i)
           o == Own(fileHash, q, files)
<1>1. FileTableInv(fileHash) /\ OwnersInv(pkgHash, fileHash)
      /\ PkgTableInv(pkgHash) /\ \A m \in Names : OneInPlace(Vec(pkgHash, m))
  BY DEF IInv, DBInv
<1>2. vec \in Seq(Record) /\ Len(vec) \in Nat
  <2>1. vec \in Seq(Record)
    BY <1>1, VecIs
  <2> QED
    BY <2>1
<1>3. /\ q \in Reference /\ q.name = n /\ q.place = i
  BY <1>2 DEF At, Reference
<1>4. IsPlaced(pkgHash, q) /\ Deref(pkgHash, q).files = files
  BY <1>3 DEF IsPlaced, Deref
<1>5. files \in SUBSET File
  BY <1>1, <1>3, <1>4, DerefIs
<1>6. \A f \in files : \A m \in Names \ {n} : Current(m) # 0 => Owner(f) # At(m, Current(m))
  BY DEF Installable
<1> HIDE DEF q, files, vec
<1>7. /\ FileTableInv(o)
      /\ \A f \in File : FileTable!Lookup(o, f) = IF f \in files THEN q ELSE FileTable!Lookup(fileHash, f)
  BY <1>1, <1>3, <1>5, OwnIs
<1> HIDE DEF o
<1>8. \A f \in File : FileTable!Lookup(fileHash, f) \in Reference \cup {NoData}
  BY <1>1, FileTableIs
<1>9. ASSUME NEW f \in File, FileTable!Lookup(o, f) # NoData
      PROVE  /\ IsPlaced(u, FileTable!Lookup(o, f))
             /\ f \in Deref(u, FileTable!Lookup(o, f)).files
  <2>1. CASE f \in files
    <3>1. FileTable!Lookup(o, f) = q
      BY <1>7, <2>1
    <3>2. IsPlaced(u, q) /\ Deref(u, q).files = files
      BY <1>3, <1>4 DEF IsChanged
    <3> QED
      BY <2>1, <3>1, <3>2
  <2>2. CASE f \notin files
    <3> DEFINE p == FileTable!Lookup(fileHash, f)
    <3>1. FileTable!Lookup(o, f) = p /\ p \in Reference
      BY <1>7, <1>8, <1>9, <2>2
    <3>2. IsPlaced(pkgHash, p) /\ f \in Deref(pkgHash, p).files
      BY <1>1, <1>9, <3>1 DEF OwnersInv
    <3> HIDE DEF p
    <3>3. IsPlaced(u, p) /\ f \in Deref(u, p).files
      BY <3>1, <3>2 DEF IsChanged
    <3> QED
      BY <3>1, <3>3
  <2> QED
    BY <2>1, <2>2
<1>10. ASSUME NEW p \in Reference, IsPlaced(u, p), InPlace(Deref(u, p)), NEW f \in Deref(u, p).files
       PROVE  FileTable!Lookup(o, f) = p
  <2>1. IsPlaced(pkgHash, p) /\ f \in Deref(pkgHash, p).files
        /\ Deref(u, p) = IF p.name = n THEN new[p.place] ELSE Deref(pkgHash, p)
    BY <1>10 DEF IsChanged
  <2>2. f \in File /\ p.name \in Names /\ p.place \in 1..Len(Vec(pkgHash, p.name))
    BY <1>1, <2>1, DerefIs DEF IsPlaced
  <2>3. CASE p.name = n
    <3>1. p.place = i
      BY <1>10, <2>1, <2>2, <2>3
    <3>2. p = q
      BY <1>3, <2>3, <3>1 DEF Reference
    <3>3. f \in files
      BY <1>4, <2>1, <3>2
    <3> QED
      BY <1>7, <2>2, <3>2, <3>3
  <2>4. CASE p.name # n
    <3>1. InPlace(Deref(pkgHash, p))
      BY <1>10, <2>1, <2>4
    <3>2. FileTable!Lookup(fileHash, f) = p
      BY <1>1, <2>1, <3>1 DEF OwnersInv
    <3>3. Current(p.name) = p.place /\ p.place # 0
      <4>1. PkgTableInv(pkgHash) /\ OneInPlace(Vec(pkgHash, p.name))
        BY <1>1, <2>2
      <4>2. InPlace(Vec(pkgHash, p.name)[p.place])
        BY <3>1 DEF Deref
      <4>3. Current(p.name) = p.place
        BY <2>2, <4>1, <4>2, CurrentIs
      <4>4. Len(Vec(pkgHash, p.name)) \in Nat
        <5>1. Vec(pkgHash, p.name) \in Seq(Record)
          BY <2>2, <4>1, VecIs
        <5> QED
          BY <5>1
      <4> QED
        BY <2>2, <4>3, <4>4
    <3>4. At(p.name, p.place) = p
      BY DEF At, Reference
    <3>5. f \notin files
      BY <1>6, <2>2, <2>4, <3>2, <3>3, <3>4 DEF Owner
    <3> QED
      BY <1>7, <2>2, <3>2, <3>5
  <2> QED
    BY <2>3, <2>4
<1>11. OwnersInv(u, o)
  BY <1>9, <1>10 DEF OwnersInv
<1> QED
  BY <1>7, <1>11 DEF o, q, files, vec

LEMMA RunningFacts ==
  ASSUME IInv, NEW n \in Names
  PROVE  /\ Vec(pkgHash, n) \in Seq(Record) /\ PkgTableInv(pkgHash)
         /\ OneInPlace(Vec(pkgHash, n)) /\ NoneUnwanted(Vec(pkgHash, n))
         /\ world.removesHeld \/ NoneHeldGone(Vec(pkgHash, n))
         /\ FileTableInv(fileHash)
BY VecIs DEF IInv, DBInv

LEMMA InstallerInv ==
  ASSUME IInv, Running, NEW n \in Names, NEW i \in 1..Len(Vec(pkgHash, n)), Installable(n, i),
         NEW x, Alike(x, Vec(pkgHash, n)[i]), x.want = "install",
         SetVec(n, [Retired(Vec(pkgHash, n), i) EXCEPT ![i] = x]),
         fileHash' = Own(fileHash, At(n, i), x.files)
  PROVE  IInv'
<1> DEFINE vec == Vec(pkgHash, n)
           new == [Retired(vec, i) EXCEPT ![i] = x]
           owners == Own(fileHash, At(n, i), vec[i].files)
<1>1. /\ vec \in Seq(Record) /\ PkgTableInv(pkgHash) /\ OneInPlace(vec) /\ NoneUnwanted(vec)
      /\ world.removesHeld \/ NoneHeldGone(vec)
  BY RunningFacts
<1>2. \A j \in 1..Len(vec) : InPlace(vec[j]) => Current(n) = j
  BY <1>1, CurrentIs
<1>3. Len(vec) \in Nat /\ DOMAIN vec = 1..Len(vec)
  BY <1>1
<1>4. Current(n) # 0 => "hold" \notin vec[Current(n)].flags
  BY DEF Installable
<1>5. x.files = vec[i].files
  BY DEF Alike
<1>6. SetVec(n, new) /\ fileHash' = owners /\ Alike(x, vec[i]) /\ i \in 1..Len(vec)
  BY <1>5
<1>7. new = [Retired(vec, i) EXCEPT ![i] = x]
  OBVIOUS
<1> HIDE DEF new, owners
<1>8. /\ AllAlike(new, vec) /\ new[i] = x
      /\ \A j \in 1..Len(vec) : j # i => ~InPlace(new[j]) /\ new[j].flags = vec[j].flags
                                         /\ (InPlace(vec[j]) \/ new[j] = vec[j])
  <2> HIDE DEF vec
  <2>1. IsRetired(new, vec, i, x)
    BY <1>1, <1>6, <1>7, RetiredIs
  <2> QED
    BY <2>1 DEF IsRetired
<1>9. DOMAIN new = 1..Len(vec)
  BY <1>8 DEF AllAlike
<1>10. OneInPlace(new) /\ NoneUnwanted(new)
  BY <1>8, <1>9 DEF OneInPlace, NoneUnwanted
<1>11. world.removesHeld \/ NoneHeldGone(new)
  <2> SUFFICES ASSUME ~world.removesHeld, NEW j \in 1..Len(vec) PROVE ~HeldGone(new[j])
    BY <1>9 DEF NoneHeldGone
  <2>1. CASE j = i
    BY <1>8, <2>1 DEF HeldGone
  <2>2. CASE j # i /\ InPlace(vec[j])
    <3>1. "hold" \notin vec[j].flags
      BY <1>2, <1>3, <1>4, <2>2
    <3> QED
      BY <1>8, <2>2, <3>1 DEF HeldGone
  <2>3. CASE j # i /\ ~InPlace(vec[j])
    BY <1>1, <1>3, <1>8, <2>3 DEF NoneHeldGone
  <2> QED
    BY <2>1, <2>2, <2>3
<1>12. \A u : IsChanged(u, pkgHash, n, new) => FileTableInv(owners) /\ OwnersInv(u, owners)
  BY <1>8, InstallerOwns DEF owners
<1>13. FileTableInv(owners)
  <2>1. IsChanged(pkgHash, pkgHash, n, vec) /\ FileTableInv(fileHash)
    BY RunningFacts DEF IsChanged, Deref
  <2>2. At(n, i) \in Reference
    BY <1>3 DEF At, Reference
  <2>3. vec[i].files \in SUBSET File
    <3>1. vec[i] \in Record
      BY <1>1
    <3> QED
      BY <3>1 DEF Record
  <2> QED
    BY <2>1, <2>2, <2>3, OwnIs DEF owners
<1> QED
  BY <1>6, <1>8, <1>10, <1>11, <1>12, <1>13, RunningInv

LEMMA InstallInv ==
  ASSUME IInv, NEW n \in Names, Install(n)
  PROVE  IInv'
<1> DEFINE vec == Vec(pkgHash, n)
           Made(i, byUser) ==
             [vec[i] EXCEPT !.want = "install", !.status = "unpacked",
                            !.flags = IF byUser THEN @ \cup {"user"} ELSE @,
                            !.auto = IF byUser THEN @ ELSE TRUE]
<1>1. PICK i \in DOMAIN vec, byUser \in world.askers :
        /\ Installable(n, i)
        /\ SetVec(n, [Retired(vec, i) EXCEPT ![i] = Made(i, byUser)])
        /\ fileHash' = Own(fileHash, At(n, i), Made(i, byUser).files)
  BY DEF Install
<1> DEFINE x == Made(i, byUser)
           r == vec[i]
           want == "install"
           status == "unpacked"
           flags == IF byUser THEN r.flags \cup {"user"} ELSE r.flags
           auto == IF byUser THEN r.auto ELSE TRUE
<1>2. vec \in Seq(Record)
  BY RunningFacts
<1>3. i \in 1..Len(vec) /\ r \in Record
  BY <1>2
<1>4. /\ want \in Wants /\ status \in Statuses /\ flags \in SUBSET Flags /\ auto \in BOOLEAN
  BY <1>3 DEF Record, Wants, Statuses, Flags, NonVolatile
<1>5. x = [r EXCEPT !.want = want, !.status = status, !.flags = flags, !.auto = auto]
  <2>1. r = vec[i]
    OBVIOUS
  <2> QED
    OBVIOUS
<1>6. Running
  BY DEF Install
<1> HIDE DEF want, status, flags, auto, x
<1>7. Alike(x, r) /\ x.want = want
  <2> HIDE DEF r
  <2>1. x.want = want
    BY <1>3, <1>5 DEF Record
  <2> QED
    BY <1>3, <1>4, <1>5, <2>1, ChangesAreAlike
<1>8. Alike(x, Vec(pkgHash, n)[i]) /\ x.want = "install"
  BY <1>7 DEF want
<1>9. /\ SetVec(n, [Retired(Vec(pkgHash, n), i) EXCEPT ![i] = x])
      /\ fileHash' = Own(fileHash, At(n, i), x.files)
  BY <1>1 DEF x
<1> QED
  BY <1>1, <1>3, <1>6, <1>8, <1>9, InstallerInv

LEMMA FailInstallInv ==
  ASSUME IInv, NEW n \in Names, FailInstall(n)
  PROVE  IInv'
<1> DEFINE vec == Vec(pkgHash, n)
           Made(i) == [vec[i] EXCEPT !.want = "install", !.status = "half-installed",
                                     !.flags = {"reinstreq"}]
<1>1. PICK i \in DOMAIN vec :
        /\ Installable(n, i)
        /\ SetVec(n, [Retired(vec, i) EXCEPT ![i] = Made(i)])
        /\ fileHash' = Own(fileHash, At(n, i), Made(i).files)
  BY DEF FailInstall
<1> DEFINE x == Made(i)
           r == vec[i]
           want == "install"
           status == "half-installed"
           flags == {"reinstreq"}
<1>2. vec \in Seq(Record)
  BY RunningFacts
<1>3. i \in 1..Len(vec) /\ r \in Record
  BY <1>2
<1>4. want \in Wants /\ status \in Statuses /\ flags \in SUBSET Flags
  BY DEF Wants, Statuses, Flags
<1>5. x = [r EXCEPT !.want = want, !.status = status, !.flags = flags]
  OBVIOUS
<1>6. Running
  BY DEF FailInstall
<1> HIDE DEF want, status, flags, x
<1>7. Alike(x, r) /\ x.want = want
  <2> HIDE DEF r
  <2>1. x.want = want
    BY <1>3, <1>5 DEF Record
  <2>2. r.auto \in BOOLEAN
    BY <1>3 DEF Record
  <2> QED
    BY <1>3, <1>4, <1>5, <2>1, <2>2, ChangesAreAlike
<1>8. Alike(x, Vec(pkgHash, n)[i]) /\ x.want = "install"
  BY <1>7 DEF want
<1>9. /\ SetVec(n, [Retired(Vec(pkgHash, n), i) EXCEPT ![i] = x])
      /\ fileHash' = Own(fileHash, At(n, i), x.files)
  BY <1>1 DEF x
<1> QED
  BY <1>1, <1>3, <1>6, <1>8, <1>9, InstallerInv

\* One record changes, which is not in place unless it was.
LEMMA RecordInv ==
  ASSUME IInv, Running, NEW n \in Names, NEW i \in 1..Len(Vec(pkgHash, n)),
         NEW x, Alike(x, Vec(pkgHash, n)[i]),
         InPlace(x) => InPlace(Vec(pkgHash, n)[i]) /\ x.want = Vec(pkgHash, n)[i].want,
         world.removesHeld \/ ~HeldGone(x),
         SetVec(n, [Vec(pkgHash, n) EXCEPT ![i] = x]),
         NEW owners, fileHash' = owners, FileTableInv(owners),
         \A u : IsChanged(u, pkgHash, n, [Vec(pkgHash, n) EXCEPT ![i] = x]) => OwnersInv(u, owners)
  PROVE  IInv'
<1> DEFINE vec == Vec(pkgHash, n)
           new == [vec EXCEPT ![i] = x]
<1>1. /\ vec \in Seq(Record) /\ OneInPlace(vec) /\ NoneUnwanted(vec)
      /\ world.removesHeld \/ NoneHeldGone(vec)
  BY RunningFacts
<1>2. Len(vec) \in Nat /\ DOMAIN vec = 1..Len(vec)
  BY <1>1
<1>3. /\ AllAlike(new, vec) /\ new[i] = x
      /\ \A j \in 1..Len(vec) : j # i => new[j] = vec[j]
  <2> HIDE DEF vec
  <2>1. Alike(x, vec[i]) /\ i \in 1..Len(vec)
    BY DEF vec
  <2>2. DiffersAt(new, vec, i, x)
    BY <1>1, <2>1, OneChanged
  <2> QED
    BY <2>2 DEF DiffersAt
<1>4. SetVec(n, new) /\ \A u : IsChanged(u, pkgHash, n, new) => OwnersInv(u, owners)
  OBVIOUS
<1> HIDE DEF new
<1>5. DOMAIN new = 1..Len(vec)
  BY <1>3 DEF AllAlike
<1>6. InPlace(x) => InPlace(vec[i]) /\ x.want = vec[i].want
  OBVIOUS
<1>7. OneInPlace(new)
  BY <1>1, <1>2, <1>3, <1>5, <1>6 DEF OneInPlace
<1>8. NoneUnwanted(new)
  BY <1>1, <1>2, <1>3, <1>5, <1>6 DEF NoneUnwanted
<1>9. world.removesHeld \/ NoneHeldGone(new)
  BY <1>1, <1>2, <1>3, <1>5 DEF NoneHeldGone
<1> QED
  BY <1>3, <1>4, <1>7, <1>8, <1>9, RunningInv

LEMMA OneChangedOwners ==
  ASSUME IInv, NEW n \in Names, NEW i \in 1..Len(Vec(pkgHash, n)), NEW x,
         InPlace(x) => InPlace(Vec(pkgHash, n)[i]),
         NEW u, IsChanged(u, pkgHash, n, [Vec(pkgHash, n) EXCEPT ![i] = x])
  PROVE  OwnersInv(u, fileHash)
<1> DEFINE vec == Vec(pkgHash, n)
           new == [vec EXCEPT ![i] = x]
<1>1. vec \in Seq(Record)
  BY RunningFacts
<1>2. \A j \in 1..Len(vec) : new[j] = IF j = i THEN x ELSE vec[j]
  BY <1>1
<1>3. \A j \in 1..Len(vec) : InPlace(new[j]) => InPlace(vec[j])
  BY <1>2
<1>4. IsChanged(u, pkgHash, n, new)
  OBVIOUS
<1> HIDE DEF new
<1> QED
  BY <1>3, <1>4, SameOwners

LEMMA ConfigureInv ==
  ASSUME IInv, NEW n \in Names, Configure(n)
  PROVE  IInv'
<1> DEFINE vec == Vec(pkgHash, n)
<1>1. PICK i \in DOMAIN vec : /\ vec[i].status = "unpacked"
                              /\ SetVec(n, [vec EXCEPT ![i].status = "installed"])
  BY DEF Configure
<1>2. /\ vec \in Seq(Record) /\ (world.removesHeld \/ NoneHeldGone(vec)) /\ FileTableInv(fileHash)
  BY RunningFacts
<1>3. Running /\ fileHash' = fileHash
  BY DEF Configure
<1> DEFINE r == vec[i]
           status == "installed"
           x == [r EXCEPT !.status = status]
<1>4. i \in 1..Len(vec) /\ r \in Record /\ status \in Statuses /\ i \in DOMAIN vec
  BY <1>2 DEF Statuses
<1>5. [vec EXCEPT ![i].status = "installed"] = [vec EXCEPT ![i] = x]
  OBVIOUS
<1>6. x.want = r.want /\ x.flags = r.flags /\ Alike(x, r)
  <2> HIDE DEF r, status
  <2>1. r.want \in Wants /\ r.flags \in SUBSET Flags /\ r.auto \in BOOLEAN
    BY <1>4 DEF Record
  <2>2. x.want = r.want /\ x.flags = r.flags
    BY <1>4 DEF Record
  <2>3. Alike(x, r)
    BY <1>4, <2>1, ChangesAreAlike
  <2> QED
    BY <2>2, <2>3
<1>7. InPlace(r)
  BY <1>1 DEF InPlace
<1>8. world.removesHeld \/ ~HeldGone(x)
  BY <1>2, <1>4, <1>6 DEF NoneHeldGone, HeldGone
<1>9. SetVec(n, [vec EXCEPT ![i] = x])
  BY <1>1, <1>5
<1> HIDE DEF x
<1>10. \A u : IsChanged(u, pkgHash, n, [vec EXCEPT ![i] = x]) => OwnersInv(u, fileHash)
  BY <1>4, <1>7, OneChangedOwners
<1> QED
  BY <1>2, <1>3, <1>4, <1>6, <1>7, <1>8, <1>9, <1>10, RecordInv

LEMMA FlagInv ==
  ASSUME IInv, NEW n \in Names, Flag(n)
  PROVE  IInv'
<1> DEFINE vec == Vec(pkgHash, n)
           i == Current(n)
<1>1. PICK flag \in world.flags :
        SetVec(n, [vec EXCEPT ![i].flags = IF flag = "ok" THEN {} ELSE {flag}])
  BY DEF Flag
<1>2. /\ vec \in Seq(Record) /\ PkgTableInv(pkgHash) /\ OneInPlace(vec) /\ NoneUnwanted(vec)
      /\ FileTableInv(fileHash)
  BY RunningFacts
<1>3. Running /\ fileHash' = fileHash /\ i # 0
  BY DEF Flag
<1>4. i \in 1..Len(vec) /\ InPlace(vec[i])
  BY <1>2, <1>3, CurrentIs
<1> HIDE DEF i
<1> DEFINE r == vec[i]
           flags == IF flag = "ok" THEN {} ELSE {flag}
           x == [r EXCEPT !.flags = flags]
<1>5. r \in Record /\ i \in DOMAIN vec /\ r.want # "deinstall"
  BY <1>2, <1>4 DEF NoneUnwanted
<1>6. flags \in SUBSET Flags
  <2>1. world \in Worlds
    BY DEF IInv, FileInv
  <2>2. world.flags \subseteq Flags \cup {"ok"}
    BY <2>1, WorldAssumption
  <2> QED
    BY <2>2
<1>7. [vec EXCEPT ![i].flags = IF flag = "ok" THEN {} ELSE {flag}] = [vec EXCEPT ![i] = x]
  OBVIOUS
<1>8. SetVec(n, [vec EXCEPT ![i] = x])
  BY <1>1, <1>7
<1> HIDE DEF flags
<1>9. x.want = r.want /\ Alike(x, r)
  <2> HIDE DEF r
  <2>1. r.want \in Wants /\ r.status \in Statuses /\ r.auto \in BOOLEAN
    BY <1>5 DEF Record
  <2>2. x.want = r.want
    BY <1>5 DEF Record
  <2>3. Alike(x, r)
    BY <1>5, <1>6, <2>1, ChangesAreAlike
  <2> QED
    BY <2>2, <2>3
<1>10. ~HeldGone(x)
  BY <1>5, <1>9 DEF HeldGone
<1> HIDE DEF x
<1>11. \A u : IsChanged(u, pkgHash, n, [vec EXCEPT ![i] = x]) => OwnersInv(u, fileHash)
  BY <1>4, OneChangedOwners
<1> QED
  BY <1>2, <1>3, <1>4, <1>8, <1>9, <1>10, <1>11, RecordInv

LEMMA RemoverOwners ==
  ASSUME IInv, NEW n \in Names, NEW i \in 1..Len(Vec(pkgHash, n)), NEW x, ~InPlace(x),
         NEW u, IsChanged(u, pkgHash, n, [Vec(pkgHash, n) EXCEPT ![i] = x]),
         NEW S \in SUBSET File, \A f \in S : Owner(f) = At(n, i),
         NEW o, \A f \in File : FileTable!Lookup(o, f) = IF f \in S THEN NoData
                                                         ELSE FileTable!Lookup(fileHash, f)
  PROVE  OwnersInv(u, o)
<1>1. OwnersInv(u, fileHash)
  BY OneChangedOwners
<1>2. \A f \in File : FileTable!Lookup(o, f) # NoData => FileTable!Lookup(o, f) = FileTable!Lookup(fileHash, f)
  OBVIOUS
<1>3. ASSUME NEW p \in Reference, IsPlaced(u, p), InPlace(Deref(u, p)), NEW f \in Deref(u, p).files
      PROVE  FileTable!Lookup(o, f) = p
  <2>1. FileTable!Lookup(fileHash, f) = p
    BY <1>1, <1>3 DEF OwnersInv
  <2>2. IsPlaced(pkgHash, p) /\ f \in Deref(pkgHash, p).files /\ PkgTableInv(pkgHash)
    BY <1>3 DEF IsChanged, IInv, DBInv
  <2>3. f \in File
    BY <2>2, DerefIs
  <2>4. f \notin S
    <3> SUFFICES ASSUME f \in S PROVE FALSE
      OBVIOUS
    <3>1. p.name = n /\ p.place = i
      BY <2>1 DEF Owner, At
    <3>2. Deref(u, p) = [Vec(pkgHash, n) EXCEPT ![i] = x][i]
      BY <2>2, <3>1 DEF IsChanged
    <3>3. Vec(pkgHash, n) \in Seq(Record)
      BY RunningFacts
    <3>4. Deref(u, p) = x
      BY <3>2, <3>3
    <3> QED
      BY <1>3, <3>4
  <2> QED
    BY <2>1, <2>3, <2>4
<1> QED
  BY <1>1, <1>2, <1>3 DEF OwnersInv

LEMMA RemovePkgInv ==
  ASSUME IInv, NEW n \in Names, RemovePkg(n)
  PROVE  IInv'
<1> DEFINE vec == Vec(pkgHash, n)
<1>1. PICK i \in DOMAIN vec :
        /\ "hold" \in vec[i].flags => world.removesHeld
        /\ SetVec(n, [vec EXCEPT ![i].want = "deinstall", ![i].status = "not-installed"])
        /\ fileHash' = FoldLeft(Disown, fileHash, SetToSeq({f \in vec[i].files : Owner(f) = At(n, i)}))
  BY DEF RemovePkg
<1>2. vec \in Seq(Record) /\ FileTableInv(fileHash)
  BY RunningFacts
<1>3. Running
  BY DEF RemovePkg
<1> DEFINE r == vec[i]
           want == "deinstall"
           status == "not-installed"
           x == [r EXCEPT !.want = want, !.status = status]
           S == {f \in r.files : Owner(f) = At(n, i)}
           owners == FoldLeft(Disown, fileHash, SetToSeq(S))
<1>4. i \in 1..Len(vec) /\ r \in Record /\ want \in Wants /\ status \in Statuses /\ i \in DOMAIN vec
  BY <1>2 DEF Wants, Statuses
<1>5. [vec EXCEPT ![i].want = "deinstall", ![i].status = "not-installed"] = [vec EXCEPT ![i] = x]
  BY <1>2, <1>4
<1>6. x.status = status /\ x.flags = r.flags /\ Alike(x, r)
  <2> HIDE DEF r, status, want
  <2>1. r.flags \in SUBSET Flags /\ r.auto \in BOOLEAN
    BY <1>4 DEF Record
  <2>2. x.status = status /\ x.flags = r.flags
    BY <1>4 DEF Record
  <2>3. Alike(x, r)
    BY <1>4, <2>1, ChangesAreAlike
  <2> QED
    BY <2>2, <2>3
<1>7. ~InPlace(x)
  BY <1>6 DEF InPlace
<1>8. world.removesHeld \/ ~HeldGone(x)
  BY <1>1, <1>6 DEF HeldGone
<1>9. SetVec(n, [vec EXCEPT ![i] = x]) /\ fileHash' = owners
  BY <1>1, <1>5
<1>10. S \in SUBSET File /\ \A f \in S : Owner(f) = At(n, i)
  <2>1. r.files \in SUBSET File
    <3> HIDE DEF r
    <3> QED
      BY <1>4 DEF Record
  <2> QED
    BY <2>1
<1> HIDE DEF S, x
<1>11. /\ FileTableInv(owners)
       /\ \A f \in File : FileTable!Lookup(owners, f) = IF f \in S THEN NoData
                                                        ELSE FileTable!Lookup(fileHash, f)
  BY <1>2, <1>10, DisownAllIs
<1> HIDE DEF owners
<1>12. \A u : IsChanged(u, pkgHash, n, [vec EXCEPT ![i] = x]) => OwnersInv(u, owners)
  BY <1>4, <1>7, <1>10, <1>11, RemoverOwners
<1> QED
  BY <1>3, <1>4, <1>6, <1>7, <1>8, <1>9, <1>11, <1>12, RecordInv

(***************************************************************************)
(* The status file.                                                        *)
(***************************************************************************)

\* What is written are records of the list, each once.
IsPicked(new, list, x) ==
  /\ new \in Seq(Record)
  /\ \A k \in 1..Len(new) : x[k] \in 1..Len(list) /\ new[k] = list[x[k]]
  /\ \A k, l \in 1..Len(new) : x[k] = x[l] => k = l

LEMMA RecordedIs ==
  ASSUME NEW list \in Seq(Record)
  PROVE  \E x : IsPicked(Recorded(list), list, x)
<1> DEFINE keeps(i) == Kept(list[i], ToSet(list))
           s == [i \in DOMAIN list |-> IF keeps(i) THEN <<list[i]>> ELSE <<>>]
           all == FlattenSeq(s)
<1>1. Len(list) \in Nat /\ DOMAIN list = 1..Len(list) /\ \A i \in 1..Len(list) : list[i] \in Record
  OBVIOUS
<1>2. Recorded(list) = all
  BY DEF Recorded
<1> HIDE DEF keeps
<1>3. s \in Seq(Seq(Record)) /\ Len(s) = Len(list)
  <2>1. \A i \in 1..Len(list) : (IF keeps(i) THEN <<list[i]>> ELSE <<>>) \in Seq(Record)
    BY <1>1
  <2> QED
    BY <1>1, <2>1
<1>4. \A i \in 1..Len(list) : \A j \in DOMAIN s[i] : j = 1 /\ s[i][j] = list[i]
  <2> SUFFICES ASSUME NEW i \in 1..Len(list), NEW j \in DOMAIN s[i] PROVE j = 1 /\ s[i][j] = list[i]
    OBVIOUS
  <2>1. s[i] = IF keeps(i) THEN <<list[i]>> ELSE <<>>
    BY <1>1
  <2> HIDE DEF s
  <2>2. CASE keeps(i)
    BY <2>1, <2>2
  <2>3. CASE ~keeps(i)
    BY <2>1, <2>3
  <2> QED
    BY <2>2, <2>3
<1> HIDE DEF s
<1>5. all \in Seq(Record) /\ \E x, y : Flattened(s, all, x, y)
  BY <1>3, FlattenSeqPlaces
<1>6. PICK x, y : Flattened(s, all, x, y)
  BY <1>5
<1> HIDE DEF all
<1>7. FlattenedUpto(Len(list), s, all, x, y) /\ DOMAIN all = 1..Len(all)
  BY <1>3, <1>5, <1>6 DEF Flattened
<1>8. \A k \in 1..Len(all) : x[k] \in 1..Len(list) /\ y[k] = 1 /\ all[k] = list[x[k]]
  BY <1>4, <1>7 DEF FlattenedUpto
<1>9. \A k, l \in 1..Len(all) : x[k] = x[l] => k = l
  BY <1>7, <1>8 DEF FlattenedUpto
<1>10. IsPicked(all, list, x)
  BY <1>5, <1>8, <1>9 DEF IsPicked
<1> QED
  BY <1>2, <1>10

LEMMA PrintedIs ==
  ASSUME NEW r \in Record
  PROVE  /\ Printed(r) \in Stanza
         /\ Printed(r).name = r.name /\ Printed(r).want = r.want /\ Printed(r).status = r.status
         /\ Printed(r).flags \subseteq r.flags
         /\ InPlace(r) => Printed(r).files = r.files
<1> DEFINE version == VersionString(r.v)
           flags == r.flags \cap NonVolatile
           auto  == IsInstalled(r) /\ r.auto
           needs == PrintedNeeds(r)
           files == ListFile(r)
<1>1. /\ r.name \in Names /\ r.v \in Version /\ r.arch \in STRING /\ r.want \in Wants
      /\ r.flags \in SUBSET Flags /\ r.status \in Statuses /\ r.provides \in SUBSET Names
      /\ r.needs \in SUBSET [type : STRING, name : Names] /\ r.files \in SUBSET File
  BY DEF Record
<1>2. version \in Seq(Char)
  BY <1>1, VersionStringIs
<1>3. flags \in SUBSET Flags /\ auto \in BOOLEAN /\ needs \in SUBSET [type : STRING, name : Names]
  BY <1>1 DEF PrintedNeeds, IsInstalled, InPlace
<1>4. files \in SUBSET File /\ (InPlace(r) => files = r.files)
  BY <1>1 DEF ListFile, InPlace
<1> DEFINE x == [name |-> r.name, version |-> version, arch |-> r.arch, want |-> r.want,
                 flags |-> flags, status |-> r.status, auto |-> auto, needs |-> needs,
                 provides |-> r.provides, info |-> NoInfo, files |-> files]
<1>5. Printed(r) = x /\ flags \subseteq r.flags
  BY DEF Printed
<1> HIDE DEF version, flags, auto, needs, files
<1>6. x \in Stanza
  BY <1>1, <1>2, <1>3, <1>4 DEF Stanza
<1> QED
  BY <1>4, <1>5, <1>6

LEMMA WrittenIs ==
  ASSUME IInv
  PROVE  LET records == Recorded(Available(pkgHash))
             file == [i \in DOMAIN records |-> Printed(records[i])]
         IN  file \in Seq(Stanza) /\ IsOrderly(file, world.removesHeld)
<1> DEFINE ps == Pointers(pkgHash)
           list == Available(pkgHash)
           records == Recorded(list)
           file == [i \in DOMAIN records |-> Printed(records[i])]
           held == world.removesHeld
<1>1. /\ PkgTableInv(pkgHash) /\ OwnersInv(pkgHash, fileHash)
      /\ \A n \in Names : /\ AllLinked(Vec(pkgHash, n), n, providedBy, neededBy)
                          /\ OneInPlace(Vec(pkgHash, n)) /\ NoneUnwanted(Vec(pkgHash, n))
                          /\ held \/ NoneHeldGone(Vec(pkgHash, n))
  BY DEF IInv, DBInv
<1>2. /\ ps \in Seq(Reference)
      /\ \A i \in 1..Len(ps) : IsPlaced(pkgHash, ps[i])
      /\ \A i, j \in 1..Len(ps) : ps[i] = ps[j] => i = j
  BY <1>1, PointersIs
<1>3. list = [i \in DOMAIN ps |-> Deref(pkgHash, ps[i])]
  BY DEF Available
<1> HIDE DEF ps, list
<1>4. Len(ps) \in Nat /\ DOMAIN ps = 1..Len(ps) /\ \A i \in 1..Len(ps) : ps[i] \in Reference
  BY <1>2
<1>5. \A i \in 1..Len(ps) : Deref(pkgHash, ps[i]) \in Record
  BY <1>1, <1>2, <1>4, DerefIs
<1>6. list \in Seq(Record) /\ Len(list) = Len(ps) /\ \A i \in 1..Len(ps) : list[i] = Deref(pkgHash, ps[i])
  BY <1>3, <1>4, <1>5
<1>7. PICK x : IsPicked(records, list, x)
  BY <1>6, RecordedIs
<1> HIDE DEF records
<1>8. /\ records \in Seq(Record) /\ Len(records) \in Nat /\ DOMAIN records = 1..Len(records)
      /\ \A k \in 1..Len(records) : records[k] \in Record
  BY <1>7 DEF IsPicked
<1>9. \A k \in 1..Len(records) : x[k] \in 1..Len(ps) /\ records[k] = Deref(pkgHash, ps[x[k]])
  BY <1>6, <1>7 DEF IsPicked
<1>10. \A k, l \in 1..Len(records) : ps[x[k]] = ps[x[l]] => k = l
  BY <1>2, <1>7, <1>9 DEF IsPicked
<1>11. \A k \in 1..Len(records) : \E p \in Reference :
         /\ p = ps[x[k]] /\ IsPlaced(pkgHash, p) /\ records[k] = Deref(pkgHash, p)
         /\ p.name = records[k].name
         /\ InPlace(records[k]) => records[k].want # "deinstall"
         /\ held \/ ~HeldGone(records[k])
  <2> SUFFICES ASSUME NEW k \in 1..Len(records)
               PROVE  \E p \in Reference :
                        /\ p = ps[x[k]] /\ IsPlaced(pkgHash, p) /\ records[k] = Deref(pkgHash, p)
                        /\ p.name = records[k].name
                        /\ InPlace(records[k]) => records[k].want # "deinstall"
                        /\ held \/ ~HeldGone(records[k])
    OBVIOUS
  <2> DEFINE p == ps[x[k]]
             vec == Vec(pkgHash, p.name)
  <2>1. p \in Reference /\ IsPlaced(pkgHash, p) /\ records[k] = Deref(pkgHash, p)
    BY <1>2, <1>4, <1>9
  <2>2. p = ps[x[k]]
    OBVIOUS
  <2> HIDE DEF p
  <2>3. p.name \in Names /\ p.place \in 1..Len(vec)
    BY <2>1 DEF IsPlaced
  <2>4. vec \in Seq(Record) /\ records[k] = vec[p.place]
    BY <1>1, <2>1, <2>3, VecIs DEF Deref
  <2>5. p.place \in DOMAIN vec
    BY <2>3, <2>4
  <2>6. p.name = records[k].name
    BY <1>1, <2>3, <2>4, <2>5 DEF AllLinked, IsLinked
  <2>7. InPlace(records[k]) => records[k].want # "deinstall"
    BY <1>1, <2>3, <2>4, <2>5 DEF NoneUnwanted
  <2>8. held \/ ~HeldGone(records[k])
    BY <1>1, <2>3, <2>4, <2>5 DEF NoneHeldGone
  <2> QED
    BY <2>1, <2>2, <2>6, <2>7, <2>8
<1>12. \A k \in 1..Len(records) : file[k] = Printed(records[k])
  BY <1>8
<1>13. file \in Seq(Stanza) /\ DOMAIN file = 1..Len(records)
  <2>1. \A k \in 1..Len(records) : Printed(records[k]) \in Stanza
    BY <1>8, PrintedIs
  <2> QED
    BY <1>8, <2>1
<1> HIDE DEF file
<1>14. \A k \in 1..Len(records) :
         /\ (InPlace(file[k]) <=> InPlace(records[k])) /\ file[k].name = records[k].name
         /\ file[k].want = records[k].want /\ (HeldGone(file[k]) => HeldGone(records[k]))
         /\ InPlace(records[k]) => file[k].files = records[k].files
  <2> SUFFICES ASSUME NEW k \in 1..Len(records)
               PROVE  /\ (InPlace(file[k]) <=> InPlace(records[k])) /\ file[k].name = records[k].name
                      /\ file[k].want = records[k].want /\ (HeldGone(file[k]) => HeldGone(records[k]))
                      /\ InPlace(records[k]) => file[k].files = records[k].files
    OBVIOUS
  <2> DEFINE r == records[k]
             st == file[k]
  <2>1. r \in Record /\ st = Printed(r)
    BY <1>8, <1>12
  <2> HIDE DEF r, st
  <2>2. /\ st.name = r.name /\ st.want = r.want /\ st.status = r.status /\ st.flags \subseteq r.flags
        /\ InPlace(r) => st.files = r.files
    BY <2>1, PrintedIs
  <2> QED
    BY <2>2 DEF InPlace, HeldGone, r, st
<1>15. NoneShared(pkgHash)
  BY <1>1, OwnersShareNothing
<1>16. ASSUME NEW k \in 1..Len(records), NEW l \in 1..Len(records), k # l,
              InPlace(records[k]), InPlace(records[l])
       PROVE  records[k].name # records[l].name /\ records[k].files \cap records[l].files = {}
  <2>1. PICK p \in Reference : /\ p = ps[x[k]] /\ IsPlaced(pkgHash, p) /\ records[k] = Deref(pkgHash, p)
                               /\ p.name = records[k].name
    BY <1>11
  <2>2. PICK q \in Reference : /\ q = ps[x[l]] /\ IsPlaced(pkgHash, q) /\ records[l] = Deref(pkgHash, q)
                               /\ q.name = records[l].name
    BY <1>11
  <2>3. p # q
    BY <1>10, <1>16, <2>1, <2>2
  <2>4. p.name # q.name
    <3> SUFFICES ASSUME p.name = q.name PROVE FALSE
      OBVIOUS
    <3> DEFINE vec == Vec(pkgHash, p.name)
    <3>1. p.name \in Names /\ p.place \in 1..Len(vec) /\ q.place \in 1..Len(vec)
      BY <2>1, <2>2 DEF IsPlaced
    <3>2. vec \in Seq(Record) /\ OneInPlace(vec)
      BY <1>1, <3>1, VecIs
    <3>3. InPlace(vec[p.place]) /\ InPlace(vec[q.place])
      BY <1>16, <2>1, <2>2 DEF Deref
    <3> HIDE DEF vec
    <3>4. p.place = q.place
      BY <3>1, <3>2, <3>3 DEF OneInPlace
    <3> QED
      BY <2>3, <3>4 DEF Reference
  <2>5. records[k].files \cap records[l].files = {}
    BY <1>15, <1>16, <2>1, <2>2, <2>3 DEF NoneShared
  <2> QED
    BY <2>1, <2>2, <2>4, <2>5
<1>17. IsOrderly(file, held)
  <2>1. \A k \in 1..Len(records) : /\ InPlace(file[k]) => file[k].want # "deinstall"
                                   /\ HeldGone(file[k]) => held
    BY <1>11, <1>14
  <2>2. \A k, l \in 1..Len(records) :
          k # l /\ InPlace(file[k]) /\ InPlace(file[l]) =>
            file[k].name # file[l].name /\ file[k].files \cap file[l].files = {}
    BY <1>14, <1>16
  <2> QED
    BY <1>13, <2>1, <2>2 DEF IsOrderly
<1> QED
  BY <1>13, <1>17 DEF file, records, list

LEMMA LeaveInv ==
  ASSUME IInv, Leave, statusFile' \in Seq(Stanza), IsOrderly(statusFile', world.removesHeld)
  PROVE  IInv'
<1>1. /\ pkgHash' = Database.pkgs /\ fileHash' = FileTable!NewTable
      /\ providedBy' = Database.providedBy /\ neededBy' = Database.neededBy
      /\ world' = world /\ feed' = feed
  BY DEF Leave
<1>2. FileInv'
  BY <1>1 DEF IInv, FileInv
<1>3. DBInv(pkgHash', providedBy', neededBy', world'.removesHeld)
  BY <1>1, EmptyIs
<1>4. FileTableInv(fileHash') /\ OwnersInv(pkgHash', fileHash')
  BY <1>1, EmptyIs
<1> QED
  BY <1>2, <1>3, <1>4 DEF IInv

LEMMA StepInv == IInv /\ [Next]_vars => IInv'
<1> SUFFICES ASSUME IInv, [Next]_vars PROVE IInv'
  OBVIOUS
<1>1. CASE Load
  BY <1>1, LoadInv
<1>2. CASE Write
  <2> DEFINE records == Recorded(Available(pkgHash))
             file == [i \in DOMAIN records |-> Printed(records[i])]
  <2>1. Leave /\ statusFile' = file
    BY <1>2 DEF Write
  <2>2. file \in Seq(Stanza) /\ IsOrderly(file, world.removesHeld)
    BY WrittenIs
  <2> HIDE DEF file
  <2> QED
    BY <2>1, <2>2, LeaveInv
<1>3. CASE Crash
  <2>1. Leave /\ statusFile' = statusFile
    BY <1>3 DEF Crash
  <2>2. statusFile \in Seq(Stanza) /\ IsOrderly(statusFile, world.removesHeld)
    BY DEF IInv, FileInv
  <2> QED
    BY <2>1, <2>2, LeaveInv
<1>4. CASE Update
  BY <1>4 DEF Update, IInv, FileInv
<1>5. CASE \E n \in Names : Install(n) \/ FailInstall(n) \/ Configure(n) \/ RemovePkg(n) \/ Flag(n)
  BY <1>5, InstallInv, FailInstallInv, ConfigureInv, RemovePkgInv, FlagInv
<1>6. CASE UNCHANGED vars
  BY <1>6 DEF vars, IInv, FileInv
<1> QED
  BY <1>1, <1>2, <1>3, <1>4, <1>5, <1>6 DEF Next

\* The status file that opkg writes is one that it can load: at every moment no
\* two packages in place have one name or share a file.
THEOREM DatabaseIInv == Spec => []IInv
BY InitInv, StepInv, PTL DEF Spec

LEMMA DatabaseInvFollows == IInv => DatabaseInv
<1> SUFFICES ASSUME IInv PROVE DatabaseInv
  OBVIOUS
<1>1. /\ PkgTableInv(pkgHash) /\ FileTableInv(fileHash)
      /\ \A n \in Names : /\ AllLinked(Vec(pkgHash, n), n, providedBy, neededBy)
                          /\ world.removesHeld \/ Distinct(Vec(pkgHash, n))
  BY DEF IInv, DBInv
<1>2. PkgTable!WellFormed(pkgHash) /\ FileTable!WellFormed(fileHash)
  BY <1>1, TablesAreWellFormed
<1>3. ASSUME NEW n \in Names, NEW r \in ToSet(Vec(pkgHash, n))
      PROVE  /\ \A m \in r.provides \cup {n} : n \in providedBy[m]
             /\ \A m \in Needed(r) : n \in neededBy[m]
  <2>1. PICK i \in DOMAIN Vec(pkgHash, n) : r = Vec(pkgHash, n)[i]
    BY <1>3 DEF ToSet
  <2>2. IsLinked(r, n, providedBy, neededBy)
    BY <1>1, <2>1 DEF AllLinked
  <2> QED
    BY <2>2 DEF IsLinked
<1> QED
  BY <1>1, <1>2, <1>3 DEF DatabaseInv, Distinct

\* The chains of both tables keep their shape through every command, no name has
\* two records of one package, and no record is missing from the indexes.
THEOREM DatabaseInvHolds == Spec => []DatabaseInv
BY DatabaseIInv, DatabaseInvFollows, PTL

LEMMA OwnersMatchFollows == IInv => OwnersMatch
<1> SUFFICES ASSUME IInv PROVE OwnersMatch
  OBVIOUS
<1> DEFINE ps == ToSet(Pointers(pkgHash))
<1>1. PkgTableInv(pkgHash) /\ FileTableInv(fileHash) /\ OwnersInv(pkgHash, fileHash)
  BY DEF IInv, DBInv
<1>2. \A p : p \in ps <=> p \in Reference /\ IsPlaced(pkgHash, p)
  <2> DEFINE q == Pointers(pkgHash)
  <2>1. /\ q \in Seq(Reference)
        /\ \A i \in 1..Len(q) : IsPlaced(pkgHash, q[i])
        /\ \A p \in Reference : IsPlaced(pkgHash, p) => \E i \in 1..Len(q) : q[i] = p
    BY <1>1, PointersIs
  <2> HIDE DEF q
  <2>2. DOMAIN q = 1..Len(q) /\ \A i \in 1..Len(q) : q[i] \in Reference
    BY <2>1
  <2>3. ps = {q[i] : i \in DOMAIN q}
    BY DEF ToSet, q
  <2> QED
    BY <2>1, <2>2, <2>3
<1> HIDE DEF ps
<1>3. \A f \in File : FileTable!Lookup(fileHash, f) \in Reference \cup {NoData}
  BY <1>1, FileTableIs
<1>4. ASSUME NEW f \in File
      PROVE  LET havers  == {p \in ps : f \in Deref(pkgHash, p).files}
                 holders == {p \in havers : InPlace(Deref(pkgHash, p))}
             IN  IF holders # {} THEN holders = {Owner(f)} ELSE Owner(f) \in {NoData} \cup havers
  <2> DEFINE havers  == {p \in ps : f \in Deref(pkgHash, p).files}
             holders == {p \in havers : InPlace(Deref(pkgHash, p))}
  <2>1. \A p \in holders : Owner(f) = p
    BY <1>1, <1>2 DEF OwnersInv, Owner
  <2>2. Owner(f) \in {NoData} \cup havers
    <3>1. Owner(f) # NoData => Owner(f) \in ps /\ f \in Deref(pkgHash, Owner(f)).files
      BY <1>1, <1>2, <1>3 DEF OwnersInv, Owner
    <3> QED
      BY <3>1
  <2> HIDE DEF havers
  <2>3. holders # {} => holders = {Owner(f)}
    BY <2>1
  <2> QED
    BY <2>2, <2>3 DEF havers
<1> QED
  BY <1>4 DEF OwnersMatch, ps

\* Through all insertions into and removals from shared chains, each file of a
\* package in place is that package's, and no file is one's that does not have it.
THEOREM OwnersMatchHolds == Spec => []OwnersMatch
BY DatabaseIInv, OwnersMatchFollows, PTL

LEMMA VersionOrderFollows == IInv => VersionOrder
<1> SUFFICES ASSUME IInv PROVE VersionOrder
  OBVIOUS
<1>1. PkgTableInv(pkgHash) /\ world \in Worlds
  BY DEF IInv, DBInv, FileInv
<1>2. world.asked \subseteq Seq(Char)
  BY <1>1, WorldAssumption
<1>3. ASSUME NEW r \in Records PROVE r.v \in Version
  <2>1. PICK n \in Names : r \in ToSet(Vec(pkgHash, n))
    BY DEF Records
  <2> DEFINE vec == Vec(pkgHash, n)
  <2>2. vec \in Seq(Record)
    BY <1>1, VecIs
  <2>3. r \in {vec[i] : i \in DOMAIN vec}
    BY <2>1 DEF ToSet
  <2> HIDE DEF vec
  <2>4. r \in Record
    BY <2>2, <2>3
  <2> QED
    BY <2>4 DEF Record
<1>4. ASSUME NEW r \in Records, NEW s \in world.asked
      PROVE  LET w == ParseVersion(s)
                 o == PolicyOrder(r.v, w)
             IN  Fits(r.v) /\ Fits(w) =>
                   /\ Sgn(CompareVersions(r.v, w)) = o /\ Sgn(CompareVersions(w, r.v)) = -o
                   /\ {op \in Constraints : Satisfied(r.v, op, w)} =
                        CASE o < 0 -> {"<<", "<="} [] o = 0 -> {"<=", "=", ">="}
                          [] o > 0 -> {">=", ">>"}
  <2> DEFINE v == r.v
             w == ParseVersion(s)
             o == PolicyOrder(v, w)
  <2>1. v \in Version /\ w \in Version
    BY <1>2, <1>3, <1>4, ParseIs
  <2>2. o \in Int
    BY <2>1, PolicyTurned
  <2> SUFFICES ASSUME Fits(v), Fits(w)
               PROVE  /\ Sgn(CompareVersions(v, w)) = o /\ Sgn(CompareVersions(w, v)) = -o
                      /\ {op \in Constraints : Satisfied(v, op, w)} =
                           CASE o < 0 -> {"<<", "<="} [] o = 0 -> {"<=", "=", ">="}
                             [] o > 0 -> {">=", ">>"}
    OBVIOUS
  <2> HIDE DEF v, w
  <2>3. Sgn(CompareVersions(v, w)) = o /\ Sgn(CompareVersions(w, v)) = -o
    BY <2>1, OrderOfVersions
  <2> HIDE DEF o
  <2>4. {op \in Constraints : Satisfied(v, op, w)} =
          CASE o < 0 -> {"<<", "<="} [] o = 0 -> {"<=", "=", ">="} [] o > 0 -> {">=", ">>"}
    BY <2>1, <2>2, <2>3, SatisfiedIs
  <2> QED
    BY <2>3, <2>4
<1> QED
  BY <1>4 DEF VersionOrder

\* Whatever versions lists and status files hold, and whatever versions a user or a
\* dependence names, they are compared in the order of the Debian policy, and of
\* the five constraints just those hold that this order calls for.
THEOREM VersionOrderHolds == Spec => []VersionOrder
BY DatabaseIInv, VersionOrderFollows, PTL
=============================================================================
