----------------------------- MODULE HashTable -----------------------------
(***************************************************************************)
(* hash_table.c: a table keyed by strings.  A bucket is an entry inside    *)
(* the array, whose key may be absent, and a linked list of further ones.  *)
(* pkg_hash, file_hash and obs_file_hash are such tables.                  *)
(***************************************************************************)
EXTENDS Naturals, SequencesExt

CONSTANTS
  Buckets, \* n_buckets
  Hash,    \* the bucket of every key: djb2_hash modulo n_buckets
  NoKey,   \* key == NULL
  NoData   \* what hash_table_get returns when nothing is found

Bucket == 1..Buckets

Vacant == [key |-> NoKey, data |-> NoData]

\* hash_table_init
NewTable == [b \in Bucket |-> <<Vacant>>]

\* The place of a key in a chain, 0 when it is not there.
Place(chain, k) == SelectInSeq(chain, LAMBDA e : e.key = k)

\* What hash_table_foreach calls its function with, in this order.
Entries(t) ==
  FlattenSeq([b \in Bucket |->
    FlattenSeq([i \in DOMAIN t[b] |-> IF t[b][i].key = NoKey THEN <<>> ELSE <<t[b][i]>>])])

\* hash_table_get
Lookup(t, k) ==
  LET i == Place(t[Hash[k]], k) IN IF i = 0 THEN NoData ELSE t[Hash[k]][i].data

\* hash_table_insert: a vacant array entry takes the key; otherwise the chain
\* is searched for it, and a new entry hooked to the end.
Insert(t, k, d) ==
  LET chain == t[Hash[k]]
      entry == [key |-> k, data |-> d]
      i     == IF chain[1].key = NoKey THEN 1 ELSE Place(chain, k)
  IN  [t EXCEPT ![Hash[k]] = IF i = 0 THEN Append(chain, entry) ELSE ReplaceAt(chain, i, entry)]

\* hash_table_remove: when the array entry goes, the next one of the chain is
\* moved into it.
Delete(t, k) ==
  LET chain == t[Hash[k]]
      i     == Place(chain, k)
  IN  CASE i = 0                    -> t
        [] i # 0 /\ Len(chain) = 1  -> [t EXCEPT ![Hash[k]] = <<Vacant>>]
        [] i # 0 /\ Len(chain) > 1  -> [t EXCEPT ![Hash[k]] = RemoveAt(chain, i)]

\* No key is there twice, or in a bucket that is not its own, and an array
\* entry is vacant only when it has no chain behind it.
WellFormed(t) ==
  \A b \in Bucket : \A i \in DOMAIN t[b] :
    IF t[b][i].key = NoKey THEN Len(t[b]) = 1
    ELSE Hash[t[b][i].key] = b /\ Place(t[b], t[b][i].key) = i
=============================================================================
