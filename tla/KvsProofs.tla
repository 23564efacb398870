------------------------------ MODULE KvsProofs ------------------------------
(***************************************************************************)
(* Proofs about Kvs, for any set of threads, keys, values, commands and    *)
(* number of buckets, in this order:                                       *)
(*                                                                         *)
(*   - write_pair and delete_pair keep the table well formed, and on a     *)
(*     well-formed table they update and remove one key of the map that    *)
(*     read_pair sees, and no other;                                       *)
(*   - the read-write lock keeps the table still while it is read, and the *)
(*     loops of the calls keep it well formed however they interleave.     *)
(*     Neither property is inductive by itself: both rest on LockInv,      *)
(*     which ties the program counters to the two holders of the lock;     *)
(*   - the calls implement the atomic store of KvStore: what is left of a  *)
(*     call's loop is a command of its own (see Left), and an iteration    *)
(*     changes neither what remains to be done nor what will have been     *)
(*     printed.                                                            *)
(***************************************************************************)
EXTENDS KvsRefinement, SequenceLemmas

\* Every key that has a bucket has one inside the table.
LEMMA HashInTable ==
    ASSUME NEW k \in Keys, ~NoBucket(k)
    PROVE  hash(k) \in Buckets
<1>1. Initial[k] \in 0..127 /\ hash(k) < TABLE_SIZE /\ TABLE_SIZE \in Nat
  BY KvsTableAssumption
<1>2. hash(k) \in Nat
  BY <1>1 DEF hash, tolower, NoBucket
<1> QED
  BY <1>1, <1>2 DEF Buckets

\* The search loops stop at a node that has the key, the first one.
LEMMA FindIsFirst ==
    ASSUME NEW list \in Seq(KeyNode), NEW k, Occurs(list, k)
    PROVE  /\ Find(list, k) \in 1 .. Len(list)
           /\ list[Find(list, k)].key = k
           /\ \A m \in 1 .. Len(list) : list[m].key = k => Find(list, k) <= m
<1> DEFINE S == {n \in DOMAIN list : list[n].key = k}
<1>1. DOMAIN list = 1 .. Len(list) /\ Len(list) \in Nat
  OBVIOUS
<1>2. S # {} /\ S \in SUBSET Nat
  BY <1>1 DEF Occurs
<1>3. \E n \in S : \A m \in S : n <= m
  BY <1>2, LeastNatural
<1>4. \E n \in DOMAIN list :
         /\ list[n].key = k
         /\ \A m \in DOMAIN list : list[m].key = k => n <= m
  BY <1>3
<1> QED
  BY <1>1, <1>4 DEF Find

-----------------------------------------------------------------------------
(* One bucket: a list in which all keys hash to b and no key occurs twice. *)

Bucket(list, b) ==
    \A m, n \in DOMAIN list :
       /\ hash(list[m].key) = b
       /\ list[m].key = list[n].key => m = n

\* What is in a bucket.
LEMMA BucketIs ==
    ASSUME NEW list \in Seq(KeyNode), NEW b
    PROVE  Bucket(list, b) <=>
             /\ \A m \in 1 .. Len(list) : hash(list[m].key) = b
             /\ \A m, n \in 1 .. Len(list) : list[m].key = list[n].key => m = n
<1>1. DOMAIN list = 1 .. Len(list)
  OBVIOUS
<1> QED
  BY <1>1 DEF Bucket

\* What the loop of read_pair finds in one bucket.
Lookup(list, k) == IF Occurs(list, k) THEN list[Find(list, k)].value ELSE NotFound

\* In a bucket without repetitions the search finds THE node of the key.
LEMMA LookupIs ==
    ASSUME NEW list \in Seq(KeyNode), NEW b, Bucket(list, b),
           NEW n \in 1 .. Len(list)
    PROVE  Lookup(list, list[n].key) = list[n].value
<1>1. DOMAIN list = 1 .. Len(list)
  OBVIOUS
<1>2. Occurs(list, list[n].key)
  BY <1>1 DEF Occurs
<1>3. Find(list, list[n].key) = n
  BY <1>1, <1>2, FindIsFirst DEF Bucket
<1> QED
  BY <1>2, <1>3 DEF Lookup

\* What write_pair and delete_pair do to the bucket of their key.
Overwritten(list, k, v) == [list EXCEPT ![Find(list, k)].value = v]
Prepended(list, node) == <<node>> \o list
Unlinked(list, k) == RemoveAt(list, Find(list, k))

\* Overwriting in place changes one answer and keeps the bucket in order.
LEMMA Overwrite ==
    ASSUME NEW list \in Seq(KeyNode), NEW b, Bucket(list, b),
           NEW k \in Keys, NEW v \in Values, Occurs(list, k)
    PROVE  /\ Overwritten(list, k, v) \in Seq(KeyNode)
           /\ Bucket(Overwritten(list, k, v), b)
           /\ \A x \in Keys : Lookup(Overwritten(list, k, v), x)
                                = IF x = k THEN v ELSE Lookup(list, x)
<1> DEFINE new == Overwritten(list, k, v)
           f == Find(list, k)
           node == [list[f] EXCEPT !.value = v]
<1>1. f \in 1 .. Len(list) /\ list[f].key = k
  BY FindIsFirst
<1>2. node \in KeyNode /\ node.key = k /\ node.value = v
  <2>1. list[f] \in KeyNode
    BY <1>1, ElementOfSeq
  <2> HIDE DEF f
  <2> QED
    BY <1>1, <2>1 DEF KeyNode
<1>3. new = [list EXCEPT ![f] = node]
  BY DEF Overwritten
<1> HIDE DEF new, f, node
<1>4. /\ new \in Seq(KeyNode) /\ Len(new) = Len(list)
      /\ \A j \in 1 .. Len(list) : new[j] = IF j = f THEN node ELSE list[j]
  <2> DEFINE upd == [list EXCEPT ![f] = node]
  <2>1. /\ upd \in Seq(KeyNode) /\ Len(upd) = Len(list)
        /\ \A j \in 1 .. Len(list) : upd[j] = IF j = f THEN node ELSE list[j]
    BY <1>1, <1>2, ExceptSeq
  <2> HIDE DEF upd
  <2> QED
    BY <2>1, <1>3 DEF upd
<1>5. DOMAIN list = 1 .. Len(list) /\ DOMAIN new = 1 .. Len(list)
  BY <1>4
<1>6. \A j \in 1 .. Len(list) : new[j].key = list[j].key
  BY <1>1, <1>2, <1>4
<1>7. Bucket(new, b)
  <2>1. \A m \in 1 .. Len(list) : hash(new[m].key) = b
    <3> TAKE m \in 1 .. Len(list)
    <3>1. hash(list[m].key) = b
      BY BucketIs
    <3> QED
      BY <3>1, <1>6
  <2>2. \A m, n \in 1 .. Len(list) : new[m].key = new[n].key => m = n
    BY <1>6, BucketIs
  <2> QED
    BY <1>4, <2>1, <2>2, BucketIs
<1>8. ASSUME NEW x \in Keys
      PROVE  Lookup(new, x) = IF x = k THEN v ELSE Lookup(list, x)
  <2>1. CASE Occurs(new, x)
    <3>1. PICK n \in 1 .. Len(list) : new[n].key = x
      BY <2>1, <1>5 DEF Occurs
    <3>2. Lookup(new, x) = new[n].value
      BY <1>4, <1>7, <3>1, LookupIs
    <3>3. Lookup(list, x) = list[n].value
      BY <1>6, <3>1, LookupIs
    <3>4. x = k <=> n = f
      BY <1>1, <1>6, <3>1, BucketIs
    <3>5. CASE n = f
      BY <3>5, <1>2, <1>4, <3>1, <3>2, <3>4
    <3>6. CASE n # f
      BY <3>6, <1>4, <3>1, <3>2, <3>3, <3>4
    <3> QED
      BY <3>5, <3>6
  <2>2. CASE ~Occurs(new, x)
    <3>1. ~Occurs(list, x)
      BY <2>2, <1>5, <1>6 DEF Occurs
    <3>2. x # k
      BY <3>1
    <3> QED
      BY <2>2, <3>1, <3>2 DEF Lookup
  <2> QED
    BY <2>1, <2>2
<1> QED
  BY <1>4, <1>7, <1>8 DEF new

\* So does putting a node for a new key in front.
LEMMA Prepend ==
    ASSUME NEW list \in Seq(KeyNode), NEW b, Bucket(list, b),
           NEW node \in KeyNode, hash(node.key) = b, ~Occurs(list, node.key)
    PROVE  /\ Prepended(list, node) \in Seq(KeyNode)
           /\ Bucket(Prepended(list, node), b)
           /\ \A x \in Keys : Lookup(Prepended(list, node), x)
                                = IF x = node.key THEN node.value
                                  ELSE Lookup(list, x)
<1> DEFINE new == Prepended(list, node)
<1>1. <<node>> \in Seq(KeyNode) /\ Len(<<node>>) = 1 /\ <<node>>[1] = node
  OBVIOUS
<1>2. /\ new \in Seq(KeyNode) /\ Len(new) = 1 + Len(list)
      /\ \A i \in 1 .. 1 + Len(list) :
            new[i] = IF i <= 1 THEN <<node>>[i] ELSE list[i - 1]
  BY <1>1, ConcatProperties DEF Prepended
<1> HIDE DEF new
<1>3. Len(list) \in Nat /\ DOMAIN list = 1 .. Len(list)
      /\ DOMAIN new = 1 .. 1 + Len(list)
  BY <1>2
<1>4. new[1] = node /\ \A i \in 1 .. Len(list) : new[i + 1] = list[i]
  BY <1>1, <1>2, <1>3
<1>5. \A i \in 2 .. 1 + Len(list) : i - 1 \in 1 .. Len(list) /\ new[i] = list[i - 1]
  BY <1>2, <1>3
<1>6. \A i \in 1 .. Len(list) : list[i].key # node.key
  BY <1>3 DEF Occurs
<1>7. Bucket(new, b)
  <2> SUFFICES ASSUME NEW m \in 1 .. 1 + Len(list), NEW n \in 1 .. 1 + Len(list)
               PROVE  /\ hash(new[m].key) = b
                      /\ new[m].key = new[n].key => m = n
    BY <1>2, <1>3, BucketIs
  <2>1. m = 1 \/ m \in 2 .. 1 + Len(list)
    BY <1>3
  <2>2. n = 1 \/ n \in 2 .. 1 + Len(list)
    BY <1>3
  <2>3. hash(new[m].key) = b
    <3>1. CASE m = 1
      BY <3>1, <1>4
    <3>2. CASE m \in 2 .. 1 + Len(list)
      <4>1. m - 1 \in 1 .. Len(list) /\ new[m] = list[m - 1]
        BY <3>2, <1>5
      <4> QED
        BY <4>1, BucketIs
    <3> QED
      BY <2>1, <3>1, <3>2
  <2>4. CASE m = 1
    BY <2>4, <2>2, <1>4, <1>5, <1>6
  <2>5. CASE m \in 2 .. 1 + Len(list) /\ n = 1
    BY <2>3, <2>5, <1>4, <1>5, <1>6
  <2>6. CASE m \in 2 .. 1 + Len(list) /\ n \in 2 .. 1 + Len(list)
    <3>1. /\ m - 1 \in 1 .. Len(list) /\ new[m] = list[m - 1]
          /\ n - 1 \in 1 .. Len(list) /\ new[n] = list[n - 1]
      BY <2>6, <1>5
    <3>2. list[m - 1].key = list[n - 1].key => m - 1 = n - 1
      BY <3>1, BucketIs
    <3> QED
      BY <2>3, <2>6, <3>1, <3>2, <1>3
  <2> QED
    BY <2>1, <2>2, <2>3, <2>4, <2>5, <2>6
<1>8. ASSUME NEW x \in Keys
      PROVE  Lookup(new, x) = IF x = node.key THEN node.value
                              ELSE Lookup(list, x)
  <2>1. CASE x = node.key
    <3>1. 1 \in 1 .. Len(new) /\ new[1] = node
      BY <1>2, <1>3, <1>4
    <3>2. Lookup(new, new[1].key) = new[1].value
      BY <3>1, <1>2, <1>7, LookupIs
    <3> QED
      BY <2>1, <3>1, <3>2
  <2>2. CASE x # node.key /\ Occurs(list, x)
    <3>1. PICK n \in 1 .. Len(list) : list[n].key = x
      BY <2>2, <1>3 DEF Occurs
    <3>2. n + 1 \in 1 .. Len(new) /\ new[n + 1] = list[n]
      BY <3>1, <1>2, <1>3, <1>4
    <3>3. Lookup(new, x) = list[n].value
      BY <3>1, <3>2, <1>2, <1>7, LookupIs
    <3>4. Lookup(list, x) = list[n].value
      BY <3>1, LookupIs
    <3> QED
      BY <2>2, <3>3, <3>4
  <2>3. CASE x # node.key /\ ~Occurs(list, x)
    <3>1. \A i \in 1 .. 1 + Len(list) : i = 1 \/ i \in 2 .. 1 + Len(list)
      BY <1>3
    <3>2. \A i \in 1 .. 1 + Len(list) : new[i].key # x
      <4> TAKE i \in 1 .. 1 + Len(list)
      <4>1. CASE i = 1
        BY <4>1, <2>3, <1>4
      <4>2. CASE i \in 2 .. 1 + Len(list)
        BY <4>2, <2>3, <1>3, <1>5 DEF Occurs
      <4> QED
        BY <3>1, <4>1, <4>2
    <3>3. ~Occurs(new, x)
      BY <3>2, <1>3 DEF Occurs
    <3> QED
      BY <2>3, <3>3 DEF Lookup
  <2> QED
    BY <2>1, <2>2, <2>3
<1> QED
  BY <1>2, <1>7, <1>8 DEF new

\* Unlinking the node of a key takes that key away and no other.
LEMMA Unlink ==
    ASSUME NEW list \in Seq(KeyNode), NEW b, Bucket(list, b),
           NEW k \in Keys, Occurs(list, k)
    PROVE  /\ Unlinked(list, k) \in Seq(KeyNode)
           /\ Bucket(Unlinked(list, k), b)
           /\ \A x \in Keys : Lookup(Unlinked(list, k), x)
                                = IF x = k THEN NotFound ELSE Lookup(list, x)
<1> DEFINE new == Unlinked(list, k)
           f == Find(list, k)
           L == SubSeq(list, 1, f - 1)
           R == SubSeq(list, f + 1, Len(list))
           old(i) == IF i < f THEN i ELSE i + 1
<1>0. Len(list) \in Nat
  OBVIOUS
<1>1. f \in 1 .. Len(list) /\ list[f].key = k
  BY FindIsFirst
<1>2. new = L \o R
  BY DEF Unlinked, RemoveAt
<1> HIDE DEF f, new
<1>3. /\ L \in Seq(KeyNode) /\ Len(L) = f - 1
      /\ \A i \in 1 .. f - 1 : L[i] = list[i]
  <2>1. \A i \in 1 .. f - 1 : list[i] \in KeyNode
    BY <1>0, <1>1, ElementOfSeq
  <2>2. /\ L \in Seq(KeyNode)
        /\ Len(L) = IF 1 <= f - 1 THEN f - 1 - 1 + 1 ELSE 0
        /\ \A i \in 1 .. f - 1 - 1 + 1 : L[i] = list[1 + i - 1]
    BY <1>0, <1>1, <2>1, SubSeqProperties
  <2> QED
    BY <2>2, <1>0, <1>1
<1>4. /\ R \in Seq(KeyNode) /\ Len(R) = Len(list) - f
      /\ \A i \in 1 .. Len(list) - f : R[i] = list[f + i]
  <2>1. \A i \in f + 1 .. Len(list) : list[i] \in KeyNode
    BY <1>0, <1>1, ElementOfSeq
  <2>2. /\ R \in Seq(KeyNode)
        /\ Len(R) = IF f + 1 <= Len(list) THEN Len(list) - (f + 1) + 1 ELSE 0
        /\ \A i \in 1 .. Len(list) - (f + 1) + 1 : R[i] = list[f + 1 + i - 1]
    BY <1>0, <1>1, <2>1, SubSeqProperties
  <2> QED
    BY <2>2, <1>0, <1>1
<1> HIDE DEF L, R
<1>5. /\ new \in Seq(KeyNode) /\ Len(new) = Len(list) - 1
      /\ \A i \in 1 .. Len(list) - 1 : new[i] = list[old(i)]
  <2>1. /\ L \o R \in Seq(KeyNode) /\ Len(L \o R) = Len(L) + Len(R)
        /\ \A i \in 1 .. Len(L) + Len(R) :
              (L \o R)[i] = IF i <= Len(L) THEN L[i] ELSE R[i - Len(L)]
    BY <1>3, <1>4, ConcatProperties
  <2>2. Len(L) + Len(R) = Len(list) - 1
    BY <1>0, <1>1, <1>3, <1>4
  <2>3. \A i \in 1 .. Len(list) - 1 : (L \o R)[i] = list[old(i)]
    <3> TAKE i \in 1 .. Len(list) - 1
    <3>1. CASE i < f
      BY <3>1, <2>1, <2>2, <1>0, <1>1, <1>3
    <3>2. CASE ~(i < f)
      <4>1. i - Len(L) \in 1 .. Len(list) - f /\ f + (i - Len(L)) = i + 1
        BY <3>2, <1>0, <1>1, <1>3
      <4>2. (L \o R)[i] = R[i - Len(L)]
        BY <3>2, <2>1, <2>2, <1>0, <1>1, <1>3
      <4> QED
        BY <3>2, <4>1, <4>2, <1>4
    <3> QED
      BY <3>1, <3>2
  <2> QED
    BY <1>2, <2>1, <2>2, <2>3
<1>6. \A i \in 1 .. Len(list) - 1 : old(i) \in 1 .. Len(list) /\ old(i) # f
  BY <1>0, <1>1
<1>7. \A m, n \in 1 .. Len(list) - 1 : old(m) = old(n) => m = n
  BY <1>0, <1>1
<1>8. \A j \in 1 .. Len(list) :
         j # f => \E i \in 1 .. Len(list) - 1 : old(i) = j
  <2> TAKE j \in 1 .. Len(list)
  <2> HAVE j # f
  <2>1. CASE j < f
    <3>1. j \in 1 .. Len(list) - 1 /\ old(j) = j
      BY <2>1, <1>0, <1>1
    <3> QED
      BY <3>1
  <2>2. CASE j > f
    <3>1. j - 1 \in 1 .. Len(list) - 1 /\ old(j - 1) = j
      BY <2>2, <1>0, <1>1
    <3> QED
      BY <3>1
  <2> QED
    BY <2>1, <2>2, <1>0, <1>1
<1> HIDE DEF old
<1>9. Bucket(new, b)
  <2>1. \A m \in 1 .. Len(new) : hash(new[m].key) = b
    <3> TAKE m \in 1 .. Len(new)
    <3>1. new[m] = list[old(m)] /\ old(m) \in 1 .. Len(list)
      BY <1>5, <1>6
    <3> QED
      BY <3>1, BucketIs
  <2>2. \A m, n \in 1 .. Len(new) : new[m].key = new[n].key => m = n
    <3> TAKE m, n \in 1 .. Len(new)
    <3>1. /\ new[m] = list[old(m)] /\ old(m) \in 1 .. Len(list)
          /\ new[n] = list[old(n)] /\ old(n) \in 1 .. Len(list)
      BY <1>5, <1>6
    <3>2. new[m].key = new[n].key => old(m) = old(n)
      BY <3>1, BucketIs
    <3> QED
      BY <3>2, <1>5, <1>7
  <2> QED
    BY <1>5, <2>1, <2>2, BucketIs
<1>10. ASSUME NEW x \in Keys
       PROVE  Lookup(new, x) = IF x = k THEN NotFound ELSE Lookup(list, x)
  <2>1. CASE Occurs(new, x)
    <3>1. PICK i \in 1 .. Len(list) - 1 : new[i].key = x
      BY <2>1, <1>5 DEF Occurs
    <3>2. Lookup(new, x) = new[i].value
      BY <3>1, <1>5, <1>9, LookupIs
    <3>3. new[i] = list[old(i)] /\ old(i) \in 1 .. Len(list) /\ old(i) # f
      BY <3>1, <1>5, <1>6
    <3>4. Lookup(list, x) = list[old(i)].value
      BY <3>1, <3>3, LookupIs
    <3>5. x # k
      BY <1>1, <3>1, <3>3, BucketIs
    <3> QED
      BY <3>2, <3>3, <3>4, <3>5
  <2>2. CASE ~Occurs(new, x)
    <3>1. ASSUME x # k PROVE ~Occurs(list, x)
      <4> SUFFICES ASSUME NEW j \in 1 .. Len(list), list[j].key = x
                   PROVE  FALSE
        BY DEF Occurs
      <4>1. j # f
        BY <1>1, <3>1
      <4>2. PICK i \in 1 .. Len(list) - 1 : old(i) = j
        BY <4>1, <1>8
      <4>3. i \in DOMAIN new /\ new[i].key = x
        BY <4>2, <1>5
      <4> QED
        BY <2>2, <4>3 DEF Occurs
    <3> QED
      BY <2>2, <3>1 DEF Lookup
  <2> QED
    BY <2>1, <2>2
<1> QED
  BY <1>5, <1>9, <1>10 DEF new

-----------------------------------------------------------------------------
(* The whole table. *)

\* A table that is well formed has well-formed buckets.
LEMMA TableIs ==
    ASSUME NEW ht \in HashTable
    PROVE  /\ WellFormed(ht) <=> \A b \in Buckets : Bucket(ht[b], b)
           /\ \A k \in Keys : read_pair(ht, k) = Lookup(ht[hash(k)], k)
BY DEF WellFormed, Bucket, read_pair, Lookup

\* The effect of a WRITE or DELETE of one key on the map.
Updated(map, k, v) == [map EXCEPT ![k] = v]

\* A change of one bucket that has the effect `v' on key k, and none on the
\* others, has that effect on the map.
LEMMA OneBucket ==
    ASSUME NEW ht \in HashTable, WellFormed(ht),
           NEW k \in Keys, ~NoBucket(k), NEW v,
           NEW new \in HashTable,
           \A b \in Buckets : b # hash(k) => new[b] = ht[b],
           Bucket(new[hash(k)], hash(k)),
           \A x \in Keys : Lookup(new[hash(k)], x)
                              = IF x = k THEN v ELSE Lookup(ht[hash(k)], x)
    PROVE  /\ WellFormed(new)
           /\ Contents(new) = Updated(Contents(ht), k, v)
<1>1. hash(k) \in Buckets
  BY HashInTable
<1>2. WellFormed(new)
  BY TableIs
<1>3. ASSUME NEW x \in Keys
      PROVE  Contents(new)[x] = IF x = k THEN v ELSE Contents(ht)[x]
  <2>1. CASE NoBucket(x)
    BY <2>1 DEF Contents
  <2>2. CASE ~NoBucket(x)
    <3>1. hash(x) \in Buckets
      BY <2>2, HashInTable
    <3>2. Contents(new)[x] = Lookup(new[hash(x)], x)
      BY <2>2, TableIs DEF Contents
    <3>3. Contents(ht)[x] = Lookup(ht[hash(x)], x)
      BY <2>2, TableIs DEF Contents
    <3>4. CASE hash(x) = hash(k)
      BY <3>2, <3>3, <3>4
    <3>5. CASE hash(x) # hash(k)
      BY <3>1, <3>2, <3>3, <3>5
    <3> QED
      BY <3>4, <3>5
  <2> QED
    BY <2>1, <2>2
<1>4. Contents(new) = [x \in Keys |-> Contents(new)[x]]
      /\ Contents(ht) = [x \in Keys |-> Contents(ht)[x]]
  BY DEF Contents
<1>5. Contents(new) = Updated(Contents(ht), k, v)
  BY <1>3, <1>4 DEF Updated
<1> QED
  BY <1>2, <1>5

\* WRITE of a pair: whether it overwrites a node or puts a new one in front,
\* the table stays well formed and afterwards holds that value for that key,
\* and what it held for every other key.
THEOREM WritePairUpdates ==
    ASSUME NEW ht \in HashTable, WellFormed(ht),
           NEW k \in Keys, ~NoBucket(k), NEW v \in Values,
           NEW residue \in HeapResidue
    PROVE  /\ write_pair(ht, k, v, residue) \in HashTable
           /\ WellFormed(write_pair(ht, k, v, residue))
           /\ Contents(write_pair(ht, k, v, residue))
                = [Contents(ht) EXCEPT ![k] = v]
<1> DEFINE list == ht[hash(k)]
           node == [key |-> k, value |-> v, head |-> residue]
           result == write_pair(ht, k, v, residue)
<1>1. hash(k) \in Buckets
  BY HashInTable
<1>2. list \in Seq(KeyNode) /\ Bucket(list, hash(k))
  BY <1>1, TableIs DEF HashTable
<1>3. PICK new \in Seq(KeyNode) :
         /\ Bucket(new, hash(k))
         /\ \A x \in Keys : Lookup(new, x) = IF x = k THEN v ELSE Lookup(list, x)
         /\ result = [ht EXCEPT ![hash(k)] = new]
  <2>1. CASE Occurs(list, k)
    <3>1. result = [ht EXCEPT ![hash(k)] = Overwritten(list, k, v)]
      BY <2>1 DEF write_pair, Overwritten
    <3> HIDE DEF list, result
    <3>2. /\ Overwritten(list, k, v) \in Seq(KeyNode)
          /\ Bucket(Overwritten(list, k, v), hash(k))
          /\ \A x \in Keys : Lookup(Overwritten(list, k, v), x)
                               = IF x = k THEN v ELSE Lookup(list, x)
      BY <1>2, <2>1, Overwrite
    <3> QED
      BY <3>1, <3>2
  <2>2. CASE ~Occurs(list, k)
    <3>1. result = [ht EXCEPT ![hash(k)] = Prepended(list, node)]
      BY <2>2 DEF write_pair, Prepended
    <3>2. node \in KeyNode /\ node.key = k /\ node.value = v
      BY KvsTableAssumption DEF KeyNode
    <3> HIDE DEF node, list, result
    <3> QED
      BY <1>2, <2>2, <3>1, <3>2, Prepend
  <2> QED
    BY <2>1, <2>2
<1> HIDE DEF result
<1>4. /\ result \in HashTable /\ result[hash(k)] = new
      /\ \A b \in Buckets : b # hash(k) => result[b] = ht[b]
  BY <1>1, <1>3 DEF HashTable
<1>5. WellFormed(result) /\ Contents(result) = Updated(Contents(ht), k, v)
  <2>1. Bucket(result[hash(k)], hash(k))
    BY <1>3, <1>4
  <2>2. \A x \in Keys : Lookup(result[hash(k)], x)
                         = IF x = k THEN v ELSE Lookup(ht[hash(k)], x)
    BY <1>3, <1>4
  <2> QED
    BY <1>4, <2>1, <2>2, OneBucket
<1> QED
  BY <1>4, <1>5 DEF result, Updated

\* DELETE of a key that occurs: unlinking the first or a later node of the
\* bucket removes that key from the map and disturbs no other.
THEOREM DeletePairRemoves ==
    ASSUME NEW ht \in HashTable, WellFormed(ht),
           NEW k \in Keys, ~NoBucket(k), Occurs(ht[hash(k)], k)
    PROVE  /\ delete_pair(ht, k) \in HashTable
           /\ WellFormed(delete_pair(ht, k))
           /\ Contents(delete_pair(ht, k))
                = [Contents(ht) EXCEPT ![k] = NotFound]
<1> DEFINE list == ht[hash(k)]
           result == delete_pair(ht, k)
<1>1. hash(k) \in Buckets
  BY HashInTable
<1>2. list \in Seq(KeyNode) /\ Bucket(list, hash(k))
  BY <1>1, TableIs DEF HashTable
<1>3. PICK new \in Seq(KeyNode) :
         /\ Bucket(new, hash(k))
         /\ \A x \in Keys :
               Lookup(new, x) = IF x = k THEN NotFound ELSE Lookup(list, x)
         /\ result = [ht EXCEPT ![hash(k)] = new]
  <2>1. result = [ht EXCEPT ![hash(k)] = Unlinked(list, k)]
    BY DEF delete_pair, Unlinked
  <2> HIDE DEF list, result
  <2>2. /\ Unlinked(list, k) \in Seq(KeyNode)
        /\ Bucket(Unlinked(list, k), hash(k))
        /\ \A x \in Keys : Lookup(Unlinked(list, k), x)
                             = IF x = k THEN NotFound ELSE Lookup(list, x)
    BY <1>2, Unlink DEF list
  <2> QED
    BY <2>1, <2>2
<1> HIDE DEF result
<1>4. /\ result \in HashTable /\ result[hash(k)] = new
      /\ \A b \in Buckets : b # hash(k) => result[b] = ht[b]
  BY <1>1, <1>3 DEF HashTable
<1>5. WellFormed(result)
      /\ Contents(result) = Updated(Contents(ht), k, NotFound)
  <2>1. Bucket(result[hash(k)], hash(k))
    BY <1>3, <1>4
  <2>2. \A x \in Keys : Lookup(result[hash(k)], x)
                         = IF x = k THEN NotFound ELSE Lookup(ht[hash(k)], x)
    BY <1>3, <1>4
  <2> QED
    BY <1>4, <2>1, <2>2, OneBucket
<1> QED
  BY <1>4, <1>5 DEF result, Updated

-----------------------------------------------------------------------------
(* The semantics of KvStore in terms of the arguments of a command. *)

\* The greatest element of a bounded set that is not empty.
LEMMA GreatestIs ==
    ASSUME NEW N \in Nat, NEW S \in SUBSET (1 .. N), S # {}
    PROVE  Max(S) \in S /\ \A n \in S : n <= Max(S)
<1> DEFINE T == {N - n : n \in S}
<1>1. T \in SUBSET Nat /\ T # {}
  <2>1. \A n \in S : N - n \in Nat
    OBVIOUS
  <2> QED
    BY <2>1
<1>2. PICK x \in T : \A y \in T : x <= y
  BY <1>1, LeastNatural
<1>3. PICK m \in S : x = N - m
  BY <1>2
<1>4. ASSUME NEW n \in S PROVE m >= n
  <2>1. N - m <= N - n
    BY <1>2, <1>3
  <2> QED
    BY <2>1
<1>5. \E m1 \in S : \A n \in S : m1 >= n
  BY <1>4
<1>6. Max(S) \in S /\ \A n \in S : Max(S) >= n
  BY <1>5 DEF Max
<1> QED
  BY <1>6

\* There is only one greatest element.
LEMMA GreatestIsUnique ==
    ASSUME NEW N \in Nat, NEW S \in SUBSET (1 .. N), NEW m \in S,
           \A n \in S : n <= m
    PROVE  Max(S) = m
<1>1. \A g \in S : m <= g => g = m
  <2> TAKE g \in S
  <2>1. g \in Int /\ m \in Int /\ g <= m
    OBVIOUS
  <2> QED
    BY <2>1
<1>2. Max(S) \in S /\ m <= Max(S)
  BY GreatestIs
<1> QED
  BY <1>1, <1>2, Zenon

\* Sequence b is sequence a without its first element.
IsTail(b, a) ==
    /\ Len(b) \in Nat /\ Len(a) = Len(b) + 1
    /\ DOMAIN a = 1 .. Len(b) + 1 /\ DOMAIN b = 1 .. Len(b)
    /\ \A i \in 1 .. Len(b) : b[i] = a[i + 1]

\* What is left of a sequence behind its first element.
LEMMA RestIsTail ==
    ASSUME NEW S, NEW args \in Seq(S), NEW p \in 1 .. Len(args)
    PROVE  /\ SubSeq(args, p, Len(args)) \in Seq(S)
           /\ SubSeq(args, p + 1, Len(args)) \in Seq(S)
           /\ IsTail(SubSeq(args, p + 1, Len(args)), SubSeq(args, p, Len(args)))
           /\ SubSeq(args, p, Len(args))[1] = args[p]
<1> DEFINE a == SubSeq(args, p, Len(args))
           b == SubSeq(args, p + 1, Len(args))
<1>0. Len(args) \in Nat /\ p \in Nat
  OBVIOUS
<1>1. \A i \in 1 .. Len(args) : args[i] \in S
  BY ElementOfSeq
<1>2. /\ a \in Seq(S) /\ Len(a) = Len(args) - p + 1
      /\ \A i \in 1 .. Len(args) - p + 1 : a[i] = args[p + i - 1]
  <2>1. \A i \in p .. Len(args) : args[i] \in S
    BY <1>0, <1>1
  <2> QED
    BY <1>0, <2>1, SubSeqProperties
<1>3. /\ b \in Seq(S) /\ Len(b) = Len(args) - p
      /\ \A i \in 1 .. Len(args) - p : b[i] = args[p + i]
  <2>1. \A i \in p + 1 .. Len(args) : args[i] \in S
    BY <1>0, <1>1
  <2>2. /\ b \in Seq(S)
        /\ Len(b) = IF p + 1 <= Len(args) THEN Len(args) - (p + 1) + 1 ELSE 0
        /\ \A i \in 1 .. Len(args) - (p + 1) + 1 : b[i] = args[p + 1 + i - 1]
    BY <1>0, <2>1, SubSeqProperties
  <2> QED
    BY <1>0, <2>2
<1> HIDE DEF a, b
<1>4. DOMAIN a = 1 .. Len(a) /\ DOMAIN b = 1 .. Len(b)
  BY <1>2, <1>3
<1>5. \A i \in 1 .. Len(b) : b[i] = a[i + 1]
  BY <1>0, <1>2, <1>3
<1>6. a[1] = args[p]
  BY <1>0, <1>2
<1>7. Len(b) \in Nat /\ Len(a) = Len(b) + 1
  BY <1>0, <1>2, <1>3
<1> QED
  BY <1>2, <1>3, <1>4, <1>5, <1>6, <1>7 DEF IsTail, a, b

\* KvStore and KvsRefinement see the same semantics, and the same library.
LEMMA SemLibrary ==
    ASSUME NEW x
    PROVE  /\ Sem!FlattenSeq(x) = FlattenSeq(x)
           /\ Sem!SetToSeqs(x) = SetToSeqs(x)
           /\ Sem!ToSet(x) = ToSet(x)
           /\ Sem!Max(x) = Max(x)
<1>1. Sem!FlattenSeq(x) = FlattenSeq(x)
  BY DEF Sem!FlattenSeq, FlattenSeq
<1>2. Sem!SetToSeqs(x) = SetToSeqs(x)
  BY DEF Sem!SetToSeqs, SetToSeqs, Sem!Cardinality, Cardinality
<1>3. Sem!ToSet(x) = ToSet(x) /\ Sem!Max(x) = Max(x)
  BY DEF Sem!ToSet, ToSet, Sem!Max, Max
<1> QED
  BY <1>1, <1>2, <1>3

\* KvStore and KvsRefinement mean the same by a command.
LEMMA SemIsStore ==
    ASSUME NEW c, NEW s
    PROVE  /\ Store!Effect(c, s) = Sem!Effect(c, s)
           /\ Store!Replies(c, s) = Sem!Replies(c, s)
<1>1. \A x : /\ Store!FlattenSeq(x) = Sem!FlattenSeq(x)
             /\ Store!ToSet(x) = Sem!ToSet(x)
             /\ Store!Max(x) = Sem!Max(x)
  BY DEF Store!FlattenSeq, Sem!FlattenSeq, Store!ToSet, Sem!ToSet, Store!Max, Sem!Max
<1>2. \A x : Store!SetToSeqs(x) = Sem!SetToSeqs(x)
  BY DEF Store!SetToSeqs, Sem!SetToSeqs, Store!Cardinality, Sem!Cardinality
<1>3. \A k : Store!Written(c, k) = Sem!Written(c, k)
  BY DEF Store!Written, Sem!Written
<1>4. \A n : Store!Complaint(c, s, n) = Sem!Complaint(c, s, n)
  BY DEF Store!Complaint, Sem!Complaint, Store!Complains, Sem!Complains
<1>5. Store!Missing(c, s) = Sem!Missing(c, s)
  <2>1. [n \in DOMAIN c.args |-> Store!Complaint(c, s, n)]
          = [n \in DOMAIN c.args |-> Sem!Complaint(c, s, n)]
    BY <1>4
  <2> QED
    BY <1>1, <2>1 DEF Store!Missing, Sem!Missing
<1>6. Store!Listings(s) = Sem!Listings(s)
  BY <1>2 DEF Store!Listings, Sem!Listings
<1> QED
  BY <1>1, <1>3, <1>5, <1>6 DEF Store!Effect, Sem!Effect, Store!Replies, Sem!Replies

-----------------------------------------------------------------------------
\* A call and what is left of it after one iteration.
Calling(op, args) == [op |-> op, args |-> args]

Map == [Keys -> Values \cup {NotFound}]

\* WRITE: the first pair, then the others.
LEMMA WriteShift ==
    ASSUME NEW s \in Map, NEW a \in Seq(Keys \X Values), NEW b, IsTail(b, a)
    PROVE  Sem!Effect(Calling("write", a), s)
             = Sem!Effect(Calling("write", b), [s EXCEPT ![a[1][1]] = a[1][2]])
<1> DEFINE A(k) == Sem!Written(Calling("write", a), k)
           B(k) == Sem!Written(Calling("write", b), k)
           s1 == [s EXCEPT ![a[1][1]] = a[1][2]]
           L == Len(b)
<1>0. L \in Nat /\ 1 \in 1 .. L + 1
  BY DEF IsTail
<1>1. a[1][1] \in Keys
  <2>1. a[1] \in Keys \X Values
    BY ElementOfSeq DEF IsTail
  <2> QED
    BY <2>1
<1>2. \A k : A(k) = {n \in 1 .. L + 1 : a[n][1] = k}
  BY DEF Sem!Written, Calling, IsTail
<1>3. \A k : B(k) = {n \in 1 .. L : b[n][1] = k}
  BY DEF Sem!Written, Calling, IsTail
<1>4. \A n \in 1 .. L : b[n] = a[n + 1]
  BY DEF IsTail
<1>5. Sem!Effect(Calling("write", a), s)
        = [k \in Keys |-> IF A(k) = {} THEN s[k] ELSE a[Max(A(k))][2]]
  BY SemLibrary DEF Sem!Effect, Calling
<1>6. Sem!Effect(Calling("write", b), s1)
        = [k \in Keys |-> IF B(k) = {} THEN s1[k] ELSE b[Max(B(k))][2]]
  BY SemLibrary DEF Sem!Effect, Calling
<1>7. ASSUME NEW k \in Keys
      PROVE  (IF A(k) = {} THEN s[k] ELSE a[Max(A(k))][2])
               = (IF B(k) = {} THEN s1[k] ELSE b[Max(B(k))][2])
  <2> DEFINE Ak == A(k)
             Bk == B(k)
  <2>1. Ak = {n \in 1 .. L + 1 : a[n][1] = k} /\ Bk = {n \in 1 .. L : b[n][1] = k}
    BY <1>2, <1>3
  <2> HIDE DEF A, B
  <2> SUFFICES (IF Ak = {} THEN s[k] ELSE a[Max(Ak)][2])
                 = (IF Bk = {} THEN s1[k] ELSE b[Max(Bk)][2])
    OBVIOUS
  <2> HIDE DEF Ak, Bk, s1
  <2>2. Ak \in SUBSET (1 .. L + 1) /\ Bk \in SUBSET (1 .. L) /\ L + 1 \in Nat
    BY <1>0, <2>1
  <2>3. CASE Bk # {}
    <3>1. Max(Bk) \in Bk /\ \A n \in Bk : n <= Max(Bk)
      BY <1>0, <2>2, <2>3, GreatestIs
    <3>2. PICK m \in Bk : m = Max(Bk) /\ \A n \in Bk : n <= m
      BY <3>1
    <3>3. m \in 1 .. L /\ m + 1 \in Ak /\ a[m + 1] = b[m]
      BY <1>0, <1>4, <2>1, <2>2
    <3>4. \A n \in Ak : n <= m + 1
      <4> TAKE n \in Ak
      <4>1. CASE n = 1
        BY <1>0, <3>3, <4>1
      <4>2. CASE n # 1
        <5>1. n - 1 \in 1 .. L /\ (n - 1) + 1 = n
          BY <1>0, <2>2, <4>2
        <5>2. n - 1 \in Bk
          BY <1>4, <2>1, <5>1
        <5>3. n - 1 <= m
          BY <3>2, <5>2
        <5> QED
          BY <1>0, <3>3, <5>1, <5>3
      <4> QED
        BY <4>1, <4>2
    <3>5. Max(Ak) = m + 1
      BY <2>2, <3>3, <3>4, GreatestIsUnique
    <3> QED
      BY <2>3, <3>2, <3>3, <3>5
  <2>4. CASE Bk = {}
    <3>1. \A n \in Ak : n = 1
      <4> SUFFICES ASSUME NEW n \in Ak, n # 1 PROVE FALSE
        OBVIOUS
      <4>1. n - 1 \in 1 .. L /\ (n - 1) + 1 = n
        BY <1>0, <2>2
      <4>2. n - 1 \in Bk
        BY <1>4, <2>1, <4>1
      <4> QED
        BY <2>4, <4>2
    <3>2. CASE a[1][1] = k
      <4>1. 1 \in Ak
        BY <1>0, <2>1, <3>2
      <4>2. Max(Ak) = 1
        <5>1. \A n \in Ak : n <= 1
          BY <3>1
        <5> QED
          BY <2>2, <4>1, <5>1, GreatestIsUnique
      <4>3. s1[k] = a[1][2]
        BY <1>1, <3>2 DEF s1, Map
      <4> QED
        BY <2>4, <4>1, <4>2, <4>3
    <3>3. CASE a[1][1] # k
      <4>1. Ak = {}
        BY <2>1, <3>1, <3>3
      <4>2. s1[k] = s[k]
        BY <1>1, <3>3 DEF s1, Map
      <4> QED
        BY <2>4, <4>1, <4>2
    <3> QED
      BY <3>2, <3>3
  <2> QED
    BY <2>3, <2>4
<1> HIDE DEF A, B, s1
<1>8. Sem!Effect(Calling("write", a), s) = Sem!Effect(Calling("write", b), s1)
  BY <1>5, <1>6, <1>7
<1> QED
  BY <1>8 DEF s1

\* DELETE: the first key, then the others.
LEMMA DeleteShift ==
    ASSUME NEW s \in Map, NEW a \in Seq(Keys), NEW b, IsTail(b, a)
    PROVE  Sem!Effect(Calling("delete", a), s)
             = Sem!Effect(Calling("delete", b), [s EXCEPT ![a[1]] = NotFound])
<1> DEFINE s1 == [s EXCEPT ![a[1]] = NotFound]
           L == Len(b)
<1>0. L \in Nat /\ 1 \in 1 .. L + 1
  BY DEF IsTail
<1>1. \A n \in 1 .. L + 1 : n = 1 \/ (n - 1 \in 1 .. L /\ a[n] = b[n - 1])
  <2> TAKE n \in 1 .. L + 1
  <2>1. n = 1 \/ (n - 1 \in 1 .. L /\ (n - 1) + 1 = n)
    BY <1>0
  <2> QED
    BY <2>1 DEF IsTail
<1>2. \A n \in 1 .. L : n + 1 \in 1 .. L + 1 /\ b[n] = a[n + 1]
  BY <1>0 DEF IsTail
<1>3. \A x : x \in ToSet(a) <=> x = a[1] \/ x \in ToSet(b)
  <2>1. ToSet(a) = {a[i] : i \in 1 .. L + 1} /\ ToSet(b) = {b[i] : i \in 1 .. L}
    BY DEF ToSet, IsTail
  <2> QED
    BY <1>0, <1>1, <1>2, <2>1
<1>4. a[1] \in Keys
  BY ElementOfSeq DEF IsTail
<1>5. \A k \in Keys : s1[k] = IF k = a[1] THEN NotFound ELSE s[k]
  BY <1>4 DEF Map
<1>6. Sem!Effect(Calling("delete", a), s)
        = [k \in Keys |-> IF k \in ToSet(a) THEN NotFound ELSE s[k]]
  BY SemLibrary DEF Sem!Effect, Calling
<1>7. Sem!Effect(Calling("delete", b), s1)
        = [k \in Keys |-> IF k \in ToSet(b) THEN NotFound ELSE s1[k]]
  BY SemLibrary DEF Sem!Effect, Calling
<1> HIDE DEF s1
<1>8. Sem!Effect(Calling("delete", a), s) = Sem!Effect(Calling("delete", b), s1)
  <2>1. \A k \in Keys : (IF k \in ToSet(a) THEN NotFound ELSE s[k])
                          = (IF k \in ToSet(b) THEN NotFound ELSE s1[k])
    BY <1>3, <1>5
  <2> QED
    BY <1>6, <1>7, <2>1
<1> QED
  BY <1>8 DEF s1

\* Nothing left to do has no effect.
LEMMA NoEffect ==
    ASSUME NEW s \in Map, NEW op \in {"write", "delete"}, NEW a, DOMAIN a = {}
    PROVE  Sem!Effect(Calling(op, a), s) = s
<1>1. CASE op = "write"
  <2>1. \A k : Sem!Written(Calling(op, a), k) = {}
    BY DEF Sem!Written, Calling
  <2>2. Sem!Effect(Calling(op, a), s) = [k \in Keys |-> s[k]]
    BY <1>1, <2>1 DEF Sem!Effect, Calling
  <2> QED
    BY <2>2 DEF Map
<1>2. CASE op = "delete"
  <2>1. ToSet(a) = {}
    BY DEF ToSet
  <2>2. Sem!Effect(Calling(op, a), s) = [k \in Keys |-> s[k]]
    BY <1>2, <2>1, SemLibrary DEF Sem!Effect, Calling
  <2> QED
    BY <2>2 DEF Map
<1> QED
  BY <1>1, <1>2

\* What READ prints of one key, and of all of them.
Answer(k, s) == <<k, IF s[k] = NotFound THEN "KVSERROR" ELSE s[k]>>
Answers(a, s) == [n \in DOMAIN a |-> Answer(a[n], s)]

\* READ prints one line for each of its keys.
LEMMA AnswersType ==
    ASSUME NEW s \in Map, NEW a \in Seq(Keys)
    PROVE  /\ Answers(a, s) \in Seq(Line) /\ Len(Answers(a, s)) = Len(a)
           /\ \A n \in 1 .. Len(a) : Answers(a, s)[n] = Answer(a[n], s)
           /\ \A k \in Keys : Answer(k, s) \in Line
<1>1. \A k \in Keys : Answer(k, s) \in Line
  BY DEF Answer, Line, Map
<1>2. DOMAIN a = 1 .. Len(a) /\ Len(a) \in Nat
  OBVIOUS
<1>3. Answers(a, s) = [n \in 1 .. Len(a) |-> Answer(a[n], s)]
  BY <1>2 DEF Answers
<1>4. \A n \in 1 .. Len(a) : Answer(a[n], s) \in Line
  BY <1>1, ElementOfSeq
<1> HIDE DEF Answer, Line
<1>5. Answers(a, s) \in [1 .. Len(a) -> Line]
  BY <1>3, <1>4
<1>6. Answers(a, s) \in Seq(Line) /\ Len(Answers(a, s)) = Len(a)
  BY <1>2, <1>5, SeqDef, LenProperties
<1> QED
  BY <1>1, <1>3, <1>6

\* READ: the first key, then the others.
LEMMA ReadShift ==
    ASSUME NEW s \in Map, NEW a \in Seq(Keys), NEW b \in Seq(Keys), IsTail(b, a)
    PROVE  Answers(a, s) = <<Answer(a[1], s)>> \o Answers(b, s)
<1> DEFINE x == Answer(a[1], s)
           A == Answers(a, s)
           B == Answers(b, s)
           C == <<x>> \o B
<1>0. Len(b) \in Nat /\ Len(a) = Len(b) + 1 /\ a[1] \in Keys
  BY ElementOfSeq DEF IsTail
<1>1. /\ A \in Seq(Line) /\ Len(A) = Len(a)
      /\ \A n \in 1 .. Len(a) : A[n] = Answer(a[n], s)
  BY AnswersType
<1>2. /\ B \in Seq(Line) /\ Len(B) = Len(b)
      /\ \A n \in 1 .. Len(b) : B[n] = Answer(b[n], s)
  BY AnswersType
<1>3. x \in Line
  BY <1>0, AnswersType
<1> HIDE DEF A, B, x
<1>4. /\ C \in Seq(Line) /\ Len(C) = Len(b) + 1 /\ C[1] = x
      /\ \A i \in 1 .. Len(b) : C[i + 1] = B[i]
  BY <1>2, <1>3, PutFirst
<1> HIDE DEF C
<1>5. ASSUME NEW i \in 1 .. Len(A) PROVE A[i] = C[i]
  <2>0. i \in 1 .. Len(b) + 1 /\ i \in 1 .. Len(a)
    BY <1>0, <1>1
  <2>1. CASE i = 1
    BY <1>1, <1>4, <2>0, <2>1 DEF x
  <2>2. CASE i # 1
    <3>1. i - 1 \in 1 .. Len(b) /\ (i - 1) + 1 = i
      BY <1>0, <2>0, <2>2
    <3>2. b[i - 1] = a[i]
      BY <3>1 DEF IsTail
    <3>3. C[i] = B[i - 1]
      BY <1>4, <3>1
    <3>4. B[i - 1] = Answer(b[i - 1], s)
      BY <1>2, <3>1
    <3>5. A[i] = Answer(a[i], s)
      BY <1>1, <2>0
    <3> QED
      BY <3>2, <3>3, <3>4, <3>5
  <2> QED
    BY <2>1, <2>2
<1>6. A = C
  <2>1. Len(A) = Len(C)
    BY <1>0, <1>1, <1>4
  <2>2. \A i \in 1 .. Len(A) : A[i] = C[i]
    BY <1>5
  <2>3. A \in Seq(Line) /\ C \in Seq(Line)
    BY <1>1, <1>4
  <2> QED
    BY <2>1, <2>2, <2>3, SeqEqual
<1> QED
  BY <1>6 DEF A, B, C, x

-----------------------------------------------------------------------------
\* What DELETE prints.
Gone(k, s) == IF s[k] = NotFound THEN <<<<k, "KVSMISSING">>>> ELSE <<>>
Complaints(a, s) ==
    [n \in DOMAIN a |-> Sem!Complaint(Calling("delete", a), s, n)]

\* DELETE complains of a key that is absent, or that came before.
LEMMA ComplaintIs ==
    ASSUME NEW a, NEW s, NEW n
    PROVE  Sem!Complaint(Calling("delete", a), s, n)
             = IF s[a[n]] = NotFound \/ \E m \in 1 .. n - 1 : a[m] = a[n]
               THEN <<<<a[n], "KVSMISSING">>>> ELSE <<>>
BY DEF Sem!Complaint, Sem!Complains, Calling

\* What DELETE prints are lines.
LEMMA ComplaintsType ==
    ASSUME NEW s, NEW a \in Seq(Keys)
    PROVE  /\ Complaints(a, s) \in Seq(Seq(Line))
           /\ Len(Complaints(a, s)) = Len(a)
           /\ \A n \in 1 .. Len(a) :
                 Complaints(a, s)[n] = Sem!Complaint(Calling("delete", a), s, n)
           /\ Sem!Missing(Calling("delete", a), s) = FlattenSeq(Complaints(a, s))
<1>1. DOMAIN a = 1 .. Len(a) /\ Len(a) \in Nat
  OBVIOUS
<1>2. ASSUME NEW n \in 1 .. Len(a)
      PROVE  Sem!Complaint(Calling("delete", a), s, n) \in Seq(Line)
  <2>1. <<a[n], "KVSMISSING">> \in Line
    BY ElementOfSeq DEF Line
  <2> HIDE DEF Line
  <2>2. <<<<a[n], "KVSMISSING">>>> \in Seq(Line) /\ <<>> \in Seq(Line)
    BY <2>1
  <2> QED
    BY <2>2, ComplaintIs
<1> DEFINE R == Seq(Line)
           C(n) == Sem!Complaint(Calling("delete", a), s, n)
<1>3. Complaints(a, s) = [n \in 1 .. Len(a) |-> C(n)]
  BY <1>1 DEF Complaints
<1>4. \A n \in 1 .. Len(a) : C(n) \in R
  BY <1>2
<1> HIDE DEF R, C
<1>5. Complaints(a, s) \in [1 .. Len(a) -> R]
  BY <1>3, <1>4
<1>6. Complaints(a, s) \in Seq(R) /\ Len(Complaints(a, s)) = Len(a)
  BY <1>1, <1>5, SeqDef, LenProperties
<1>7. Sem!Missing(Calling("delete", a), s) = FlattenSeq(Complaints(a, s))
  BY SemLibrary DEF Sem!Missing, Complaints, Calling
<1> QED
  BY <1>3, <1>6, <1>7 DEF R, C

\* DELETE: the first key, then the others.
LEMMA MissingShift ==
    ASSUME NEW s \in Map, NEW a \in Seq(Keys), NEW b \in Seq(Keys), IsTail(b, a)
    PROVE  Sem!Missing(Calling("delete", a), s)
             = Gone(a[1], s)
                 \o Sem!Missing(Calling("delete", b), [s EXCEPT ![a[1]] = NotFound])
<1> DEFINE s1 == [s EXCEPT ![a[1]] = NotFound]
           R == Seq(Line)
           x == Gone(a[1], s)
           A == Complaints(a, s)
           B == Complaints(b, s1)
           C == <<x>> \o B
<1>0. Len(b) \in Nat /\ Len(a) = Len(b) + 1 /\ a[1] \in Keys
  BY ElementOfSeq DEF IsTail
<1>1. /\ A \in Seq(R) /\ Len(A) = Len(a)
      /\ \A n \in 1 .. Len(a) : A[n] = Sem!Complaint(Calling("delete", a), s, n)
  BY ComplaintsType
<1>2. /\ B \in Seq(R) /\ Len(B) = Len(b)
      /\ \A n \in 1 .. Len(b) : B[n] = Sem!Complaint(Calling("delete", b), s1, n)
  BY ComplaintsType
<1>3. x \in R
  <2>1. <<a[1], "KVSMISSING">> \in Line
    BY <1>0 DEF Line
  <2> HIDE DEF Line
  <2>2. <<<<a[1], "KVSMISSING">>>> \in Seq(Line) /\ <<>> \in Seq(Line)
    BY <2>1
  <2> QED
    BY <2>2 DEF Gone
<1>4. \A k \in Keys : s1[k] = IF k = a[1] THEN NotFound ELSE s[k]
  BY <1>0 DEF Map
<1>5. \A n \in 1 .. Len(b) : b[n] \in Keys
  BY ElementOfSeq
<1> HIDE DEF s1, R, A, B, x
<1>6. /\ C \in Seq(R) /\ Len(C) = Len(b) + 1 /\ C[1] = x
      /\ \A i \in 1 .. Len(b) : C[i + 1] = B[i]
  BY <1>2, <1>3, PutFirst DEF C
<1> HIDE DEF C
<1>7. A[1] = x
  <2>1. 1 \in 1 .. Len(a) /\ ~ \E m \in 1 .. 1 - 1 : a[m] = a[1]
    BY <1>0
  <2>2. A[1] = Sem!Complaint(Calling("delete", a), s, 1)
    BY <1>1, <2>1
  <2> QED
    BY <2>1, <2>2, ComplaintIs DEF x, Gone
<1>8. ASSUME NEW n \in 1 .. Len(b) PROVE A[n + 1] = B[n]
  <2>1. n + 1 \in 1 .. Len(a) /\ (n + 1) - 1 = n /\ b[n] = a[n + 1] /\ n \in Nat
    BY <1>0 DEF IsTail
  <2>2. A[n + 1] = Sem!Complaint(Calling("delete", a), s, n + 1)
    BY <1>1, <2>1
  <2>3. B[n] = Sem!Complaint(Calling("delete", b), s1, n)
    BY <1>2
  <2>4. (\E m \in 1 .. n : a[m] = a[n + 1])
          <=> (a[1] = b[n] \/ \E m \in 1 .. n - 1 : b[m] = b[n])
    <3>1. \A m \in 1 .. n : m = 1 \/ (m - 1 \in 1 .. n - 1 /\ m - 1 \in 1 .. Len(b) /\ (m - 1) + 1 = m)
      BY <1>0, <2>1
    <3>2. \A m \in 1 .. n : m = 1 \/ (m - 1 \in 1 .. n - 1 /\ a[m] = b[m - 1])
      BY <3>1 DEF IsTail
    <3>3. \A m \in 1 .. n - 1 : m + 1 \in 1 .. n /\ m \in 1 .. Len(b)
      BY <1>0, <2>1
    <3>4. \A m \in 1 .. n - 1 : m + 1 \in 1 .. n /\ b[m] = a[m + 1]
      BY <3>3 DEF IsTail
    <3>5. 1 \in 1 .. n
      BY <2>1
    <3> QED
      BY <2>1, <3>2, <3>4, <3>5
  <2>5. s1[b[n]] = NotFound <=> (s[a[n + 1]] = NotFound \/ a[1] = b[n])
    BY <1>4, <1>5, <2>1
  <2>6. (s[a[n + 1]] = NotFound \/ \E m \in 1 .. (n + 1) - 1 : a[m] = a[n + 1])
          <=> (s1[b[n]] = NotFound \/ \E m \in 1 .. n - 1 : b[m] = b[n])
    BY <2>1, <2>4, <2>5
  <2> QED
    BY <2>1, <2>2, <2>3, <2>6, ComplaintIs
<1>9. A = C
  <2>1. Len(A) = Len(C)
    BY <1>0, <1>1, <1>6
  <2>2. ASSUME NEW i \in 1 .. Len(A) PROVE A[i] = C[i]
    <3>1. i = 1 \/ (i - 1 \in 1 .. Len(b) /\ (i - 1) + 1 = i)
      BY <1>0, <1>1
    <3> QED
      BY <1>6, <1>7, <1>8, <3>1
  <2> QED
    BY <1>1, <1>6, <2>1, <2>2, SeqEqual
<1>10. FlattenSeq(C) = x \o FlattenSeq(B)
  BY <1>2, <1>3, FlattenFirst DEF C, R
<1>11. Sem!Missing(Calling("delete", a), s) = FlattenSeq(A)
       /\ Sem!Missing(Calling("delete", b), s1) = FlattenSeq(B)
  BY ComplaintsType DEF A, B
<1> QED
  BY <1>9, <1>10, <1>11 DEF x, s1

-----------------------------------------------------------------------------
(* What SHOW prints. *)

\* The sequence names every element of the set, and each once.
Enumerates(s, A) ==
    /\ s \in Seq(A)
    /\ \A m, n \in 1 .. Len(s) : s[m] = s[n] => m = n
    /\ \A x \in A : \E n \in 1 .. Len(s) : s[n] = x

\* SetToSeqs has every sequence that names each element once.
LEMMA EnumerationIs ==
    ASSUME NEW s, NEW A, Enumerates(s, A)
    PROVE  s \in SetToSeqs(A)
<1>1. /\ s \in Seq(A) /\ Len(s) \in Nat
      /\ \A m, n \in 1 .. Len(s) : s[m] = s[n] => m = n
      /\ \A x \in A : \E n \in 1 .. Len(s) : s[n] = x
  BY LenProperties DEF Enumerates
<1>2. s \in [1 .. Len(s) -> A]
  BY <1>1, LenProperties
<1>3. s \in Bijection(1 .. Len(s), A)
  BY <1>1, <1>2, Fun_IsBij
<1>4. Cardinality(A) = Len(s)
  <2>1. ExistsBijection(1 .. Len(s), A)
    BY <1>3 DEF ExistsBijection
  <2>2. IsFiniteSet(1 .. Len(s)) /\ Cardinality(1 .. Len(s)) = Len(s)
    <3>1. Len(s) \in Int /\ 1 \in Int
      BY <1>1
    <3>2. /\ IsFiniteSet(1 .. Len(s))
          /\ Cardinality(1 .. Len(s)) = IF 1 > Len(s) THEN 0 ELSE Len(s) - 1 + 1
      BY <3>1, FS_Interval, Zenon
    <3> QED
      BY <1>1, <3>2
  <2> QED
    BY <2>1, <2>2, FS_Bijection, Zenon
<1> QED
  BY <1>1, <1>2, <1>4 DEF SetToSeqs

\* Enumerations of two sets, one after the other.
LEMMA EnumerationsJoin ==
    ASSUME NEW s, NEW t, NEW A, NEW B, Enumerates(s, A), Enumerates(t, B),
           A \cap B = {}
    PROVE  Enumerates(s \o t, A \cup B)
<1> DEFINE S == A \cup B
           all == s \o t
<1>1. s \in Seq(A) /\ t \in Seq(B) /\ Len(s) \in Nat /\ Len(t) \in Nat
  BY LenProperties DEF Enumerates
<1>2. s \in Seq(S) /\ t \in Seq(S)
  BY <1>1
<1> HIDE DEF S
<1>3. /\ all \in Seq(S) /\ Len(all) = Len(s) + Len(t)
      /\ \A i \in 1 .. Len(s) + Len(t) :
            all[i] = IF i <= Len(s) THEN s[i] ELSE t[i - Len(s)]
  BY <1>2, ConcatProperties
<1> HIDE DEF all
<1>4. \A i \in 1 .. Len(s) + Len(t) :
         \/ i \in 1 .. Len(s) /\ all[i] = s[i] /\ s[i] \in A
         \/ i - Len(s) \in 1 .. Len(t) /\ all[i] = t[i - Len(s)]
            /\ t[i - Len(s)] \in B
  <2>1. \A i \in 1 .. Len(s) : s[i] \in A
    BY <1>1, ElementOfSeq
  <2>2. \A i \in 1 .. Len(t) : t[i] \in B
    BY <1>1, ElementOfSeq
  <2> TAKE i \in 1 .. Len(s) + Len(t)
  <2>3. CASE i <= Len(s)
    BY <1>1, <1>3, <2>1, <2>3
  <2>4. CASE ~(i <= Len(s))
    <3>1. i - Len(s) \in 1 .. Len(t)
      BY <1>1, <2>4
    <3> QED
      BY <1>3, <2>2, <2>4, <3>1
  <2> QED
    BY <2>3, <2>4
<1>5. ASSUME NEW m \in 1 .. Len(all), NEW n \in 1 .. Len(all), all[m] = all[n]
      PROVE  m = n
  <2>1. m \in 1 .. Len(s) + Len(t) /\ n \in 1 .. Len(s) + Len(t)
    BY <1>3
  <2>2. CASE m \in 1 .. Len(s) /\ all[m] = s[m] /\ s[m] \in A
    <3>1. n \in 1 .. Len(s) /\ all[n] = s[n]
      BY <1>4, <1>5, <2>1, <2>2
    <3> QED
      BY <1>5, <2>2, <3>1 DEF Enumerates
  <2>3. CASE m - Len(s) \in 1 .. Len(t) /\ all[m] = t[m - Len(s)]
             /\ t[m - Len(s)] \in B
    <3>1. n - Len(s) \in 1 .. Len(t) /\ all[n] = t[n - Len(s)]
      BY <1>4, <1>5, <2>1, <2>3
    <3>2. m - Len(s) = n - Len(s)
      BY <1>5, <2>3, <3>1 DEF Enumerates
    <3> QED
      BY <1>1, <2>1, <3>2
  <2> QED
    BY <1>4, <2>1, <2>2, <2>3
<1>6. ASSUME NEW x \in S PROVE \E n \in 1 .. Len(all) : all[n] = x
  <2>1. CASE x \in A
    <3>1. PICK n \in 1 .. Len(s) : s[n] = x
      BY <2>1 DEF Enumerates
    <3>2. n \in 1 .. Len(s) + Len(t) /\ n <= Len(s)
      BY <1>1
    <3> QED
      BY <1>3, <3>1, <3>2
  <2>2. CASE x \in B
    <3>1. PICK n \in 1 .. Len(t) : t[n] = x
      BY <2>2 DEF Enumerates
    <3>2. Len(s) + n \in 1 .. Len(s) + Len(t) /\ ~(Len(s) + n <= Len(s))
          /\ (Len(s) + n) - Len(s) = n
      BY <1>1
    <3>3. all[Len(s) + n] = t[(Len(s) + n) - Len(s)]
      BY <1>3, <3>2
    <3>4. all[Len(s) + n] = x
      BY <3>1, <3>2, <3>3
    <3> QED
      BY <1>3, <3>2, <3>4
  <2> QED
    BY <2>1, <2>2 DEF S
<1>7. \A m, n \in 1 .. Len(all) : all[m] = all[n] => m = n
  BY <1>5
<1>8. Enumerates(all, S)
  BY <1>3, <1>6, <1>7 DEF Enumerates
<1> QED
  BY <1>8 DEF all, S

-----------------------------------------------------------------------------
\* read_pair finds a value or nothing.
LEMMA ReadType ==
    ASSUME NEW ht \in HashTable, NEW k \in Keys, ~NoBucket(k)
    PROVE  read_pair(ht, k) \in Values \cup {NotFound}
<1>1. ht[hash(k)] \in Seq(KeyNode)
  BY HashInTable DEF HashTable
<1>2. CASE Occurs(ht[hash(k)], k)
  <2>1. Find(ht[hash(k)], k) \in 1 .. Len(ht[hash(k)])
    BY <1>1, <1>2, FindIsFirst
  <2>2. ht[hash(k)][Find(ht[hash(k)], k)] \in KeyNode
    BY <1>1, <2>1, ElementOfSeq
  <2> QED
    BY <1>2, <2>2 DEF read_pair, KeyNode
<1> QED
  BY <1>2 DEF read_pair

\* A table stands for a map.
LEMMA ContentsType ==
    ASSUME NEW ht \in HashTable
    PROVE  Contents(ht) \in Map
<1>1. \A k \in Keys : (IF NoBucket(k) THEN NotFound ELSE read_pair(ht, k))
                        \in Values \cup {NotFound}
  BY ReadType
<1> QED
  BY <1>1 DEF Contents, Map

\* The pairs of one bucket, and of the buckets from one on.
Pair(ht, k) == <<k, Contents(ht)[k]>>
Present(ht) == {k \in Keys : Contents(ht)[k] # NotFound}
PairsIn(ht, b) == {Pair(ht, k) : k \in {x \in Present(ht) : hash(x) = b}}
PairsFrom(ht, b) == {Pair(ht, k) : k \in {x \in Present(ht) : hash(x) >= b}}

\* What SHOW prints of a bucket are its pairs.
LEMMA LinesEnumerate ==
    ASSUME NEW ht \in HashTable, WellFormed(ht), NEW b \in Buckets
    PROVE  Enumerates(Lines(ht[b]), PairsIn(ht, b))
<1> DEFINE list == ht[b]
           s == Lines(list)
           A == PairsIn(ht, b)
<1>1. list \in Seq(KeyNode) /\ Bucket(list, b)
  BY TableIs DEF HashTable
<1>2. Len(list) \in Nat /\ DOMAIN list = 1 .. Len(list)
  BY <1>1
<1>3. s = [n \in 1 .. Len(list) |-> <<list[n].key, list[n].value>>]
  BY <1>2 DEF Lines
<1>4. b >= 0 /\ b \in Int
  BY KvsTableAssumption DEF Buckets
<1> HIDE DEF list, s
<1>5. ASSUME NEW n \in 1 .. Len(list)
      PROVE  /\ list[n].key \in Present(ht) /\ hash(list[n].key) = b
             /\ s[n] = Pair(ht, list[n].key)
  <2>1. list[n] \in KeyNode
    BY <1>1, ElementOfSeq
  <2>2. list[n].key \in Keys /\ list[n].value \in Values
    BY <2>1 DEF KeyNode
  <2>3. hash(list[n].key) = b
    BY <1>1, BucketIs
  <2>4. ~NoBucket(list[n].key)
    BY <1>4, <2>3 DEF NoBucket
  <2>5. read_pair(ht, list[n].key) = Lookup(list, list[n].key)
    BY <2>2, <2>3, TableIs DEF list
  <2>6. Lookup(list, list[n].key) = list[n].value
    BY <1>1, LookupIs
  <2>7. Contents(ht)[list[n].key] = list[n].value
    BY <2>2, <2>4, <2>5, <2>6 DEF Contents
  <2>8. list[n].value # NotFound
    BY <2>2, KvsAssumption
  <2> QED
    BY <1>3, <2>2, <2>3, <2>7, <2>8 DEF Present, Pair
<1>6. s \in Seq(A) /\ Len(s) = Len(list)
  <2>1. \A n \in 1 .. Len(list) : s[n] \in A
    BY <1>5 DEF PairsIn
  <2>2. s \in [1 .. Len(list) -> A]
    BY <1>3, <2>1
  <2> HIDE DEF A
  <2> QED
    BY <1>2, <2>2, SeqDef, LenProperties
<1>7. ASSUME NEW m \in 1 .. Len(s), NEW n \in 1 .. Len(s), s[m] = s[n]
      PROVE  m = n
  <2>1. list[m].key = list[n].key
    BY <1>5, <1>6, <1>7 DEF Pair
  <2> QED
    BY <1>1, <1>6, <2>1, BucketIs
<1>8. ASSUME NEW x \in A PROVE \E n \in 1 .. Len(s) : s[n] = x
  <2>1. PICK k \in Present(ht) : hash(k) = b /\ x = Pair(ht, k)
    BY DEF PairsIn
  <2>2. k \in Keys /\ ~NoBucket(k)
    BY <1>4, <2>1 DEF NoBucket, Present
  <2>3. Contents(ht)[k] = Lookup(list, k)
    BY <2>1, <2>2, TableIs DEF Contents, list
  <2>4. Occurs(list, k)
    BY <2>1, <2>3 DEF Present, Lookup
  <2>5. PICK n \in 1 .. Len(list) : list[n].key = k
    BY <1>2, <2>4 DEF Occurs
  <2> QED
    BY <1>5, <1>6, <2>1, <2>5
<1>9. \A m, n \in 1 .. Len(s) : s[m] = s[n] => m = n
  BY <1>7
<1>10. Enumerates(s, A)
  BY <1>6, <1>8, <1>9 DEF Enumerates
<1> QED
  BY <1>10 DEF s, list

\* A bucket prints lines.
LEMMA LinesType ==
    ASSUME NEW list \in Seq(KeyNode)
    PROVE  Lines(list) \in Seq(Line)
<1>1. Len(list) \in Nat /\ DOMAIN list = 1 .. Len(list)
  OBVIOUS
<1>2. \A n \in 1 .. Len(list) : list[n].key \in Keys /\ list[n].value \in Values
  <2> TAKE n \in 1 .. Len(list)
  <2>1. list[n] \in KeyNode
    BY ElementOfSeq
  <2> QED
    BY <2>1 DEF KeyNode
<1>3. Lines(list) \in [1 .. Len(list) -> Line]
  BY <1>1, <1>2 DEF Lines, Line
<1> QED
  BY <1>1, <1>3, SeqDef

\* The lines of the buckets from one on, bucket by bucket.
BucketLines(ht, from) ==
    [n \in 1 .. TABLE_SIZE - from + 1 |-> Lines(ht[from + n - 2])]

\* So do several, one behind the other.
LEMMA BucketLinesType ==
    ASSUME NEW ht \in HashTable, NEW from \in 1 .. TABLE_SIZE + 1
    PROVE  /\ BucketLines(ht, from) \in Seq(Seq(Line))
           /\ Len(BucketLines(ht, from)) = TABLE_SIZE - from + 1
           /\ \A n \in 1 .. TABLE_SIZE - from + 1 :
                 BucketLines(ht, from)[n] = Lines(ht[from + n - 2])
<1> DEFINE N == TABLE_SIZE - from + 1
           R == Seq(Line)
           L(n) == Lines(ht[from + n - 2])
<1>1. N \in Nat
  BY KvsTableAssumption
<1>2. ASSUME NEW n \in 1 .. N PROVE L(n) \in R
  <2>1. from + n - 2 \in Buckets
    BY KvsTableAssumption DEF Buckets
  <2>2. ht[from + n - 2] \in Seq(KeyNode)
    BY <2>1 DEF HashTable
  <2> QED
    BY <2>2, LinesType
<1>3. BucketLines(ht, from) = [n \in 1 .. N |-> L(n)]
  BY DEF BucketLines
<1> HIDE DEF N, R, L
<1>4. BucketLines(ht, from) \in [1 .. N -> R]
  BY <1>2, <1>3
<1>5. BucketLines(ht, from) \in Seq(R) /\ Len(BucketLines(ht, from)) = N
  BY <1>1, <1>4, SeqDef, LenProperties
<1>6. \A n \in 1 .. N : BucketLines(ht, from)[n] = L(n)
  BY <1>3
<1> QED
  BY <1>5, <1>6 DEF N, R, L

\* So does the table from any bucket on.
LEMMA ListingType ==
    ASSUME NEW ht \in HashTable, NEW from \in 1 .. TABLE_SIZE + 1
    PROVE  Listing(ht, from) \in Seq(Line)
<1>1. Listing(ht, from) = FlattenSeq(BucketLines(ht, from))
  BY DEF Listing, BucketLines
<1> QED
  BY <1>1, BucketLinesType, FlattenType

\* What is left of the lines behind the last bucket.
LEMMA ListingEnd ==
    ASSUME NEW ht \in HashTable, NEW from \in Nat, from > TABLE_SIZE
    PROVE  Listing(ht, from) = <<>>
<1>1. 1 .. TABLE_SIZE - from + 1 = {}
  BY KvsTableAssumption
<1>2. [n \in 1 .. TABLE_SIZE - from + 1 |-> Lines(ht[from + n - 2])] = <<>>
  BY <1>1
<1> QED
  BY <1>2, FlattenEmpty DEF Listing

\* The lines of one bucket, then of those behind it.
LEMMA ListingNext ==
    ASSUME NEW ht \in HashTable, NEW from \in 1 .. TABLE_SIZE
    PROVE  Listing(ht, from) = Lines(ht[from - 1]) \o Listing(ht, from + 1)
<1> DEFINE R == Seq(Line)
           x == Lines(ht[from - 1])
           A == BucketLines(ht, from)
           B == BucketLines(ht, from + 1)
           C == <<x>> \o B
           N == TABLE_SIZE - from
<1>0. N \in Nat /\ from \in 1 .. TABLE_SIZE + 1 /\ from + 1 \in 1 .. TABLE_SIZE + 1
      /\ TABLE_SIZE - (from + 1) + 1 = N /\ TABLE_SIZE - from + 1 = N + 1
      /\ from \in Nat
  BY KvsTableAssumption
<1>1. /\ A \in Seq(R) /\ Len(A) = N + 1
      /\ \A n \in 1 .. N + 1 : A[n] = Lines(ht[from + n - 2])
  <2>1. /\ A \in Seq(R) /\ Len(A) = TABLE_SIZE - from + 1
        /\ \A n \in 1 .. TABLE_SIZE - from + 1 : A[n] = Lines(ht[from + n - 2])
    BY <1>0, BucketLinesType
  <2> QED
    BY <1>0, <2>1
<1>2. /\ B \in Seq(R) /\ Len(B) = N
      /\ \A n \in 1 .. N : B[n] = Lines(ht[(from + 1) + n - 2])
  <2>1. /\ B \in Seq(R) /\ Len(B) = TABLE_SIZE - (from + 1) + 1
        /\ \A n \in 1 .. TABLE_SIZE - (from + 1) + 1 :
              B[n] = Lines(ht[(from + 1) + n - 2])
    BY <1>0, BucketLinesType
  <2> QED
    BY <1>0, <2>1
<1>3. x \in R
  <2>1. from - 1 \in Buckets
    BY KvsTableAssumption DEF Buckets
  <2>2. ht[from - 1] \in Seq(KeyNode)
    BY <2>1 DEF HashTable
  <2> QED
    BY <2>2, LinesType
<1> HIDE DEF R, A, B, N
<1>4. A[1] = x
  <2>1. 1 \in 1 .. N + 1 /\ from + 1 - 2 = from - 1
    BY <1>0
  <2> QED
    BY <1>1, <2>1
<1>5. ASSUME NEW n \in 1 .. N PROVE A[n + 1] = B[n]
  <2>1. n + 1 \in 1 .. N + 1 /\ from + (n + 1) - 2 = (from + 1) + n - 2
    BY <1>0
  <2> QED
    BY <1>1, <1>2, <2>1
<1> HIDE DEF x
<1>6. /\ C \in Seq(R) /\ Len(C) = N + 1 /\ C[1] = x
      /\ \A i \in 1 .. N : C[i + 1] = B[i]
  BY <1>2, <1>3, PutFirst
<1> HIDE DEF C
<1>7. A = C
  <2>1. Len(A) = Len(C)
    BY <1>1, <1>6
  <2>2. ASSUME NEW i \in 1 .. Len(A) PROVE A[i] = C[i]
    <3>1. i = 1 \/ (i - 1 \in 1 .. N /\ (i - 1) + 1 = i)
      BY <1>0, <1>1
    <3> QED
      BY <1>4, <1>5, <1>6, <3>1
  <2> QED
    BY <1>1, <1>6, <2>1, <2>2, SeqEqual
<1>8. FlattenSeq(C) = x \o FlattenSeq(B)
  BY <1>2, <1>3, FlattenFirst DEF C, R
<1>9. Listing(ht, from) = FlattenSeq(A) /\ Listing(ht, from + 1) = FlattenSeq(B)
  BY DEF Listing, BucketLines, A, B
<1> QED
  BY <1>7, <1>8, <1>9 DEF x

\* What SHOW or a backup prints of a table is the pairs of its map, each once.
LEMMA ListingEnumerates ==
    ASSUME NEW ht \in HashTable, WellFormed(ht)
    PROVE  Listing(ht, 1) \in Sem!Listings(Contents(ht))
<1> DEFINE From(n) == TABLE_SIZE - n + 1
           Good(n) == Enumerates(Listing(ht, From(n)), PairsFrom(ht, From(n) - 1))
           T == {n \in Nat : n <= TABLE_SIZE => Good(n)}
<1>0. TABLE_SIZE \in Nat
  BY KvsTableAssumption
<1>1. 0 \in T
  <2>1. From(0) = TABLE_SIZE + 1 /\ From(0) - 1 = TABLE_SIZE /\ From(0) \in Nat
        /\ From(0) > TABLE_SIZE
    BY <1>0
  <2>2. Listing(ht, From(0)) = <<>>
    BY <2>1, ListingEnd
  <2>3. \A k \in Present(ht) : ~(hash(k) >= TABLE_SIZE)
    <3> TAKE k \in Present(ht)
    <3>1. k \in Keys /\ ~NoBucket(k)
      BY DEF Present, Contents
    <3> QED
      BY <1>0, <3>1, HashInTable DEF Buckets
  <2>4. PairsFrom(ht, From(0) - 1) = {}
    BY <2>1, <2>3 DEF PairsFrom
  <2>5. Enumerates(<<>>, {})
    BY DEF Enumerates
  <2> HIDE DEF From
  <2> QED
    BY <2>2, <2>4, <2>5
<1>2. ASSUME NEW n \in Nat, n \in T PROVE n + 1 \in T
  <2> SUFFICES ASSUME n + 1 <= TABLE_SIZE PROVE Good(n + 1)
    OBVIOUS
  <2> DEFINE b == From(n + 1) - 1
  <2>1. b \in Buckets /\ From(n + 1) = b + 1 /\ From(n) = b + 2 /\ n <= TABLE_SIZE
        /\ b + 1 \in 1 .. TABLE_SIZE /\ b \in Nat /\ (b + 1) - 1 = b
        /\ (b + 1) + 1 = b + 2 /\ (b + 2) - 1 = b + 1
    BY <1>0 DEF Buckets
  <2>2. Enumerates(Listing(ht, b + 2), PairsFrom(ht, b + 1))
    <3>1. Good(n)
      BY <1>2, <2>1
    <3> HIDE DEF b
    <3> QED
      BY <2>1, <3>1
  <2> HIDE DEF b
  <2>3. Listing(ht, b + 1) = Lines(ht[b]) \o Listing(ht, b + 2)
    <3>1. Listing(ht, b + 1) = Lines(ht[(b + 1) - 1]) \o Listing(ht, (b + 1) + 1)
      BY <2>1, ListingNext
    <3> QED
      BY <2>1, <3>1
  <2>4. Enumerates(Lines(ht[b]), PairsIn(ht, b))
    BY <2>1, LinesEnumerate
  <2>5. \A k \in Present(ht) : hash(k) \in Int
    <3> TAKE k \in Present(ht)
    <3>1. k \in Keys /\ ~NoBucket(k)
      BY DEF Present, Contents
    <3> QED
      BY <3>1, HashInTable DEF Buckets
  <2>6. PairsIn(ht, b) \cap PairsFrom(ht, b + 1) = {}
    <3>1. \A k \in Present(ht) : hash(k) = b => ~(hash(k) >= b + 1)
      BY <2>1, <2>5
    <3>2. \A j, k \in Present(ht) : Pair(ht, j) = Pair(ht, k) => j = k
      BY DEF Pair
    <3> QED
      BY <3>1, <3>2 DEF PairsIn, PairsFrom
  <2>7. PairsIn(ht, b) \cup PairsFrom(ht, b + 1) = PairsFrom(ht, b)
    <3>1. \A k \in Present(ht) : hash(k) >= b <=> (hash(k) = b \/ hash(k) >= b + 1)
      BY <2>1, <2>5
    <3> QED
      BY <3>1 DEF PairsIn, PairsFrom
  <2>8. Enumerates(Listing(ht, b + 1), PairsFrom(ht, b))
    <3>1. Enumerates(Lines(ht[b]) \o Listing(ht, b + 2),
                     PairsIn(ht, b) \cup PairsFrom(ht, b + 1))
      BY <2>2, <2>4, <2>6, EnumerationsJoin, Zenon
    <3> QED
      BY <2>3, <2>7, <3>1, Zenon
  <2>9. From(n + 1) = b + 1 /\ From(n + 1) - 1 = b
    BY <2>1
  <2> HIDE DEF From
  <2> QED
    BY <2>8, <2>9
<1> HIDE DEF T
<1>3. TABLE_SIZE \in T
  BY <1>0, <1>1, <1>2, Induction
<1>4. Enumerates(Listing(ht, 1), PairsFrom(ht, 0))
  <2>1. From(TABLE_SIZE) = 1 /\ From(TABLE_SIZE) - 1 = 0 /\ TABLE_SIZE <= TABLE_SIZE
    BY <1>0
  <2>2. Good(TABLE_SIZE)
    BY <1>3, <2>1 DEF T
  <2> HIDE DEF From
  <2> QED
    BY <2>1, <2>2
<1>5. PairsFrom(ht, 0) = {<<k, Contents(ht)[k]>> : k \in Present(ht)}
  <2>1. \A k \in Present(ht) : hash(k) >= 0
    <3> TAKE k \in Present(ht)
    <3>1. k \in Keys /\ ~NoBucket(k)
      BY DEF Present, Contents
    <3> QED
      BY <1>0, <3>1, HashInTable DEF Buckets
  <2> QED
    BY <2>1 DEF PairsFrom, Pair
<1>6. Listing(ht, 1) \in SetToSeqs({<<k, Contents(ht)[k]>> : k \in Present(ht)})
  BY <1>4, <1>5, EnumerationIs
<1> QED
  BY <1>6, SemLibrary DEF Sem!Listings, Present

-----------------------------------------------------------------------------
(* The invariants of the calls. *)

\* Inside its loops a thread holds the lock in the mode its command needs,
\* and a writer excludes every reader.
LockInv ==
    /\ \A t \in Threads :
          pc[t] = "body" => IF Writes(t) THEN writer = t ELSE t \in readers
    /\ writer # NoThread => readers = {}

\* A thread that has called, and not yet started, has a command.
CommandInv == \A t \in Threads : pc[t] # "idle" => cmd[t] \in Command

\* Conversely, who holds the lock is inside, in that mode.
HolderInv ==
    /\ writer # NoThread => pc[writer] = "body" /\ Writes(writer)
    /\ \A t \in readers : pc[t] = "body" /\ ~Writes(t)

\* A call starts with nothing done or printed, a WRITE or a backup prints
\* nothing, and only a backup that has forked has an image.
CallInv ==
    \A t \in Threads :
       /\ pc[t] = "lock" => pos[t] = 1 /\ out[t] = <<>> /\ image[t] = NoImage
       /\ pc[t] = "body" =>
            /\ cmd[t].op # "backup" => image[t] = NoImage
            /\ cmd[t].op \in {"write", "backup"} => out[t] = <<>>
            /\ cmd[t].op = "backup" /\ pos[t] = 1 => image[t] = NoImage

IInv ==
    /\ TypeOK /\ LockInv /\ CommandInv /\ TablesWellFormed
    /\ HolderInv /\ CallInv

-----------------------------------------------------------------------------
(* Types of what the loops handle. *)

\* The key of an iteration, and the value of a WRITE, are among those that
\* occur in the jobs.
LEMMA ArgumentTypes ==
    ASSUME TypeOK, NEW t \in Threads, cmd[t] \in Command,
           cmd[t].op \in {"write", "read", "delete"}, pos[t] <= Steps(cmd[t])
    PROVE  /\ KeyAt(t) \in Keys
           /\ cmd[t].op = "write" => cmd[t].args[pos[t]][2] \in Values
<1>1. pos[t] \in Nat \ {0}
  BY DEF TypeOK
<1>2. Steps(cmd[t]) = Len(cmd[t].args)
  BY DEF Steps
<1>3. CASE cmd[t].op = "write"
  <2>1. cmd[t].args \in Seq(Keys \X Values)
    BY <1>3 DEF Command
  <2>2. cmd[t].args[pos[t]] \in Keys \X Values
    BY <1>1, <1>2, <2>1, ElementOfSeq
  <2> QED
    BY <1>3, <2>2 DEF KeyAt
<1>4. CASE cmd[t].op \in {"read", "delete"}
  <2>1. cmd[t].args \in Seq(Keys)
    BY <1>4 DEF Command
  <2>2. cmd[t].args[pos[t]] \in Keys
    BY <1>1, <1>2, <2>1, ElementOfSeq
  <2> QED
    BY <1>4, <2>2 DEF KeyAt
<1> QED
  BY <1>3, <1>4

-----------------------------------------------------------------------------
\* The invariant holds before the first call.
LEMMA InitIInv == Init => IInv
<1> SUFFICES ASSUME Init PROVE IInv
  OBVIOUS
<1>1. create_hash_table \in HashTable /\ WellFormed(create_hash_table)
  <2>1. \A b \in Buckets : create_hash_table[b] = <<>> /\ DOMAIN <<>> = {}
    BY DEF create_hash_table
  <2>2. create_hash_table \in HashTable
    BY DEF create_hash_table, HashTable
  <2> QED
    BY <2>1, <2>2 DEF WellFormed
<1>2. TypeOK
  <2>1. <<>> \in Seq(Line)
    OBVIOUS
  <2>2. table \in HashTable /\ writer \in Threads \cup {NoThread}
        /\ readers \subseteq Threads /\ crashed \in BOOLEAN
    BY <1>1 DEF Init
  <2>3. pc \in [Threads -> {"idle", "lock", "body"}]
        /\ pos \in [Threads -> Nat \ {0}]
    BY DEF Init
  <2>4. out \in [Threads -> Seq(Line)]
    BY <2>1 DEF Init
  <2>5. cmd \in [Threads -> Command \cup {NoCall}]
        /\ image \in [Threads -> HashTable \cup {NoImage}]
    BY DEF Init
  <2> QED
    BY <2>2, <2>3, <2>4, <2>5 DEF TypeOK
<1>3. LockInv /\ CommandInv /\ TablesWellFormed /\ HolderInv /\ CallInv
  BY <1>1 DEF Init, LockInv, CommandInv, TablesWellFormed, HolderInv, CallInv
<1> QED
  BY <1>2, <1>3 DEF IInv

\* The table and its copies: every loop iteration keeps them well formed.
LEMMA NextTable ==
    IInv /\ [Next]_vars => /\ table' \in HashTable /\ WellFormed(table')
                           /\ image' \in [Threads -> HashTable \cup {NoImage}]
                           /\ TablesWellFormed'
<1> SUFFICES ASSUME IInv, [Next]_vars
             PROVE  /\ table' \in HashTable /\ WellFormed(table')
                    /\ image' \in [Threads -> HashTable \cup {NoImage}]
                    /\ \A t \in Threads :
                          image'[t] # NoImage => WellFormed(image'[t])
  BY DEF TablesWellFormed
<1>1. /\ table \in HashTable /\ WellFormed(table)
      /\ image \in [Threads -> HashTable \cup {NoImage}]
      /\ \A t \in Threads : image[t] # NoImage => WellFormed(image[t])
      /\ \A t \in Threads : pc[t] # "idle" => cmd[t] \in Command
  BY DEF IInv, TypeOK, TablesWellFormed, CommandInv
<1>2. CASE UNCHANGED <<table, image>>
  BY <1>1, <1>2
<1>3. ASSUME NEW t \in Threads, WritePair(t)
      PROVE  table' \in HashTable /\ WellFormed(table') /\ UNCHANGED image
  <2>1. KeyAt(t) \in Keys /\ cmd[t].args[pos[t]][2] \in Values
    BY <1>1, <1>3, ArgumentTypes DEF WritePair, At, IInv
  <2>2. ~NoBucket(KeyAt(t))
    BY <1>3 DEF WritePair, Faults
  <2>3. PICK residue \in HeapResidue :
           table' = write_pair(table, KeyAt(t), cmd[t].args[pos[t]][2], residue)
    BY <1>3 DEF WritePair
  <2> QED
    BY <1>1, <1>3, <2>1, <2>2, <2>3, WritePairUpdates DEF WritePair
<1>4. ASSUME NEW t \in Threads, DeletePair(t)
      PROVE  table' \in HashTable /\ WellFormed(table') /\ UNCHANGED image
  <2>1. KeyAt(t) \in Keys
    BY <1>1, <1>4, ArgumentTypes DEF DeletePair, At, IInv
  <2>2. ~NoBucket(KeyAt(t))
    BY <1>4 DEF DeletePair, Faults
  <2>3. CASE Occurs(table[hash(KeyAt(t))], KeyAt(t))
    BY <1>1, <1>4, <2>1, <2>2, <2>3, DeletePairRemoves DEF DeletePair
  <2>4. CASE ~Occurs(table[hash(KeyAt(t))], KeyAt(t))
    BY <1>1, <1>4, <2>4 DEF DeletePair
  <2> QED
    BY <2>3, <2>4, <1>4 DEF DeletePair
<1>5. ASSUME NEW t \in Threads, Fork(t)
      PROVE  table' = table /\ image' = [image EXCEPT ![t] = table]
  BY <1>5 DEF Fork
<1>6. ASSUME NEW t \in Threads, NEW c \in Commands, Call(t, c)
      PROVE  table' = table /\ image' = [image EXCEPT ![t] = NoImage]
  BY <1>6 DEF Call
<1>7. \/ UNCHANGED <<table, image>>
      \/ table' \in HashTable /\ WellFormed(table') /\ UNCHANGED image
      \/ \E t \in Threads : /\ table' = table
                            /\ \/ image' = [image EXCEPT ![t] = table]
                               \/ image' = [image EXCEPT ![t] = NoImage]
  BY <1>3, <1>4, <1>5, <1>6
     DEF Next, Step, Dead, vars, WrLock, RdLock, Enter, ReadPair, ShowBucket,
         ForkFails, SegFault, Unlock
<1> QED
  BY <1>1, <1>7

\* The lock: who is inside holds it.
LEMMA NextLock ==
    IInv /\ [Next]_vars
      => /\ writer' \in Threads \cup {NoThread} /\ readers' \subseteq Threads
         /\ pc' \in [Threads -> {"idle", "lock", "body"}]
         /\ cmd' \in [Threads -> Command \cup {NoCall}]
         /\ LockInv' /\ CommandInv'
<1> SUFFICES ASSUME IInv, [Next]_vars
             PROVE  /\ writer' \in Threads \cup {NoThread}
                    /\ readers' \subseteq Threads
                    /\ pc' \in [Threads -> {"idle", "lock", "body"}]
                    /\ cmd' \in [Threads -> Command \cup {NoCall}]
                    /\ LockInv' /\ CommandInv'
  OBVIOUS
<1> USE KvsAssumption DEF IInv, TypeOK, LockInv, CommandInv, Writes
<1>1. ASSUME NEW t \in Threads, NEW c \in Commands, Call(t, c)
      PROVE  /\ writer' \in Threads \cup {NoThread} /\ readers' \subseteq Threads
             /\ pc' \in [Threads -> {"idle", "lock", "body"}]
             /\ cmd' \in [Threads -> Command \cup {NoCall}]
             /\ LockInv' /\ CommandInv'
  BY <1>1 DEF Call
<1>2. ASSUME NEW t \in Threads, WrLock(t) \/ RdLock(t)
      PROVE  /\ writer' \in Threads \cup {NoThread} /\ readers' \subseteq Threads
             /\ pc' \in [Threads -> {"idle", "lock", "body"}]
             /\ cmd' \in [Threads -> Command \cup {NoCall}]
             /\ LockInv' /\ CommandInv'
  BY <1>2 DEF WrLock, RdLock, Enter
<1>3. ASSUME NEW t \in Threads, Unlock(t)
      PROVE  /\ writer' \in Threads \cup {NoThread} /\ readers' \subseteq Threads
             /\ pc' \in [Threads -> {"idle", "lock", "body"}]
             /\ cmd' \in [Threads -> Command \cup {NoCall}]
             /\ LockInv' /\ CommandInv'
  BY <1>3 DEF Unlock
<1>4. CASE UNCHANGED <<writer, readers, pc, cmd>>
  BY <1>4
<1>5. ASSUME NEW t \in Threads,
             \/ WritePair(t) \/ ReadPair(t) \/ DeletePair(t) \/ ShowBucket(t)
             \/ Fork(t) \/ ForkFails(t) \/ SegFault(t)
      PROVE  UNCHANGED <<writer, readers, pc, cmd>>
  BY <1>5 DEF WritePair, ReadPair, DeletePair, ShowBucket, Fork, ForkFails,
              SegFault, Advance
<1> QED
  BY <1>1, <1>2, <1>3, <1>4, <1>5 DEF Next, Step, Dead, vars

\* What the calls print, and how far they have come.
LEMMA NextOut ==
    IInv /\ [Next]_vars => /\ pos' \in [Threads -> Nat \ {0}]
                           /\ out' \in [Threads -> Seq(Line)]
                           /\ crashed' \in BOOLEAN
<1> SUFFICES ASSUME IInv, [Next]_vars
             PROVE  /\ pos' \in [Threads -> Nat \ {0}]
                    /\ out' \in [Threads -> Seq(Line)]
                    /\ crashed' \in BOOLEAN
  OBVIOUS
<1>1. TypeOK /\ \A t \in Threads : pc[t] # "idle" => cmd[t] \in Command
  BY DEF IInv, CommandInv
<1>2. ASSUME NEW t \in Threads, NEW lines \in Seq(Line), Emit(t, lines)
      PROVE  out' \in [Threads -> Seq(Line)]
  <2>1. out[t] \o lines \in Seq(Line)
    BY <1>1 DEF TypeOK
  <2> QED
    BY <1>1, <1>2, <2>1 DEF Emit, TypeOK
<1>3. ASSUME NEW t \in Threads, ReadPair(t)
      PROVE  out' \in [Threads -> Seq(Line)]
  <2> DEFINE v == read_pair(table, KeyAt(t))
             line == <<KeyAt(t), IF v = NotFound THEN "KVSERROR" ELSE v>>
  <2>1. KeyAt(t) \in Keys /\ ~NoBucket(KeyAt(t))
    BY <1>1, <1>3, ArgumentTypes DEF ReadPair, At, Faults
  <2>2. v \in Values \cup {NotFound}
    BY <1>1, <2>1, ReadType DEF TypeOK
  <2>3. line \in Line
    BY <2>1, <2>2 DEF Line
  <2>4. <<line>> \in Seq(Line)
    BY <2>3
  <2>5. Emit(t, <<line>>)
    BY <1>3 DEF ReadPair
  <2> QED
    BY <1>2, <2>4, <2>5
<1>4. ASSUME NEW t \in Threads, DeletePair(t)
      PROVE  out' \in [Threads -> Seq(Line)]
  <2>1. KeyAt(t) \in Keys
    BY <1>1, <1>4, ArgumentTypes DEF DeletePair, At
  <2>2. <<<<KeyAt(t), "KVSMISSING">>>> \in Seq(Line)
    BY <2>1 DEF Line
  <2>3. UNCHANGED out \/ Emit(t, <<<<KeyAt(t), "KVSMISSING">>>>)
    BY <1>4 DEF DeletePair
  <2> QED
    BY <1>1, <1>2, <2>2, <2>3 DEF TypeOK
<1>5. ASSUME NEW t \in Threads, ShowBucket(t)
      PROVE  out' \in [Threads -> Seq(Line)]
  <2>1. pos[t] - 1 \in Buckets
    BY <1>1, <1>5, KvsTableAssumption
       DEF ShowBucket, At, Steps, Buckets, TypeOK
  <2>2. table[pos[t] - 1] \in Seq(KeyNode)
    BY <1>1, <2>1 DEF TypeOK, HashTable
  <2>3. Lines(table[pos[t] - 1]) \in Seq(Line)
    BY <2>2, LinesType
  <2> QED
    BY <1>2, <1>5, <2>3 DEF ShowBucket
<1>6. ASSUME NEW t \in Threads, NEW c \in Commands, Call(t, c)
      PROVE  /\ pos' \in [Threads -> Nat \ {0}]
             /\ out' \in [Threads -> Seq(Line)]
             /\ crashed' \in BOOLEAN
  BY <1>1, <1>6 DEF Call, TypeOK
<1>7. ASSUME NEW t \in Threads, Advance(t)
      PROVE  pos' \in [Threads -> Nat \ {0}] /\ crashed' \in BOOLEAN
  BY <1>1, <1>7 DEF Advance, TypeOK
<1>8. ASSUME NEW t \in Threads,
             WritePair(t) \/ Fork(t) \/ ForkFails(t) \/ ReadPair(t)
               \/ DeletePair(t) \/ ShowBucket(t)
      PROVE  /\ pos' \in [Threads -> Nat \ {0}]
             /\ out' \in [Threads -> Seq(Line)]
             /\ crashed' \in BOOLEAN
  <2>1. Advance(t)
    BY <1>8 DEF WritePair, Fork, ForkFails, ReadPair, DeletePair, ShowBucket
  <2>2. CASE UNCHANGED out
    BY <1>1, <1>7, <2>1, <2>2 DEF TypeOK
  <2> QED
    BY <1>3, <1>4, <1>5, <1>7, <1>8, <2>1, <2>2 DEF WritePair, Fork, ForkFails
<1>9. ASSUME \/ UNCHANGED vars
             \/ \E t \in Threads : WrLock(t) \/ RdLock(t) \/ SegFault(t) \/ Unlock(t)
      PROVE  /\ pos' \in [Threads -> Nat \ {0}]
             /\ out' \in [Threads -> Seq(Line)]
             /\ crashed' \in BOOLEAN
  BY <1>1, <1>9 DEF vars, WrLock, RdLock, Enter, SegFault, Unlock, TypeOK
<1> QED
  BY <1>6, <1>8, <1>9 DEF Next, Step, Dead

\* Who holds the lock is inside.
LEMMA NextHolder == IInv /\ [Next]_vars => HolderInv'
<1> SUFFICES ASSUME IInv, [Next]_vars PROVE HolderInv'
  OBVIOUS
<1>1. /\ pc \in [Threads -> {"idle", "lock", "body"}]
      /\ cmd \in [Threads -> Command \cup {NoCall}]
      /\ writer \in Threads \cup {NoThread} /\ readers \subseteq Threads
      /\ HolderInv
  BY DEF IInv, TypeOK
<1> USE DEF HolderInv, Writes
<1>2. ASSUME NEW t \in Threads, NEW c \in Commands, Call(t, c) PROVE HolderInv'
  <2>1. writer # t /\ t \notin readers
    BY <1>1, <1>2, KvsAssumption DEF Call
  <2> QED
    BY <1>1, <1>2, <2>1 DEF Call
<1>3. ASSUME NEW t \in Threads, WrLock(t) PROVE HolderInv'
  BY <1>1, <1>3 DEF WrLock, Enter
<1>4. ASSUME NEW t \in Threads, RdLock(t) PROVE HolderInv'
  BY <1>1, <1>4 DEF RdLock, Enter
<1>5. ASSUME NEW t \in Threads, Unlock(t) PROVE HolderInv'
  <2>1. CASE Writes(t)
    BY <1>1, <1>5, <2>1 DEF Unlock
  <2>2. CASE ~Writes(t)
    <3>1. writer # NoThread => writer # t
      BY <1>1, <2>2
    <3> QED
      BY <1>1, <1>5, <2>2, <3>1 DEF Unlock
  <2> QED
    BY <2>1, <2>2
<1>6. CASE UNCHANGED <<writer, readers, pc, cmd>>
  BY <1>1, <1>6
<1>7. ASSUME NEW t \in Threads,
             \/ WritePair(t) \/ ReadPair(t) \/ DeletePair(t) \/ ShowBucket(t)
             \/ Fork(t) \/ ForkFails(t) \/ SegFault(t)
      PROVE  UNCHANGED <<writer, readers, pc, cmd>>
  BY <1>7 DEF WritePair, ReadPair, DeletePair, ShowBucket, Fork, ForkFails,
              SegFault, Advance
<1> QED
  BY <1>2, <1>3, <1>4, <1>5, <1>6, <1>7 DEF Next, Step, Dead, vars

\* How far a call has come, and what it has printed and forked by then.
LEMMA NextCall == IInv /\ [Next]_vars => CallInv'
<1> SUFFICES ASSUME IInv, [Next]_vars PROVE CallInv'
  OBVIOUS
<1>1. TypeOK /\ CallInv
  BY DEF IInv
<1> DEFINE Good(t) ==
             /\ pc[t] = "lock" => pos[t] = 1 /\ out[t] = <<>> /\ image[t] = NoImage
             /\ pc[t] = "body" =>
                  /\ cmd[t].op # "backup" => image[t] = NoImage
                  /\ cmd[t].op \in {"write", "backup"} => out[t] = <<>>
                  /\ cmd[t].op = "backup" /\ pos[t] = 1 => image[t] = NoImage
           Same(t) == /\ pc'[t] = pc[t] /\ cmd'[t] = cmd[t] /\ pos'[t] = pos[t]
                      /\ out'[t] = out[t] /\ image'[t] = image[t]
<1>2. \A t \in Threads : Good(t)
  BY <1>1 DEF CallInv
<1>3. ASSUME NEW t \in Threads, Same(t) PROVE Good(t)'
  BY <1>2, <1>3
<1>4. ASSUME NEW t \in Threads, NEW c \in Commands, Call(t, c)
      PROVE  Good(t)' /\ \A u \in Threads \ {t} : Same(u)
  BY <1>1, <1>4 DEF Call, TypeOK
<1>5. ASSUME NEW t \in Threads, WrLock(t) \/ RdLock(t)
      PROVE  Good(t)' /\ \A u \in Threads \ {t} : Same(u)
  BY <1>1, <1>2, <1>5 DEF WrLock, RdLock, Enter, TypeOK
<1>6. ASSUME NEW t \in Threads, Unlock(t)
      PROVE  Good(t)' /\ \A u \in Threads \ {t} : Same(u)
  BY <1>1, <1>6 DEF Unlock, TypeOK
<1>7. ASSUME NEW t \in Threads, ReadPair(t) \/ DeletePair(t) \/ ShowBucket(t)
      PROVE  Good(t)' /\ \A u \in Threads \ {t} : Same(u)
  <2>1. /\ pc[t] = "body" /\ cmd[t].op \in {"read", "delete", "show"}
        /\ UNCHANGED <<pc, cmd, image>> /\ pos' = [pos EXCEPT ![t] = @ + 1]
    BY <1>7 DEF ReadPair, DeletePair, ShowBucket, At, Advance
  <2>2. \A u \in Threads \ {t} : out'[u] = out[u]
    BY <1>1, <1>7 DEF ReadPair, DeletePair, ShowBucket, Emit, TypeOK
  <2> QED
    BY <1>1, <1>2, <2>1, <2>2 DEF TypeOK
<1>8. ASSUME NEW t \in Threads, WritePair(t)
      PROVE  Good(t)' /\ \A u \in Threads \ {t} : Same(u)
  BY <1>1, <1>2, <1>8 DEF WritePair, At, Advance, TypeOK
<1>9. ASSUME NEW t \in Threads, Fork(t) \/ ForkFails(t)
      PROVE  Good(t)' /\ \A u \in Threads \ {t} : Same(u)
  <2>1. /\ pc[t] = "body" /\ cmd[t].op = "backup" /\ UNCHANGED <<pc, cmd, out>>
        /\ pos' = [pos EXCEPT ![t] = @ + 1]
    BY <1>9 DEF Fork, ForkFails, At, Advance
  <2>2. pos'[t] # 1
    BY <1>1, <2>1 DEF TypeOK
  <2>3. \A u \in Threads \ {t} : image'[u] = image[u]
    BY <1>1, <1>9 DEF Fork, ForkFails, TypeOK
  <2> QED
    BY <1>1, <1>2, <2>1, <2>2, <2>3 DEF TypeOK
<1>10. CASE UNCHANGED <<pc, cmd, pos, out, image>>
  BY <1>3, <1>10 DEF CallInv
<1> HIDE DEF Good, Same
<1>11. ASSUME NEW t \in Threads, Good(t)', \A u \in Threads \ {t} : Same(u)
       PROVE  \A u \in Threads : Good(u)'
  BY <1>3, <1>11
<1>12. \A u \in Threads : Good(u)'
  <2>1. CASE UNCHANGED <<pc, cmd, pos, out, image>>
    BY <1>3, <2>1 DEF Same
  <2>2. CASE ~UNCHANGED <<pc, cmd, pos, out, image>>
    BY <1>4, <1>5, <1>6, <1>7, <1>8, <1>9, <1>11, <2>2
       DEF Next, Step, Dead, vars, SegFault
  <2> QED
    BY <2>1, <2>2
<1> QED
  BY <1>12 DEF CallInv, Good

\* The invariant holds for ever.
LEMMA Invariance == Spec => []IInv
<1>1. IInv /\ [Next]_vars => IInv'
  BY NextTable, NextLock, NextOut, NextHolder, NextCall DEF IInv, TypeOK
<1> QED
  BY InitIInv, <1>1, PTL DEF Spec

-----------------------------------------------------------------------------
\* The variables keep their types; in particular no loop of a call runs past
\* its arguments, and only printable lines reach an output file.
THEOREM TypeCorrect == Spec => []TypeOK
<1>1. IInv => TypeOK
  BY DEF IInv
<1> QED
  BY Invariance, <1>1, PTL

\* However WRITE, DELETE and BACKUP of any number of threads interleave, no
\* key is in the table or in a backup twice, or in a wrong bucket.
THEOREM TablesStayWellFormed == Spec => []TablesWellFormed
<1>1. IInv => TablesWellFormed
  BY DEF IInv
<1> QED
  BY Invariance, <1>1, PTL

\* No thread changes the table while another one is reading it.
THEOREM ReadersAreIsolated == Spec => ReadersSeeOneTable
<1> DEFINE A == (\E t \in Threads : pc[t] = "body" /\ ~Writes(t))
                  => table' = table
<1>1. IInv /\ [Next]_vars => [A]_vars
  <2> SUFFICES ASSUME IInv, Next, NEW t \in Threads,
                      pc[t] = "body", ~Writes(t)
               PROVE  table' = table
    OBVIOUS
  <2>1. t \in readers
    BY DEF IInv, LockInv
  <2>2. writer = NoThread
    BY <2>1 DEF IInv, LockInv
  <2>3. \A u \in Threads : pc[u] = "body" => ~Writes(u)
    BY <2>2, KvsAssumption DEF IInv, LockInv
  <2>4. \A u \in Threads : ~WritePair(u) /\ ~DeletePair(u)
    BY <2>3 DEF WritePair, DeletePair, At, Writes
  <2> QED
    BY <2>4 DEF Next, Step, Dead, vars, Call, WrLock, RdLock, Enter, ReadPair,
                ShowBucket, Fork, ForkFails, SegFault, Unlock
<1> QED
  BY Invariance, <1>1, PTL DEF Spec, ReadersSeeOneTable

-----------------------------------------------------------------------------
(* What is left of a call. *)

\* What is left of a call c whose loop stands at p, and of what it prints.
Left(c, p) == SubSeq(c.args, p, Len(c.args))
RestOf(c, p) == Calling(c.op, Left(c, p))

RestReply(c, p, ht) ==
    CASE c.op = "show" -> Listing(ht, p)
      [] c.op = "backup" -> <<>>
      [] OTHER -> CHOOSE r \in Sem!Replies(RestOf(c, p), Contents(ht)) : TRUE

\* The rest of a thread's call in terms of Left, now and after a step.
LEMMA RestIs ==
    ASSUME NEW t \in Threads
    PROVE  /\ Rest(t) = RestOf(cmd[t], pos[t])
           /\ Rest(t)' = RestOf(cmd'[t], pos'[t])
           /\ RestOfReply(t) = RestReply(cmd[t], pos[t], table)
           /\ RestOfReply(t)' = RestReply(cmd'[t], pos'[t], table')
BY DEF Rest, RestOf, Left, Calling, RestOfReply, RestReply

\* The replies of each command in terms of its arguments.
LEMMA RepliesAre ==
    ASSUME NEW a, NEW s
    PROVE  /\ Sem!Replies(Calling("write", a), s) = {<<>>}
           /\ Sem!Replies(Calling("read", a), s) = {Answers(a, s)}
           /\ Sem!Replies(Calling("delete", a), s)
                = {Sem!Missing(Calling("delete", a), s)}
           /\ Sem!Replies(Calling("show", a), s) = Sem!Listings(s)
           /\ Sem!Replies(Calling("backup", a), s) = Sem!Listings(s) \cup {<<>>}
<1>1. Sem!Replies(Calling("write", a), s) = {<<>>}
  BY DEF Sem!Replies, Calling
<1>2. Sem!Replies(Calling("read", a), s) = {Answers(a, s)}
  BY DEF Sem!Replies, Calling, Answers, Answer
<1>3. Sem!Replies(Calling("delete", a), s) = {Sem!Missing(Calling("delete", a), s)}
  BY DEF Sem!Replies, Calling
<1>4. Sem!Replies(Calling("show", a), s) = Sem!Listings(s)
  BY DEF Sem!Replies, Calling
<1>5. Sem!Replies(Calling("backup", a), s) = Sem!Listings(s) \cup {<<>>}
  BY DEF Sem!Replies, Calling
<1> QED
  BY <1>1, <1>2, <1>3, <1>4, <1>5

\* What is still to be printed, by command.
LEMMA RestReplyIs ==
    ASSUME NEW c, NEW p, NEW ht
    PROVE  /\ c.op = "write" => RestReply(c, p, ht) = <<>>
           /\ c.op = "read" => RestReply(c, p, ht) = Answers(Left(c, p), Contents(ht))
           /\ c.op = "delete" =>
                RestReply(c, p, ht) = Sem!Missing(RestOf(c, p), Contents(ht))
           /\ c.op = "show" => RestReply(c, p, ht) = Listing(ht, p)
           /\ c.op = "backup" => RestReply(c, p, ht) = <<>>
<1>0. \A x : (CHOOSE r \in {x} : TRUE) = x
  OBVIOUS
<1>1. ASSUME c.op = "write" PROVE RestReply(c, p, ht) = <<>>
  <2>1. Sem!Replies(RestOf(c, p), Contents(ht)) = {<<>>}
    BY <1>1, RepliesAre DEF RestOf
  <2> QED
    BY <1>0, <1>1, <2>1 DEF RestReply
<1>2. ASSUME c.op = "read"
      PROVE  RestReply(c, p, ht) = Answers(Left(c, p), Contents(ht))
  <2>1. Sem!Replies(RestOf(c, p), Contents(ht)) = {Answers(Left(c, p), Contents(ht))}
    BY <1>2, RepliesAre DEF RestOf
  <2> QED
    BY <1>0, <1>2, <2>1 DEF RestReply
<1>3. ASSUME c.op = "delete"
      PROVE  RestReply(c, p, ht) = Sem!Missing(RestOf(c, p), Contents(ht))
  <2>1. Sem!Replies(RestOf(c, p), Contents(ht))
          = {Sem!Missing(RestOf(c, p), Contents(ht))}
    BY <1>3, RepliesAre DEF RestOf
  <2> QED
    BY <1>0, <1>3, <2>1 DEF RestReply
<1>4. c.op = "show" => RestReply(c, p, ht) = Listing(ht, p)
  BY DEF RestReply
<1>5. c.op = "backup" => RestReply(c, p, ht) = <<>>
  BY DEF RestReply
<1> QED
  BY <1>1, <1>2, <1>3, <1>4, <1>5

\* The arguments of a command by its kind.
LEMMA CommandArgs ==
    ASSUME NEW c \in Command
    PROVE  /\ c.op \in {"write", "read", "delete", "show", "backup"}
           /\ c = Calling(c.op, c.args)
           /\ c.op = "write" => c.args \in Seq(Keys \X Values)
           /\ c.op \in {"read", "delete"} => c.args \in Seq(Keys)
           /\ c.op \in {"show", "backup"} => c.args = <<>>
BY DEF Command, Calling

\* At the end of its loop a call has nothing left to do or to print.
LEMMA LeftAtEnd ==
    ASSUME NEW c \in Command, NEW p \in Nat, NEW ht \in HashTable, p > Steps(c)
    PROVE  /\ RestReply(c, p, ht) = <<>>
           /\ c.op \in {"write", "delete"} =>
                Sem!Effect(RestOf(c, p), Contents(ht)) = Contents(ht)
<1>1. Contents(ht) \in Map
  BY ContentsType
<1>2. CASE c.op \in {"write", "read", "delete"}
  <2>1. PICK S : c.args \in Seq(S)
    BY <1>2, CommandArgs
  <2>2. p > Len(c.args) /\ Len(c.args) \in Nat
    BY <1>2, <2>1, LenProperties DEF Steps
  <2>3. Left(c, p) = <<>>
    <3>1. \A i \in p .. Len(c.args) : c.args[i] \in S
      BY <2>2
    <3>2. Left(c, p) \in Seq(S) /\ Len(Left(c, p)) = 0
      BY <2>2, <3>1, SubSeqProperties DEF Left
    <3> QED
      BY <3>2, EmptySeq
  <2>4. DOMAIN Left(c, p) = {}
    BY <2>3
  <2>5. CASE c.op = "read"
    <3>1. Answers(Left(c, p), Contents(ht)) = <<>>
      BY <2>4 DEF Answers
    <3> QED
      BY <2>5, <3>1, RestReplyIs
  <2>6. CASE c.op = "delete"
    <3>1. Len(Left(c, p)) = 0 /\ Left(c, p) \in Seq(Keys)
      BY <2>3, EmptySeq
    <3>2. /\ Complaints(Left(c, p), Contents(ht)) = <<>>
          /\ Sem!Missing(RestOf(c, p), Contents(ht))
               = FlattenSeq(Complaints(Left(c, p), Contents(ht)))
      <4>1. /\ Complaints(Left(c, p), Contents(ht)) \in Seq(Seq(Line))
            /\ Len(Complaints(Left(c, p), Contents(ht))) = 0
            /\ Sem!Missing(Calling("delete", Left(c, p)), Contents(ht))
                 = FlattenSeq(Complaints(Left(c, p), Contents(ht)))
        BY <3>1, ComplaintsType
      <4> QED
        BY <2>6, <4>1, EmptySeq DEF RestOf
    <3>3. Sem!Effect(RestOf(c, p), Contents(ht)) = Contents(ht)
      BY <1>1, <2>4, <2>6, NoEffect DEF RestOf
    <3> QED
      BY <2>6, <3>2, <3>3, FlattenEmpty, RestReplyIs
  <2>7. CASE c.op = "write"
    <3>1. Sem!Effect(RestOf(c, p), Contents(ht)) = Contents(ht)
      BY <1>1, <2>4, <2>7, NoEffect DEF RestOf
    <3> QED
      BY <2>7, <3>1, RestReplyIs
  <2> QED
    BY <1>2, <2>5, <2>6, <2>7
<1>3. CASE c.op = "show"
  <2>1. p > TABLE_SIZE
    BY <1>3 DEF Steps
  <2>2. Listing(ht, p) = <<>>
    BY <2>1, ListingEnd
  <2> QED
    BY <1>3, <2>2, RestReplyIs
<1>4. CASE c.op = "backup"
  BY <1>4, RestReplyIs
<1> QED
  BY <1>2, <1>3, <1>4, CommandArgs

\* At its start everything is left; what a call will print is one of the
\* replies that its command may have.
LEMMA LeftAtStart ==
    ASSUME NEW c \in Command, NEW ht \in HashTable, WellFormed(ht)
    PROVE  /\ RestOf(c, 1) = c
           /\ RestReply(c, 1, ht) \in Sem!Replies(c, Contents(ht))
<1>1. c = Calling(c.op, c.args)
  BY CommandArgs
<1>2. PICK S : c.args \in Seq(S)
  BY CommandArgs, EmptySeq
<1>3. Left(c, 1) = c.args
  <2> DEFINE a == c.args
  <2>1. a \in Seq(S)
    BY <1>2
  <2> HIDE DEF a
  <2>2. SubSeq(a, 1, Len(a)) = a
    BY <2>1, SubSeqFull
  <2> QED
    BY <2>2 DEF Left, a
<1>4. RestOf(c, 1) = c
  BY <1>1, <1>3 DEF RestOf
<1>5. RestReply(c, 1, ht) \in Sem!Replies(Calling(c.op, c.args), Contents(ht))
  <2>1. CASE c.op = "write"
    BY <2>1, RestReplyIs, RepliesAre
  <2>2. CASE c.op = "read"
    BY <1>3, <2>2, RestReplyIs, RepliesAre
  <2>3. CASE c.op = "delete"
    BY <1>3, <2>3, RestReplyIs, RepliesAre DEF RestOf
  <2>4. CASE c.op = "show"
    <3>1. RestReply(c, 1, ht) \in Sem!Listings(Contents(ht))
      BY <2>4, RestReplyIs, ListingEnumerates
    <3> QED
      BY <2>4, <3>1, RepliesAre
  <2>5. CASE c.op = "backup"
    BY <2>5, RestReplyIs, RepliesAre
  <2> QED
    BY <2>1, <2>2, <2>3, <2>4, <2>5, CommandArgs
<1> QED
  BY <1>1, <1>4, <1>5

\* One iteration of each loop, for the effect and for the reply.
LEMMA WriteIteration ==
    ASSUME NEW c \in Command, c.op = "write", NEW p \in 1 .. Len(c.args),
           NEW s \in Map
    PROVE  Sem!Effect(RestOf(c, p), s)
             = Sem!Effect(RestOf(c, p + 1),
                          [s EXCEPT ![c.args[p][1]] = c.args[p][2]])
<1>1. c.args \in Seq(Keys \X Values)
  BY CommandArgs
<1>2. /\ Left(c, p) \in Seq(Keys \X Values)
      /\ IsTail(Left(c, p + 1), Left(c, p)) /\ Left(c, p)[1] = c.args[p]
  BY <1>1, RestIsTail DEF Left
<1>3. Sem!Effect(Calling("write", Left(c, p)), s)
        = Sem!Effect(Calling("write", Left(c, p + 1)),
                     [s EXCEPT ![Left(c, p)[1][1]] = Left(c, p)[1][2]])
  BY <1>2, WriteShift
<1> QED
  BY <1>2, <1>3 DEF RestOf

\* An iteration of READ prints the first of the lines to come.
LEMMA ReadIteration ==
    ASSUME NEW c \in Command, c.op = "read", NEW p \in 1 .. Len(c.args),
           NEW s \in Map
    PROVE  /\ Answers(Left(c, p), s)
                = <<Answer(c.args[p], s)>> \o Answers(Left(c, p + 1), s)
           /\ Answers(Left(c, p + 1), s) \in Seq(Line)
<1>1. c.args \in Seq(Keys)
  BY CommandArgs
<1>2. /\ Left(c, p) \in Seq(Keys) /\ Left(c, p + 1) \in Seq(Keys)
      /\ IsTail(Left(c, p + 1), Left(c, p)) /\ Left(c, p)[1] = c.args[p]
  BY <1>1, RestIsTail DEF Left
<1>3. Answers(Left(c, p), s)
        = <<Answer(Left(c, p)[1], s)>> \o Answers(Left(c, p + 1), s)
  BY <1>2, ReadShift
<1>4. Answers(Left(c, p + 1), s) \in Seq(Line)
  BY <1>2, AnswersType
<1> QED
  BY <1>2, <1>3, <1>4

\* So does one of DELETE, if it prints a line; and it removes its key.
LEMMA DeleteIteration ==
    ASSUME NEW c \in Command, c.op = "delete", NEW p \in 1 .. Len(c.args),
           NEW s \in Map, NEW s1, s1 = [s EXCEPT ![c.args[p]] = NotFound]
    PROVE  /\ Sem!Effect(RestOf(c, p), s) = Sem!Effect(RestOf(c, p + 1), s1)
           /\ Sem!Missing(RestOf(c, p), s)
                = Gone(c.args[p], s) \o Sem!Missing(RestOf(c, p + 1), s1)
           /\ Sem!Missing(RestOf(c, p + 1), s1) \in Seq(Line)
<1>1. c.args \in Seq(Keys)
  BY CommandArgs
<1>2. /\ Left(c, p) \in Seq(Keys) /\ Left(c, p + 1) \in Seq(Keys)
      /\ IsTail(Left(c, p + 1), Left(c, p)) /\ Left(c, p)[1] = c.args[p]
  BY <1>1, RestIsTail DEF Left
<1>3. s1 = [s EXCEPT ![Left(c, p)[1]] = NotFound]
  BY <1>2
<1>4. Sem!Effect(Calling("delete", Left(c, p)), s)
        = Sem!Effect(Calling("delete", Left(c, p + 1)), s1)
  <2>1. Sem!Effect(Calling("delete", Left(c, p)), s)
          = Sem!Effect(Calling("delete", Left(c, p + 1)),
                       [s EXCEPT ![Left(c, p)[1]] = NotFound])
    BY <1>2, DeleteShift
  <2> QED
    BY <1>3, <2>1
<1>5. Sem!Missing(Calling("delete", Left(c, p)), s)
        = Gone(Left(c, p)[1], s) \o Sem!Missing(Calling("delete", Left(c, p + 1)), s1)
  <2>1. Sem!Missing(Calling("delete", Left(c, p)), s)
          = Gone(Left(c, p)[1], s)
              \o Sem!Missing(Calling("delete", Left(c, p + 1)),
                             [s EXCEPT ![Left(c, p)[1]] = NotFound])
    BY <1>2, MissingShift
  <2> QED
    BY <1>3, <2>1
<1>6. Sem!Missing(Calling("delete", Left(c, p + 1)), s1) \in Seq(Line)
  <2>1. /\ Complaints(Left(c, p + 1), s1) \in Seq(Seq(Line))
        /\ Sem!Missing(Calling("delete", Left(c, p + 1)), s1)
             = FlattenSeq(Complaints(Left(c, p + 1), s1))
    BY <1>2, ComplaintsType
  <2> QED
    BY <2>1, FlattenType
<1> QED
  BY <1>2, <1>4, <1>5, <1>6 DEF RestOf

-----------------------------------------------------------------------------
(* Steps. *)

\* What the abstract state has of one thread.
Own(u) == <<pc[u], cmd[u], pos[u], out[u], image[u]>>
Quiet(u) == Own(u)' = Own(u)

\* A thread that does not move keeps its status, and its reply while the
\* table does not change under it.
LEMMA QuietThread ==
    ASSUME NEW u \in Threads, Quiet(u), table' = table \/ ~InBody(u)
    PROVE  Status(u)' = Status(u) /\ Reply(u)' = Reply(u)
<1>1. /\ pc'[u] = pc[u] /\ cmd'[u] = cmd[u] /\ pos'[u] = pos[u]
      /\ out'[u] = out[u] /\ image'[u] = image[u]
  BY DEF Quiet, Own
<1>2. Status(u)' = Status(u)
  BY <1>1 DEF Status, InBody
<1>3. CASE ~InBody(u)
  BY <1>1, <1>2, <1>3 DEF Reply, InBody
<1>4. CASE table' = table
  <2>1. RestOfReply(u)' = RestOfReply(u)
    BY <1>1, <1>4, RestIs
  <2> QED
    BY <1>1, <1>2, <2>1 DEF Reply, InBody
<1> QED
  BY <1>3, <1>4

\* Nothing changes of the other threads.

\* A step that the abstract store does not see.
Hidden ==
    /\ StoreMap' = StoreMap /\ cmd' = cmd /\ crashed' = crashed
    /\ \A u \in Threads : Status(u)' = Status(u) /\ Reply(u)' = Reply(u)

\* What the mapping hides is no step of the abstract store.
LEMMA HiddenIsStutter == Hidden => UNCHANGED Store!vars
BY DEF Hidden, Store!vars

\* While a thread writes, no other one is inside.
LEMMA WriterAlone ==
    ASSUME IInv, NEW t \in Threads, InBody(t), Writes(t)
    PROVE  writer = t /\ t # NoThread /\ \A u \in Threads \ {t} : ~InBody(u)
<1>1. writer = t /\ t # NoThread /\ readers = {}
  BY KvsAssumption DEF IInv, LockInv, InBody
<1> QED
  BY <1>1 DEF IInv, LockInv, InBody

\* While a call that only reads is inside, nobody writes.
LEMMA NobodyWrites ==
    ASSUME IInv, NEW t \in Threads, InBody(t), ~Writes(t)
    PROVE  writer = NoThread
BY DEF IInv, LockInv, InBody

\* The abstract map while t writes, and while nobody does.
LEMMA StoreMapIs ==
    /\ writer = NoThread => StoreMap = Contents(table)
    /\ \A t \in Threads : writer = t =>
          StoreMap = Sem!Effect(RestOf(cmd[t], pos[t]), Contents(table))
    /\ writer' = NoThread => StoreMap' = Contents(table')
    /\ \A t \in Threads : writer' = t =>
          StoreMap' = Sem!Effect(RestOf(cmd'[t], pos'[t]), Contents(table'))
<1>1. /\ writer = NoThread => StoreMap = Contents(table)
      /\ writer' = NoThread => StoreMap' = Contents(table')
  BY DEF StoreMap
<1>2. ASSUME NEW t \in Threads, writer = t
      PROVE  StoreMap = Sem!Effect(RestOf(cmd[t], pos[t]), Contents(table))
  <2>1. writer # NoThread
    BY <1>2, KvsAssumption
  <2>2. StoreMap = Sem!Effect(Rest(t), Contents(table))
    BY <1>2, <2>1 DEF StoreMap
  <2> QED
    BY <2>2, RestIs
<1>3. ASSUME NEW t \in Threads, writer' = t
      PROVE  StoreMap' = Sem!Effect(RestOf(cmd'[t], pos'[t]), Contents(table'))
  <2>1. writer' # NoThread
    BY <1>3, KvsAssumption
  <2>2. StoreMap' = Sem!Effect(Rest(t)', Contents(table'))
    BY <1>3, <2>1 DEF StoreMap, Rest
  <2> QED
    BY <2>2, RestIs
<1> QED
  BY <1>1, <1>2, <1>3

\* The abstract reply and status of a thread inside, unless it makes a backup.
LEMMA InsideMaps ==
    ASSUME NEW t \in Threads
    PROVE  /\ InBody(t) /\ cmd[t].op # "backup" /\ image[t] = NoImage =>
                /\ Status(t) = "done"
                /\ Reply(t) = out[t] \o RestReply(cmd[t], pos[t], table)
           /\ pc'[t] = "body" /\ cmd'[t].op # "backup" /\ image'[t] = NoImage =>
                /\ Status(t)' = "done"
                /\ Reply(t)' = out'[t] \o RestReply(cmd'[t], pos'[t], table')
<1>1. ASSUME InBody(t), cmd[t].op # "backup", image[t] = NoImage
      PROVE  /\ Status(t) = "done"
             /\ Reply(t) = out[t] \o RestReply(cmd[t], pos[t], table)
  BY <1>1, RestIs DEF Status, Reply, InBody
<1>2. ASSUME pc'[t] = "body", cmd'[t].op # "backup", image'[t] = NoImage
      PROVE  /\ Status(t)' = "done"
             /\ Reply(t)' = out'[t] \o RestReply(cmd'[t], pos'[t], table')
  <2>1. Status(t)' = "done"
    BY <1>2 DEF Status, InBody
  <2>2. Reply(t)' = out'[t] \o RestOfReply(t)'
    BY <1>2 DEF Reply, InBody
  <2> QED
    BY <2>1, <2>2, RestIs
<1> QED
  BY <1>1, <1>2

\* What the loops of operations.c leave alone.
LEMMA LoopFrame ==
    ASSUME IInv, NEW t \in Threads, Advance(t),
           NEW op \in {"write", "read", "delete", "show"}, At(t, op)
    PROVE  /\ InBody(t) /\ cmd[t].op = op /\ cmd[t] \in Command
           /\ pos[t] \in 1 .. Steps(cmd[t]) /\ pos'[t] = pos[t] + 1
           /\ pc' = pc /\ cmd' = cmd /\ writer' = writer /\ crashed' = crashed
           /\ image[t] = NoImage /\ out[t] \in Seq(Line)
           /\ table \in HashTable /\ WellFormed(table) /\ Contents(table) \in Map
           /\ \A u \in Threads \ {t} : pos'[u] = pos[u]
<1>1. InBody(t) /\ cmd[t].op = op /\ cmd[t] \in Command /\ pos[t] <= Steps(cmd[t])
  BY DEF At, InBody, IInv, CommandInv
<1>2. /\ TypeOK /\ image[t] = NoImage /\ WellFormed(table)
      /\ pos[t] \in Nat \ {0}
  BY <1>1 DEF IInv, CallInv, InBody, TablesWellFormed, TypeOK
<1>3. Steps(cmd[t]) \in Nat
  <2>1. CASE op = "show"
    BY <1>1, <2>1, KvsTableAssumption DEF Steps
  <2>2. CASE op # "show"
    <3>1. PICK S : cmd[t].args \in Seq(S)
      BY <1>1, <2>2, CommandArgs
    <3>2. Len(cmd[t].args) \in Nat
      BY <3>1, LenProperties
    <3> QED
      BY <1>1, <2>2, <3>2 DEF Steps
  <2> QED
    BY <2>1, <2>2
<1>4. pos[t] \in 1 .. Steps(cmd[t])
  BY <1>1, <1>2, <1>3
<1>5. /\ pos'[t] = pos[t] + 1 /\ pc' = pc /\ cmd' = cmd
      /\ writer' = writer /\ crashed' = crashed
      /\ \A u \in Threads \ {t} : pos'[u] = pos[u]
  BY <1>2 DEF Advance, TypeOK
<1>6. out[t] \in Seq(Line) /\ table \in HashTable
  BY <1>2 DEF TypeOK
<1> QED
  BY <1>1, <1>2, <1>4, <1>5, <1>6, ContentsType

\* An iteration is not seen by the abstract store if the map and the reply,
\* taken with what is left of the loop, stay as they are.
LEMMA IterationHidden ==
    ASSUME IInv, NEW t \in Threads, Advance(t),
           NEW op \in {"write", "read", "delete", "show"}, At(t, op),
           image' = image, \A u \in Threads \ {t} : out'[u] = out[u],
           op \in {"read", "show"} => table' = table,
           op \in {"write", "delete"} =>
             Sem!Effect(RestOf(cmd[t], pos[t]), Contents(table))
               = Sem!Effect(RestOf(cmd[t], pos[t] + 1), Contents(table')),
           out[t] \o RestReply(cmd[t], pos[t], table)
             = out'[t] \o RestReply(cmd[t], pos[t] + 1, table')
    PROVE  Hidden
<1>1. /\ InBody(t) /\ cmd[t].op = op /\ cmd[t] \in Command
      /\ pos'[t] = pos[t] + 1
      /\ pc' = pc /\ cmd' = cmd /\ writer' = writer /\ crashed' = crashed
      /\ image[t] = NoImage
      /\ \A u \in Threads \ {t} : pos'[u] = pos[u]
  BY LoopFrame
<1>2. Status(t)' = Status(t) /\ Reply(t)' = Reply(t)
  <2>1. /\ Status(t) = "done"
        /\ Reply(t) = out[t] \o RestReply(cmd[t], pos[t], table)
    BY <1>1, InsideMaps
  <2>2. /\ Status(t)' = "done"
        /\ Reply(t)' = out'[t] \o RestReply(cmd'[t], pos'[t], table')
    BY <1>1, InsideMaps DEF InBody
  <2> QED
    BY <1>1, <2>1, <2>2
<1>3. \A u \in Threads \ {t} : Quiet(u)
  BY <1>1 DEF Quiet, Own
<1>4. CASE op \in {"write", "delete"}
  <2>1. writer = t /\ \A u \in Threads \ {t} : ~InBody(u)
    BY <1>1, <1>4, WriterAlone DEF Writes
  <2>2. StoreMap = Sem!Effect(RestOf(cmd[t], pos[t]), Contents(table))
    BY <2>1, StoreMapIs
  <2>3. StoreMap' = Sem!Effect(RestOf(cmd'[t], pos'[t]), Contents(table'))
    BY <1>1, <2>1, StoreMapIs
  <2>4. StoreMap' = StoreMap
    BY <1>1, <1>4, <2>2, <2>3
  <2>5. \A u \in Threads \ {t} : Status(u)' = Status(u) /\ Reply(u)' = Reply(u)
    BY <1>3, <2>1, QuietThread
  <2> QED
    BY <1>1, <1>2, <2>4, <2>5 DEF Hidden
<1>5. CASE op \in {"read", "show"}
  <2>1. writer = NoThread
    BY <1>1, <1>5, NobodyWrites DEF Writes
  <2>2. StoreMap' = StoreMap
    BY <1>1, <1>5, <2>1, StoreMapIs
  <2>3. \A u \in Threads \ {t} : Status(u)' = Status(u) /\ Reply(u)' = Reply(u)
    BY <1>3, <1>5, QuietThread
  <2> QED
    BY <1>1, <1>2, <2>2, <2>3 DEF Hidden
<1> QED
  BY <1>4, <1>5

\* Each iteration of a loop is hidden: kvs_write.
LEMMA WritePairHidden ==
    ASSUME IInv, NEW t \in Threads, WritePair(t)
    PROVE  Hidden
<1>1. At(t, "write") /\ Advance(t) /\ UNCHANGED <<out, image>> /\ ~Faults(t)
  BY DEF WritePair
<1>2. /\ cmd[t].op = "write" /\ cmd[t] \in Command
      /\ pos[t] \in 1 .. Steps(cmd[t])
      /\ table \in HashTable /\ WellFormed(table) /\ Contents(table) \in Map
  BY <1>1, LoopFrame
<1>3. Steps(cmd[t]) = Len(cmd[t].args) /\ KeyAt(t) = cmd[t].args[pos[t]][1]
  BY <1>2 DEF Steps, KeyAt
<1>4. KeyAt(t) \in Keys /\ cmd[t].args[pos[t]][2] \in Values /\ ~NoBucket(KeyAt(t))
  BY <1>1, <1>2, ArgumentTypes DEF IInv, Faults
<1>5. PICK residue \in HeapResidue :
         table' = write_pair(table, KeyAt(t), cmd[t].args[pos[t]][2], residue)
  BY DEF WritePair
<1>6. Contents(table')
        = [Contents(table) EXCEPT ![cmd[t].args[pos[t]][1]] = cmd[t].args[pos[t]][2]]
  <2>1. Contents(table')
          = [Contents(table) EXCEPT ![KeyAt(t)] = cmd[t].args[pos[t]][2]]
    BY <1>2, <1>4, <1>5, WritePairUpdates
  <2> QED
    BY <1>3, <2>1
<1>7. Sem!Effect(RestOf(cmd[t], pos[t]), Contents(table))
        = Sem!Effect(RestOf(cmd[t], pos[t] + 1), Contents(table'))
  <2> DEFINE c == cmd[t]
             p == pos[t]
             s == Contents(table)
  <2>1. c \in Command /\ c.op = "write" /\ p \in 1 .. Len(c.args) /\ s \in Map
    BY <1>2, <1>3
  <2> HIDE DEF c, p, s
  <2>2. Sem!Effect(RestOf(c, p), s)
          = Sem!Effect(RestOf(c, p + 1), [s EXCEPT ![c.args[p][1]] = c.args[p][2]])
    BY <2>1, WriteIteration
  <2> QED
    BY <1>6, <2>2 DEF c, p, s
<1>8. RestReply(cmd[t], pos[t], table) = <<>>
      /\ RestReply(cmd[t], pos[t] + 1, table') = <<>>
  BY <1>2, RestReplyIs
<1> QED
  BY <1>1, <1>7, <1>8, IterationHidden

\* kvs_read.
LEMMA ReadPairHidden ==
    ASSUME IInv, NEW t \in Threads, ReadPair(t)
    PROVE  Hidden
<1> DEFINE s == Contents(table)
           x == Answer(KeyAt(t), s)
           rest == Answers(Left(cmd[t], pos[t] + 1), s)
<1>1. At(t, "read") /\ Advance(t) /\ UNCHANGED <<table, image>> /\ ~Faults(t)
  BY DEF ReadPair
<1>2. /\ cmd[t].op = "read" /\ cmd[t] \in Command
      /\ pos[t] \in 1 .. Steps(cmd[t]) /\ out[t] \in Seq(Line)
      /\ table \in HashTable /\ s \in Map
  BY <1>1, LoopFrame
<1>3. Steps(cmd[t]) = Len(cmd[t].args) /\ KeyAt(t) = cmd[t].args[pos[t]]
  BY <1>2 DEF Steps, KeyAt
<1>4. KeyAt(t) \in Keys /\ ~NoBucket(KeyAt(t))
  BY <1>1, <1>2, ArgumentTypes DEF IInv, Faults
<1>5. Emit(t, <<x>>)
  <2>1. read_pair(table, KeyAt(t)) = s[KeyAt(t)]
    BY <1>4 DEF Contents
  <2> QED
    BY <2>1 DEF ReadPair, Answer
<1>6. out'[t] = out[t] \o <<x>> /\ \A u \in Threads \ {t} : out'[u] = out[u]
  <2>1. out \in [Threads -> Seq(Line)]
    BY DEF IInv, TypeOK
  <2> HIDE DEF x
  <2> QED
    BY <1>5, <2>1 DEF Emit
<1>7. x \in Line
  BY <1>2, <1>4, AnswersType, EmptySeq
<1>8. /\ Answers(Left(cmd[t], pos[t]), s) = <<x>> \o rest
      /\ rest \in Seq(Line)
  BY <1>2, <1>3, ReadIteration
<1>9. /\ RestReply(cmd[t], pos[t], table) = Answers(Left(cmd[t], pos[t]), s)
      /\ RestReply(cmd[t], pos[t] + 1, table') = rest
  BY <1>1, <1>2, RestReplyIs
<1> HIDE DEF x, rest
<1>10. out[t] \o (<<x>> \o rest) = (out[t] \o <<x>>) \o rest
  <2>1. <<x>> \in Seq(Line)
    BY <1>7
  <2> DEFINE o == out[t]
             y == <<x>>
  <2>2. o \in Seq(Line) /\ y \in Seq(Line) /\ rest \in Seq(Line)
    BY <1>2, <1>8, <2>1
  <2> HIDE DEF o, y
  <2>3. o \o (y \o rest) = (o \o y) \o rest
    BY <2>2, ConcatAssociative
  <2> QED
    BY <2>3 DEF o, y
<1>11. out[t] \o RestReply(cmd[t], pos[t], table)
         = out'[t] \o RestReply(cmd[t], pos[t] + 1, table')
  BY <1>6, <1>8, <1>9, <1>10
<1> QED
  BY <1>1, <1>6, <1>11, IterationHidden

\* kvs_delete.
LEMMA DeletePairHidden ==
    ASSUME IInv, NEW t \in Threads, DeletePair(t)
    PROVE  Hidden
<1> DEFINE s == Contents(table)
           s1 == Contents(table')
           k == cmd[t].args[pos[t]]
           rest == Sem!Missing(RestOf(cmd[t], pos[t] + 1), s1)
<1>1. At(t, "delete") /\ Advance(t) /\ UNCHANGED image /\ ~Faults(t)
  BY DEF DeletePair
<1>2. /\ cmd[t].op = "delete" /\ cmd[t] \in Command
      /\ pos[t] \in 1 .. Steps(cmd[t]) /\ out[t] \in Seq(Line)
      /\ table \in HashTable /\ WellFormed(table) /\ s \in Map
  BY <1>1, LoopFrame
<1>3. Steps(cmd[t]) = Len(cmd[t].args) /\ KeyAt(t) = k
  BY <1>2 DEF Steps, KeyAt
<1>4. k \in Keys /\ ~NoBucket(k)
  BY <1>1, <1>2, <1>3, ArgumentTypes DEF IInv, Faults
<1>5. out \in [Threads -> Seq(Line)]
  BY DEF IInv, TypeOK
<1> HIDE DEF k
<1>6. /\ s1 = [s EXCEPT ![k] = NotFound]
      /\ out' = [out EXCEPT ![t] = @ \o Gone(k, s)]
  <2>1. CASE Occurs(table[hash(k)], k)
    <3>1. table' = delete_pair(table, k) /\ out' = out
      BY <1>3, <2>1 DEF DeletePair
    <3>2. s1 = [s EXCEPT ![k] = NotFound]
      BY <1>2, <1>4, <2>1, <3>1, DeletePairRemoves
    <3>3. s[k] # NotFound
      <4>1. s[k] = table[hash(k)][Find(table[hash(k)], k)].value
        BY <1>4, <2>1 DEF Contents, read_pair
      <4>2. table[hash(k)] \in Seq(KeyNode)
        BY <1>2, <1>4, HashInTable DEF HashTable
      <4>3. Find(table[hash(k)], k) \in 1 .. Len(table[hash(k)])
        BY <2>1, <4>2, FindIsFirst
      <4>4. table[hash(k)][Find(table[hash(k)], k)] \in KeyNode
        BY <4>2, <4>3, ElementOfSeq
      <4> QED
        BY <4>1, <4>4, KvsAssumption DEF KeyNode
    <3>4. Gone(k, s) = <<>>
      BY <3>3 DEF Gone
    <3>5. out[t] \o <<>> = out[t]
      BY <1>2, ConcatEmptySeq
    <3>6. out' = [out EXCEPT ![t] = @ \o Gone(k, s)]
      BY <1>5, <3>1, <3>4, <3>5
    <3> QED
      BY <3>2, <3>6
  <2>2. CASE ~Occurs(table[hash(k)], k)
    <3>1. table' = table /\ Emit(t, <<<<k, "KVSMISSING">>>>)
      BY <1>3, <2>2 DEF DeletePair
    <3>2. s[k] = NotFound
      BY <1>4, <2>2 DEF Contents, read_pair
    <3>3. Gone(k, s) = <<<<k, "KVSMISSING">>>>
      BY <3>2 DEF Gone
    <3>4. s1 = [s EXCEPT ![k] = NotFound]
      BY <1>2, <3>1, <3>2 DEF Map
    <3>5. out' = [out EXCEPT ![t] = @ \o Gone(k, s)]
      BY <3>1, <3>3 DEF Emit
    <3> QED
      BY <3>4, <3>5
  <2> QED
    BY <2>1, <2>2
<1>7. /\ Sem!Effect(RestOf(cmd[t], pos[t]), s)
           = Sem!Effect(RestOf(cmd[t], pos[t] + 1), s1)
      /\ Sem!Missing(RestOf(cmd[t], pos[t]), s) = Gone(k, s) \o rest
      /\ rest \in Seq(Line)
  BY <1>2, <1>3, <1>6, DeleteIteration DEF k
<1>8. /\ RestReply(cmd[t], pos[t], table) = Sem!Missing(RestOf(cmd[t], pos[t]), s)
      /\ RestReply(cmd[t], pos[t] + 1, table') = rest
  BY <1>2, RestReplyIs
<1> HIDE DEF rest, s, s1
<1>9. out[t] \o (Gone(k, s) \o rest) = (out[t] \o Gone(k, s)) \o rest
  <2>1. <<k, "KVSMISSING">> \in Line
    BY <1>4 DEF Line
  <2> HIDE DEF Line
  <2>2. <<<<k, "KVSMISSING">>>> \in Seq(Line) /\ <<>> \in Seq(Line)
    BY <2>1
  <2>3. Gone(k, s) \in Seq(Line)
    BY <2>2 DEF Gone
  <2> DEFINE o == out[t]
             y == Gone(k, s)
  <2>4. o \in Seq(Line) /\ y \in Seq(Line) /\ rest \in Seq(Line)
    BY <1>2, <1>7, <2>3
  <2> HIDE DEF o, y
  <2>5. o \o (y \o rest) = (o \o y) \o rest
    BY <2>4, ConcatAssociative
  <2> QED
    BY <2>5 DEF o, y
<1>10. out'[t] = out[t] \o Gone(k, s) /\ \A u \in Threads \ {t} : out'[u] = out[u]
  BY <1>5, <1>6
<1>11. out[t] \o RestReply(cmd[t], pos[t], table)
         = out'[t] \o RestReply(cmd[t], pos[t] + 1, table')
  BY <1>7, <1>8, <1>9, <1>10
<1> QED
  BY <1>1, <1>7, <1>10, <1>11, IterationHidden DEF s, s1

\* kvs_show.
LEMMA ShowBucketHidden ==
    ASSUME IInv, NEW t \in Threads, ShowBucket(t)
    PROVE  Hidden
<1> DEFINE x == Lines(table[pos[t] - 1])
           rest == Listing(table, pos[t] + 1)
<1>1. At(t, "show") /\ Advance(t) /\ UNCHANGED <<table, image>> /\ Emit(t, x)
  BY DEF ShowBucket
<1>2. /\ cmd[t].op = "show" /\ pos[t] \in 1 .. Steps(cmd[t])
      /\ out[t] \in Seq(Line) /\ table \in HashTable
  BY <1>1, LoopFrame
<1>3. pos[t] \in 1 .. TABLE_SIZE
  BY <1>2 DEF Steps
<1>4. Listing(table, pos[t]) = x \o rest
  BY <1>2, <1>3, ListingNext
<1>5. x \in Seq(Line) /\ rest \in Seq(Line)
  <2>1. pos[t] - 1 \in Buckets /\ pos[t] + 1 \in 1 .. TABLE_SIZE + 1
    BY <1>3, KvsTableAssumption DEF Buckets
  <2>2. table[pos[t] - 1] \in Seq(KeyNode)
    BY <1>2, <2>1 DEF HashTable
  <2> QED
    BY <1>2, <2>1, <2>2, LinesType, ListingType
<1>6. /\ RestReply(cmd[t], pos[t], table) = Listing(table, pos[t])
      /\ RestReply(cmd[t], pos[t] + 1, table') = rest
  BY <1>1, <1>2, RestReplyIs
<1>7. out \in [Threads -> Seq(Line)]
  BY DEF IInv, TypeOK
<1> HIDE DEF x, rest
<1>8. out[t] \o (x \o rest) = (out[t] \o x) \o rest
  <2> DEFINE o == out[t]
  <2>1. o \in Seq(Line) /\ x \in Seq(Line) /\ rest \in Seq(Line)
    BY <1>2, <1>5
  <2> HIDE DEF o
  <2>2. o \o (x \o rest) = (o \o x) \o rest
    BY <2>1, ConcatAssociative
  <2> QED
    BY <2>2 DEF o
<1>9. out'[t] = out[t] \o x /\ \A u \in Threads \ {t} : out'[u] = out[u]
  BY <1>1, <1>7 DEF Emit
<1>10. out[t] \o RestReply(cmd[t], pos[t], table)
         = out'[t] \o RestReply(cmd[t], pos[t] + 1, table')
  BY <1>4, <1>6, <1>8, <1>9
<1> QED
  BY <1>1, <1>9, <1>10, IterationHidden

\* A step that the abstract store sees as t's: nothing else changes.
LEMMA TakesEffect ==
    ASSUME NEW t \in Threads, ~crashed, crashed' = crashed, cmd' = cmd,
           Status(t) = "pending", Status(t)' = "done",
           StoreMap' = Sem!Effect(cmd[t], StoreMap),
           Reply(t)' \in Sem!Replies(cmd[t], StoreMap),
           \A u \in Threads \ {t} : Status(u)' = Status(u) /\ Reply(u)' = Reply(u)
    PROVE  Store!TakeEffect(t)
<1>1. StoreMap' = Store!Effect(cmd[t], StoreMap)
      /\ Reply(t)' \in Store!Replies(cmd[t], StoreMap)
  BY SemIsStore
<1>2. [u \in Threads |-> Status(u)]'
        = [[u \in Threads |-> Status(u)] EXCEPT ![t] = "done"]
  OBVIOUS
<1>3. PICK r \in Store!Replies(cmd[t], StoreMap) : r = Reply(t)'
  BY <1>1
<1>4. [u \in Threads |-> Reply(u)]' = [[u \in Threads |-> Reply(u)] EXCEPT ![t] = r]
  BY <1>3
<1> QED
  BY <1>1, <1>2, <1>3, <1>4 DEF Store!TakeEffect

\* A call, in the abstract store too.
LEMMA CallMaps ==
    ASSUME IInv, NEW t \in Threads, NEW c \in Commands, Call(t, c)
    PROVE  Store!Call(t, c)
<1>1. /\ ~crashed /\ pc[t] = "idle" /\ UNCHANGED <<table, writer, readers, crashed>>
      /\ pc' = [pc EXCEPT ![t] = "lock"] /\ cmd' = [cmd EXCEPT ![t] = c]
      /\ pos' = [pos EXCEPT ![t] = 1] /\ out' = [out EXCEPT ![t] = <<>>]
      /\ image' = [image EXCEPT ![t] = NoImage]
  BY DEF Call
<1>2. TypeOK
  BY DEF IInv
<1>3. pc'[t] = "lock" /\ out'[t] = <<>> /\ image'[t] = NoImage
  BY <1>1, <1>2 DEF TypeOK
<1>4. Status(t) = "idle" /\ Status(t)' = "pending"
  BY <1>1, <1>3 DEF Status, InBody
<1>5. Reply(t)' = <<>>
  BY <1>3 DEF Reply, InBody
<1>6. \A u \in Threads \ {t} : Status(u)' = Status(u) /\ Reply(u)' = Reply(u)
  <2> TAKE u \in Threads \ {t}
  <2>1. Quiet(u)
    BY <1>1, <1>2 DEF Quiet, Own, TypeOK
  <2> QED
    BY <1>1, <2>1, QuietThread
<1>7. StoreMap' = StoreMap
  <2>1. CASE writer = NoThread
    BY <1>1, <2>1, StoreMapIs
  <2>2. CASE writer # NoThread
    <3>1. writer \in Threads /\ pc[writer] = "body"
      BY <1>2, <2>2 DEF IInv, HolderInv, TypeOK
    <3>2. writer # t
      BY <1>1, <3>1
    <3>3. cmd'[writer] = cmd[writer] /\ pos'[writer] = pos[writer]
      BY <1>1, <1>2, <3>1, <3>2 DEF TypeOK
    <3>4. PICK w \in Threads : writer = w
      BY <3>1
    <3>5. /\ StoreMap = Sem!Effect(RestOf(cmd[w], pos[w]), Contents(table))
          /\ StoreMap' = Sem!Effect(RestOf(cmd'[w], pos'[w]), Contents(table'))
      BY <1>1, <3>4, StoreMapIs
    <3> QED
      BY <1>1, <3>3, <3>4, <3>5
  <2> QED
    BY <2>1, <2>2
<1>8. /\ [u \in Threads |-> Status(u)]'
           = [[u \in Threads |-> Status(u)] EXCEPT ![t] = "pending"]
      /\ [u \in Threads |-> Reply(u)]'
           = [[u \in Threads |-> Reply(u)] EXCEPT ![t] = <<>>]
  BY <1>4, <1>5, <1>6
<1> QED
  BY <1>1, <1>4, <1>7, <1>8 DEF Store!Call

\* Getting the lock.
LEMMA EnterMaps ==
    ASSUME IInv, NEW t \in Threads, Enter(t)
    PROVE  /\ Status(t) = "pending" /\ ~crashed /\ crashed' = crashed
           /\ cmd' = cmd /\ cmd[t] \in Command /\ table' = table
           /\ table \in HashTable /\ WellFormed(table) /\ Contents(table) \in Map
           /\ pc'[t] = "body" /\ pos[t] = 1 /\ pos'[t] = 1
           /\ image'[t] = NoImage /\ out'[t] = <<>> /\ Reply(t) = <<>>
           /\ \A u \in Threads \ {t} : Status(u)' = Status(u) /\ Reply(u)' = Reply(u)
<1>1. /\ ~crashed /\ pc[t] = "lock" /\ pc' = [pc EXCEPT ![t] = "body"]
      /\ UNCHANGED <<table, cmd, pos, out, image, crashed>>
  BY DEF Enter
<1>2. TypeOK /\ cmd[t] \in Command /\ WellFormed(table)
  BY <1>1 DEF IInv, CommandInv, TablesWellFormed
<1>3. pos[t] = 1 /\ out[t] = <<>> /\ image[t] = NoImage
  BY <1>1 DEF IInv, CallInv
<1>4. pc'[t] = "body" /\ table \in HashTable
  BY <1>1, <1>2 DEF TypeOK
<1>5. Status(t) = "pending" /\ Reply(t) = <<>>
  BY <1>1, <1>3 DEF Status, Reply, InBody
<1>6. \A u \in Threads \ {t} : Status(u)' = Status(u) /\ Reply(u)' = Reply(u)
  <2> TAKE u \in Threads \ {t}
  <2>1. Quiet(u)
    BY <1>1, <1>2 DEF Quiet, Own, TypeOK
  <2> QED
    BY <1>1, <2>1, QuietThread
<1> QED
  BY <1>1, <1>2, <1>3, <1>4, <1>5, <1>6, ContentsType

\* Nothing printed yet, all of it is still to come.
LEMMA NothingPrinted ==
    ASSUME NEW c \in Command, NEW ht \in HashTable
    PROVE  <<>> \o RestReply(c, 1, ht) = RestReply(c, 1, ht)
<1>1. RestReply(c, 1, ht) \in Seq(Line)
  <2>1. CASE c.op = "write" \/ c.op = "backup"
    <3>1. RestReply(c, 1, ht) = <<>>
      BY <2>1, RestReplyIs
    <3>2. <<>> \in Seq(Line)
      <4> DEFINE L == Line
      <4> HIDE DEF L
      <4>1. <<>> \in Seq(L)
        OBVIOUS
      <4> QED
        BY <4>1 DEF L
    <3> QED
      BY <3>1, <3>2, Zenon
  <2>2. CASE c.op = "read" \/ c.op = "delete"
    <3>1. c.args \in Seq(Keys)
      BY <2>2, CommandArgs
    <3>2. Left(c, 1) \in Seq(Keys)
      <4> DEFINE a == c.args
      <4>1. a \in Seq(Keys)
        BY <3>1
      <4> HIDE DEF a
      <4>2. SubSeq(a, 1, Len(a)) = a
        BY <4>1, SubSeqFull
      <4> QED
        BY <4>1, <4>2 DEF Left, a
    <3>3. CASE c.op = "read"
      <4>1. Answers(Left(c, 1), Contents(ht)) \in Seq(Line)
        BY <3>2, AnswersType, ContentsType
      <4> QED
        BY <3>3, <4>1, RestReplyIs
    <3>4. CASE c.op = "delete"
      <4>1. /\ Complaints(Left(c, 1), Contents(ht)) \in Seq(Seq(Line))
            /\ Sem!Missing(Calling("delete", Left(c, 1)), Contents(ht))
                 = FlattenSeq(Complaints(Left(c, 1), Contents(ht)))
        BY <3>2, ComplaintsType
      <4>2. Sem!Missing(RestOf(c, 1), Contents(ht)) \in Seq(Line)
        BY <3>4, <4>1, FlattenType DEF RestOf
      <4> QED
        BY <3>4, <4>2, RestReplyIs
    <3> QED
      BY <2>2, <3>3, <3>4
  <2>3. CASE c.op = "show"
    <3>1. 1 \in 1 .. TABLE_SIZE + 1
      BY KvsTableAssumption
    <3> QED
      BY <2>3, <3>1, ListingType, RestReplyIs
  <2> QED
    BY <2>1, <2>2, <2>3, CommandArgs
<1> QED
  BY <1>1, ConcatEmptySeq

\* A WRITE or DELETE takes effect when it gets the lock.
LEMMA WrLockMaps ==
    ASSUME IInv, NEW t \in Threads, WrLock(t)
    PROVE  Store!TakeEffect(t)
<1>1. Enter(t) /\ writer = NoThread /\ writer' = t /\ cmd[t].op \in {"write", "delete"}
  BY DEF WrLock, Writes
<1>2. /\ Status(t) = "pending" /\ ~crashed /\ crashed' = crashed
      /\ cmd' = cmd /\ cmd[t] \in Command /\ table' = table
      /\ table \in HashTable /\ WellFormed(table)
      /\ pc'[t] = "body" /\ pos'[t] = 1 /\ image'[t] = NoImage /\ out'[t] = <<>>
      /\ \A u \in Threads \ {t} : Status(u)' = Status(u) /\ Reply(u)' = Reply(u)
  BY <1>1, EnterMaps
<1>3. StoreMap = Contents(table)
  BY <1>1, StoreMapIs
<1>4. StoreMap' = Sem!Effect(cmd[t], StoreMap)
  <2>1. StoreMap' = Sem!Effect(RestOf(cmd'[t], pos'[t]), Contents(table'))
    BY <1>1, StoreMapIs
  <2>2. RestOf(cmd[t], 1) = cmd[t]
    BY <1>2, LeftAtStart
  <2> QED
    BY <1>2, <1>3, <2>1, <2>2
<1>5. Status(t)' = "done" /\ Reply(t)' \in Sem!Replies(cmd[t], StoreMap)
  <2>1. /\ Status(t)' = "done"
        /\ Reply(t)' = out'[t] \o RestReply(cmd'[t], pos'[t], table')
    BY <1>1, <1>2, InsideMaps
  <2>2. Reply(t)' = RestReply(cmd[t], 1, table)
    BY <1>2, <2>1, NothingPrinted
  <2>3. RestReply(cmd[t], 1, table) \in Sem!Replies(cmd[t], Contents(table))
    BY <1>2, LeftAtStart
  <2> QED
    BY <1>3, <2>1, <2>2, <2>3
<1> QED
  BY <1>2, <1>4, <1>5, TakesEffect

\* So do READ and SHOW; a backup only when it forks.
LEMMA RdLockMaps ==
    ASSUME IInv, NEW t \in Threads, RdLock(t)
    PROVE  Store!TakeEffect(t) \/ Hidden
<1>1. Enter(t) /\ writer = NoThread /\ writer' = NoThread
      /\ cmd[t].op \notin {"write", "delete"}
  BY DEF RdLock, Writes
<1>2. /\ Status(t) = "pending" /\ ~crashed /\ crashed' = crashed
      /\ cmd' = cmd /\ cmd[t] \in Command /\ table' = table
      /\ table \in HashTable /\ WellFormed(table)
      /\ pc'[t] = "body" /\ pos'[t] = 1 /\ image'[t] = NoImage /\ out'[t] = <<>>
      /\ Reply(t) = <<>>
      /\ \A u \in Threads \ {t} : Status(u)' = Status(u) /\ Reply(u)' = Reply(u)
  BY <1>1, EnterMaps
<1>3. StoreMap = Contents(table) /\ StoreMap' = StoreMap
  BY <1>1, <1>2, StoreMapIs
<1>4. cmd[t].op \in {"read", "show", "backup"}
  BY <1>1, <1>2, CommandArgs
<1>5. CASE cmd[t].op \in {"read", "show"}
  <2>1. Sem!Effect(cmd[t], StoreMap) = StoreMap
    BY <1>5 DEF Sem!Effect
  <2>2. /\ Status(t)' = "done"
        /\ Reply(t)' = out'[t] \o RestReply(cmd'[t], pos'[t], table')
    BY <1>2, <1>5, InsideMaps
  <2>3. Reply(t)' = RestReply(cmd[t], 1, table)
    BY <1>2, <2>2, NothingPrinted
  <2>4. RestReply(cmd[t], 1, table) \in Sem!Replies(cmd[t], Contents(table))
    BY <1>2, LeftAtStart
  <2> QED
    BY <1>2, <1>3, <2>1, <2>2, <2>3, <2>4, TakesEffect
<1>6. CASE cmd[t].op = "backup"
  <2>1. Status(t)' = "pending"
    BY <1>2, <1>6 DEF Status, InBody
  <2>2. Reply(t)' = <<>>
    <3>1. Reply(t)' = out'[t] \o RestOfReply(t)'
      BY <1>2 DEF Reply, InBody
    <3>2. RestOfReply(t)' = <<>>
      BY <1>2, <1>6 DEF RestOfReply
    <3> QED
      BY <1>2, <3>1, <3>2, NothingPrinted, EmptySeq
  <2> QED
    BY <1>2, <1>3, <2>1, <2>2 DEF Hidden
<1> QED
  BY <1>4, <1>5, <1>6

-----------------------------------------------------------------------------
\* The fork of a backup, successful or not.
LEMMA ForkMaps ==
    ASSUME IInv, NEW t \in Threads, Fork(t) \/ ForkFails(t)
    PROVE  Store!TakeEffect(t)
<1>1. /\ At(t, "backup") /\ Advance(t) /\ UNCHANGED <<table, out>>
      /\ \/ image' = [image EXCEPT ![t] = table]
         \/ image' = image
  BY DEF Fork, ForkFails
<1>2. /\ ~crashed /\ InBody(t) /\ cmd[t].op = "backup" /\ cmd[t] \in Command
      /\ pos[t] <= 1
  BY <1>1 DEF At, InBody, IInv, CommandInv, Steps
<1>3. TypeOK /\ WellFormed(table) /\ table \in HashTable
  BY DEF IInv, TablesWellFormed, TypeOK
<1>4. pos[t] = 1
  <2>1. pos[t] \in Nat \ {0}
    BY <1>3 DEF TypeOK
  <2> QED
    BY <1>2, <2>1
<1>5. image[t] = NoImage /\ out[t] = <<>>
  BY <1>2, <1>4 DEF IInv, CallInv, InBody
<1>6. /\ pos'[t] = 2 /\ pc' = pc /\ cmd' = cmd /\ writer' = writer
      /\ crashed' = crashed /\ \A u \in Threads \ {t} : pos'[u] = pos[u]
  BY <1>1, <1>3, <1>4 DEF Advance, TypeOK
<1>7. writer = NoThread
  BY <1>2, NobodyWrites DEF Writes
<1>8. StoreMap = Contents(table) /\ StoreMap' = StoreMap
  BY <1>1, <1>6, <1>7, StoreMapIs
<1>9. Sem!Effect(cmd[t], StoreMap) = StoreMap
  BY <1>2 DEF Sem!Effect
<1>10. Status(t) = "pending" /\ Status(t)' = "done"
  BY <1>2, <1>4, <1>6 DEF Status, InBody
<1>11. Sem!Replies(cmd[t], StoreMap) = Sem!Listings(Contents(table)) \cup {<<>>}
  BY <1>2, <1>8, CommandArgs, RepliesAre
<1>12. Reply(t)' \in Sem!Replies(cmd[t], StoreMap)
  <2>1. CASE image' = [image EXCEPT ![t] = table]
    <3>1. image'[t] = table /\ table # NoImage
      BY <1>3, <2>1, KvsAssumption DEF TypeOK
    <3>2. Reply(t)' = Listing(table, 1)
      <4>1. Reply(t)' = Listing(image'[t], 1)
        BY <3>1 DEF Reply, Listing
      <4> QED
        BY <3>1, <4>1
    <3> QED
      BY <1>3, <1>11, <3>2, ListingEnumerates
  <2>2. CASE image' = image
    <3>1. Reply(t)' = out'[t] \o RestOfReply(t)'
      BY <1>2, <1>5, <1>6, <2>2 DEF Reply, InBody
    <3>2. RestOfReply(t)' = <<>> /\ out'[t] = <<>>
      BY <1>1, <1>2, <1>5, <1>6 DEF RestOfReply
    <3>3. Reply(t)' = <<>>
      BY <3>1, <3>2
    <3> QED
      BY <1>11, <3>3
  <2> QED
    BY <1>1, <2>1, <2>2
<1>13. \A u \in Threads \ {t} : Status(u)' = Status(u) /\ Reply(u)' = Reply(u)
  <2> TAKE u \in Threads \ {t}
  <2>1. image'[u] = image[u] /\ out' = out /\ table' = table
    BY <1>1, <1>3 DEF TypeOK
  <2>2. Quiet(u)
    BY <1>6, <2>1 DEF Quiet, Own
  <2> QED
    BY <2>1, <2>2, QuietThread
<1> QED
  BY <1>2, <1>6, <1>8, <1>9, <1>10, <1>12, <1>13, TakesEffect

\* A call returns when it gives up the lock.
LEMMA UnlockMaps ==
    ASSUME IInv, NEW t \in Threads, Unlock(t)
    PROVE  Store!Return(t)
<1>1. /\ ~crashed /\ InBody(t) /\ pos[t] > Steps(cmd[t])
      /\ pc' = [pc EXCEPT ![t] = "idle"]
      /\ writer' = IF Writes(t) THEN NoThread ELSE writer
      /\ UNCHANGED <<table, cmd, pos, out, image, crashed>>
  BY DEF Unlock, InBody
<1>2. TypeOK /\ cmd[t] \in Command /\ table \in HashTable
  BY <1>1 DEF IInv, CommandInv, InBody, TypeOK
<1>3. pc'[t] = "idle" /\ pos[t] \in Nat /\ out[t] \in Seq(Line)
  BY <1>1, <1>2 DEF TypeOK
<1>4. /\ RestReply(cmd[t], pos[t], table) = <<>>
      /\ cmd[t].op \in {"write", "delete"} =>
           Sem!Effect(RestOf(cmd[t], pos[t]), Contents(table)) = Contents(table)
  BY <1>1, <1>2, <1>3, LeftAtEnd
<1>5. Status(t) = "done" /\ Status(t)' = "idle"
  <2>1. cmd[t].op = "backup" => pos[t] # 1
    BY <1>1, <1>3 DEF Steps
  <2> QED
    BY <1>1, <1>3, <2>1 DEF Status, InBody
<1>6. Reply(t)' = Reply(t)
  <2>1. out[t] \o RestOfReply(t) = out[t]
    BY <1>3, <1>4, RestIs, ConcatEmptySeq
  <2>2. Reply(t) = IF image[t] # NoImage THEN Listing(image[t], 1) ELSE out[t]
    BY <1>1, <2>1 DEF Reply
  <2>3. Reply(t)' = IF image[t] # NoImage THEN Listing(image[t], 1) ELSE out[t]
    BY <1>1, <1>3 DEF Reply, InBody
  <2> QED
    BY <2>2, <2>3
<1>7. StoreMap' = StoreMap
  <2>1. CASE Writes(t)
    <3>1. writer = t /\ writer' = NoThread
      BY <1>1, <2>1, WriterAlone
    <3>2. StoreMap = Sem!Effect(RestOf(cmd[t], pos[t]), Contents(table))
      BY <3>1, StoreMapIs
    <3>3. StoreMap' = Contents(table)
      BY <1>1, <3>1, StoreMapIs
    <3> QED
      BY <1>4, <2>1, <3>2, <3>3 DEF Writes
  <2>2. CASE ~Writes(t)
    <3>1. writer = NoThread /\ writer' = NoThread
      BY <1>1, <2>2, NobodyWrites
    <3> QED
      BY <1>1, <3>1, StoreMapIs
  <2> QED
    BY <2>1, <2>2
<1>8. \A u \in Threads \ {t} : Status(u)' = Status(u) /\ Reply(u)' = Reply(u)
  <2> TAKE u \in Threads \ {t}
  <2>1. Quiet(u)
    BY <1>1, <1>2 DEF Quiet, Own, TypeOK
  <2> QED
    BY <1>1, <2>1, QuietThread
<1>9. /\ [u \in Threads |-> Status(u)]'
           = [[u \in Threads |-> Status(u)] EXCEPT ![t] = "idle"]
      /\ [u \in Threads |-> Reply(u)]' = [u \in Threads |-> Reply(u)]
  BY <1>5, <1>6, <1>8
<1> QED
  BY <1>1, <1>5, <1>7, <1>9 DEF Store!Return

\* A dying server leaves the abstract store as it is.
LEMMA SegFaultMaps ==
    ASSUME NEW t \in Threads, SegFault(t)
    PROVE  Store!Crash
<1>1. crashed' = TRUE
      /\ UNCHANGED <<table, writer, readers, pc, cmd, pos, out, image>>
  BY DEF SegFault
<1>2. StoreMap' = StoreMap
  BY <1>1 DEF StoreMap, Rest
<1>3. \A u \in Threads : Status(u)' = Status(u) /\ Reply(u)' = Reply(u)
  <2> TAKE u \in Threads
  <2>1. Quiet(u)
    BY <1>1 DEF Quiet, Own
  <2> QED
    BY <1>1, <2>1, QuietThread
<1> QED
  BY <1>1, <1>2, <1>3 DEF Store!Crash

\* A step that changes nothing.
LEMMA StutterMaps ==
    ASSUME UNCHANGED vars
    PROVE  Hidden
<1>1. UNCHANGED <<table, writer, pc, cmd, pos, out, image, crashed>>
  BY DEF vars
<1>2. StoreMap' = StoreMap
  BY <1>1 DEF StoreMap, Rest
<1>3. \A u \in Threads : Status(u)' = Status(u) /\ Reply(u)' = Reply(u)
  <2> TAKE u \in Threads
  <2>1. Quiet(u)
    BY <1>1 DEF Quiet, Own
  <2> QED
    BY <1>1, <2>1, QuietThread
<1> QED
  BY <1>1, <1>2, <1>3 DEF Hidden

\* The empty table is the empty map.
LEMMA InitMaps == Init => Store!Init
<1> SUFFICES ASSUME Init PROVE Store!Init
  OBVIOUS
<1>1. StoreMap = [k \in Keys |-> NotFound]
  <2>1. StoreMap = Contents(create_hash_table)
    BY StoreMapIs DEF Init
  <2>2. ASSUME NEW k \in Keys, ~NoBucket(k)
        PROVE  read_pair(create_hash_table, k) = NotFound
    <3>1. create_hash_table[hash(k)] = <<>>
      BY <2>2, HashInTable DEF create_hash_table
    <3>2. ~Occurs(<<>>, k)
      BY DEF Occurs
    <3> QED
      BY <3>1, <3>2 DEF read_pair
  <2> QED
    BY <2>1, <2>2 DEF Contents
<1>2. \A t \in Threads : Status(t) = "idle" /\ Reply(t) = <<>>
  BY DEF Init, Status, Reply, InBody
<1> QED
  BY <1>1, <1>2 DEF Store!Init, Init, NoCall

\* Every step is one of the abstract store, or hidden.
LEMMA NextMaps == IInv /\ [Next]_vars => [Store!Next]_(Store!vars)
<1> SUFFICES ASSUME IInv, [Next]_vars PROVE Store!Next \/ UNCHANGED Store!vars
  OBVIOUS
<1>1. CASE UNCHANGED vars
  BY <1>1, StutterMaps, HiddenIsStutter
<1>2. ASSUME NEW t \in Threads, NEW c \in Commands, Call(t, c)
      PROVE  Store!Next
  BY <1>2, CallMaps DEF Store!Next
<1>3. ASSUME NEW t \in Threads, WrLock(t) \/ Fork(t) \/ ForkFails(t)
      PROVE  Store!Next
  BY <1>3, WrLockMaps, ForkMaps DEF Store!Next
<1>4. ASSUME NEW t \in Threads, RdLock(t)
      PROVE  Store!Next \/ UNCHANGED Store!vars
  BY <1>4, RdLockMaps, HiddenIsStutter DEF Store!Next
<1>5. ASSUME NEW t \in Threads,
             WritePair(t) \/ ReadPair(t) \/ DeletePair(t) \/ ShowBucket(t)
      PROVE  UNCHANGED Store!vars
  BY <1>5, WritePairHidden, ReadPairHidden, DeletePairHidden, ShowBucketHidden,
     HiddenIsStutter
<1>6. ASSUME NEW t \in Threads, SegFault(t) PROVE Store!Next
  BY <1>6, SegFaultMaps DEF Store!Next
<1>7. ASSUME NEW t \in Threads, Unlock(t) PROVE Store!Next
  BY <1>7, UnlockMaps DEF Store!Next
<1> QED
  BY <1>1, <1>2, <1>3, <1>4, <1>5, <1>6, <1>7 DEF Next, Step, Dead

\* The locks and loops of operations.c make an atomic store.
THEOREM StoreIsAtomic == Spec => ImplementsKvStore
<1> QED
  BY Invariance, InitMaps, NextMaps, PTL DEF Spec, ImplementsKvStore, Store!Spec
=============================================================================
