------------------------------ MODULE KvsTable ------------------------------
(***************************************************************************)
(* The hash table of server/kvs.c: buckets of KeyNodes, and the functions  *)
(* that search and change them.  A bucket is the sequence of nodes reached *)
(* from ht->table[b] through `next'.                                       *)
(*                                                                         *)
(* write_pair leaves the `head' of a new KeyNode, its subscriber list, as  *)
(* malloc returned it.  HeapResidue is the set of values it can then have: *)
(* "null" in a chunk never used before, "wild" in a reused one.  No other  *)
(* value arises: kvs_subscribe appends BEHIND the node head points to, so  *)
(* it never makes a list out of an empty one.                              *)
(***************************************************************************)
EXTENDS Integers, Sequences, SequencesExt

CONSTANTS
    Keys,        \* the key strings that occur
    Values,      \* the value strings that occur
    Initial,     \* code of the first character of each key
    TABLE_SIZE,  \* number of buckets (26 in kvs.h)
    HeapResidue  \* what malloc may leave in KeyNode.head

tolower(c) == IF c \in 65..90 THEN c + 32 ELSE c

\* Letters and digits share the first buckets; anything else has none.
hash(k) ==
    LET firstLetter == tolower(Initial[k])
    IN  CASE firstLetter \in 97..122 -> firstLetter - 97
          [] firstLetter \in 48..57  -> firstLetter - 48
          [] OTHER                   -> -1

Buckets == 0 .. TABLE_SIZE - 1

ASSUME KvsTableAssumption ==
    /\ TABLE_SIZE \in Nat \ {0}
    /\ Initial \in [Keys -> 0..127]
    /\ \A k \in Keys : hash(k) < TABLE_SIZE
    /\ HeapResidue \subseteq {"null", "wild"} /\ HeapResidue # {}

KeyNode == [key : Keys, value : Values, head : {"null", "wild"}]
HashTable == [Buckets -> Seq(KeyNode)]

create_hash_table == [b \in Buckets |-> <<>>]

-----------------------------------------------------------------------------
\* The search loop of write_pair, read_pair and delete_pair: the first node
\* of the bucket with the key.
Occurs(list, k) == \E n \in DOMAIN list : list[n].key = k

Find(list, k) ==
    CHOOSE n \in DOMAIN list :
       /\ list[n].key = k
       /\ \A m \in DOMAIN list : list[m].key = k => n <= m

\* MUTANT: only the first node of the bucket is compared with the key.
WritePairHeadOnly(ht, k, v, residue) ==
    IF ht[hash(k)] # <<>> /\ ht[hash(k)][1].key = k
    THEN [ht EXCEPT ![hash(k)] = [@ EXCEPT ![1].value = v]]
    ELSE [ht EXCEPT ![hash(k)] =
             <<[key |-> k, value |-> v, head |-> residue]>> \o @]

\* Overwrite the value in place, or put a new node in front of the bucket.
write_pair(ht, k, v, residue) ==
    IF Occurs(ht[hash(k)], k)
    THEN [ht EXCEPT ![hash(k)] = [@ EXCEPT ![Find(@, k)].value = v]]
    ELSE [ht EXCEPT ![hash(k)] =
             <<[key |-> k, value |-> v, head |-> residue]>> \o @]

NotFound == "NotFound"

read_pair(ht, k) ==
    IF Occurs(ht[hash(k)], k)
    THEN ht[hash(k)][Find(ht[hash(k)], k)].value ELSE NotFound

\* MUTANT: the bucket is cut at the deleted node.
DeletePairCut(ht, k) ==
    [ht EXCEPT ![hash(k)] = SubSeq(@, 1, Find(@, k) - 1)]

\* Unlink the node; only called when the key occurs.
delete_pair(ht, k) == [ht EXCEPT ![hash(k)] = RemoveAt(@, Find(@, k))]

\* ht->table[-1] is not a node pointer.
NoBucket(k) == hash(k) = -1

\* write_pair and delete_pair walk the subscriber list of the key they find,
\* to notify it: a head that malloc left there is followed.
WildSubscribers(ht, k) ==
    /\ ~NoBucket(k)
    /\ Occurs(ht[hash(k)], k)
    /\ ht[hash(k)][Find(ht[hash(k)], k)].head = "wild"

-----------------------------------------------------------------------------
\* What the table says as a map, and as the lines SHOW or a backup prints.
Contents(ht) ==
    [k \in Keys |-> IF NoBucket(k) THEN NotFound ELSE read_pair(ht, k)]

Lines(list) == [n \in DOMAIN list |-> <<list[n].key, list[n].value>>]

\* Each key has at most one node, in the bucket of its hash: otherwise
\* DELETE would uncover an old value, or READ miss a key that SHOW prints.
WellFormed(ht) ==
    \A b \in Buckets : \A m, n \in DOMAIN ht[b] :
       /\ hash(ht[b][m].key) = b
       /\ ht[b][m].key = ht[b][n].key => m = n
=============================================================================
