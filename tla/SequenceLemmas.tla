--------------------------- MODULE SequenceLemmas ---------------------------
(***************************************************************************)
(* What the proofs about several components need of natural numbers and of *)
(* the sequences that are joined from others: induction in the form of a   *)
(* set that contains 0 and with each number the next, and the equations of *)
(* FlattenSeq, which is defined by a recursive function.                   *)
(***************************************************************************)
EXTENDS SequencesExt, SequenceTheorems, FunctionTheorems, FiniteSetTheorems,
        WellFoundedInduction,
        TLAPS

\* A set of natural numbers has a least element: the finite sets 0 .. n are
\* well-founded under inclusion.
LEMMA LeastNatural ==
    ASSUME NEW T \in SUBSET Nat, T # {}
    PROVE  \E n \in T : \A m \in T : n <= m
<1> DEFINE F == {0 .. n : n \in T}
<1>1. F \subseteq FiniteSubsetsOf(Nat) /\ F # {}
  <2>1. \A n \in T : IsFiniteSet(0 .. n) /\ 0 .. n \subseteq Nat
    BY FS_Interval
  <2>2. \A n \in T : 0 .. n \in FiniteSubsetsOf(Nat)
    BY <2>1 DEF FiniteSubsetsOf
  <2> QED
    BY <2>2
<1>2. IsWellFoundedOn(StrictSubsetOrdering(Nat), FiniteSubsetsOf(Nat))
  BY FS_StrictSubsetOrderingWellFounded
<1> HIDE DEF F
<1>3. PICK x \in F : \A y \in F : ~ (<<y, x>> \in StrictSubsetOrdering(Nat))
  BY <1>1, <1>2, WFMin
<1> USE DEF F
<1>4. PICK n \in T : x = 0 .. n
  OBVIOUS
<1>5. ASSUME NEW m \in T PROVE n <= m
  <2> SUFFICES ASSUME m < n PROVE FALSE
    OBVIOUS
  <2>1. 0 .. m \in F
    OBVIOUS
  <2>2. (0 .. m) \subseteq (0 .. n) /\ n \notin 0 .. m /\ n \in 0 .. n
    OBVIOUS
  <2>3. << 0 .. m, 0 .. n >> \in StrictSubsetOrdering(Nat)
    BY <2>2 DEF StrictSubsetOrdering
  <2> QED
    BY <1>3, <1>4, <2>1, <2>3
<1> QED
  BY <1>5

\* A set with 0, and with each number the next, has all natural numbers.
LEMMA Induction ==
    ASSUME NEW T, 0 \in T, \A n \in Nat : n \in T => n + 1 \in T
    PROVE  \A n \in Nat : n \in T
<1> SUFFICES ASSUME Nat \ T # {} PROVE FALSE
  OBVIOUS
<1>1. PICK n \in Nat \ T : \A m \in Nat \ T : n <= m
  BY LeastNatural
<1>2. n # 0 /\ n - 1 \in Nat /\ (n - 1) + 1 = n /\ ~(n <= n - 1)
  BY <1>1
<1>3. n - 1 \in T
  BY <1>1, <1>2
<1> QED
  BY <1>1, <1>2, <1>3

-----------------------------------------------------------------------------
\* A sequence with one more element in front.
LEMMA PutFirst ==
    ASSUME NEW S, NEW x \in S, NEW s \in Seq(S)
    PROVE  /\ <<x>> \o s \in Seq(S) /\ Len(<<x>> \o s) = Len(s) + 1
           /\ (<<x>> \o s)[1] = x
           /\ \A i \in 1 .. Len(s) : (<<x>> \o s)[i + 1] = s[i]
<1> DEFINE all == <<x>> \o s
           one == <<x>>
<1>1. one \in Seq(S) /\ Len(one) = 1 /\ one[1] = x /\ Len(s) \in Nat
  BY LenProperties
<1> HIDE DEF one
<1>2. /\ all \in Seq(S) /\ Len(all) = 1 + Len(s)
      /\ \A i \in 1 .. 1 + Len(s) : all[i] = IF i <= 1 THEN one[i] ELSE s[i - 1]
  BY <1>1, ConcatProperties
<1> HIDE DEF all
<1>3. all[1] = x /\ \A i \in 1 .. Len(s) : all[i + 1] = s[i]
  BY <1>1, <1>2
<1> QED
  BY <1>1, <1>2, <1>3 DEF all, one

(* FlattenSeq. *)

\* The value at n of the function by which FlattenSeq joins, f being it.
JoinAt(seqs, f, n) == IF n = 1 THEN seqs[n] ELSE f[n - 1] \o seqs[n]

IsJoin(f, seqs, max) == f = [n \in 1 .. max |-> JoinAt(seqs, f, n)]

\* That function exists: it can be continued from each number to the next.
LEMMA JoinExists ==
    ASSUME NEW seqs, NEW max \in Nat
    PROVE  \E f : IsJoin(f, seqs, max)
<1> DEFINE T == {m \in Nat : \E f : IsJoin(f, seqs, m)}
<1>1. 0 \in T
  <2> DEFINE f == [n \in 1 .. 0 |-> 0]
  <2>1. f = [n \in 1 .. 0 |-> JoinAt(seqs, f, n)]
    OBVIOUS
  <2> QED
    BY <2>1 DEF IsJoin
<1>2. ASSUME NEW m \in Nat, m \in T PROVE m + 1 \in T
  <2>1. PICK f : f = [n \in 1 .. m |-> JoinAt(seqs, f, n)]
    BY <1>2 DEF IsJoin
  <2> DEFINE g == [n \in 1 .. m + 1 |-> IF n <= m THEN f[n] ELSE JoinAt(seqs, f, n)]
  <2>2. ASSUME NEW n \in 1 .. m + 1 PROVE g[n] = JoinAt(seqs, f, n)
    <3>1. CASE n <= m
      <4>1. n \in 1 .. m /\ g[n] = f[n]
        BY <3>1
      <4> HIDE DEF g
      <4> QED
        BY <2>1, <4>1
    <3>2. CASE ~(n <= m)
      BY <3>2
    <3> QED
      BY <3>1, <3>2
  <2>3. ASSUME NEW n \in 1 .. m + 1 PROVE JoinAt(seqs, f, n) = JoinAt(seqs, g, n)
    <3>1. CASE n = 1
      BY <3>1 DEF JoinAt
    <3>2. CASE n # 1
      <4>1. g[n - 1] = f[n - 1]
        BY <3>2
      <4> HIDE DEF g
      <4> QED
        BY <3>2, <4>1 DEF JoinAt
    <3> QED
      BY <3>1, <3>2
  <2>4. g = [n \in 1 .. m + 1 |-> g[n]]
    OBVIOUS
  <2> HIDE DEF g
  <2>5. g = [n \in 1 .. m + 1 |-> JoinAt(seqs, g, n)]
    BY <2>2, <2>3, <2>4
  <2>6. IsJoin(g, seqs, m + 1)
    BY <2>5 DEF IsJoin
  <2> QED
    BY <2>6
<1> HIDE DEF T
<1>3. max \in T
  BY <1>1, <1>2, Induction
<1> QED
  BY <1>3 DEF T

\* Two such functions agree as far as their sequences do.
LEMMA JoinsAgree ==
    ASSUME NEW f, NEW g, NEW s, NEW t, NEW m \in Nat, NEW k \in Nat, NEW l \in Nat,
           m <= k, m <= l, IsJoin(f, s, k), IsJoin(g, t, l),
           \A n \in 1 .. m : s[n] = t[n]
    PROVE  \A n \in 1 .. m : f[n] = g[n]
<1> DEFINE T == {n \in Nat : n \in 1 .. m => f[n] = g[n]}
<1>1. 0 \in T
  OBVIOUS
<1>2. ASSUME NEW n \in Nat, n \in T PROVE n + 1 \in T
  <2> SUFFICES ASSUME n + 1 \in 1 .. m PROVE f[n + 1] = g[n + 1]
    OBVIOUS
  <2>1. f[n + 1] = JoinAt(s, f, n + 1) /\ g[n + 1] = JoinAt(t, g, n + 1)
    <3>1. n + 1 \in 1 .. k /\ n + 1 \in 1 .. l
      OBVIOUS
    <3> QED
      BY <3>1 DEF IsJoin
  <2>2. CASE n + 1 = 1
    BY <2>1, <2>2 DEF JoinAt
  <2>3. CASE n + 1 # 1
    <3>1. f[n] = g[n] /\ (n + 1) - 1 = n
      BY <1>2, <2>3
    <3> QED
      BY <2>1, <2>3, <3>1 DEF JoinAt
  <2> QED
    BY <2>2, <2>3
<1> HIDE DEF T
<1>3. \A n \in Nat : n \in T
  BY <1>1, <1>2, Induction
<1> QED
  BY <1>3 DEF T

\* What FlattenSeq returns is the last value of that function.
LEMMA FlattenIs ==
    ASSUME NEW seqs, Len(seqs) \in Nat
    PROVE  /\ Len(seqs) = 0 => FlattenSeq(seqs) = seqs
           /\ Len(seqs) > 0 => \E f : /\ IsJoin(f, seqs, Len(seqs))
                                      /\ FlattenSeq(seqs) = f[Len(seqs)]
<1>1. CASE Len(seqs) = 0
  BY <1>1 DEF FlattenSeq
<1>2. CASE Len(seqs) > 0
  <2> DEFINE join == CHOOSE join : join = [i \in 1 .. Len(seqs) |->
                       IF i = 1 THEN seqs[i] ELSE join[i - 1] \o seqs[i]]
  <2>1. FlattenSeq(seqs) = join[Len(seqs)]
    BY <1>2 DEF FlattenSeq
  <2>2. join = [i \in 1 .. Len(seqs) |->
                  IF i = 1 THEN seqs[i] ELSE join[i - 1] \o seqs[i]]
    BY JoinExists DEF IsJoin, JoinAt
  <2>3. IsJoin(join, seqs, Len(seqs))
    BY <2>2 DEF IsJoin, JoinAt
  <2> HIDE DEF join
  <2> QED
    BY <1>2, <2>1, <2>3
<1> QED
  BY <1>1, <1>2

\* Joining one sequence.
LEMMA FlattenOnly ==
    ASSUME NEW seqs, Len(seqs) = 1
    PROVE  FlattenSeq(seqs) = seqs[1]
<1>0. Len(seqs) \in Nat /\ Len(seqs) > 0
  OBVIOUS
<1>1. PICK f : IsJoin(f, seqs, Len(seqs)) /\ FlattenSeq(seqs) = f[Len(seqs)]
  BY <1>0, FlattenIs
<1> QED
  BY <1>1 DEF IsJoin, JoinAt

\* Joining one more sequence.
Extends(all, seqs, n) ==
    Len(seqs) = n /\ Len(all) = n + 1 /\ \A i \in 1 .. n : all[i] = seqs[i]

LEMMA FlattenExtends ==
    ASSUME NEW seqs, NEW all, NEW n \in Nat \ {0}, Extends(all, seqs, n)
    PROVE  FlattenSeq(all) = FlattenSeq(seqs) \o all[n + 1]
<1> DEFINE m == n + 1
<1>0. /\ m = n + 1 /\ Len(seqs) = n /\ Len(all) = m
      /\ \A i \in 1 .. n : all[i] = seqs[i]
  BY DEF Extends
<1> HIDE DEF m
<1>1. PICK f : IsJoin(f, all, m) /\ FlattenSeq(all) = f[m]
  BY <1>0, FlattenIs
<1>2. PICK g : IsJoin(g, seqs, n) /\ FlattenSeq(seqs) = g[n]
  BY <1>0, FlattenIs
<1>3. \A i \in 1 .. n : f[i] = g[i]
  <2>1. n \in Nat /\ m \in Nat /\ n <= m /\ n <= n
    BY <1>0
  <2> QED
    BY <1>0, <1>1, <1>2, <2>1, JoinsAgree
<1>4. f[n] = g[n] /\ m # 1 /\ m - 1 = n /\ m \in 1 .. m
  BY <1>0, <1>3
<1>5. f[m] = JoinAt(all, f, m)
  BY <1>1, <1>4 DEF IsJoin
<1>6. f[m] = g[n] \o all[m]
  BY <1>4, <1>5 DEF JoinAt
<1> QED
  BY <1>0, <1>1, <1>2, <1>6

\* One more sequence at the end.
LEMMA FlattenLast ==
    ASSUME NEW S, NEW seqs \in Seq(Seq(S)), NEW x \in Seq(S)
    PROVE  FlattenSeq(Append(seqs, x)) = FlattenSeq(seqs) \o x
<1>1. Len(seqs) \in Nat
  BY LenProperties
<1>2. CASE Len(seqs) = 0
  <2>1. seqs = <<>> /\ FlattenSeq(seqs) = <<>> /\ Append(seqs, x) = <<x>>
    BY <1>2, FlattenIs, EmptySeq
  <2> DEFINE one == <<x>>
  <2>2. Len(one) = 1 /\ one[1] = x
    OBVIOUS
  <2> HIDE DEF one
  <2>4. FlattenSeq(one) = x
    BY <2>2, FlattenOnly
  <2> QED
    BY <2>1, <2>4, ConcatEmptySeq DEF one
<1>3. CASE Len(seqs) # 0
  <2> DEFINE all == Append(seqs, x)
             n == Len(seqs)
  <2>1. /\ n \in Nat \ {0} /\ Len(all) = n + 1 /\ all[n + 1] = x
        /\ \A i \in 1 .. n : all[i] = seqs[i]
    BY <1>1, <1>3, AppendProperties
  <2>2. Extends(all, seqs, n)
    BY <2>1 DEF Extends
  <2> HIDE DEF all, n
  <2>3. FlattenSeq(all) = FlattenSeq(seqs) \o all[n + 1]
    BY <2>1, <2>2, FlattenExtends
  <2> QED
    BY <2>1, <2>3 DEF all
<1> QED
  BY <1>2, <1>3

\* No sequence at all.
LEMMA FlattenEmpty == FlattenSeq(<<>>) = <<>>
BY FlattenIs, EmptySeq

\* One sequence.
LEMMA FlattenOne ==
    ASSUME NEW S, NEW x \in Seq(S)
    PROVE  FlattenSeq(<<x>>) = x
<1>1. <<x>> = Append(<<>>, x) /\ <<>> \in Seq(Seq(S)) /\ <<>> \o x = x
  BY ConcatEmptySeq, EmptySeq
<1> QED
  BY <1>1, FlattenLast, FlattenEmpty

\* A sequence of sequences without its last one.
LEMMA LastOfMany ==
    ASSUME NEW S, NEW n \in Nat, NEW seqs \in Seq(S), Len(seqs) = n + 1
    PROVE  \E s \in Seq(S), x \in S : seqs = Append(s, x) /\ Len(s) = n
<1>1. seqs # <<>>
  BY EmptySeq
<1>2. PICK s \in Seq(S), x \in S : seqs = Append(s, x)
  BY <1>1, SequenceEmptyOrAppend
<1>3. Len(s) \in Nat /\ Len(seqs) = Len(s) + 1
  BY <1>2, AppendProperties, LenProperties
<1> QED
  BY <1>2, <1>3

\* What is joined is a sequence over the same set.
LEMMA FlattenType ==
    ASSUME NEW S, NEW seqs \in Seq(Seq(S))
    PROVE  FlattenSeq(seqs) \in Seq(S)
<1> DEFINE T == {n \in Nat : \A s \in Seq(Seq(S)) :
                    Len(s) = n => FlattenSeq(s) \in Seq(S)}
<1>1. 0 \in T
  BY EmptySeq, FlattenEmpty
<1>2. ASSUME NEW n \in Nat, n \in T PROVE n + 1 \in T
  <2> SUFFICES ASSUME NEW s \in Seq(Seq(S)), Len(s) = n + 1
               PROVE  FlattenSeq(s) \in Seq(S)
    OBVIOUS
  <2>1. PICK t \in Seq(Seq(S)), x \in Seq(S) : s = Append(t, x) /\ Len(t) = n
    BY LastOfMany
  <2>2. FlattenSeq(t) \in Seq(S)
    BY <1>2, <2>1
  <2> QED
    BY <2>1, <2>2, FlattenLast, ConcatProperties
<1> HIDE DEF T
<1>3. Len(seqs) \in T
  BY <1>1, <1>2, Induction, LenProperties
<1> QED
  BY <1>3 DEF T

\* Joining one more sequence in front: by induction on the others.
LEMMA FlattenFirstStep ==
    ASSUME NEW S, NEW x \in Seq(S), NEW y \in Seq(S), NEW t \in Seq(Seq(S)),
           FlattenSeq(<<x>> \o t) = x \o FlattenSeq(t)
    PROVE  FlattenSeq(<<x>> \o Append(t, y)) = x \o FlattenSeq(Append(t, y))
<1>1. <<x>> \in Seq(Seq(S)) /\ <<y>> \in Seq(Seq(S))
  OBVIOUS
<1>2. <<x>> \o t \in Seq(Seq(S))
  BY <1>1, ConcatProperties
<1>3. <<x>> \o Append(t, y) = Append(<<x>> \o t, y)
  <2>1. Append(t, y) = t \o <<y>> /\ Append(<<x>> \o t, y) = (<<x>> \o t) \o <<y>>
    BY <1>2, AppendIsConcat
  <2>2. (<<x>> \o t) \o <<y>> = <<x>> \o (t \o <<y>>)
    BY <1>1, ConcatAssociative
  <2> QED
    BY <2>1, <2>2
<1>4. FlattenSeq(<<x>> \o Append(t, y)) = (x \o FlattenSeq(t)) \o y
  BY <1>2, <1>3, FlattenLast
<1>5. FlattenSeq(t) \in Seq(S)
  BY FlattenType
<1>6. (x \o FlattenSeq(t)) \o y = x \o (FlattenSeq(t) \o y)
  BY <1>5, ConcatAssociative
<1> QED
  BY <1>4, <1>6, FlattenLast

\* One more sequence in front.
LEMMA FlattenFirst ==
    ASSUME NEW S, NEW seqs \in Seq(Seq(S)), NEW x \in Seq(S)
    PROVE  FlattenSeq(<<x>> \o seqs) = x \o FlattenSeq(seqs)
<1> DEFINE Joined(s) == FlattenSeq(<<x>> \o s) = x \o FlattenSeq(s)
           T == {n \in Nat : \A s \in Seq(Seq(S)) : Len(s) = n => Joined(s)}
<1>0. <<x>> \in Seq(Seq(S))
  OBVIOUS
<1>1. 0 \in T
  <2> SUFFICES ASSUME NEW s \in Seq(Seq(S)), Len(s) = 0
               PROVE  FlattenSeq(<<x>> \o s) = x \o FlattenSeq(s)
    OBVIOUS
  <2>1. s = <<>>
    BY EmptySeq
  <2>2. <<x>> \o s = <<x>> /\ x \o <<>> = x
    BY <1>0, <2>1, ConcatEmptySeq
  <2> QED
    BY <2>1, <2>2, FlattenOne, FlattenEmpty
<1>2. ASSUME NEW n \in Nat, n \in T PROVE n + 1 \in T
  <2> SUFFICES ASSUME NEW s \in Seq(Seq(S)), Len(s) = n + 1
               PROVE  Joined(s)
    <3> HIDE DEF Joined
    <3> QED
      OBVIOUS
  <2>1. PICK t \in Seq(Seq(S)), y \in Seq(S) : s = Append(t, y) /\ Len(t) = n
    BY LastOfMany
  <2>2. FlattenSeq(<<x>> \o t) = x \o FlattenSeq(t)
    BY <1>2, <2>1
  <2> QED
    BY <2>1, <2>2, FlattenFirstStep
<1> HIDE DEF T
<1>3. Len(seqs) \in T
  BY <1>1, <1>2, Induction, LenProperties
<1> QED
  BY <1>3 DEF T

=============================================================================
