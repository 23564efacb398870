-------------------------- MODULE CommandLoopsProofs --------------------------
(***************************************************************************)
(* Proofs about CommandLoops, for any limits and any lines.                *)
(*                                                                         *)
(* What the parsers do to the position and to the sizes of what they find  *)
(* is said once for each helper of TextReader; the lists of keys and of    *)
(* pairs need an argument about a function that is defined recursively     *)
(* (see KeysAre and PairsAre): were there a first place where it is not    *)
(* what it should be, the place before it would be one too.                *)
(*                                                                         *)
(* That a command is what the text has where it was read (Spells) is said  *)
(* once more for each of those helpers, from a single character on.        *)
(*                                                                         *)
(* That a line is read as what its author wrote is the converse: the text  *)
(* of the line is cut at its punctuation (Cut, KeysAt, PairsAt), and each  *)
(* helper is shown to stop at the cuts.                                    *)
(***************************************************************************)
EXTENDS CommandLines, SequenceLemmas

\* The end of the file is no character of it.
TextInv == text \in Seq(Character)

Place == 1 .. Job!End

\* Where a line begins, or the file ends.
InLine(p) == p = 1 \/ p = Job!End \/ text[p - 1] = "\n"

\* Where an accepted command may also have ended.
Stopped(p) == InLine(p) \/ text[p - 1] = Job!Nul

\* A result of a parser that was called at p.
Leaves(result, p) ==
    /\ result.pos \in p .. Job!End /\ Stopped(result.pos)
    /\ result.args = <<>> => InLine(result.pos)

\* What run_job and main of the client have room for.
String == {s \in Seq(Character) : Len(s) < MAX_STRING_SIZE}
Pair == String \X String

Room(op, args) ==
    /\ Len(args) < MAX_WRITE_SIZE
    /\ op = "WRITE" => args \in Seq(Pair)
    /\ op \in {"READ", "DELETE", "SUBSCRIBE", "UNSUBSCRIBE"} =>
          args \in Seq(String)

-----------------------------------------------------------------------------
(* Least elements. *)

\* Min of the community modules, which both parsers have, is that element.
LEMMA MinIsLeast ==
    ASSUME NEW S \in SUBSET Nat, S # {}
    PROVE  /\ Job!Min(S) \in S /\ \A n \in S : Job!Min(S) <= n
           /\ Client!Min(S) = Job!Min(S)
BY LeastNatural DEF Job!Min, Client!Min

-----------------------------------------------------------------------------
(* Words, and what strcpy takes of them. *)

\* Words over fewer symbols are words.
LEMMA WordsAre ==
    ASSUME NEW S, NEW T, S \subseteq T
    PROVE  Seq(S) \subseteq Seq(T)
<1> SUFFICES ASSUME NEW w \in Seq(S) PROVE w \in Seq(T)
  OBVIOUS
<1>1. w \in [1 .. Len(w) -> S] /\ Len(w) \in Nat
  BY LenProperties
<1>2. w \in [1 .. Len(w) -> T]
  BY <1>1
<1> QED
  BY <1>1, <1>2, SeqDef

\* A word without a '\0'.
Uncut(w) == \A i \in 1 .. Len(w) : w[i] # Job!Nul

\* A table of the first numbers is a sequence.
LEMMA TableIsSeq ==
    ASSUME NEW T, NEW m \in Nat, NEW f \in [1 .. m -> T]
    PROVE  f \in Seq(T) /\ Len(f) = m
BY SeqDef, LenProperties

\* What is copied of each string is a part of it, and all of it if there is no
\* '\0' in it.
LEMMA CopiedIs ==
    ASSUME NEW S, NEW strings \in Seq(Seq(S))
    PROVE  /\ Job!Copied(strings) \in Seq(Seq(S))
           /\ Len(strings) \in Nat /\ Len(Job!Copied(strings)) = Len(strings)
           /\ \A k \in 1 .. Len(strings) :
                 /\ Len(Job!Copied(strings)[k]) <= Len(strings[k])
                 /\ Uncut(strings[k]) => Job!Copied(strings)[k] = strings[k]
<1> DEFINE length(w) == Job!Min({n \in 0 .. Len(w) : n = Len(w) \/ w[n + 1] = Job!Nul})
           part(k) == SubSeq(strings[k], 1, length(strings[k]))
           copied == Job!Copied(strings)
<1>1. Len(strings) \in Nat /\ DOMAIN strings = 1 .. Len(strings)
  BY LenProperties
<1>2. copied = [k \in 1 .. Len(strings) |-> part(k)]
  BY <1>1 DEF Job!Copied
<1>3. ASSUME NEW w \in Seq(S)
      PROVE  length(w) \in 0 .. Len(w) /\ (Uncut(w) => length(w) = Len(w))
  <2> DEFINE Ends(n) == n = Len(w) \/ w[n + 1] = Job!Nul
             E == {n \in 0 .. Len(w) : Ends(n)}
  <2>1. Len(w) \in Nat
    BY LenProperties
  <2>2. E \in SUBSET Nat /\ Len(w) \in E
    BY <2>1
  <2>3. length(w) = Job!Min(E)
    OBVIOUS
  <2> HIDE DEF length
  <2>4. length(w) \in E
    <3> HIDE DEF E
    <3> QED
      BY <2>2, <2>3, MinIsLeast
  <2>5. ASSUME Uncut(w), NEW n \in 0 .. Len(w), Ends(n) PROVE n = Len(w)
    <3> SUFFICES ASSUME n # Len(w) PROVE FALSE
      OBVIOUS
    <3>1. n + 1 \in 1 .. Len(w)
      BY <2>1
    <3> QED
      BY <2>5, <3>1 DEF Uncut
  <2> HIDE DEF Ends
  <2> QED
    BY <2>4, <2>5
<1> HIDE DEF length, copied
<1>4. ASSUME NEW k \in 1 .. Len(strings)
      PROVE  /\ part(k) \in Seq(S) /\ Len(part(k)) <= Len(strings[k])
             /\ Uncut(strings[k]) => part(k) = strings[k]
  <2>1. strings[k] \in Seq(S)
    BY ElementOfSeq
  <2>2. PICK w \in Seq(S) : w = strings[k]
    BY <2>1
  <2>3. PICK n : n = length(w)
    OBVIOUS
  <2>4. n \in 0 .. Len(w) /\ (Uncut(w) => n = Len(w)) /\ Len(w) \in Nat
    BY <1>3, <2>3, LenProperties
  <2>5. \A i \in 1 .. n : w[i] \in S
    BY <2>4, ElementOfSeq
  <2>6. SubSeq(w, 1, n) \in Seq(S) /\ Len(SubSeq(w, 1, n)) = n
    BY <2>4, <2>5, SubSeqProperties
  <2>7. Uncut(w) => SubSeq(w, 1, n) = w
    BY <2>4, SubSeqFull
  <2>8. part(k) = SubSeq(w, 1, n)
    BY <2>2, <2>3
  <2> HIDE DEF part
  <2>9. part(k) \in Seq(S) /\ Len(part(k)) <= Len(strings[k])
    BY <2>2, <2>4, <2>6, <2>8
  <2> QED
    BY <2>2, <2>7, <2>8, <2>9
<1> HIDE DEF part
<1>5. copied \in [1 .. Len(strings) -> Seq(S)]
  BY <1>2, <1>4
<1>6. copied \in Seq(Seq(S)) /\ Len(copied) = Len(strings)
  BY <1>1, <1>5, TableIsSeq
<1>7. \A k \in 1 .. Len(strings) : copied[k] = part(k)
  BY <1>2
<1> QED
  BY <1>1, <1>4, <1>6, <1>7 DEF copied

\* Nothing is lost of strings without a '\0'.
LEMMA CopiedSame ==
    ASSUME NEW S, NEW strings \in Seq(Seq(S)),
           \A k \in 1 .. Len(strings) : Uncut(strings[k])
    PROVE  Job!Copied(strings) = strings
<1>1. /\ Job!Copied(strings) \in Seq(Seq(S)) /\ Len(Job!Copied(strings)) = Len(strings)
      /\ \A k \in 1 .. Len(strings) : Job!Copied(strings)[k] = strings[k]
  BY CopiedIs
<1> QED
  BY <1>1, SeqEqual

\* Short strings stay short,
LEMMA CopiedStrings ==
    ASSUME NEW strings \in Seq(String)
    PROVE  Job!Copied(strings) \in Seq(String) /\ Len(Job!Copied(strings)) = Len(strings)
<1> DEFINE copied == Job!Copied(strings)
<1>1. strings \in Seq(Seq(Character))
  BY WordsAre DEF String
<1>2. /\ copied \in Seq(Seq(Character)) /\ Len(strings) \in Nat
      /\ Len(copied) = Len(strings)
      /\ \A k \in 1 .. Len(strings) : Len(copied[k]) <= Len(strings[k])
  BY <1>1, CopiedIs
<1> HIDE DEF copied
<1>3. ASSUME NEW k \in 1 .. Len(strings) PROVE copied[k] \in String
  <2>1. strings[k] \in String /\ copied[k] \in Seq(Character)
    BY <1>2, ElementOfSeq
  <2>2. Len(strings[k]) \in Nat /\ Len(copied[k]) \in Nat /\ MAX_STRING_SIZE \in Nat
    BY <2>1, LenProperties, CommandLoopsAssumption DEF String
  <2>3. Len(copied[k]) <= Len(strings[k]) /\ Len(strings[k]) < MAX_STRING_SIZE
    BY <1>2, <2>1 DEF String
  <2> QED
    BY <2>1, <2>2, <2>3 DEF String
<1>4. copied \in [1 .. Len(strings) -> String]
  <2>1. DOMAIN copied = 1 .. Len(strings) /\ copied = [k \in DOMAIN copied |-> copied[k]]
    BY <1>2, LenProperties
  <2> QED
    BY <1>3, <2>1
<1> QED
  BY <1>2, <1>4, TableIsSeq DEF copied

\* and a pair stays a pair.
LEMMA CopiedPair ==
    ASSUME NEW pair \in Pair
    PROVE  Job!Copied(pair) \in Pair
<1>1. PICK k \in String, v \in String : pair = <<k, v>>
  BY DEF Pair
<1>2. <<k, v>> \in Seq(String) /\ Len(<<k, v>>) = 2
  OBVIOUS
<1> DEFINE copied == Job!Copied(<<k, v>>)
<1>3. copied \in Seq(String) /\ Len(copied) = 2
  BY <1>2, CopiedStrings
<1> HIDE DEF copied
<1>4. copied[1] \in String /\ copied[2] \in String
  BY <1>3, ElementOfSeq
<1>5. copied = <<copied[1], copied[2]>>
  <2> DEFINE both == <<copied[1], copied[2]>>
  <2>1. both \in Seq(String) /\ Len(both) = 2 /\ both[1] = copied[1] /\ both[2] = copied[2]
    BY <1>4
  <2> HIDE DEF both
  <2>2. \A i \in 1 .. 2 : both[i] = copied[i]
    BY <2>1
  <2>3. both = copied
    BY <1>3, <2>1, <2>2, SeqEqual
  <2> QED
    BY <2>3 DEF both
<1> QED
  BY <1>1, <1>4, <1>5 DEF copied, Pair

-----------------------------------------------------------------------------
(* The helpers of both parsers. *)

\* Reading inside the file finds a character, outside it the end of the file.
LEMMA Places ==
    ASSUME TextInv
    PROVE  /\ Job!End \in Nat \ {0} /\ Job!End = Len(text) + 1 /\ Place \subseteq Nat
           /\ \A p \in Place : p < Job!End => /\ Job!Char(p) = text[p]
                                              /\ text[p] \in Character
                                              /\ Job!Char(p) # Job!EndOfFile
           /\ \A p \in Nat : p >= Job!End => Job!Char(p) = Job!EndOfFile
<1>1. Len(text) \in Nat /\ \A p \in 1 .. Len(text) : text[p] \in Character
  BY ElementOfSeq, LenProperties DEF TextInv
<1> QED
  BY <1>1 DEF Place, Job!End, Job!Char, Character

\* Skipping k bytes stops at the end of the file.
LEMMA AfterIs ==
    ASSUME TextInv, NEW p \in Place, NEW k \in Nat
    PROVE  /\ Job!After(p, k) \in p .. Job!End
           /\ k > 0 /\ p < Job!End => Job!After(p, k) > p
           /\ p + k <= Job!End => Job!After(p, k) = p + k
           /\ p + k >= Job!End => Job!After(p, k) = Job!End
<1>1. Job!End \in Nat /\ p \in Nat /\ p <= Job!End
  BY Places DEF Place
<1>2. Job!After(p, k) \in {p + k, Job!End}
      /\ \A n \in {p + k, Job!End} : Job!After(p, k) <= n
  <2>1. {p + k, Job!End} \in SUBSET Nat /\ {p + k, Job!End} # {}
    BY <1>1
  <2> QED
    BY <2>1, MinIsLeast DEF Job!After
<1> QED
  BY <1>1, <1>2

\* cleanup stops where a line begins, and never goes back.
LEMMA CleanupIs ==
    ASSUME TextInv, NEW p \in Place
    PROVE  Job!cleanup(p) \in p .. Job!End /\ InLine(Job!cleanup(p))
<1> DEFINE S == {q \in p .. Job!End :
                    q = Job!End \/ (q > p /\ Job!Char(q - 1) = Job!Newline)}
<1>1. Job!End \in Nat /\ p \in Nat /\ p > 0 /\ p <= Job!End
  BY Places DEF Place
<1>2. S \in SUBSET Nat /\ Job!End \in S
  BY <1>1
<1>3. Job!Min(S) \in S
  <2> HIDE DEF S
  <2> QED
    BY <1>2, MinIsLeast
<1>4. ASSUME NEW q \in p .. Job!End, q > p, Job!Char(q - 1) = Job!Newline
      PROVE  text[q - 1] = "\n"
  <2>1. q - 1 \in Place /\ q - 1 < Job!End
    BY <1>1, <1>4 DEF Place
  <2> QED
    BY <1>4, <2>1, Places DEF Job!Newline
<1>5. Job!cleanup(p) = Job!Min(S)
  BY DEF Job!cleanup
<1> QED
  BY <1>3, <1>4, <1>5 DEF InLine

\* read_string stays in the file, and what a separator closes is short enough.
LEMMA ReadStringIs ==
    ASSUME TextInv, NEW p \in Place
    PROVE  /\ Job!read_string(p).pos \in p .. Job!End
           /\ Job!read_string(p).string \in Seq(Character)
           /\ Job!read_string(p).closed \in Job!Separators =>
                 Len(Job!read_string(p).string) < MAX_STRING_SIZE
<1> DEFINE Stops(q) == Job!Char(q) \in Job!Separators \cup {" ", Job!EndOfFile}
           S == {q \in p .. p + MAX_STRING_SIZE :
                    q = p + MAX_STRING_SIZE \/ Stops(q)}
           stop == Job!Min(S)
           full == stop = p + MAX_STRING_SIZE
<1>1. /\ Job!End \in Nat /\ p \in Nat /\ p > 0 /\ p <= Job!End
      /\ MAX_STRING_SIZE \in Nat /\ MAX_STRING_SIZE > 0
      /\ Len(text) \in Nat /\ Job!End = Len(text) + 1
  BY Places, CommandLoopsAssumption, LenProperties DEF Place, TextInv
<1>2. Stops(Job!End)
  <2>1. Job!Char(Job!End) = Job!EndOfFile
    BY <1>1, Places
  <2> QED
    BY <2>1, Zenon
<1>3. Job!read_string(p) =
        [string |-> SubSeq(text, p, stop - 1),
         closed |-> IF full THEN "full" ELSE Job!Char(stop),
         pos    |-> IF full THEN stop ELSE Job!After(stop, 1)]
  BY DEF Job!read_string
<1> HIDE DEF Stops
<1>4. S \in SUBSET Nat /\ p + MAX_STRING_SIZE \in S
  BY <1>1
<1>5. stop \in S /\ \A n \in S : stop <= n
  <2> HIDE DEF S
  <2> QED
    BY <1>4, MinIsLeast
<1>6. stop \in p .. p + MAX_STRING_SIZE
  BY <1>5
<1>7. stop <= Job!End
  <2>1. Job!End <= p + MAX_STRING_SIZE => Job!End \in S
    BY <1>1, <1>2
  <2> QED
    BY <1>1, <1>5, <1>6, <2>1
<1> HIDE DEF stop
<1>8. /\ SubSeq(text, p, stop - 1) \in Seq(Character)
      /\ Len(SubSeq(text, p, stop - 1)) = stop - p
  <2>1. \A i \in p .. stop - 1 : text[i] \in Character
    BY <1>1, <1>6, <1>7, ElementOfSeq DEF TextInv
  <2> QED
    BY <1>1, <1>6, <2>1, SubSeqProperties
<1>9. Job!After(stop, 1) \in stop .. Job!End
  <2>1. stop \in Place /\ 1 \in Nat
    BY <1>1, <1>6, <1>7 DEF Place
  <2> QED
    BY <2>1, AfterIs
<1>10. full => "full" \notin Job!Separators
  BY DEF Job!Separators
<1>11. Job!read_string(p).pos \in p .. Job!End
  BY <1>1, <1>3, <1>6, <1>7, <1>9
<1>12. ~full => Len(Job!read_string(p).string) < MAX_STRING_SIZE
  BY <1>1, <1>3, <1>6, <1>8
<1>13. full => Job!read_string(p).closed \notin Job!Separators
  BY <1>3, <1>10
<1> QED
  BY <1>3, <1>8, <1>11, <1>12, <1>13

\* Any part of the text before a place is a string.
LEMMA DigitsAre ==
    ASSUME TextInv, NEW p \in Place
    PROVE  LET stop == Job!Min({q \in p .. Job!End : Job!Char(q) \notin Job!Digits})
           IN  /\ stop \in p .. Job!End
               /\ SubSeq(text, p, stop - 1) \in Seq(Character)
<1> DEFINE S == {q \in p .. Job!End : Job!Char(q) \notin Job!Digits}
           stop == Job!Min(S)
<1>1. /\ Job!End \in Nat /\ p \in Nat /\ p > 0 /\ p <= Job!End
      /\ Len(text) \in Nat /\ Job!End = Len(text) + 1
  BY Places, LenProperties DEF Place, TextInv
<1>2. Job!Char(Job!End) \notin Job!Digits
  <2>1. Job!Char(Job!End) = Job!EndOfFile
    BY <1>1, Places
  <2>2. Job!EndOfFile \notin Job!Digits
    BY DEF Job!Digits, Job!EndOfFile
  <2> QED
    BY <2>1, <2>2
<1>3. S \in SUBSET Nat /\ Job!End \in S
  BY <1>1, <1>2
<1>4. stop \in S
  <2> HIDE DEF S
  <2> QED
    BY <1>3, MinIsLeast
<1> HIDE DEF stop
<1>5. stop \in p .. Job!End
  BY <1>4
<1>6. \A i \in p .. stop - 1 : text[i] \in Character
  BY <1>1, <1>5, ElementOfSeq DEF TextInv
<1>7. SubSeq(text, p, stop - 1) \in Seq(Character)
  BY <1>1, <1>5, <1>6, SubSeqProperties
<1> QED
  BY <1>5, <1>7 DEF stop

\* What a number may consist of.
Numeral == Seq(Character \cup Job!Digits)

\* More digits than the text has are a number's as well.
LEMMA DigitsMore ==
    ASSUME NEW w \in Seq(Character), NEW more \in Garbage \cup {<<>>}
    PROVE  w \o more \in Numeral
<1> DEFINE S == Character \cup Job!Digits
<1>1. w \in Seq(S)
  BY WordsAre
<1>2. more \in Seq(Job!Digits)
  BY CommandLoopsAssumption, EmptySeq
<1>3. more \in Seq(S)
  BY <1>2, WordsAre
<1>4. w \o more \in Seq(S)
  BY <1>1, <1>3, ConcatProperties
<1> QED
  BY <1>4 DEF Numeral

\* The digits that stand at p, and more of them if the file ends there.
Reads(n, p) ==
    LET stop == Job!Min({q \in p .. Job!End : Job!Char(q) \notin Job!Digits})
    IN  \E more \in Garbage \cup {<<>>} :
           /\ n.digits = SubSeq(text, p, stop - 1) \o more
           /\ n.next = Job!Char(stop) /\ n.pos = Job!After(stop, 1)
           /\ Job!Char(stop) # Job!EndOfFile => more = <<>>

\* read_uint consumes at least one byte, unless the file has ended.
LEMMA ReadUintIs ==
    ASSUME TextInv, NEW p \in Place, NEW n, Reads(n, p)
    PROVE  /\ n.digits \in Numeral /\ n.pos \in p .. Job!End
           /\ n.next \in {Job!Newline, Job!EndOfFile} => InLine(n.pos)
           /\ n.next = Job!Nul => Stopped(n.pos)
<1> DEFINE stop == Job!Min({q \in p .. Job!End : Job!Char(q) \notin Job!Digits})
<1>1. PICK more \in Garbage \cup {<<>>} :
         n.digits = SubSeq(text, p, stop - 1) \o more /\ n.next = Job!Char(stop)
         /\ n.pos = Job!After(stop, 1)
  BY DEF Reads
<1>2. stop \in p .. Job!End /\ n.digits \in Numeral
  BY <1>1, DigitsAre, DigitsMore
<1> HIDE DEF stop
<1>3. Job!End \in Nat /\ p \in Nat /\ stop \in Place /\ stop \in Nat /\ 1 \in Nat
  BY <1>2, Places DEF Place
<1>4. n.pos \in stop .. Job!End
      /\ (stop + 1 <= Job!End => n.pos = stop + 1)
      /\ (stop + 1 >= Job!End => n.pos = Job!End)
  BY <1>1, <1>3, AfterIs
<1>5. stop < Job!End => n.next = text[stop] /\ n.next # Job!EndOfFile
  BY <1>1, <1>3, Places
<1>6. stop = Job!End => n.pos = Job!End
  BY <1>3, <1>4
<1>7. ASSUME stop < Job!End PROVE text[n.pos - 1] = n.next
  BY <1>3, <1>4, <1>5, <1>7
<1>8. InLine(n.pos) => Stopped(n.pos)
  BY DEF Stopped
<1>9. n.next = Job!Nul => Stopped(n.pos)
  BY <1>2, <1>3, <1>6, <1>7 DEF InLine, Stopped
<1> QED
  BY <1>2, <1>3, <1>4, <1>5, <1>6, <1>7, <1>9 DEF InLine, Job!Newline

\* So each number is read.
LEMMA NumberReads ==
    ASSUME NEW p, NEW n \in Job!read_uint(p)
    PROVE  Reads(n, p)
<1> DEFINE stop == Job!Min({q \in p .. Job!End : Job!Char(q) \notin Job!Digits})
           beyond == IF Job!Char(stop) = Job!EndOfFile THEN Garbage ELSE {<<>>}
<1>1. PICK more \in beyond :
         n = [digits |-> SubSeq(text, p, stop - 1) \o more,
              next |-> Job!Char(stop), pos |-> Job!After(stop, 1)]
  BY DEF Job!read_uint
<1> HIDE DEF stop
<1>2. more \in Garbage \cup {<<>>} /\ (Job!Char(stop) # Job!EndOfFile => more = <<>>)
  OBVIOUS
<1>3. /\ n.digits = SubSeq(text, p, stop - 1) \o more
      /\ n.next = Job!Char(stop) /\ n.pos = Job!After(stop, 1)
  BY <1>1
<1> QED
  BY <1>2, <1>3 DEF Reads, stop

-----------------------------------------------------------------------------
(* The lists. *)

\* A function that is defined by its own earlier values exists, here the keys
\* of a list: were there a first place up to which it does not, one could be
\* continued to it.
LEMMA KeysExist ==
    ASSUME NEW p, NEW max \in Nat
    PROVE  \E key : key = [n \in 1 .. max |->
                            Job!read_string(IF n = 1 THEN p ELSE key[n - 1].pos)]
<1> DEFINE From(f, n) == IF n = 1 THEN p ELSE f[n - 1].pos
           Upto(m) == \E f : f = [n \in 1 .. m |-> Job!read_string(From(f, n))]
           Bad == {m \in Nat : ~Upto(m)}
<1> SUFFICES Bad = {}
  OBVIOUS
<1>1. Upto(0)
  <2> DEFINE f == [n \in 1 .. 0 |-> p]
  <2>1. f = [n \in 1 .. 0 |-> Job!read_string(From(f, n))]
    OBVIOUS
  <2> QED
    BY <2>1
<1>2. ASSUME NEW m \in Nat, Upto(m) PROVE Upto(m + 1)
  <2>1. PICK f : f = [n \in 1 .. m |-> Job!read_string(From(f, n))]
    BY <1>2
  <2> DEFINE g == [n \in 1 .. m + 1 |-> IF n <= m THEN f[n]
                                        ELSE Job!read_string(From(f, n))]
  <2>2. \A n \in 1 .. m + 1 : From(g, n) = From(f, n)
    OBVIOUS
  <2>3. \A n \in 1 .. m + 1 : g[n] = Job!read_string(From(g, n))
    BY <2>1, <2>2
  <2>4. g = [n \in 1 .. m + 1 |-> Job!read_string(From(g, n))]
    BY <2>3
  <2> QED
    BY <2>4
<1> HIDE DEF Upto
<1>3. ASSUME Bad # {} PROVE FALSE
  <2> HIDE DEF Bad
  <2>1. PICK m \in Bad : \A k \in Bad : m <= k
    <3>1. Bad \in SUBSET Nat
      BY DEF Bad
    <3> QED
      BY <1>3, <3>1, LeastNatural
  <2> USE DEF Bad
  <2>2. m \in Nat /\ m # 0 /\ m - 1 \in Nat /\ m - 1 \notin Bad
    BY <1>1, <2>1
  <2>3. Upto(m - 1 + 1) /\ m - 1 + 1 = m
    BY <1>2, <2>2
  <2> QED
    BY <2>1, <2>3
<1> QED
  BY <1>3

\* All keys of a list are read from inside the file, one behind the other.
LEMMA KeysAre ==
    ASSUME TextInv, NEW p \in Place, NEW max \in Nat, NEW key,
           key = [n \in 1 .. max |->
                    Job!read_string(IF n = 1 THEN p ELSE key[n - 1].pos)]
    PROVE  \A n \in 1 .. max :
              /\ key[n].pos \in p .. Job!End
              /\ key[n].string \in Seq(Character)
              /\ key[n].closed \in Job!Separators =>
                    Len(key[n].string) < MAX_STRING_SIZE
<1> DEFINE from(n) == IF n = 1 THEN p ELSE key[n - 1].pos
           Bad == {n \in 1 .. max : from(n) \notin p .. Job!End}
<1>1. Job!End \in Nat /\ p \in Nat /\ p > 0 /\ p <= Job!End
  BY Places DEF Place
<1>2. \A n \in 1 .. max : key[n] = Job!read_string(from(n))
  OBVIOUS
<1>3. ASSUME NEW n \in 1 .. max, from(n) \in p .. Job!End
      PROVE  /\ key[n].pos \in from(n) .. Job!End
             /\ key[n].pos \in p .. Job!End
             /\ key[n].string \in Seq(Character)
             /\ key[n].closed \in Job!Separators =>
                   Len(key[n].string) < MAX_STRING_SIZE
  <2>1. from(n) \in Place /\ key[n] = Job!read_string(from(n))
    BY <1>1, <1>2, <1>3 DEF Place
  <2> HIDE DEF from
  <2>2. key[n].pos \in from(n) .. Job!End
    BY <2>1, ReadStringIs
  <2>3. key[n].pos \in p .. Job!End
    BY <1>1, <1>3, <2>2
  <2> QED
    BY <2>1, <2>2, <2>3, ReadStringIs
<1>4. Bad = {}
  <2> SUFFICES ASSUME Bad # {} PROVE FALSE
    OBVIOUS
  <2>1. PICK n \in Bad : \A k \in Bad : n <= k
    <3>1. Bad \in SUBSET Nat
      OBVIOUS
    <3> HIDE DEF Bad
    <3> QED
      BY <3>1, LeastNatural
  <2>2. n \in 1 .. max /\ n # 1
    <3>1. from(1) \in p .. Job!End
      BY <1>1
    <3> QED
      BY <2>1, <3>1
  <2>3. n - 1 \in 1 .. max /\ n - 1 \notin Bad
    <3>1. n - 1 \in 1 .. max /\ ~(n <= n - 1)
      BY <2>2
    <3> HIDE DEF Bad
    <3> QED
      BY <2>1, <3>1
  <2>4. from(n) = key[n - 1].pos /\ from(n - 1) \in p .. Job!End
    BY <2>2, <2>3
  <2> HIDE DEF from
  <2> QED
    BY <1>3, <2>1, <2>3, <2>4
<1> HIDE DEF from
<1> QED
  BY <1>3, <1>4

\* A list has at least one key and at most max, each a string.
LEMMA KeyListIs ==
    ASSUME TextInv, NEW p \in Place, NEW max \in Nat \ {0}
    PROVE  /\ Job!KeyList(p, max).keys \in Seq(Seq(Character))
           /\ Len(Job!KeyList(p, max).keys) \in 1 .. max
           /\ Job!KeyList(p, max).pos \in p .. Job!End
           /\ Job!KeyList(p, max).closed \in {",", "]"} =>
                 \A i \in DOMAIN Job!KeyList(p, max).keys :
                    Len(Job!KeyList(p, max).keys[i]) < MAX_STRING_SIZE
<1> DEFINE key == CHOOSE key : key = [n \in 1 .. max |->
                     Job!read_string(IF n = 1 THEN p ELSE key[n - 1].pos)]
           More(k) == key[k].closed = ","
           S == {k \in 1 .. max : k = max \/ ~More(k)}
           n == Job!Min(S)
           keys == [k \in 1 .. n |-> key[k].string]
<1>0. max \in Nat /\ max >= 1
  OBVIOUS
<1>1. key = [k \in 1 .. max |->
               Job!read_string(IF k = 1 THEN p ELSE key[k - 1].pos)]
  BY <1>0, KeysExist
<1>2. Job!KeyList(p, max) =
        [keys |-> keys, closed |-> key[n].closed, pos |-> key[n].pos]
  BY DEF Job!KeyList
<1> HIDE DEF key
<1>3. \A k \in 1 .. max :
         /\ key[k].pos \in p .. Job!End /\ key[k].string \in Seq(Character)
         /\ key[k].closed \in Job!Separators =>
               Len(key[k].string) < MAX_STRING_SIZE
  BY <1>0, <1>1, KeysAre
<1> HIDE DEF More
<1>4. S \in SUBSET Nat /\ max \in S
  BY <1>0
<1>5. n \in S /\ \A k \in S : n <= k
  <2> HIDE DEF S
  <2> QED
    BY <1>4, MinIsLeast
<1>6. n \in 1 .. max /\ \A k \in 1 .. n - 1 : More(k)
  <2>1. n \in 1 .. max
    BY <1>5
  <2> QED
    BY <1>0, <1>5, <2>1
<1> HIDE DEF n
<1>7. keys \in Seq(Seq(Character)) /\ Len(keys) = n /\ DOMAIN keys = 1 .. n
  <2>1. n \in Nat /\ \A k \in 1 .. n : key[k].string \in Seq(Character)
    BY <1>0, <1>3, <1>6
  <2>2. keys \in [1 .. n -> Seq(Character)]
    BY <2>1
  <2> QED
    BY <2>1, <2>2, SeqDef, LenProperties
<1>8. \A k \in 1 .. n : k \in 1 .. max /\ (k = n \/ More(k))
  BY <1>0, <1>6
<1>9. ASSUME key[n].closed \in {",", "]"}, NEW k \in 1 .. n
      PROVE  Len(keys[k]) < MAX_STRING_SIZE
  <2>1. key[k].closed \in {",", "]"}
    BY <1>8, <1>9 DEF More
  <2>2. key[k].closed \in Job!Separators
    BY <2>1 DEF Job!Separators
  <2>3. k \in 1 .. max
    BY <1>8
  <2>4. Len(key[k].string) < MAX_STRING_SIZE
    BY <1>3, <2>2, <2>3
  <2> QED
    BY <2>4
<1> HIDE DEF keys
<1>10. /\ Job!KeyList(p, max).keys = keys
       /\ Job!KeyList(p, max).closed = key[n].closed
       /\ Job!KeyList(p, max).pos = key[n].pos
  BY <1>2
<1>11. key[n].pos \in p .. Job!End
  BY <1>3, <1>6
<1> QED
  BY <1>6, <1>7, <1>9, <1>10, <1>11

\* A rejected command leaves nothing, at the beginning of a line.
LEMMA RejectIs ==
    ASSUME TextInv, NEW p \in Place
    PROVE  Job!Reject(p).args = <<>> /\ Leaves(Job!Reject(p), p)
BY CleanupIs DEF Job!Reject, Job!Accept, Leaves, Stopped

\* So does one that was accepted but does not end its line.
LEMMA LineEndIs ==
    ASSUME TextInv, NEW p \in Place, NEW args, args # <<>>
    PROVE  /\ Job!LineEnd(args, p).args \in {<<>>, args}
           /\ Leaves(Job!LineEnd(args, p), p)
<1>1. Job!End \in Nat /\ p \in Nat /\ p > 0 /\ p <= Job!End /\ 1 \in Nat
  BY Places DEF Place
<1>2. /\ Job!After(p, 1) \in p .. Job!End
      /\ p + 1 <= Job!End => Job!After(p, 1) = p + 1
  BY <1>1, AfterIs
<1>3. CASE Job!Char(p) \in {Job!Newline, Job!Nul}
  <2>1. p < Job!End
    <3>1. Job!EndOfFile \notin {Job!Newline, Job!Nul}
      BY DEF Job!Newline, Job!Nul, Job!EndOfFile
    <3>2. p >= Job!End => Job!Char(p) = Job!EndOfFile
      BY <1>1, Places
    <3> QED
      BY <1>1, <1>3, <3>1, <3>2
  <2>2. text[p] \in {"\n", Job!Nul} /\ Job!After(p, 1) = p + 1
    BY <1>1, <1>2, <1>3, <2>1, Places DEF Job!Newline
  <2>3. Job!LineEnd(args, p) = [args |-> args, pos |-> p + 1]
    BY <1>3, <2>2 DEF Job!LineEnd, Job!Accept
  <2>4. p + 1 \in p .. Job!End /\ Stopped(p + 1)
    BY <1>1, <2>1, <2>2 DEF Stopped, InLine
  <2> QED
    BY <2>3, <2>4 DEF Leaves
<1>4. CASE Job!Char(p) \notin {Job!Newline, Job!Nul}
  <2>1. Job!After(p, 1) \in Place
    BY <1>1, <1>2 DEF Place
  <2>2. Job!LineEnd(args, p) = Job!Reject(Job!After(p, 1))
    BY <1>4 DEF Job!LineEnd
  <2>3. Leaves(Job!Reject(Job!After(p, 1)), Job!After(p, 1))
        /\ Job!Reject(Job!After(p, 1)).args = <<>>
    BY <2>1, RejectIs
  <2> QED
    BY <1>1, <1>2, <2>2, <2>3 DEF Leaves
<1> QED
  BY <1>3, <1>4

\* A pair is two strings, or the line has been skipped.
LEMMA ParsePairIs ==
    ASSUME TextInv, NEW p \in Place
    PROVE  /\ Job!parse_pair(p).pos \in p .. Job!End
           /\ Job!parse_pair(p).args # <<>> => Job!parse_pair(p).args \in Pair
<1> DEFINE key == Job!read_string(p)
           value == Job!read_string(key.pos)
<1>1. Job!End \in Nat /\ p \in Nat /\ p > 0 /\ p <= Job!End
  BY Places DEF Place
<1>2. key.pos \in p .. Job!End /\ key.string \in Seq(Character)
      /\ (key.closed \in Job!Separators => Len(key.string) < MAX_STRING_SIZE)
  BY ReadStringIs
<1>3. Job!parse_pair(p) =
        IF key.closed # "," THEN Job!Reject(key.pos)
        ELSE IF value.closed # ")" THEN Job!Reject(value.pos)
        ELSE Job!Accept(<<key.string, value.string>>, value.pos)
  BY DEF Job!parse_pair
<1> HIDE DEF key
<1>4. key.pos \in Place
  BY <1>1, <1>2 DEF Place
<1>5. value.pos \in key.pos .. Job!End /\ value.string \in Seq(Character)
      /\ (value.closed \in Job!Separators => Len(value.string) < MAX_STRING_SIZE)
  BY <1>4, ReadStringIs
<1> HIDE DEF value
<1>6. value.pos \in Place /\ value.pos \in p .. Job!End
  BY <1>1, <1>2, <1>5 DEF Place
<1>7. CASE key.closed # ","
  <2>1. Job!parse_pair(p) = Job!Reject(key.pos)
    BY <1>3, <1>7
  <2>2. Job!Reject(key.pos).args = <<>> /\ Job!Reject(key.pos).pos \in key.pos .. Job!End
    BY <1>4, RejectIs DEF Leaves
  <2> QED
    BY <1>1, <1>2, <2>1, <2>2
<1>8. CASE key.closed = "," /\ value.closed # ")"
  <2>1. Job!parse_pair(p) = Job!Reject(value.pos)
    BY <1>3, <1>8
  <2>2. Job!Reject(value.pos).args = <<>> /\ Job!Reject(value.pos).pos \in value.pos .. Job!End
    BY <1>6, RejectIs DEF Leaves
  <2> QED
    BY <1>1, <1>6, <2>1, <2>2
<1>9. CASE key.closed = "," /\ value.closed = ")"
  <2>1. Job!parse_pair(p) = [args |-> <<key.string, value.string>>, pos |-> value.pos]
    BY <1>3, <1>9 DEF Job!Accept
  <2>2. key.closed \in Job!Separators /\ value.closed \in Job!Separators
    BY <1>9 DEF Job!Separators
  <2>3. key.string \in String /\ value.string \in String
    BY <1>2, <1>5, <2>2 DEF String
  <2> QED
    BY <1>6, <2>1, <2>3 DEF Pair
<1> QED
  BY <1>7, <1>8, <1>9

\* As KeysExist, of the pairs of a WRITE.
LEMMA PairsExist ==
    ASSUME NEW p, NEW max \in Nat
    PROVE  \E pair : pair = [n \in 1 .. max |->
              Job!parse_pair(IF n = 1 THEN p ELSE Job!After(pair[n - 1].pos, 1))]
<1> DEFINE From(f, n) == IF n = 1 THEN p ELSE Job!After(f[n - 1].pos, 1)
           Upto(m) == \E f : f = [n \in 1 .. m |-> Job!parse_pair(From(f, n))]
           Bad == {m \in Nat : ~Upto(m)}
<1> SUFFICES Bad = {}
  OBVIOUS
<1>1. Upto(0)
  <2> DEFINE f == [n \in 1 .. 0 |-> p]
  <2>1. f = [n \in 1 .. 0 |-> Job!parse_pair(From(f, n))]
    OBVIOUS
  <2> QED
    BY <2>1
<1>2. ASSUME NEW m \in Nat, Upto(m) PROVE Upto(m + 1)
  <2>1. PICK f : f = [n \in 1 .. m |-> Job!parse_pair(From(f, n))]
    BY <1>2
  <2> DEFINE g == [n \in 1 .. m + 1 |-> IF n <= m THEN f[n]
                                        ELSE Job!parse_pair(From(f, n))]
  <2>2. \A n \in 1 .. m + 1 : From(g, n) = From(f, n)
    OBVIOUS
  <2>3. \A n \in 1 .. m + 1 : g[n] = Job!parse_pair(From(g, n))
    BY <2>1, <2>2
  <2>4. g = [n \in 1 .. m + 1 |-> Job!parse_pair(From(g, n))]
    BY <2>3
  <2> QED
    BY <2>4
<1> HIDE DEF Upto
<1>3. ASSUME Bad # {} PROVE FALSE
  <2> HIDE DEF Bad
  <2>1. PICK m \in Bad : \A k \in Bad : m <= k
    <3>1. Bad \in SUBSET Nat
      BY DEF Bad
    <3> QED
      BY <1>3, <3>1, LeastNatural
  <2> USE DEF Bad
  <2>2. m \in Nat /\ m # 0 /\ m - 1 \in Nat /\ m - 1 \notin Bad
    BY <1>1, <2>1
  <2>3. Upto(m - 1 + 1) /\ m - 1 + 1 = m
    BY <1>2, <2>2
  <2> QED
    BY <2>1, <2>3
<1> QED
  BY <1>3

\* As KeysAre, of the pairs of a WRITE.
LEMMA PairsAre ==
    ASSUME TextInv, NEW p \in Place, NEW max \in Nat, NEW pair,
           pair = [n \in 1 .. max |->
              Job!parse_pair(IF n = 1 THEN p ELSE Job!After(pair[n - 1].pos, 1))]
    PROVE  \A n \in 1 .. max :
              /\ pair[n].pos \in p .. Job!End
              /\ pair[n].args # <<>> => pair[n].args \in Pair
<1> DEFINE from(n) == IF n = 1 THEN p ELSE Job!After(pair[n - 1].pos, 1)
           Bad == {n \in 1 .. max : from(n) \notin p .. Job!End}
<1>1. Job!End \in Nat /\ p \in Nat /\ p > 0 /\ p <= Job!End /\ 1 \in Nat
  BY Places DEF Place
<1>2. \A n \in 1 .. max : pair[n] = Job!parse_pair(from(n))
  OBVIOUS
<1>3. ASSUME NEW n \in 1 .. max, from(n) \in p .. Job!End
      PROVE  /\ pair[n].pos \in p .. Job!End
             /\ Job!After(pair[n].pos, 1) \in p .. Job!End
             /\ pair[n].args # <<>> => pair[n].args \in Pair
  <2>1. from(n) \in Place /\ pair[n] = Job!parse_pair(from(n))
    BY <1>1, <1>2, <1>3 DEF Place
  <2> HIDE DEF from
  <2>2. pair[n].pos \in from(n) .. Job!End
    BY <2>1, ParsePairIs
  <2>3. pair[n].pos \in p .. Job!End /\ pair[n].pos \in Place
    BY <1>1, <1>3, <2>2 DEF Place
  <2>4. Job!After(pair[n].pos, 1) \in pair[n].pos .. Job!End
    BY <1>1, <2>3, AfterIs
  <2>5. Job!After(pair[n].pos, 1) \in p .. Job!End
    BY <1>1, <2>3, <2>4
  <2> QED
    BY <2>1, <2>3, <2>5, ParsePairIs
<1>4. Bad = {}
  <2> SUFFICES ASSUME Bad # {} PROVE FALSE
    OBVIOUS
  <2>1. PICK n \in Bad : \A k \in Bad : n <= k
    <3>1. Bad \in SUBSET Nat
      OBVIOUS
    <3> HIDE DEF Bad
    <3> QED
      BY <3>1, LeastNatural
  <2>2. n \in 1 .. max /\ n # 1
    <3>1. from(1) \in p .. Job!End
      BY <1>1
    <3> QED
      BY <2>1, <3>1
  <2>3. n - 1 \in 1 .. max /\ n - 1 \notin Bad
    <3>1. n - 1 \in 1 .. max /\ ~(n <= n - 1)
      BY <2>2
    <3> HIDE DEF Bad
    <3> QED
      BY <2>1, <3>1
  <2>4. from(n) = Job!After(pair[n - 1].pos, 1) /\ from(n - 1) \in p .. Job!End
    BY <2>2, <2>3
  <2> HIDE DEF from
  <2> QED
    BY <1>3, <2>1, <2>3, <2>4
<1> HIDE DEF from
<1> QED
  BY <1>3, <1>4

\* A list that is let through is shorter than the room there is.
LEMMA PairListIs ==
    ASSUME TextInv, NEW p \in Place
    PROVE  /\ Leaves(Job!pairs(p), p)
           /\ Room("WRITE", Job!pairs(p).args)
<1> DEFINE max == MAX_WRITE_SIZE
           pair == CHOOSE pair : pair = [n \in 1 .. max |->
              Job!parse_pair(IF n = 1 THEN p ELSE Job!After(pair[n - 1].pos, 1))]
           Final(k) == pair[k].args = <<>> \/ Job!Char(pair[k].pos) # "("
           S == {k \in 1 .. max : \/ k = max
                                  \/ pair[k].args = <<>> \/ Job!Char(pair[k].pos) # "("}
           n == Job!Min(S)
           list == [k \in 1 .. n |-> Job!Copied(pair[k].args)]
           next == Job!After(pair[n].pos, 1)
<1>1. max \in Nat /\ max > 1 /\ MAX_STRING_SIZE \in Nat
      /\ Job!End \in Nat /\ p \in Nat /\ p > 0 /\ p <= Job!End /\ 1 \in Nat
  BY Places, CommandLoopsAssumption DEF Place
<1>2. pair = [k \in 1 .. max |->
          Job!parse_pair(IF k = 1 THEN p ELSE Job!After(pair[k - 1].pos, 1))]
  <2>1. max \in Nat
    BY <1>1
  <2> HIDE DEF max
  <2> QED
    BY <2>1, PairsExist
<1>3. Job!pairs(p) =
        CASE pair[n].args = <<>> -> Job!Reject(pair[n].pos)
          [] /\ pair[n].args # <<>> /\ n < MAX_WRITE_SIZE
             /\ Job!Char(pair[n].pos) = "]" -> Job!LineEnd(list, next)
          [] OTHER -> Job!Reject(next)
  BY DEF Job!pairs
<1> HIDE DEF pair
<1>4. \A k \in 1 .. max : /\ pair[k].pos \in p .. Job!End
                          /\ pair[k].args # <<>> => pair[k].args \in Pair
  BY <1>1, <1>2, PairsAre
<1>5. S = {k \in 1 .. max : k = max \/ Final(k)}
  OBVIOUS
<1>6. ASSUME NEW k \in 1 .. max, ~Final(k) PROVE pair[k].args \in Pair
  BY <1>4, <1>6
<1> HIDE DEF Final
<1>7. S \in SUBSET Nat /\ max \in S
  BY <1>1, <1>5
<1>8. n \in S /\ \A k \in S : n <= k
  <2> HIDE DEF S
  <2> QED
    BY <1>7, MinIsLeast
<1> HIDE DEF n
<1>9. n \in 1 .. max /\ \A k \in 1 .. n - 1 : ~Final(k)
  <2>1. n \in 1 .. max
    BY <1>5, <1>8
  <2> QED
    BY <1>1, <1>5, <1>8, <2>1
<1>10. pair[n].pos \in p .. Job!End /\ pair[n].pos \in Place
  BY <1>1, <1>4, <1>9 DEF Place
<1>11. next \in pair[n].pos .. Job!End
  BY <1>1, <1>10, AfterIs
<1> HIDE DEF next, list
<1>12. next \in p .. Job!End /\ next \in Place
  BY <1>1, <1>10, <1>11 DEF Place
<1>13. ASSUME NEW q \in Place, q \in p .. Job!End, Job!pairs(p) = Job!Reject(q)
       PROVE  Leaves(Job!pairs(p), p) /\ Room("WRITE", Job!pairs(p).args)
  <2>1. Job!pairs(p).args = <<>> /\ Leaves(Job!pairs(p), q)
    BY <1>13, RejectIs
  <2>2. Leaves(Job!pairs(p), p)
    BY <1>1, <1>13, <2>1 DEF Leaves
  <2> QED
    BY <1>1, <2>1, <2>2 DEF Room
<1>14. CASE pair[n].args = <<>>
  BY <1>3, <1>10, <1>13, <1>14
<1>15. CASE /\ pair[n].args # <<>> /\ n < MAX_WRITE_SIZE
            /\ Job!Char(pair[n].pos) = "]"
  <2>1. Job!pairs(p) = Job!LineEnd(list, next)
    BY <1>3, <1>15
  <2>4. \A k \in 1 .. n : pair[k].args \in Pair
    <3>1. ASSUME NEW k \in 1 .. n PROVE k = n \/ (k \in 1 .. max /\ ~Final(k))
      BY <1>1, <1>9
    <3> QED
      BY <1>4, <1>6, <1>9, <1>15, <3>1
  <2>5. n \in Nat /\ list \in [1 .. n -> Pair]
    BY <1>9, <2>4, CopiedPair DEF list
  <2>6. list \in Seq(Pair) /\ Len(list) = n
    BY <2>5, SeqDef, LenProperties
  <2>7. list # <<>>
    BY <1>1, <1>9, <2>6
  <2>2. Leaves(Job!pairs(p), next) /\ Job!pairs(p).args \in {<<>>, list}
    BY <1>12, <2>1, <2>7, LineEndIs
  <2>3. Leaves(Job!pairs(p), p)
    BY <1>1, <1>12, <2>2 DEF Leaves
  <2> QED
    <3>1. CASE Job!pairs(p).args = <<>>
      BY <1>1, <2>3, <3>1 DEF Room
    <3>2. CASE Job!pairs(p).args = list
      BY <1>9, <1>15, <2>3, <2>6, <3>2 DEF Room
    <3> QED
      BY <2>2, <3>1, <3>2
<1>16. CASE /\ pair[n].args # <<>>
            /\ ~(n < MAX_WRITE_SIZE /\ Job!Char(pair[n].pos) = "]")
  <2>1. Job!pairs(p) = Job!Reject(next)
    BY <1>3, <1>16
  <2> QED
    BY <1>12, <1>13, <2>1
<1> QED
  BY <1>14, <1>15, <1>16

-----------------------------------------------------------------------------
(* The commands of a job file. *)

\* What a parser leaves behind a later position it leaves behind an earlier one.
LEMMA LeavesLater ==
    ASSUME TextInv, NEW p \in Place, NEW q \in p .. Job!End, NEW result,
           Leaves(result, q)
    PROVE  Leaves(result, p)
BY Places DEF Leaves, Place

\* A WRITE leaves a place where a line begins, and room for its pairs.
LEMMA ParseWriteIs ==
    ASSUME TextInv, NEW p \in Place
    PROVE  /\ Leaves(Job!parse_write(p), p)
           /\ Room("WRITE", Job!parse_write(p).args)
<1>1. Job!End \in Nat /\ p \in Nat /\ p > 0 /\ p <= Job!End /\ 1 \in Nat
      /\ MAX_WRITE_SIZE \in Nat /\ MAX_WRITE_SIZE > 1
  BY Places, CommandLoopsAssumption DEF Place
<1>2. \A q \in Nat : q >= Job!End => Job!Char(q) \notin {"[", "("}
  <2>1. Job!EndOfFile \notin {"[", "("}
    BY DEF Job!EndOfFile
  <2> QED
    BY <2>1, Places
<1>3. ASSUME NEW q \in Place, q >= p, Job!parse_write(p) = Job!Reject(Job!After(q, 1))
      PROVE  Leaves(Job!parse_write(p), p) /\ Room("WRITE", Job!parse_write(p).args)
  <2>1. Job!After(q, 1) \in q .. Job!End /\ q \in Nat
    BY <1>1, AfterIs, Places
  <2>2. Job!After(q, 1) \in Place
    BY <1>1, <1>3, <2>1 DEF Place
  <2>3. Job!parse_write(p).args = <<>> /\ Leaves(Job!parse_write(p), Job!After(q, 1))
    BY <1>3, <2>2, RejectIs
  <2>4. Leaves(Job!parse_write(p), p)
    BY <1>1, <1>3, <2>1, <2>3 DEF Leaves
  <2> QED
    BY <1>1, <2>3, <2>4 DEF Room
<1>4. CASE Job!Char(p) # "["
  <2>1. Job!parse_write(p) = Job!Reject(Job!After(p, 1))
    BY <1>4 DEF Job!parse_write
  <2> QED
    BY <1>1, <1>3, <2>1
<1>5. CASE Job!Char(p) = "[" /\ Job!Char(p + 1) # "("
  <2>1. Job!parse_write(p) = Job!Reject(Job!After(p + 1, 1))
    BY <1>5 DEF Job!parse_write
  <2>2. p < Job!End
    BY <1>1, <1>2, <1>5
  <2>3. p + 1 \in Place /\ p + 1 >= p
    BY <1>1, <2>2 DEF Place
  <2> QED
    BY <1>3, <2>1, <2>3
<1>6. CASE Job!Char(p) = "[" /\ Job!Char(p + 1) = "("
  <2>1. Job!parse_write(p) = Job!pairs(p + 2)
    BY <1>6 DEF Job!parse_write
  <2>2. p + 1 < Job!End
    BY <1>1, <1>2, <1>6
  <2>3. p + 2 \in Place
    BY <1>1, <2>2 DEF Place
  <2>4. Leaves(Job!parse_write(p), p + 2) /\ Room("WRITE", Job!parse_write(p).args)
    BY <2>1, <2>3, PairListIs
  <2> QED
    BY <1>1, <2>4 DEF Leaves
<1> QED
  BY <1>4, <1>5, <1>6

\* The list of keys behind a "[".
LEMMA ListIs ==
    ASSUME TextInv, NEW p \in Place, Job!Char(p) = "[", NEW max \in Nat \ {0}
    PROVE  LET list == Job!KeyList(p + 1, max)
           IN  /\ p + 1 \in Place
               /\ list.pos \in p .. Job!End /\ list.pos \in Place
               /\ Len(list.keys) \in 1 .. max
               /\ list.closed \in {",", "]"} => list.keys \in Seq(String)
<1> DEFINE list == Job!KeyList(p + 1, max)
<1>1. Job!End \in Nat /\ p \in Nat /\ p > 0 /\ p <= Job!End
  BY Places DEF Place
<1>2. p + 1 \in Place
  <2>1. Job!EndOfFile # "["
    BY DEF Job!EndOfFile
  <2>2. p < Job!End
    BY <1>1, <2>1, Places
  <2> QED
    BY <1>1, <2>2 DEF Place
<1>3. /\ list.keys \in Seq(Seq(Character)) /\ Len(list.keys) \in 1 .. max
      /\ list.pos \in p + 1 .. Job!End
      /\ list.closed \in {",", "]"} =>
            \A i \in DOMAIN list.keys : Len(list.keys[i]) < MAX_STRING_SIZE
  BY <1>2, KeyListIs
<1> HIDE DEF list
<1>4. list.pos \in p .. Job!End /\ list.pos \in Place
  <2>1. ASSUME NEW q \in p + 1 .. Job!End PROVE q \in p .. Job!End /\ q \in Place
    BY <1>1 DEF Place
  <2> QED
    BY <1>3, <2>1
<1>5. ASSUME list.closed \in {",", "]"} PROVE list.keys \in Seq(String)
  <2>1. Len(list.keys) \in Nat /\ list.keys \in [1 .. Len(list.keys) -> Seq(Character)]
        /\ DOMAIN list.keys = 1 .. Len(list.keys)
    BY <1>3, LenProperties
  <2>2. \A i \in 1 .. Len(list.keys) : list.keys[i] \in String
    BY <1>3, <1>5, <2>1 DEF String
  <2>3. list.keys \in [1 .. Len(list.keys) -> String]
    BY <2>1, <2>2
  <2> QED
    BY <2>1, <2>3, SeqDef
<1> QED
  BY <1>2, <1>3, <1>4, <1>5 DEF list

\* What there is room for: few keys, each short enough.
Few(args) == args \in Seq(String) /\ Len(args) < MAX_WRITE_SIZE

\* So does a READ or a DELETE, for its keys.
LEMMA ParseReadDeleteIs ==
    ASSUME TextInv, NEW p \in Place
    PROVE  /\ Leaves(Job!parse_read_delete(p), p)
           /\ Few(Job!parse_read_delete(p).args)
<1> DEFINE list == Job!KeyList(p + 1, MAX_WRITE_SIZE)
<1>1. Job!End \in Nat /\ p \in Nat /\ p > 0 /\ p <= Job!End /\ 1 \in Nat
      /\ MAX_WRITE_SIZE \in Nat \ {0} /\ MAX_WRITE_SIZE > 1
  BY Places, CommandLoopsAssumption DEF Place
<1>2. Job!parse_read_delete(p) =
        CASE Job!Char(p) # "[" -> Job!Reject(Job!After(p, 1))
          [] Job!Char(p) = "[" /\ list.closed \notin {",", "]"} -> Job!Reject(list.pos)
          [] Job!Char(p) = "[" /\ Len(list.keys) = MAX_WRITE_SIZE ->
               Job!Reject(list.pos)
          [] OTHER -> Job!LineEnd(Job!Copied(list.keys), list.pos)
  BY DEF Job!parse_read_delete
<1>3. ASSUME NEW q \in Place, q \in p .. Job!End,
             Job!parse_read_delete(p) = Job!Reject(q)
      PROVE  Leaves(Job!parse_read_delete(p), p) /\ Few(Job!parse_read_delete(p).args)
  <2>1. Job!parse_read_delete(p).args = <<>> /\ Leaves(Job!parse_read_delete(p), q)
    BY <1>3, RejectIs
  <2>2. Leaves(Job!parse_read_delete(p), p)
    BY <1>1, <1>3, <2>1 DEF Leaves
  <2> QED
    BY <1>1, <2>1, <2>2 DEF Few
<1>4. CASE Job!Char(p) # "["
  <2>1. Job!After(p, 1) \in p .. Job!End
    BY <1>1, AfterIs
  <2>2. Job!After(p, 1) \in Place
    BY <1>1, <2>1 DEF Place
  <2> QED
    BY <1>2, <1>3, <1>4, <2>1, <2>2
<1>5. CASE Job!Char(p) = "["
  <2>1. /\ list.pos \in p .. Job!End /\ list.pos \in Place
        /\ Len(list.keys) \in 1 .. MAX_WRITE_SIZE
        /\ list.closed \in {",", "]"} => list.keys \in Seq(String)
    BY <1>1, <1>5, ListIs
  <2> HIDE DEF list
  <2>2. Len(list.keys) \in 1 .. MAX_WRITE_SIZE
    BY <2>1, Zenon
  <2>3. Len(list.keys) # 0
    BY <1>1, <2>2
  <2>4. CASE list.closed \notin {",", "]"}
    BY <1>2, <1>3, <1>5, <2>1, <2>4
  <2>5. CASE list.closed \in {",", "]"} /\ Len(list.keys) = MAX_WRITE_SIZE
    BY <1>2, <1>3, <1>5, <2>1, <2>5
  <2>6. CASE list.closed \in {",", "]"} /\ Len(list.keys) # MAX_WRITE_SIZE
    <3>0. PICK keys : keys = Job!Copied(list.keys)
      OBVIOUS
    <3>1. Job!parse_read_delete(p) = Job!LineEnd(keys, list.pos)
      BY <1>2, <1>5, <2>6, <3>0, Zenon
    <3>6. keys \in Seq(String) /\ Len(keys) = Len(list.keys)
      BY <2>1, <2>6, <3>0, CopiedStrings
    <3>7. keys # <<>>
      <4>1. Len(keys) # 0
        BY <2>3, <3>6, Zenon
      <4> QED
        BY <4>1
    <3>2. Leaves(Job!parse_read_delete(p), list.pos)
          /\ Job!parse_read_delete(p).args \in {<<>>, keys}
      BY <2>1, <3>1, <3>7, LineEndIs
    <3>3. Leaves(Job!parse_read_delete(p), p)
      BY <2>1, <3>2, LeavesLater
    <3>4. Few(<<>>)
      BY <1>1 DEF Few
    <3>5. Few(keys)
      <4>1. ASSUME NEW k \in 1 .. MAX_WRITE_SIZE, k # MAX_WRITE_SIZE
            PROVE  k < MAX_WRITE_SIZE
        BY <1>1, <4>1
      <4> QED
        BY <2>1, <2>6, <3>6, <4>1 DEF Few
    <3> QED
      BY <3>2, <3>3, <3>4, <3>5
  <2> QED
    BY <2>4, <2>5, <2>6
<1> QED
  BY <1>4, <1>5

\* A number, as it is written.
Single(args) == args \in Seq(Numeral) /\ Len(args) <= 1

\* What may end it.
Ends == {Job!Newline, Job!Nul, Job!EndOfFile}

\* What parse_wait makes of it.
WaitResult(result, n) ==
    \/ result = [args |-> <<n.digits>>, pos |-> Job!cleanup(n.pos)] /\ n.next = " "
    \/ result = [args |-> <<n.digits>>, pos |-> n.pos] /\ n.next \in Ends
    \/ result = Job!Reject(n.pos)

LEMMA WaitCases ==
    ASSUME NEW n,
           NEW result,
           result = CASE Job!Fits(n) /\ n.next = " " ->
                           Job!Accept(<<n.digits>>, Job!cleanup(n.pos))
                      [] Job!Fits(n) /\ n.next \in Ends ->
                           Job!Accept(<<n.digits>>, n.pos)
                      [] OTHER -> Job!Reject(n.pos)
    PROVE  WaitResult(result, n)
<1>1. CASE Job!Fits(n) /\ n.next = " "
  <2>1. " " \notin Ends
    BY DEF Ends, Job!Newline, Job!Nul, Job!EndOfFile
  <2> QED
    BY <1>1, <2>1 DEF Job!Accept, WaitResult
<1>2. CASE Job!Fits(n) /\ n.next \in Ends /\ n.next # " "
  BY <1>2 DEF Job!Accept, WaitResult
<1>3. CASE ~(Job!Fits(n) /\ n.next = " ") /\ ~(Job!Fits(n) /\ n.next \in Ends)
  BY <1>3 DEF WaitResult
<1> QED
  BY <1>1, <1>2, <1>3

\* A WAIT that is accepted has one number, and the rest of its line is skipped.
LEMMA ParseWaitIs ==
    ASSUME TextInv, NEW p \in Place, NEW result \in Job!parse_wait(p)
    PROVE  Leaves(result, p) /\ Single(result.args)
<1>1. Job!End \in Nat /\ p \in Nat /\ p > 0 /\ p <= Job!End
  BY Places DEF Place
<1>2. PICK n \in Job!read_uint(p) :
         result = CASE Job!Fits(n) /\ n.next = " " ->
                         Job!Accept(<<n.digits>>, Job!cleanup(n.pos))
                    [] Job!Fits(n) /\ n.next \in Ends ->
                         Job!Accept(<<n.digits>>, n.pos)
                    [] OTHER -> Job!Reject(n.pos)
  BY DEF Job!parse_wait, Ends
<1>3. /\ n.digits \in Numeral /\ n.pos \in p .. Job!End
      /\ n.next \in Ends => Stopped(n.pos)
  BY NumberReads, ReadUintIs DEF Ends, Stopped
<1>4. n.pos \in Place
  BY <1>1, <1>3 DEF Place
<1>5. /\ Job!cleanup(n.pos) \in n.pos .. Job!End /\ Stopped(Job!cleanup(n.pos))
      /\ Job!Reject(n.pos).args = <<>> /\ Leaves(Job!Reject(n.pos), n.pos)
  BY <1>4, CleanupIs, RejectIs DEF Stopped
<1>6. Single(<<n.digits>>) /\ Single(<<>>) /\ <<n.digits>> # <<>>
  BY <1>3 DEF Single
<1>7. WaitResult(result, n)
  BY <1>2, WaitCases
<1>8. CASE result = [args |-> <<n.digits>>, pos |-> Job!cleanup(n.pos)]
  BY <1>1, <1>3, <1>5, <1>6, <1>8 DEF Leaves
<1>9. CASE result = [args |-> <<n.digits>>, pos |-> n.pos] /\ n.next \in Ends
  BY <1>1, <1>3, <1>6, <1>9 DEF Leaves
<1>10. CASE result = Job!Reject(n.pos)
  <2>1. Leaves(result, p)
    BY <1>3, <1>5, <1>10, LeavesLater
  <2> QED
    BY <1>5, <1>6, <1>10, <2>1
<1> QED
  BY <1>7, <1>8, <1>9, <1>10 DEF WaitResult

-----------------------------------------------------------------------------
(* What get_next returns. *)

\* A token found at p: something has been read, and behind a command without
\* arguments a line begins.
Found(token, p) ==
    /\ token.pos \in p + 1 .. Job!End
    /\ token.cmd \in {"SHOW", "BACKUP", "HELP", "DISCONNECT", "EMPTY", "INVALID"} =>
          InLine(token.pos)

\* The tokens of get_next, one by one.
LEMMA InvalidIs ==
    ASSUME TextInv, NEW p \in Place, NEW q \in Place, q > p
    PROVE  Job!Invalid(q).cmd = "INVALID" /\ Found(Job!Invalid(q), p)
<1>1. /\ Job!End \in Nat /\ p \in Nat /\ q \in Nat
      /\ Job!cleanup(q) \in q .. Job!End /\ InLine(Job!cleanup(q))
  BY Places, CleanupIs DEF Place
<1>2. Job!Invalid(q) = [cmd |-> "INVALID", pos |-> Job!cleanup(q)]
  BY DEF Job!Invalid, Job!Token
<1> QED
  BY <1>1, <1>2 DEF Found

\* A comment is skipped with its line.
LEMMA CommentIs ==
    ASSUME TextInv, NEW p \in Place, p < Job!End
    PROVE  /\ Job!Token("EMPTY", Job!cleanup(p + 1)).cmd = "EMPTY"
           /\ Found(Job!Token("EMPTY", Job!cleanup(p + 1)), p)
<1>1. Job!End \in Nat /\ p \in Nat /\ p + 1 \in Place
  BY Places DEF Place
<1>2. Job!cleanup(p + 1) \in p + 1 .. Job!End /\ InLine(Job!cleanup(p + 1))
  BY <1>1, CleanupIs
<1> QED
  BY <1>2 DEF Job!Token, Found

\* An empty line is its newline.
LEMMA EmptyLineIs ==
    ASSUME TextInv, NEW p \in Place, Job!Char(p) = Job!Newline
    PROVE  /\ Job!Token("EMPTY", p + 1).cmd = "EMPTY"
           /\ Found(Job!Token("EMPTY", p + 1), p)
<1>1. Job!End \in Nat /\ p \in Nat /\ p > 0 /\ p <= Job!End
  BY Places DEF Place
<1>2. Job!EndOfFile # Job!Newline
  BY DEF Job!Newline, Job!EndOfFile
<1>3. p < Job!End
  BY <1>1, <1>2, Places
<1>4. text[p] = "\n"
  BY <1>3, Places DEF Job!Newline
<1> QED
  BY <1>1, <1>3, <1>4 DEF Job!Token, Found, InLine

\* A keyword with arguments is consumed, or its line is.
LEMMA KeywordIs ==
    ASSUME TextInv, NEW p \in Place, p < Job!End, NEW cmd, NEW word,
           Len(word) \in Nat \ {0},
           cmd \notin {"SHOW", "BACKUP", "HELP", "DISCONNECT", "EMPTY", "INVALID"}
    PROVE  /\ Job!Keyword(word, cmd, p).cmd \in {cmd, "INVALID"}
           /\ Found(Job!Keyword(word, cmd, p), p)
<1>1. Job!End \in Nat /\ p \in Nat /\ Len(word) \in Nat /\ Len(word) > 0
  BY Places DEF Place
<1>2. CASE Job!Starts(p, word)
  <2>1. p + Len(word) <= Job!End
    BY <1>2 DEF Job!Starts
  <2>2. Job!Keyword(word, cmd, p) = [cmd |-> cmd, pos |-> p + Len(word)]
    BY <1>2 DEF Job!Keyword, Job!Token
  <2>3. p + Len(word) \in p + 1 .. Job!End
    BY <1>1, <2>1
  <2> QED
    BY <2>2, <2>3 DEF Found
<1>3. CASE ~Job!Starts(p, word)
  <2>1. /\ Job!After(p, Len(word)) \in p .. Job!End
        /\ Job!After(p, Len(word)) > p
    BY <1>1, AfterIs
  <2>2. Job!After(p, Len(word)) \in Place
    BY <1>1, <2>1 DEF Place
  <2>3. Job!Keyword(word, cmd, p) = Job!Invalid(Job!After(p, Len(word)))
    BY <1>3 DEF Job!Keyword
  <2> QED
    BY <2>1, <2>2, <2>3, InvalidIs
<1> QED
  BY <1>2, <1>3

\* A keyword alone is consumed with its line.
LEMMA AloneIs ==
    ASSUME TextInv, NEW p \in Place, p < Job!End, NEW cmd, NEW word,
           Len(word) \in Nat \ {0}
    PROVE  /\ Job!Alone(word, cmd, p).cmd \in {cmd, "INVALID"}
           /\ Found(Job!Alone(word, cmd, p), p)
<1> DEFINE q == p + Len(word)
           over == Len(word) + IF Job!Starts(p, word) THEN 1 ELSE 0
<1>1. Job!End \in Nat /\ p \in Nat /\ p > 0 /\ Len(word) \in Nat /\ Len(word) > 0
      /\ 1 \in Nat /\ over \in Nat /\ over > 0
  BY Places DEF Place
<1>2. CASE Job!Starts(p, word) /\ Job!Char(q) \in {Job!Newline, Job!EndOfFile}
  <2>1. q \in Place /\ q > p
    BY <1>1, <1>2 DEF Job!Starts, Place
  <2>2. Job!Alone(word, cmd, p) = [cmd |-> cmd, pos |-> Job!After(q, 1)]
    BY <1>2 DEF Job!Alone, Job!Token
  <2> HIDE DEF q
  <2>3. /\ Job!After(q, 1) \in q .. Job!End
        /\ q + 1 <= Job!End => Job!After(q, 1) = q + 1
        /\ q + 1 >= Job!End => Job!After(q, 1) = Job!End
    BY <1>1, <2>1, AfterIs
  <2>4. q \in Nat /\ Job!After(q, 1) \in p + 1 .. Job!End
    BY <1>1, <2>1, <2>3, Places
  <2>5. InLine(Job!After(q, 1))
    <3>1. CASE q < Job!End
      <4>1. text[q] = "\n"
        BY <1>2, <2>1, <3>1, Places DEF Job!Newline
      <4>2. Job!After(q, 1) - 1 = q
        BY <1>1, <2>3, <2>4, <3>1
      <4> QED
        BY <4>1, <4>2 DEF InLine
    <3>2. CASE q >= Job!End
      BY <1>1, <2>3, <2>4, <3>2 DEF InLine
    <3> QED
      BY <1>1, <2>4, <3>1, <3>2
  <2> QED
    BY <2>2, <2>4, <2>5 DEF Found
<1>3. CASE ~(Job!Starts(p, word) /\ Job!Char(q) \in {Job!Newline, Job!EndOfFile})
  <2>1. Job!Alone(word, cmd, p) = Job!Invalid(Job!After(p, over))
    BY <1>3 DEF Job!Alone
  <2> HIDE DEF over, q
  <2>2. Job!After(p, over) \in p .. Job!End /\ Job!After(p, over) > p
    BY <1>1, AfterIs
  <2>3. Job!After(p, over) \in Place
    BY <1>1, <2>2 DEF Place
  <2> QED
    BY <2>1, <2>2, <2>3, InvalidIs
<1> QED
  BY <1>2, <1>3

JobOps == {"WRITE", "READ", "DELETE", "WAIT", "SHOW", "BACKUP", "HELP", "EMPTY",
           "INVALID"}

\* get_next of the server reads something unless the file has ended.
LEMMA JobTokenIs ==
    ASSUME TextInv, NEW p \in Place
    PROVE  \/ Job!get_next(p).cmd = "EOC"
           \/ /\ Job!get_next(p).cmd \in JobOps
              /\ Found(Job!get_next(p), p)
<1> DEFINE t == Job!get_next(p)
           Finds(token) == token.cmd \in JobOps /\ Found(token, p)
<1> SUFFICES ASSUME Job!Char(p) # Job!EndOfFile PROVE Finds(Job!Command(p))
  <2>1. CASE Job!Char(p) = Job!EndOfFile
    BY <2>1 DEF Job!get_next, Job!Token
  <2>2. CASE Job!Char(p) # Job!EndOfFile
    BY <2>2 DEF Job!get_next
  <2> QED
    BY <2>1, <2>2
<1>1. Job!End \in Nat /\ p \in Nat /\ p <= Job!End /\ 1 \in Nat
  BY Places DEF Place
<1>2. p < Job!End
  BY <1>1, Places
<1>3. Finds(Job!Invalid(Job!After(p, 1)))
  <2>1. Job!After(p, 1) \in p .. Job!End /\ Job!After(p, 1) > p
    BY <1>1, <1>2, AfterIs
  <2>2. Job!After(p, 1) \in Place
    BY <1>1, <2>1 DEF Place
  <2> QED
    BY <2>1, <2>2, InvalidIs DEF JobOps
<1>4. Finds(Job!Keyword(Job!WRITE, "WRITE", p))
  <2>1. Len(Job!WRITE) \in Nat \ {0}
    BY DEF Job!WRITE
  <2> QED
    BY <1>2, <2>1, KeywordIs DEF JobOps
<1>5. Finds(Job!Keyword(Job!READ, "READ", p))
  <2>1. Len(Job!READ) \in Nat \ {0}
    BY DEF Job!READ
  <2> QED
    BY <1>2, <2>1, KeywordIs DEF JobOps
<1>6. Finds(Job!Keyword(Job!DELETE, "DELETE", p))
  <2>1. Len(Job!DELETE) \in Nat \ {0}
    BY DEF Job!DELETE
  <2> QED
    BY <1>2, <2>1, KeywordIs DEF JobOps
<1>7. Finds(Job!Alone(Job!SHOW, "SHOW", p))
  <2>1. Len(Job!SHOW) \in Nat \ {0}
    BY DEF Job!SHOW
  <2> QED
    BY <1>2, <2>1, AloneIs DEF JobOps
<1>8. Finds(Job!Alone(Job!BACKUP, "BACKUP", p))
  <2>1. Len(Job!BACKUP) \in Nat \ {0}
    BY DEF Job!BACKUP
  <2> QED
    BY <1>2, <2>1, AloneIs DEF JobOps
<1>9. Finds(Job!Alone(Job!HELP, "HELP", p))
  <2>1. Len(Job!HELP) \in Nat \ {0}
    BY DEF Job!HELP
  <2> QED
    BY <1>2, <2>1, AloneIs DEF JobOps
<1>10. Finds(Job!Token("EMPTY", Job!cleanup(p + 1)))
  BY <1>2, CommentIs DEF JobOps
<1>11. Job!Char(p) = Job!Newline => Finds(Job!Token("EMPTY", p + 1))
  BY EmptyLineIs DEF JobOps
<1>12. Job!Starts(p, Job!WAIT) => Finds(Job!Token("WAIT", p + Len(Job!WAIT)))
  <2>1. Len(Job!WAIT) = 5
    BY DEF Job!WAIT
  <2>2. SUFFICES ASSUME Job!Starts(p, Job!WAIT)
                 PROVE  Finds(Job!Token("WAIT", p + Len(Job!WAIT)))
    OBVIOUS
  <2>3. p + Len(Job!WAIT) \in p + 1 .. Job!End
    BY <1>1, <2>1, <2>2 DEF Job!Starts
  <2> QED
    BY <2>3 DEF Job!Token, Found, JobOps
<1> HIDE DEF Finds
<1> QED
  BY <1>3, <1>4, <1>5, <1>6, <1>7, <1>8, <1>9, <1>10, <1>11, <1>12
     DEF Job!Command

-----------------------------------------------------------------------------
(* The client's parser has the same helpers. *)

\* Both parsers' helpers are the same operators of the same text.
LEMMA SameReader ==
    /\ Client!End = Job!End
    /\ Client!EndOfFile = Job!EndOfFile /\ Client!Newline = Job!Newline
    /\ \A p : Client!Char(p) = Job!Char(p)
    /\ \A p, k : Client!After(p, k) = Job!After(p, k)
    /\ \A p : Client!cleanup(p) = Job!cleanup(p)
    /\ \A p : Client!read_string(p) = Job!read_string(p)
<1>1. /\ Client!End = Job!End
      /\ Client!EndOfFile = Job!EndOfFile /\ Client!Newline = Job!Newline
  BY DEF Client!End, Job!End, Client!EndOfFile, Job!EndOfFile,
         Client!Newline, Job!Newline
<1>2. ASSUME NEW p PROVE Client!Char(p) = Job!Char(p)
  BY <1>1 DEF Client!Char, Job!Char
<1>3. ASSUME NEW p, NEW k PROVE Client!After(p, k) = Job!After(p, k)
  BY DEF Client!After, Job!After, Client!Min, Job!Min, Client!End, Job!End
<1>4. ASSUME NEW p PROVE Client!cleanup(p) = Job!cleanup(p)
  BY DEF Client!cleanup, Job!cleanup, Client!Min, Job!Min, Client!End, Job!End,
         Client!Char, Job!Char, Client!Newline, Job!Newline,
         Client!EndOfFile, Job!EndOfFile
<1>5. ASSUME NEW p PROVE Client!read_string(p) = Job!read_string(p)
  BY DEF Client!read_string, Job!read_string, Client!Min, Job!Min,
         Client!End, Job!End, Client!Char, Job!Char, Client!After, Job!After,
         Client!Separators, Job!Separators, Client!EndOfFile, Job!EndOfFile
<1> QED
  BY <1>1, <1>2, <1>3, <1>4, <1>5

\* And they return the same results.
LEMMA SameResults ==
    /\ \A p : Client!Reject(p) = Job!Reject(p)
    /\ \A args, p : Client!LineEnd(args, p) = Job!LineEnd(args, p)
    /\ \A strings : Client!Copied(strings) = Job!Copied(strings)
    /\ \A p, max : Client!KeyList(p, max) = Job!KeyList(p, max)
<1>1. ASSUME NEW p PROVE Client!Reject(p) = Job!Reject(p)
  BY SameReader DEF Client!Reject, Job!Reject, Client!Accept, Job!Accept
<1>2. ASSUME NEW args, NEW p PROVE Client!LineEnd(args, p) = Job!LineEnd(args, p)
  BY <1>1, SameReader DEF Client!LineEnd, Job!LineEnd, Client!Accept, Job!Accept,
                          Client!Nul, Job!Nul
<1>4. ASSUME NEW strings PROVE Client!Copied(strings) = Job!Copied(strings)
  BY DEF Client!Copied, Job!Copied, Client!Min, Job!Min, Client!Nul, Job!Nul
<1>3. ASSUME NEW p, NEW max PROVE Client!KeyList(p, max) = Job!KeyList(p, max)
  BY DEF Client!KeyList, Job!KeyList,
         Client!read_string, Job!read_string, Client!Min, Job!Min,
         Client!End, Job!End, Client!Char, Job!Char, Client!After, Job!After,
         Client!Separators, Job!Separators, Client!EndOfFile, Job!EndOfFile
<1> QED
  BY <1>1, <1>2, <1>3, <1>4

\* And the same tokens.
LEMMA SameTokens ==
    /\ \A cmd, p : Client!Token(cmd, p) = Job!Token(cmd, p)
    /\ \A p : Client!Invalid(p) = Job!Invalid(p)
    /\ \A word, cmd, p : Client!Keyword(word, cmd, p) = Job!Keyword(word, cmd, p)
    /\ \A word, cmd, p : Client!Alone(word, cmd, p) = Job!Alone(word, cmd, p)
<1>1. ASSUME NEW p, NEW word PROVE Client!Starts(p, word) = Job!Starts(p, word)
  BY DEF Client!Starts, Job!Starts, Client!End, Job!End
<1>2. ASSUME NEW cmd, NEW p PROVE Client!Token(cmd, p) = Job!Token(cmd, p)
  BY DEF Client!Token, Job!Token
<1>3. ASSUME NEW p PROVE Client!Invalid(p) = Job!Invalid(p)
  BY <1>2, SameReader DEF Client!Invalid, Job!Invalid
<1>4. ASSUME NEW word, NEW cmd, NEW p
      PROVE  Client!Keyword(word, cmd, p) = Job!Keyword(word, cmd, p)
  BY <1>1, <1>2, <1>3, SameReader DEF Client!Keyword, Job!Keyword
<1>5. ASSUME NEW word, NEW cmd, NEW p
      PROVE  Client!Alone(word, cmd, p) = Job!Alone(word, cmd, p)
  BY <1>1, <1>2, <1>3, SameReader DEF Client!Alone, Job!Alone
<1> QED
  BY <1>2, <1>3, <1>4, <1>5

\* A key of a SUBSCRIBE or an UNSUBSCRIBE, as in a list of the server.
LEMMA ParseListIs ==
    ASSUME TextInv, NEW p \in Place
    PROVE  /\ Leaves(Client!parse_list(p, 1), p)
           /\ Few(Client!parse_list(p, 1).args)
<1> DEFINE list == Job!KeyList(p + 1, 1)
           result == Client!parse_list(p, 1)
<1> SUFFICES Leaves(result, p) /\ Few(result.args)
  OBVIOUS
<1>1. Job!End \in Nat /\ p \in Nat /\ p > 0 /\ p <= Job!End /\ 1 \in Nat \ {0}
      /\ MAX_WRITE_SIZE \in Nat /\ MAX_WRITE_SIZE > 1
  BY Places, CommandLoopsAssumption DEF Place
<1>2. result = CASE Job!Char(p) # "[" -> Job!Reject(Job!After(p, 1))
                 [] Job!Char(p) = "[" /\ list.closed # "]" -> Job!Reject(list.pos)
                 [] OTHER -> Job!LineEnd(Job!Copied(list.keys), list.pos)
  BY SameReader, SameResults DEF Client!parse_list
<1> HIDE DEF result
<1>3. ASSUME NEW q \in Place, q \in p .. Job!End, result = Job!Reject(q)
      PROVE  Leaves(result, p) /\ Few(result.args)
  <2>1. result.args = <<>> /\ Leaves(result, q)
    BY <1>3, RejectIs
  <2>2. Leaves(result, p)
    BY <1>3, <2>1, LeavesLater
  <2> QED
    BY <1>1, <2>1, <2>2 DEF Few
<1>4. CASE Job!Char(p) # "["
  <2>1. Job!After(p, 1) \in p .. Job!End
    BY <1>1, AfterIs
  <2>2. Job!After(p, 1) \in Place
    BY <1>1, <2>1 DEF Place
  <2> QED
    BY <1>2, <1>3, <1>4, <2>1, <2>2
<1>5. CASE Job!Char(p) = "["
  <2>1. /\ list.pos \in p .. Job!End /\ list.pos \in Place
        /\ Len(list.keys) \in 1 .. 1
        /\ list.closed \in {",", "]"} => list.keys \in Seq(String)
    BY <1>1, <1>5, ListIs
  <2> HIDE DEF list
  <2>2. CASE list.closed # "]"
    BY <1>2, <1>3, <1>5, <2>1, <2>2
  <2>3. CASE list.closed = "]"
    <3>0. PICK keys : keys = Job!Copied(list.keys)
      OBVIOUS
    <3>1. result = Job!LineEnd(keys, list.pos)
      BY <1>2, <1>5, <2>3, <3>0
    <3>6. keys \in Seq(String) /\ Len(keys) = 1
      BY <2>1, <2>3, <3>0, CopiedStrings
    <3>7. keys # <<>>
      BY <3>6
    <3>2. Leaves(result, list.pos) /\ result.args \in {<<>>, keys}
      BY <2>1, <3>1, <3>7, LineEndIs
    <3>3. Leaves(result, p)
      BY <2>1, <3>2, LeavesLater
    <3>4. Few(<<>>)
      BY <1>1 DEF Few
    <3>5. Few(keys)
      BY <1>1, <3>6 DEF Few
    <3> QED
      BY <3>2, <3>3, <3>4, <3>5
  <2> QED
    BY <2>2, <2>3
<1> QED
  BY <1>4, <1>5

\* Both programs read the same digits.
LEMMA BothRead ==
    ASSUME NEW p
    PROVE  /\ \A n \in Job!read_uint(p) : Reads(n, p)
           /\ \A n \in Client!read_uint(p) : Reads(n, p)
<1> DEFINE stop == Job!Min({q \in p .. Job!End : Job!Char(q) \notin Job!Digits})
           other == Client!Min({q \in p .. Client!End : Client!Char(q) \notin Client!Digits})
           beyond == IF Job!Char(stop) = Job!EndOfFile THEN Garbage ELSE {<<>>}
<1>1. other = stop
  BY DEF Client!Min, Job!Min, Client!End, Job!End, Client!Char, Job!Char,
         Client!Digits, Job!Digits, Client!EndOfFile, Job!EndOfFile
<1> HIDE DEF other, stop
<1>2. Client!read_uint(p) =
         {[digits |-> SubSeq(text, p, stop - 1) \o more,
           next |-> Job!Char(stop), pos |-> Job!After(stop, 1)] : more \in beyond}
  BY <1>1, SameReader DEF Client!read_uint, other
<1>3. Job!read_uint(p) =
         {[digits |-> SubSeq(text, p, stop - 1) \o more,
           next |-> Job!Char(stop), pos |-> Job!After(stop, 1)] : more \in beyond}
  BY DEF Job!read_uint, stop
<1> QED
  BY <1>2, <1>3, NumberReads

\* The place behind a DELAY may be anywhere.
LEMMA ParseDelayIs ==
    ASSUME TextInv, NEW p \in Place, NEW result \in Client!parse_delay(p)
    PROVE  /\ result.pos \in p .. Job!End /\ Single(result.args)
           /\ result.args = <<>> => InLine(result.pos)
<1>1. Job!End \in Nat /\ p \in Nat /\ p > 0 /\ p <= Job!End
  BY Places DEF Place
<1>2. PICK n \in Client!read_uint(p) :
         result = IF Client!Fits(n) THEN Client!Accept(<<n.digits>>, n.pos)
                  ELSE Client!Reject(n.pos)
  BY DEF Client!parse_delay
<1>3. n.digits \in Numeral /\ n.pos \in p .. Job!End
  BY BothRead, ReadUintIs
<1>7. n.pos \in Place
  BY <1>1, <1>3 DEF Place
<1>8. Single(<<n.digits>>) /\ Single(<<>>) /\ <<n.digits>> # <<>>
  BY <1>3 DEF Single
<1>9. CASE Client!Fits(n)
  <2>1. result = [args |-> <<n.digits>>, pos |-> n.pos]
    BY <1>2, <1>9 DEF Client!Accept
  <2> QED
    BY <1>3, <1>8, <2>1
<1>10. CASE ~Client!Fits(n)
  <2>1. result = Job!Reject(n.pos)
    BY <1>2, <1>10, SameResults
  <2>2. result.args = <<>> /\ Leaves(result, n.pos)
    BY <1>7, <2>1, RejectIs
  <2>3. Leaves(result, p)
    BY <1>3, <2>2, LeavesLater
  <2> QED
    BY <1>8, <2>2, <2>3 DEF Leaves
<1> QED
  BY <1>9, <1>10

ClientOps == {"SUBSCRIBE", "UNSUBSCRIBE", "DELAY", "DISCONNECT", "EMPTY", "INVALID"}

\* get_next of the client reads something unless the input has ended.
LEMMA ClientTokenIs ==
    ASSUME TextInv, NEW p \in Place
    PROVE  \/ Client!get_next(p).cmd = "EOC"
           \/ /\ Client!get_next(p).cmd \in ClientOps
              /\ Found(Client!get_next(p), p)
<1> DEFINE t == Client!get_next(p)
           Finds(token) == token.cmd \in ClientOps /\ Found(token, p)
           Result(token) == token.cmd = "EOC" \/ Finds(token)
<1> SUFFICES Result(t)
  OBVIOUS
<1>1. Job!End \in Nat /\ p \in Nat /\ p > 0 /\ p <= Job!End
  BY Places DEF Place
<1>2. CASE Client!Char(p) = Client!EndOfFile
  <2>1. Client!get_next(p) = Client!Token("EOC", p)
    <3>1. Client!EndOfFile \notin {"S", "U", "D", "#", Client!Newline}
      BY DEF Client!EndOfFile, Client!Newline
    <3>2. ~Client!Starts(p, Client!DELAY)
      <4>1. Len(Client!DELAY) = 6
        BY DEF Client!DELAY
      <4>2. ~(p < Job!End)
        BY <1>2, Places, SameReader
      <4> QED
        BY <1>1, <4>1, <4>2, SameReader DEF Client!Starts
    <3> QED
      BY <1>2, <3>1, <3>2 DEF Client!get_next
  <2> QED
    BY <2>1 DEF Client!Token
<1>3. CASE Client!Char(p) # Client!EndOfFile
  <2>1. p < Job!End
    BY <1>1, <1>3, Places, SameReader
  <2>2. Result(Client!Invalid(p + 1))
    <3>1. p + 1 \in Place /\ p + 1 > p
      BY <1>1, <2>1 DEF Place
    <3> QED
      BY <3>1, InvalidIs, SameTokens DEF ClientOps
  <2>3. Len(Client!SUBSCRIBE) \in Nat \ {0}
    BY DEF Client!SUBSCRIBE
  <2>4. Len(Client!UNSUBSCRIBE) \in Nat \ {0}
    <3> DEFINE letters == {"U", "N", "S", "B", "C", "R", "I", "E", " "}
    <3>1. <<"U", "N">> \in Seq(letters) /\ Client!SUBSCRIBE \in Seq(letters)
          /\ Len(<<"U", "N">>) = 2
      BY DEF Client!SUBSCRIBE
    <3> HIDE DEF letters
    <3>2. Len(Client!UNSUBSCRIBE) = 2 + Len(Client!SUBSCRIBE)
      BY <3>1, ConcatProperties DEF Client!UNSUBSCRIBE
    <3> QED
      BY <2>3, <3>2
  <2>5. Result(Client!Keyword(Client!SUBSCRIBE, "SUBSCRIBE", p))
    BY <2>1, <2>3, KeywordIs, SameTokens DEF ClientOps
  <2>6. Result(Client!Keyword(Client!UNSUBSCRIBE, "UNSUBSCRIBE", p))
    BY <2>1, <2>4, KeywordIs, SameTokens DEF ClientOps
  <2>7. Len(Client!DISCONNECT) \in Nat \ {0}
    BY DEF Client!DISCONNECT
  <2>8. Result(Client!Alone(Client!DISCONNECT, "DISCONNECT", p))
    BY <2>1, <2>7, AloneIs, SameTokens DEF ClientOps
  <2>9. Result(Client!Token("EMPTY", Client!cleanup(p + 1)))
    BY <2>1, CommentIs, SameTokens, SameReader DEF ClientOps
  <2>10. Client!Char(p) = Client!Newline => Result(Client!Token("EMPTY", p + 1))
    BY EmptyLineIs, SameTokens, SameReader DEF ClientOps
  <2>11. Client!Starts(p, Client!DELAY) =>
            Result(Client!Token("DELAY", p + Len(Client!DELAY)))
    <3>1. Len(Client!DELAY) = 6
      BY DEF Client!DELAY
    <3>2. SUFFICES ASSUME Client!Starts(p, Client!DELAY)
                   PROVE  Finds(Client!Token("DELAY", p + Len(Client!DELAY)))
      OBVIOUS
    <3>3. p + Len(Client!DELAY) \in p + 1 .. Job!End
      BY <1>1, <3>1, <3>2, SameReader DEF Client!Starts
    <3> QED
      BY <3>3 DEF Client!Token, Found, ClientOps
  <2> HIDE DEF Result
  <2> QED
    BY <1>3, <2>2, <2>5, <2>6, <2>8, <2>9, <2>10, <2>11 DEF Client!get_next
<1> QED
  BY <1>2, <1>3

-----------------------------------------------------------------------------
(* The loops. *)

Args == Seq(Pair) \cup Seq(String) \cup Seq(Numeral)

Entry == {e \in [from : Place, to : Place, op : Ops, args : Args] :
             Room(e.op, e.args)}

IInv ==
    /\ TextInv
    /\ reader \in {"job", "client"} /\ ended \in BOOLEAN
    /\ pos \in Place
    /\ log \in Seq(Entry)

\* There is room for a list of keys,
LEMMA FewRoom ==
    ASSUME NEW op \in Ops \ {"WRITE"}, NEW args, Few(args)
    PROVE  Room(op, args) /\ args \in Args
BY DEF Few, Room, Args

\* for a number,
LEMMA SingleRoom ==
    ASSUME NEW op \in {"WAIT", "DELAY", "INVALID"}, NEW args, Single(args)
    PROVE  Room(op, args) /\ args \in Args
<1>1. MAX_WRITE_SIZE \in Nat /\ MAX_WRITE_SIZE > 1 /\ Len(args) \in Nat
  BY CommandLoopsAssumption, LenProperties DEF Single
<1> QED
  BY <1>1 DEF Single, Room, Args

\* and for no arguments.
LEMMA NoneRoom == ASSUME NEW op PROVE Room(op, <<>>) /\ <<>> \in Args
BY CommandLoopsAssumption DEF Room, Args

\* The commands whose last byte is looked at.
Terminated == {"WRITE", "READ", "DELETE", "WAIT", "SUBSCRIBE", "UNSUBSCRIBE"}

\* Where the next command is looked for.
Resumes(op, p) == InLine(p) \/ (op \in Terminated /\ Stopped(p))

\* What every turn of either loop does.
Turned(op) ==
    /\ UNCHANGED <<reader, lines, text>> /\ ended' \in BOOLEAN
    /\ pos' \in pos + 1 .. Job!End
    /\ op # "DELAY" => Resumes(op, pos')
    /\ \E e \in Entry : e.op = op /\ log' = Append(log, e)

\* A turn that reads something and leaves a place where a line begins.
LEMMA TurnIs ==
    ASSUME IInv, NEW op \in Ops, NEW args \in Args, Room(op, args),
           NEW next \in pos + 1 .. Job!End, op # "DELAY" => Resumes(op, next),
           Turn(op, args, next), ended' \in BOOLEAN
    PROVE  Turned(op)
<1>1. pos \in Place /\ next \in Place
  BY Places DEF IInv, Place
<1> DEFINE e == [from |-> pos, to |-> next, op |-> op, args |-> args]
<1>2. e \in Entry /\ e.op = op
  BY <1>1 DEF Entry
<1> QED
  BY <1>2 DEF Turn, Turned

\* The same of a command with arguments.
LEMMA ParsedIs ==
    ASSUME IInv, NEW op \in Terminated \cup {"DELAY"},
           NEW token, token.pos \in pos + 1 .. Job!End,
           NEW result, result.pos \in token.pos .. Job!End,
           op # "DELAY" => Stopped(result.pos),
           result.args = <<>> => InLine(result.pos),
           Room(op, result.args), result.args \in Args, Parsed(op, result)
    PROVE  \E o \in Ops : Turned(o)
<1>1. pos \in Nat /\ Job!End \in Nat /\ ended' \in BOOLEAN
  BY Places DEF IInv, Place, Parsed
<1>2. result.pos \in pos + 1 .. Job!End
  BY <1>1
<1>3. CASE result.args = <<>>
  <2>1. Turn("INVALID", result.args, result.pos)
    BY <1>3 DEF Parsed
  <2>2. Room("INVALID", result.args)
    BY <1>3, NoneRoom
  <2>3. "INVALID" \in Ops
    BY DEF Ops
  <2>5. Resumes("INVALID", result.pos)
    BY <1>3 DEF Resumes
  <2>4. Turned("INVALID")
    BY <1>1, <1>2, <1>3, <2>1, <2>2, <2>3, <2>5, TurnIs
  <2> QED
    BY <2>3, <2>4
<1>4. CASE result.args # <<>>
  <2>1. Turn(op, result.args, result.pos)
    BY <1>4 DEF Parsed
  <2>2. op \in Ops /\ (op # "DELAY" => Resumes(op, result.pos))
    BY DEF Resumes, Terminated, Ops
  <2>3. Turned(op)
    BY <1>1, <1>2, <2>1, <2>2, TurnIs
  <2> QED
    BY <2>2, <2>3
<1> QED
  BY <1>3, <1>4

\* Every action that takes a turn takes one that consumes a part of the file
\* and has room for its arguments.
LEMMA Steps ==
    ASSUME IInv, Next
    PROVE  \/ /\ UNCHANGED <<reader, lines, text, pos, log>>
              /\ ended' \in BOOLEAN
           \/ \E op \in Ops : Turned(op)
<1>1. TextInv /\ pos \in Place /\ ended \in BOOLEAN
  BY DEF IInv
<1>2. \A q \in pos + 1 .. Job!End : q \in Place
  BY <1>1, Places DEF Place
<1>3. ASSUME JobToken.cmd # "EOC"
      PROVE  /\ Found(JobToken, pos) /\ JobToken.pos \in Place
             /\ JobToken.pos \in pos + 1 .. Job!End
  BY <1>1, <1>2, <1>3, JobTokenIs DEF JobToken, Found
<1>4. ASSUME ClientToken.cmd # "EOC"
      PROVE  /\ Found(ClientToken, pos) /\ ClientToken.pos \in Place
             /\ ClientToken.pos \in pos + 1 .. Job!End
  BY <1>1, <1>2, <1>4, ClientTokenIs DEF ClientToken, Found
<1>5. CASE JobWrite
  <2> DEFINE result == Job!parse_write(JobToken.pos)
  <2>1. Found(JobToken, pos) /\ JobToken.pos \in Place
        /\ JobToken.pos \in pos + 1 .. Job!End
    BY <1>3, <1>5 DEF JobWrite, JobFinds
  <2>2. Leaves(result, JobToken.pos) /\ Room("WRITE", result.args)
    BY <1>1, <2>1, ParseWriteIs
  <2>3. Parsed("WRITE", result) /\ "WRITE" \in Terminated
    BY <1>5 DEF JobWrite, Terminated
  <2> HIDE DEF result
  <2>4. result.args \in Args
    BY <2>2 DEF Room, Args
  <2>5. \E op \in Ops : Turned(op)
    BY <2>1, <2>2, <2>3, <2>4, ParsedIs DEF Leaves
  <2> QED
    BY <2>5
<1>6. CASE JobReadDelete
  <2> DEFINE result == Job!parse_read_delete(JobToken.pos)
             cmd == JobToken.cmd
  <2>1. cmd \in {"READ", "DELETE"} /\ Parsed(cmd, result)
    BY <1>6 DEF JobReadDelete, JobFinds
  <2>2. Found(JobToken, pos) /\ JobToken.pos \in Place
        /\ JobToken.pos \in pos + 1 .. Job!End
    BY <1>3, <2>1
  <2>3. Leaves(result, JobToken.pos) /\ Few(result.args)
    BY <1>1, <2>2, ParseReadDeleteIs
  <2> HIDE DEF result, cmd
  <2>4. cmd \in Ops \ {"WRITE"} /\ cmd \in Terminated
    BY <2>1 DEF Ops, Terminated
  <2>5. Room(cmd, result.args) /\ result.args \in Args
    BY <2>3, <2>4, FewRoom
  <2>6. \E op \in Ops : Turned(op)
    BY <2>1, <2>2, <2>3, <2>4, <2>5, ParsedIs DEF Leaves
  <2> QED
    BY <2>6
<1>7. CASE JobWait
  <2>1. Found(JobToken, pos) /\ JobToken.pos \in Place
        /\ JobToken.pos \in pos + 1 .. Job!End
    BY <1>3, <1>7 DEF JobWait, JobFinds
  <2>2. PICK result \in Job!parse_wait(JobToken.pos) : Parsed("WAIT", result)
    BY <1>7 DEF JobWait
  <2>3. Leaves(result, JobToken.pos) /\ Single(result.args)
    BY <1>1, <2>1, ParseWaitIs
  <2>4. Room("WAIT", result.args) /\ result.args \in Args /\ "WAIT" \in Terminated
    BY <2>3, SingleRoom DEF Terminated
  <2>5. \E op \in Ops : Turned(op)
    BY <2>1, <2>2, <2>3, <2>4, ParsedIs DEF Leaves
  <2> QED
    BY <2>5
<1>8. CASE JobPlain
  <2> DEFINE cmd == JobToken.cmd
  <2>1. /\ cmd \in {"SHOW", "BACKUP", "HELP", "EMPTY", "INVALID"}
        /\ Turn(cmd, <<>>, JobToken.pos) /\ ended' = ended
    BY <1>8 DEF JobPlain, JobFinds
  <2>2. Found(JobToken, pos) /\ JobToken.pos \in pos + 1 .. Job!End
    BY <1>3, <2>1
  <2>3. Resumes(cmd, JobToken.pos)
    BY <2>1, <2>2 DEF Found, Resumes
  <2> HIDE DEF cmd
  <2>4. cmd \in Ops
    BY <2>1 DEF Ops
  <2>5. Turned(cmd)
    BY <1>1, <2>1, <2>2, <2>3, <2>4, NoneRoom, TurnIs
  <2> QED
    BY <2>4, <2>5
<1>9. CASE JobEnd
  BY <1>9 DEF JobEnd
<1>10. CASE ClientKey
  <2> DEFINE result == Client!parse_list(ClientToken.pos, 1)
             cmd == ClientToken.cmd
  <2>1. cmd \in {"SUBSCRIBE", "UNSUBSCRIBE"} /\ Parsed(cmd, result)
    BY <1>10 DEF ClientKey, ClientFinds
  <2>2. Found(ClientToken, pos) /\ ClientToken.pos \in Place
        /\ ClientToken.pos \in pos + 1 .. Job!End
    BY <1>4, <2>1
  <2>3. Leaves(result, ClientToken.pos) /\ Few(result.args)
    BY <1>1, <2>2, ParseListIs
  <2> HIDE DEF result, cmd
  <2>4. cmd \in Ops \ {"WRITE"} /\ cmd \in Terminated
    BY <2>1 DEF Ops, Terminated
  <2>5. Room(cmd, result.args) /\ result.args \in Args
    BY <2>3, <2>4, FewRoom
  <2>6. \E op \in Ops : Turned(op)
    BY <2>1, <2>2, <2>3, <2>4, <2>5, ParsedIs DEF Leaves
  <2> QED
    BY <2>6
<1>11. CASE ClientDelay
  <2>1. Found(ClientToken, pos) /\ ClientToken.pos \in Place
        /\ ClientToken.pos \in pos + 1 .. Job!End
    BY <1>4, <1>11 DEF ClientDelay, ClientFinds
  <2>2. PICK result \in Client!parse_delay(ClientToken.pos) : Parsed("DELAY", result)
    BY <1>11 DEF ClientDelay
  <2>3. /\ result.pos \in ClientToken.pos .. Job!End /\ Single(result.args)
        /\ result.args = <<>> => InLine(result.pos)
    BY <1>1, <2>1, ParseDelayIs
  <2>4. Room("DELAY", result.args) /\ result.args \in Args
    BY <2>3, SingleRoom
  <2>5. \E op \in Ops : Turned(op)
    BY <2>1, <2>2, <2>3, <2>4, ParsedIs
  <2> QED
    BY <2>5
<1>12. CASE ClientPlain \/ ClientDisconnect
  <2> DEFINE cmd == ClientToken.cmd
  <2>1. /\ cmd \in {"EMPTY", "INVALID", "DISCONNECT"}
        /\ Turn(cmd, <<>>, ClientToken.pos) /\ ended' \in BOOLEAN
    BY <1>1, <1>12 DEF ClientPlain, ClientDisconnect, ClientFinds
  <2>2. Found(ClientToken, pos) /\ ClientToken.pos \in pos + 1 .. Job!End
    BY <1>4, <2>1
  <2>3. Resumes(cmd, ClientToken.pos)
    BY <2>1, <2>2 DEF Found, Resumes
  <2> HIDE DEF cmd
  <2>4. cmd \in Ops
    BY <2>1 DEF Ops
  <2>5. Turned(cmd)
    BY <2>1, <2>2, <2>3, <2>4, NoneRoom, TurnIs
  <2> QED
    BY <2>4, <2>5
<1>13. CASE ClientEndOfInput \/ Ended
  BY <1>1, <1>13 DEF ClientEndOfInput, Ended, vars
<1> QED
  BY <1>5, <1>6, <1>7, <1>8, <1>9, <1>10, <1>11, <1>12, <1>13 DEF Next

-----------------------------------------------------------------------------
(* The first state. *)

\* The joined lines of a file are a sequence of characters.
LEMMA InitIInv == Init => IInv
<1> SUFFICES ASSUME Init PROVE IInv
  OBVIOUS
<1> DEFINE texts == [i \in DOMAIN lines |-> lines[i].text]
<1>1. PICK m \in Nat : lines \in [1 .. m -> JobLines \cup ClientLines]
  <2>1. \/ \E m \in 0 .. MaxLines : lines \in [1 .. m -> JobLines]
        \/ \E m \in 0 .. MaxLines : lines \in [1 .. m -> ClientLines]
    BY DEF Init, SeqOf
  <2> QED
    BY <2>1, CommandLoopsAssumption
<1>2. texts \in [1 .. m -> Seq(Character)]
  BY <1>1, CommandLoopsAssumption
<1>3. texts \in Seq(Seq(Character))
  BY <1>2, SeqDef
<1> HIDE DEF texts
<1>4. FlattenSeq(texts) \in Seq(Character)
  BY <1>3, FlattenType
<1>5. TextInv
  BY <1>4 DEF Init, TextInv, texts
<1>6. 1 \in Place
  BY <1>5, Places DEF Place
<1>7. reader \in {"job", "client"} /\ ended \in BOOLEAN /\ pos = 1
  BY DEF Init
<1>8. log \in Seq(Entry)
  <2>1. log = <<>>
    BY DEF Init
  <2>2. <<>> \in Seq(Entry)
    BY EmptySeq
  <2> QED
    BY <2>1, <2>2
<1> QED
  BY <1>5, <1>6, <1>7, <1>8 DEF IInv

-----------------------------------------------------------------------------
(* The invariant. *)

\* Every step is a turn as Turned says, or leaves the log alone.
LEMMA NextIInv == IInv /\ [Next]_vars => IInv'
<1> SUFFICES ASSUME IInv, [Next]_vars PROVE IInv'
  OBVIOUS
<1>1. \/ UNCHANGED <<reader, lines, text, pos, log>> /\ ended' \in BOOLEAN
      \/ \E op \in Ops : Turned(op)
  <2>1. CASE Next
    BY <2>1, Steps
  <2>2. CASE UNCHANGED vars
    BY <2>2 DEF vars, IInv
  <2> QED
    BY <2>1, <2>2
<1>2. /\ reader' = reader /\ text' = text /\ ended' \in BOOLEAN
      /\ pos' \in Place /\ log' \in Seq(Entry)
  <2>1. CASE UNCHANGED <<reader, lines, text, pos, log>> /\ ended' \in BOOLEAN
    BY <2>1 DEF IInv
  <2>2. ASSUME NEW op \in Ops, Turned(op)
        PROVE  /\ reader' = reader /\ text' = text /\ ended' \in BOOLEAN
               /\ pos' \in Place /\ log' \in Seq(Entry)
    <3>1. pos' \in Place
      BY <2>2, Places DEF IInv, Turned, Place
    <3>2. log' \in Seq(Entry)
      BY <2>2, AppendProperties DEF IInv, Turned
    <3> QED
      BY <2>2, <3>1, <3>2 DEF Turned
  <2> QED
    BY <1>1, <2>1, <2>2
<1>3. TextInv' /\ Job!End' = Job!End
  BY <1>2 DEF IInv, TextInv, Job!End
<1>4. Place' = Place /\ Entry' = Entry
  BY <1>3 DEF Place, Entry
<1> QED
  BY <1>2, <1>3, <1>4 DEF IInv

\* The inductive invariant.
LEMMA Invariance == Spec => []IInv
BY InitIInv, NextIInv, PTL DEF Spec

\* The position stays in the file, and every entry of the log is a command
\* that was read from a part of it.
THEOREM TypeCorrect == Spec => []TypeOK
<1>1. IInv => TypeOK
  <2> SUFFICES ASSUME IInv PROVE TypeOK
    OBVIOUS
  <2>1. Place = 1 .. Len(text) + 1
    BY Places DEF IInv, Place
  <2>2. \A i \in DOMAIN log : log[i] \in Entry
    BY LenProperties, ElementOfSeq DEF IInv
  <2> QED
    BY <2>1, <2>2 DEF IInv, TypeOK, Entry
<1> QED
  BY Invariance, <1>1, PTL

\* Whatever is passed on fits the arrays of run_job and of the client's main:
\* the parsers let no list through that takes all the room, and no string.
THEOREM ArgumentsHaveRoom == Spec => []ArgumentsFit
<1>1. IInv => ArgumentsFit
  <2> SUFFICES ASSUME IInv, NEW i \in DOMAIN log
               PROVE  LET args == log[i].args
                      IN  /\ Len(args) < MAX_WRITE_SIZE
                          /\ log[i].op = "WRITE" => \A n \in DOMAIN args :
                                Len(args[n][1]) < MAX_STRING_SIZE
                                /\ Len(args[n][2]) < MAX_STRING_SIZE
                          /\ log[i].op \in {"READ", "DELETE", "SUBSCRIBE", "UNSUBSCRIBE"} =>
                                \A n \in DOMAIN args : Len(args[n]) < MAX_STRING_SIZE
    BY DEF ArgumentsFit
  <2>1. log[i] \in Entry
    BY LenProperties, ElementOfSeq DEF IInv
  <2> DEFINE args == log[i].args
             op == log[i].op
  <2>2. Room(op, args)
    BY <2>1 DEF Entry
  <2> HIDE DEF args, op
  <2>3. ASSUME op = "WRITE", NEW n \in DOMAIN args
        PROVE  Len(args[n][1]) < MAX_STRING_SIZE /\ Len(args[n][2]) < MAX_STRING_SIZE
    <3>1. args[n] \in Pair
      BY <2>2, <2>3, LenProperties, ElementOfSeq DEF Room
    <3> QED
      BY <3>1 DEF Pair, String
  <2>4. ASSUME op \in {"READ", "DELETE", "SUBSCRIBE", "UNSUBSCRIBE"}, NEW n \in DOMAIN args
        PROVE  Len(args[n]) < MAX_STRING_SIZE
    <3>1. args[n] \in String
      BY <2>2, <2>4, LenProperties, ElementOfSeq DEF Room
    <3> QED
      BY <3>1 DEF String
  <2> QED
    BY <2>2, <2>3, <2>4 DEF Room, args, op
<1> QED
  BY Invariance, <1>1, PTL

\* No turn of either loop leaves the position where it was, so whatever a file
\* holds, its end is reached after at most as many turns as it has characters.
THEOREM TurnsRead == Spec => EveryTurnReads
<1>1. IInv /\ [Next]_vars => [log' # log => pos' > pos]_vars
  <2> SUFFICES ASSUME IInv, Next PROVE log' # log => pos' > pos
    OBVIOUS
  <2>1. pos \in Nat /\ Job!End \in Nat
    BY Places DEF IInv, Place
  <2>2. ASSUME NEW op \in Ops, Turned(op) PROVE pos' > pos
    BY <2>1, <2>2 DEF Turned
  <2> QED
    BY <2>2, Steps
<1> QED
  BY Invariance, <1>1, PTL DEF Spec, EveryTurnReads

\* The loops look for a command only where a line begins, behind the '\0' that
\* ended an accepted one, or behind a DELAY, after any sequence of valid and
\* mistyped lines.
THEOREM LoopsKeepStep == Spec => []LinesInStep
<1>1. Init => LinesInStep
  BY DEF Init, LinesInStep
<1>2. IInv /\ LinesInStep /\ [Next]_vars => LinesInStep'
  <2> SUFFICES ASSUME IInv, LinesInStep, [Next]_vars PROVE LinesInStep'
    OBVIOUS
  <2>1. CASE UNCHANGED <<text, pos, log>>
    BY <2>1 DEF LinesInStep
  <2>2. ASSUME NEW op \in Ops, Turned(op) PROVE LinesInStep'
    <3>1. text' = text /\ Job!End = Len(text) + 1
      BY <2>2, Places DEF Turned, IInv
    <3>2. log' # <<>> /\ Last(log').op = op
      <4>1. PICK e \in Entry : e.op = op /\ log' = Append(log, e)
        BY <2>2 DEF Turned
      <4>2. Len(log') = Len(log) + 1 /\ log'[Len(log) + 1] = e /\ log' # <<>>
        BY <4>1, LenProperties, AppendProperties DEF IInv
      <4>3. Last(log') = e
        BY <4>2 DEF Last
      <4> QED
        BY <4>1, <4>2, <4>3
    <3>3. CASE op = "DELAY"
      BY <3>2, <3>3 DEF LinesInStep
    <3>4. CASE InLine(pos')
      BY <3>1, <3>4 DEF InLine, LinesInStep
    <3>5. CASE op \in Terminated /\ text[pos' - 1] = Job!Nul
      BY <3>1, <3>2, <3>5 DEF Terminated, LinesInStep, Job!Nul
    <3>6. op # "DELAY" => Resumes(op, pos')
      BY <2>2 DEF Turned
    <3> QED
      BY <3>3, <3>4, <3>5, <3>6 DEF Resumes, Stopped
  <2> QED
    BY <2>1, <2>2, Steps DEF vars
<1> QED
  BY Invariance, <1>1, <1>2, PTL DEF Spec

-----------------------------------------------------------------------------
(* What the text spells. *)

KeywordLetters == {"W", "R", "I", "T", "E", "A", "D", "L", "S", "H", "O",
             "B", "C", "K", "U", "P", "N", "Y", " "}
Marks == {"[", "]", "(", ")", ",", "\n"}

\* What a command is spelled with.  All are characters, but that a literal is
\* one of STRING is not among what the provers know.
Symbol == Character \cup KeywordLetters \cup Marks \cup Job!Digits

\* The text has `word' from p up to q.
Spells(word, p, q) ==
    /\ word \in Seq(Symbol) /\ q = p + Len(word) /\ q <= Job!End
    /\ \A i \in 1 .. Len(word) : text[p + i - 1] = word[i]

\* Nothing is spelled anywhere.
LEMMA SpellsNothing ==
    ASSUME TextInv, NEW p \in Place
    PROVE  Spells(<<>>, p, p)
<1>1. <<>> \in Seq(Symbol) /\ Len(<<>>) = 0
  BY EmptySeq
<1>2. Job!End \in Nat /\ p \in Nat /\ p <= Job!End
  BY Places DEF Place
<1> QED
  BY <1>1, <1>2 DEF Spells

\* A word does not end before it begins.
LEMMA SpellsAhead ==
    ASSUME TextInv, NEW p \in Place, NEW q, NEW word, Spells(word, p, q)
    PROVE  p \in Nat /\ q \in Nat /\ p <= q
<1>1. Len(word) \in Nat /\ q = p + Len(word) /\ p \in Nat
  BY LenProperties, Places DEF Spells
<1> QED
  BY <1>1

\* Words that follow each other are one word.
LEMMA SpellsJoin ==
    ASSUME TextInv, NEW p \in Place, NEW q, NEW r, NEW u, NEW v,
           Spells(u, p, q), Spells(v, q, r)
    PROVE  Spells(u \o v, p, r) /\ q \in Place /\ r \in Place
           /\ p <= q /\ q <= r /\ u \o v \in Seq(Symbol)
<1>1. Job!End \in Nat /\ p \in Nat /\ p > 0 /\ p <= Job!End
  BY Places DEF Place
<1>2. /\ u \in Seq(Symbol) /\ q = p + Len(u) /\ q <= Job!End
      /\ \A i \in 1 .. Len(u) : text[p + i - 1] = u[i]
  BY DEF Spells
<1>3. /\ v \in Seq(Symbol) /\ r = q + Len(v) /\ r <= Job!End
      /\ \A i \in 1 .. Len(v) : text[q + i - 1] = v[i]
  BY DEF Spells
<1>4. Len(u) \in Nat /\ Len(v) \in Nat
  BY <1>2, <1>3, LenProperties
<1>5. /\ u \o v \in Seq(Symbol) /\ Len(u \o v) = Len(u) + Len(v)
      /\ \A i \in 1 .. Len(u) + Len(v) :
            (u \o v)[i] = IF i <= Len(u) THEN u[i] ELSE v[i - Len(u)]
  BY <1>2, <1>3, ConcatProperties
<1>6. ASSUME NEW i \in 1 .. Len(u) + Len(v)
      PROVE  text[p + i - 1] = (u \o v)[i]
  <2>1. CASE i <= Len(u)
    BY <1>2, <1>4, <1>5, <2>1
  <2>2. CASE ~(i <= Len(u))
    <3>1. i - Len(u) \in 1 .. Len(v) /\ q + (i - Len(u)) - 1 = p + i - 1
      BY <1>1, <1>2, <1>4, <2>2
    <3> QED
      BY <1>3, <1>5, <2>2, <3>1
  <2> QED
    BY <2>1, <2>2
<1>7. /\ r = p + (Len(u) + Len(v)) /\ q \in Nat /\ q <= Job!End /\ r \in Nat
      /\ p <= q /\ q <= r /\ q > 0 /\ r > 0
  BY <1>1, <1>2, <1>3, <1>4
<1> QED
  BY <1>1, <1>3, <1>5, <1>6, <1>7 DEF Spells, Place

\* A character that was read.
LEMMA SpellsCharacter ==
    ASSUME TextInv, NEW p \in Place, NEW c \in Symbol \ {Job!EndOfFile}, Job!Char(p) = c
    PROVE  Spells(<<c>>, p, p + 1) /\ p + 1 \in Place /\ p < Job!End
           /\ Job!After(p, 1) = p + 1
<1>1. Job!End \in Nat /\ p \in Nat /\ p > 0 /\ p <= Job!End
  BY Places DEF Place
<1>2. c # Job!EndOfFile
  OBVIOUS
<1>3. p < Job!End /\ text[p] = c
  BY <1>1, <1>2, Places
<1>4. <<c>> \in Seq(Symbol) /\ Len(<<c>>) = 1 /\ <<c>>[1] = c
  OBVIOUS
<1>5. Job!After(p, 1) = p + 1
  BY <1>1, <1>3, AfterIs
<1> QED
  BY <1>1, <1>3, <1>4, <1>5 DEF Spells, Place

\* The part of the text between two places.
LEMMA SpellsPart ==
    ASSUME TextInv, NEW p \in Place, NEW q \in Place, p <= q
    PROVE  Spells(SubSeq(text, p, q - 1), p, q)
<1>1. /\ Job!End \in Nat /\ p \in Nat /\ p > 0 /\ q \in Nat /\ q <= Job!End
      /\ Len(text) \in Nat /\ Job!End = Len(text) + 1
  BY Places, LenProperties DEF Place, TextInv
<1>2. \A i \in p .. q - 1 : text[i] \in Symbol
  BY <1>1, ElementOfSeq DEF TextInv, Symbol
<1> DEFINE part == SubSeq(text, p, q - 1)
<1>3. /\ part \in Seq(Symbol) /\ Len(part) = q - p
      /\ \A i \in 1 .. q - p : part[i] = text[p + i - 1]
  BY <1>1, <1>2, SubSeqProperties
<1> HIDE DEF part
<1> QED
  BY <1>1, <1>3 DEF Spells, part

\* What is spelled up to a place before q begins what is read up to q.
LEMMA SpellsPrefix ==
    ASSUME TextInv, NEW p \in Place, NEW q \in Place, NEW r, NEW word,
           Spells(word, p, r), r <= q
    PROVE  IsPrefix(word, SubSeq(text, p, q - 1))
<1>1. /\ Job!End \in Nat /\ p \in Nat /\ p > 0 /\ q \in Nat /\ q <= Job!End
  BY Places DEF Place
<1>2. /\ word \in Seq(Symbol) /\ Len(word) \in Nat /\ r = p + Len(word)
      /\ \A i \in 1 .. Len(word) : text[p + i - 1] = word[i]
  BY LenProperties DEF Spells
<1>3. p <= q /\ Len(word) <= q - p
  BY <1>1, <1>2
<1> DEFINE all == SubSeq(text, p, q - 1)
           n == Len(word)
<1>4. Spells(all, p, q)
  BY <1>3, SpellsPart
<1> HIDE DEF all
<1>5. /\ all \in Seq(Symbol) /\ Len(all) = q - p
      /\ \A i \in 1 .. q - p : text[p + i - 1] = all[i]
  <2>1. Len(all) \in Nat
    BY <1>4, LenProperties DEF Spells
  <2> QED
    BY <1>1, <1>4, <2>1 DEF Spells
<1> HIDE DEF n
<1>6. n \in Nat /\ n <= q - p /\ n = Len(word)
  BY <1>2, <1>3 DEF n
<1>7. \A i \in 1 .. n : all[i] = word[i] /\ all[i] \in Symbol
  <2> TAKE i \in 1 .. n
  <2>1. i \in 1 .. q - p /\ i \in 1 .. Len(word)
    BY <1>1, <1>6
  <2> QED
    BY <1>2, <1>5, <2>1, ElementOfSeq
<1>8. SubSeq(word, 1, n) = word
  BY <1>2, <1>6, SubSeqFull
<1>9. SubSeq(all, 1, n) = word
  <2> DEFINE sub == SubSeq(all, 1, n)
  <2>1. /\ sub \in Seq(Symbol) /\ Len(sub) = n
        /\ \A i \in 1 .. n : sub[i] = all[i]
    BY <1>6, <1>7, SubSeqProperties
  <2> HIDE DEF sub
  <2>2. sub = word
    BY <1>2, <1>6, <1>7, <2>1, SeqEqual
  <2> QED
    BY <2>2 DEF sub
<1>10. Len(word) <= Len(all)
  BY <1>5, <1>6
<1> QED
  BY <1>6, <1>8, <1>9, <1>10 DEF IsPrefix, all

\* A word that the text starts with.
LEMMA StartsIs ==
    ASSUME TextInv, NEW p \in Place, NEW word \in Seq(Symbol),
           Job!Starts(p, word)
    PROVE  Spells(word, p, p + Len(word)) /\ p + Len(word) \in Place
<1>1. Job!End \in Nat /\ p \in Nat /\ p > 0 /\ Len(word) \in Nat
      /\ DOMAIN word = 1 .. Len(word)
  BY Places, LenProperties DEF Place
<1> QED
  BY <1>1 DEF Job!Starts, Spells, Place

WithArguments ==
    {"WRITE", "READ", "DELETE", "WAIT", "SUBSCRIBE", "UNSUBSCRIBE", "DELAY"}

\* The keyword of a command that get_next found at p: all it has consumed if
\* arguments are to follow, else the newline may be consumed with it.
Names(token, p) ==
    token.cmd \notin {"EOC", "EMPTY", "INVALID"} =>
       \E q \in Place :
          /\ Spells(Keyword(token.cmd), p, q) /\ q <= token.pos
          /\ token.cmd \in WithArguments => q = token.pos

\* A keyword with arguments is consumed up to its blank.
LEMMA KeywordNames ==
    ASSUME TextInv, NEW p \in Place, NEW cmd, NEW word,
           word \in Seq(Symbol), Keyword(cmd) = word
    PROVE  Names(Job!Keyword(word, cmd, p), p)
<1>1. CASE Job!Starts(p, word)
  <2>1. Job!Keyword(word, cmd, p) = [cmd |-> cmd, pos |-> p + Len(word)]
    BY <1>1 DEF Job!Keyword, Job!Token
  <2>2. p + Len(word) <= p + Len(word)
    BY LenProperties, Places DEF Place
  <2> QED
    BY <1>1, <2>1, <2>2, StartsIs DEF Names
<1>2. CASE ~Job!Starts(p, word)
  BY <1>2 DEF Job!Keyword, Job!Invalid, Job!Token, Names
<1> QED
  BY <1>1, <1>2

\* A keyword alone is consumed, and what is behind it may be.
LEMMA AloneNames ==
    ASSUME TextInv, NEW p \in Place, NEW cmd, NEW word, cmd \notin WithArguments,
           word \in Seq(Symbol), Keyword(cmd) = word
    PROVE  Names(Job!Alone(word, cmd, p), p)
<1> DEFINE q == p + Len(word)
           token == Job!Alone(word, cmd, p)
<1>1. CASE Job!Starts(p, word) /\ Job!Char(q) \in {Job!Newline, Job!EndOfFile}
  <2>1. token.cmd = cmd /\ token.pos = Job!After(q, 1)
    BY <1>1 DEF Job!Alone, Job!Token
  <2>2. Spells(word, p, q) /\ q \in Place
    BY <1>1, StartsIs
  <2> HIDE DEF q, token
  <2>3. q <= Job!After(q, 1)
    BY <2>2, AfterIs, Places
  <2> QED
    BY <2>1, <2>2, <2>3 DEF Names, token
<1>2. CASE ~(Job!Starts(p, word) /\ Job!Char(q) \in {Job!Newline, Job!EndOfFile})
  <2>1. token.cmd = "INVALID"
    BY <1>2 DEF Job!Alone, Job!Invalid, Job!Token
  <2> QED
    BY <2>1 DEF Names
<1> QED
  BY <1>1, <1>2

\* The keywords are made of characters.
LEMMA KeywordsAre ==
    /\ \A op \in {"WRITE", "READ", "DELETE", "WAIT", "SHOW", "BACKUP", "HELP",
                  "SUBSCRIBE", "UNSUBSCRIBE", "DELAY", "DISCONNECT"} :
          Keyword(op) \in Seq(Symbol)
    /\ Keyword("WRITE") = Job!WRITE /\ Keyword("READ") = Job!READ
    /\ Keyword("DELETE") = Job!DELETE /\ Keyword("WAIT") = Job!WAIT
    /\ Keyword("SHOW") = Job!SHOW /\ Keyword("BACKUP") = Job!BACKUP
    /\ Keyword("HELP") = Job!HELP
    /\ Keyword("SUBSCRIBE") = Client!SUBSCRIBE
    /\ Keyword("UNSUBSCRIBE") = Client!UNSUBSCRIBE
    /\ Keyword("DELAY") = Client!DELAY
    /\ Keyword("DISCONNECT") = Client!DISCONNECT
<1> DEFINE words == Seq(KeywordLetters)
<1>2. /\ Job!WRITE \in words /\ Job!READ \in words /\ Job!DELETE \in words
      /\ Job!WAIT \in words /\ Job!SHOW \in words /\ Job!BACKUP \in words
      /\ Job!HELP \in words
  <2>1. Job!WRITE \in words /\ Job!READ \in words
    BY DEF Job!WRITE, Job!READ, KeywordLetters
  <2>2. Job!DELETE \in words /\ Job!WAIT \in words
    BY DEF Job!DELETE, Job!WAIT, KeywordLetters
  <2>3. Job!SHOW \in words /\ Job!BACKUP \in words /\ Job!HELP \in words
    BY DEF Job!SHOW, Job!BACKUP, Job!HELP, KeywordLetters
  <2> HIDE DEF words
  <2> QED
    BY <2>1, <2>2, <2>3
<1>3. /\ Client!SUBSCRIBE \in words /\ Client!DELAY \in words
      /\ Client!DISCONNECT \in words /\ <<"U", "N">> \in words
  BY DEF Client!SUBSCRIBE, Client!DELAY, Client!DISCONNECT, KeywordLetters
<1>4. Client!UNSUBSCRIBE \in words
  BY <1>3, ConcatProperties DEF Client!UNSUBSCRIBE
<1>5. words \subseteq Seq(Symbol)
  BY WordsAre DEF Symbol
<1> HIDE DEF words
<1>6. /\ Keyword("WRITE") = Job!WRITE /\ Keyword("READ") = Job!READ
      /\ Keyword("DELETE") = Job!DELETE /\ Keyword("WAIT") = Job!WAIT
      /\ Keyword("SHOW") = Job!SHOW /\ Keyword("BACKUP") = Job!BACKUP
      /\ Keyword("HELP") = Job!HELP
      /\ Keyword("SUBSCRIBE") = Client!SUBSCRIBE
      /\ Keyword("UNSUBSCRIBE") = Client!UNSUBSCRIBE
      /\ Keyword("DELAY") = Client!DELAY
      /\ Keyword("DISCONNECT") = Client!DISCONNECT
  BY DEF Keyword
<1> QED
  BY <1>2, <1>3, <1>4, <1>5, <1>6

\* Each token of the server is named by its keyword,
LEMMA JobTokenNames ==
    ASSUME TextInv, NEW p \in Place
    PROVE  Names(Job!get_next(p), p)
<1>1. CASE Job!Char(p) = Job!EndOfFile
  BY <1>1 DEF Job!get_next, Job!Token, Names
<1>2. CASE Job!Char(p) # Job!EndOfFile
  <2>1. /\ Names(Job!Keyword(Job!WRITE, "WRITE", p), p)
        /\ Names(Job!Keyword(Job!READ, "READ", p), p)
        /\ Names(Job!Keyword(Job!DELETE, "DELETE", p), p)
    <3>1. /\ Job!WRITE \in Seq(Symbol) /\ Job!READ \in Seq(Symbol)
          /\ Job!DELETE \in Seq(Symbol)
      BY KeywordsAre
    <3> QED
      BY <3>1, KeywordsAre, KeywordNames
  <2>2. /\ Names(Job!Alone(Job!SHOW, "SHOW", p), p)
        /\ Names(Job!Alone(Job!BACKUP, "BACKUP", p), p)
        /\ Names(Job!Alone(Job!HELP, "HELP", p), p)
    <3>1. /\ Job!SHOW \in Seq(Symbol) /\ Job!BACKUP \in Seq(Symbol)
          /\ Job!HELP \in Seq(Symbol)
      BY KeywordsAre
    <3>2. {"SHOW", "BACKUP", "HELP"} \cap WithArguments = {}
      BY DEF WithArguments
    <3> QED
      BY <3>1, <3>2, KeywordsAre, AloneNames
  <2>3. Job!Starts(p, Job!WAIT) => Names(Job!Token("WAIT", p + Len(Job!WAIT)), p)
    <3>1. Job!WAIT \in Seq(Symbol) /\ Keyword("WAIT") = Job!WAIT
      BY KeywordsAre
    <3>2. Len(Job!WAIT) \in Nat /\ p \in Nat
      BY <3>1, LenProperties, Places
    <3> QED
      BY <3>1, <3>2, StartsIs DEF Names, Job!Token
  <2>4. \A q : Names(Job!Token("EMPTY", q), p) /\ Names(Job!Invalid(q), p)
    BY DEF Names, Job!Token, Job!Invalid
  <2> QED
    BY <1>2, <2>1, <2>2, <2>3, <2>4 DEF Job!get_next, Job!Command
<1> QED
  BY <1>1, <1>2

\* and each token of the client.
LEMMA ClientTokenNames ==
    ASSUME TextInv, NEW p \in Place
    PROVE  Names(Client!get_next(p), p)
<1>1. /\ Names(Client!Keyword(Client!SUBSCRIBE, "SUBSCRIBE", p), p)
      /\ Names(Client!Keyword(Client!UNSUBSCRIBE, "UNSUBSCRIBE", p), p)
  <2>1. Client!SUBSCRIBE \in Seq(Symbol) /\ Client!UNSUBSCRIBE \in Seq(Symbol)
    BY KeywordsAre
  <2> QED
    BY <2>1, KeywordsAre, KeywordNames, SameTokens
<1>2. Names(Client!Alone(Client!DISCONNECT, "DISCONNECT", p), p)
  <2>1. Client!DISCONNECT \in Seq(Symbol) /\ "DISCONNECT" \notin WithArguments
    BY KeywordsAre DEF WithArguments
  <2> QED
    BY <2>1, KeywordsAre, AloneNames, SameTokens
<1>3. Client!Starts(p, Client!DELAY) =>
         Names(Client!Token("DELAY", p + Len(Client!DELAY)), p)
  <2>1. Client!DELAY \in Seq(Symbol) /\ Keyword("DELAY") = Client!DELAY
    BY KeywordsAre
  <2>2. Len(Client!DELAY) \in Nat /\ p \in Nat
    BY <2>1, LenProperties, Places
  <2>3. Client!Starts(p, Client!DELAY) => Job!Starts(p, Client!DELAY)
    BY SameReader DEF Client!Starts, Job!Starts
  <2> QED
    BY <2>1, <2>2, <2>3, StartsIs DEF Names, Client!Token
<1>4. \A q : /\ Names(Client!Token("EMPTY", q), p) /\ Names(Client!Invalid(q), p)
             /\ Names(Client!Token("EOC", q), p)
  BY DEF Names, Client!Token, Client!Invalid
<1> HIDE DEF Names
<1> QED
  BY <1>1, <1>2, <1>3, <1>4 DEF Client!get_next

\* The text has no '\0' from p up to q.
Clean(p, q) == \A i \in p .. q - 1 : text[i] # Job!Nul

\* The text has `word' somewhere from p up to q.
Within(word, p, q) ==
    \E a \in Place, b \in Place : p <= a /\ b <= q /\ Spells(word, a, b)

\* It has each of the strings.
Holds(strings, p, q) ==
    /\ strings \in Seq(Seq(Symbol))
    /\ \A k \in 1 .. Len(strings) : Within(strings[k], p, q)

\* So it has up to a later place.
LEMMA HoldsLater ==
    ASSUME TextInv, NEW strings, NEW p \in Place, NEW q \in Place,
           Holds(strings, p, q), NEW o \in Place, NEW r \in Place, o <= p, q <= r
    PROVE  Holds(strings, o, r)
<1>1. Place \subseteq Nat
  BY Places
<1>2. ASSUME NEW word, Within(word, p, q) PROVE Within(word, o, r)
  <2>1. PICK a \in Place, b \in Place : p <= a /\ b <= q /\ Spells(word, a, b)
    BY <1>2 DEF Within
  <2>2. o <= a /\ b <= r
    BY <1>1, <2>1
  <2> QED
    BY <2>1, <2>2 DEF Within
<1> QED
  BY <1>2 DEF Holds

\* Where there is no '\0' all of them is copied.
LEMMA HoldsUncut ==
    ASSUME TextInv, NEW strings, NEW p \in Place, NEW q \in Place,
           Holds(strings, p, q), Clean(p, q)
    PROVE  Job!Copied(strings) = strings
<1>1. Place \subseteq Nat
  BY Places
<1>2. ASSUME NEW word, Within(word, p, q) PROVE Uncut(word)
  <2>1. PICK a \in Place, b \in Place : p <= a /\ b <= q /\ Spells(word, a, b)
    BY <1>2 DEF Within
  <2>2. /\ b = a + Len(word) /\ Len(word) \in Nat
        /\ \A i \in 1 .. Len(word) : text[a + i - 1] = word[i]
    BY <2>1, LenProperties DEF Spells
  <2>3. ASSUME NEW i \in 1 .. Len(word) PROVE word[i] # Job!Nul
    <3>1. a + i - 1 \in p .. q - 1
      BY <1>1, <2>1, <2>2
    <3> QED
      BY <2>2, <3>1 DEF Clean
  <2> QED
    BY <2>3 DEF Uncut
<1>3. strings \in Seq(Seq(Symbol)) /\ \A k \in 1 .. Len(strings) : Uncut(strings[k])
  BY <1>2 DEF Holds
<1> QED
  BY <1>3, CopiedSame

\* A string that a separator closes is what the text has up to that.
LEMMA StringSpelled ==
    ASSUME TextInv, NEW p \in Place,
           Job!read_string(p).closed \in Job!Separators
    PROVE  /\ Job!read_string(p).pos \in Place
           /\ \E q \in Place : /\ Spells(Job!read_string(p).string, p, q)
                               /\ Spells(<<Job!read_string(p).closed>>, q,
                                         Job!read_string(p).pos)
<1> DEFINE Stops(q) == Job!Char(q) \in Job!Separators \cup {" ", Job!EndOfFile}
           S == {q \in p .. p + MAX_STRING_SIZE :
                    q = p + MAX_STRING_SIZE \/ Stops(q)}
           stop == Job!Min(S)
           full == stop = p + MAX_STRING_SIZE
           r == Job!read_string(p)
<1>1. /\ Job!End \in Nat /\ p \in Nat /\ p > 0 /\ p <= Job!End
      /\ MAX_STRING_SIZE \in Nat
  BY Places, CommandLoopsAssumption DEF Place
<1> DEFINE closed == IF full THEN "full" ELSE Job!Char(stop)
           after == IF full THEN stop ELSE Job!After(stop, 1)
           string == SubSeq(text, p, stop - 1)
<1>2. r.string = string /\ r.closed = closed /\ r.pos = after
  <2>1. r = [string |-> string, closed |-> closed, pos |-> after]
    BY DEF Job!read_string
  <2> HIDE DEF r, string, closed, after
  <2> QED
    BY <2>1
<1> HIDE DEF Stops
<1>3. S \in SUBSET Nat /\ p + MAX_STRING_SIZE \in S
  BY <1>1
<1>4. stop \in S
  <2> HIDE DEF S
  <2> QED
    BY <1>3, MinIsLeast
<1>5. stop \in p .. p + MAX_STRING_SIZE
  BY <1>4
<1> HIDE DEF stop, r
<1>6. ~full /\ r.closed = Job!Char(stop) /\ r.pos = Job!After(stop, 1)
      /\ r.closed \in Symbol \ {Job!EndOfFile}
  <2>1. r.closed \in {",", ")", "]"}
    BY DEF r, Job!Separators
  <2>2. "full" \notin {",", ")", "]"} /\ Job!EndOfFile \notin {",", ")", "]"}
    BY DEF Job!EndOfFile
  <2>3. {",", ")", "]"} \subseteq Symbol
    BY DEF Symbol, Marks
  <2> QED
    BY <1>2, <2>1, <2>2, <2>3
<1>7. stop \in Place
  <2>1. stop < Job!End
    BY <1>1, <1>5, <1>6, Places
  <2> QED
    BY <1>1, <1>5, <2>1 DEF Place
<1>8. Spells(r.string, p, stop)
  BY <1>1, <1>2, <1>5, <1>7, SpellsPart
<1>9. Spells(<<r.closed>>, stop, r.pos) /\ r.pos \in Place
  BY <1>6, <1>7, SpellsCharacter
<1> QED
  BY <1>7, <1>8, <1>9 DEF r

\* Strings are joined one after the other.
LEMMA JoinedOne ==
    ASSUME NEW strings, DOMAIN strings = 1 .. 1
    PROVE  Joined(strings) = strings[1]
<1> DEFINE parts == [i \in 1 .. 1 |-> IF i = 1 THEN strings[i]
                                      ELSE <<",">> \o strings[i]]
<1>1. Len(parts) = 1 /\ parts[1] = strings[1]
  OBVIOUS
<1>2. Joined(strings) = FlattenSeq(parts)
  BY DEF Joined
<1> HIDE DEF parts
<1> QED
  BY <1>1, <1>2, FlattenOnly

\* One more string is joined with a comma.
LEMMA JoinedMore ==
    ASSUME NEW n \in Nat \ {0}, NEW some, NEW all,
           DOMAIN some = 1 .. n, DOMAIN all = 1 .. n + 1,
           \A i \in 1 .. n : all[i] = some[i]
    PROVE  Joined(all) = Joined(some) \o (<<",">> \o all[n + 1])
<1> DEFINE part(s, i) == IF i = 1 THEN s[i] ELSE <<",">> \o s[i]
           a == [i \in 1 .. n |-> part(some, i)]
           b == [i \in 1 .. n + 1 |-> part(all, i)]
           m == n + 1
           new == <<",">> \o all[m]
<1>1. Extends(b, a, n) /\ b[m] = new
  <2>1. \A i \in 1 .. n : part(all, i) = part(some, i)
    OBVIOUS
  <2>2. m \in 1 .. n + 1 /\ m # 1 /\ n \in Nat /\ m \in Nat
    OBVIOUS
  <2>3. part(all, m) = <<",">> \o all[m]
    BY <2>2
  <2> HIDE DEF part
  <2>4. Len(a) = n /\ Len(b) = m
    BY <2>2
  <2>5. \A i \in 1 .. n : b[i] = a[i]
    BY <2>1
  <2>6. b[m] = new
    BY <2>2, <2>3
  <2> HIDE DEF a, b
  <2> QED
    BY <2>4, <2>5, <2>6 DEF Extends
<1>2. Joined(some) = FlattenSeq(a) /\ Joined(all) = FlattenSeq(b)
  BY DEF Joined
<1> HIDE DEF a, b
<1>3. FlattenSeq(b) = FlattenSeq(a) \o b[m]
  BY <1>1, FlattenExtends, Zenon
<1> HIDE DEF m, new
<1> QED
  BY <1>1, <1>2, <1>3 DEF m, new

\* The keys of a list are read one behind the other.
LEMMA KeysFollow ==
    ASSUME NEW p, NEW max \in Nat, NEW key,
           key = [n \in 1 .. max |->
                    Job!read_string(IF n = 1 THEN p ELSE key[n - 1].pos)]
    PROVE  /\ max >= 1 => key[1] = Job!read_string(p)
           /\ \A n \in 1 .. max - 1 : key[n + 1] = Job!read_string(key[n].pos)
<1> DEFINE from(n) == IF n = 1 THEN p ELSE key[n - 1].pos
<1>1. \A n \in 1 .. max : key[n] = Job!read_string(from(n))
  OBVIOUS
<1>2. from(1) = p
  OBVIOUS
<1>3. ASSUME NEW n \in 1 .. max - 1
      PROVE  from(n + 1) = key[n].pos /\ n + 1 \in 1 .. max
  OBVIOUS
<1> HIDE DEF from
<1>4. max >= 1 => 1 \in 1 .. max
  OBVIOUS
<1> QED
  BY <1>1, <1>2, <1>3, <1>4

\* A key that another one follows.
More(string) == string.closed = ","

\* That the prover can tell such keys only by their name keeps it to the point.
LEMMA MoreIs ==
    ASSUME NEW string, More(string)
    PROVE  string.closed \in Job!Separators /\ <<string.closed>> = <<",">>
<1>1. string.closed = ","
  BY DEF More
<1>2. "," \in Job!Separators
  BY DEF Job!Separators
<1> QED
  BY <1>1, <1>2, Zenon

\* A sequence of keys, each but the last closed by a comma, is what the text
\* has up to the separator behind the last one.
LEMMA KeysSpelled ==
    ASSUME TextInv, NEW p \in Place, NEW max \in Nat, NEW key,
           key[1] = Job!read_string(p),
           \A n \in 1 .. max - 1 : key[n + 1] = Job!read_string(key[n].pos),
           NEW last \in 1 .. max, \A n \in 1 .. last - 1 : More(key[n]),
           key[last].closed \in Job!Separators
    PROVE  /\ key[last].pos \in Place
           /\ \E q \in Place : /\ Spells(Joined([k \in 1 .. last |-> key[k].string]), p, q)
                               /\ Spells(<<key[last].closed>>, q, key[last].pos)
           /\ Holds([k \in 1 .. last |-> key[k].string], p, key[last].pos)
<1> DEFINE strings(n) == [k \in 1 .. n |-> key[k].string]
           To(n) == /\ key[n].pos \in Place
                    /\ \A k \in 1 .. n : Within(key[k].string, p, key[n].pos)
                    /\ \E q \in Place : /\ Spells(Joined(strings(n)), p, q)
                                        /\ Spells(<<key[n].closed>>, q, key[n].pos)
           T == {n \in Nat : n + 1 \in 1 .. last => To(n + 1)}
<1>0. max \in Nat /\ last \in Nat /\ last >= 1 /\ last <= max
  OBVIOUS
<1>2. \A n \in 1 .. last : key[n].closed \in Job!Separators
  <2> TAKE n \in 1 .. last
  <2>1. n = last \/ n \in 1 .. last - 1
    BY <1>0
  <2> QED
    BY <2>1, MoreIs
<1>3. 0 \in T
  <2>1. key[1].pos \in Place
        /\ \E q \in Place : /\ Spells(key[1].string, p, q)
                            /\ Spells(<<key[1].closed>>, q, key[1].pos)
    <3>1. Job!read_string(p).closed \in Job!Separators
      BY <1>0, <1>2
    <3> QED
      BY <3>1, StringSpelled
  <2>2. Joined(strings(1)) = key[1].string
    <3>1. DOMAIN strings(1) = 1 .. 1 /\ strings(1)[1] = key[1].string
      OBVIOUS
    <3> HIDE DEF strings
    <3> QED
      BY <3>1, JoinedOne
  <2>3. \A k \in 1 .. 1 : Within(key[k].string, p, key[1].pos)
    <3>1. PICK q \in Place : /\ Spells(key[1].string, p, q)
                             /\ Spells(<<key[1].closed>>, q, key[1].pos)
      BY <2>1
    <3>3. p \in Nat /\ q <= key[1].pos
      BY <3>1, SpellsAhead
    <3>2. p <= p /\ q <= key[1].pos
      BY <3>3
    <3> QED
      BY <3>1, <3>2 DEF Within
  <2> QED
    BY <2>1, <2>2, <2>3
<1>4. ASSUME NEW n \in Nat, n \in T PROVE n + 1 \in T
  <2> SUFFICES ASSUME (n + 1) + 1 \in 1 .. last PROVE To((n + 1) + 1)
    OBVIOUS
  <2> DEFINE m == n + 1
  <2>1. m \in Nat \ {0} /\ m \in 1 .. last - 1 /\ m \in 1 .. last /\ m \in 1 .. max - 1
        /\ m + 1 \in 1 .. last /\ m = n + 1
    BY <1>0
  <2>2. To(m)
    BY <1>4, <2>1
  <2> HIDE DEF To, m
  <2>3. PICK q \in Place : /\ Spells(Joined(strings(m)), p, q)
                           /\ Spells(<<key[m].closed>>, q, key[m].pos)
    BY <2>2 DEF To
  <2>4. <<key[m].closed>> = <<",">> /\ key[m].pos \in Place
    BY <2>1, <2>2, MoreIs DEF To
  <2>5. key[m + 1] = Job!read_string(key[m].pos)
        /\ key[m + 1].closed \in Job!Separators
    BY <1>2, <2>1
  <2>6. /\ key[m + 1].pos \in Place
        /\ \E r \in Place : /\ Spells(key[m + 1].string, key[m].pos, r)
                            /\ Spells(<<key[m + 1].closed>>, r, key[m + 1].pos)
    BY <2>4, <2>5, StringSpelled
  <2>7. PICK r \in Place : /\ Spells(key[m + 1].string, key[m].pos, r)
                           /\ Spells(<<key[m + 1].closed>>, r, key[m + 1].pos)
    BY <2>6
  <2>8. Spells(<<",">> \o key[m + 1].string, q, r)
    BY <2>3, <2>4, <2>7, SpellsJoin
  <2>9. Spells(Joined(strings(m)) \o (<<",">> \o key[m + 1].string), p, r)
    BY <2>3, <2>8, SpellsJoin
  <2>10. Joined(strings(m + 1)) = Joined(strings(m)) \o (<<",">> \o key[m + 1].string)
    <3>1. /\ DOMAIN strings(m) = 1 .. m /\ DOMAIN strings(m + 1) = 1 .. m + 1
          /\ \A i \in 1 .. m : strings(m + 1)[i] = strings(m)[i]
          /\ strings(m + 1)[m + 1] = key[m + 1].string
      BY <2>1
    <3> DEFINE some == strings(m)
               all == strings(m + 1)
    <3> HIDE DEF strings
    <3>2. Joined(all) = Joined(some) \o (<<",">> \o all[m + 1])
      <4> HIDE DEF some, all
      <4> QED
        BY <2>1, <3>1, JoinedMore DEF some, all
    <3> QED
      BY <3>1, <3>2
  <2>12. /\ p <= key[m].pos /\ key[m].pos <= key[m].pos
         /\ key[m].pos <= r /\ r <= key[m + 1].pos
    <3>1. p <= q /\ q <= key[m].pos /\ q \in Nat /\ p \in Nat /\ key[m].pos \in Nat
      BY <2>3, SpellsAhead
    <3>2. key[m].pos <= r /\ r <= key[m + 1].pos
      BY <2>4, <2>7, SpellsAhead
    <3>3. p <= key[m].pos /\ key[m].pos <= key[m].pos
      BY <3>1
    <3> QED
      BY <3>2, <3>3
  <2>13. \A k \in 1 .. m : Within(key[k].string, p, key[m + 1].pos)
    <3>1. \A k \in 1 .. m : Within(key[k].string, p, key[m].pos)
      BY <2>2 DEF To
    <3>3. key[m].pos \in Nat /\ key[m + 1].pos \in Nat /\ key[m].pos <= key[m + 1].pos
      <4>1. r \in Nat /\ key[m].pos \in Nat /\ key[m + 1].pos \in Nat
        BY <2>4, <2>7, SpellsAhead
      <4> QED
        BY <2>12, <4>1
    <3>4. Place \subseteq Nat
      BY Places
    <3>2. \A b \in Place : b <= key[m].pos => b <= key[m + 1].pos
      BY <3>3, <3>4
    <3> QED
      BY <3>1, <3>2 DEF Within
  <2>14. Within(key[m + 1].string, p, key[m + 1].pos)
    BY <2>4, <2>7, <2>12 DEF Within
  <2>15. \A k \in 1 .. m + 1 : Within(key[k].string, p, key[m + 1].pos)
    <3> TAKE k \in 1 .. m + 1
    <3>1. k \in 1 .. m \/ k = m + 1
      BY <2>1
    <3> QED
      BY <2>13, <2>14, <3>1
  <2>11. To(m + 1)
    BY <2>6, <2>7, <2>9, <2>10, <2>15 DEF To
  <2> QED
    BY <2>11 DEF m
<1> HIDE DEF To
<1>5. \A n \in Nat : n \in T
  <2> HIDE DEF T
  <2> QED
    BY <1>3, <1>4, Induction
<1>6. To(last)
  <2>1. last - 1 \in T /\ (last - 1) + 1 = last
    BY <1>0, <1>5
  <2> QED
    BY <2>1
<1>7. Holds(strings(last), p, key[last].pos)
  <2>1. \A k \in 1 .. last : Within(key[k].string, p, key[last].pos)
    BY <1>6 DEF To
  <2>2. \A k \in 1 .. last : key[k].string \in Seq(Symbol)
    BY <2>1 DEF Within, Spells
  <2> DEFINE string(k) == key[k].string
             all == [k \in 1 .. last |-> string(k)]
  <2> HIDE DEF string
  <2>3. all \in Seq(Seq(Symbol)) /\ Len(all) = last /\ \A k \in 1 .. last : all[k] = string(k)
    BY <1>0, <2>2, TableIsSeq DEF string
  <2> HIDE DEF all
  <2>4. Holds(all, p, key[last].pos)
    BY <2>1, <2>3 DEF Holds, string
  <2> QED
    BY <2>4 DEF all, string
<1> QED
  BY <1>6, <1>7 DEF To

\* What the last key of a list was closed by.
Closed(list, mark) == list.closed = mark

\* A list that is closed by a bracket is what the text has up to that.
LEMMA ListSpelled ==
    ASSUME TextInv, NEW p \in Place, NEW max \in Nat \ {0},
           Closed(Job!KeyList(p, max), "]")
    PROVE  /\ Job!KeyList(p, max).pos \in Place
           /\ \E q \in Place : /\ Spells(Joined(Job!KeyList(p, max).keys), p, q)
                               /\ Spells(<<"]">>, q, Job!KeyList(p, max).pos)
           /\ Holds(Job!KeyList(p, max).keys, p, Job!KeyList(p, max).pos)
<1> DEFINE key == CHOOSE key : key = [n \in 1 .. max |->
                     Job!read_string(IF n = 1 THEN p ELSE key[n - 1].pos)]
           Goes(k) == key[k].closed = ","
           S == {k \in 1 .. max : k = max \/ ~Goes(k)}
           n == Job!Min(S)
           keys == [k \in 1 .. n |-> key[k].string]
           list == Job!KeyList(p, max)
<1>0. max \in Nat /\ max >= 1
  OBVIOUS
<1>1. key = [k \in 1 .. max |->
               Job!read_string(IF k = 1 THEN p ELSE key[k - 1].pos)]
  BY <1>0, KeysExist
<1>2. list = [keys |-> keys, closed |-> key[n].closed, pos |-> key[n].pos]
  BY DEF Job!KeyList
<1> HIDE DEF key, list
<1>3. /\ key[1] = Job!read_string(p)
      /\ \A k \in 1 .. max - 1 : key[k + 1] = Job!read_string(key[k].pos)
  BY <1>0, <1>1, KeysFollow
<1> HIDE DEF Goes
<1>4. S \in SUBSET Nat /\ max \in S
  BY <1>0
<1>5. n \in S /\ \A k \in S : n <= k
  <2> HIDE DEF S
  <2> QED
    BY <1>4, MinIsLeast
<1>6. n \in 1 .. max /\ \A k \in 1 .. n - 1 : Goes(k)
  <2>1. n \in 1 .. max
    BY <1>5
  <2> QED
    BY <1>0, <1>5, <2>1
<1>7. \A k \in 1 .. n - 1 : More(key[k])
  BY <1>6 DEF Goes, More
<1> HIDE DEF n, keys
<1>8. list.keys = keys /\ list.closed = key[n].closed /\ list.pos = key[n].pos
  BY <1>2
<1>9. key[n].closed \in Job!Separators /\ <<key[n].closed>> = <<"]">>
  <2>1. key[n].closed = "]"
    BY <1>8 DEF list, Closed
  <2>2. "]" \in Job!Separators
    BY DEF Job!Separators
  <2> QED
    BY <2>1, <2>2, Zenon
<1>10. /\ key[n].pos \in Place
       /\ \E q \in Place : /\ Spells(Joined([k \in 1 .. n |-> key[k].string]), p, q)
                           /\ Spells(<<key[n].closed>>, q, key[n].pos)
       /\ Holds([k \in 1 .. n |-> key[k].string], p, key[n].pos)
  <2>1. max \in Nat
    OBVIOUS
  <2> QED
    BY <1>3, <1>6, <1>7, <1>9, <2>1, KeysSpelled
<1> QED
  BY <1>8, <1>9, <1>10 DEF keys, list

\* A list that goes on has no room for another key.
LEMMA FullList ==
    ASSUME NEW p, NEW max \in Nat \ {0}, More(Job!KeyList(p, max))
    PROVE  Len(Job!KeyList(p, max).keys) = max
<1> DEFINE key == CHOOSE key : key = [n \in 1 .. max |->
                     Job!read_string(IF n = 1 THEN p ELSE key[n - 1].pos)]
           Stops(k) == key[k].closed # ","
           S == {k \in 1 .. max : k = max \/ Stops(k)}
           n == Job!Min(S)
           keys == [k \in 1 .. n |-> key[k].string]
           list == Job!KeyList(p, max)
<1>1. list = [keys |-> keys, closed |-> key[n].closed, pos |-> key[n].pos]
  BY DEF Job!KeyList
<1> HIDE DEF Stops
<1>0. max \in Nat /\ max >= 1
  OBVIOUS
<1>2. max \in S /\ S \in SUBSET Nat
  BY <1>0
<1>3. n \in S
  <2> HIDE DEF S
  <2> QED
    BY <1>2, MinIsLeast
<1> HIDE DEF key, n, keys, list
<1>4. list.keys = keys /\ list.closed = key[n].closed
  BY <1>1
<1>5. ~Stops(n)
  BY <1>4 DEF list, Stops, More
<1>6. n = max /\ n \in Nat
  BY <1>0, <1>3, <1>5
<1>7. Len(keys) = n
  <2> DEFINE string(k) == key[k].string
  <2>1. keys = [k \in 1 .. n |-> string(k)]
    BY DEF keys
  <2> HIDE DEF string
  <2> QED
    BY <1>6, <2>1
<1> QED
  BY <1>4, <1>6, <1>7 DEF list

\* A command that is accepted ends with a newline, or with a '\0'.
LEMMA LineEndSpelled ==
    ASSUME TextInv, NEW p \in Place, NEW o \in Place, o <= p, NEW args,
           Clean(o, Job!LineEnd(args, p).pos), Job!LineEnd(args, p).args # <<>>
    PROVE  /\ Job!LineEnd(args, p).args = args
           /\ Spells(<<"\n">>, p, Job!LineEnd(args, p).pos)
<1>1. CASE Job!Char(p) = Job!Newline
  <2>1. "\n" \in Symbol \ {Job!EndOfFile} /\ Job!Char(p) = "\n"
    BY <1>1 DEF Symbol, Marks, Job!EndOfFile, Job!Newline
  <2>2. Spells(<<"\n">>, p, p + 1) /\ Job!After(p, 1) = p + 1
    BY <2>1, SpellsCharacter
  <2>3. Job!LineEnd(args, p) = [args |-> args, pos |-> p + 1]
    BY <1>1, <2>2 DEF Job!LineEnd, Job!Accept
  <2> QED
    BY <2>2, <2>3
<1>3. CASE Job!Char(p) = Job!Nul
  <2>1. o \in Nat /\ p \in Nat /\ p <= Job!End /\ Job!End \in Nat /\ 1 \in Nat
    BY Places DEF Place
  <2>2. p < Job!End
    <3>1. Job!EndOfFile # Job!Nul
      BY DEF Job!Nul, Job!EndOfFile
    <3>2. p >= Job!End => Job!Char(p) = Job!EndOfFile
      BY <2>1, Places
    <3> QED
      BY <1>3, <2>1, <3>1, <3>2
  <2>7. Job!After(p, 1) = p + 1
    <3>1. 1 \in Nat /\ p + 1 <= Job!End
      BY <2>1, <2>2
    <3> QED
      BY <3>1, AfterIs
  <2>3. text[p] = Job!Nul /\ Job!After(p, 1) = p + 1
    BY <1>3, <2>2, <2>7, Places
  <2>4. Job!LineEnd(args, p) = [args |-> args, pos |-> p + 1]
    BY <1>3, <2>3 DEF Job!LineEnd, Job!Accept
  <2>5. Clean(o, p + 1)
    BY <2>4
  <2>6. p \in o .. (p + 1) - 1
    BY <2>1
  <2> QED
    BY <2>3, <2>5, <2>6 DEF Clean
<1>2. CASE Job!Char(p) \notin {Job!Newline, Job!Nul}
  <2>1. Job!LineEnd(args, p) = Job!Reject(Job!After(p, 1))
    BY <1>2 DEF Job!LineEnd
  <2>2. Job!LineEnd(args, p).args = <<>>
    BY <2>1 DEF Job!Reject, Job!Accept
  <2> QED
    BY <2>2
<1> QED
  BY <1>1, <1>2, <1>3

\* The bracket and the newline behind it.
LEMMA SpellsTwo ==
    ASSUME TextInv, NEW p \in Place, NEW q, NEW r, NEW a, NEW b,
           Spells(<<a>>, p, q), Spells(<<b>>, q, r)
    PROVE  Spells(<<a, b>>, p, r)
<1>1. <<a>> \o <<b>> = <<a, b>>
  <2> DEFINE S == {a, b}
             one == <<a>>
             other == <<b>>
             both == <<a, b>>
  <2>1. /\ one \in Seq(S) /\ other \in Seq(S) /\ both \in Seq(S)
        /\ Len(one) = 1 /\ Len(other) = 1 /\ Len(both) = 2
        /\ one[1] = a /\ other[1] = b /\ both[1] = a /\ both[2] = b
    OBVIOUS
  <2> HIDE DEF one, other, both
  <2>2. /\ one \o other \in Seq(S) /\ Len(one \o other) = 2
        /\ (one \o other)[1] = a /\ (one \o other)[2] = b
    BY <2>1, ConcatProperties
  <2>3. one \o other = both
    BY <2>1, <2>2, SeqEqual
  <2> QED
    BY <2>3 DEF one, other, both
<1> QED
  BY <1>1, SpellsJoin

\* A list in brackets.
LEMMA BracketsSpelled ==
    ASSUME TextInv, NEW p \in Place, NEW max \in Nat \ {0}, Job!Char(p) = "[",
           NEW list, list = Job!KeyList(p + 1, max), Closed(list, "]"),
           NEW keys, keys = Job!Copied(list.keys),
           NEW result, result = Job!LineEnd(keys, list.pos),
           result.args # <<>>, Clean(p, result.pos)
    PROVE  /\ Spells(<<"[">> \o Joined(result.args) \o <<"]", "\n">>, p, result.pos)
           /\ result.pos \in Place
<1>1. "[" \in Symbol \ {Job!EndOfFile}
  BY DEF Symbol, Marks, Job!EndOfFile
<1>2. Spells(<<"[">>, p, p + 1) /\ p + 1 \in Place
  BY <1>1, SpellsCharacter
<1>3. list.pos \in Place /\ Holds(list.keys, p + 1, list.pos)
  BY <1>2, ListSpelled
<1>4. PICK q \in Place : Spells(Joined(list.keys), p + 1, q) /\ Spells(<<"]">>, q, list.pos)
  BY <1>2, ListSpelled
<1>9. p <= list.pos /\ p <= p + 1 /\ p + 1 <= list.pos
  <2>1. p \in Nat /\ q \in Nat /\ p + 1 <= q /\ q <= list.pos /\ list.pos \in Nat
    BY <1>2, <1>4, SpellsAhead, Places
  <2> QED
    BY <2>1
<1>10. result.args = keys /\ Spells(<<"\n">>, list.pos, result.pos)
  BY <1>3, <1>9, LineEndSpelled
<1>11. list.pos <= result.pos /\ result.pos \in Place
  BY <1>3, <1>4, <1>10, SpellsJoin
<1>12. Clean(p + 1, list.pos)
  <2>1. p \in Nat /\ list.pos \in Nat /\ result.pos \in Nat
    BY <1>3, <1>11, Places
  <2>2. \A i \in p + 1 .. list.pos - 1 : i \in p .. result.pos - 1
    BY <1>11, <2>1
  <2> QED
    BY <2>2 DEF Clean
<1>5. result.args = list.keys /\ Spells(<<"\n">>, list.pos, result.pos)
  BY <1>2, <1>3, <1>10, <1>12, HoldsUncut
<1>6. Spells(<<"]", "\n">>, q, result.pos)
  BY <1>4, <1>5, SpellsTwo
<1>7. Spells(<<"[">> \o Joined(list.keys), p, q)
  BY <1>2, <1>4, SpellsJoin
<1>8. Spells((<<"[">> \o Joined(list.keys)) \o <<"]", "\n">>, p, result.pos)
      /\ result.pos \in Place
  BY <1>6, <1>7, SpellsJoin
<1> QED
  BY <1>5, <1>8

\* The commands whose arguments are a list.
Lists == {"READ", "DELETE", "SUBSCRIBE", "UNSUBSCRIBE"}

\* The keys of a READ or a DELETE: a list that goes on is too long.
LEMMA ReadDeleteSpelled ==
    ASSUME TextInv, NEW p \in Place, NEW op \in Lists,
           Job!parse_read_delete(p).args # <<>>,
           Clean(p, Job!parse_read_delete(p).pos)
    PROVE  Spells(Arguments(op, Job!parse_read_delete(p).args), p,
                  Job!parse_read_delete(p).pos)
<1> DEFINE list == Job!KeyList(p + 1, MAX_WRITE_SIZE)
           keys == Job!Copied(list.keys)
           result == Job!parse_read_delete(p)
<1>1. MAX_WRITE_SIZE \in Nat \ {0}
  BY CommandLoopsAssumption
<1>2. result = CASE Job!Char(p) # "[" -> Job!Reject(Job!After(p, 1))
                 [] Job!Char(p) = "[" /\ list.closed \notin {",", "]"} ->
                      Job!Reject(list.pos)
                 [] Job!Char(p) = "[" /\ Len(list.keys) = MAX_WRITE_SIZE ->
                      Job!Reject(list.pos)
                 [] OTHER -> Job!LineEnd(keys, list.pos)
  BY DEF Job!parse_read_delete
<1>3. \A q : Job!Reject(q).args = <<>>
  BY DEF Job!Reject, Job!Accept
<1>4. list.closed = "," => Len(list.keys) = MAX_WRITE_SIZE
  BY <1>1, FullList DEF More
<1> HIDE DEF list, keys, result
<1>5. /\ Job!Char(p) = "[" /\ list.closed = "]"
      /\ result = Job!LineEnd(keys, list.pos)
  BY <1>2, <1>3, <1>4 DEF result
<1>6. result.args # <<>> /\ Clean(p, result.pos) /\ keys = Job!Copied(list.keys)
  BY DEF result, keys
<1>7. Spells(<<"[">> \o Joined(result.args) \o <<"]", "\n">>, p, result.pos)
  BY <1>1, <1>5, <1>6, BracketsSpelled DEF list, Closed
<1>8. Arguments(op, result.args) = <<"[">> \o Joined(result.args) \o <<"]", "\n">>
  BY DEF Arguments, Lists
<1> QED
  BY <1>7, <1>8 DEF result

\* The key of a SUBSCRIBE or an UNSUBSCRIBE: a list that goes on is rejected.
LEMMA ParseListSpelled ==
    ASSUME TextInv, NEW p \in Place, NEW op \in Lists,
           Client!parse_list(p, 1).args # <<>>,
           Clean(p, Client!parse_list(p, 1).pos)
    PROVE  Spells(Arguments(op, Client!parse_list(p, 1).args), p,
                  Client!parse_list(p, 1).pos)
<1> DEFINE list == Job!KeyList(p + 1, 1)
           keys == Job!Copied(list.keys)
           result == Client!parse_list(p, 1)
<1>1. 1 \in Nat \ {0}
  OBVIOUS
<1>2. result = CASE Job!Char(p) # "[" -> Job!Reject(Job!After(p, 1))
                 [] Job!Char(p) = "[" /\ list.closed # "]" -> Job!Reject(list.pos)
                 [] OTHER -> Job!LineEnd(keys, list.pos)
  BY SameReader, SameResults DEF Client!parse_list
<1>3. \A q : Job!Reject(q).args = <<>>
  BY DEF Job!Reject, Job!Accept
<1> HIDE DEF list, keys, result
<1>4. result.args # <<>> /\ Clean(p, result.pos) /\ keys = Job!Copied(list.keys)
  BY DEF result, keys
<1>5. /\ Job!Char(p) = "[" /\ list.closed = "]"
      /\ result = Job!LineEnd(keys, list.pos)
  BY <1>2, <1>3, <1>4
<1>6. Spells(<<"[">> \o Joined(result.args) \o <<"]", "\n">>, p, result.pos)
  BY <1>1, <1>4, <1>5, BracketsSpelled DEF list, Closed
<1>7. Arguments(op, result.args) = <<"[">> \o Joined(result.args) \o <<"]", "\n">>
  BY DEF Arguments, Lists
<1> QED
  BY <1>6, <1>7 DEF result

-----------------------------------------------------------------------------
(* The pairs of a WRITE. *)

Bracketed(strings) == <<"(">> \o Joined(strings) \o <<")">>

\* A key and its value are joined with one comma.
LEMMA JoinedTwo ==
    ASSUME NEW k, NEW v
    PROVE  Joined(<<k, v>>) = k \o (<<",">> \o v)
<1> DEFINE some == [i \in 1 .. 1 |-> k]
           all == <<k, v>>
<1>1. DOMAIN some = 1 .. 1 /\ some[1] = k
  OBVIOUS
<1>2. DOMAIN all = 1 .. 1 + 1 /\ all[1] = k /\ all[1 + 1] = v
  OBVIOUS
<1> HIDE DEF some, all
<1>3. Joined(all) = Joined(some) \o (<<",">> \o all[1 + 1])
  <2>1. 1 \in Nat \ {0} /\ \A i \in 1 .. 1 : all[i] = some[i]
    BY <1>1, <1>2
  <2> QED
    BY <1>1, <1>2, <2>1, JoinedMore
<1>4. Joined(some) = k
  BY <1>1, JoinedOne
<1> QED
  BY <1>2, <1>3, <1>4 DEF all

\* A pair that is accepted is what the text has up to its bracket.
LEMMA PairSpelled ==
    ASSUME TextInv, NEW p \in Place, Job!parse_pair(p).args # <<>>
    PROVE  /\ Job!parse_pair(p).pos \in Place
           /\ \E q \in Place : /\ Spells(Joined(Job!parse_pair(p).args), p, q)
                               /\ Spells(<<")">>, q, Job!parse_pair(p).pos)
           /\ Holds(Job!parse_pair(p).args, p, Job!parse_pair(p).pos)
<1> DEFINE key == Job!read_string(p)
           value == Job!read_string(key.pos)
           pair == Job!parse_pair(p)
<1>1. pair = IF key.closed # "," THEN Job!Reject(key.pos)
             ELSE IF value.closed # ")" THEN Job!Reject(value.pos)
             ELSE Job!Accept(<<key.string, value.string>>, value.pos)
  BY DEF Job!parse_pair
<1>2. \A q : Job!Reject(q).args = <<>>
  BY DEF Job!Reject, Job!Accept
<1> HIDE DEF key, value, pair
<1>3. /\ key.closed = "," /\ value.closed = ")"
      /\ pair = Job!Accept(<<key.string, value.string>>, value.pos)
  BY <1>1, <1>2 DEF pair
<1>4. pair.args = <<key.string, value.string>> /\ pair.pos = value.pos
  BY <1>3 DEF Job!Accept
<1>5. /\ key.closed \in Job!Separators /\ <<key.closed>> = <<",">>
      /\ value.closed \in Job!Separators /\ <<value.closed>> = <<")">>
  <2>1. "," \in Job!Separators /\ ")" \in Job!Separators
    BY DEF Job!Separators
  <2> QED
    BY <1>3, <2>1, Zenon
<1>6. key.pos \in Place
  BY <1>5, StringSpelled DEF key
<1>7. PICK q \in Place : Spells(key.string, p, q) /\ Spells(<<",">>, q, key.pos)
  <2>1. \E q \in Place : Spells(key.string, p, q) /\ Spells(<<key.closed>>, q, key.pos)
    BY <1>5, StringSpelled DEF key
  <2> QED
    BY <1>5, <2>1
<1>8. value.pos \in Place
  BY <1>5, <1>6, StringSpelled DEF value
<1>9. PICK r \in Place : Spells(value.string, key.pos, r) /\ Spells(<<")">>, r, value.pos)
  <2>1. \E r \in Place : /\ Spells(value.string, key.pos, r)
                         /\ Spells(<<value.closed>>, r, value.pos)
    BY <1>5, <1>6, StringSpelled DEF value
  <2> QED
    BY <1>5, <2>1
<1>10. Spells(<<",">> \o value.string, q, r)
  BY <1>7, <1>9, SpellsJoin
<1>11. Spells(key.string \o (<<",">> \o value.string), p, r)
  BY <1>7, <1>10, SpellsJoin
<1>12. Spells(Joined(pair.args), p, r)
  BY <1>4, <1>11, JoinedTwo
<1>13. Holds(pair.args, p, pair.pos)
  <2>1. /\ p \in Nat /\ q \in Nat /\ key.pos \in Nat /\ r \in Nat /\ value.pos \in Nat
        /\ p <= q /\ q <= key.pos /\ key.pos <= r /\ r <= value.pos
    BY <1>6, <1>7, <1>9, SpellsAhead
  <2>2. p <= p /\ q <= value.pos /\ p <= key.pos
    BY <2>1
  <2>3. Within(key.string, p, value.pos)
    BY <1>7, <2>2 DEF Within
  <2>4. Within(value.string, p, value.pos)
    BY <1>6, <1>9, <2>1, <2>2 DEF Within
  <2>5. key.string \in Seq(Symbol) /\ value.string \in Seq(Symbol)
    BY <1>7, <1>9 DEF Spells
  <2> DEFINE both == <<key.string, value.string>>
  <2>6. /\ both \in Seq(Seq(Symbol)) /\ Len(both) = 2
        /\ both[1] = key.string /\ both[2] = value.string
    BY <2>5
  <2> HIDE DEF both
  <2>7. \A k \in 1 .. 2 : k = 1 \/ k = 2
    OBVIOUS
  <2>8. Holds(both, p, value.pos)
    BY <2>3, <2>4, <2>6, <2>7 DEF Holds
  <2> QED
    BY <1>4, <2>8 DEF both
<1> QED
  BY <1>4, <1>8, <1>9, <1>12, <1>13 DEF pair

\* A place where another pair begins.
Opens(p) == Job!Char(p) = "("

\* A pair with both its brackets.
LEMMA BracketedSpelled ==
    ASSUME TextInv, NEW p \in Place, Opens(p), NEW pair,
           pair = Job!parse_pair(Job!After(p, 1)), pair.args # <<>>
    PROVE  /\ Spells(Bracketed(pair.args), p, pair.pos) /\ pair.pos \in Place
           /\ Holds(pair.args, p, pair.pos)
<1>1. "(" \in Symbol \ {Job!EndOfFile}
  BY DEF Symbol, Marks, Job!EndOfFile
<1>2. Spells(<<"(">>, p, p + 1) /\ p + 1 \in Place /\ Job!After(p, 1) = p + 1
  BY <1>1, SpellsCharacter DEF Opens
<1>3. pair = Job!parse_pair(p + 1)
  BY <1>2
<1>4. pair.pos \in Place
      /\ \E q \in Place : Spells(Joined(pair.args), p + 1, q) /\ Spells(<<")">>, q, pair.pos)
      /\ Holds(pair.args, p + 1, pair.pos)
  BY <1>2, <1>3, PairSpelled
<1>5. PICK q \in Place : Spells(Joined(pair.args), p + 1, q) /\ Spells(<<")">>, q, pair.pos)
  BY <1>4
<1>6. Spells(<<"(">> \o Joined(pair.args), p, q)
  BY <1>2, <1>5, SpellsJoin
<1>7. Spells((<<"(">> \o Joined(pair.args)) \o <<")">>, p, pair.pos)
  BY <1>5, <1>6, SpellsJoin
<1>8. Holds(pair.args, p, pair.pos)
  <2>1. p <= p + 1 /\ pair.pos <= pair.pos
    BY <1>4, Places
  <2> QED
    BY <1>2, <1>4, <2>1, HoldsLater
<1> QED
  BY <1>4, <1>7, <1>8 DEF Bracketed

\* The pairs of a list are read one behind the other.
LEMMA PairsFollow ==
    ASSUME NEW p, NEW max \in Nat, NEW pair,
           pair = [n \in 1 .. max |->
              Job!parse_pair(IF n = 1 THEN p ELSE Job!After(pair[n - 1].pos, 1))]
    PROVE  /\ max >= 1 => pair[1] = Job!parse_pair(p)
           /\ \A n \in 1 .. max - 1 :
                 pair[n + 1] = Job!parse_pair(Job!After(pair[n].pos, 1))
<1> DEFINE from(n) == IF n = 1 THEN p ELSE Job!After(pair[n - 1].pos, 1)
<1>1. \A n \in 1 .. max : pair[n] = Job!parse_pair(from(n))
  OBVIOUS
<1>2. from(1) = p
  OBVIOUS
<1>3. ASSUME NEW n \in 1 .. max - 1
      PROVE  from(n + 1) = Job!After(pair[n].pos, 1) /\ n + 1 \in 1 .. max
  OBVIOUS
<1> HIDE DEF from
<1>4. max >= 1 => 1 \in 1 .. max
  OBVIOUS
<1> QED
  BY <1>1, <1>2, <1>3, <1>4

\* A pair that another one follows.
Another(pair) == pair.args # <<>> /\ Opens(pair.pos)

\* The pairs of a list, written one behind the other.
Written(pair, n) == FlattenSeq([k \in 1 .. n |-> Bracketed(pair[k].args)])

\* One pair is written alone.
LEMMA WrittenOne == ASSUME NEW pair PROVE Written(pair, 1) = Bracketed(pair[1].args)
<1> DEFINE parts == [k \in 1 .. 1 |-> Bracketed(pair[k].args)]
<1>1. Len(parts) = 1 /\ parts[1] = Bracketed(pair[1].args)
  OBVIOUS
<1> HIDE DEF parts
<1>2. FlattenSeq(parts) = parts[1]
  BY <1>1, FlattenOnly
<1> QED
  BY <1>1, <1>2 DEF Written, parts

\* Another pair is written behind the earlier ones.
LEMMA WrittenMore ==
    ASSUME NEW n \in Nat \ {0}, NEW pair
    PROVE  Written(pair, n + 1) = Written(pair, n) \o Bracketed(pair[n + 1].args)
<1> DEFINE part(k) == Bracketed(pair[k].args)
           some == [k \in 1 .. n |-> part(k)]
           all == [k \in 1 .. n + 1 |-> part(k)]
<1>1. Written(pair, n) = FlattenSeq(some) /\ Written(pair, n + 1) = FlattenSeq(all)
  BY DEF Written
<1> HIDE DEF part
<1>2. /\ Len(some) = n /\ Len(all) = n + 1 /\ all[n + 1] = part(n + 1)
      /\ \A i \in 1 .. n : all[i] = some[i]
  OBVIOUS
<1> HIDE DEF some, all
<1>3. FlattenSeq(all) = FlattenSeq(some) \o all[n + 1]
  BY <1>2, FlattenExtends DEF Extends
<1> QED
  BY <1>1, <1>2, <1>3 DEF part

\* A sequence of pairs, each but the last followed by another bracket, is what
\* the text has up to the last bracket.
LEMMA PairsSpelled ==
    ASSUME TextInv, NEW p \in Place, Opens(p), NEW max \in Nat, NEW pair,
           pair[1] = Job!parse_pair(Job!After(p, 1)),
           \A n \in 1 .. max - 1 :
              pair[n + 1] = Job!parse_pair(Job!After(pair[n].pos, 1)),
           NEW last \in 1 .. max, \A n \in 1 .. last - 1 : Another(pair[n]),
           pair[last].args # <<>>
    PROVE  /\ Spells(Written(pair, last), p, pair[last].pos) /\ pair[last].pos \in Place
           /\ \A k \in 1 .. last : Holds(pair[k].args, p, pair[last].pos)
<1> DEFINE To(n) == /\ Spells(Written(pair, n), p, pair[n].pos) /\ pair[n].pos \in Place
                    /\ \A k \in 1 .. n : Holds(pair[k].args, p, pair[n].pos)
           T == {n \in Nat : n + 1 \in 1 .. last => To(n + 1)}
<1>0. max \in Nat /\ last \in Nat /\ last >= 1 /\ last <= max
  OBVIOUS
<1>2. \A n \in 1 .. last : pair[n].args # <<>>
  <2> TAKE n \in 1 .. last
  <2>1. n = last \/ n \in 1 .. last - 1
    BY <1>0
  <2> QED
    BY <2>1 DEF Another
<1>3. 0 \in T
  <2>1. /\ Spells(Bracketed(pair[1].args), p, pair[1].pos) /\ pair[1].pos \in Place
        /\ Holds(pair[1].args, p, pair[1].pos)
    <3>1. pair[1].args # <<>>
      BY <1>0, <1>2
    <3> QED
      BY <3>1, BracketedSpelled
  <2> QED
    BY <2>1, WrittenOne
<1>4. ASSUME NEW n \in Nat, n \in T PROVE n + 1 \in T
  <2> SUFFICES ASSUME (n + 1) + 1 \in 1 .. last PROVE To((n + 1) + 1)
    OBVIOUS
  <2> DEFINE m == n + 1
  <2>1. m \in Nat \ {0} /\ m \in 1 .. last - 1 /\ m \in 1 .. last /\ m \in 1 .. max - 1
        /\ m + 1 \in 1 .. last /\ m = n + 1
    BY <1>0
  <2>2. To(m)
    BY <1>4, <2>1
  <2> HIDE DEF m
  <2>3. Opens(pair[m].pos)
    BY <2>1 DEF Another
  <2>4. pair[m + 1] = Job!parse_pair(Job!After(pair[m].pos, 1))
        /\ pair[m + 1].args # <<>>
    BY <1>2, <2>1
  <2>5. Spells(Bracketed(pair[m + 1].args), pair[m].pos, pair[m + 1].pos)
        /\ pair[m + 1].pos \in Place
        /\ Holds(pair[m + 1].args, pair[m].pos, pair[m + 1].pos)
    BY <2>2, <2>3, <2>4, BracketedSpelled
  <2>8. /\ p <= pair[m].pos /\ pair[m].pos <= pair[m + 1].pos
        /\ p <= p /\ pair[m + 1].pos <= pair[m + 1].pos
    <3>1. /\ p \in Nat /\ pair[m].pos \in Nat /\ pair[m + 1].pos \in Nat
          /\ p <= pair[m].pos /\ pair[m].pos <= pair[m + 1].pos
      BY <2>2, <2>5, SpellsAhead
    <3> QED
      BY <3>1
  <2>9. Holds(pair[m + 1].args, p, pair[m + 1].pos)
    BY <2>2, <2>5, <2>8, HoldsLater
  <2>10. ASSUME NEW k \in 1 .. m PROVE Holds(pair[k].args, p, pair[m + 1].pos)
    BY <2>2, <2>5, <2>8, HoldsLater
  <2>11. \A k \in 1 .. m + 1 : Holds(pair[k].args, p, pair[m + 1].pos)
    <3> TAKE k \in 1 .. m + 1
    <3>1. k \in 1 .. m \/ k = m + 1
      BY <2>1
    <3> QED
      BY <2>9, <2>10, <3>1
  <2>6. Spells(Written(pair, m) \o Bracketed(pair[m + 1].args), p, pair[m + 1].pos)
    BY <2>2, <2>5, SpellsJoin
  <2>7. To(m + 1)
    BY <2>1, <2>5, <2>6, <2>11, WrittenMore
  <2> QED
    BY <2>7 DEF m
<1> HIDE DEF To
<1>5. \A n \in Nat : n \in T
  <2> HIDE DEF T
  <2> QED
    BY <1>3, <1>4, Induction
<1>6. To(last)
  <2>1. last - 1 \in T /\ (last - 1) + 1 = last
    <3> HIDE DEF T
    <3> QED
      BY <1>0, <1>5
  <2> QED
    BY <2>1
<1> QED
  BY <1>6 DEF To

\* A list of pairs that is let through is what the text has up to its end.
LEMMA PairListSpelled ==
    ASSUME TextInv, NEW p \in Place, Opens(p), NEW q, q = Job!After(p, 1),
           Job!pairs(q).args # <<>>, Clean(p, Job!pairs(q).pos)
    PROVE  /\ Job!pairs(q).pos \in Place
           /\ \E r \in Place :
                 /\ Spells(FlattenSeq([i \in DOMAIN Job!pairs(q).args |->
                                         Bracketed(Job!pairs(q).args[i])]), p, r)
                 /\ Spells(<<"]", "\n">>, r, Job!pairs(q).pos)
<1> DEFINE max == MAX_WRITE_SIZE
           pair == CHOOSE pair : pair = [n \in 1 .. max |->
              Job!parse_pair(IF n = 1 THEN q ELSE Job!After(pair[n - 1].pos, 1))]
           Final(k) == pair[k].args = <<>> \/ Job!Char(pair[k].pos) # "("
           S == {k \in 1 .. max : \/ k = max
                                  \/ pair[k].args = <<>> \/ Job!Char(pair[k].pos) # "("}
           n == Job!Min(S)
           list == [k \in 1 .. n |-> Job!Copied(pair[k].args)]
           next == Job!After(pair[n].pos, 1)
           result == Job!pairs(q)
<1>1. max \in Nat /\ max > 1
  BY CommandLoopsAssumption
<1>2. pair = [k \in 1 .. max |->
          Job!parse_pair(IF k = 1 THEN q ELSE Job!After(pair[k - 1].pos, 1))]
  <2>1. max \in Nat
    BY <1>1
  <2> HIDE DEF max
  <2> QED
    BY <2>1, PairsExist
<1>3. result =
        CASE pair[n].args = <<>> -> Job!Reject(pair[n].pos)
          [] /\ pair[n].args # <<>> /\ n < MAX_WRITE_SIZE
             /\ Job!Char(pair[n].pos) = "]" -> Job!LineEnd(list, next)
          [] OTHER -> Job!Reject(next)
  BY DEF Job!pairs
<1> HIDE DEF pair, result
<1>4. /\ pair[1] = Job!parse_pair(q)
      /\ \A k \in 1 .. max - 1 : pair[k + 1] = Job!parse_pair(Job!After(pair[k].pos, 1))
  BY <1>1, <1>2, PairsFollow
<1>5. S = {k \in 1 .. max : k = max \/ Final(k)}
  OBVIOUS
<1>6. ASSUME NEW k \in 1 .. max, ~Final(k) PROVE Another(pair[k])
  BY <1>6 DEF Another, Opens
<1> HIDE DEF Final
<1>7. S \in SUBSET Nat /\ max \in S
  BY <1>1, <1>5
<1>8. n \in S /\ \A k \in S : n <= k
  <2> HIDE DEF S
  <2> QED
    BY <1>7, MinIsLeast
<1> HIDE DEF n
<1>9. n \in 1 .. max /\ \A k \in 1 .. n - 1 : ~Final(k)
  <2>1. n \in 1 .. max
    BY <1>5, <1>8
  <2> QED
    BY <1>1, <1>5, <1>8, <2>1
<1>10. \A k \in 1 .. n - 1 : Another(pair[k])
  <2> TAKE k \in 1 .. n - 1
  <2>1. k \in 1 .. max
    BY <1>1, <1>9
  <2> QED
    BY <1>6, <1>9, <2>1
<1>11. \A o : Job!Reject(o).args = <<>>
  BY DEF Job!Reject, Job!Accept
<1> HIDE DEF next, list
<1>12. /\ pair[n].args # <<>> /\ Job!Char(pair[n].pos) = "]"
       /\ result = Job!LineEnd(list, next)
  BY <1>3, <1>11 DEF result
<1>13. /\ Spells(Written(pair, n), p, pair[n].pos) /\ pair[n].pos \in Place
       /\ \A k \in 1 .. n : Holds(pair[k].args, p, pair[n].pos)
  <2>1. max \in Nat /\ pair[1] = Job!parse_pair(Job!After(p, 1))
    BY <1>1, <1>4
  <2> HIDE DEF max
  <2> QED
    BY <1>4, <1>9, <1>10, <1>12, <2>1, PairsSpelled
<1>14. /\ Spells(<<"]">>, pair[n].pos, next) /\ next \in Place
  <2>1. "]" \in Symbol \ {Job!EndOfFile}
    BY DEF Symbol, Marks, Job!EndOfFile
  <2> QED
    BY <1>12, <1>13, <2>1, SpellsCharacter DEF next
<1>15. result.args = list /\ Spells(<<"\n">>, next, result.pos)
  <2>1. result.args # <<>> /\ Clean(p, result.pos)
    BY DEF result
  <2>2. p <= next
    <3>1. /\ p \in Nat /\ pair[n].pos \in Nat /\ next \in Nat
          /\ p <= pair[n].pos /\ pair[n].pos <= next
      BY <1>13, <1>14, SpellsAhead
    <3> QED
      BY <3>1
  <2> QED
    BY <1>12, <1>14, <2>1, <2>2, LineEndSpelled
<1>16. Spells(<<"]", "\n">>, pair[n].pos, result.pos) /\ result.pos \in Place
  BY <1>13, <1>14, <1>15, SpellsTwo, SpellsJoin
<1>17. FlattenSeq([i \in DOMAIN list |-> Bracketed(list[i])]) = Written(pair, n)
  <2> DEFINE args(i) == pair[i].args
  <2>5. Clean(p, pair[n].pos)
    <3>1. /\ p \in Nat /\ pair[n].pos \in Nat /\ result.pos \in Nat
          /\ pair[n].pos <= result.pos
      BY <1>13, <1>16, SpellsAhead
    <3>2. \A i \in p .. pair[n].pos - 1 : i \in p .. result.pos - 1
      BY <3>1
    <3>3. Clean(p, result.pos)
      BY DEF result
    <3> QED
      BY <3>2, <3>3 DEF Clean
  <2>6. ASSUME NEW k \in 1 .. n PROVE Job!Copied(pair[k].args) = args(k)
    BY <1>13, <2>5, HoldsUncut
  <2>1. list = [k \in 1 .. n |-> args(k)]
    <3> HIDE DEF args
    <3> QED
      BY <2>6 DEF list
  <2>2. DOMAIN list = 1 .. n /\ \A i \in 1 .. n : list[i] = args(i)
    <3> HIDE DEF args
    <3> QED
      BY <2>1
  <2>3. [i \in DOMAIN list |-> Bracketed(list[i])] = [i \in 1 .. n |-> Bracketed(args(i))]
    <3> HIDE DEF args
    <3> QED
      BY <2>2
  <2> QED
    BY <2>3 DEF Written
<1> QED
  BY <1>13, <1>15, <1>16, <1>17 DEF result

\* A WRITE that is accepted.
LEMMA ParseWriteSpelled ==
    ASSUME TextInv, NEW p \in Place, Job!parse_write(p).args # <<>>,
           Clean(p, Job!parse_write(p).pos)
    PROVE  Spells(Arguments("WRITE", Job!parse_write(p).args), p,
                  Job!parse_write(p).pos)
<1> DEFINE result == Job!parse_write(p)
           o == p + 1
           q == p + 2
<1>1. \A r : Job!Reject(r).args = <<>>
  BY DEF Job!Reject, Job!Accept
<1>2. Job!Char(p) = "[" /\ Job!Char(o) = "(" /\ result = Job!pairs(q)
  BY <1>1 DEF Job!parse_write
<1>3. "[" \in Symbol \ {Job!EndOfFile} /\ "(" \in Symbol \ {Job!EndOfFile}
  BY DEF Symbol, Marks, Job!EndOfFile
<1>4. Spells(<<"[">>, p, o) /\ o \in Place
  BY <1>2, <1>3, SpellsCharacter
<1>5. Opens(o) /\ q = Job!After(o, 1)
  <2>1. Job!After(o, 1) = o + 1
    BY <1>2, <1>3, <1>4, SpellsCharacter
  <2>2. o + 1 = q
    BY Places
  <2>3. Opens(o)
    BY <1>2 DEF Opens
  <2> QED
    BY <2>1, <2>2, <2>3
<1>6. result.args # <<>>
  OBVIOUS
<1>12. Clean(o, result.pos)
  <2>1. result.pos \in p .. Job!End /\ p \in Nat /\ Job!End \in Nat
    BY ParseWriteIs, Places DEF Leaves
  <2>2. Clean(p, result.pos)
    OBVIOUS
  <2> HIDE DEF result
  <2>3. \A i \in p + 1 .. result.pos - 1 : i \in p .. result.pos - 1
    BY <2>1
  <2> QED
    BY <2>2, <2>3 DEF Clean
<1> DEFINE all == FlattenSeq([i \in DOMAIN result.args |-> Bracketed(result.args[i])])
<1> HIDE DEF result, o, q
<1>7. /\ result.pos \in Place
      /\ \E r \in Place : Spells(all, o, r) /\ Spells(<<"]", "\n">>, r, result.pos)
  BY <1>2, <1>4, <1>5, <1>6, <1>12, PairListSpelled
<1>8. Arguments("WRITE", result.args) = (<<"[">> \o all) \o <<"]", "\n">>
  BY DEF Arguments, Bracketed
<1> HIDE DEF all
<1>9. PICK r \in Place : Spells(all, o, r) /\ Spells(<<"]", "\n">>, r, result.pos)
  BY <1>7
<1>10. Spells(<<"[">> \o all, p, r)
  BY <1>4, <1>9, SpellsJoin
<1>11. Spells((<<"[">> \o all) \o <<"]", "\n">>, p, result.pos)
  BY <1>9, <1>10, SpellsJoin
<1> QED
  BY <1>8, <1>11 DEF result

-----------------------------------------------------------------------------
(* The number of a WAIT or a DELAY. *)

\* A number that the file ends with, and digits that are not in the file.
Continued(digits, p) ==
    \E word \in Seq(Symbol), more \in Seq(Symbol) :
       digits = word \o more /\ Spells(word, p, Job!End)

\* The digits are what the text has at p, unless the file ends there.
LEMMA DigitsSpelled ==
    ASSUME TextInv, NEW p \in Place, NEW n, Reads(n, p)
    PROVE  /\ n.pos \in Place
           /\ \/ \E q \in Place : Spells(n.digits, p, q) /\ q <= n.pos
              \/ n.pos = Job!End /\ Continued(n.digits, p)
<1> DEFINE stop == Job!Min({q \in p .. Job!End : Job!Char(q) \notin Job!Digits})
           word == SubSeq(text, p, stop - 1)
<1>1. PICK more \in Garbage \cup {<<>>} :
         /\ n.digits = word \o more /\ n.pos = Job!After(stop, 1)
         /\ Job!Char(stop) # Job!EndOfFile => more = <<>>
  BY DEF Reads
<1>2. stop \in p .. Job!End
  BY DigitsAre
<1> HIDE DEF stop
<1>3. /\ Job!End \in Nat /\ p \in Nat /\ p > 0 /\ stop \in Nat /\ stop \in Place
      /\ p <= stop /\ 1 \in Nat
  BY <1>2, Places DEF Place
<1>4. Spells(word, p, stop)
  BY <1>3, SpellsPart
<1> HIDE DEF word
<1>5. n.pos \in stop .. Job!End
  BY <1>1, <1>3, AfterIs
<1>6. n.pos \in Place /\ stop <= n.pos
  BY <1>3, <1>5 DEF Place
<1>7. word \in Seq(Symbol) /\ more \in Seq(Symbol)
  <2>1. more \in Seq(Job!Digits)
    BY CommandLoopsAssumption, EmptySeq
  <2>2. Job!Digits \subseteq Symbol
    BY DEF Symbol
  <2> QED
    BY <1>4, <2>1, <2>2, WordsAre DEF Spells
<1>8. CASE stop = Job!End
  <2>1. n.pos = Job!End
    BY <1>3, <1>5, <1>8
  <2> QED
    BY <1>1, <1>4, <1>6, <1>7, <1>8, <2>1 DEF Continued
<1>9. CASE stop # Job!End
  <2>1. stop < Job!End
    BY <1>2, <1>3, <1>9
  <2>2. more = <<>>
    BY <1>1, <1>3, <2>1, Places
  <2>3. n.digits = word
    BY <1>1, <1>7, <2>2, ConcatEmptySeq
  <2> QED
    BY <1>3, <1>4, <1>6, <2>3
<1> QED
  BY <1>8, <1>9

\* A command's number is spelled behind its keyword, and nothing else is
\* looked at, or its beginning ends the file.
Numbered(args, p, next) ==
    args # <<>> => \/ \E q \in Place : Spells(args[1], p, q) /\ q <= next
                   \/ next = Job!End /\ Continued(args[1], p)

\* The number of a WAIT,
LEMMA WaitSpelled ==
    ASSUME TextInv, NEW p \in Place, NEW result \in Job!parse_wait(p)
    PROVE  Numbered(result.args, p, result.pos)
<1>1. PICK n \in Job!read_uint(p) :
         result = CASE Job!Fits(n) /\ n.next = " " ->
                         Job!Accept(<<n.digits>>, Job!cleanup(n.pos))
                    [] Job!Fits(n) /\ n.next \in Ends ->
                         Job!Accept(<<n.digits>>, n.pos)
                    [] OTHER -> Job!Reject(n.pos)
  BY DEF Job!parse_wait, Ends
<1>2. n.pos \in Place
  BY BothRead, DigitsSpelled
<1>3. \/ \E q \in Place : Spells(n.digits, p, q) /\ q <= n.pos
      \/ n.pos = Job!End /\ Continued(n.digits, p)
  BY BothRead, DigitsSpelled
<1>4. /\ Job!cleanup(n.pos) \in n.pos .. Job!End /\ n.pos \in Nat /\ Job!End \in Nat
      /\ Place \subseteq Nat
  BY <1>2, CleanupIs, Places
<1>5. WaitResult(result, n)
  BY <1>1, WaitCases
<1>6. CASE result = Job!Reject(n.pos)
  BY <1>6 DEF Numbered, Job!Reject, Job!Accept
<1>7. ASSUME NEW next \in {n.pos, Job!cleanup(n.pos)},
             result = [args |-> <<n.digits>>, pos |-> next]
      PROVE  Numbered(result.args, p, result.pos)
  <2>1. result.args[1] = n.digits /\ result.pos = next
    BY <1>7
  <2>2. n.pos = Job!End => next = Job!End
    BY <1>4, <1>7
  <2>3. \A q \in Place : q <= n.pos => q <= next
    BY <1>4, <1>7
  <2> QED
    BY <1>3, <2>1, <2>2, <2>3 DEF Numbered
<1> QED
  BY <1>5, <1>6, <1>7 DEF WaitResult

\* and of a DELAY.
LEMMA DelaySpelled ==
    ASSUME TextInv, NEW p \in Place, NEW result \in Client!parse_delay(p)
    PROVE  Numbered(result.args, p, result.pos)
<1>2. PICK n \in Client!read_uint(p) :
         result = IF Client!Fits(n) THEN Client!Accept(<<n.digits>>, n.pos)
                  ELSE Client!Reject(n.pos)
  BY DEF Client!parse_delay
<1>3. \/ \E q \in Place : Spells(n.digits, p, q) /\ q <= n.pos
      \/ n.pos = Job!End /\ Continued(n.digits, p)
  BY BothRead, DigitsSpelled
<1>4. CASE result = Client!Reject(n.pos)
  BY <1>4 DEF Numbered, Client!Reject, Client!Accept
<1>5. CASE result = Client!Accept(<<n.digits>>, n.pos)
  <2>1. result.args[1] = n.digits /\ result.pos = n.pos
    BY <1>5 DEF Client!Accept
  <2> QED
    BY <1>3, <2>1 DEF Numbered
<1> QED
  BY <1>2, <1>4, <1>5

-----------------------------------------------------------------------------
(* No command is made up. *)

\* What a turn carries out is what it consumed, from p up to next.
Real(op, args, p, next) ==
    LET consumed == SubSeq(text, p, next - 1)
        spelling == Spelling(op, args)
    IN  /\ op \notin {"EMPTY", "INVALID"}
        /\ \A n \in DOMAIN consumed : consumed[n] # Job!Nul
        => \/ IsPrefix(spelling, consumed)
           \/ /\ op \in {"WAIT", "DELAY"} /\ next = Len(text) + 1
              /\ IsPrefix(consumed, spelling)

\* What a turn has consumed is free of '\0' if the text is.
LEMMA ConsumedClean ==
    ASSUME TextInv, NEW p \in Place, NEW o \in Place, NEW q \in Place, p <= o,
           \A n \in DOMAIN SubSeq(text, p, q - 1) : SubSeq(text, p, q - 1)[n] # Job!Nul
    PROVE  Clean(o, q)
<1>1. p \in Nat /\ o \in Nat /\ q \in Nat
  BY Places
<1>2. ASSUME NEW i \in o .. q - 1 PROVE text[i] # Job!Nul
  <2> DEFINE consumed == SubSeq(text, p, q - 1)
  <2>1. p <= q /\ i - p + 1 \in 1 .. q - p /\ p + (i - p + 1) - 1 = i
    BY <1>1
  <2>2. Spells(consumed, p, q)
    BY <2>1, SpellsPart
  <2>3. \A n \in DOMAIN consumed : consumed[n] # Job!Nul
    OBVIOUS
  <2> HIDE DEF consumed
  <2>4. /\ Len(consumed) \in Nat /\ q = p + Len(consumed)
        /\ DOMAIN consumed = 1 .. Len(consumed)
        /\ \A n \in 1 .. Len(consumed) : text[p + n - 1] = consumed[n]
    BY <2>2, LenProperties DEF Spells
  <2>5. i - p + 1 \in 1 .. Len(consumed)
    BY <1>1, <2>1, <2>4
  <2> QED
    BY <2>1, <2>3, <2>4, <2>5
<1> QED
  BY <1>2 DEF Clean

\* A keyword and the arguments behind it are a command.
LEMMA CommandSpelled ==
    ASSUME TextInv, NEW p \in Place, NEW op, NEW args, NEW q \in Place, NEW r,
           NEW next \in Place, Spells(Keyword(op), p, q),
           Spells(Arguments(op, args), q, r), r <= next
    PROVE  Real(op, args, p, next)
<1>1. Spells(Spelling(op, args), p, r)
  BY SpellsJoin DEF Spelling
<1>2. IsPrefix(Spelling(op, args), SubSeq(text, p, next - 1))
  BY <1>1, SpellsPrefix
<1> QED
  BY <1>2 DEF Real

\* A keyword and the number behind it that the file ends with begin one.
LEMMA ContinuedReal ==
    ASSUME TextInv, NEW p \in Place, NEW op \in {"WAIT", "DELAY"}, NEW args,
           NEW q \in Place, Spells(Keyword(op), p, q), Continued(args[1], q)
    PROVE  Real(op, args, p, Job!End)
<1> DEFINE key == Keyword(op)
           consumed == SubSeq(text, p, Job!End - 1)
<1>1. PICK word \in Seq(Symbol), more \in Seq(Symbol) :
         args[1] = word \o more /\ Spells(word, q, Job!End)
  BY DEF Continued
<1>2. Job!End \in Place /\ Job!End = Len(text) + 1 /\ Job!End \in Nat /\ p \in Nat /\ p > 0
      /\ p <= Job!End
  BY Places DEF Place
<1>3. Spelling(op, args) = key \o (word \o more)
  BY <1>1 DEF Spelling, Arguments
<1>4. key \in Seq(Symbol)
  BY DEF Spells
<1> HIDE DEF key
<1>5. Spelling(op, args) = (key \o word) \o more
  BY <1>1, <1>3, <1>4, ConcatAssociative
<1>6. Spells(key \o word, p, Job!End)
  BY <1>1, SpellsJoin DEF key
<1>7. Spells(consumed, p, Job!End)
  BY <1>2, SpellsPart
<1> HIDE DEF consumed
<1>8. consumed = key \o word
  <2> DEFINE both == key \o word
  <2> HIDE DEF both
  <2>1. /\ both \in Seq(Symbol) /\ consumed \in Seq(Symbol)
        /\ Len(both) \in Nat /\ Len(consumed) \in Nat
        /\ Job!End = p + Len(both) /\ Job!End = p + Len(consumed)
        /\ \A i \in 1 .. Len(both) : text[p + i - 1] = both[i]
        /\ \A i \in 1 .. Len(consumed) : text[p + i - 1] = consumed[i]
    BY <1>6, <1>7, LenProperties DEF Spells, both
  <2>2. Len(both) = Len(consumed)
    BY <1>2, <2>1
  <2>3. both = consumed
    BY <2>1, <2>2, SeqEqual
  <2> QED
    BY <2>3 DEF both
<1>9. IsPrefix(consumed, consumed \o more)
  <2> DEFINE all == consumed \o more
             m == Len(consumed)
             sub == SubSeq(all, 1, m)
  <2>1. /\ consumed \in Seq(Symbol) /\ m \in Nat /\ Len(more) \in Nat
    BY <1>1, <1>7, LenProperties DEF Spells
  <2>2. /\ all \in Seq(Symbol) /\ Len(all) = m + Len(more)
        /\ \A i \in 1 .. m : all[i] = consumed[i] /\ all[i] \in Symbol
    <3>1. /\ all \in Seq(Symbol) /\ Len(all) = m + Len(more)
          /\ \A i \in 1 .. m + Len(more) :
                all[i] = IF i <= m THEN consumed[i] ELSE more[i - m]
      BY <1>1, <2>1, ConcatProperties
    <3> HIDE DEF all, m
    <3>2. \A i \in 1 .. m : i \in 1 .. m + Len(more) /\ i <= m
      BY <2>1
    <3>3. \A i \in 1 .. m : consumed[i] \in Symbol
      BY <2>1, ElementOfSeq DEF m
    <3> QED
      BY <3>1, <3>2, <3>3
  <2> HIDE DEF all, m
  <2>3. m <= Len(all)
    BY <2>1, <2>2
  <2>4. sub \in Seq(Symbol) /\ Len(sub) = m /\ \A i \in 1 .. m : sub[i] = all[i]
    BY <2>1, <2>2, <2>3, SubSeqProperties
  <2> HIDE DEF sub
  <2>5. \A i \in 1 .. m : sub[i] = consumed[i]
    BY <2>2, <2>4
  <2>6. sub = consumed
    BY <2>1, <2>4, <2>5, SeqEqual DEF m
  <2>7. SubSeq(consumed, 1, m) = consumed
    BY <2>1, SubSeqFull DEF m
  <2> QED
    BY <2>3, <2>6, <2>7 DEF IsPrefix, all, m, sub
<1> QED
  BY <1>2, <1>5, <1>8, <1>9 DEF Real, consumed

\* The same of a token with arguments, and of one without.
LEMMA ArgumentsSpelled ==
    ASSUME TextInv, NEW p \in Place, NEW token, Names(token, p),
           token.cmd \in WithArguments, NEW args, NEW r, NEW next \in Place,
           Spells(Arguments(token.cmd, args), token.pos, r), r <= next
    PROVE  Real(token.cmd, args, p, next)
<1>1. token.cmd \notin {"EOC", "EMPTY", "INVALID"}
  BY DEF WithArguments
<1>2. PICK q \in Place : Spells(Keyword(token.cmd), p, q) /\ q = token.pos
  BY <1>1 DEF Names
<1> QED
  BY <1>2, CommandSpelled

\* A command without arguments is its keyword.
LEMMA PlainSpelled ==
    ASSUME TextInv, NEW p \in Place, NEW token, Names(token, p),
           token.cmd \in {"SHOW", "BACKUP", "HELP", "DISCONNECT", "EMPTY", "INVALID"},
           token.pos \in Place
    PROVE  Real(token.cmd, <<>>, p, token.pos)
<1>1. CASE token.cmd \in {"EMPTY", "INVALID"}
  BY <1>1 DEF Real
<1>2. CASE token.cmd \in {"SHOW", "BACKUP", "HELP", "DISCONNECT"}
  <2>1. token.cmd \notin {"EOC", "EMPTY", "INVALID"}
    BY <1>2
  <2>2. PICK q \in Place : Spells(Keyword(token.cmd), p, q) /\ q <= token.pos
    BY <2>1 DEF Names
  <2>3. Arguments(token.cmd, <<>>) = <<>>
    BY <1>2 DEF Arguments
  <2>4. Spells(Arguments(token.cmd, <<>>), q, q)
    BY <2>3, SpellsNothing
  <2> QED
    BY <2>2, <2>4, CommandSpelled
<1> QED
  BY <1>1, <1>2

\* What a command's arguments are to be: spelled behind its keyword, in a text
\* without a '\0', or a number that the file ends with.
Given(cmd, args, p, next) ==
    args # <<>> /\ Clean(p, next) =>
       \/ \E r \in Place : Spells(Arguments(cmd, args), p, r) /\ r <= next
       \/ /\ cmd \in {"WAIT", "DELAY"}
          /\ next = Job!End /\ Continued(args[1], p)

\* A parser's result: rejected, or what was written.
LEMMA ParsedReal ==
    ASSUME TextInv, pos \in Place, NEW token, Names(token, pos),
           token.cmd \in WithArguments, NEW result, result.pos \in Place,
           Given(token.cmd, result.args, token.pos, result.pos),
           Parsed(token.cmd, result)
    PROVE  \E op, args, next : Turn(op, args, next) /\ Real(op, args, pos, next)
<1>1. CASE result.args = <<>>
  <2>1. Turn("INVALID", <<>>, result.pos)
    BY <1>1 DEF Parsed
  <2>2. Real("INVALID", <<>>, pos, result.pos)
    BY DEF Real
  <2> QED
    BY <2>1, <2>2
<1>2. CASE result.args # <<>>
  <2>1. Turn(token.cmd, result.args, result.pos)
    BY <1>2 DEF Parsed
  <2>2. Real(token.cmd, result.args, pos, result.pos)
    <3>1. PICK q \in Place : Spells(Keyword(token.cmd), pos, q) /\ q = token.pos
      <4>1. token.cmd \notin {"EOC", "EMPTY", "INVALID"}
        BY DEF WithArguments
      <4> QED
        BY <4>1 DEF Names
    <3>2. pos <= q
      BY <3>1, SpellsAhead
    <3>3. CASE ~Clean(token.pos, result.pos)
      BY <3>1, <3>2, <3>3, ConsumedClean DEF Real
    <3>4. CASE \E r \in Place : /\ Spells(Arguments(token.cmd, result.args), token.pos, r)
                                /\ r <= result.pos
      BY <3>4, ArgumentsSpelled
    <3>5. CASE /\ token.cmd \in {"WAIT", "DELAY"}
               /\ result.pos = Job!End /\ Continued(result.args[1], token.pos)
      BY <3>1, <3>5, ContinuedReal
    <3> QED
      BY <1>2, <3>3, <3>4, <3>5 DEF Given
  <2> QED
    BY <2>1, <2>2
<1> QED
  BY <1>1, <1>2

\* Every turn of either loop carries out what it has consumed.
LEMMA TurnsAreReal ==
    ASSUME IInv, Next
    PROVE  \/ UNCHANGED <<text, log>>
           \/ \E op, args, next : Turn(op, args, next) /\ Real(op, args, pos, next)
<1>1. TextInv /\ pos \in Place
  BY DEF IInv
<1>2. \A p \in Place : p \in Nat
  BY <1>1, Places
<1>3. Names(JobToken, pos) /\ (JobToken.cmd # "EOC" => JobToken.pos \in Place)
  <2>1. JobToken.cmd # "EOC" => JobToken.pos \in Place
    BY <1>1, JobTokenIs, Places DEF JobToken, Found, Place
  <2> QED
    BY <1>1, <2>1, JobTokenNames DEF JobToken
<1>4. Names(ClientToken, pos) /\ (ClientToken.cmd # "EOC" => ClientToken.pos \in Place)
  <2>1. ClientToken.cmd # "EOC" => ClientToken.pos \in Place
    BY <1>1, ClientTokenIs, Places DEF ClientToken, Found, Place
  <2> QED
    BY <1>1, <2>1, ClientTokenNames DEF ClientToken
<1>5. CASE JobWrite
  <2> DEFINE result == Job!parse_write(JobToken.pos)
  <2>1. JobToken.cmd = "WRITE" /\ Parsed("WRITE", result)
    BY <1>5 DEF JobWrite, JobFinds
  <2>2. JobToken.pos \in Place /\ JobToken.cmd \in WithArguments
    BY <1>3, <2>1 DEF WithArguments
  <2>3. result.pos \in Place
    BY <1>1, <1>2, <2>2, ParseWriteIs, Places DEF Leaves, Place
  <2>4. result.args # <<>> /\ Clean(JobToken.pos, result.pos) =>
           Spells(Arguments("WRITE", result.args), JobToken.pos, result.pos)
    BY <1>1, <2>2, ParseWriteSpelled
  <2> HIDE DEF result
  <2>5. result.pos <= result.pos
    BY <1>2, <2>3
  <2>6. Given("WRITE", result.args, JobToken.pos, result.pos)
    BY <2>3, <2>4, <2>5 DEF Given
  <2> QED
    BY <1>1, <1>3, <2>1, <2>2, <2>3, <2>6, ParsedReal
<1>6. CASE JobReadDelete
  <2> DEFINE result == Job!parse_read_delete(JobToken.pos)
             cmd == JobToken.cmd
  <2>1. cmd \in {"READ", "DELETE"} /\ Parsed(cmd, result)
    BY <1>6 DEF JobReadDelete, JobFinds
  <2>2. JobToken.pos \in Place /\ cmd \in WithArguments /\ cmd \in Lists
    BY <1>3, <2>1 DEF WithArguments, Lists
  <2>3. result.pos \in Place
    BY <1>1, <1>2, <2>2, ParseReadDeleteIs, Places DEF Leaves, Place
  <2>4. result.args # <<>> /\ Clean(JobToken.pos, result.pos) =>
           Spells(Arguments(cmd, result.args), JobToken.pos, result.pos)
    BY <1>1, <2>2, ReadDeleteSpelled
  <2> HIDE DEF result
  <2>5. result.pos <= result.pos
    BY <1>2, <2>3
  <2>6. Given(cmd, result.args, JobToken.pos, result.pos)
    BY <2>3, <2>4, <2>5 DEF Given
  <2> QED
    BY <1>1, <1>3, <2>1, <2>2, <2>3, <2>6, ParsedReal
<1>7. CASE JobWait
  <2>1. JobToken.cmd = "WAIT"
    BY <1>7 DEF JobWait, JobFinds
  <2>2. JobToken.pos \in Place /\ JobToken.cmd \in WithArguments
    BY <1>3, <2>1 DEF WithArguments
  <2>3. PICK result \in Job!parse_wait(JobToken.pos) : Parsed("WAIT", result)
    BY <1>7 DEF JobWait
  <2>4. result.pos \in Place
    BY <1>1, <1>2, <2>2, ParseWaitIs, Places DEF Leaves, Place
  <2>5. Arguments("WAIT", result.args) = result.args[1]
    BY DEF Arguments
  <2>6. Numbered(result.args, JobToken.pos, result.pos)
    BY <1>1, <2>2, WaitSpelled
  <2>7. Given("WAIT", result.args, JobToken.pos, result.pos)
    BY <2>5, <2>6 DEF Numbered, Given
  <2> QED
    BY <1>1, <1>3, <2>1, <2>2, <2>3, <2>4, <2>7, ParsedReal
<1>8. CASE JobPlain
  <2>1. /\ JobToken.cmd \in {"SHOW", "BACKUP", "HELP", "EMPTY", "INVALID"}
        /\ Turn(JobToken.cmd, <<>>, JobToken.pos)
    BY <1>8 DEF JobPlain, JobFinds
  <2>2. JobToken.pos \in Place
    BY <1>3, <2>1
  <2>3. Real(JobToken.cmd, <<>>, pos, JobToken.pos)
    BY <1>1, <1>3, <2>1, <2>2, PlainSpelled
  <2> QED
    BY <2>1, <2>3
<1>9. CASE ClientKey
  <2> DEFINE result == Client!parse_list(ClientToken.pos, 1)
             cmd == ClientToken.cmd
  <2>1. cmd \in {"SUBSCRIBE", "UNSUBSCRIBE"} /\ Parsed(cmd, result)
    BY <1>9 DEF ClientKey, ClientFinds
  <2>2. ClientToken.pos \in Place /\ cmd \in WithArguments /\ cmd \in Lists
    BY <1>4, <2>1 DEF WithArguments, Lists
  <2>3. result.pos \in Place
    BY <1>1, <1>2, <2>2, ParseListIs, Places DEF Leaves, Place
  <2>4. result.args # <<>> /\ Clean(ClientToken.pos, result.pos) =>
           Spells(Arguments(cmd, result.args), ClientToken.pos, result.pos)
    BY <1>1, <2>2, ParseListSpelled
  <2> HIDE DEF result
  <2>5. result.pos <= result.pos
    BY <1>2, <2>3
  <2>6. Given(cmd, result.args, ClientToken.pos, result.pos)
    BY <2>3, <2>4, <2>5 DEF Given
  <2> QED
    BY <1>1, <1>4, <2>1, <2>2, <2>3, <2>6, ParsedReal
<1>10. CASE ClientDelay
  <2>1. ClientToken.cmd = "DELAY"
    BY <1>10 DEF ClientDelay, ClientFinds
  <2>2. ClientToken.pos \in Place /\ ClientToken.cmd \in WithArguments
    BY <1>4, <2>1 DEF WithArguments
  <2>3. PICK result \in Client!parse_delay(ClientToken.pos) : Parsed("DELAY", result)
    BY <1>10 DEF ClientDelay
  <2>4. result.pos \in Place
    BY <1>1, <1>2, <2>2, ParseDelayIs, Places DEF Place
  <2>5. Arguments("DELAY", result.args) = result.args[1]
    BY DEF Arguments
  <2>6. Numbered(result.args, ClientToken.pos, result.pos)
    BY <1>1, <2>2, DelaySpelled
  <2>7. Given("DELAY", result.args, ClientToken.pos, result.pos)
    BY <2>5, <2>6 DEF Numbered, Given
  <2> QED
    BY <1>1, <1>4, <2>1, <2>2, <2>3, <2>4, <2>7, ParsedReal
<1>11. CASE ClientPlain \/ ClientDisconnect
  <2>1. /\ ClientToken.cmd \in {"EMPTY", "INVALID", "DISCONNECT"}
        /\ Turn(ClientToken.cmd, <<>>, ClientToken.pos)
    BY <1>11 DEF ClientPlain, ClientDisconnect, ClientFinds
  <2>2. ClientToken.pos \in Place
    BY <1>4, <2>1
  <2>3. Real(ClientToken.cmd, <<>>, pos, ClientToken.pos)
    BY <1>1, <1>4, <2>1, <2>2, PlainSpelled
  <2> QED
    BY <2>1, <2>3
<1>12. CASE JobEnd \/ ClientEndOfInput \/ Ended
  BY <1>12 DEF JobEnd, ClientEndOfInput, Ended, vars
<1> QED
  BY <1>5, <1>6, <1>7, <1>8, <1>9, <1>10, <1>11, <1>12 DEF Next

\* A command is carried out only where the text has it, with its arguments, in
\* the part that its turn consumed, if there is no '\0' in that; only a number
\* that ends the file may be carried out with more digits.
THEOREM CommandsAreInTheFile == Spec => []CommandsAreSpelled
<1>1. Init => CommandsAreSpelled
  BY DEF Init, CommandsAreSpelled
<1>2. IInv /\ CommandsAreSpelled /\ [Next]_vars => CommandsAreSpelled'
  <2> SUFFICES ASSUME IInv, CommandsAreSpelled, [Next]_vars
               PROVE  CommandsAreSpelled'
    OBVIOUS
  <2>1. CASE UNCHANGED <<text, log>>
    BY <2>1 DEF CommandsAreSpelled
  <2>2. ASSUME NEW op, NEW args, NEW next, Turn(op, args, next),
               Real(op, args, pos, next)
        PROVE  CommandsAreSpelled'
    <3> DEFINE e == [from |-> pos, to |-> next, op |-> op, args |-> args]
               RealAt(l, i) == Real(l[i].op, l[i].args, l[i].from, l[i].to)
    <3>1. text' = text /\ log' = Append(log, e)
      BY <2>2 DEF Turn
    <3>2. Real(e.op, e.args, e.from, e.to)
      BY <2>2
    <3> HIDE DEF e
    <3>3. /\ Len(log') = Len(log) + 1 /\ log'[Len(log) + 1] = e /\ Len(log) \in Nat
          /\ DOMAIN log = 1 .. Len(log) /\ DOMAIN log' = 1 .. Len(log) + 1
          /\ \A i \in 1 .. Len(log) : log'[i] = log[i]
      BY <3>1, LenProperties, AppendProperties DEF IInv
    <3>4. \A i \in DOMAIN log : RealAt(log, i)
      BY DEF CommandsAreSpelled, Real
    <3>5. \A i \in DOMAIN log' : RealAt(log', i)
      <4> HIDE DEF RealAt
      <4> TAKE i \in DOMAIN log'
      <4>1. i \in 1 .. Len(log) \/ i = Len(log) + 1
        BY <3>3
      <4>2. CASE i \in 1 .. Len(log)
        BY <3>3, <3>4, <4>2 DEF RealAt
      <4>3. CASE i = Len(log) + 1
        BY <3>2, <3>3, <4>3 DEF RealAt
      <4> QED
        BY <4>1, <4>2, <4>3
    <3> QED
      BY <3>1, <3>5 DEF CommandsAreSpelled, Real
  <2> QED
    BY <2>1, <2>2, TurnsAreReal DEF vars
<1> QED
  BY Invariance, <1>1, <1>2, PTL DEF Spec

-----------------------------------------------------------------------------
(* What is written is read. *)

\* A word that the text spells can be cut anywhere.
LEMMA SpellsSplit ==
    ASSUME TextInv, NEW p \in Place, NEW u \in Seq(Symbol), NEW v \in Seq(Symbol),
           NEW r, Spells(u \o v, p, r)
    PROVE  /\ Spells(u, p, p + Len(u)) /\ Spells(v, p + Len(u), r)
           /\ p + Len(u) \in Place /\ r \in Place /\ p + Len(u) <= r
<1> DEFINE q == p + Len(u)
<1>1. Job!End \in Nat /\ p \in Nat /\ p > 0 /\ p <= Job!End
  BY Places DEF Place
<1>2. Len(u) \in Nat /\ Len(v) \in Nat
  BY LenProperties
<1>3. /\ u \o v \in Seq(Symbol) /\ Len(u \o v) = Len(u) + Len(v)
      /\ \A i \in 1 .. Len(u) + Len(v) :
            (u \o v)[i] = IF i <= Len(u) THEN u[i] ELSE v[i - Len(u)]
  BY ConcatProperties
<1>4. /\ r = p + (Len(u) + Len(v)) /\ r <= Job!End
      /\ \A i \in 1 .. Len(u) + Len(v) : text[p + i - 1] = (u \o v)[i]
  BY <1>3 DEF Spells
<1>5. q \in Nat /\ q > 0 /\ q <= r /\ r = q + Len(v) /\ r \in Nat
  BY <1>1, <1>2, <1>4
<1>6. \A i \in 1 .. Len(u) : text[p + i - 1] = u[i]
  BY <1>2, <1>3, <1>4
<1>7. \A i \in 1 .. Len(v) : text[q + i - 1] = v[i]
  <2> TAKE i \in 1 .. Len(v)
  <2> DEFINE j == Len(u) + i
  <2>1. j \in 1 .. Len(u) + Len(v) /\ ~(j <= Len(u)) /\ j - Len(u) = i
        /\ p + j - 1 = q + i - 1
    BY <1>1, <1>2
  <2> HIDE DEF j, q
  <2>2. text[p + j - 1] = (u \o v)[j] /\ (u \o v)[j] = v[j - Len(u)]
    BY <1>3, <1>4, <2>1
  <2> QED
    BY <2>1, <2>2
<1> QED
  BY <1>1, <1>4, <1>5, <1>6, <1>7 DEF Spells, Place

\* A character that is spelled is read.
LEMMA CharacterSpelled ==
    ASSUME TextInv, NEW p \in Place, NEW c, NEW q, Spells(<<c>>, p, q)
    PROVE  /\ Job!Char(p) = c /\ q = p + 1 /\ Job!After(p, 1) = q
           /\ q \in Place /\ p < Job!End
<1>1. Job!End \in Nat /\ p \in Nat /\ p > 0 /\ p <= Job!End /\ 1 \in Nat
  BY Places DEF Place
<1> DEFINE w == <<c>>
<1>2. Len(w) = 1 /\ w[1] = c
  OBVIOUS
<1> HIDE DEF w
<1>3. /\ q = p + Len(w) /\ q <= Job!End
      /\ \A i \in 1 .. Len(w) : text[p + i - 1] = w[i]
  BY DEF Spells, w
<1>4. q = p + 1 /\ q <= Job!End /\ text[p] = c /\ p < Job!End
  BY <1>1, <1>2, <1>3
<1>5. Job!Char(p) = c
  BY <1>4, Places
<1>6. Job!After(p, 1) = p + 1
  BY <1>1, <1>4, AfterIs
<1> QED
  BY <1>1, <1>4, <1>5, <1>6 DEF Place

\* Where the parts of a joined sequence are in the text: part k begins at
\* e[k - 1] and ends at e[k].
Cut(e, parts, p, r) ==
    /\ e \in [0 .. Len(parts) -> Place] /\ e[0] = p /\ e[Len(parts)] = r
    /\ \A k \in 1 .. Len(parts) : Spells(parts[k], e[k - 1], e[k])

\* A text that spells the joined sequence is cut into its parts.
LEMMA SpellsFlatten ==
    ASSUME TextInv, NEW p \in Place, NEW parts \in Seq(Seq(Symbol)), NEW r,
           Spells(FlattenSeq(parts), p, r)
    PROVE  \E e : Cut(e, parts, p, r)
<1> DEFINE Good(s) == \A q : Spells(FlattenSeq(s), p, q) => \E e : Cut(e, s, p, q)
           T == {n \in Nat : \A s \in Seq(Seq(Symbol)) : Len(s) = n => Good(s)}
<1>1. 0 \in T
  <2> SUFFICES ASSUME NEW s \in Seq(Seq(Symbol)), Len(s) = 0, NEW q,
                      Spells(FlattenSeq(s), p, q)
               PROVE  \E e : Cut(e, s, p, q)
    OBVIOUS
  <2>1. s = <<>> /\ FlattenSeq(s) = <<>>
    BY EmptySeq, FlattenEmpty
  <2>2. q = p
    <3>1. Len(<<>>) = 0 /\ p \in Nat
      BY EmptySeq, Places
    <3> QED
      BY <2>1, <3>1 DEF Spells
  <2> DEFINE e == [k \in 0 .. 0 |-> p]
  <2>3. e \in [0 .. 0 -> Place] /\ e[0] = p
    OBVIOUS
  <2> HIDE DEF e
  <2>4. Cut(e, s, p, q)
    BY <2>2, <2>3 DEF Cut
  <2> QED
    BY <2>4
<1>2. ASSUME NEW n \in Nat, n \in T PROVE n + 1 \in T
  <2> SUFFICES ASSUME NEW s \in Seq(Seq(Symbol)), Len(s) = n + 1, NEW q,
                      Spells(FlattenSeq(s), p, q)
               PROVE  \E e : Cut(e, s, p, q)
    OBVIOUS
  <2>1. PICK t \in Seq(Seq(Symbol)), x \in Seq(Symbol) : s = Append(t, x) /\ Len(t) = n
    BY LastOfMany
  <2>2. FlattenSeq(s) = FlattenSeq(t) \o x /\ FlattenSeq(t) \in Seq(Symbol)
    BY <2>1, FlattenLast, FlattenType
  <2> DEFINE m == p + Len(FlattenSeq(t))
  <2>3. /\ Spells(FlattenSeq(t), p, m) /\ Spells(x, m, q)
        /\ m \in Place /\ q \in Place
    BY <2>2, SpellsSplit
  <2>4. PICK f : Cut(f, t, p, m)
    BY <1>2, <2>1, <2>3
  <2> HIDE DEF m
  <2> DEFINE e == [k \in 0 .. n + 1 |-> IF k = n + 1 THEN q ELSE f[k]]
  <2>5. /\ f \in [0 .. n -> Place] /\ f[0] = p /\ f[n] = m
        /\ \A k \in 1 .. n : Spells(t[k], f[k - 1], f[k])
    BY <2>1, <2>4 DEF Cut
  <2>6. /\ e \in [0 .. n + 1 -> Place] /\ e[0] = p /\ e[n + 1] = q /\ e[n] = m
        /\ \A k \in 0 .. n : e[k] = f[k]
    BY <2>3, <2>5
  <2> HIDE DEF e
  <2>7. s[n + 1] = x /\ \A k \in 1 .. n : s[k] = t[k]
    BY <2>1, AppendProperties
  <2>8. ASSUME NEW k \in 1 .. n + 1 PROVE Spells(s[k], e[k - 1], e[k])
    <3>1. CASE k = n + 1
      <4>1. k - 1 = n
        BY <3>1
      <4> QED
        BY <2>3, <2>6, <2>7, <3>1, <4>1
    <3>2. CASE k \in 1 .. n
      <4>1. k - 1 \in 0 .. n /\ k \in 0 .. n
        BY <3>2
      <4> QED
        BY <2>5, <2>6, <2>7, <3>2, <4>1
    <3> QED
      BY <3>1, <3>2
  <2>9. Cut(e, s, p, q)
    BY <2>6, <2>8 DEF Cut
  <2> QED
    BY <2>9
<1> HIDE DEF Good
<1>3. \A n \in Nat : n \in T
  <2> HIDE DEF T
  <2> QED
    BY <1>1, <1>2, Induction
<1>4. Len(parts) \in Nat
  BY LenProperties
<1>5. Good(parts)
  BY <1>3, <1>4
<1> QED
  BY <1>5 DEF Good

\* Two spellings of the same part of the text are the same.
LEMMA SpellsOnce ==
    ASSUME TextInv, NEW p \in Place, NEW q, NEW u, NEW v,
           Spells(u, p, q), Spells(v, p, q)
    PROVE  u = v
<1>1. /\ u \in Seq(Symbol) /\ q = p + Len(u)
      /\ \A i \in 1 .. Len(u) : text[p + i - 1] = u[i]
  BY DEF Spells
<1>2. /\ v \in Seq(Symbol) /\ q = p + Len(v)
      /\ \A i \in 1 .. Len(v) : text[p + i - 1] = v[i]
  BY DEF Spells
<1>3. Len(u) \in Nat /\ Len(v) \in Nat /\ p \in Nat
  BY <1>1, <1>2, LenProperties, Places
<1>4. Len(u) = Len(v)
  BY <1>1, <1>2, <1>3
<1>5. \A i \in 1 .. Len(u) : u[i] = v[i]
  BY <1>1, <1>2, <1>4
<1> QED
  BY <1>1, <1>2, <1>4, <1>5, SeqEqual

\* A word before a separator is read whole.
LEMMA WordRead ==
    ASSUME TextInv, NEW p \in Place, NEW w \in Word, NEW q, Spells(w, p, q),
           NEW c \in Job!Separators, Job!Char(q) = c
    PROVE  /\ Job!read_string(p).string = w /\ Job!read_string(p).closed = c
           /\ Job!read_string(p).pos = Job!After(q, 1)
<1> DEFINE Stops(o) == Job!Char(o) \in Job!Separators \cup {" ", Job!EndOfFile}
           S == {o \in p .. p + MAX_STRING_SIZE :
                    o = p + MAX_STRING_SIZE \/ Stops(o)}
           stop == Job!Min(S)
           full == stop = p + MAX_STRING_SIZE
           r == Job!read_string(p)
<1>1. /\ Job!End \in Nat /\ p \in Nat /\ p > 0 /\ p <= Job!End
      /\ MAX_STRING_SIZE \in Nat
  BY Places, CommandLoopsAssumption DEF Place
<1> DEFINE closed == IF full THEN "full" ELSE Job!Char(stop)
           after == IF full THEN stop ELSE Job!After(stop, 1)
           string == SubSeq(text, p, stop - 1)
<1>2. r.string = string /\ r.closed = closed /\ r.pos = after
  <2>1. r = [string |-> string, closed |-> closed, pos |-> after]
    BY DEF Job!read_string
  <2> HIDE DEF r, string, closed, after
  <2> QED
    BY <2>1
<1>3. Len(w) \in Nat /\ Len(w) < MAX_STRING_SIZE
  BY LenProperties DEF Word
<1> DEFINE Plain(ch) == ch \notin Job!Separators \cup {" "}
<1>0. \A i \in 1 .. Len(w) : Plain(w[i])
  BY LenProperties DEF Word
<1>4. /\ q = p + Len(w) /\ q <= Job!End
      /\ \A i \in 1 .. Len(w) : text[p + i - 1] = w[i]
  BY DEF Spells
<1>5. Stops(q) /\ q \in p .. p + MAX_STRING_SIZE /\ q # p + MAX_STRING_SIZE
  <2>1. Stops(q)
    OBVIOUS
  <2> HIDE DEF Stops
  <2> QED
    BY <1>1, <1>3, <1>4, <2>1
<1>6. ASSUME NEW o \in p .. q - 1 PROVE ~Stops(o)
  <2> DEFINE i == o - p + 1
  <2> HIDE DEF Stops, Plain
  <2>1. i \in 1 .. Len(w) /\ p + i - 1 = o /\ o \in Place /\ o < Job!End
    BY <1>1, <1>3, <1>4 DEF Place
  <2> HIDE DEF i
  <2>2. text[o] = w[i] /\ Job!Char(o) = text[o] /\ Job!Char(o) # Job!EndOfFile
    BY <1>4, <2>1, Places
  <2>3. Plain(text[o])
    BY <1>0, <2>1, <2>2
  <2> QED
    BY <2>2, <2>3 DEF Stops, Plain
<1> HIDE DEF Stops, Plain
<1>7. S \in SUBSET Nat /\ q \in S
  BY <1>1, <1>5
<1>8. stop \in S /\ stop <= q
  <2> HIDE DEF S
  <2> QED
    BY <1>7, MinIsLeast
<1>9. ~(stop \in p .. q - 1)
  <2> SUFFICES ASSUME stop \in p .. q - 1 PROVE FALSE
    OBVIOUS
  <2>1. stop # p + MAX_STRING_SIZE
    BY <1>1, <1>3, <1>4
  <2>2. Stops(stop)
    BY <1>8, <2>1
  <2> QED
    BY <1>6, <2>2
<1>10. stop = q
  <2>1. stop \in p .. p + MAX_STRING_SIZE
    BY <1>8
  <2> HIDE DEF stop
  <2> QED
    BY <1>1, <1>3, <1>4, <1>8, <1>9, <2>1
<1>11. SubSeq(text, p, q - 1) = w
  <2>1. q \in Place /\ p <= q
    BY <1>1, <1>3, <1>4 DEF Place
  <2>2. Spells(SubSeq(text, p, q - 1), p, q)
    BY <2>1, SpellsPart
  <2> QED
    BY <2>2, SpellsOnce
<1> HIDE DEF stop, r
<1> QED
  BY <1>2, <1>5, <1>10, <1>11 DEF r

\* A mark is a symbol.
LEMMA MarkSymbol == ASSUME NEW c \in Marks PROVE <<c>> \in Seq(Symbol)
<1>1. c \in Symbol
  BY DEF Symbol
<1> QED
  BY <1>1

\* Words are made of symbols.
LEMMA WordSymbols == Word \subseteq Seq(Symbol)
<1>1. Seq(Character) \subseteq Seq(Symbol)
  BY WordsAre DEF Symbol
<1> QED
  BY <1>1 DEF Word

\* Words are copied whole.
LEMMA WordsCopied ==
    ASSUME NEW words \in Seq(Word)
    PROVE  Job!Copied(words) = words
<1>1. words \in Seq(Seq(Character))
  <2>1. Word \subseteq Seq(Character)
    BY DEF Word
  <2> QED
    BY <2>1, WordsAre
<1>2. \A w \in Word : Uncut(w)
  <2> SUFFICES ASSUME NEW w \in Word, NEW i \in 1 .. Len(w) PROVE w[i] # Job!Nul
    BY DEF Uncut
  <2>1. i \in DOMAIN w
    BY LenProperties DEF Word
  <2> QED
    BY <2>1 DEF Word
<1>3. \A k \in 1 .. Len(words) : Uncut(words[k])
  BY <1>2, ElementOfSeq
<1> QED
  BY <1>1, <1>3, CopiedSame

\* The strings of a list, each but the first behind its comma.
Part(strings, i) == IF i = 1 THEN strings[i] ELSE <<",">> \o strings[i]
Parts(strings) == [i \in DOMAIN strings |-> Part(strings, i)]

\* Joined puts these parts one behind the other.
LEMMA PartsAre ==
    ASSUME NEW strings \in Seq(Seq(Symbol))
    PROVE  /\ Parts(strings) \in Seq(Seq(Symbol)) /\ Len(Parts(strings)) = Len(strings)
           /\ Joined(strings) = FlattenSeq(Parts(strings))
           /\ \A i \in 1 .. Len(strings) : Parts(strings)[i] = Part(strings, i)
<1> DEFINE n == Len(strings)
<1>1. n \in Nat /\ DOMAIN strings = 1 .. n
  BY LenProperties
<1>2. Joined(strings) = FlattenSeq(Parts(strings))
  BY DEF Joined, Parts, Part
<1> HIDE DEF n
<1>3. Parts(strings) = [i \in 1 .. n |-> Part(strings, i)]
  BY <1>1 DEF Parts
<1>4. \A i \in 1 .. n : Part(strings, i) \in Seq(Symbol)
  <2> TAKE i \in 1 .. n
  <2>1. strings[i] \in Seq(Symbol)
    BY ElementOfSeq DEF n
  <2>2. <<",">> \in Seq(Symbol)
    BY MarkSymbol DEF Marks
  <2>3. <<",">> \o strings[i] \in Seq(Symbol)
    BY <2>1, <2>2, ConcatProperties
  <2> QED
    BY <2>1, <2>3 DEF Part
<1>5. Parts(strings) \in [1 .. n -> Seq(Symbol)]
  BY <1>3, <1>4
<1>6. Parts(strings) \in Seq(Seq(Symbol)) /\ Len(Parts(strings)) = n
  BY <1>1, <1>5, SeqDef, LenProperties
<1>7. \A i \in 1 .. n : Parts(strings)[i] = Part(strings, i)
  BY <1>3
<1> QED
  BY <1>2, <1>6, <1>7 DEF n

-----------------------------------------------------------------------------
(* How the lists are read, one element behind the other. *)

\* How KeyList reads: m keys, each but the last followed by another.
ReadsKeys(list, p, max, key, m) ==
    /\ m \in 1 .. max
    /\ key[1] = Job!read_string(p)
    /\ \A k \in 1 .. max - 1 : key[k + 1] = Job!read_string(key[k].pos)
    /\ \A k \in 1 .. m - 1 : More(key[k])
    /\ m = max \/ ~More(key[m])
    /\ list.keys = [k \in 1 .. m |-> key[k].string]
    /\ list.closed = key[m].closed /\ list.pos = key[m].pos

\* KeyList does read keys that way.
LEMMA KeyListReads ==
    ASSUME NEW p, NEW max \in Nat \ {0}
    PROVE  \E key, m : ReadsKeys(Job!KeyList(p, max), p, max, key, m)
<1> DEFINE key == CHOOSE key : key = [n \in 1 .. max |->
                     Job!read_string(IF n = 1 THEN p ELSE key[n - 1].pos)]
           S == {k \in 1 .. max : k = max \/ key[k].closed # ","}
           m == Job!Min(S)
           strings == [k \in 1 .. m |-> key[k].string]
           list == Job!KeyList(p, max)
<1>1. max \in Nat /\ max >= 1
  OBVIOUS
<1>2. key = [n \in 1 .. max |->
               Job!read_string(IF n = 1 THEN p ELSE key[n - 1].pos)]
  BY <1>1, KeysExist
<1>3. list = [keys |-> strings, closed |-> key[m].closed, pos |-> key[m].pos]
  BY DEF Job!KeyList
<1> HIDE DEF key, list
<1>4. /\ key[1] = Job!read_string(p)
      /\ \A k \in 1 .. max - 1 : key[k + 1] = Job!read_string(key[k].pos)
  BY <1>1, <1>2, KeysFollow
<1>5. S = {k \in 1 .. max : k = max \/ ~More(key[k])}
  BY DEF More
<1> HIDE DEF S
<1>6. S \in SUBSET Nat /\ max \in S
  BY <1>1, <1>5
<1>7. m \in S /\ \A k \in S : m <= k
  BY <1>6, MinIsLeast
<1> HIDE DEF m, strings
<1>8. m \in 1 .. max /\ (m = max \/ ~More(key[m]))
  BY <1>5, <1>7
<1>9. \A k \in 1 .. m - 1 : More(key[k])
  BY <1>1, <1>5, <1>7, <1>8
<1>10. list.keys = strings /\ list.closed = key[m].closed /\ list.pos = key[m].pos
  BY <1>3
<1>11. ReadsKeys(list, p, max, key, m)
  BY <1>4, <1>8, <1>9, <1>10 DEF ReadsKeys, strings
<1> QED
  BY <1>11 DEF list

\* How pairs reads: m pairs, each but the last followed by another bracket.
ReadsPairs(result, p, pair, m) ==
    /\ m \in 1 .. MAX_WRITE_SIZE
    /\ pair[1] = Job!parse_pair(p)
    /\ \A k \in 1 .. MAX_WRITE_SIZE - 1 :
          pair[k + 1] = Job!parse_pair(Job!After(pair[k].pos, 1))
    /\ \A k \in 1 .. m - 1 : Another(pair[k])
    /\ m = MAX_WRITE_SIZE \/ ~Another(pair[m])
    /\ IF /\ pair[m].args # <<>> /\ m < MAX_WRITE_SIZE
          /\ Job!Char(pair[m].pos) = "]"
       THEN result = Job!LineEnd([k \in 1 .. m |-> Job!Copied(pair[k].args)],
                                 Job!After(pair[m].pos, 1))
       ELSE result.args = <<>>

\* And pairs reads pairs that way.
LEMMA PairListReads ==
    ASSUME NEW p
    PROVE  \E pair, m : ReadsPairs(Job!pairs(p), p, pair, m)
<1> DEFINE max == MAX_WRITE_SIZE
           pair == CHOOSE pair : pair = [n \in 1 .. max |->
              Job!parse_pair(IF n = 1 THEN p ELSE Job!After(pair[n - 1].pos, 1))]
           S == {k \in 1 .. max : \/ k = max
                                  \/ pair[k].args = <<>> \/ Job!Char(pair[k].pos) # "("}
           m == Job!Min(S)
           list == [k \in 1 .. m |-> Job!Copied(pair[k].args)]
           next == Job!After(pair[m].pos, 1)
           result == Job!pairs(p)
<1>1. max \in Nat /\ max > 1
  BY CommandLoopsAssumption
<1>2. pair = [k \in 1 .. max |->
          Job!parse_pair(IF k = 1 THEN p ELSE Job!After(pair[k - 1].pos, 1))]
  <2>1. max \in Nat
    BY <1>1
  <2> HIDE DEF max
  <2> QED
    BY <2>1, PairsExist
<1>3. result =
        CASE pair[m].args = <<>> -> Job!Reject(pair[m].pos)
          [] /\ pair[m].args # <<>> /\ m < MAX_WRITE_SIZE
             /\ Job!Char(pair[m].pos) = "]" -> Job!LineEnd(list, next)
          [] OTHER -> Job!Reject(next)
  BY DEF Job!pairs
<1> HIDE DEF pair, result
<1>4. /\ pair[1] = Job!parse_pair(p)
      /\ \A k \in 1 .. max - 1 : pair[k + 1] = Job!parse_pair(Job!After(pair[k].pos, 1))
  BY <1>1, <1>2, PairsFollow
<1>5. S = {k \in 1 .. max : k = max \/ ~Another(pair[k])}
  BY DEF Another, Opens
<1> HIDE DEF S
<1>6. S \in SUBSET Nat /\ max \in S
  BY <1>1, <1>5
<1>7. m \in S /\ \A k \in S : m <= k
  BY <1>6, MinIsLeast
<1> HIDE DEF m, list, next
<1>8. m \in 1 .. max /\ (m = max \/ ~Another(pair[m]))
  BY <1>5, <1>7
<1>9. \A k \in 1 .. m - 1 : Another(pair[k])
  BY <1>1, <1>5, <1>7, <1>8
<1>10. \A o : Job!Reject(o).args = <<>>
  BY DEF Job!Reject, Job!Accept
<1>11. IF /\ pair[m].args # <<>> /\ m < MAX_WRITE_SIZE
          /\ Job!Char(pair[m].pos) = "]"
       THEN result = Job!LineEnd(list, next)
       ELSE result.args = <<>>
  BY <1>3, <1>10
<1>12. ReadsPairs(result, p, pair, m)
  BY <1>4, <1>8, <1>9, <1>11 DEF ReadsPairs, list, next
<1> QED
  BY <1>12 DEF result

\* Where key k of a list begins, and that another key follows at p.
Begin(e, k) == IF k = 1 THEN e[0] ELSE Job!After(e[k - 1], 1)
Comma(p) == Job!Char(p) = ","

\* Where the n keys of a list are in the text: key k ends at e[k].
KeysAt(e, keys, p, r, n) ==
    /\ e \in [0 .. n -> Place] /\ e[0] = p /\ e[n] = r
    /\ \A k \in 1 .. n : /\ Begin(e, k) \in Place
                         /\ Spells(keys[k], Begin(e, k), e[k])
    /\ \A k \in 1 .. n - 1 : Comma(e[k])

\* A text that spells a list of keys is cut into them.
LEMMA KeysCut ==
    ASSUME TextInv, NEW p \in Place, NEW keys \in Seq(Seq(Symbol)), NEW r,
           Spells(Joined(keys), p, r), NEW n \in Nat \ {0}, n = Len(keys)
    PROVE  \E e : KeysAt(e, keys, p, r, n)
<1>1. /\ Parts(keys) \in Seq(Seq(Symbol)) /\ Len(Parts(keys)) = n
      /\ Joined(keys) = FlattenSeq(Parts(keys))
      /\ \A i \in 1 .. n : Parts(keys)[i] = Part(keys, i)
  BY PartsAre
<1>2. PICK e : Cut(e, Parts(keys), p, r)
  BY <1>1, SpellsFlatten
<1>3. /\ e \in [0 .. n -> Place] /\ e[0] = p /\ e[n] = r
      /\ \A k \in 1 .. n : Spells(Part(keys, k), e[k - 1], e[k])
  BY <1>1, <1>2 DEF Cut
<1>4. ASSUME NEW k \in 1 .. n, k # 1
      PROVE  /\ Comma(e[k - 1]) /\ Begin(e, k) \in Place
             /\ Spells(keys[k], Begin(e, k), e[k])
  <2> DEFINE q == e[k - 1]
  <2>1. q \in Place /\ Spells(<<",">> \o keys[k], q, e[k])
    <3>1. k - 1 \in 0 .. n
      OBVIOUS
    <3>2. Part(keys, k) = <<",">> \o keys[k]
      BY <1>4, Zenon DEF Part
    <3>3. e[k - 1] \in Place /\ Spells(Part(keys, k), e[k - 1], e[k])
      BY <1>3, <3>1
    <3> QED
      BY <3>2, <3>3, Zenon
  <2> HIDE DEF q
  <2>2. <<",">> \in Seq(Symbol)
    BY MarkSymbol DEF Marks
  <2>3. keys[k] \in Seq(Symbol)
    BY ElementOfSeq
  <2> DEFINE c == <<",">>
  <2>4. Len(c) = 1
    OBVIOUS
  <2> HIDE DEF c
  <2>5. Spells(c, q, q + 1) /\ Spells(keys[k], q + 1, e[k])
    BY <2>1, <2>2, <2>3, <2>4, SpellsSplit DEF c
  <2>6. Job!Char(q) = "," /\ Job!After(q, 1) = q + 1 /\ q + 1 \in Place
    BY <2>1, <2>5, CharacterSpelled DEF c
  <2>7. Begin(e, k) = Job!After(q, 1)
    BY <1>4 DEF Begin, q
  <2> QED
    BY <2>5, <2>6, <2>7 DEF Comma, q
<1>5. /\ Begin(e, 1) \in Place /\ Spells(keys[1], Begin(e, 1), e[1])
  <2>1. 1 \in 1 .. n /\ 1 - 1 = 0 /\ Part(keys, 1) = keys[1] /\ Begin(e, 1) = e[0]
    BY DEF Part, Begin
  <2>2. Spells(Part(keys, 1), e[1 - 1], e[1])
    BY <1>3, <2>1
  <2> QED
    BY <1>3, <2>1, <2>2
<1>6. ASSUME NEW k \in 1 .. n - 1 PROVE Comma(e[k])
  <2>1. k + 1 \in 1 .. n /\ k + 1 # 1 /\ (k + 1) - 1 = k
    OBVIOUS
  <2> QED
    BY <1>4, <2>1
<1>7. \A k \in 1 .. n : Begin(e, k) \in Place /\ Spells(keys[k], Begin(e, k), e[k])
  BY <1>4, <1>5
<1> QED
  BY <1>3, <1>6, <1>7 DEF KeysAt

\* The place where a list is closed.
Closes(p) == Job!Char(p) = "]"

\* A list of words is read whole.
LEMMA KeysRead ==
    ASSUME TextInv, NEW p \in Place, NEW keys \in Seq(Word), NEW r,
           Spells(Joined(keys), p, r), Closes(r),
           NEW len \in Nat \ {0}, len = Len(keys), NEW max \in Nat, len <= max
    PROVE  /\ Job!KeyList(p, max).keys = keys
           /\ Closed(Job!KeyList(p, max), "]")
           /\ Job!KeyList(p, max).pos = Job!After(r, 1)
<1> DEFINE list == Job!KeyList(p, max)
<1>0. max >= 1 /\ len >= 1 /\ len <= max /\ max \in Nat \ {0}
  OBVIOUS
<1>1. PICK key, m : ReadsKeys(list, p, max, key, m)
  BY <1>0, KeyListReads
<1> DEFINE Goes(k) == More(key[k])
<1> HIDE DEF list
<1>4. /\ m \in 1 .. max /\ key[1] = Job!read_string(p)
      /\ \A k \in 1 .. max - 1 : key[k + 1] = Job!read_string(key[k].pos)
  BY <1>1 DEF ReadsKeys
<1>5. keys \in Seq(Seq(Symbol)) /\ \A k \in 1 .. len : keys[k] \in Word
  <2>1. Seq(Word) \subseteq Seq(Seq(Symbol))
    BY WordSymbols, WordsAre
  <2> QED
    BY <2>1, ElementOfSeq
<1>61. \E e : KeysAt(e, keys, p, r, len)
  BY <1>5, KeysCut
<1>62. PICK e : KeysAt(e, keys, p, r, len)
  BY <1>61
<1>6. /\ e \in [0 .. len -> Place] /\ e[0] = p /\ e[len] = r
      /\ \A k \in 1 .. len : /\ Begin(e, k) \in Place
                             /\ Spells(keys[k], Begin(e, k), e[k])
      /\ \A k \in 1 .. len - 1 : Comma(e[k])
  BY <1>62 DEF KeysAt
<1> DEFINE Read(k) == /\ key[k].string = keys[k] /\ key[k].closed = Job!Char(e[k])
                      /\ key[k].pos = Job!After(e[k], 1)
<1>7. ASSUME NEW k \in 1 .. len, key[k] = Job!read_string(Begin(e, k))
      PROVE  Read(k)
  <2>1. Job!Char(e[k]) \in Job!Separators
    <3>1. k = len \/ k \in 1 .. len - 1
      OBVIOUS
    <3>2. Comma(e[k]) \/ Closes(e[k])
      BY <1>6, <3>1
    <3> QED
      BY <3>2 DEF Comma, Closes, Job!Separators
  <2>2. /\ Begin(e, k) \in Place /\ keys[k] \in Word
        /\ Spells(keys[k], Begin(e, k), e[k])
    BY <1>5, <1>6
  <2> QED
    BY <1>7, <2>1, <2>2, WordRead
<1> HIDE DEF Read
<1> DEFINE T == {k \in Nat : k + 1 \in 1 .. len => Read(k + 1)}
<1>8. 0 \in T
  <2>1. key[1] = Job!read_string(Begin(e, 1)) /\ 1 \in 1 .. len
    BY <1>0, <1>4, <1>6 DEF Begin
  <2> QED
    BY <1>7, <2>1
<1>9. ASSUME NEW k \in Nat, k \in T PROVE k + 1 \in T
  <2> SUFFICES ASSUME (k + 1) + 1 \in 1 .. len PROVE Read((k + 1) + 1)
    OBVIOUS
  <2> DEFINE l == k + 1
  <2>1. /\ l \in 1 .. len /\ l \in 1 .. max - 1 /\ l + 1 \in 1 .. len /\ l + 1 # 1
        /\ (l + 1) - 1 = l
    BY <1>0
  <2>2. Read(l)
    BY <1>9, <2>1
  <2> HIDE DEF l
  <2>3. key[l + 1] = Job!read_string(Job!After(e[l], 1))
    BY <1>4, <2>1, <2>2 DEF Read
  <2>4. Begin(e, l + 1) = Job!After(e[l], 1)
    BY <2>1 DEF Begin
  <2>5. Read(l + 1)
    BY <1>7, <2>1, <2>3, <2>4
  <2> QED
    BY <2>5 DEF l
<1>10. \A k \in Nat : k \in T
  <2> HIDE DEF T
  <2> QED
    BY <1>8, <1>9, Induction
<1>11. \A k \in 1 .. len : Read(k)
  <2> TAKE k \in 1 .. len
  <2>1. k - 1 \in Nat /\ (k - 1) + 1 = k
    OBVIOUS
  <2>2. k - 1 \in T
    <3> HIDE DEF T
    <3> QED
      BY <1>10, <2>1
  <2> QED
    BY <2>1, <2>2
<1> HIDE DEF T
<1>12. \A k \in 1 .. len - 1 : Goes(k)
  <2> TAKE k \in 1 .. len - 1
  <2>1. Read(k) /\ Comma(e[k])
    BY <1>6, <1>11
  <2> QED
    BY <2>1 DEF Read, Comma, More
<1>13. ~Goes(len)
  <2>1. Read(len) /\ Closes(e[len])
    BY <1>6, <1>11
  <2>2. key[len].closed = "]"
    BY <2>1 DEF Read, Closes
  <2> QED
    BY <2>2 DEF More
<1> HIDE DEF Goes
<1>14. /\ \A k \in 1 .. m - 1 : Goes(k)
       /\ m = max \/ ~Goes(m)
  BY <1>1 DEF ReadsKeys, Goes
<1>16. m = len
  <2>1. ~(m \in 1 .. len - 1)
    BY <1>0, <1>12, <1>14
  <2>2. ~(len \in 1 .. m - 1)
    BY <1>13, <1>14
  <2> QED
    BY <1>0, <1>4, <2>1, <2>2
<1>17. list.keys = keys /\ list.closed = key[len].closed /\ list.pos = key[len].pos
  <2>1. DOMAIN keys = 1 .. len
    BY LenProperties
  <2>2. keys = [k \in 1 .. len |-> keys[k]]
    BY <2>1
  <2>3. \A k \in 1 .. len : key[k].string = keys[k]
    BY <1>11 DEF Read
  <2>4. list.keys = [k \in 1 .. len |-> key[k].string]
        /\ list.closed = key[len].closed /\ list.pos = key[len].pos
    BY <1>1, <1>16 DEF ReadsKeys
  <2> QED
    BY <2>2, <2>3, <2>4
<1>18. Read(len)
  BY <1>0, <1>11
<1>19. Closed(list, "]") /\ list.pos = Job!After(r, 1)
  BY <1>6, <1>17, <1>18 DEF Read, Closes, Closed
<1> QED
  BY <1>17, <1>19 DEF list

\* The two words of a pair are read.
LEMMA PairRead ==
    ASSUME TextInv, NEW p \in Place, NEW k \in Word, NEW v \in Word, NEW r,
           Spells(Joined(<<k, v>>), p, r), Job!Char(r) = ")"
    PROVE  /\ Job!parse_pair(p).args = <<k, v>>
           /\ Job!parse_pair(p).pos = Job!After(r, 1)
<1> DEFINE keys == <<k, v>>
<1>1. keys \in Seq(Seq(Symbol)) /\ Len(keys) = 2 /\ keys[1] = k /\ keys[2] = v
  <2>1. k \in Seq(Symbol) /\ v \in Seq(Symbol)
    BY WordSymbols
  <2> QED
    BY <2>1
<1> HIDE DEF keys
<1>2. \E e : KeysAt(e, keys, p, r, 2)
  <2>1. Spells(Joined(keys), p, r) /\ 2 \in Nat \ {0}
    BY DEF keys
  <2> QED
    BY <1>1, <2>1, KeysCut
<1>3. PICK e : KeysAt(e, keys, p, r, 2)
  BY <1>2
<1>4. /\ e[0] = p /\ e[2] = r /\ e[1] \in Place
      /\ Begin(e, 2) \in Place /\ Spells(k, Begin(e, 1), e[1])
      /\ Spells(v, Begin(e, 2), r) /\ Comma(e[1])
  <2>1. 1 \in 1 .. 2 /\ 2 \in 1 .. 2 /\ 1 \in 1 .. 2 - 1 /\ 1 \in 0 .. 2
    OBVIOUS
  <2> QED
    BY <1>1, <1>3, <2>1 DEF KeysAt
<1>5. Begin(e, 1) = p /\ Begin(e, 2) = Job!After(e[1], 1)
  <2>1. 2 - 1 = 1
    OBVIOUS
  <2> QED
    BY <1>4, <2>1 DEF Begin
<1> DEFINE key == Job!read_string(p)
           value == Job!read_string(key.pos)
<1>6. "," \in Job!Separators /\ ")" \in Job!Separators
  BY DEF Job!Separators
<1>7. key.string = k /\ key.closed = "," /\ key.pos = Job!After(e[1], 1)
  <2>1. Job!Char(e[1]) = ","
    BY <1>4 DEF Comma
  <2>2. /\ Job!read_string(p).string = k
        /\ Job!read_string(p).closed = ","
        /\ Job!read_string(p).pos = Job!After(e[1], 1)
    <3> DEFINE c == ","
    <3>1. c \in Job!Separators /\ Job!Char(e[1]) = c
      BY <1>6, <2>1
    <3>2. Spells(k, p, e[1])
      BY <1>4, <1>5
    <3> HIDE DEF c
    <3> HIDE <1>6, <2>1
    <3>3. /\ Job!read_string(p).string = k
          /\ Job!read_string(p).closed = c
          /\ Job!read_string(p).pos = Job!After(e[1], 1)
      BY <3>1, <3>2, WordRead
    <3> QED
      BY <3>3 DEF c
  <2> QED
    BY <2>2
<1>8. value.string = v /\ value.closed = ")" /\ value.pos = Job!After(r, 1)
  <2>1. key.pos \in Place /\ Spells(v, key.pos, r)
    BY <1>4, <1>5, <1>7
  <2> HIDE DEF key
  <2> QED
    BY <1>6, <2>1, WordRead
<1>9. Job!parse_pair(p) =
        IF key.closed # "," THEN Job!Reject(key.pos)
        ELSE IF value.closed # ")" THEN Job!Reject(value.pos)
        ELSE Job!Accept(<<key.string, value.string>>, value.pos)
  BY DEF Job!parse_pair
<1> HIDE DEF key, value
<1>10. Job!parse_pair(p) = Job!Accept(<<k, v>>, Job!After(r, 1))
  BY <1>7, <1>8, <1>9, Zenon
<1> QED
  BY <1>10 DEF Job!Accept

\* A pair in its brackets is read.
LEMMA BracketedRead ==
    ASSUME TextInv, NEW p \in Place, NEW pair \in Word \X Word, NEW r,
           Spells(Bracketed(pair), p, r)
    PROVE  /\ Opens(p) /\ r \in Place
           /\ Job!parse_pair(Job!After(p, 1)).args = pair
           /\ Job!parse_pair(Job!After(p, 1)).pos = r
<1>1. PICK k \in Word, v \in Word : pair = <<k, v>>
  OBVIOUS
<1> DEFINE b == <<"(">>
           j == Joined(pair)
           c == <<")">>
<1>2. b \in Seq(Symbol) /\ c \in Seq(Symbol) /\ Len(b) = 1
  BY MarkSymbol DEF Marks
<1>3. j \in Seq(Symbol)
  <2>1. j = k \o (<<",">> \o v)
    BY <1>1, JoinedTwo
  <2>2. <<",">> \in Seq(Symbol)
    BY MarkSymbol DEF Marks
  <2>3. k \in Seq(Symbol) /\ v \in Seq(Symbol)
    BY WordSymbols
  <2> QED
    BY <2>1, <2>2, <2>3, ConcatProperties
<1>4. Spells((b \o j) \o c, p, r)
  BY DEF Bracketed
<1> HIDE DEF b, j, c
<1>5. b \o j \in Seq(Symbol)
  BY <1>2, <1>3, ConcatProperties
<1> DEFINE q == p + Len(b \o j)
<1>6. Spells(b \o j, p, q) /\ Spells(c, q, r) /\ q \in Place /\ r \in Place
  BY <1>2, <1>4, <1>5, SpellsSplit
<1> HIDE DEF q
<1> DEFINE o == p + Len(b)
<1>7. Spells(b, p, o) /\ Spells(j, o, q) /\ o \in Place
  BY <1>2, <1>3, <1>6, SpellsSplit
<1> HIDE DEF o
<1>8. Job!Char(p) = "(" /\ Job!After(p, 1) = o
  BY <1>7, CharacterSpelled DEF b
<1>9. Job!Char(q) = ")" /\ Job!After(q, 1) = r
  BY <1>6, CharacterSpelled DEF c
<1>10. Spells(Joined(<<k, v>>), o, q)
  BY <1>1, <1>7 DEF j
<1>11. Job!parse_pair(o).args = <<k, v>> /\ Job!parse_pair(o).pos = Job!After(q, 1)
  BY <1>7, <1>9, <1>10, PairRead
<1> QED
  BY <1>1, <1>6, <1>8, <1>9, <1>11 DEF Opens

\* Pairs in their brackets, one behind the other.
PairsText(args) == FlattenSeq([i \in DOMAIN args |-> Bracketed(args[i])])

\* Its parts.
LEMMA PairsTextParts ==
    ASSUME NEW args \in Seq(Word \X Word), NEW n \in Nat, n = Len(args)
    PROVE  \E parts \in Seq(Seq(Symbol)) :
              /\ Len(parts) = n /\ PairsText(args) = FlattenSeq(parts)
              /\ \A k \in 1 .. n : parts[k] = Bracketed(args[k])
<1> DEFINE parts == [i \in 1 .. n |-> Bracketed(args[i])]
<1>1. DOMAIN args = 1 .. n
  BY LenProperties
<1>2. ASSUME NEW i \in 1 .. n PROVE Bracketed(args[i]) \in Seq(Symbol)
  <2>1. args[i] \in Word \X Word
    BY ElementOfSeq
  <2>2. PICK k \in Word, v \in Word : args[i] = <<k, v>>
    BY <2>1
  <2>3. Joined(args[i]) = k \o (<<",">> \o v)
    BY <2>2, JoinedTwo
  <2>4. <<",">> \in Seq(Symbol) /\ <<"(">> \in Seq(Symbol) /\ <<")">> \in Seq(Symbol)
    BY MarkSymbol DEF Marks
  <2>5. k \in Seq(Symbol) /\ v \in Seq(Symbol)
    BY WordSymbols
  <2>6. Joined(args[i]) \in Seq(Symbol)
    BY <2>3, <2>4, <2>5, ConcatProperties
  <2> QED
    BY <2>4, <2>6, ConcatProperties DEF Bracketed
<1>3. parts \in [1 .. n -> Seq(Symbol)]
  BY <1>2
<1>4. parts \in Seq(Seq(Symbol)) /\ Len(parts) = n
  <2>0. n \in Nat /\ DOMAIN parts = 1 .. n
    OBVIOUS
  <2> HIDE DEF parts
  <2>1. parts \in Seq(Seq(Symbol))
    BY <1>3, SeqDef
  <2>2. Len(parts) \in Nat /\ DOMAIN parts = 1 .. Len(parts)
    BY <2>1, LenProperties
  <2> QED
    BY <2>0, <2>1, <2>2
<1>5. PairsText(args) = FlattenSeq(parts)
  BY <1>1 DEF PairsText
<1>6. \A k \in 1 .. n : parts[k] = Bracketed(args[k])
  OBVIOUS
<1> QED
  BY <1>4, <1>5, <1>6

\* They are made of symbols.
LEMMA PairsTextSymbols ==
    ASSUME NEW args \in Seq(Word \X Word) PROVE PairsText(args) \in Seq(Symbol)
<1>1. Len(args) \in Nat
  BY LenProperties
<1> QED
  BY <1>1, PairsTextParts, FlattenType

\* Where n pairs are in the text: pair k begins at e[k - 1] and ends at e[k].
PairsAt(e, args, p, r, n) ==
    /\ e \in [0 .. n -> Place] /\ e[0] = p /\ e[n] = r
    /\ \A k \in 1 .. n : Spells(Bracketed(args[k]), e[k - 1], e[k])

\* A text that spells pairs is cut into them.
LEMMA PairsCut ==
    ASSUME TextInv, NEW p \in Place, NEW args \in Seq(Word \X Word), NEW r,
           Spells(PairsText(args), p, r), NEW n \in Nat, n = Len(args)
    PROVE  \E e : PairsAt(e, args, p, r, n)
<1>1. PICK parts \in Seq(Seq(Symbol)) :
         /\ Len(parts) = n /\ PairsText(args) = FlattenSeq(parts)
         /\ \A k \in 1 .. n : parts[k] = Bracketed(args[k])
  BY PairsTextParts
<1>7. PICK e : Cut(e, parts, p, r)
  BY <1>1, SpellsFlatten
<1>8. /\ e \in [0 .. n -> Place] /\ e[0] = p /\ e[n] = r
      /\ \A k \in 1 .. n : Spells(parts[k], e[k - 1], e[k])
  BY <1>1, <1>7 DEF Cut
<1>9. \A k \in 1 .. n : Spells(Bracketed(args[k]), e[k - 1], e[k])
  BY <1>1, <1>8
<1> QED
  BY <1>8, <1>9 DEF PairsAt

\* Pairs that are closed are read.
LEMMA PairsRead ==
    ASSUME TextInv, NEW p \in Place, NEW args \in Seq(Word \X Word), NEW r,
           Spells(PairsText(args), p, r), Closes(r),
           NEW n \in Nat \ {0}, n = Len(args), n < MAX_WRITE_SIZE
    PROVE  /\ Opens(p)
           /\ Job!pairs(Job!After(p, 1)) = Job!LineEnd(args, Job!After(r, 1))
<1> DEFINE o == Job!After(p, 1)
           result == Job!pairs(o)
<1>1. PICK pair, m : ReadsPairs(result, o, pair, m)
  BY PairListReads
<1> HIDE DEF result
<1>2. MAX_WRITE_SIZE \in Nat
  BY CommandLoopsAssumption
<1>3. /\ m \in 1 .. MAX_WRITE_SIZE
      /\ pair[1] = Job!parse_pair(o)
      /\ \A k \in 1 .. MAX_WRITE_SIZE - 1 :
            pair[k + 1] = Job!parse_pair(Job!After(pair[k].pos, 1))
      /\ \A k \in 1 .. m - 1 : Another(pair[k])
      /\ m = MAX_WRITE_SIZE \/ ~Another(pair[m])
  BY <1>1 DEF ReadsPairs
<1>4. \E e : PairsAt(e, args, p, r, n)
  BY PairsCut
<1>5. PICK e : PairsAt(e, args, p, r, n)
  BY <1>4
<1>6. /\ e \in [0 .. n -> Place] /\ e[0] = p /\ e[n] = r
      /\ \A k \in 1 .. n : Spells(Bracketed(args[k]), e[k - 1], e[k])
  BY <1>5 DEF PairsAt
<1> DEFINE Read(k) == pair[k].args = args[k] /\ pair[k].pos = e[k]
<1>7. ASSUME NEW k \in 1 .. n
      PROVE  /\ Opens(e[k - 1])
             /\ pair[k] = Job!parse_pair(Job!After(e[k - 1], 1)) => Read(k)
  <2>1. e[k - 1] \in Place /\ args[k] \in Word \X Word
    BY <1>6, ElementOfSeq
  <2>2. Spells(Bracketed(args[k]), e[k - 1], e[k])
    BY <1>6
  <2>3. /\ Opens(e[k - 1])
        /\ Job!parse_pair(Job!After(e[k - 1], 1)).args = args[k]
        /\ Job!parse_pair(Job!After(e[k - 1], 1)).pos = e[k]
    BY <2>1, <2>2, BracketedRead
  <2> QED
    BY <2>3
<1> HIDE DEF Read
<1> DEFINE T == {k \in Nat : k + 1 \in 1 .. n => Read(k + 1)}
<1>8. 0 \in T
  <2>1. 1 \in 1 .. n /\ 1 - 1 = 0 /\ 0 + 1 = 1
    OBVIOUS
  <2>2. Read(1)
    BY <1>3, <1>6, <1>7, <2>1 DEF o
  <2> QED
    BY <2>1, <2>2
<1>9. ASSUME NEW k \in Nat, k \in T PROVE k + 1 \in T
  <2> SUFFICES ASSUME (k + 1) + 1 \in 1 .. n PROVE Read((k + 1) + 1)
    OBVIOUS
  <2> DEFINE l == k + 1
  <2>1. /\ l \in 1 .. n /\ l \in 1 .. MAX_WRITE_SIZE - 1 /\ l + 1 \in 1 .. n
        /\ (l + 1) - 1 = l
    BY <1>2
  <2>2. Read(l)
    BY <1>9, <2>1
  <2> HIDE DEF l
  <2>3. pair[l + 1] = Job!parse_pair(Job!After(e[l], 1))
    BY <1>3, <2>1, <2>2 DEF Read
  <2>4. Read(l + 1)
    BY <1>7, <2>1, <2>3
  <2> QED
    BY <2>4 DEF l
<1>10. \A k \in Nat : k \in T
  <2> HIDE DEF T
  <2> QED
    BY <1>8, <1>9, Induction
<1>11. \A k \in 1 .. n : Read(k)
  <2> TAKE k \in 1 .. n
  <2>1. k - 1 \in Nat /\ (k - 1) + 1 = k
    OBVIOUS
  <2>2. k - 1 \in T
    <3> HIDE DEF T
    <3> QED
      BY <1>10, <2>1
  <2> QED
    BY <2>1, <2>2
<1> HIDE DEF T
<1>12. \A k \in 1 .. n : args[k] # <<>>
  <2> TAKE k \in 1 .. n
  <2>1. args[k] \in Word \X Word
    BY ElementOfSeq
  <2> QED
    BY <2>1
<1>13. \A k \in 1 .. n - 1 : Another(pair[k])
  <2> TAKE k \in 1 .. n - 1
  <2>1. k \in 1 .. n /\ k + 1 \in 1 .. n /\ (k + 1) - 1 = k
    OBVIOUS
  <2>2. Read(k) /\ Opens(e[k]) /\ args[k] # <<>>
    BY <1>7, <1>11, <1>12, <2>1
  <2> QED
    BY <2>2 DEF Another, Read
<1>14. Read(n) /\ args[n] # <<>> /\ pair[n].pos = r
  BY <1>6, <1>11, <1>12 DEF Read
<1>15. Job!Char(r) = "]"
  BY DEF Closes
<1>16. ~Another(pair[n])
  <2>1. ~Opens(r)
    BY <1>15 DEF Opens
  <2> QED
    BY <1>14, <2>1 DEF Another
<1>17. m = n
  <2>1. ~(m \in 1 .. n - 1)
    BY <1>2, <1>3, <1>13
  <2>2. ~(n \in 1 .. m - 1)
    BY <1>3, <1>16
  <2> QED
    BY <1>2, <1>3, <2>1, <2>2
<1>18. [k \in 1 .. n |-> Job!Copied(pair[k].args)] = args
  <2>1. DOMAIN args = 1 .. n
    BY LenProperties
  <2>2. args = [k \in 1 .. n |-> args[k]]
    BY <2>1
  <2>3. \A k \in 1 .. n : Job!Copied(pair[k].args) = args[k]
    <3> TAKE k \in 1 .. n
    <3>1. args[k] \in Seq(Word)
      <4>1. args[k] \in Word \X Word
        BY ElementOfSeq
      <4>2. PICK a \in Word, b \in Word : args[k] = <<a, b>>
        BY <4>1
      <4>3. <<a, b>> \in Seq(Word)
        OBVIOUS
      <4> QED
        BY <4>2, <4>3
    <3>2. pair[k].args = args[k]
      BY <1>11 DEF Read
    <3> QED
      BY <3>1, <3>2, WordsCopied
  <2> QED
    BY <2>2, <2>3
<1>19. result = Job!LineEnd([k \in 1 .. n |-> Job!Copied(pair[k].args)],
                            Job!After(pair[n].pos, 1))
  <2>1. pair[m].args # <<>> /\ m < MAX_WRITE_SIZE /\ Job!Char(pair[m].pos) = "]"
    BY <1>14, <1>15, <1>17 DEF Read
  <2>2. result = Job!LineEnd([k \in 1 .. m |-> Job!Copied(pair[k].args)],
                             Job!After(pair[m].pos, 1))
    BY <1>1, <2>1, Zenon DEF ReadsPairs
  <2> QED
    BY <1>17, <2>2
<1>20. Opens(p)
  <2>1. 1 \in 1 .. n /\ 1 - 1 = 0
    OBVIOUS
  <2> QED
    BY <1>6, <1>7, <2>1
<1> QED
  BY <1>14, <1>18, <1>19, <1>20 DEF result

\* What is written between the brackets of a line, and its end.
LEMMA BracketsCut ==
    ASSUME TextInv, NEW p \in Place, NEW w \in Seq(Symbol), NEW r,
           Spells(<<"[">> \o w \o <<"]", "\n">>, p, r)
    PROVE  /\ Job!Char(p) = "[" /\ p + 1 \in Place /\ r \in Place
           /\ \E q \in Place :
                 /\ Spells(w, p + 1, q) /\ Closes(q)
                 /\ \A args : Job!LineEnd(args, Job!After(q, 1)) = Job!Accept(args, r)
<1> DEFINE b == <<"[">>
           c == <<"]">>
           d == <<"\n">>
           e == <<"]", "\n">>
<1>1. e = c \o d
  OBVIOUS
<1>2. b \in Seq(Symbol) /\ c \in Seq(Symbol) /\ d \in Seq(Symbol)
      /\ Len(b) = 1 /\ Len(c) = 1
  BY MarkSymbol DEF Marks
<1>3. Spells((b \o w) \o e, p, r)
  OBVIOUS
<1> HIDE DEF b, c, d, e
<1>4. b \o w \in Seq(Symbol) /\ e \in Seq(Symbol)
  BY <1>1, <1>2, ConcatProperties
<1> DEFINE q == p + Len(b \o w)
<1>5. Spells(b \o w, p, q) /\ Spells(e, q, r) /\ q \in Place
  BY <1>3, <1>4, SpellsSplit
<1> HIDE DEF q
<1> DEFINE o == p + 1
<1>6. Spells(b, p, o) /\ Spells(w, o, q) /\ o \in Place
  BY <1>2, <1>5, SpellsSplit
<1> DEFINE s == q + 1
<1>7. Spells(c, q, s) /\ Spells(d, s, r) /\ s \in Place
  BY <1>1, <1>2, <1>5, SpellsSplit
<1> HIDE DEF o, s
<1>8. Job!Char(p) = "["
  BY <1>6, CharacterSpelled DEF b
<1>9. Job!Char(q) = "]" /\ Job!After(q, 1) = s
  BY <1>5, <1>7, CharacterSpelled DEF c
<1>10. Job!Char(s) = "\n" /\ Job!After(s, 1) = r /\ r \in Place
  BY <1>7, CharacterSpelled DEF d
<1>11. \A args : Job!LineEnd(args, s) = Job!Accept(args, r)
  BY <1>10 DEF Job!LineEnd, Job!Newline
<1>12. \A args : Job!LineEnd(args, Job!After(q, 1)) = Job!Accept(args, r)
  BY <1>9, <1>11
<1> QED
  BY <1>5, <1>6, <1>8, <1>9, <1>10, <1>12 DEF o, Closes

\* The pairs of a WRITE are read.
LEMMA WriteRead ==
    ASSUME TextInv, NEW p \in Place, NEW args \in Seq(Word \X Word),
           Len(args) \in 1 .. MAX_WRITE_SIZE - 1, NEW r,
           Spells(Arguments("WRITE", args), p, r)
    PROVE  Job!parse_write(p) = Job!Accept(args, r)
<1> DEFINE n == Len(args)
           w == PairsText(args)
<1>1. n \in Nat \ {0} /\ n < MAX_WRITE_SIZE
  BY LenProperties, CommandLoopsAssumption
<1>2. Arguments("WRITE", args) = <<"[">> \o w \o <<"]", "\n">>
  BY DEF Arguments, PairsText, Bracketed
<1>3. w \in Seq(Symbol)
  BY PairsTextSymbols
<1> HIDE DEF n, w
<1>4. Job!Char(p) = "[" /\ p + 1 \in Place
  BY <1>2, <1>3, BracketsCut
<1>5. PICK q \in Place :
         /\ Spells(w, p + 1, q) /\ Closes(q)
         /\ \A a : Job!LineEnd(a, Job!After(q, 1)) = Job!Accept(a, r)
  BY <1>2, <1>3, BracketsCut
<1>6. /\ Opens(p + 1)
      /\ Job!pairs(Job!After(p + 1, 1)) = Job!LineEnd(args, Job!After(q, 1))
  BY <1>1, <1>4, <1>5, PairsRead DEF w, n
<1>7. Job!After(p + 1, 1) = (p + 1) + 1
  <2>1. "(" \in Symbol \ {Job!EndOfFile}
    BY DEF Symbol, Marks, Job!EndOfFile
  <2> QED
    BY <1>4, <1>6, <2>1, SpellsCharacter DEF Opens
<1>8. (p + 1) + 1 = p + 2
  BY Places
<1>9. Job!parse_write(p) = Job!pairs(p + 2)
  BY <1>4, <1>6 DEF Job!parse_write, Opens
<1> QED
  BY <1>5, <1>6, <1>7, <1>8, <1>9

\* A list between brackets is read.
LEMMA BracketsRead ==
    ASSUME TextInv, NEW p \in Place, NEW args \in Seq(Word), NEW op \in Lists,
           NEW max \in Nat, Len(args) \in 1 .. max, NEW r,
           Spells(Arguments(op, args), p, r)
    PROVE  LET list == Job!KeyList(p + 1, max)
           IN  /\ Job!Char(p) = "[" /\ list.keys = args /\ list.closed = "]"
               /\ Job!LineEnd(Job!Copied(list.keys), list.pos) = Job!Accept(args, r)
<1> DEFINE n == Len(args)
           w == Joined(args)
           list == Job!KeyList(p + 1, max)
<1>1. n \in Nat \ {0} /\ n <= max
  BY LenProperties
<1>2. Arguments(op, args) = <<"[">> \o w \o <<"]", "\n">>
  BY DEF Arguments, Lists
<1>3. w \in Seq(Symbol)
  BY WordsAre, WordSymbols, PartsAre, FlattenType
<1> HIDE DEF n, w
<1>4. Job!Char(p) = "[" /\ p + 1 \in Place
  BY <1>2, <1>3, BracketsCut
<1>5. PICK q \in Place :
         /\ Spells(w, p + 1, q) /\ Closes(q)
         /\ \A a : Job!LineEnd(a, Job!After(q, 1)) = Job!Accept(a, r)
  BY <1>2, <1>3, BracketsCut
<1>6. /\ list.keys = args /\ Closed(list, "]") /\ list.pos = Job!After(q, 1)
  BY <1>1, <1>4, <1>5, KeysRead DEF w, n
<1> HIDE DEF list
<1>7. Job!LineEnd(Job!Copied(list.keys), list.pos) = Job!Accept(args, r)
  BY <1>5, <1>6, WordsCopied
<1> QED
  BY <1>4, <1>6, <1>7 DEF Closed, list

\* The keys of a READ or a DELETE are read.
LEMMA ReadDeleteRead ==
    ASSUME TextInv, NEW p \in Place, NEW args \in Seq(Word), NEW op \in Lists,
           Len(args) \in 1 .. MAX_WRITE_SIZE - 1, NEW r,
           Spells(Arguments(op, args), p, r)
    PROVE  Job!parse_read_delete(p) = Job!Accept(args, r)
<1> DEFINE list == Job!KeyList(p + 1, MAX_WRITE_SIZE)
<1>1. MAX_WRITE_SIZE \in Nat /\ Len(args) \in 1 .. MAX_WRITE_SIZE
      /\ Len(args) # MAX_WRITE_SIZE
  BY LenProperties, CommandLoopsAssumption
<1>2. /\ Job!Char(p) = "[" /\ list.keys = args /\ list.closed = "]"
      /\ Job!LineEnd(Job!Copied(list.keys), list.pos) = Job!Accept(args, r)
  BY <1>1, BracketsRead
<1> HIDE DEF list
<1>3. Job!parse_read_delete(p) =
         CASE Job!Char(p) # "[" -> Job!Reject(Job!After(p, 1))
           [] Job!Char(p) = "[" /\ list.closed \notin {",", "]"} ->
                Job!Reject(list.pos)
           [] Job!Char(p) = "[" /\ Len(list.keys) = MAX_WRITE_SIZE ->
                Job!Reject(list.pos)
           [] OTHER -> Job!LineEnd(Job!Copied(list.keys), list.pos)
  BY DEF Job!parse_read_delete, list
<1>4. Len(list.keys) # MAX_WRITE_SIZE /\ list.closed \in {",", "]"}
  BY <1>1, <1>2
<1>5. Job!parse_read_delete(p) = Job!LineEnd(Job!Copied(list.keys), list.pos)
  BY <1>2, <1>3, <1>4, Zenon
<1> QED
  BY <1>2, <1>5

\* The key of a SUBSCRIBE or an UNSUBSCRIBE is read.
LEMMA ListRead ==
    ASSUME TextInv, NEW p \in Place, NEW args \in Seq(Word), NEW op \in Lists,
           Len(args) \in 1 .. 1, NEW r,
           Spells(Arguments(op, args), p, r)
    PROVE  Client!parse_list(p, 1) = Job!Accept(args, r)
<1> DEFINE list == Job!KeyList(p + 1, 1)
<1>1. /\ Job!Char(p) = "[" /\ list.keys = args /\ list.closed = "]"
      /\ Job!LineEnd(Job!Copied(list.keys), list.pos) = Job!Accept(args, r)
  <2> DEFINE max == 1
  <2>1. max \in Nat /\ Len(args) \in 1 .. max
    OBVIOUS
  <2> HIDE DEF max
  <2>2. LET some == Job!KeyList(p + 1, max)
        IN  /\ Job!Char(p) = "[" /\ some.keys = args /\ some.closed = "]"
            /\ Job!LineEnd(Job!Copied(some.keys), some.pos) = Job!Accept(args, r)
    BY <2>1, BracketsRead
  <2> QED
    BY <2>2 DEF max
<1>2. Client!parse_list(p, 1) =
         CASE Job!Char(p) # "[" -> Job!Reject(Job!After(p, 1))
           [] Job!Char(p) = "[" /\ list.closed # "]" -> Job!Reject(list.pos)
           [] OTHER -> Job!LineEnd(Job!Copied(list.keys), list.pos)
  BY SameReader, SameResults DEF Client!parse_list
<1> HIDE DEF list
<1>3. Client!parse_list(p, 1) = Job!LineEnd(Job!Copied(list.keys), list.pos)
  BY <1>1, <1>2, Zenon
<1> QED
  BY <1>1, <1>3

-----------------------------------------------------------------------------
(* A number behind its keyword. *)

\* Digits and the character behind them.
DigitsEnd(ds, p, q) ==
    /\ ds \in Seq(Job!Digits) /\ Spells(ds, p, q)
    /\ Job!Char(q) \notin Job!Digits \cup {Job!EndOfFile}

\* A number is read up to the character behind it.
LEMMA DigitsRead ==
    ASSUME TextInv, NEW p \in Place, NEW ds, NEW q, DigitsEnd(ds, p, q)
    PROVE  LET S == {o \in p .. Job!End : Job!Char(o) \notin Job!Digits}
           IN  /\ Job!Min(S) = q /\ Client!Min(S) = q
               /\ SubSeq(text, p, q - 1) = ds /\ q \in Place
<1> DEFINE Digit(o) == Job!Char(o) \in Job!Digits
           S == {o \in p .. Job!End : ~Digit(o)}
           stop == Job!Min(S)
<1>1. /\ Job!End \in Nat /\ p \in Nat /\ p > 0 /\ p <= Job!End
  BY Places DEF Place
<1>2. Len(ds) \in Nat /\ \A i \in 1 .. Len(ds) : ds[i] \in Job!Digits
  BY LenProperties, ElementOfSeq DEF DigitsEnd
<1>3. /\ Spells(ds, p, q) /\ q = p + Len(ds) /\ q <= Job!End
      /\ \A i \in 1 .. Len(ds) : text[p + i - 1] = ds[i]
  BY DEF Spells, DigitsEnd
<1>4. ~Digit(q) /\ q \in p .. Job!End /\ q \in Place
  BY <1>1, <1>2, <1>3 DEF DigitsEnd, Place
<1>5. ASSUME NEW o \in p .. q - 1 PROVE Digit(o)
  <2> DEFINE i == o - p + 1
  <2>1. i \in 1 .. Len(ds) /\ p + i - 1 = o /\ o \in Place /\ o < Job!End
    BY <1>1, <1>2, <1>3 DEF Place
  <2> HIDE DEF i
  <2>2. text[o] = ds[i] /\ Job!Char(o) = text[o]
    BY <1>3, <2>1, Places
  <2> QED
    BY <1>2, <2>1, <2>2
<1> HIDE DEF Digit
<1>6. S \in SUBSET Nat /\ q \in S
  BY <1>1, <1>4
<1>7. stop \in S /\ stop <= q /\ Client!Min(S) = stop
  <2> HIDE DEF S
  <2> QED
    BY <1>6, MinIsLeast
<1>8. stop = q
  <2>1. stop \in p .. Job!End /\ ~Digit(stop)
    BY <1>7
  <2> HIDE DEF stop
  <2> QED
    BY <1>1, <1>4, <1>5, <1>7, <2>1
<1>9. SubSeq(text, p, q - 1) = ds
  <2>1. p <= q
    BY <1>4
  <2>2. Spells(SubSeq(text, p, q - 1), p, q)
    BY <1>4, <2>1, SpellsPart
  <2> QED
    BY <1>3, <2>2, SpellsOnce
<1> QED
  BY <1>4, <1>7, <1>8, <1>9 DEF Digit

\* What read_uint finds.
NumberAt(n, ds, q) ==
    n.digits = ds /\ n.next = Job!Char(q) /\ n.pos = Job!After(q, 1)

\* It finds the digits that the text has, unless the file ends with them.
LEMMA NumberRead ==
    ASSUME TextInv, NEW p \in Place, NEW ds, NEW q, DigitsEnd(ds, p, q),
           NEW n, Reads(n, p)
    PROVE  NumberAt(n, ds, q)
<1> DEFINE stop == Job!Min({o \in p .. Job!End : Job!Char(o) \notin Job!Digits})
<1>1. stop = q /\ SubSeq(text, p, q - 1) = ds
  BY DigitsRead
<1>2. PICK more \in Garbage \cup {<<>>} :
         /\ n.digits = SubSeq(text, p, stop - 1) \o more
         /\ n.next = Job!Char(stop) /\ n.pos = Job!After(stop, 1)
         /\ Job!Char(stop) # Job!EndOfFile => more = <<>>
  BY DEF Reads
<1> HIDE DEF stop
<1>3. Job!Char(q) # Job!EndOfFile /\ ds \in Seq(Job!Digits)
  BY DEF DigitsEnd
<1>4. more = <<>>
  BY <1>1, <1>2, <1>3
<1>5. ds \o <<>> = ds
  BY <1>3, ConcatEmptySeq
<1>6. n.digits = ds
  BY <1>1, <1>2, <1>4, <1>5
<1> QED
  BY <1>1, <1>2, <1>6 DEF NumberAt

\* The number of a WAIT is read, and what is behind it and a blank skipped.
LEMMA WaitRead ==
    ASSUME TextInv, NEW p \in Place, NEW ds, NEW q, DigitsEnd(ds, p, q),
           Job!Number(ds) <= UINT_MAX, NEW result \in Job!parse_wait(p)
    PROVE  /\ Job!Char(q) = " " =>
                 result = Job!Accept(<<ds>>, Job!cleanup(Job!After(q, 1)))
           /\ Job!Char(q) = "\n" => result = Job!Accept(<<ds>>, Job!After(q, 1))
<1>1. PICK n \in Job!read_uint(p) :
         result = CASE Job!Fits(n) /\ n.next = " " ->
                         Job!Accept(<<n.digits>>, Job!cleanup(n.pos))
                    [] Job!Fits(n) /\ n.next \in Ends ->
                         Job!Accept(<<n.digits>>, n.pos)
                    [] OTHER -> Job!Reject(n.pos)
  BY DEF Job!parse_wait, Ends
<1>2. Reads(n, p)
  BY BothRead
<1>3. n.digits = ds /\ n.next = Job!Char(q) /\ n.pos = Job!After(q, 1)
  BY <1>2, NumberRead DEF NumberAt
<1>4. Job!Fits(n)
  BY <1>3 DEF Job!Fits
<1>5. CASE Job!Char(q) = " "
  <2>1. n.next = " " /\ n.next \notin Ends
    BY <1>3, <1>5 DEF Ends, Job!Newline, Job!Nul, Job!EndOfFile
  <2>2. result = Job!Accept(<<n.digits>>, Job!cleanup(n.pos))
    BY <1>1, <1>4, <2>1, Zenon
  <2> QED
    BY <1>3, <1>5, <2>2
<1>6. CASE Job!Char(q) = "\n"
  <2>1. n.next # " " /\ n.next \in Ends
    BY <1>3, <1>6 DEF Ends, Job!Newline
  <2>2. result = Job!Accept(<<n.digits>>, n.pos)
    BY <1>1, <1>4, <2>1, Zenon
  <2> QED
    BY <1>3, <1>6, <2>2
<1> QED
  BY <1>5, <1>6

\* That of a DELAY is read, and the character behind it.
LEMMA DelayRead ==
    ASSUME TextInv, NEW p \in Place, NEW ds, NEW q, DigitsEnd(ds, p, q),
           Client!Number(ds) <= UINT_MAX, NEW result \in Client!parse_delay(p)
    PROVE  result = Job!Accept(<<ds>>, Job!After(q, 1))
<1>1. PICK n \in Client!read_uint(p) :
         result = IF Client!Fits(n) THEN Client!Accept(<<n.digits>>, n.pos)
                  ELSE Client!Reject(n.pos)
  BY Zenon DEF Client!parse_delay
<1>2. Reads(n, p)
  BY BothRead
<1>3. n.digits = ds /\ n.next = Job!Char(q) /\ n.pos = Job!After(q, 1)
  BY <1>2, NumberRead DEF NumberAt
<1>4. Client!Fits(n)
  BY <1>3 DEF Client!Fits
<1>5. result = Client!Accept(<<ds>>, Job!After(q, 1))
  BY <1>1, <1>3, <1>4, Zenon
<1> QED
  BY <1>5 DEF Client!Accept, Job!Accept

-----------------------------------------------------------------------------
(* The keyword that get_next finds. *)

\* The letters by which the keywords are told apart.
LEMMA KeywordsDiffer ==
    /\ Len(Job!WRITE) = 6 /\ Job!WRITE[1] = "W" /\ Job!WRITE[2] = "R"
    /\ Len(Job!WAIT) = 5 /\ Job!WAIT[1] = "W" /\ Job!WAIT[2] = "A"
    /\ Len(Job!READ) = 5 /\ Job!READ[1] = "R"
    /\ Len(Job!DELETE) = 7 /\ Job!DELETE[1] = "D"
    /\ Len(Job!SHOW) = 4 /\ Job!SHOW[1] = "S" /\ Job!SHOW[4] = "W"
    /\ Len(Job!BACKUP) = 6 /\ Job!BACKUP[1] = "B" /\ Job!BACKUP[6] = "P"
    /\ Len(Job!HELP) = 4 /\ Job!HELP[1] = "H" /\ Job!HELP[4] = "P"
    /\ Len(Client!SUBSCRIBE) = 10 /\ Client!SUBSCRIBE[1] = "S"
    /\ Len(Client!UNSUBSCRIBE) = 12 /\ Client!UNSUBSCRIBE[1] = "U"
    /\ Len(Client!DELAY) = 6 /\ Client!DELAY[1] = "D" /\ Client!DELAY[2] = "E"
    /\ Len(Client!DISCONNECT) = 10 /\ Client!DISCONNECT[1] = "D"
    /\ Client!DISCONNECT[2] = "I" /\ Client!DISCONNECT[10] = "T"
<1>1. /\ Len(Job!WRITE) = 6 /\ Job!WRITE[1] = "W" /\ Job!WRITE[2] = "R"
  BY DEF Job!WRITE
<1>2. /\ Len(Job!WAIT) = 5 /\ Job!WAIT[1] = "W" /\ Job!WAIT[2] = "A"
  BY DEF Job!WAIT
<1>3. /\ Len(Job!READ) = 5 /\ Job!READ[1] = "R"
  BY DEF Job!READ
<1>4. /\ Len(Job!DELETE) = 7 /\ Job!DELETE[1] = "D"
  BY DEF Job!DELETE
<1>5. /\ Len(Job!SHOW) = 4 /\ Job!SHOW[1] = "S" /\ Job!SHOW[4] = "W"
  BY DEF Job!SHOW
<1>6. /\ Len(Job!BACKUP) = 6 /\ Job!BACKUP[1] = "B" /\ Job!BACKUP[6] = "P"
  BY DEF Job!BACKUP
<1>7. /\ Len(Job!HELP) = 4 /\ Job!HELP[1] = "H" /\ Job!HELP[4] = "P"
  BY DEF Job!HELP
<1>8. /\ Len(Client!SUBSCRIBE) = 10 /\ Client!SUBSCRIBE[1] = "S"
  BY DEF Client!SUBSCRIBE
<1>9. /\ Len(Client!UNSUBSCRIBE) = 12 /\ Client!UNSUBSCRIBE[1] = "U"
  <2> DEFINE u == <<"U", "N">>
             s == Client!SUBSCRIBE
  <2>1. u \in Seq(KeywordLetters) /\ Len(u) = 2
    BY DEF KeywordLetters
  <2>0. u[1] = "U"
    OBVIOUS
  <2>2. s \in Seq(KeywordLetters)
    BY DEF Client!SUBSCRIBE, KeywordLetters
  <2>3. Client!UNSUBSCRIBE = u \o s
    BY DEF Client!UNSUBSCRIBE
  <2> HIDE DEF u, s
  <2>4. Len(s) = 10
    BY <1>8 DEF s
  <2>5. Len(u \o s) = 12
    <3>1. Len(u \o s) = Len(u) + Len(s)
      BY <2>1, <2>2, ConcatProperties
    <3> QED
      BY <2>1, <2>4, <3>1
  <2>6. (u \o s)[1] = u[1]
    <3>1. /\ 1 \in 1 .. Len(u) + Len(s) /\ 1 <= Len(u)
      BY <2>1, <2>4
    <3>2. \A i \in 1 .. Len(u) + Len(s) :
             (u \o s)[i] = IF i <= Len(u) THEN u[i] ELSE s[i - Len(u)]
      BY <2>1, <2>2, ConcatProperties
    <3> QED
      BY <3>1, <3>2
  <2> QED
    BY <2>0, <2>3, <2>5, <2>6
<1>10. /\ Len(Client!DELAY) = 6 /\ Client!DELAY[1] = "D" /\ Client!DELAY[2] = "E"
  BY DEF Client!DELAY
<1>11. /\ Len(Client!DISCONNECT) = 10 /\ Client!DISCONNECT[1] = "D"
       /\ Client!DISCONNECT[2] = "I" /\ Client!DISCONNECT[10] = "T"
  BY DEF Client!DISCONNECT
<1> QED
  BY <1>1, <1>2, <1>3, <1>4, <1>5, <1>6, <1>7, <1>8, <1>9, <1>10, <1>11

\* A word that is spelled is found.
LEMMA SpelledStarts ==
    ASSUME TextInv, NEW p \in Place, NEW word, NEW q, Spells(word, p, q)
    PROVE  /\ Job!Starts(p, word) /\ q = p + Len(word) /\ q \in Place
           /\ Len(word) \in Nat
           /\ \A i \in 1 .. Len(word) : text[p + i - 1] = word[i]
           /\ Len(word) > 0 => Job!Char(p) = word[1] /\ p < Job!End
<1>1. Job!End \in Nat /\ p \in Nat /\ p > 0 /\ p <= Job!End
  BY Places DEF Place
<1>2. /\ word \in Seq(Symbol) /\ q = p + Len(word) /\ q <= Job!End
      /\ \A i \in 1 .. Len(word) : text[p + i - 1] = word[i]
  BY DEF Spells
<1>3. Len(word) \in Nat /\ DOMAIN word = 1 .. Len(word)
  BY <1>2, LenProperties
<1>4. Job!Starts(p, word)
  BY <1>2, <1>3 DEF Job!Starts
<1>5. ASSUME Len(word) > 0 PROVE Job!Char(p) = word[1] /\ p < Job!End
  <2>1. p < Job!End /\ 1 \in 1 .. Len(word) /\ p + 1 - 1 = p
    BY <1>1, <1>2, <1>3, <1>5
  <2>2. text[p] = word[1]
    BY <1>2, <2>1
  <2> QED
    BY <2>1, <2>2, Places
<1> QED
  BY <1>1, <1>2, <1>3, <1>4, <1>5 DEF Place

\* Two words that differ in a letter are not both found at a place.
LEMMA NotBoth ==
    ASSUME TextInv, NEW p \in Place, NEW word, NEW q, Spells(word, p, q),
           NEW other \in Seq(Symbol), NEW i \in 1 .. Len(word), i <= Len(other),
           word[i] # other[i]
    PROVE  ~Job!Starts(p, other) /\ (Client!Starts(p, other) => FALSE)
<1>1. text[p + i - 1] = word[i]
  BY DEF Spells
<1>2. word \in Seq(Symbol) /\ Len(word) \in Nat /\ Len(other) \in Nat
      /\ DOMAIN other = 1 .. Len(other)
  BY LenProperties DEF Spells
<1>3. i \in DOMAIN other
  BY <1>2
<1> QED
  BY <1>1, <1>3 DEF Job!Starts, Client!Starts

\* A word that is found begins with its first letter.
LEMMA StartsFirst ==
    ASSUME TextInv, NEW p \in Place, NEW word \in Seq(Symbol), Len(word) > 0,
           Job!Starts(p, word)
    PROVE  Job!Char(p) = word[1]
BY StartsIs, SpelledStarts

\* A place that does not begin with "W" has no WAIT.
LEMMA WaitFirst ==
    ASSUME TextInv, NEW p \in Place, Job!Char(p) # "W"
    PROVE  ~Job!Starts(p, Job!WAIT)
<1>1. Job!WAIT \in Seq(Symbol) /\ Len(Job!WAIT) > 0 /\ Job!WAIT[1] = "W"
  BY KeywordsAre, KeywordsDiffer
<1> QED
  BY <1>1, StartsFirst

\* The client looks for a word as the server does.
LEMMA SameStarts == \A p, word : Client!Starts(p, word) <=> Job!Starts(p, word)
BY SameReader DEF Client!Starts, Job!Starts

\* The commands with arguments are found,
LEMMA JobKeywordFound ==
    ASSUME TextInv, NEW p \in Place,
           NEW op \in {"WRITE", "READ", "DELETE", "WAIT"}, NEW q,
           Spells(Keyword(op), p, q)
    PROVE  Job!get_next(p) = Job!Token(op, q)
<1> DEFINE word == Keyword(op)
           c == Job!Char(p)
           found == Job!Token(op, q)
<1>1. /\ Job!Starts(p, word) /\ q = p + Len(word)
      /\ Len(word) > 0 => c = word[1]
  BY SpelledStarts
<1>2. Job!Keyword(word, op, p) = found
  BY <1>1 DEF Job!Keyword
<1>3. CASE op = "WRITE"
  <2>1. word = Job!WRITE /\ Job!WAIT \in Seq(Symbol)
    BY <1>3, KeywordsAre
  <2>2. c = "W"
    BY <1>1, <2>1, KeywordsDiffer
  <2>3. ~Job!Starts(p, Job!WAIT)
    <3>1. Len(word) = 6 /\ Len(Job!WAIT) = 5
      BY <2>1, KeywordsDiffer
    <3>2. 2 \in 1 .. Len(word) /\ 2 <= Len(Job!WAIT)
      BY <3>1
    <3>3. word[2] # Job!WAIT[2]
      BY <2>1, KeywordsDiffer
    <3> QED
      BY <2>1, <3>2, <3>3, NotBoth
  <2>4. Job!Command(p) = found
    BY <1>2, <1>3, <2>1, <2>2, <2>3 DEF Job!Command, Job!Newline
  <2> QED
    BY <2>2, <2>4 DEF Job!get_next, Job!EndOfFile
<1>4. CASE op = "WAIT"
  <2>1. word = Job!WAIT
    BY <1>4, KeywordsAre
  <2>2. c = "W"
    BY <1>1, <2>1, KeywordsDiffer
  <2>3. Job!Command(p) = found
    BY <1>1, <1>4, <2>1, <2>2 DEF Job!Command, Job!Newline
  <2> QED
    BY <2>2, <2>3 DEF Job!get_next, Job!EndOfFile
<1>5. CASE op = "READ"
  <2>1. word = Job!READ
    BY <1>5, KeywordsAre
  <2>2. c = "R"
    BY <1>1, <2>1, KeywordsDiffer
  <2>3. ~Job!Starts(p, Job!WAIT)
    BY <2>2, WaitFirst
  <2>4. Job!Command(p) = found
    BY <1>2, <1>5, <2>1, <2>2, <2>3 DEF Job!Command, Job!Newline
  <2> QED
    BY <2>2, <2>4 DEF Job!get_next, Job!EndOfFile
<1>6. CASE op = "DELETE"
  <2>1. word = Job!DELETE
    BY <1>6, KeywordsAre
  <2>2. c = "D"
    BY <1>1, <2>1, KeywordsDiffer
  <2>3. ~Job!Starts(p, Job!WAIT)
    BY <2>2, WaitFirst
  <2>4. Job!Command(p) = found
    BY <1>2, <1>6, <2>1, <2>2, <2>3 DEF Job!Command, Job!Newline
  <2> QED
    BY <2>2, <2>4 DEF Job!get_next, Job!EndOfFile
<1> QED
  BY <1>3, <1>4, <1>5, <1>6

\* or alone on their line,
LEMMA JobAloneFound ==
    ASSUME TextInv, NEW p \in Place,
           NEW op \in {"SHOW", "BACKUP", "HELP"}, NEW q,
           Spells(Keyword(op), p, q), Job!Char(q) \in {Job!Newline, Job!EndOfFile}
    PROVE  Job!get_next(p) = Job!Token(op, Job!After(q, 1))
<1> DEFINE word == Keyword(op)
           c == Job!Char(p)
           found == Job!Token(op, Job!After(q, 1))
<1>1. /\ Job!Starts(p, word) /\ q = p + Len(word)
      /\ Len(word) > 0 => c = word[1]
  BY SpelledStarts
<1>2. Job!Alone(word, op, p) = found
  BY <1>1 DEF Job!Alone
<1>3. CASE op = "SHOW"
  <2>1. word = Job!SHOW
    BY <1>3, KeywordsAre
  <2>2. c = "S"
    BY <1>1, <2>1, KeywordsDiffer
  <2>3. ~Job!Starts(p, Job!WAIT)
    BY <2>2, WaitFirst
  <2>4. Job!Command(p) = found
    BY <1>2, <1>3, <2>1, <2>2, <2>3 DEF Job!Command, Job!Newline
  <2> QED
    BY <2>2, <2>4 DEF Job!get_next, Job!EndOfFile
<1>4. CASE op = "BACKUP"
  <2>1. word = Job!BACKUP
    BY <1>4, KeywordsAre
  <2>2. c = "B"
    BY <1>1, <2>1, KeywordsDiffer
  <2>3. ~Job!Starts(p, Job!WAIT)
    BY <2>2, WaitFirst
  <2>4. Job!Command(p) = found
    BY <1>2, <1>4, <2>1, <2>2, <2>3 DEF Job!Command, Job!Newline
  <2> QED
    BY <2>2, <2>4 DEF Job!get_next, Job!EndOfFile
<1>5. CASE op = "HELP"
  <2>1. word = Job!HELP
    BY <1>5, KeywordsAre
  <2>2. c = "H"
    BY <1>1, <2>1, KeywordsDiffer
  <2>3. ~Job!Starts(p, Job!WAIT)
    BY <2>2, WaitFirst
  <2>4. Job!Command(p) = found
    BY <1>2, <1>5, <2>1, <2>2, <2>3 DEF Job!Command, Job!Newline
  <2> QED
    BY <2>2, <2>4 DEF Job!get_next, Job!EndOfFile
<1> QED
  BY <1>3, <1>4, <1>5

\* and a line that begins with no command's letter is told by its first
\* character.
LEMMA JobOtherFound ==
    ASSUME TextInv, NEW p \in Place, NEW c, c = Job!Char(p), c # Job!EndOfFile
    PROVE  /\ c = "#" => Job!get_next(p) = Job!Token("EMPTY", Job!cleanup(p + 1))
           /\ c = "\n" => Job!get_next(p) = Job!Token("EMPTY", p + 1)
           /\ c \notin JobLetters \cup {"#", "\n"} =>
                 Job!get_next(p) = Job!Token("INVALID", Job!cleanup(Job!After(p, 1)))
<1>1. Job!get_next(p) = Job!Command(p)
  BY DEF Job!get_next
<1>2. CASE c = "#"
  <2>1. ~Job!Starts(p, Job!WAIT)
    BY <1>2, WaitFirst
  <2> QED
    BY <1>1, <1>2, <2>1 DEF Job!Command, JobLetters, Job!Newline
<1>3. CASE c = "\n"
  <2>1. ~Job!Starts(p, Job!WAIT)
    BY <1>3, WaitFirst
  <2> QED
    BY <1>1, <1>3, <2>1 DEF Job!Command, JobLetters, Job!Newline
<1>4. CASE c \notin JobLetters \cup {"#", "\n"}
  <2>0. c \notin {"W", "R", "D", "S", "B", "H", "#", "\n"}
    BY <1>4 DEF JobLetters
  <2>1. ~Job!Starts(p, Job!WAIT)
    BY <2>0, WaitFirst
  <2>2. Job!Command(p) = Job!Invalid(Job!After(p, 1))
    BY <2>0, <2>1 DEF Job!Command, Job!Newline
  <2> QED
    BY <1>1, <2>0, <2>2 DEF Job!Invalid
<1> QED
  BY <1>2, <1>3, <1>4

\* A place that does not begin with "D" has no DELAY.
LEMMA DelayFirst ==
    ASSUME TextInv, NEW p \in Place, Job!Char(p) # "D"
    PROVE  ~Client!Starts(p, Client!DELAY)
<1>1. Client!DELAY \in Seq(Symbol) /\ Len(Client!DELAY) > 0 /\ Client!DELAY[1] = "D"
  BY KeywordsAre, KeywordsDiffer
<1> QED
  BY <1>1, StartsFirst, SameStarts

\* The client finds its commands with arguments,
LEMMA ClientKeywordFound ==
    ASSUME TextInv, NEW p \in Place,
           NEW op \in {"SUBSCRIBE", "UNSUBSCRIBE", "DELAY"}, NEW q,
           Spells(Keyword(op), p, q)
    PROVE  Client!get_next(p) = Job!Token(op, q)
<1> DEFINE word == Keyword(op)
           c == Client!Char(p)
           found == Client!Token(op, q)
<1>0. Client!get_next(p) = found => Client!get_next(p) = Job!Token(op, q)
  BY SameTokens
<1>1. /\ Client!Starts(p, word) /\ q = p + Len(word)
      /\ Len(word) > 0 => c = word[1]
  BY SpelledStarts, SameStarts, SameReader
<1>2. Client!Keyword(word, op, p) = found
  BY <1>1 DEF Client!Keyword
<1>3. CASE op = "SUBSCRIBE"
  <2>1. word = Client!SUBSCRIBE
    BY <1>3, KeywordsAre
  <2>2. c = "S"
    BY <1>1, <2>1, KeywordsDiffer
  <2>3. ~Client!Starts(p, Client!DELAY)
    BY <2>2, DelayFirst, SameReader
  <2> QED
    BY <1>0, <1>2, <1>3, <2>1, <2>2, <2>3
    DEF Client!get_next, Client!Newline, Client!EndOfFile
<1>4. CASE op = "UNSUBSCRIBE"
  <2>1. word = Client!UNSUBSCRIBE
    BY <1>4, KeywordsAre
  <2>2. c = "U"
    BY <1>1, <2>1, KeywordsDiffer
  <2>3. ~Client!Starts(p, Client!DELAY)
    BY <2>2, DelayFirst, SameReader
  <2> QED
    BY <1>0, <1>2, <1>4, <2>1, <2>2, <2>3
    DEF Client!get_next, Client!Newline, Client!EndOfFile
<1>5. CASE op = "DELAY"
  <2>1. word = Client!DELAY
    BY <1>5, KeywordsAre
  <2>2. c = "D"
    BY <1>1, <2>1, KeywordsDiffer
  <2> QED
    BY <1>0, <1>1, <1>5, <2>1, <2>2
    DEF Client!get_next, Client!Newline, Client!EndOfFile
<1> QED
  BY <1>3, <1>4, <1>5

\* or alone on its line,
LEMMA ClientAloneFound ==
    ASSUME TextInv, NEW p \in Place, NEW q, Spells(Keyword("DISCONNECT"), p, q),
           Job!Char(q) \in {Job!Newline, Job!EndOfFile}
    PROVE  Client!get_next(p) = Job!Token("DISCONNECT", Job!After(q, 1))
<1> DEFINE word == Client!DISCONNECT
           c == Client!Char(p)
           found == Client!Token("DISCONNECT", Client!After(q, 1))
<1>0. Client!get_next(p) = found =>
         Client!get_next(p) = Job!Token("DISCONNECT", Job!After(q, 1))
  BY SameTokens, SameReader
<1>1. Keyword("DISCONNECT") = word
  BY KeywordsAre
<1>2. /\ Client!Starts(p, word) /\ q = p + Len(word)
      /\ Len(word) > 0 => c = word[1]
  BY <1>1, SpelledStarts, SameStarts, SameReader
<1>3. Client!Char(q) \in {Client!Newline, Client!EndOfFile}
  BY SameReader
<1>4. Client!Alone(word, "DISCONNECT", p) = found
  BY <1>2, <1>3 DEF Client!Alone
<1>5. c = "D"
  BY <1>2, KeywordsDiffer
<1>6. ~Client!Starts(p, Client!DELAY)
  <2>1. Len(word) = 10 /\ Len(Client!DELAY) = 6
    BY KeywordsDiffer
  <2>2. 2 \in 1 .. Len(word) /\ 2 <= Len(Client!DELAY)
    BY <2>1
  <2>3. word[2] # Client!DELAY[2]
    BY KeywordsDiffer
  <2>4. Client!DELAY \in Seq(Symbol) /\ Spells(word, p, q)
    BY <1>1, KeywordsAre
  <2> HIDE DEF word
  <2> QED
    BY <2>2, <2>3, <2>4, NotBoth
<1> QED
  BY <1>0, <1>4, <1>5, <1>6 DEF Client!get_next, Client!Newline, Client!EndOfFile

\* and tells any other line by its first character.
LEMMA ClientOtherFound ==
    ASSUME TextInv, NEW p \in Place, NEW c, c = Job!Char(p), c # Job!EndOfFile
    PROVE  /\ c = "#" => Client!get_next(p) = Job!Token("EMPTY", Job!cleanup(p + 1))
           /\ c = "\n" => Client!get_next(p) = Job!Token("EMPTY", p + 1)
           /\ c \notin ClientLetters \cup {"#", "\n"} =>
                 Client!get_next(p) = Job!Token("INVALID", Job!cleanup(p + 1))
<1>1. c = Client!Char(p) /\ c # Client!EndOfFile
  BY SameReader
<1>2. CASE c = "#"
  <2>1. ~Client!Starts(p, Client!DELAY)
    BY <1>2, DelayFirst
  <2>2. Client!get_next(p) = Client!Token("EMPTY", Client!cleanup(p + 1))
    BY <1>1, <1>2, <2>1 DEF Client!get_next, Client!Newline
  <2> QED
    BY <1>2, <2>2, SameTokens, SameReader DEF ClientLetters
<1>3. CASE c = "\n"
  <2>1. ~Client!Starts(p, Client!DELAY)
    BY <1>3, DelayFirst
  <2>2. Client!get_next(p) = Client!Token("EMPTY", p + 1)
    BY <1>1, <1>3, <2>1 DEF Client!get_next, Client!Newline
  <2> QED
    BY <1>3, <2>2, SameTokens DEF ClientLetters
<1>4. CASE c \notin ClientLetters \cup {"#", "\n"}
  <2>0. c \notin {"S", "U", "D", "#", "\n"}
    BY <1>4 DEF ClientLetters
  <2>1. ~Client!Starts(p, Client!DELAY)
    BY <2>0, DelayFirst
  <2>2. Client!get_next(p) = Client!Invalid(p + 1)
    BY <1>1, <2>0, <2>1 DEF Client!get_next, Client!Newline
  <2>3. Client!get_next(p) = Job!Token("INVALID", Job!cleanup(p + 1))
    BY <2>2, SameTokens DEF Job!Invalid
  <2> QED
    BY <2>0, <2>3
<1> QED
  BY <1>2, <1>3, <1>4

-----------------------------------------------------------------------------
(* A line in the text. *)

\* A line of the file, from p up to r.
LineAt(l, p, r) ==
    /\ l.text \in Seq(Character) \ {<<>>} /\ Spells(l.text, p, r)
    /\ r = Job!End \/ Last(l.text) = "\n"

\* A line's first and last character.
LEMMA LineEnds ==
    ASSUME TextInv, NEW p \in Place, NEW l, NEW r, LineAt(l, p, r)
    PROVE  /\ p \in Nat /\ r \in Nat /\ Job!End \in Nat /\ p < r /\ r <= Job!End
           /\ r \in Place
           /\ Len(l.text) \in Nat /\ r = p + Len(l.text)
           /\ \A i \in 1 .. Len(l.text) : text[p + i - 1] = l.text[i]
           /\ Job!Char(p) = l.text[1] /\ Job!Char(p) # Job!EndOfFile
           /\ r = Job!End \/ text[r - 1] = "\n"
<1>1. Len(l.text) \in Nat /\ Len(l.text) > 0
  BY LenProperties, EmptySeq DEF LineAt
<1>2. /\ r = p + Len(l.text) /\ r \in Place
      /\ \A i \in 1 .. Len(l.text) : text[p + i - 1] = l.text[i]
      /\ Job!Char(p) = l.text[1] /\ p < Job!End
  BY <1>1, SpelledStarts DEF LineAt
<1>3. p \in Nat /\ Job!End \in Nat /\ p < r /\ r \in Nat /\ r <= Job!End
  BY <1>1, <1>2, Places DEF Place
<1>4. Job!Char(p) # Job!EndOfFile
  BY <1>2, Places
<1>5. r = Job!End \/ text[r - 1] = "\n"
  <2> DEFINE n == Len(l.text)
  <2>1. n \in 1 .. n /\ p + n - 1 = r - 1
    BY <1>1, <1>2, <1>3
  <2>2. text[r - 1] = l.text[n]
    BY <1>2, <2>1
  <2> QED
    BY <2>2 DEF LineAt, Last
<1> QED
  BY <1>1, <1>2, <1>3, <1>4, <1>5

\* From behind its first character on, cleanup skips a line to its end.
LEMMA RestSkipped ==
    ASSUME TextInv, NEW p \in Place, NEW l, NEW r, LineAt(l, p, r),
           OneLine(l.text), NEW o \in p + 1 .. r, text[o - 1] # "\n"
    PROVE  Job!cleanup(o) = r /\ o \in Place
<1> DEFINE Starting(q) == q = Job!End \/ (q > o /\ Job!Char(q - 1) = Job!Newline)
           S == {q \in o .. Job!End : Starting(q)}
           least == Job!Min(S)
<1>1. /\ p \in Nat /\ p > 0 /\ r \in Nat /\ Job!End \in Nat /\ p < r /\ r <= Job!End
      /\ Len(l.text) \in Nat /\ r = p + Len(l.text)
      /\ \A i \in 1 .. Len(l.text) : text[p + i - 1] = l.text[i]
      /\ r = Job!End \/ text[r - 1] = "\n"
  BY LineEnds DEF Place
<1>2. o \in Nat /\ p < o /\ o <= r /\ o \in Place
  BY <1>1 DEF Place
<1>3. \A k \in p .. r - 1 : Job!Char(k) = text[k]
  BY <1>1, Places DEF Place
<1>4. Starting(r)
  <2>1. CASE r = Job!End
    BY <2>1
  <2>2. CASE r # Job!End
    <3>1. text[r - 1] = "\n" /\ o # r
      BY <1>1, <2>2
    <3>2. r - 1 \in p .. r - 1 /\ r > o
      BY <1>1, <1>2, <3>1
    <3> QED
      BY <1>3, <3>1, <3>2 DEF Job!Newline
  <2> QED
    BY <2>1, <2>2
<1>5. ASSUME NEW q \in o .. r - 1 PROVE ~Starting(q)
  <2>1. q # Job!End
    BY <1>1, <1>2
  <2>2. CASE q > o
    <3> DEFINE i == q - p
    <3>1. i \in 1 .. Len(l.text) - 1 /\ p + i - 1 = q - 1 /\ i \in 1 .. Len(l.text)
      BY <1>1, <1>2, <2>2
    <3> HIDE DEF i
    <3>2. text[q - 1] = l.text[i] /\ l.text[i] # "\n"
      BY <1>1, <3>1 DEF OneLine
    <3>3. Job!Char(q - 1) = text[q - 1]
      BY <1>1, <1>2, <1>3, <2>2
    <3> QED
      BY <2>1, <3>2, <3>3 DEF Job!Newline
  <2> QED
    BY <2>1, <2>2
<1> HIDE DEF Starting
<1>6. S \in SUBSET Nat /\ r \in S
  BY <1>1, <1>2, <1>4
<1>7. least \in S /\ least <= r
  <2> HIDE DEF S
  <2> QED
    BY <1>6, MinIsLeast
<1>8. least = r
  <2>1. least \in o .. Job!End /\ Starting(least)
    BY <1>7
  <2> HIDE DEF least
  <2> QED
    BY <1>1, <1>2, <1>5, <1>7, <2>1
<1>9. Job!cleanup(o) = least
  BY DEF Job!cleanup, Starting
<1> QED
  BY <1>2, <1>8, <1>9

\* What a command's arguments are spelled with.
LEMMA ArgumentsSymbols ==
    /\ \A args \in Seq(Word \X Word) : Arguments("WRITE", args) \in Seq(Symbol)
    /\ \A op \in Lists, args \in Seq(Word) : Arguments(op, args) \in Seq(Symbol)
<1> DEFINE b == <<"[">>
           e == <<"]", "\n">>
<1>1. b \in Seq(Symbol) /\ e \in Seq(Symbol)
  <2>1. "[" \in Symbol /\ "]" \in Symbol /\ "\n" \in Symbol
    BY DEF Symbol, Marks
  <2> QED
    BY <2>1
<1>2. ASSUME NEW w \in Seq(Symbol) PROVE b \o w \o e \in Seq(Symbol)
  <2> HIDE DEF b, e
  <2> QED
    BY <1>1, ConcatProperties
<1>3. ASSUME NEW args \in Seq(Word \X Word)
      PROVE  Arguments("WRITE", args) \in Seq(Symbol)
  <2>1. Arguments("WRITE", args) = b \o PairsText(args) \o e
    BY DEF Arguments, PairsText, Bracketed
  <2>2. PairsText(args) \in Seq(Symbol)
    BY PairsTextSymbols
  <2> HIDE DEF b, e
  <2> QED
    BY <1>2, <2>1, <2>2
<1>4. ASSUME NEW op \in Lists, NEW args \in Seq(Word)
      PROVE  Arguments(op, args) \in Seq(Symbol)
  <2>1. Arguments(op, args) = b \o Joined(args) \o e
    BY DEF Arguments, Lists
  <2>2. Joined(args) \in Seq(Symbol)
    BY WordsAre, WordSymbols, PartsAre, FlattenType
  <2> HIDE DEF b, e
  <2> QED
    BY <1>2, <2>1, <2>2
<1> QED
  BY <1>3, <1>4

\* A number behind a keyword, and the character behind the number.
LEMMA NumberCut ==
    ASSUME TextInv, NEW p \in Place, NEW l, NEW r, LineAt(l, p, r), IsNumber(l),
           l.op \in {"WAIT", "DELAY"}, Behind(l) \notin Job!Digits
    PROVE  \E q \in Place, s \in Place :
              /\ Spells(Keyword(l.op), p, q) /\ DigitsEnd(l.args[1], q, s)
              /\ l.args = <<l.args[1]>>
              /\ Job!Char(s) = Behind(l) /\ Job!After(s, 1) = s + 1
              /\ s + 1 \in p + 1 .. r /\ text[s] = Behind(l)
              /\ s + 1 = p + Len(Spelling(l.op, l.args)) + 1
<1> DEFINE ds == l.args[1]
           kw == Keyword(l.op)
           word == kw \o ds
           n == Len(word)
           s == p + n
           t == l.text
<1>1. l.args = <<ds>> /\ ds \in Seq(Job!Digits)
  <2>1. l.args \in Seq(Seq(Job!Digits)) /\ Len(l.args) = 1
    BY DEF IsNumber
  <2>2. ds \in Seq(Job!Digits)
    BY <2>1, ElementOfSeq
  <2>3. <<ds>> \in Seq(Seq(Job!Digits)) /\ Len(<<ds>>) = 1 /\ <<ds>>[1] = ds
    BY <2>2
  <2>4. \A i \in 1 .. 1 : l.args[i] = <<ds>>[i]
    BY <2>3
  <2> QED
    BY <2>1, <2>2, <2>3, <2>4, SeqEqual
<1>2. Spelling(l.op, l.args) = word
  <2>1. Arguments(l.op, l.args) = ds
    BY DEF Arguments
  <2> QED
    BY <2>1 DEF Spelling
<1>3. kw \in Seq(Symbol)
  BY KeywordsAre
<1>4. ds \in Seq(Symbol)
  <2>1. Job!Digits \subseteq Symbol
    BY DEF Symbol
  <2> QED
    BY <1>1, <2>1, WordsAre
<1>5. word \in Seq(Symbol) /\ n \in Nat
  BY <1>3, <1>4, ConcatProperties, LenProperties
<1>6. /\ p \in Nat /\ p > 0 /\ r \in Nat /\ Job!End \in Nat /\ r <= Job!End
      /\ Len(t) \in Nat /\ r = p + Len(t)
      /\ \A i \in 1 .. Len(t) : text[p + i - 1] = t[i]
  BY LineEnds DEF Place
<1>7. n < Len(t) /\ IsPrefix(word, t)
  BY <1>2 DEF IsNumber
<1> HIDE DEF word
<1>8. \A i \in 1 .. n : word[i] = t[i]
  <2> TAKE i \in 1 .. n
  <2>1. SubSeq(word, 1, n) = SubSeq(t, 1, n)
    BY <1>7 DEF IsPrefix
  <2>2. SubSeq(word, 1, n) = word
    BY <1>5, SubSeqFull
  <2>3. \A k \in 1 .. n : t[k] \in Character
    <3> TAKE k \in 1 .. n
    <3>1. k \in 1 .. Len(t) /\ t \in Seq(Character)
      BY <1>5, <1>6, <1>7 DEF LineAt
    <3> QED
      BY <3>1, ElementOfSeq
  <2>4. SubSeq(t, 1, n)[i] = t[1 + i - 1]
    <3>1. 1 \in Int /\ n \in Int /\ n - 1 + 1 = n /\ 1 + i - 1 = i
      BY <1>5
    <3> HIDE DEF t, n
    <3> QED
      BY <2>3, <3>1, SubSeqProperties
  <2>5. 1 + i - 1 = i
    OBVIOUS
  <2> QED
    BY <2>1, <2>2, <2>4, <2>5
<1>9. Spells(word, p, s)
  <2>1. s <= Job!End
    BY <1>5, <1>6, <1>7
  <2>2. \A i \in 1 .. n : text[p + i - 1] = word[i]
    BY <1>5, <1>6, <1>7, <1>8
  <2> QED
    BY <1>5, <2>1, <2>2 DEF Spells
<1> DEFINE q == p + Len(kw)
<1>10. Spells(kw, p, q) /\ Spells(ds, q, s) /\ q \in Place /\ s \in Place
  <2> HIDE DEF kw, ds, s
  <2> QED
    BY <1>3, <1>4, <1>9, SpellsSplit DEF word
<1>11. text[s] = Behind(l) /\ Job!Char(s) = text[s] /\ Job!Char(s) # Job!EndOfFile
       /\ s < r
  <2>1. n + 1 \in 1 .. Len(t) /\ p + (n + 1) - 1 = s /\ s < r /\ s < Job!End
    BY <1>5, <1>6, <1>7
  <2>2. text[s] = t[n + 1]
    BY <1>6, <2>1
  <2>3. Behind(l) = t[n + 1]
    BY <1>2 DEF Behind
  <2> HIDE DEF s
  <2> QED
    BY <1>10, <2>1, <2>2, <2>3, Places
<1>12. DigitsEnd(ds, q, s)
  BY <1>1, <1>10, <1>11 DEF DigitsEnd
<1>13. Job!After(s, 1) = s + 1 /\ s + 1 \in p + 1 .. r /\ s \in Nat
       /\ s + 1 = p + Len(Spelling(l.op, l.args)) + 1
  <2>1. s \in Nat /\ s + 1 \in p + 1 .. r /\ s + 1 <= Job!End
    BY <1>5, <1>6, <1>11
  <2>2. s + 1 = p + Len(Spelling(l.op, l.args)) + 1
    BY <1>2
  <2> HIDE DEF s
  <2>3. Job!After(s, 1) = s + 1
    BY <1>10, <2>1, AfterIs
  <2> QED
    BY <2>1, <2>2, <2>3
<1> HIDE DEF q, s
<1> QED
  BY <1>1, <1>10, <1>11, <1>12, <1>13

-----------------------------------------------------------------------------
(* What a turn does with a line. *)

\* A line that does not disturb the next, for one of the two programs.
Tame(l, letters) == l.op # "INVALID" \/ l.text[1] \notin letters

\* A turn that carries out a line.
CarriesOut(l, r) == Turn(l.op, l.args, r)

\* What is accepted is carried out.
LEMMA AcceptedTurn ==
    ASSUME NEW op, NEW args, args # <<>>, NEW r, NEW result,
           result = Job!Accept(args, r), Parsed(op, result)
    PROVE  Turn(op, args, r) /\ ended' = ended
<1>1. result.args = args /\ result.pos = r
  BY DEF Job!Accept
<1> QED
  BY <1>1 DEF Parsed

\* A keyword and its arguments are behind one another.
LEMMA SpellingCut ==
    ASSUME TextInv, NEW p \in Place, NEW op, Keyword(op) \in Seq(Symbol), NEW args,
           Arguments(op, args) \in Seq(Symbol), NEW r, Spells(Spelling(op, args), p, r)
    PROVE  \E q \in Place : Spells(Keyword(op), p, q) /\ Spells(Arguments(op, args), q, r)
<1> DEFINE u == Keyword(op)
           v == Arguments(op, args)
<1>1. Spells(u \o v, p, r)
  BY DEF Spelling
<1> HIDE DEF u, v
<1>2. Spells(u, p, p + Len(u)) /\ Spells(v, p + Len(u), r) /\ p + Len(u) \in Place
  BY <1>1, SpellsSplit DEF u, v
<1> QED
  BY <1>2 DEF u, v

\* What a step of run_job does with the command it found.
JobDoes(token) ==
    /\ token.cmd = "WRITE" => Parsed("WRITE", Job!parse_write(token.pos))
    /\ token.cmd \in {"READ", "DELETE"} =>
          Parsed(token.cmd, Job!parse_read_delete(token.pos))
    /\ token.cmd = "WAIT" =>
          \E result \in Job!parse_wait(token.pos) : Parsed("WAIT", result)
    /\ token.cmd \in {"SHOW", "BACKUP", "HELP", "EMPTY", "INVALID"} =>
          Turn(token.cmd, <<>>, token.pos) /\ ended' = ended

\* Each step of run_job does so, until the end of the file is found.
LEMMA JobStep ==
    ASSUME Next, reader = "job", ~ended, JobToken.cmd # "EOC"
    PROVE  JobDoes(JobToken)
<1>1. CASE JobWrite
  BY <1>1 DEF JobWrite, JobFinds, JobDoes
<1>2. CASE JobReadDelete
  BY <1>2 DEF JobReadDelete, JobFinds, JobDoes
<1>3. CASE JobWait
  BY <1>3 DEF JobWait, JobFinds, JobDoes
<1>4. CASE JobPlain
  BY <1>4 DEF JobPlain, JobFinds, JobDoes
<1>5. ~JobEnd
  BY DEF JobEnd, JobFinds
<1>6. ~ClientKey /\ ~ClientDelay /\ ~ClientPlain /\ ~ClientDisconnect
      /\ ~ClientEndOfInput /\ ~Ended
  BY DEF ClientKey, ClientDelay, ClientPlain, ClientDisconnect,
         ClientEndOfInput, Ended, ClientFinds
<1> QED
  BY <1>1, <1>2, <1>3, <1>4, <1>5, <1>6 DEF Next

\* What a step of the client does with the command it found.
ClientDoes(token) ==
    /\ token.cmd \in {"SUBSCRIBE", "UNSUBSCRIBE"} =>
          Parsed(token.cmd, Client!parse_list(token.pos, 1))
    /\ token.cmd = "DELAY" =>
          \E result \in Client!parse_delay(token.pos) : Parsed("DELAY", result)
    /\ token.cmd \in {"EMPTY", "INVALID", "DISCONNECT"} =>
          Turn(token.cmd, <<>>, token.pos)

\* Each step of the client does so, until the end of the file is found.
LEMMA ClientStep ==
    ASSUME Next, reader = "client", ~ended, ClientToken.cmd # "EOC"
    PROVE  ClientDoes(ClientToken)
<1>1. CASE ClientKey
  BY <1>1 DEF ClientKey, ClientFinds, ClientDoes
<1>2. CASE ClientDelay
  BY <1>2 DEF ClientDelay, ClientFinds, ClientDoes
<1>3. CASE ClientPlain
  BY <1>3 DEF ClientPlain, ClientFinds, ClientDoes
<1>4. CASE ClientDisconnect
  BY <1>4 DEF ClientDisconnect, ClientFinds, ClientDoes
<1>5. ~ClientEndOfInput
  BY DEF ClientEndOfInput, ClientFinds
<1>6. ~JobWrite /\ ~JobReadDelete /\ ~JobWait /\ ~JobPlain /\ ~JobEnd /\ ~Ended
  BY DEF JobWrite, JobReadDelete, JobWait, JobPlain, JobEnd, Ended, JobFinds
<1> QED
  BY <1>1, <1>2, <1>3, <1>4, <1>5, <1>6 DEF Next

\* A line with a keyword alone.
LEMMA AloneCut ==
    ASSUME TextInv, NEW p \in Place, NEW l, NEW r, LineAt(l, p, r), IsAlone(l),
           l.op \in {"SHOW", "BACKUP", "HELP", "DISCONNECT"}
    PROVE  \E q \in Place :
              /\ Spells(Keyword(l.op), p, q) /\ Job!After(q, 1) = r
              /\ Job!Char(q) \in {Job!Newline, Job!EndOfFile}
<1> DEFINE kw == Keyword(l.op)
<1>1. kw \in Seq(Symbol)
  BY KeywordsAre
<1>2. Last(kw) # "\n"
  BY KeywordsAre, KeywordsDiffer DEF Last
<1>3. /\ p \in Nat /\ r \in Nat /\ Job!End \in Nat /\ r <= Job!End /\ r \in Place
  BY LineEnds
<1> HIDE DEF kw
<1>4. CASE l.text = kw
  <2>1. r = Job!End /\ Spells(kw, p, r)
    BY <1>2, <1>4 DEF LineAt
  <2>2. Job!After(r, 1) = Job!End
    BY <1>3, <2>1, AfterIs
  <2>3. Job!Char(r) = Job!EndOfFile
    BY <1>3, <2>1, Places
  <2> QED
    BY <1>3, <2>1, <2>2, <2>3 DEF kw
<1>5. CASE l.text = Append(kw, "\n")
  <2> DEFINE c == "\n"
             e == <<c>>
             q == p + Len(kw)
  <2>1. e \in Seq(Symbol)
    BY MarkSymbol DEF Marks
  <2>2. Append(kw, c) = kw \o e
    <3>1. c \in Symbol
      BY DEF Symbol, Marks
    <3> HIDE DEF c
    <3> QED
      BY <1>1, <3>1, AppendIsConcat
  <2>3. Spells(kw \o e, p, r)
    BY <1>5, <2>2 DEF LineAt
  <2> HIDE DEF e, q
  <2>4. Spells(kw, p, q) /\ Spells(e, q, r) /\ q \in Place
    BY <1>1, <2>1, <2>3, SpellsSplit DEF q
  <2>5. Job!Char(q) = c /\ Job!After(q, 1) = r
    BY <2>4, CharacterSpelled DEF e
  <2> QED
    BY <2>4, <2>5 DEF kw, Job!Newline
<1> QED
  BY <1>4, <1>5 DEF IsAlone, kw

\* A token's parts.
LEMMA TokenIs ==
    ASSUME NEW cmd, NEW q
    PROVE  Job!Token(cmd, q).cmd = cmd /\ Job!Token(cmd, q).pos = q
BY DEF Job!Token

\* What is done with a command, as long as there is one.
JobActs(token) == token.cmd # "EOC" => JobDoes(token)

\* A turn of run_job and the rest of the loop.
JobTurn(l, r) == CarriesOut(l, r) /\ ended' = ended

\* A WRITE,
LEMMA WriteLine ==
    ASSUME TextInv, pos \in Place, NEW l, NEW r, LineAt(l, pos, r),
           l.op = "WRITE", IsPairs(l), NEW token, token = Job!get_next(pos),
           JobActs(token)
    PROVE  JobTurn(l, r)
<1>1. /\ l.args \in Seq(Word \X Word) /\ Len(l.args) \in 1 .. MAX_WRITE_SIZE - 1
      /\ l.text = Spelling("WRITE", l.args)
  BY DEF IsPairs
<1>2. Keyword("WRITE") \in Seq(Symbol) /\ Arguments("WRITE", l.args) \in Seq(Symbol)
  BY <1>1, KeywordsAre, ArgumentsSymbols
<1>3. Spells(Spelling("WRITE", l.args), pos, r)
  BY <1>1 DEF LineAt
<1>4. PICK q \in Place : /\ Spells(Keyword("WRITE"), pos, q)
                         /\ Spells(Arguments("WRITE", l.args), q, r)
  BY <1>2, <1>3, SpellingCut
<1>5. token = Job!Token("WRITE", q)
  BY <1>4, JobKeywordFound
<1>6. token.cmd = "WRITE" /\ token.pos = q
  BY <1>5, TokenIs
<1>7. Parsed("WRITE", Job!parse_write(q))
  BY <1>6 DEF JobDoes, JobActs
<1>8. Job!parse_write(q) = Job!Accept(l.args, r)
  BY <1>1, <1>4, WriteRead
<1>9. l.args # <<>>
  BY <1>1, EmptySeq
<1>10. Turn("WRITE", l.args, r) /\ ended' = ended
  BY <1>7, <1>8, <1>9, AcceptedTurn
<1> QED
  BY <1>10 DEF JobTurn, CarriesOut

\* a READ or a DELETE,
LEMMA KeysLine ==
    ASSUME TextInv, pos \in Place, NEW l, NEW r, LineAt(l, pos, r),
           l.op \in {"READ", "DELETE"}, IsList(l, MAX_WRITE_SIZE - 1),
           NEW token, token = Job!get_next(pos),
           JobActs(token)
    PROVE  JobTurn(l, r)
<1> DEFINE op == l.op
<1>1. /\ l.args \in Seq(Word) /\ Len(l.args) \in 1 .. MAX_WRITE_SIZE - 1
      /\ l.text = Spelling(op, l.args)
  BY DEF IsList
<1>2. op \in Lists /\ op # "EOC" /\ op \in {"WRITE", "READ", "DELETE", "WAIT"}
  BY DEF Lists
<1>3. Keyword(op) \in Seq(Symbol) /\ Arguments(op, l.args) \in Seq(Symbol)
  BY <1>1, <1>2, KeywordsAre, ArgumentsSymbols
<1>4. Spells(Spelling(op, l.args), pos, r)
  BY <1>1 DEF LineAt
<1>5. PICK q \in Place : /\ Spells(Keyword(op), pos, q)
                         /\ Spells(Arguments(op, l.args), q, r)
  BY <1>3, <1>4, SpellingCut
<1>6. token = Job!Token(op, q)
  BY <1>2, <1>5, JobKeywordFound
<1>7. token.cmd = op /\ token.pos = q
  BY <1>6, TokenIs
<1>8. Parsed(op, Job!parse_read_delete(q))
  BY <1>2, <1>7 DEF JobDoes, JobActs
<1>9. Job!parse_read_delete(q) = Job!Accept(l.args, r)
  BY <1>1, <1>2, <1>5, ReadDeleteRead
<1>10. l.args # <<>>
  BY <1>1, EmptySeq
<1>11. Turn(op, l.args, r) /\ ended' = ended
  BY <1>8, <1>9, <1>10, AcceptedTurn
<1> QED
  BY <1>11 DEF JobTurn, CarriesOut

\* a WAIT,
LEMMA WaitLine ==
    ASSUME TextInv, pos \in Place, NEW l, NEW r, LineAt(l, pos, r),
           IsWait(l), NEW token, token = Job!get_next(pos),
           JobActs(token)
    PROVE  JobTurn(l, r)
<1> DEFINE ds == l.args[1]
<1>0. /\ l.op = "WAIT" /\ IsNumber(l) /\ Job!Number(ds) <= UINT_MAX
      /\ Behind(l) = " " \/ Behind(l) = "\n"
      /\ OneLine(l.text)
  BY DEF IsWait
<1>1. Behind(l) \notin Job!Digits /\ l.op \in {"WAIT", "DELAY"}
  BY <1>0 DEF Job!Digits
<1>2. PICK q \in Place, s \in Place :
         /\ Spells(Keyword(l.op), pos, q) /\ DigitsEnd(ds, q, s)
         /\ l.args = <<ds>>
         /\ Job!Char(s) = Behind(l) /\ Job!After(s, 1) = s + 1
         /\ s + 1 \in pos + 1 .. r /\ text[s] = Behind(l)
         /\ s + 1 = pos + Len(Spelling(l.op, l.args)) + 1
  BY <1>0, <1>1, NumberCut
<1>3. token.cmd = "WAIT" /\ token.pos = q
  <2>1. token = Job!Token("WAIT", q)
    <3>1. Spells(Keyword("WAIT"), pos, q)
      BY <1>0, <1>2
    <3> QED
      BY <3>1, JobKeywordFound
  <2> QED
    BY <2>1, TokenIs
<1>5. PICK result \in Job!parse_wait(q) : Parsed("WAIT", result)
  BY <1>3 DEF JobDoes, JobActs
<1>6. /\ Job!Char(s) = " " => result = Job!Accept(<<ds>>, Job!cleanup(s + 1))
      /\ Job!Char(s) = "\n" => result = Job!Accept(<<ds>>, s + 1)
  <2> HIDE DEF ds
  <2>1. /\ Job!Char(s) = " " =>
              result = Job!Accept(<<ds>>, Job!cleanup(Job!After(s, 1)))
        /\ Job!Char(s) = "\n" => result = Job!Accept(<<ds>>, Job!After(s, 1))
    BY <1>0, <1>2, <1>5, WaitRead
  <2> QED
    BY <1>2, <2>1
<1>7. /\ pos \in Nat /\ r \in Nat /\ Job!End \in Nat /\ pos < r /\ r <= Job!End
      /\ Len(l.text) \in Nat /\ r = pos + Len(l.text)
      /\ \A i \in 1 .. Len(l.text) : text[pos + i - 1] = l.text[i]
  BY LineEnds
<1>8. s \in Nat /\ (s + 1) - 1 = s /\ s + 1 <= r /\ pos + 1 <= s + 1
  <2>1. s \in Nat
    BY Places
  <2> QED
    BY <1>2, <1>7, <2>1
<1>9. result = Job!Accept(<<ds>>, r)
  <2>1. CASE Behind(l) = " "
    <3>1. text[(s + 1) - 1] # "\n"
      BY <1>2, <1>8, <2>1
    <3>2. Job!cleanup(s + 1) = r
      BY <1>0, <1>2, <3>1, RestSkipped
    <3> QED
      BY <1>2, <1>6, <2>1, <3>2
  <2>2. CASE Behind(l) = "\n"
    <3>1. s + 1 = r
      <4> SUFFICES ASSUME s + 1 # r PROVE FALSE
        OBVIOUS
      <4> DEFINE i == s + 1 - pos
      <4>2. /\ i \in 1 .. Len(l.text) - 1 /\ pos + i - 1 = s
            /\ i \in 1 .. Len(l.text)
        BY <1>7, <1>8
      <4> HIDE DEF i
      <4>3. l.text[i] # "\n" /\ text[s] = l.text[i]
        BY <1>0, <1>7, <4>2 DEF OneLine
      <4> QED
        BY <1>2, <2>2, <4>3
    <3> QED
      BY <1>2, <1>6, <2>2, <3>1
  <2> QED
    BY <1>0, <2>1, <2>2
<1>10. Turn("WAIT", <<ds>>, r) /\ ended' = ended
  <2>1. <<ds>> # <<>>
    OBVIOUS
  <2> QED
    BY <1>5, <1>9, <2>1, AcceptedTurn
<1> QED
  BY <1>0, <1>2, <1>10 DEF JobTurn, CarriesOut

\* a keyword alone,
LEMMA AloneLine ==
    ASSUME TextInv, pos \in Place, NEW l, NEW r, LineAt(l, pos, r),
           l.op \in {"SHOW", "BACKUP", "HELP"}, IsAlone(l),
           NEW token, token = Job!get_next(pos), JobActs(token)
    PROVE  JobTurn(l, r)
<1>1. PICK q \in Place :
         /\ Spells(Keyword(l.op), pos, q) /\ Job!After(q, 1) = r
         /\ Job!Char(q) \in {Job!Newline, Job!EndOfFile}
  BY AloneCut
<1>2. token = Job!Token(l.op, r)
  BY <1>1, JobAloneFound
<1>3. token.cmd = l.op /\ token.pos = r
  BY <1>2, TokenIs
<1>4. Turn(l.op, <<>>, r) /\ ended' = ended
  BY <1>3 DEF JobDoes, JobActs
<1>5. l.args = <<>>
  BY DEF IsAlone
<1> QED
  BY <1>4, <1>5 DEF JobTurn, CarriesOut

\* A line that is told by its first character: where it ends for cleanup.
LEMMA FirstSkipped ==
    ASSUME TextInv, NEW p \in Place, NEW l, NEW r, LineAt(l, p, r),
           OneLine(l.text), l.text[1] # "\n"
    PROVE  Job!cleanup(p + 1) = r /\ Job!After(p, 1) = p + 1
<1>1. /\ p \in Nat /\ r \in Nat /\ Job!End \in Nat /\ p < r /\ r <= Job!End
      /\ Len(l.text) \in Nat /\ r = p + Len(l.text)
      /\ \A i \in 1 .. Len(l.text) : text[p + i - 1] = l.text[i]
  BY LineEnds
<1>2. p + 1 \in p + 1 .. r /\ (p + 1) - 1 = p /\ 1 \in 1 .. Len(l.text)
      /\ p + 1 - 1 = p /\ p + 1 <= Job!End /\ 1 \in Nat
  BY <1>1
<1>3. text[p] = l.text[1]
  BY <1>1, <1>2
<1>4. Job!cleanup(p + 1) = r
  BY <1>2, <1>3, RestSkipped
<1>5. Job!After(p, 1) = p + 1
  BY <1>2, AfterIs
<1> QED
  BY <1>4, <1>5

\* An empty line or a comment.
LEMMA EmptyCut ==
    ASSUME TextInv, NEW p \in Place, NEW l, NEW r, LineAt(l, p, r), IsEmpty(l)
    PROVE  /\ Job!Char(p) # Job!EndOfFile
           /\ \/ Job!Char(p) = "\n" /\ r = p + 1
              \/ Job!Char(p) = "#" /\ Job!cleanup(p + 1) = r
<1>1. Job!Char(p) = l.text[1] /\ Job!Char(p) # Job!EndOfFile
      /\ r = p + Len(l.text)
  BY LineEnds
<1>2. CASE l.text = <<"\n">>
  <2>1. l.text[1] = "\n" /\ Len(l.text) = 1
    BY <1>2
  <2> QED
    BY <1>1, <2>1
<1>3. CASE l.text[1] = "#" /\ OneLine(l.text)
  <2>1. l.text[1] # "\n"
    BY <1>3
  <2>2. Job!cleanup(p + 1) = r
    BY <1>3, <2>1, FirstSkipped
  <2> QED
    BY <1>1, <1>3, <2>2
<1> QED
  BY <1>2, <1>3 DEF IsEmpty

\* An empty line or a comment is carried out as the command EMPTY.
LEMMA EmptyLine ==
    ASSUME TextInv, pos \in Place, NEW l, NEW r, LineAt(l, pos, r),
           l.op = "EMPTY", IsEmpty(l),
           NEW token, token = Job!get_next(pos), JobActs(token)
    PROVE  JobTurn(l, r)
<1>1. Job!Char(pos) # Job!EndOfFile
      /\ \/ Job!Char(pos) = "\n" /\ r = pos + 1
         \/ Job!Char(pos) = "#" /\ Job!cleanup(pos + 1) = r
  BY EmptyCut
<1>2. token = Job!Token("EMPTY", r)
  BY <1>1, JobOtherFound
<1>3. token.cmd = "EMPTY" /\ token.pos = r
  BY <1>2, TokenIs
<1>4. Turn("EMPTY", <<>>, r) /\ ended' = ended
  BY <1>3 DEF JobDoes, JobActs
<1>5. l.args = <<>>
  BY DEF IsEmpty
<1> QED
  BY <1>4, <1>5 DEF JobTurn, CarriesOut

\* and a line that begins with no command's letter.
LEMMA MistypedCut ==
    ASSUME TextInv, NEW p \in Place, NEW l, NEW r, LineAt(l, p, r), NEW letters,
           IsMistyped(l, letters), l.text[1] \notin letters
    PROVE  /\ Job!Char(p) # Job!EndOfFile
           /\ Job!Char(p) \notin letters \cup {"#", "\n"}
           /\ Job!cleanup(p + 1) = r /\ Job!After(p, 1) = p + 1
<1>1. Job!Char(p) = l.text[1] /\ Job!Char(p) # Job!EndOfFile
  BY LineEnds
<1>2. l.text[1] \notin {"#", "\n"} /\ OneLine(l.text)
  BY DEF IsMistyped
<1>3. l.text[1] # "\n"
  BY <1>2
<1>4. Job!cleanup(p + 1) = r /\ Job!After(p, 1) = p + 1
  BY <1>2, <1>3, FirstSkipped
<1> QED
  BY <1>1, <1>2, <1>4

\* It is carried out as the command INVALID.
LEMMA MistypedLine ==
    ASSUME TextInv, pos \in Place, NEW l, NEW r, LineAt(l, pos, r),
           l.op = "INVALID", IsMistyped(l, JobLetters), l.text[1] \notin JobLetters,
           NEW token, token = Job!get_next(pos), JobActs(token)
    PROVE  JobTurn(l, r)
<1>1. /\ Job!Char(pos) # Job!EndOfFile
      /\ Job!Char(pos) \notin JobLetters \cup {"#", "\n"}
      /\ Job!cleanup(pos + 1) = r /\ Job!After(pos, 1) = pos + 1
  BY MistypedCut
<1>2. token = Job!Token("INVALID", r)
  BY <1>1, JobOtherFound
<1>3. token.cmd = "INVALID" /\ token.pos = r
  BY <1>2, TokenIs
<1>4. Turn("INVALID", <<>>, r) /\ ended' = ended
  BY <1>3 DEF JobDoes, JobActs
<1>5. l.args = <<>>
  BY DEF IsMistyped
<1> QED
  BY <1>4, <1>5 DEF JobTurn, CarriesOut

\* run_job carries out a line that does not disturb the next, and stops
\* behind it.
LEMMA JobLineCarriedOut ==
    ASSUME TextInv, pos \in Place, Next, reader = "job", ~ended,
           NEW l, JobLine(l), NEW r, LineAt(l, pos, r), Tame(l, JobLetters)
    PROVE  JobTurn(l, r)
<1> DEFINE token == JobToken
<1>1. token = Job!get_next(pos)
  BY DEF JobToken
<1>2. JobActs(token)
  BY JobStep DEF JobActs
<1> HIDE DEF token
<1>3. CASE l.op = "WRITE" /\ IsPairs(l)
  BY <1>1, <1>2, <1>3, WriteLine
<1>4. CASE l.op \in {"READ", "DELETE"} /\ IsList(l, MAX_WRITE_SIZE - 1)
  BY <1>1, <1>2, <1>4, KeysLine
<1>5. CASE IsWait(l)
  BY <1>1, <1>2, <1>5, WaitLine
<1>6. CASE l.op \in {"SHOW", "BACKUP", "HELP"} /\ IsAlone(l)
  BY <1>1, <1>2, <1>6, AloneLine
<1>7. CASE l.op = "EMPTY" /\ IsEmpty(l)
  BY <1>1, <1>2, <1>7, EmptyLine
<1>8. CASE l.op = "INVALID" /\ IsMistyped(l, JobLetters)
  <2>1. l.text[1] \notin JobLetters
    BY <1>8 DEF Tame
  <2> QED
    BY <1>1, <1>2, <1>8, <2>1, MistypedLine
<1> QED
  BY <1>3, <1>4, <1>5, <1>6, <1>7, <1>8 DEF JobLine

\* What the client does with a command, as long as there is one.
ClientActs(token) == token.cmd # "EOC" => ClientDoes(token)

\* The client's lines: a SUBSCRIBE or an UNSUBSCRIBE,
LEMMA KeyLine ==
    ASSUME TextInv, pos \in Place, NEW l, NEW r, LineAt(l, pos, r),
           l.op \in {"SUBSCRIBE", "UNSUBSCRIBE"}, IsList(l, 1),
           NEW token, token = Client!get_next(pos), ClientActs(token)
    PROVE  CarriesOut(l, r)
<1> DEFINE op == l.op
<1>1. /\ l.args \in Seq(Word) /\ Len(l.args) \in 1 .. 1
      /\ l.text = Spelling(op, l.args)
  BY DEF IsList
<1>2. op \in Lists /\ op # "EOC" /\ op \in {"SUBSCRIBE", "UNSUBSCRIBE", "DELAY"}
  BY DEF Lists
<1>3. Keyword(op) \in Seq(Symbol) /\ Arguments(op, l.args) \in Seq(Symbol)
  BY <1>1, <1>2, KeywordsAre, ArgumentsSymbols
<1>4. Spells(Spelling(op, l.args), pos, r)
  BY <1>1 DEF LineAt
<1>5. PICK q \in Place : /\ Spells(Keyword(op), pos, q)
                         /\ Spells(Arguments(op, l.args), q, r)
  BY <1>3, <1>4, SpellingCut
<1>6. token = Job!Token(op, q)
  BY <1>2, <1>5, ClientKeywordFound
<1>7. token.cmd = op /\ token.pos = q
  BY <1>6, TokenIs
<1>8. Parsed(op, Client!parse_list(q, 1))
  BY <1>2, <1>7 DEF ClientDoes, ClientActs
<1>9. Client!parse_list(q, 1) = Job!Accept(l.args, r)
  BY <1>1, <1>2, <1>5, ListRead
<1>10. l.args # <<>>
  <2>1. Len(l.args) = 1 /\ Len(<<>>) = 0
    BY <1>1
  <2> QED
    BY <2>1
<1>11. Turn(op, l.args, r)
  BY <1>8, <1>9, <1>10, AcceptedTurn
<1> QED
  BY <1>11 DEF CarriesOut

\* a DELAY,
LEMMA DelayLine ==
    ASSUME TextInv, pos \in Place, NEW l, NEW r, LineAt(l, pos, r),
           IsDelay(l), NEW token, token = Client!get_next(pos), ClientActs(token)
    PROVE  CarriesOut(l, r)
<1> DEFINE ds == l.args[1]
<1>1. /\ l.op = "DELAY" /\ IsNumber(l) /\ Client!Number(ds) <= UINT_MAX
      /\ Behind(l) \notin Job!Digits
      /\ Len(l.text) = Len(Spelling(l.op, l.args)) + 1
  BY DEF IsDelay
<1>2. l.op \in {"WAIT", "DELAY"}
  BY <1>1
<1>3. PICK q \in Place, s \in Place :
         /\ Spells(Keyword(l.op), pos, q) /\ DigitsEnd(ds, q, s)
         /\ l.args = <<ds>>
         /\ Job!Char(s) = Behind(l) /\ Job!After(s, 1) = s + 1
         /\ s + 1 \in pos + 1 .. r /\ text[s] = Behind(l)
         /\ s + 1 = pos + Len(Spelling(l.op, l.args)) + 1
  BY <1>1, <1>2, NumberCut
<1>4. s + 1 = r
  <2>1. r = pos + Len(l.text) /\ pos \in Nat /\ Len(l.text) \in Nat
    BY LineEnds
  <2>2. Len(Spelling(l.op, l.args)) \in Nat
    <3>1. Keyword(l.op) \in Seq(Symbol)
      BY <1>1, KeywordsAre
    <3>2. Arguments(l.op, l.args) = ds /\ ds \in Seq(Symbol)
      BY <1>1, <1>3 DEF Arguments, DigitsEnd, Spells
    <3> QED
      BY <3>1, <3>2, ConcatProperties, LenProperties DEF Spelling
  <2>3. Len(l.text) = Len(Spelling(l.op, l.args)) + 1
        /\ s + 1 = pos + Len(Spelling(l.op, l.args)) + 1
    BY <1>1, <1>3
  <2> QED
    BY <2>1, <2>2, <2>3
<1>5. token.cmd = "DELAY" /\ token.pos = q
  <2>1. token = Job!Token("DELAY", q)
    <3>1. Spells(Keyword("DELAY"), pos, q)
      BY <1>1, <1>3
    <3> QED
      BY <3>1, ClientKeywordFound
  <2> QED
    BY <2>1, TokenIs
<1>6. PICK result \in Client!parse_delay(q) : Parsed("DELAY", result)
  BY <1>5 DEF ClientDoes, ClientActs
<1>7. result = Job!Accept(<<ds>>, r)
  <2> HIDE DEF ds
  <2>1. result = Job!Accept(<<ds>>, Job!After(s, 1))
    BY <1>1, <1>3, <1>6, DelayRead
  <2> QED
    BY <1>3, <1>4, <2>1
<1>8. Turn("DELAY", <<ds>>, r)
  <2>1. <<ds>> # <<>>
    OBVIOUS
  <2> QED
    BY <1>6, <1>7, <2>1, AcceptedTurn
<1> QED
  BY <1>1, <1>3, <1>8 DEF CarriesOut

\* and those without arguments.
LEMMA PlainLine ==
    ASSUME TextInv, pos \in Place, NEW l, NEW r, LineAt(l, pos, r),
           l.args = <<>>, l.op \in {"EMPTY", "INVALID", "DISCONNECT"},
           NEW token, token = Job!Token(l.op, r), ClientActs(token)
    PROVE  CarriesOut(l, r)
<1>1. token.cmd = l.op /\ token.pos = r
  BY TokenIs
<1>2. Turn(l.op, <<>>, r)
  BY <1>1 DEF ClientDoes, ClientActs
<1> QED
  BY <1>2 DEF CarriesOut

\* The client carries out a line that does not disturb the next, and stops
\* behind it.
LEMMA ClientLineCarriedOut ==
    ASSUME TextInv, pos \in Place, Next, reader = "client", ~ended,
           NEW l, ClientLine(l), NEW r, LineAt(l, pos, r), Tame(l, ClientLetters)
    PROVE  CarriesOut(l, r)
<1> DEFINE token == ClientToken
<1>1. token = Client!get_next(pos)
  BY DEF ClientToken
<1>2. ClientActs(token)
  BY ClientStep DEF ClientActs
<1> HIDE DEF token
<1>3. CASE l.op \in {"SUBSCRIBE", "UNSUBSCRIBE"} /\ IsList(l, 1)
  BY <1>1, <1>2, <1>3, KeyLine
<1>4. CASE IsDelay(l)
  BY <1>1, <1>2, <1>4, DelayLine
<1>5. CASE l.op = "DISCONNECT" /\ IsAlone(l)
  <2>1. PICK q \in Place :
           /\ Spells(Keyword(l.op), pos, q) /\ Job!After(q, 1) = r
           /\ Job!Char(q) \in {Job!Newline, Job!EndOfFile}
    BY <1>5, AloneCut
  <2>2. Spells(Keyword("DISCONNECT"), pos, q)
    BY <1>5, <2>1
  <2>3. token = Job!Token(l.op, r)
    BY <1>1, <1>5, <2>1, <2>2, ClientAloneFound
  <2>4. l.args = <<>> /\ l.op \in {"EMPTY", "INVALID", "DISCONNECT"}
    BY <1>5 DEF IsAlone
  <2> QED
    BY <1>2, <2>3, <2>4, PlainLine
<1>6. CASE l.op = "EMPTY" /\ IsEmpty(l)
  <2>1. Job!Char(pos) # Job!EndOfFile
        /\ \/ Job!Char(pos) = "\n" /\ r = pos + 1
           \/ Job!Char(pos) = "#" /\ Job!cleanup(pos + 1) = r
    BY <1>6, EmptyCut
  <2>2. token = Job!Token(l.op, r)
    BY <1>1, <1>6, <2>1, ClientOtherFound
  <2>3. l.args = <<>> /\ l.op \in {"EMPTY", "INVALID", "DISCONNECT"}
    BY <1>6 DEF IsEmpty
  <2> QED
    BY <1>2, <2>2, <2>3, PlainLine
<1>7. CASE l.op = "INVALID" /\ IsMistyped(l, ClientLetters)
  <2>1. l.text[1] \notin ClientLetters
    BY <1>7 DEF Tame
  <2>2. /\ Job!Char(pos) # Job!EndOfFile
        /\ Job!Char(pos) \notin ClientLetters \cup {"#", "\n"}
        /\ Job!cleanup(pos + 1) = r
    BY <1>7, <2>1, MistypedCut
  <2>3. token = Job!Token(l.op, r)
    BY <1>1, <1>7, <2>2, ClientOtherFound
  <2>4. l.args = <<>> /\ l.op \in {"EMPTY", "INVALID", "DISCONNECT"}
    BY <1>7 DEF IsMistyped
  <2> QED
    BY <1>2, <2>3, <2>4, PlainLine
<1> QED
  BY <1>3, <1>4, <1>5, <1>6, <1>7 DEF ClientLine

-----------------------------------------------------------------------------
(* The loops carry out the lines of the file. *)

\* What the lines of the file are as text.
Texts == [i \in DOMAIN lines |-> lines[i].text]

\* The lines are those of one of the two programs, and the text is theirs.
FileInv ==
    /\ lines \in Seq(IF reader = "job" THEN JobLines ELSE ClientLines)
    /\ text = FlattenSeq(Texts)

\* No line up to i disturbs the next.
TameUpTo(i) == \A j \in 1 .. i : j \in DOMAIN lines => Contained(j)

\* Turn i carried out line i.
CarriedOut(i) ==
    i \in DOMAIN lines /\ log[i].op = lines[i].op /\ log[i].args = lines[i].args

\* Line k begins at e[k - 1] and ends at e[k].  As long as no line disturbs
\* the next, as many turns have been taken as lines have been read; and
\* run_job stops at the end of the file.
ProgressFrom(e) ==
    /\ Cut(e, Texts, 1, Job!End)
    /\ \A i \in DOMAIN log : TameUpTo(i) => CarriedOut(i)
    /\ TameUpTo(Len(log)) => Len(log) <= Len(lines) /\ pos = e[Len(log)]
    /\ ended /\ reader = "job" => pos = Job!End

\* There is such a cut of the file.
Progress == FileInv /\ \E e : ProgressFrom(e)

\* What the lines and their texts are.
LEMMA LinesAre ==
    ASSUME FileInv
    PROVE  /\ Len(lines) \in Nat /\ DOMAIN lines = 1 .. Len(lines)
           /\ Len(Texts) = Len(lines)
           /\ Texts \in Seq(Seq(Character)) /\ Texts \in Seq(Seq(Symbol))
           /\ \A i \in 1 .. Len(lines) :
                 /\ Texts[i] = lines[i].text
                 /\ lines[i].text \in Seq(Character) \ {<<>>}
                 /\ reader = "job" => JobLine(lines[i])
                 /\ reader # "job" => ClientLine(lines[i])
<1> DEFINE S == IF reader = "job" THEN JobLines ELSE ClientLines
           n == Len(lines)
<1>1. lines \in Seq(S)
  BY DEF FileInv
<1> HIDE DEF S
<1>2. n \in Nat /\ DOMAIN lines = 1 .. n /\ \A i \in 1 .. n : lines[i] \in S
  BY <1>1, LenProperties, ElementOfSeq
<1> HIDE DEF n
<1>3. Texts = [i \in 1 .. n |-> lines[i].text]
  BY <1>2 DEF Texts
<1>4. \A i \in 1 .. n : lines[i] \in JobLines \cup ClientLines
  BY <1>2 DEF S
<1>5. \A i \in 1 .. n : lines[i].text \in Seq(Character) \ {<<>>}
  BY <1>4, CommandLoopsAssumption
<1>6. \A i \in 1 .. n : /\ reader = "job" => JobLine(lines[i])
                        /\ reader # "job" => ClientLine(lines[i])
  BY <1>2, CommandLinesAssumption DEF S
<1>7. Texts \in [1 .. n -> Seq(Character)]
  BY <1>3, <1>5
<1>8. Texts \in Seq(Seq(Character)) /\ Len(Texts) = n
  <2>1. Texts \in Seq(Seq(Character))
    BY <1>2, <1>7, SeqDef
  <2>2. Len(Texts) \in Nat /\ DOMAIN Texts = 1 .. Len(Texts)
    BY <2>1, LenProperties
  <2> QED
    BY <1>2, <1>7, <2>1, <2>2
<1>9. Texts \in Seq(Seq(Symbol))
  <2>1. Seq(Character) \subseteq Seq(Symbol)
    BY WordsAre DEF Symbol
  <2> QED
    BY <1>8, <2>1, WordsAre
<1>10. \A i \in 1 .. n : Texts[i] = lines[i].text
  BY <1>3
<1> QED
  BY <1>2, <1>5, <1>6, <1>8, <1>9, <1>10 DEF n

\* The whole file is cut into its lines.
LEMMA FileCut ==
    ASSUME TextInv, FileInv
    PROVE  1 \in Place /\ \E e : Cut(e, Texts, 1, Job!End)
<1>1. Job!End \in Nat \ {0} /\ Job!End = Len(text) + 1
  BY Places
<1>2. 1 \in Place
  BY <1>1 DEF Place
<1>3. text \in Seq(Symbol) /\ Len(text) \in Nat
  BY WordsAre, LenProperties DEF TextInv, Symbol
<1>4. Spells(text, 1, Job!End)
  <2>1. Job!End = 1 + Len(text) /\ Job!End <= Job!End
    BY <1>1, <1>3
  <2>2. \A i \in 1 .. Len(text) : text[1 + i - 1] = text[i]
    OBVIOUS
  <2> QED
    BY <1>3, <2>1, <2>2 DEF Spells
<1>5. Spells(FlattenSeq(Texts), 1, Job!End)
  BY <1>4 DEF FileInv
<1>6. Texts \in Seq(Seq(Symbol))
  BY LinesAre
<1>7. \E e : Cut(e, Texts, 1, Job!End)
  BY <1>2, <1>5, <1>6, SpellsFlatten
<1> QED
  BY <1>2, <1>7

\* The next line, where the file is cut.
LEMMA NextLine ==
    ASSUME TextInv, FileInv, NEW e, Cut(e, Texts, 1, Job!End),
           NEW n \in Nat, n < Len(lines)
    PROVE  /\ e[n] \in Place /\ e[n + 1] \in Place /\ e[n] < e[n + 1]
           /\ e[n] < Job!End
           /\ Contained(n + 1) => LineAt(lines[n + 1], e[n], e[n + 1])
<1>1. /\ Len(lines) \in Nat /\ Len(Texts) = Len(lines)
      /\ n + 1 \in 1 .. Len(lines) /\ (n + 1) - 1 = n
  BY LinesAre
<1> DEFINE l == lines[n + 1]
<1>2. Texts[n + 1] = l.text /\ l.text \in Seq(Character) \ {<<>>}
  BY <1>1, LinesAre
<1>3. /\ e \in [0 .. Len(lines) -> Place] /\ e[Len(lines)] = Job!End
      /\ \A k \in 1 .. Len(lines) : Spells(Texts[k], e[k - 1], e[k])
  BY <1>1 DEF Cut
<1>4. e[n] \in Place /\ e[n + 1] \in Place /\ Spells(l.text, e[n], e[n + 1])
  <2>1. n \in 0 .. Len(lines) /\ n + 1 \in 0 .. Len(lines)
    BY <1>1
  <2>2. Spells(Texts[n + 1], e[(n + 1) - 1], e[n + 1])
    BY <1>1, <1>3
  <2> QED
    BY <1>1, <1>2, <1>3, <2>1, <2>2
<1> HIDE DEF l
<1>5. e[n + 1] = e[n] + Len(l.text) /\ Len(l.text) > 0
  BY <1>2, <1>4, EmptySeq, LenProperties DEF Spells
<1>6. /\ e[n] \in Nat /\ e[n + 1] \in Nat /\ Len(l.text) \in Nat
      /\ Job!End \in Nat /\ e[n + 1] <= Job!End
  BY <1>2, <1>4, LenProperties, Places DEF Place
<1>7. e[n] < e[n + 1] /\ e[n] < Job!End
  BY <1>5, <1>6
<1>8. ASSUME Contained(n + 1) PROVE LineAt(l, e[n], e[n + 1])
  <2>1. n + 1 = Len(lines) \/ Last(l.text) = "\n"
    BY <1>8 DEF Contained, Complete, l
  <2>2. n + 1 = Len(lines) => e[n + 1] = Job!End
    BY <1>3
  <2> QED
    BY <1>2, <1>4, <2>1, <2>2 DEF LineAt
<1> QED
  BY <1>4, <1>7, <1>8 DEF l

\* Only the end of the file ends run_job's loop.
LEMMA EndOfCommands ==
    ASSUME TextInv, NEW p \in Place, Job!get_next(p).cmd = "EOC"
    PROVE  p = Job!End
<1>1. CASE Job!Char(p) = Job!EndOfFile
  BY <1>1, Places DEF Place
<1>2. CASE Job!Char(p) # Job!EndOfFile
  <2>1. Job!get_next(p) = Job!Command(p)
    BY <1>2 DEF Job!get_next
  <2>2. \A q : Job!Invalid(q).cmd # "EOC"
    BY DEF Job!Invalid, Job!Token
  <2>3. \A cmd, q : Job!Token(cmd, q).cmd = cmd
    BY DEF Job!Token
  <2>4. \A word, cmd : cmd # "EOC" => Job!Keyword(word, cmd, p).cmd # "EOC"
    BY <2>2, <2>3 DEF Job!Keyword
  <2>5. \A word, cmd : cmd # "EOC" => Job!Alone(word, cmd, p).cmd # "EOC"
    BY <2>2, <2>3 DEF Job!Alone
  <2>6. Job!Command(p).cmd # "EOC"
    BY <2>2, <2>3, <2>4, <2>5 DEF Job!Command
  <2> QED
    BY <2>1, <2>6
<1> QED
  BY <1>1, <1>2

\* And it does end it: run_job's loop is left at an EOC, where it stands.
LEMMA LoopEnds ==
    ASSUME Next, reader = "job", ~ended, ended'
    PROVE  JobToken.cmd = "EOC" /\ pos' = pos
<1>1. ~JobWrite /\ ~JobReadDelete /\ ~JobWait /\ ~JobPlain
  BY DEF JobWrite, JobReadDelete, JobWait, JobPlain, Parsed
<1>2. ~ClientKey /\ ~ClientDelay /\ ~ClientPlain /\ ~ClientDisconnect
      /\ ~ClientEndOfInput /\ ~Ended
  BY DEF ClientKey, ClientDelay, ClientPlain, ClientDisconnect,
         ClientEndOfInput, Ended, ClientFinds
<1>3. JobEnd
  BY <1>1, <1>2 DEF Next
<1> QED
  BY <1>3 DEF JobEnd, JobFinds

\* When the loop has been left nothing changes.
LEMMA NoMore == ASSUME Next, ended PROVE UNCHANGED vars
<1>1. ~JobWrite /\ ~JobReadDelete /\ ~JobWait /\ ~JobPlain /\ ~JobEnd
  BY DEF JobWrite, JobReadDelete, JobWait, JobPlain, JobEnd, JobFinds
<1>2. ~ClientKey /\ ~ClientDelay /\ ~ClientPlain /\ ~ClientDisconnect
      /\ ~ClientEndOfInput
  BY DEF ClientKey, ClientDelay, ClientPlain, ClientDisconnect,
         ClientEndOfInput, ClientFinds
<1> QED
  BY <1>1, <1>2 DEF Next, Ended

\* A turn is taken by a loop that goes on, and not at the end of the file.
LEMMA TurnTaken ==
    ASSUME IInv, Next
    PROVE  \/ UNCHANGED <<reader, lines, text, pos, log>>
           \/ /\ ~ended /\ pos < Job!End
              /\ \E op, args, next : Turn(op, args, next)
<1>1. CASE ended
  BY <1>1, NoMore DEF vars
<1>2. CASE ~ended
  <2>1. CASE UNCHANGED <<reader, lines, text, pos, log>>
    BY <2>1
  <2>2. ASSUME NEW op \in Ops, Turned(op)
        PROVE  ~ended /\ pos < Job!End /\ \E o, args, next : Turn(o, args, next)
    <3>1. pos' \in pos + 1 .. Job!End
      BY <2>2 DEF Turned
    <3>2. pos \in Nat /\ Job!End \in Nat
      BY Places DEF IInv
    <3>3. pos < Job!End
      BY <3>1, <3>2
    <3>4. PICK e \in Entry : log' = Append(log, e)
      BY <2>2 DEF Turned
    <3>5. log' # log
      <4>1. log \in Seq(Entry)
        BY DEF IInv
      <4>2. Len(log') = Len(log) + 1 /\ Len(log) \in Nat
        BY <3>4, <4>1, AppendProperties, LenProperties
      <4> QED
        BY <4>2
    <3>6. \E o, args, next : Turn(o, args, next)
      BY <3>5, TurnsAreReal
    <3> QED
      BY <1>2, <3>3, <3>6
  <2>3. \/ UNCHANGED <<reader, lines, text, pos, log>>
        \/ \E op \in Ops : Turned(op)
    BY Steps
  <2> QED
    BY <2>1, <2>2, <2>3
<1> QED
  BY <1>1, <1>2

\* Where the file is cut does not change.
LEMMA CutStays ==
    ASSUME UNCHANGED <<lines, text>>, NEW CONSTANT e
    PROVE  /\ Cut(e, Texts, 1, Job!End)' <=> Cut(e, Texts, 1, Job!End)
           /\ Texts' = Texts /\ Job!End' = Job!End
<1>1. Texts' = Texts /\ Job!End' = Job!End
  BY DEF Texts, Job!End
<1>2. Place' = Place
  BY <1>1 DEF Place
<1>3. \A w, p, q : Spells(w, p, q)' <=> Spells(w, p, q)
  BY <1>1 DEF Spells
<1> QED
  BY <1>1, <1>2, <1>3 DEF Cut

\* Before the first turn no line has been read.
LEMMA InitProgress == Init => Progress
<1> SUFFICES ASSUME Init PROVE Progress
  OBVIOUS
<1>1. FileInv
  <2>1. lines \in Seq(IF reader = "job" THEN JobLines ELSE ClientLines)
    <3>1. CASE reader = "job" /\ lines \in SeqOf(JobLines, MaxLines)
      <4>1. PICK m \in 0 .. MaxLines : lines \in [1 .. m -> JobLines]
        BY <3>1 DEF SeqOf
      <4>2. m \in Nat
        BY CommandLoopsAssumption
      <4> QED
        BY <3>1, <4>1, <4>2, SeqDef
    <3>2. CASE reader = "client" /\ lines \in SeqOf(ClientLines, MaxLines)
      <4>1. PICK m \in 0 .. MaxLines : lines \in [1 .. m -> ClientLines]
        BY <3>2 DEF SeqOf
      <4>2. m \in Nat
        BY CommandLoopsAssumption
      <4> QED
        BY <3>2, <4>1, <4>2, SeqDef
    <3> QED
      BY <3>1, <3>2 DEF Init
  <2> QED
    BY <2>1 DEF Init, FileInv, Texts
<1>2. TextInv
  BY InitIInv DEF IInv
<1>3. PICK e : Cut(e, Texts, 1, Job!End)
  BY <1>1, <1>2, FileCut
<1>4. log = <<>> /\ pos = 1 /\ ~ended
  BY DEF Init
<1>5. Len(log) = 0 /\ DOMAIN log = {}
  BY <1>4
<1>6. e[0] = 1 /\ Len(lines) \in Nat
  BY <1>1, <1>3, LinesAre DEF Cut
<1>7. ProgressFrom(e)
  BY <1>3, <1>4, <1>5, <1>6 DEF ProgressFrom
<1> QED
  BY <1>1, <1>7 DEF Progress

\* A step that is no turn,
LEMMA NoTurn ==
    ASSUME IInv, [Next]_vars, UNCHANGED <<reader, lines, text, pos, log>>,
           FileInv, NEW CONSTANT e, ProgressFrom(e)
    PROVE  ProgressFrom(e)'
<1>1. Cut(e, Texts, 1, Job!End)' /\ Job!End' = Job!End
  BY CutStays DEF ProgressFrom
<1>2. \A i : TameUpTo(i)' <=> TameUpTo(i)
  BY DEF TameUpTo, Contained, Complete, Letters
<1>3. \A i : CarriedOut(i)' <=> CarriedOut(i)
  BY DEF CarriedOut
<1>4. (\A i \in DOMAIN log : TameUpTo(i) => CarriedOut(i))'
  BY <1>2, <1>3 DEF ProgressFrom
<1>5. (TameUpTo(Len(log)) => Len(log) <= Len(lines) /\ pos = e[Len(log)])'
  BY <1>2 DEF ProgressFrom
<1>6. (ended /\ reader = "job" => pos = Job!End)'
  <2>1. CASE ended
    BY <1>1, <2>1 DEF ProgressFrom
  <2>2. CASE ~ended
    <3> SUFFICES ASSUME ended', reader = "job" PROVE pos = Job!End
      BY <1>1
    <3>1. Next
      BY <2>2 DEF vars
    <3>2. JobToken.cmd = "EOC"
      BY <2>2, <3>1, LoopEnds
    <3> QED
      BY <3>2, EndOfCommands DEF IInv, JobToken
  <2> QED
    BY <2>1, <2>2
<1> QED
  BY <1>1, <1>4, <1>5, <1>6 DEF ProgressFrom

\* and a turn: it carries out the next line, if that cannot disturb another.
LEMMA TurnCarriesOut ==
    ASSUME IInv, Next, ~ended, pos < Job!End, FileInv,
           NEW CONSTANT e, ProgressFrom(e), TameUpTo(Len(log) + 1)
    PROVE  LET n == Len(log)
           IN  /\ n + 1 \in DOMAIN lines
               /\ Turn(lines[n + 1].op, lines[n + 1].args, e[n + 1])
<1> DEFINE n == Len(log)
           l == lines[n + 1]
<1>1. n \in Nat /\ pos \in Place /\ TextInv /\ reader \in {"job", "client"}
  BY LenProperties DEF IInv
<1>2. Len(lines) \in Nat /\ DOMAIN lines = 1 .. Len(lines)
      /\ Len(Texts) = Len(lines)
  BY LinesAre
<1>3. TameUpTo(n)
  <2>1. 1 .. n \subseteq 1 .. n + 1
    BY <1>1
  <2> QED
    BY <2>1 DEF TameUpTo
<1>4. n <= Len(lines) /\ pos = e[n]
  BY <1>3 DEF ProgressFrom
<1>5. n # Len(lines)
  <2>1. e[Len(lines)] = Job!End
    BY <1>2 DEF ProgressFrom, Cut
  <2>2. pos \in Nat /\ Job!End \in Nat
    BY <1>1, Places
  <2> QED
    BY <1>4, <2>1, <2>2
<1>6. n < Len(lines) /\ n + 1 \in DOMAIN lines /\ n + 1 \in 1 .. n + 1
  BY <1>1, <1>2, <1>4, <1>5
<1>7. Contained(n + 1)
  BY <1>6 DEF TameUpTo
<1>8. LineAt(l, pos, e[n + 1])
  <2>1. Cut(e, Texts, 1, Job!End)
    BY DEF ProgressFrom
  <2> QED
    BY <1>1, <1>4, <1>6, <1>7, <2>1, NextLine
<1>9. /\ reader = "job" => JobLine(l)
      /\ reader # "job" => ClientLine(l)
  BY <1>2, <1>6, LinesAre
<1>10. Tame(l, Letters)
  BY <1>7 DEF Contained, Tame
<1>11. Turn(l.op, l.args, e[n + 1])
  <2> HIDE DEF n, l
  <2>1. PICK line, next : line = l /\ next = e[n + 1]
    OBVIOUS
  <2>2. LineAt(line, pos, next) /\ Tame(line, Letters)
    BY <1>8, <1>10, <2>1
  <2>3. CASE reader = "job"
    <3>1. JobLine(line) /\ Tame(line, JobLetters)
      BY <1>9, <2>1, <2>2, <2>3 DEF Letters
    <3>2. JobTurn(line, next)
      BY <1>1, <2>2, <2>3, <3>1, JobLineCarriedOut
    <3> QED
      BY <2>1, <3>2 DEF JobTurn, CarriesOut
  <2>4. CASE reader # "job"
    <3>1. ClientLine(line) /\ Tame(line, ClientLetters) /\ reader = "client"
      BY <1>1, <1>9, <2>1, <2>2, <2>4 DEF Letters
    <3>2. CarriesOut(line, next)
      BY <1>1, <2>2, <3>1, ClientLineCarriedOut
    <3> QED
      BY <2>1, <3>2 DEF CarriesOut
  <2> QED
    BY <2>3, <2>4
<1> QED
  BY <1>6, <1>11

\* So a turn keeps the loop in step with the lines.
LEMMA TurnProgress ==
    ASSUME IInv, Next, ~ended, pos < Job!End, FileInv,
           NEW CONSTANT e, ProgressFrom(e),
           NEW op, NEW args, NEW next, Turn(op, args, next)
    PROVE  ProgressFrom(e)'
<1>0. PICK n : n = Len(log)
  OBVIOUS
<1> DEFINE entry == [from |-> pos, to |-> next, op |-> op, args |-> args]
<1>1. /\ log' = Append(log, entry) /\ pos' = next
      /\ UNCHANGED <<reader, lines, text>>
  BY DEF Turn
<1> HIDE DEF entry
<1>2. /\ n \in Nat /\ Len(log') = n + 1 /\ log'[n + 1] = entry
      /\ DOMAIN log = 1 .. n /\ DOMAIN log' = 1 .. n + 1
      /\ \A i \in 1 .. n : log'[i] = log[i]
  BY <1>0, <1>1, LenProperties, AppendProperties DEF IInv
<1>3. Cut(e, Texts, 1, Job!End)' /\ Job!End' = Job!End
  BY <1>1, CutStays DEF ProgressFrom
<1>4. \A i : TameUpTo(i)' <=> TameUpTo(i)
  BY <1>1 DEF TameUpTo, Contained, Complete, Letters
<1>5. TameUpTo(n + 1) =>
        /\ n + 1 \in DOMAIN lines
        /\ Turn(lines[n + 1].op, lines[n + 1].args, e[n + 1])
  BY <1>0, TurnCarriesOut
<1>6. TameUpTo(n + 1) => CarriedOut(n + 1)' /\ next = e[n + 1]
  <2> SUFFICES ASSUME TameUpTo(n + 1)
               PROVE  CarriedOut(n + 1)' /\ next = e[n + 1]
    OBVIOUS
  <2> DEFINE l == lines[n + 1]
             written == [from |-> pos, to |-> e[n + 1], op |-> l.op, args |-> l.args]
  <2>1. n + 1 \in DOMAIN lines /\ log' = Append(log, written) /\ pos' = e[n + 1]
    BY <1>5 DEF Turn
  <2>2. written.op = l.op /\ written.args = l.args
    OBVIOUS
  <2> HIDE DEF written
  <2>3. log'[n + 1] = written
    BY <1>0, <2>1, LenProperties, AppendProperties DEF IInv
  <2>4. log'[n + 1].op = l.op /\ log'[n + 1].args = l.args
    BY <2>2, <2>3
  <2> QED
    BY <1>1, <2>1, <2>4 DEF CarriedOut
<1>7. (\A i \in DOMAIN log : TameUpTo(i) => CarriedOut(i))'
  <2> SUFFICES ASSUME NEW i \in DOMAIN log', TameUpTo(i)' PROVE CarriedOut(i)'
    OBVIOUS
  <2>1. CASE i = n + 1
    BY <1>4, <1>6, <2>1
  <2>2. CASE i \in 1 .. n
    <3>1. CarriedOut(i)
      BY <1>2, <1>4, <2>2 DEF ProgressFrom
    <3>2. log'[i] = log[i]
      BY <1>2, <2>2
    <3> QED
      BY <1>1, <3>1, <3>2 DEF CarriedOut
  <2> QED
    BY <1>2, <2>1, <2>2
<1>8. (TameUpTo(Len(log)) => Len(log) <= Len(lines) /\ pos = e[Len(log)])'
  <2> SUFFICES ASSUME TameUpTo(n + 1)
               PROVE  n + 1 <= Len(lines) /\ next = e[n + 1]
    BY <1>1, <1>2, <1>4
  <2>1. n + 1 \in 1 .. Len(lines)
    BY <1>5, LinesAre
  <2> QED
    BY <1>6, <2>1
<1>9. ~(ended' /\ reader = "job")
  <2> SUFFICES ASSUME ended', reader = "job" PROVE FALSE
    OBVIOUS
  <2>1. JobToken.cmd = "EOC"
    BY LoopEnds
  <2>2. pos = Job!End
    BY <2>1, EndOfCommands DEF IInv, JobToken
  <2> QED
    BY <2>2, Places DEF IInv
<1> QED
  BY <1>1, <1>3, <1>7, <1>8, <1>9 DEF ProgressFrom

\* Every step keeps it so.
LEMMA NextProgress == IInv /\ Progress /\ [Next]_vars => Progress'
<1> SUFFICES ASSUME IInv, Progress, [Next]_vars PROVE Progress'
  OBVIOUS
<1>1. PICK e : ProgressFrom(e)
  BY DEF Progress
<1>2. FileInv
  BY DEF Progress
<1>3. UNCHANGED <<reader, lines, text>> => FileInv'
  BY <1>2 DEF FileInv, Texts
<1>4. CASE UNCHANGED <<reader, lines, text, pos, log>>
  BY <1>1, <1>2, <1>3, <1>4, NoTurn DEF Progress
<1>5. ASSUME ~ended, pos < Job!End, Next,
             NEW op, NEW args, NEW next, Turn(op, args, next)
      PROVE  Progress'
  <2>1. FileInv'
    BY <1>3, <1>5 DEF Turn
  <2>2. ProgressFrom(e)'
    BY <1>1, <1>2, <1>5, TurnProgress
  <2> QED
    BY <2>1, <2>2 DEF Progress
<1> QED
  BY <1>4, <1>5, TurnTaken DEF vars

\* As long as no line is mistyped beyond its first letter, the loops carry out
\* the lines of the file, each once, in order, with the arguments written
\* there; and run_job does not stop before the last of them.
THEOREM LinesAreCarriedOut == Spec => []LinesAreRun
<1>1. IInv /\ Progress => LinesAreRun
  <2> SUFFICES ASSUME IInv, Progress PROVE LinesAreRun
    OBVIOUS
  <2>1. PICK e : ProgressFrom(e)
    BY DEF Progress
  <2>2. FileInv /\ TextInv /\ Len(log) \in Nat
    BY LenProperties DEF Progress, IInv
  <2>3. Len(lines) \in Nat /\ DOMAIN lines = 1 .. Len(lines)
        /\ Len(Texts) = Len(lines)
    BY <2>2, LinesAre
  <2>4. ASSUME ended, reader = "job", ContainedUpTo(Len(lines))
        PROVE  Len(log) = Len(lines)
    <3>1. TameUpTo(Len(log))
      BY <2>3, <2>4 DEF TameUpTo, ContainedUpTo
    <3>2. Len(log) <= Len(lines) /\ e[Len(log)] = Job!End
      BY <2>1, <2>4, <3>1 DEF ProgressFrom
    <3>3. Cut(e, Texts, 1, Job!End)
      BY <2>1 DEF ProgressFrom
    <3>4. ~(Len(log) < Len(lines))
      <4> SUFFICES ASSUME Len(log) < Len(lines) PROVE FALSE
        OBVIOUS
      <4>1. e[Len(log)] < Job!End
        BY <2>2, <3>3, NextLine
      <4> QED
        BY <2>2, <3>2, <4>1, Places
    <3> QED
      BY <2>2, <2>3, <3>2, <3>4
  <2>5. \A i \in DOMAIN log : TameUpTo(i) => CarriedOut(i)
    BY <2>1 DEF ProgressFrom
  <2> QED
    BY <2>4, <2>5 DEF LinesAreRun, TameUpTo, CarriedOut
<1> QED
  BY <1>1, Invariance, InitProgress, NextProgress, PTL DEF Spec
=============================================================================
