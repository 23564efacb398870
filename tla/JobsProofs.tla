------------------------------ MODULE JobsProofs ------------------------------
(***************************************************************************)
(* Proofs about Jobs, for any number of threads and any directory.         *)
(*                                                                         *)
(* The job phase takes the steps of Backups, so what BackupsProofs has     *)
(* proved of the admission of backups holds in it (ImplementsBackups).     *)
(*                                                                         *)
(* JobsRunOnce needs to know of every job file where it is: still ahead in *)
(* the directory, under way in the hands of one thread, started, or lost.  *)
(***************************************************************************)
EXTENDS Jobs, SequenceTheorems, TLAPS

AdmissionProofs == INSTANCE BackupsProofs

\* directory_mutex is held from the lock to the unlock, by its owner.
MutexInv ==
    \A t \in Threads :
       jpc[t] \in {"readdir", "copy", "unlock", "leave"} <=> directory_mutex = t

\* A thread with a name from readdir that it has not looked at.
Copying == \E t \in Threads : jpc[t] = "copy"

\* The entry at i of portion c has not been looked at.
ToCome(c, i) ==
    c > chunk \/ (c = chunk /\ (i >= slot \/ (i = slot - 1 /\ Copying)))

\* The job files that are still to be found in the directory.
Ahead ==
    {f \in JobFiles : \E c \in DOMAIN Chunks : \E i \in DOMAIN Chunks[c] :
                         Chunks[c][i] = f /\ ToCome(c, i)}

\* The buffer holds the portion read last, some of its names cut off.
StreamInv ==
    /\ chunk = 0 => slot = 1
    /\ chunk > 0 =>
          /\ slot \in 2 .. Len(Chunks[chunk]) + 1
          /\ Len(buffer) >= Len(Chunks[chunk])
          /\ \A i \in DOMAIN Chunks[chunk] :
                buffer[i] \in {Chunks[chunk][i], CutOff(Chunks[chunk][i])}

\* The pointer that a thread keeps is to its job's name, until a refill.
EntryInv ==
    \A t \in Threads :
       /\ jpc[t] = "copy" => chunk > 0 /\ entry[t] = slot - 1
       /\ jpc[t] \in {"unlock", "open", "run"} =>
             /\ chunk > 0 /\ entry[t] \in 1 .. Len(buffer)
             /\ chunk = 1 => /\ entry[t] \in DOMAIN Chunks[1]
                             /\ Chunks[1][entry[t]] = in_path[t]

\* A job a thread has found and not yet opened.
Pending(t) == jpc[t] \in {"unlock", "open"}

\* No job is in two places.
PlaceInv ==
    /\ \A f \in JobFiles : started[f] <= 1
    /\ \A f \in Ahead : started[f] = 0
    /\ \A t \in Threads :
          /\ Pending(t) => in_path[t] \notin Ahead /\ started[in_path[t]] = 0
          /\ jpc[t] = "run" => started[in_path[t]] = 1
          /\ jpc[t] \in {"unlock", "open", "run", "failed"} =>
                in_path[t] \in JobFiles
    /\ \A t, u \in Threads :
          Pending(t) /\ Pending(u) /\ in_path[t] = in_path[u] => t = u

\* A name that a backup of another job may have cut before it was read.
Lost(f) == Len(Chunks) > 1 /\ f \in cut

\* No job is nowhere.
CoverInv ==
    \A f \in JobFiles :
       \/ f \in Ahead \/ started[f] = 1 \/ Lost(f) \/ ~PathFits(f)
       \/ \E t \in Threads :
             jpc[t] \in {"unlock", "open", "failed"} /\ in_path[t] = f

\* A job file in the buffer that is still ahead has its name, or is lost.
CutInv ==
    chunk > 0 =>
       \A i \in DOMAIN Chunks[chunk] :
          Chunks[chunk][i] \in Ahead =>
             buffer[i] = Chunks[chunk][i] \/ Lost(Chunks[chunk][i])

\* A thread leaves the loop when nothing is left.
EndInv ==
    \A t \in Threads : jpc[t] \in {"leave", "exit"} => Ahead = {}

\* The two program counters of a thread agree.
AdmissionInv ==
    \A t \in Threads :
       /\ bpc[t] = "done" <=> jpc[t] \in {"exit", "failed"}
       /\ jpc[t] \notin {"run", "exit", "failed"} => bpc[t] = "idle"

\* file_backups counts the BACKUP commands that have been carried out.
CommandInv ==
    \A t \in Threads :
       jpc[t] = "run" =>
          /\ file_backups[t] + commands[t] = BackupsIn[in_path[t]]
          /\ bpc[t] # "idle" => commands[t] > 0

\* What %s may print: it holds no dot.
Tokens == Seq(Characters \ {Dot})

\* The backup numbered n of a job, when `token' is what strtok found.
Backed(job, token, n) ==
    [job |-> job, nth |-> n, file |-> Printed(BackupPath(token, n)),
     whole |-> NumberIsWhole(BackupPath(token, n))]

\* So the number in a file's name is that of the command, and the token is
\* the job's own until a refill.
WrittenInv ==
    \A b \in written :
       \E token \in Tokens :
          /\ b = Backed(b.job, token, b.nth) /\ b.nth \in 1 .. MostBackups
          /\ chunk <= 1 => token = Token(b.job)

\* What Backups keeps, as far as it is needed here.
Admitted == Admission!TypeOK /\ (mainpc # "join" => \A t \in Threads : bpc[t] = "done")

IInv ==
    /\ TypeOK
    /\ MutexInv
    /\ StreamInv
    /\ EntryInv
    /\ PlaceInv
    /\ CoverInv
    /\ CutInv
    /\ EndInv
    /\ AdmissionInv
    /\ CommandInv
    /\ WrittenInv

-----------------------------------------------------------------------------
\* Seen from the admission of backups, the job phase is Backups.
LEMMA AdmissionSteps == [Next]_vars => [Admission!Next]_(Admission!vars)
<1> SUFFICES ASSUME [Next]_vars PROVE [Admission!Next]_(Admission!vars)
  OBVIOUS
<1> USE DEF admissionVars, Admission!vars
<1>1. CASE UNCHANGED vars
  BY <1>1 DEF vars
<1>2. CASE Others
  BY <1>2 DEF Others, Admission!Next
<1>3. ASSUME NEW t \in Threads, JobThread(t)
      PROVE  [Admission!Next]_(Admission!vars)
  <2>1. CASE \/ Lock(t) \/ ReadNext(t) \/ Refill(t) \/ EndOfDirectory(t)
             \/ CopyName(t) \/ Unlock(t) \/ Open(t) \/ EndOfJob(t)
    BY <2>1 DEF Lock, ReadNext, Refill, EndOfDirectory, CopyName, Unlock, Open,
                EndOfJob
  <2>2. CASE Leave(t) \/ OpenFails(t)
    BY <2>2 DEF Leave, OpenFails, Admission!Next
  <2>3. CASE Backup(t) \/ Admit(t) \/ KvsBackup(t)
    BY <2>3 DEF Backup, Admit, KvsBackup, Admission!Next, Admission!Backup
  <2> QED
    BY <1>3, <2>1, <2>2, <2>3 DEF JobThread
<1> QED
  BY <1>1, <1>2, <1>3 DEF Next

\* Every behaviour of the job phase is one of Backups.
THEOREM ImplementsBackups == Spec => Admission!Spec
<1>1. Init => Admission!Init
  BY DEF Init
<1> QED
  BY <1>1, AdmissionSteps, PTL DEF Spec, Admission!Spec

\* The copy of Backups that BackupsProofs extends is the one that Jobs uses.
LEMMA SameBackups ==
    /\ Admission!Init => AdmissionProofs!Init
    /\ [Admission!Next]_(Admission!vars)
          => [AdmissionProofs!Next]_(AdmissionProofs!vars)
    /\ Admission!TypeOK <=> AdmissionProofs!TypeOK
    /\ Admission!CountAccountsForChildren
          <=> AdmissionProofs!CountAccountsForChildren
    /\ Admission!ReapedBeforeServing <=> AdmissionProofs!ReapedBeforeServing
<1>1. Admission!Init => AdmissionProofs!Init
  BY DEF Admission!Init, AdmissionProofs!Init
<1>2. \A t \in Threads :
         /\ Admission!Backup(t) => AdmissionProofs!Backup(t)
         /\ Admission!Finish(t) => AdmissionProofs!Finish(t)
  BY DEF Admission!Goto, AdmissionProofs!Goto,
         Admission!AtLimit, AdmissionProofs!AtLimit,
         Admission!Lock, AdmissionProofs!Lock,
         Admission!Check, AdmissionProofs!Check,
         Admission!Count, AdmissionProofs!Count,
         Admission!WaitReap, AdmissionProofs!WaitReap,
         Admission!WaitNoChild, AdmissionProofs!WaitNoChild,
         Admission!Unlock, AdmissionProofs!Unlock,
         Admission!Fork, AdmissionProofs!Fork,
         Admission!ForkFails, AdmissionProofs!ForkFails,
         Admission!Backup, AdmissionProofs!Backup,
         Admission!Finish, AdmissionProofs!Finish
<1>3. /\ Admission!ChildExit => AdmissionProofs!ChildExit
      /\ Admission!Main => AdmissionProofs!Main
  BY DEF Admission!ChildExit, AdmissionProofs!ChildExit,
         Admission!MainJoin, AdmissionProofs!MainJoin,
         Admission!MainReap, AdmissionProofs!MainReap,
         Admission!MainServe, AdmissionProofs!MainServe,
         Admission!Main, AdmissionProofs!Main
<1>4. [Admission!Next]_(Admission!vars)
         => [AdmissionProofs!Next]_(AdmissionProofs!vars)
  BY <1>2, <1>3 DEF Admission!Next, AdmissionProofs!Next,
                    Admission!vars, AdmissionProofs!vars
<1>5. Admission!TypeOK <=> AdmissionProofs!TypeOK
  BY DEF Admission!TypeOK, AdmissionProofs!TypeOK,
         Admission!BackupPCs, AdmissionProofs!BackupPCs
<1>6. Admission!CountAccountsForChildren
         <=> AdmissionProofs!CountAccountsForChildren
  BY DEF Admission!CountAccountsForChildren,
         AdmissionProofs!CountAccountsForChildren,
         Admission!InFlight, AdmissionProofs!InFlight,
         Admission!Excess, AdmissionProofs!Excess,
         Admission!Cardinality, AdmissionProofs!Cardinality
<1>7. Admission!ReapedBeforeServing <=> AdmissionProofs!ReapedBeforeServing
  BY DEF Admission!ReapedBeforeServing, AdmissionProofs!ReapedBeforeServing,
         Admission!Excess, AdmissionProofs!Excess,
         Admission!Cardinality, AdmissionProofs!Cardinality
<1> QED
  BY <1>1, <1>4, <1>5, <1>6, <1>7

\* So what is proved of the admission of backups holds of the job phase.
LEMMA AdmissionHolds ==
    Spec => /\ []Admitted
            /\ []Admission!CountAccountsForChildren
            /\ []Admission!ReapedBeforeServing
<1>1. AdmissionProofs!IsFiniteSet(Threads)
  BY JobsAssumption DEF IsFiniteSet, AdmissionProofs!IsFiniteSet
<1>2. AdmissionProofs!Spec => []AdmissionProofs!IInv
  BY AdmissionProofs!Invariance, JobsAssumption, <1>1, PTL
<1>3. AdmissionProofs!Spec => []AdmissionProofs!CountAccountsForChildren
  BY AdmissionProofs!ChildrenAreCounted, JobsAssumption, <1>1, PTL
<1>4. AdmissionProofs!Spec => []AdmissionProofs!ReapedBeforeServing
  BY AdmissionProofs!ReapingIsComplete, JobsAssumption, <1>1, PTL
<1>5. AdmissionProofs!IInv => Admitted
  BY SameBackups DEF AdmissionProofs!IInv, AdmissionProofs!PhaseInv, Admitted
<1>6. Spec => AdmissionProofs!Spec
  BY ImplementsBackups, SameBackups, PTL DEF Admission!Spec, AdmissionProofs!Spec
<1> QED
  BY <1>2, <1>3, <1>4, <1>5, <1>6, SameBackups, PTL

\* The accounting of children, carried over: in the job phase too the counter
\* accounts for every child and every fork to come.
THEOREM ChildrenAreCounted == Spec => []Admission!CountAccountsForChildren
BY AdmissionHolds, PTL

\* And when main serves, no backup that was counted is left unreaped, but for
\* those that the threads beyond the limit may add.
THEOREM ReapingIsComplete == Spec => []Admission!ReapedBeforeServing
BY AdmissionHolds, PTL

-----------------------------------------------------------------------------
(* The directory. *)

LEMMA Directory ==
    /\ Len(Chunks) \in Nat /\ DOMAIN Chunks = 1 .. Len(Chunks)
    /\ \A c \in DOMAIN Chunks :
          /\ Chunks[c] \in Seq(Name) /\ Len(Chunks[c]) \in Nat \ {0}
          /\ DOMAIN Chunks[c] = 1 .. Len(Chunks[c])
          /\ \A i \in DOMAIN Chunks[c] :
                /\ Chunks[c][i] \in Name
                /\ IsJob(Chunks[c][i]) => Chunks[c][i] \in JobFiles
<1>1. Chunks \in Seq(Seq(Name) \ {<<>>})
  BY JobsAssumption
<1>2. Len(Chunks) \in Nat /\ DOMAIN Chunks = 1 .. Len(Chunks)
  BY <1>1, LenProperties
<1>3. ASSUME NEW c \in DOMAIN Chunks
      PROVE  /\ Chunks[c] \in Seq(Name) /\ Len(Chunks[c]) \in Nat \ {0}
             /\ DOMAIN Chunks[c] = 1 .. Len(Chunks[c])
             /\ \A i \in DOMAIN Chunks[c] : Chunks[c][i] \in Name
  <2>1. Chunks[c] \in Seq(Name) \ {<<>>}
    BY <1>1, <1>2, <1>3, ElementOfSeq
  <2> QED
    BY <2>1, EmptySeq, LenProperties
<1>4. ASSUME NEW c \in DOMAIN Chunks, NEW i \in DOMAIN Chunks[c],
             IsJob(Chunks[c][i])
      PROVE  Chunks[c][i] \in JobFiles
  BY <1>4 DEF JobFiles, Entries
<1> QED
  BY <1>2, <1>3, <1>4

\* No name is in the directory twice.
LEMMA OneEntry ==
    ASSUME NEW c \in DOMAIN Chunks, NEW d \in DOMAIN Chunks,
           NEW i \in DOMAIN Chunks[c], NEW j \in DOMAIN Chunks[d],
           Chunks[c][i] = Chunks[d][j]
    PROVE  c = d /\ i = j
<1>1. \A e, f \in DOMAIN Chunks :
         \A k \in DOMAIN Chunks[e], l \in DOMAIN Chunks[f] :
            Chunks[e][k] = Chunks[f][l] => e = f /\ k = l
  BY JobsAssumption
<1> QED
  BY <1>1

\* How many BACKUP commands a job holds.
LEMMA BackupsKnown ==
    ASSUME NEW f \in JobFiles
    PROVE  BackupsIn[f] \in Nat /\ BackupsIn[f] <= MostBackups /\ MostBackups \in Nat
<1>1. BackupsIn \in [JobFiles -> 0 .. MostBackups] /\ MostBackups \in Nat
  BY JobsAssumption
<1> QED
  BY <1>1

\* strtok finds the token that it found before.
LEMMA CutIsName ==
    ASSUME NEW name \in Name
    PROVE  /\ CutOff(name) \in Name
           /\ Token(CutOff(name)) = Token(name) /\ Token(name) \in Tokens
           /\ CutOff(CutOff(name)) = CutOff(name)
<1> DEFINE Records == [dots : Seq({Dot}), stem : Seq(Characters \ {Dot}), rest : Seq(Characters)]
<1>1. name \in Records
  BY DEF Name
<1>2. <<>> \in Seq(Characters)
  BY EmptySeq
<1>3. CutOff(name) \in Records /\ CutOff(name).rest = <<>> /\ CutOff(name).stem = name.stem
  BY <1>1, <1>2 DEF CutOff
<1>4. CutOff(name) \in Name
  BY <1>3 DEF Name
<1>5. CutOff(CutOff(name)) = CutOff(name)
  BY <1>1 DEF CutOff
<1>6. Token(name) \in Tokens
  <2>1. NullText \in Tokens
    BY JobsAssumption DEF Tokens
  <2>2. name.stem \in Tokens
    BY <1>1 DEF Tokens
  <2> QED
    BY <2>1, <2>2 DEF Token
<1> QED
  BY <1>3, <1>4, <1>5, <1>6 DEF Token

\* A name that strtok has cut is not that of a job any more.
LEMMA CutIsNoJob ==
    ASSUME NEW c \in DOMAIN Chunks, NEW i \in DOMAIN Chunks[c]
    PROVE  ~IsJob(CutOff(Chunks[c][i]))
<1>1. Chunks[c][i] \in Entries
  BY DEF Entries
<1>2. \A f \in Entries : ~IsJob(CutOff(f))
  BY JobsAssumption
<1> QED
  BY <1>1, <1>2

\* What is in the buffer, by slots.
LEMMA BufferTypes ==
    ASSUME TypeOK, StreamInv
    PROVE  /\ chunk \in Nat /\ slot \in Nat /\ slot >= 1 /\ Len(buffer) \in Nat
           /\ buffer \in Seq(Name) /\ DOMAIN buffer = 1 .. Len(buffer)
           /\ Filled \in Nat /\ slot <= Filled + 1 /\ Filled <= Len(buffer)
           /\ chunk > 0 => /\ chunk \in DOMAIN Chunks /\ slot - 1 \in 1 .. Filled
                           /\ Filled = Len(Chunks[chunk])
           /\ chunk = 0 => Filled = 0 /\ slot = 1
           /\ \A i \in 1 .. Len(buffer) : buffer[i] \in Name
<1>1. /\ chunk \in 0 .. Len(Chunks) /\ slot \in Nat /\ slot >= 1
      /\ buffer \in Seq(Name)
  BY DEF TypeOK
<1>2. Len(buffer) \in Nat /\ DOMAIN buffer = 1 .. Len(buffer)
  BY <1>1, LenProperties
<1>3. \A i \in 1 .. Len(buffer) : buffer[i] \in Name
  BY <1>1, ElementOfSeq
<1>4. Len(Chunks) \in Nat /\ chunk \in Nat
  BY <1>1, Directory
<1>5. CASE chunk = 0
  BY <1>1, <1>2, <1>3, <1>4, <1>5 DEF StreamInv, Filled
<1>6. CASE chunk > 0
  <2>1. chunk \in DOMAIN Chunks
    BY <1>1, <1>4, <1>6, Directory
  <2>2. Filled = Len(Chunks[chunk]) /\ Len(Chunks[chunk]) \in Nat
    BY <2>1, <1>6, Directory DEF Filled
  <2> QED
    BY <1>1, <1>2, <1>3, <1>4, <1>6, <2>1, <2>2 DEF StreamInv
<1> QED
  BY <1>4, <1>5, <1>6

\* The name a thread looks at: if it is that of a job, it is the entry it
\* was given, and that one was still to come.
LEMMA CopyFinds ==
    ASSUME IInv, NEW t \in Threads, jpc[t] = "copy"
    PROVE  /\ chunk \in DOMAIN Chunks /\ entry[t] = slot - 1
           /\ entry[t] \in DOMAIN Chunks[chunk] /\ entry[t] \in 1 .. Len(buffer)
           /\ buffer[entry[t]] \in Name
           /\ IsJob(buffer[entry[t]]) =>
                 /\ buffer[entry[t]] = Chunks[chunk][entry[t]]
                 /\ buffer[entry[t]] \in Ahead
<1>1. TypeOK /\ StreamInv /\ EntryInv
  BY DEF IInv
<1>2. chunk > 0 /\ entry[t] = slot - 1
  BY <1>1 DEF EntryInv
<1>3. /\ chunk \in DOMAIN Chunks /\ entry[t] \in DOMAIN Chunks[chunk]
      /\ entry[t] \in 1 .. Len(buffer) /\ buffer[entry[t]] \in Name
  BY <1>1, <1>2, BufferTypes, Directory
<1>4. ASSUME IsJob(buffer[entry[t]])
      PROVE  /\ buffer[entry[t]] = Chunks[chunk][entry[t]]
             /\ buffer[entry[t]] \in Ahead
  <2>1. buffer[entry[t]] \in {Chunks[chunk][entry[t]], CutOff(Chunks[chunk][entry[t]])}
    BY <1>1, <1>2, <1>3 DEF StreamInv
  <2>2. buffer[entry[t]] = Chunks[chunk][entry[t]]
    BY <1>3, <1>4, <2>1, CutIsNoJob, Directory
  <2>3. ToCome(chunk, entry[t])
    BY <1>2 DEF ToCome, Copying
  <2> QED
    BY <1>3, <1>4, <2>2, <2>3, Directory DEF Ahead
<1> QED
  BY <1>2, <1>3, <1>4


\* The portion that fills the buffer lies at its beginning.
LEMMA Refilling ==
    ASSUME TypeOK, NEW c \in DOMAIN Chunks,
           buffer' = Chunks[c] \o SubSeq(buffer, Len(Chunks[c]) + 1, Len(buffer))
    PROVE  /\ buffer' \in Seq(Name) /\ Len(buffer') \in Nat
           /\ Len(buffer') >= Len(Chunks[c]) /\ Len(buffer') >= Len(buffer)
           /\ \A i \in DOMAIN Chunks[c] : buffer'[i] = Chunks[c][i]
<1>1. Chunks[c] \in Seq(Name) /\ Len(Chunks[c]) \in Nat
      /\ DOMAIN Chunks[c] = 1 .. Len(Chunks[c])
  BY Directory
<1>2. buffer \in Seq(Name) /\ Len(buffer) \in Nat
  BY LenProperties DEF TypeOK
<1>3. \A i \in Len(Chunks[c]) + 1 .. Len(buffer) : buffer[i] \in Name
  BY <1>1, <1>2, ElementOfSeq
<1> DEFINE rest == SubSeq(buffer, Len(Chunks[c]) + 1, Len(buffer))
<1>4. /\ rest \in Seq(Name)
      /\ Len(rest) = IF Len(Chunks[c]) + 1 <= Len(buffer)
                     THEN Len(buffer) - (Len(Chunks[c]) + 1) + 1 ELSE 0
  BY <1>1, <1>2, <1>3, SubSeqProperties
<1>5. Len(rest) \in Nat
  BY <1>4, LenProperties
<1>6. buffer' = Chunks[c] \o rest
  OBVIOUS
<1> HIDE DEF rest
<1>7. /\ Chunks[c] \o rest \in Seq(Name)
      /\ Len(Chunks[c] \o rest) = Len(Chunks[c]) + Len(rest)
      /\ \A i \in 1 .. Len(Chunks[c]) + Len(rest) :
            (Chunks[c] \o rest)[i] =
               IF i <= Len(Chunks[c]) THEN Chunks[c][i]
               ELSE rest[i - Len(Chunks[c])]
  BY <1>1, <1>4, ConcatProperties
<1> QED
  BY <1>1, <1>2, <1>4, <1>5, <1>6, <1>7

\* strtok writes into one name of the buffer.
LEMMA Cutting ==
    ASSUME TypeOK, NEW t \in Threads, entry[t] \in 1 .. Len(buffer), Strtok(t)
    PROVE  /\ buffer' \in Seq(Name) /\ Len(buffer') = Len(buffer)
           /\ \A i \in 1 .. Len(buffer) :
                 buffer'[i] = IF i = entry[t] THEN CutOff(buffer[i]) ELSE buffer[i]
<1>1. buffer \in Seq(Name) /\ buffer[entry[t]] \in Name
  BY ElementOfSeq DEF TypeOK
<1> DEFINE short == CutOff(buffer[entry[t]])
<1>2. short \in Name
  BY <1>1, CutIsName
<1>3. buffer' = [buffer EXCEPT ![entry[t]] = short]
  BY DEF Strtok
<1> HIDE DEF short
<1>4. /\ buffer' \in Seq(Name) /\ Len(buffer') = Len(buffer)
      /\ \A i \in 1 .. Len(buffer) :
            buffer'[i] = IF i = entry[t] THEN short ELSE buffer[i]
  BY <1>1, <1>2, <1>3, ExceptSeq
<1> QED
  BY <1>4 DEF short

\* Only one thread at a time looks at a name.
LEMMA OneCopies ==
    ASSUME MutexInv, NEW t \in Threads, NEW u \in Threads,
           jpc[t] \in {"readdir", "copy", "unlock", "leave"},
           jpc[u] \in {"readdir", "copy", "unlock", "leave"}
    PROVE  t = u
BY DEF MutexInv

\* Looking at a name is the only step that takes one out of those ahead, and
\* it takes that one only.
LEMMA AheadShrinks ==
    ASSUME IInv, [Next]_vars
    PROVE  /\ Ahead' \subseteq Ahead
           /\ (\A t \in Threads : ~ CopyName(t)) => Ahead' = Ahead
           /\ \A t \in Threads :
                 CopyName(t) => Ahead' = Ahead \ {Chunks[chunk][entry[t]]}
<1> DEFINE Same == \A c \in DOMAIN Chunks : \A i \in DOMAIN Chunks[c] :
                      ToCome(c, i)' <=> ToCome(c, i)
<1>0. TypeOK /\ MutexInv /\ StreamInv /\ EntryInv
  BY DEF IInv
<1>1. ASSUME Same PROVE Ahead' = Ahead
  BY <1>1 DEF Ahead
<1>2. ASSUME UNCHANGED streamVars, Copying' <=> Copying PROVE Same
  BY <1>2 DEF streamVars, ToCome
<1>3. CASE UNCHANGED vars
  <2>1. UNCHANGED streamVars /\ (Copying' <=> Copying)
    BY <1>3 DEF vars, Copying, streamVars
  <2>2. \A t \in Threads : ~ CopyName(t)
    BY <1>3, <1>0 DEF vars, CopyName, Goto, TypeOK
  <2> QED
    BY <1>1, <1>2, <2>1, <2>2
<1>4. CASE Others
  <2>1. UNCHANGED streamVars /\ (Copying' <=> Copying)
    BY <1>4 DEF Others, Copying, streamVars
  <2>2. \A t \in Threads : ~ CopyName(t)
    BY <1>4, <1>0 DEF Others, CopyName, Goto, TypeOK
  <2> QED
    BY <1>1, <1>2, <2>1, <2>2
<1>5. ASSUME NEW t \in Threads, JobThread(t), ~ CopyName(t)
      PROVE  Same /\ \A u \in Threads : ~ CopyName(u)
  <2>1. ASSUME NEW from \in JobPCs, NEW to \in JobPCs, Goto(t, from, to),
               from # "copy"
        PROVE  \A u \in Threads : ~ CopyName(u)
    BY <1>0, <2>1 DEF CopyName, Goto, TypeOK
  <2>2. ASSUME NEW from \in JobPCs, NEW to \in JobPCs, Goto(t, from, to),
               from # "copy", to # "copy"
        PROVE  Copying' <=> Copying
    BY <1>0, <2>2 DEF Goto, TypeOK, Copying
  <2>3. CASE Lock(t) \/ EndOfDirectory(t) \/ Unlock(t) \/ Leave(t) \/ Open(t)
             \/ OpenFails(t) \/ EndOfJob(t)
    <3>1. \E from \in JobPCs, to \in JobPCs :
             Goto(t, from, to) /\ from # "copy" /\ to # "copy"
      BY <2>3 DEF Lock, EndOfDirectory, Unlock, Leave, Open, OpenFails, EndOfJob,
                  JobPCs
    <3>2. UNCHANGED streamVars
      BY <2>3 DEF Lock, EndOfDirectory, Unlock, Leave, Open, OpenFails, EndOfJob
    <3> QED
      BY <1>2, <2>1, <2>2, <3>1, <3>2
  <2>4. CASE Backup(t) \/ Admit(t) \/ KvsBackup(t)
    <3>1. jpc' = jpc /\ chunk' = chunk /\ slot' = slot
      BY <2>4 DEF Backup, Admit, KvsBackup, Running, Strtok, streamVars
    <3>2. \A u \in Threads : ~ CopyName(u)
      BY <1>0, <3>1 DEF CopyName, Goto, TypeOK
    <3>3. Same
      BY <3>1 DEF ToCome, Copying
    <3> QED
      BY <3>2, <3>3
  <2>5. CASE ReadNext(t)
    <3>1. jpc[t] = "readdir" /\ jpc' = [jpc EXCEPT ![t] = "copy"]
      BY <2>5 DEF ReadNext, Goto
    <3>2. Copying' /\ ~ Copying
      BY <1>0, <3>1, OneCopies DEF Copying, TypeOK
    <3>3. chunk' = chunk /\ slot' = slot + 1 /\ slot \in Nat
      BY <1>0, <2>5 DEF ReadNext, TypeOK
    <3>4. ASSUME NEW c \in DOMAIN Chunks, NEW i \in DOMAIN Chunks[c]
          PROVE  ToCome(c, i)' <=> ToCome(c, i)
      <4>1. i \in Int
        BY Directory
      <4> QED
        BY <3>2, <3>3, <4>1 DEF ToCome
    <3> QED
      BY <2>1, <3>1, <3>4 DEF Goto, JobPCs
  <2>6. CASE Refill(t)
    <3>1. jpc[t] = "readdir" /\ jpc' = [jpc EXCEPT ![t] = "copy"]
      BY <2>6 DEF Refill, Goto
    <3>2. Copying' /\ ~ Copying
      BY <1>0, <3>1, OneCopies DEF Copying, TypeOK
    <3>3. chunk' = chunk + 1 /\ slot' = 2 /\ slot > Filled
      BY <1>0, <2>6 DEF Refill, TypeOK
    <3>4. ASSUME NEW c \in DOMAIN Chunks, NEW i \in DOMAIN Chunks[c]
          PROVE  ToCome(c, i)' <=> ToCome(c, i)
      <4>1. c \in Nat /\ i \in Nat /\ i >= 1
        BY Directory
      <4>2. chunk \in Nat /\ slot \in Nat /\ Filled \in Nat
        BY <1>0, BufferTypes
      <4>3. c > chunk <=> (c > chunk + 1 \/ c = chunk + 1)
        BY <4>1, <4>2
      <4>4. c = chunk => i <= Filled
        BY <4>1, Directory DEF Filled
      <4>5. ToCome(c, i)' <=> c > chunk + 1 \/ c = chunk + 1
        BY <3>2, <3>3, <4>1 DEF ToCome
      <4>6. ToCome(c, i) <=> c > chunk
        BY <3>2, <3>3, <4>1, <4>2, <4>4 DEF ToCome
      <4> QED
        BY <4>3, <4>5, <4>6
    <3> QED
      BY <2>1, <3>1, <3>4 DEF Goto, JobPCs
  <2> QED
    BY <1>5, <2>3, <2>4, <2>5, <2>6 DEF JobThread
<1>6. ASSUME NEW t \in Threads, CopyName(t)
      PROVE  Ahead' = Ahead \ {Chunks[chunk][entry[t]]}
  <2>1. /\ chunk \in DOMAIN Chunks /\ entry[t] = slot - 1
        /\ entry[t] \in DOMAIN Chunks[chunk]
    BY <1>6, CopyFinds DEF CopyName, Goto
  <2>2. UNCHANGED streamVars /\ jpc[t] = "copy"
        /\ \E to \in JobPCs : to # "copy" /\ jpc' = [jpc EXCEPT ![t] = to]
    BY <1>6 DEF CopyName, Goto, JobPCs
  <2>3. Copying /\ ~ Copying'
    BY <1>0, <2>2, OneCopies DEF Copying, TypeOK
  <2>4. slot \in Nat /\ chunk' = chunk /\ slot' = slot
    BY <1>0, <2>2 DEF TypeOK, streamVars
  <2>5. ASSUME NEW c \in DOMAIN Chunks, NEW i \in DOMAIN Chunks[c]
        PROVE  ToCome(c, i)' <=> ToCome(c, i) /\ ~ (c = chunk /\ i = slot - 1)
    <3>1. i \in Nat /\ c \in Nat
      BY Directory
    <3>2. chunk \in Nat
      BY <2>1, Directory
    <3> QED
      BY <2>3, <2>4, <3>1, <3>2 DEF ToCome
  <2>6. ASSUME NEW c \in DOMAIN Chunks, NEW i \in DOMAIN Chunks[c]
        PROVE  (c = chunk /\ i = slot - 1)
                  <=> Chunks[c][i] = Chunks[chunk][entry[t]]
    BY <2>1, OneEntry
  <2> QED
    BY <2>5, <2>6 DEF Ahead
<1> QED
  <2>1. CASE \E t \in Threads : JobThread(t) /\ ~ CopyName(t)
    BY <1>1, <1>5, <2>1
  <2>2. CASE \E t \in Threads : CopyName(t)
    BY <1>6, <2>2
  <2> QED
    BY <1>3, <1>4, <2>1, <2>2 DEF Next


-----------------------------------------------------------------------------
(* Each conjunct of IInv is kept by every step. *)

LEMMA NextTypeOK ==
    ASSUME IInv, Admitted', [Next]_vars PROVE TypeOK'
<1>1. TypeOK /\ StreamInv /\ EntryInv /\ CommandInv /\ PlaceInv
      /\ Admission!TypeOK'
  BY DEF IInv, Admitted
<1>2. CASE UNCHANGED vars
  BY <1>1, <1>2 DEF vars, streamVars, jobVars, historyVars, TypeOK
<1>3. CASE Others
  BY <1>1, <1>3 DEF Others, streamVars, jobVars, historyVars, TypeOK
<1>4. ASSUME NEW t \in Threads, JobThread(t) PROVE TypeOK'
  <2>1. CASE Lock(t)
    BY <1>1, <2>1 DEF Lock, Goto, streamVars, jobVars, historyVars, TypeOK, JobPCs
  <2>2. CASE ReadNext(t)
    BY <1>1, <2>2 DEF ReadNext, Goto, jobVars, historyVars, TypeOK, JobPCs
  <2>3. CASE Refill(t)
    <3>1. chunk' \in 0 .. Len(Chunks) /\ chunk' \in DOMAIN Chunks
          /\ chunk' = chunk + 1
      BY <1>1, <2>3, Directory DEF Refill, TypeOK
    <3>2. buffer' \in Seq(Name)
      <4> DEFINE c == chunk + 1
      <4>1. c \in DOMAIN Chunks
        BY <3>1
      <4>2. buffer' = Chunks[c] \o SubSeq(buffer, Len(Chunks[c]) + 1, Len(buffer))
        BY <2>3 DEF Refill
      <4> HIDE DEF c
      <4> QED
        BY <1>1, <4>1, <4>2, Refilling
    <3> QED
      BY <1>1, <2>3, <3>1, <3>2 DEF Refill, Goto, jobVars, historyVars, TypeOK, JobPCs
  <2>4. CASE EndOfDirectory(t)
    BY <1>1, <2>4 DEF EndOfDirectory, Goto, streamVars, jobVars, historyVars,
                      TypeOK, JobPCs
  <2>5. CASE CopyName(t)
    <3>1. IsJob(buffer[entry[t]]) => buffer[entry[t]] \in JobFiles
      <4>1. jpc[t] = "copy"
        BY <2>5 DEF CopyName, Goto
      <4> QED
        BY <4>1, CopyFinds, Directory
    <3> QED
      BY <1>1, <2>5, <3>1 DEF CopyName, Goto, streamVars, historyVars, TypeOK, JobPCs
  <2>6. CASE Unlock(t) \/ Leave(t) \/ OpenFails(t) \/ EndOfJob(t)
    BY <1>1, <2>6 DEF Unlock, Leave, OpenFails, EndOfJob, Goto, streamVars, jobVars,
                      historyVars, TypeOK, JobPCs
  <2>7. CASE Open(t)
    <3>1. in_path[t] \in JobFiles /\ BackupsIn[in_path[t]] \in Nat
      BY <1>1, <2>7, BackupsKnown DEF Open, Goto, PlaceInv
    <3> QED
      BY <1>1, <2>7, <3>1 DEF Open, Goto, streamVars, TypeOK, JobPCs
  <2>8. CASE Backup(t) \/ Admit(t)
    BY <1>1, <2>8 DEF Backup, Admit, Running, streamVars, historyVars, TypeOK
  <2>9. CASE KvsBackup(t)
    <3>1. jpc[t] = "run" /\ entry[t] \in 1 .. Len(buffer)
      BY <1>1, <2>9 DEF KvsBackup, Running, EntryInv
    <3>2. bpc[t] = "fork"
      BY <2>9 DEF KvsBackup, Admission!Fork, Admission!ForkFails, Admission!Goto
    <3>4. commands[t] \in Nat /\ commands[t] > 0 /\ file_backups[t] \in Nat
      BY <1>1, <3>1, <3>2 DEF CommandInv, TypeOK
    <3>5. /\ commands' = [commands EXCEPT ![t] = commands[t] - 1]
          /\ file_backups' = [file_backups EXCEPT ![t] = file_backups[t] + 1]
          /\ UNCHANGED <<directory_mutex, jpc, entry, in_path, started, chunk, slot>>
      BY <2>9 DEF KvsBackup, Running, Strtok
    <3>6. commands' \in [Threads -> Nat] /\ file_backups' \in [Threads -> Nat]
      BY <1>1, <3>4, <3>5 DEF TypeOK
    <3>3. buffer' \in Seq(Name) /\ cut' \in SUBSET Name
      <4>1. Strtok(t)
        BY <2>9 DEF KvsBackup
      <4>2. buffer[entry[t]] \in Name
        BY <1>1, <3>1, ElementOfSeq DEF TypeOK
      <4> QED
        BY <1>1, <3>1, <4>1, <4>2, Cutting DEF Strtok, TypeOK
    <3> QED
      BY <1>1, <3>3, <3>5, <3>6 DEF TypeOK
  <2> QED
    BY <1>4, <2>1, <2>2, <2>3, <2>4, <2>5, <2>6, <2>7, <2>8, <2>9 DEF JobThread
<1> QED
  BY <1>2, <1>3, <1>4 DEF Next

LEMMA NextMutexInv ==
    ASSUME IInv, [Next]_vars PROVE MutexInv'
<1>1. TypeOK /\ MutexInv /\ NoThread \notin Threads
  BY JobsAssumption DEF IInv
<1>2. CASE UNCHANGED vars
  BY <1>1, <1>2 DEF vars, MutexInv
<1>3. CASE Others
  BY <1>1, <1>3 DEF Others, MutexInv
<1>4. ASSUME NEW t \in Threads, JobThread(t) PROVE MutexInv'
  <2>1. CASE Lock(t)
    BY <1>1, <2>1 DEF Lock, Goto, TypeOK, MutexInv
  <2>2. CASE ReadNext(t) \/ Refill(t) \/ EndOfDirectory(t) \/ CopyName(t)
    <3>1. /\ jpc[t] \in {"readdir", "copy", "unlock", "leave"}
          /\ directory_mutex' = directory_mutex
          /\ \E to \in {"readdir", "copy", "unlock", "leave"} :
                jpc' = [jpc EXCEPT ![t] = to]
      BY <2>2 DEF ReadNext, Refill, EndOfDirectory, CopyName, Goto
    <3> QED
      BY <1>1, <3>1 DEF TypeOK, MutexInv
  <2>3. CASE Unlock(t) \/ Leave(t)
    BY <1>1, <2>3 DEF Unlock, Leave, Goto, TypeOK, MutexInv
  <2>4. CASE Open(t) \/ OpenFails(t) \/ EndOfJob(t)
    BY <1>1, <2>4 DEF Open, OpenFails, EndOfJob, Goto, TypeOK, MutexInv
  <2>5. CASE Backup(t) \/ Admit(t) \/ KvsBackup(t)
    BY <1>1, <2>5 DEF Backup, Admit, KvsBackup, Running, MutexInv
  <2> QED
    BY <1>4, <2>1, <2>2, <2>3, <2>4, <2>5 DEF JobThread
<1> QED
  BY <1>2, <1>3, <1>4 DEF Next

\* What a refill and a cut leave of the buffer's relation to the directory.
LEMMA NextStreamInv ==
    ASSUME IInv, [Next]_vars PROVE StreamInv'
<1>1. TypeOK /\ MutexInv /\ StreamInv /\ EntryInv
  BY DEF IInv
<1>2. ASSUME UNCHANGED streamVars PROVE StreamInv'
  BY <1>1, <1>2 DEF streamVars, StreamInv
<1>3. ASSUME NEW t \in Threads, ReadNext(t) PROVE StreamInv'
  BY <1>1, <1>3, BufferTypes DEF ReadNext, StreamInv, Filled
<1>4. ASSUME NEW t \in Threads, Refill(t) PROVE StreamInv'
  <2> DEFINE c == chunk + 1
  <2>1. c \in DOMAIN Chunks /\ c > 0 /\ chunk' = c /\ slot' = 2
    BY <1>1, <1>4, Directory DEF Refill, TypeOK
  <2>2. buffer' = Chunks[c] \o SubSeq(buffer, Len(Chunks[c]) + 1, Len(buffer))
    BY <1>4 DEF Refill
  <2> HIDE DEF c
  <2>3. Len(buffer') >= Len(Chunks[c])
        /\ \A i \in DOMAIN Chunks[c] : buffer'[i] = Chunks[c][i]
    BY <1>1, <2>1, <2>2, Refilling
  <2>4. Len(Chunks[c]) \in Nat \ {0}
    BY <2>1, Directory
  <2> QED
    BY <2>1, <2>3, <2>4 DEF StreamInv
<1>5. ASSUME NEW t \in Threads, KvsBackup(t) PROVE StreamInv'
  <2>1. chunk' = chunk /\ slot' = slot /\ Strtok(t) /\ chunk > 0
        /\ entry[t] \in 1 .. Len(buffer)
    BY <1>1, <1>5 DEF KvsBackup, Strtok, Running, EntryInv
  <2>2. /\ Len(buffer') = Len(buffer)
        /\ \A i \in 1 .. Len(buffer) :
              buffer'[i] = IF i = entry[t] THEN CutOff(buffer[i]) ELSE buffer[i]
    BY <1>1, <2>1, Cutting
  <2>3. chunk \in DOMAIN Chunks
    BY <1>1, <2>1, BufferTypes
  <2>4. ASSUME NEW i \in DOMAIN Chunks[chunk]
        PROVE  buffer'[i] \in {Chunks[chunk][i], CutOff(Chunks[chunk][i])}
    <3>1. i \in 1 .. Len(buffer) /\ Chunks[chunk][i] \in Name
      BY <1>1, <2>1, <2>3, Directory, BufferTypes DEF StreamInv
    <3>2. buffer[i] \in {Chunks[chunk][i], CutOff(Chunks[chunk][i])}
      BY <1>1, <2>1 DEF StreamInv
    <3> QED
      BY <2>2, <3>1, <3>2, CutIsName
  <2> QED
    BY <1>1, <2>1, <2>2, <2>4 DEF StreamInv
<1>6. ASSUME NEW t \in Threads, JobThread(t)
      PROVE  UNCHANGED streamVars \/ ReadNext(t) \/ Refill(t) \/ KvsBackup(t)
  BY <1>6 DEF JobThread, Lock, EndOfDirectory, CopyName, Unlock, Leave, Open,
              OpenFails, Backup, Admit, EndOfJob
<1> QED
  BY <1>2, <1>3, <1>4, <1>5, <1>6 DEF Next, Others, vars


\* kvs_backup, of a job that is under way.
LEMMA Backing ==
    ASSUME IInv, NEW t \in Threads, KvsBackup(t)
    PROVE  /\ jpc[t] = "run" /\ bpc[t] = "fork" /\ bpc' = [bpc EXCEPT ![t] = "idle"]
           /\ chunk \in DOMAIN Chunks /\ entry[t] \in 1 .. Len(buffer)
           /\ UNCHANGED <<directory_mutex, jpc, entry, in_path, chunk, slot, started,
                          mainpc>>
           /\ commands[t] \in Nat \ {0} /\ file_backups[t] \in Nat
           /\ commands' = [commands EXCEPT ![t] = commands[t] - 1]
           /\ file_backups' = [file_backups EXCEPT ![t] = file_backups[t] + 1]
           /\ BackupsIn[in_path[t]] - commands[t] + 1 = file_backups[t] + 1
           /\ file_backups[t] + 1 \in 1 .. MostBackups
           /\ Len(buffer') = Len(buffer)
           /\ \A i \in 1 .. Len(buffer) :
                 buffer'[i] = IF i = entry[t] THEN CutOff(buffer[i]) ELSE buffer[i]
           /\ cut' = cut \cup ({buffer[entry[t]]} \ {in_path[t]})
           /\ in_path[t] \in JobFiles /\ started[in_path[t]] = 1
<1>1. TypeOK /\ StreamInv /\ EntryInv /\ CommandInv /\ PlaceInv
  BY DEF IInv
<1>2. /\ jpc[t] = "run"
      /\ UNCHANGED <<directory_mutex, jpc, entry, in_path, chunk, slot, started>>
      /\ Strtok(t)
      /\ commands' = [commands EXCEPT ![t] = commands[t] - 1]
      /\ file_backups' = [file_backups EXCEPT ![t] = file_backups[t] + 1]
      /\ cut' = cut \cup ({buffer[entry[t]]} \ {in_path[t]})
  BY DEF KvsBackup, Running, Strtok
<1>3. bpc[t] = "fork" /\ bpc' = [bpc EXCEPT ![t] = "idle"] /\ UNCHANGED mainpc
  BY DEF KvsBackup, Admission!Fork, Admission!ForkFails, Admission!Goto
<1>4. chunk \in DOMAIN Chunks /\ entry[t] \in 1 .. Len(buffer)
  BY <1>1, <1>2, BufferTypes DEF EntryInv
<1>5. in_path[t] \in JobFiles /\ started[in_path[t]] = 1
  BY <1>1, <1>2 DEF PlaceInv
<1>6. /\ commands[t] \in Nat \ {0} /\ file_backups[t] \in Nat
      /\ file_backups[t] + commands[t] = BackupsIn[in_path[t]]
  <2>1. commands[t] \in Nat /\ file_backups[t] \in Nat
    BY <1>1 DEF TypeOK
  <2>2. commands[t] > 0 /\ file_backups[t] + commands[t] = BackupsIn[in_path[t]]
    BY <1>1, <1>2, <1>3 DEF CommandInv
  <2> QED
    BY <2>1, <2>2
<1>7. /\ BackupsIn[in_path[t]] - commands[t] + 1 = file_backups[t] + 1
      /\ file_backups[t] + 1 \in 1 .. MostBackups
  BY <1>5, <1>6, BackupsKnown
<1>8. /\ Len(buffer') = Len(buffer)
      /\ \A i \in 1 .. Len(buffer) :
            buffer'[i] = IF i = entry[t] THEN CutOff(buffer[i]) ELSE buffer[i]
  BY <1>1, <1>2, <1>4, Cutting
<1> QED
  BY <1>2, <1>3, <1>4, <1>5, <1>6, <1>7, <1>8

LEMMA NextEntryInv ==
    ASSUME IInv, [Next]_vars PROVE EntryInv'
<1>1. TypeOK /\ MutexInv /\ StreamInv /\ EntryInv
  BY DEF IInv
<1>2. ASSUME UNCHANGED <<jpc, entry, in_path, chunk, slot>>, Len(buffer') = Len(buffer)
      PROVE  EntryInv'
  BY <1>1, <1>2 DEF EntryInv
<1>3. CASE UNCHANGED vars
  BY <1>2, <1>3 DEF vars, streamVars, jobVars
<1>4. CASE Others
  BY <1>2, <1>4 DEF Others, streamVars, jobVars
<1>5. ASSUME NEW t \in Threads, JobThread(t) PROVE EntryInv'
  <2>1. CASE Lock(t) \/ EndOfDirectory(t) \/ Unlock(t) \/ Leave(t) \/ Open(t)
             \/ OpenFails(t) \/ EndOfJob(t)
    <3>1. /\ UNCHANGED <<entry, in_path, streamVars>>
          /\ \/ /\ jpc[t] \in {"unlock", "open"}
                /\ \E to \in JobPCs : to # "copy" /\ jpc' = [jpc EXCEPT ![t] = to]
             \/ \E to \in {"lock", "readdir", "leave", "exit", "failed"} :
                   jpc' = [jpc EXCEPT ![t] = to]
      BY <2>1 DEF Lock, EndOfDirectory, Unlock, Leave, Open, OpenFails, EndOfJob,
                  Goto, jobVars, JobPCs
    <3> QED
      BY <1>1, <3>1 DEF EntryInv, streamVars, TypeOK
  <2>2. CASE ReadNext(t)
    <3>1. /\ slot <= Filled /\ jpc[t] = "readdir" /\ jpc' = [jpc EXCEPT ![t] = "copy"]
          /\ entry' = [entry EXCEPT ![t] = slot] /\ slot' = slot + 1
          /\ UNCHANGED <<buffer, chunk, in_path>>
      BY <2>2 DEF ReadNext, Goto, jobVars
    <3>2. chunk > 0 /\ slot \in Nat
      BY <1>1, <3>1, BufferTypes
    <3>3. \A u \in Threads : u # t => jpc[u] # "copy"
      BY <1>1, <3>1, OneCopies
    <3> QED
      BY <1>1, <3>1, <3>2, <3>3 DEF EntryInv, TypeOK
  <2>3. CASE Refill(t)
    <3> DEFINE c == chunk + 1
    <3>1. /\ jpc[t] = "readdir" /\ jpc' = [jpc EXCEPT ![t] = "copy"]
          /\ entry' = [entry EXCEPT ![t] = 1] /\ slot' = 2 /\ chunk' = c
          /\ in_path' = in_path
          /\ buffer' = Chunks[c] \o SubSeq(buffer, Len(Chunks[c]) + 1, Len(buffer))
      BY <2>3 DEF Refill, Goto, jobVars
    <3>2. c \in DOMAIN Chunks /\ c > 0 /\ (chunk > 0 => c # 1)
      BY <1>1, <2>3, Directory DEF Refill, TypeOK
    <3> HIDE DEF c
    <3>3. Len(buffer') \in Nat /\ Len(buffer) \in Nat /\ Len(buffer') >= Len(buffer)
      BY <1>1, <3>1, <3>2, Refilling, BufferTypes
    <3>4. \A u \in Threads : u # t => jpc[u] # "copy"
      BY <1>1, <3>1, OneCopies
    <3> QED
      BY <1>1, <3>1, <3>2, <3>3, <3>4 DEF EntryInv, TypeOK
  <2>4. CASE CopyName(t)
    <3>1. jpc[t] = "copy"
      BY <2>4 DEF CopyName, Goto
    <3>2. /\ UNCHANGED <<entry, streamVars>>
          /\ \/ /\ IsJob(buffer[entry[t]]) /\ PathFits(buffer[entry[t]])
                /\ jpc' = [jpc EXCEPT ![t] = "unlock"]
                /\ in_path' = [in_path EXCEPT ![t] = buffer[entry[t]]]
             \/ /\ jpc' = [jpc EXCEPT ![t] = "readdir"]
                /\ in_path' = in_path
      BY <2>4 DEF CopyName, Goto
    <3>3. /\ chunk > 0 /\ entry[t] \in DOMAIN Chunks[chunk]
          /\ entry[t] \in 1 .. Len(buffer)
          /\ IsJob(buffer[entry[t]]) => buffer[entry[t]] = Chunks[chunk][entry[t]]
      BY <3>1, CopyFinds, Directory
    <3> QED
      BY <1>1, <3>2, <3>3 DEF EntryInv, streamVars, TypeOK
  <2>5. CASE Backup(t) \/ Admit(t)
    BY <1>2, <2>5 DEF Backup, Admit, Running, streamVars
  <2>6. CASE KvsBackup(t)
    BY <1>2, <2>6, Backing
  <2> QED
    BY <1>5, <2>1, <2>2, <2>3, <2>4, <2>5, <2>6 DEF JobThread
<1> QED
  BY <1>3, <1>4, <1>5 DEF Next


\* What a step does to the job that a thread has in hand.
LEMMA Hands ==
    ASSUME IInv, [Next]_vars
    PROVE  \/ UNCHANGED <<jpc, in_path, started>>
           \/ \E t \in Threads :
                 \/ /\ \/ jpc[t] = "lock" /\ jpc' = [jpc EXCEPT ![t] = "readdir"]
                       \/ jpc[t] = "readdir" /\ jpc' = [jpc EXCEPT ![t] = "copy"]
                       \/ jpc[t] = "readdir" /\ jpc' = [jpc EXCEPT ![t] = "leave"]
                       \/ jpc[t] = "unlock" /\ jpc' = [jpc EXCEPT ![t] = "open"]
                       \/ jpc[t] = "leave" /\ jpc' = [jpc EXCEPT ![t] = "exit"]
                       \/ jpc[t] = "open" /\ jpc' = [jpc EXCEPT ![t] = "failed"]
                       \/ jpc[t] = "run" /\ jpc' = [jpc EXCEPT ![t] = "lock"]
                    /\ UNCHANGED <<in_path, started>>
                 \/ CopyName(t)
                 \/ Open(t)
BY DEF Next, JobThread, Lock, ReadNext, Refill, EndOfDirectory, Unlock, Leave,
       OpenFails, EndOfJob, Backup, Admit, KvsBackup, Running, Others, Goto, vars,
       jobVars, historyVars

LEMMA NextPlaceInv ==
    ASSUME IInv, [Next]_vars PROVE PlaceInv'
<1>1. TypeOK /\ PlaceInv /\ Ahead' \subseteq Ahead
  BY AheadShrinks DEF IInv
<1>2. CASE UNCHANGED <<jpc, in_path, started>>
  BY <1>1, <1>2 DEF PlaceInv, Pending
<1>3. ASSUME NEW t \in Threads, UNCHANGED <<in_path, started>>,
             \/ /\ jpc[t] = "unlock"
                /\ jpc' = [jpc EXCEPT ![t] = "open"]
             \/ /\ jpc[t] = "open"
                /\ jpc' = [jpc EXCEPT ![t] = "failed"]
             \/ \E to \in {"lock", "readdir", "copy", "leave", "exit"} :
                   jpc' = [jpc EXCEPT ![t] = to]
      PROVE  PlaceInv'
  <2>1. \A u \in Threads :
           /\ Pending(u)' => Pending(u)
           /\ jpc'[u] = "run" => jpc[u] = "run"
           /\ jpc'[u] \in {"unlock", "open", "run", "failed"} =>
                 jpc[u] \in {"unlock", "open", "run", "failed"}
    BY <1>1, <1>3 DEF Pending, TypeOK
  <2> QED
    BY <1>1, <1>3, <2>1 DEF PlaceInv
<1>4. ASSUME NEW t \in Threads, CopyName(t) PROVE PlaceInv'
  <2>1. /\ jpc[t] = "copy" /\ started' = started
        /\ \/ /\ IsJob(buffer[entry[t]]) /\ PathFits(buffer[entry[t]])
              /\ jpc' = [jpc EXCEPT ![t] = "unlock"]
              /\ in_path' = [in_path EXCEPT ![t] = buffer[entry[t]]]
           \/ /\ jpc' = [jpc EXCEPT ![t] = "readdir"]
              /\ in_path' = in_path
    BY <1>4 DEF CopyName, Goto, historyVars
  <2>2. CASE /\ IsJob(buffer[entry[t]]) /\ PathFits(buffer[entry[t]])
             /\ jpc' = [jpc EXCEPT ![t] = "unlock"]
             /\ in_path' = [in_path EXCEPT ![t] = buffer[entry[t]]]
    <3> DEFINE f == buffer[entry[t]]
    <3>1. f \in JobFiles /\ f \in Ahead /\ f \notin Ahead'
      <4>1. Ahead' = Ahead \ {Chunks[chunk][entry[t]]}
        BY <1>4, AheadShrinks
      <4> QED
        BY <2>1, <2>2, <4>1, CopyFinds, Directory
    <3>2. started[f] = 0
      BY <1>1, <3>1 DEF PlaceInv
    <3>3. \A u \in Threads : Pending(u) => in_path[u] # f
      BY <1>1, <3>1 DEF PlaceInv
    <3>4. jpc' = [jpc EXCEPT ![t] = "unlock"] /\ in_path' = [in_path EXCEPT ![t] = f]
      BY <2>2
    <3> HIDE DEF f
    <3> QED
      BY <1>1, <2>1, <3>1, <3>2, <3>3, <3>4 DEF PlaceInv, Pending, TypeOK
  <2>3. CASE jpc' = [jpc EXCEPT ![t] = "readdir"] /\ in_path' = in_path
    BY <1>3, <2>1, <2>3
  <2> QED
    BY <2>1, <2>2, <2>3
<1>5. ASSUME NEW t \in Threads, Open(t) PROVE PlaceInv'
  <2> DEFINE f == in_path[t]
  <2>1. /\ jpc[t] = "open" /\ jpc' = [jpc EXCEPT ![t] = "run"] /\ in_path' = in_path
        /\ started' = [started EXCEPT ![f] = started[f] + 1]
    BY <1>5 DEF Open, Goto
  <2>2. f \in JobFiles /\ started[f] = 0 /\ f \notin Ahead /\ Pending(t)
    BY <1>1, <2>1 DEF PlaceInv, Pending
  <2>3. \A u \in Threads : u # t /\ Pending(u) => in_path[u] # f
    BY <1>1, <2>2 DEF PlaceInv
  <2>4. \A g \in JobFiles : started'[g] = IF g = f THEN 1 ELSE started[g]
    BY <1>1, <2>1, <2>2 DEF TypeOK
  <2>5. \A u \in Threads : jpc'[u] = IF u = t THEN "run" ELSE jpc[u]
    BY <1>1, <2>1 DEF TypeOK
  <2>6. \A u \in Threads : Pending(u)' => u # t /\ Pending(u)
    BY <2>5 DEF Pending
  <2>7. in_path[t] = f
    OBVIOUS
  <2> HIDE DEF f
  <2>8. \A g \in JobFiles : started'[g] <= 1 /\ (g \in Ahead' => started'[g] = 0)
    BY <1>1, <2>2, <2>4 DEF PlaceInv
  <2>9. ASSUME NEW u \in Threads
        PROVE  /\ Pending(u)' => in_path[u] \notin Ahead' /\ started'[in_path[u]] = 0
               /\ jpc'[u] = "run" => started'[in_path[u]] = 1
               /\ jpc'[u] \in {"unlock", "open", "run", "failed"} =>
                     in_path[u] \in JobFiles
    <3>1. jpc'[u] \in {"unlock", "open", "run", "failed"} => in_path[u] \in JobFiles
      BY <1>1, <2>2, <2>5, <2>7 DEF PlaceInv
    <3>2. jpc'[u] = "run" => started'[in_path[u]] = 1
      BY <1>1, <2>2, <2>4, <2>5, <2>7, <3>1 DEF PlaceInv
    <3>3. Pending(u)' => in_path[u] \in JobFiles
      BY <3>1 DEF Pending
    <3>4. Pending(u)' => in_path[u] \notin Ahead' /\ started'[in_path[u]] = 0
      BY <1>1, <2>3, <2>4, <2>6, <3>3 DEF PlaceInv
    <3> QED
      BY <3>1, <3>2, <3>4
  <2>10. \A u, v \in Threads :
            Pending(u)' /\ Pending(v)' /\ in_path[u] = in_path[v] => u = v
    BY <1>1, <2>6 DEF PlaceInv
  <2>11. in_path' = in_path
    BY <2>1
  <2>12. Ahead' \subseteq JobFiles
    BY <1>1 DEF Ahead
  <2> QED
    BY <2>8, <2>9, <2>10, <2>11, <2>12 DEF PlaceInv
<1> QED
  BY <1>2, <1>3, <1>4, <1>5, Hands

LEMMA NextCoverInv ==
    ASSUME IInv, [Next]_vars PROVE CoverInv'
<1>1. TypeOK /\ PlaceInv /\ CoverInv /\ CutInv
  BY DEF IInv
<1>2. \A f \in JobFiles : Lost(f) => Lost(f)'
  BY DEF Lost, Next, JobThread, Lock, ReadNext, Refill, EndOfDirectory, CopyName,
         Unlock, Leave, Open, OpenFails, EndOfJob, Backup, Admit, KvsBackup, Strtok,
         Others, vars, historyVars
<1>3. ASSUME Ahead' = Ahead, started' = started, in_path' = in_path,
             \A t \in Threads :
                jpc[t] \in {"unlock", "open", "failed"} =>
                   jpc'[t] \in {"unlock", "open", "failed"}
      PROVE  CoverInv'
  BY <1>1, <1>2, <1>3 DEF CoverInv
<1>4. ASSUME NEW t \in Threads, CopyName(t) PROVE CoverInv'
  <2> DEFINE g == Chunks[chunk][entry[t]]
  <2>1. /\ jpc[t] = "copy" /\ started' = started
        /\ IF IsJob(buffer[entry[t]]) /\ PathFits(buffer[entry[t]])
           THEN /\ jpc' = [jpc EXCEPT ![t] = "unlock"]
                /\ in_path' = [in_path EXCEPT ![t] = buffer[entry[t]]]
           ELSE /\ jpc' = [jpc EXCEPT ![t] = "readdir"]
                /\ in_path' = in_path
    BY <1>4 DEF CopyName, Goto, historyVars
  <2>2. \A u \in Threads : u # t => jpc'[u] = jpc[u] /\ in_path'[u] = in_path[u]
    BY <1>1, <2>1 DEF TypeOK
  <2>3. Ahead' = Ahead \ {g}
    BY <1>4, AheadShrinks
  <2>4. ASSUME g \in Ahead
        PROVE  Lost(g) \/ ~PathFits(g) \/ (jpc'[t] = "unlock" /\ in_path'[t] = g)
    <3>1. chunk > 0 /\ entry[t] \in DOMAIN Chunks[chunk]
      BY <2>1, CopyFinds, Directory
    <3>2. buffer[entry[t]] = g \/ Lost(g)
      BY <1>1, <2>4, <3>1 DEF CutInv
    <3>3. IsJob(g)
      BY <2>4 DEF Ahead, JobFiles
    <3> QED
      BY <1>1, <2>1, <3>2, <3>3 DEF TypeOK
  <2> HIDE DEF g
  <2> QED
    BY <1>1, <1>2, <2>1, <2>2, <2>3, <2>4 DEF CoverInv
<1>5. ASSUME NEW t \in Threads, Open(t) PROVE CoverInv'
  <2>1. /\ jpc[t] = "open" /\ jpc' = [jpc EXCEPT ![t] = "run"] /\ in_path' = in_path
        /\ started' = [started EXCEPT ![in_path[t]] = started[in_path[t]] + 1]
    BY <1>5 DEF Open, Goto
  <2>2. in_path[t] \in JobFiles /\ started[in_path[t]] = 0
    BY <1>1, <2>1 DEF PlaceInv, Pending
  <2>3. \A f \in JobFiles : started'[f] = IF f = in_path[t] THEN 1 ELSE started[f]
    BY <1>1, <2>1, <2>2 DEF TypeOK
  <2>4. \A u \in Threads : u # t => jpc'[u] = jpc[u]
    BY <1>1, <2>1 DEF TypeOK
  <2>5. Ahead' = Ahead
    <3>1. \A u \in Threads : ~ CopyName(u)
      BY <1>1, <2>1 DEF CopyName, Goto, TypeOK
    <3> QED
      BY <3>1, AheadShrinks
  <2> QED
    BY <1>1, <1>2, <2>1, <2>3, <2>4, <2>5 DEF CoverInv
<1>6. CASE \A t \in Threads : ~ CopyName(t) /\ ~ Open(t)
  <2>1. Ahead' = Ahead
    BY <1>6, AheadShrinks
  <2> QED
    BY <1>1, <1>3, <1>6, <2>1, Hands DEF TypeOK
<1> QED
  BY <1>4, <1>5, <1>6


LEMMA NextCutInv ==
    ASSUME IInv, [Next]_vars PROVE CutInv'
<1>1. TypeOK /\ StreamInv /\ EntryInv /\ PlaceInv /\ CutInv /\ Ahead' \subseteq Ahead
  BY AheadShrinks DEF IInv
<1>2. ASSUME UNCHANGED <<buffer, chunk, cut>> PROVE CutInv'
  BY <1>1, <1>2 DEF CutInv, Lost
<1>3. ASSUME NEW t \in Threads, Refill(t) PROVE CutInv'
  <2> DEFINE c == chunk + 1
  <2>1. c \in DOMAIN Chunks /\ chunk' = c
    BY <1>1, <1>3, Directory DEF Refill, TypeOK
  <2>2. buffer' = Chunks[c] \o SubSeq(buffer, Len(Chunks[c]) + 1, Len(buffer))
    BY <1>3 DEF Refill
  <2> HIDE DEF c
  <2>3. \A i \in DOMAIN Chunks[c] : buffer'[i] = Chunks[c][i]
    BY <1>1, <2>1, <2>2, Refilling
  <2> QED
    BY <2>1, <2>3 DEF CutInv
<1>4. ASSUME NEW t \in Threads, KvsBackup(t) PROVE CutInv'
  <2>1. ASSUME NEW i \in DOMAIN Chunks[chunk], Chunks[chunk][i] \in Ahead
        PROVE  \/ buffer'[i] = Chunks[chunk][i]
               \/ Len(Chunks) > 1 /\ Chunks[chunk][i] \in cut'
    <3> DEFINE f == Chunks[chunk][i]
    <3>1. chunk \in DOMAIN Chunks /\ chunk > 0 /\ i \in 1 .. Len(buffer)
      BY <1>1, <1>4, Backing, BufferTypes, Directory
    <3>2. cut \subseteq cut' /\ (buffer[entry[t]] = f /\ f # in_path[t] => f \in cut')
      BY <1>4, Backing
    <3>3. buffer[i] = f \/ Lost(f)
      BY <1>1, <2>1, <3>1 DEF CutInv
    <3>4. CASE i # entry[t]
      BY <1>4, <3>1, <3>2, <3>3, <3>4, Backing DEF Lost
    <3>5. CASE Lost(f)
      BY <3>2, <3>5 DEF Lost
    <3>6. CASE i = entry[t] /\ buffer[i] = f
      <4>1. f # in_path[t]
        BY <1>1, <1>4, <2>1, Backing DEF PlaceInv
      <4>2. chunk # 1
        BY <1>1, <1>4, <3>6, <4>1, Backing DEF EntryInv
      <4>3. Len(Chunks) > 1
        BY <3>1, <4>2, Directory
      <4> QED
        BY <3>2, <3>6, <4>1, <4>3 DEF Lost
    <3> QED
      BY <3>3, <3>4, <3>5, <3>6
  <2>2. chunk' = chunk
    BY <1>4, Backing
  <2> QED
    BY <1>1, <2>1, <2>2 DEF CutInv, Lost
<1>5. ASSUME NEW t \in Threads, JobThread(t)
      PROVE  UNCHANGED <<buffer, chunk, cut>> \/ Refill(t) \/ KvsBackup(t)
  BY <1>5 DEF JobThread, Lock, ReadNext, EndOfDirectory, CopyName, Unlock, Leave,
              Open, OpenFails, Backup, Admit, EndOfJob, streamVars, historyVars
<1> QED
  BY <1>2, <1>3, <1>4, <1>5 DEF Next, Others, vars, streamVars, historyVars

LEMMA NextEndInv ==
    ASSUME IInv, [Next]_vars PROVE EndInv'
<1>1. TypeOK /\ MutexInv /\ StreamInv /\ EndInv /\ Ahead' \subseteq Ahead
  BY AheadShrinks DEF IInv
<1>2. ASSUME \A t \in Threads :
                jpc'[t] \in {"leave", "exit"} => jpc[t] \in {"leave", "exit"}
      PROVE  EndInv'
  BY <1>1, <1>2 DEF EndInv
<1>3. ASSUME NEW t \in Threads, EndOfDirectory(t) PROVE EndInv'
  <2>1. slot > Filled /\ chunk = Len(Chunks) /\ jpc[t] = "readdir"
    BY <1>3 DEF EndOfDirectory, Goto
  <2>2. ~ Copying
    BY <1>1, <2>1, OneCopies DEF Copying
  <2>3. ASSUME NEW c \in DOMAIN Chunks, NEW i \in DOMAIN Chunks[c] PROVE ~ ToCome(c, i)
    <3>1. c \in 1 .. Len(Chunks) /\ i \in 1 .. Len(Chunks[c]) /\ Len(Chunks) \in Nat
          /\ Len(Chunks[c]) \in Nat /\ slot \in Nat
      BY Directory, <1>1 DEF TypeOK
    <3>2. c = chunk => Filled = Len(Chunks[c])
      BY <3>1 DEF Filled
    <3> QED
      BY <2>1, <2>2, <3>1, <3>2 DEF ToCome
  <2> QED
    BY <1>1, <2>3 DEF EndInv, Ahead
<1>4. ASSUME NEW t \in Threads, CopyName(t) PROVE EndInv'
  BY <1>1, <1>2, <1>4 DEF CopyName, Goto, TypeOK
<1>5. ASSUME NEW t \in Threads, Open(t) PROVE EndInv'
  BY <1>1, <1>2, <1>5 DEF Open, Goto, TypeOK
<1>6. ASSUME NEW t \in Threads, jpc[t] = "readdir", jpc' = [jpc EXCEPT ![t] = "leave"],
             ~ EndOfDirectory(t), JobThread(t)
      PROVE  FALSE
  BY <1>1, <1>6 DEF JobThread, Lock, ReadNext, Refill, CopyName, Unlock, Leave, Open,
                    OpenFails, EndOfJob, Backup, Admit, KvsBackup, Running, Goto, TypeOK
<1>7. CASE Others \/ UNCHANGED vars
  BY <1>1, <1>2, <1>7 DEF Others, vars
<1>8. ASSUME NEW t \in Threads, JobThread(t), ~ EndOfDirectory(t) PROVE EndInv'
  <2>1. CASE Lock(t) \/ ReadNext(t) \/ Refill(t) \/ Unlock(t) \/ Leave(t)
             \/ OpenFails(t) \/ EndOfJob(t)
    BY <1>1, <1>2, <2>1 DEF Lock, ReadNext, Refill, Unlock, Leave, OpenFails, EndOfJob,
                            Goto, TypeOK
  <2>2. CASE Backup(t) \/ Admit(t) \/ KvsBackup(t)
    BY <1>2, <2>2 DEF Backup, Admit, KvsBackup, Running
  <2> QED
    BY <1>4, <1>5, <1>8, <2>1, <2>2 DEF JobThread
<1> QED
  BY <1>3, <1>7, <1>8 DEF Next

LEMMA NextAdmissionInv ==
    ASSUME IInv, [Next]_vars PROVE AdmissionInv'
<1>1. TypeOK /\ AdmissionInv /\ Admission!TypeOK
  BY DEF IInv, TypeOK
<1>2. CASE UNCHANGED vars
  BY <1>1, <1>2 DEF vars, admissionVars, AdmissionInv
<1>3. CASE Others
  BY <1>1, <1>3 DEF Others, AdmissionInv, Admission!ChildExit, Admission!Main,
                    Admission!MainJoin, Admission!MainReap, Admission!MainServe
<1>4. ASSUME NEW t \in Threads, JobThread(t) PROVE AdmissionInv'
  <2>1. CASE Lock(t) \/ ReadNext(t) \/ Refill(t) \/ EndOfDirectory(t) \/ CopyName(t)
             \/ Unlock(t) \/ Open(t) \/ EndOfJob(t)
    <3>1. /\ bpc' = bpc /\ jpc[t] \notin {"exit", "failed"} /\ bpc[t] = "idle"
          /\ \E to \in JobPCs \ {"exit", "failed"} : jpc' = [jpc EXCEPT ![t] = to]
      BY <1>1, <2>1 DEF Lock, ReadNext, Refill, EndOfDirectory, CopyName, Unlock, Open,
                        EndOfJob, Goto, admissionVars, AdmissionInv, JobPCs
    <3> QED
      BY <1>1, <3>1 DEF AdmissionInv, TypeOK
  <2>2. CASE Leave(t) \/ OpenFails(t)
    <3>1. /\ bpc' = [bpc EXCEPT ![t] = "done"]
          /\ \E to \in {"exit", "failed"} : jpc' = [jpc EXCEPT ![t] = to]
      BY <2>2 DEF Leave, OpenFails, Goto, Admission!Finish, Admission!Goto
    <3> QED
      BY <1>1, <3>1 DEF AdmissionInv, TypeOK, Admission!TypeOK
  <2>3. CASE Backup(t) \/ Admit(t) \/ KvsBackup(t)
    <3>1. /\ jpc' = jpc /\ jpc[t] = "run"
          /\ \E to \in Admission!BackupPCs \ {"done"} : bpc' = [bpc EXCEPT ![t] = to]
      BY <2>3 DEF Backup, Admit, KvsBackup, Running, Admission!Lock, Admission!Check,
                  Admission!Count, Admission!WaitReap, Admission!WaitNoChild,
                  Admission!Unlock, Admission!Fork, Admission!ForkFails,
                  Admission!Goto, Admission!BackupPCs
    <3> QED
      BY <1>1, <3>1 DEF AdmissionInv, TypeOK, Admission!TypeOK
  <2> QED
    BY <1>4, <2>1, <2>2, <2>3 DEF JobThread
<1> QED
  BY <1>2, <1>3, <1>4 DEF Next


\* What a step does to the BACKUP commands of one thread.
LEMMA NextCommandInv ==
    ASSUME IInv, [Next]_vars PROVE CommandInv'
<1>1. TypeOK /\ EntryInv /\ PlaceInv /\ AdmissionInv /\ CommandInv /\ Admission!TypeOK
  BY DEF IInv, TypeOK
<1>2. CASE UNCHANGED vars
  BY <1>1, <1>2 DEF vars, admissionVars, jobVars, CommandInv
<1>3. CASE Others
  BY <1>1, <1>3 DEF Others, jobVars, CommandInv, Admission!ChildExit, Admission!Main,
                    Admission!MainJoin, Admission!MainReap, Admission!MainServe
<1>4. ASSUME NEW t \in Threads, JobThread(t) PROVE CommandInv'
  <2>1. CASE Lock(t) \/ ReadNext(t) \/ Refill(t) \/ EndOfDirectory(t) \/ CopyName(t)
             \/ Unlock(t) \/ EndOfJob(t) \/ Leave(t) \/ OpenFails(t)
    <3>1. /\ UNCHANGED <<commands, file_backups>>
          /\ \E to \in JobPCs \ {"run"} : jpc' = [jpc EXCEPT ![t] = to]
          /\ \A u \in Threads : u # t => bpc'[u] = bpc[u] /\ in_path'[u] = in_path[u]
      BY <1>1, <2>1 DEF Lock, ReadNext, Refill, EndOfDirectory, CopyName, Unlock,
                  EndOfJob, Leave, OpenFails, Goto, admissionVars, jobVars, JobPCs,
                  Admission!Finish, Admission!Goto, TypeOK, Admission!TypeOK
    <3> QED
      BY <1>1, <3>1 DEF CommandInv, TypeOK
  <2>2. CASE Open(t)
    <3>1. /\ jpc[t] = "open" /\ jpc' = [jpc EXCEPT ![t] = "run"]
          /\ commands' = [commands EXCEPT ![t] = BackupsIn[in_path[t]]]
          /\ file_backups' = [file_backups EXCEPT ![t] = 0]
          /\ in_path' = in_path /\ bpc' = bpc
      BY <2>2 DEF Open, Goto, admissionVars
    <3>2. BackupsIn[in_path[t]] \in Nat /\ bpc[t] = "idle"
      BY <1>1, <3>1, BackupsKnown DEF PlaceInv, AdmissionInv
    <3> QED
      BY <1>1, <3>1, <3>2 DEF CommandInv, TypeOK
  <2>3. CASE Backup(t) \/ Admit(t)
    <3>1. /\ UNCHANGED <<jpc, in_path, commands, file_backups>> /\ jpc[t] = "run"
          /\ \E to \in Admission!BackupPCs : bpc' = [bpc EXCEPT ![t] = to]
      BY <2>3 DEF Backup, Admit, Running, Admission!Lock, Admission!Check,
                  Admission!Count, Admission!WaitReap, Admission!WaitNoChild,
                  Admission!Unlock, Admission!Goto, Admission!BackupPCs
    <3>2. commands[t] > 0
      BY <1>1, <2>3, <3>1 DEF CommandInv, Backup, Admit, Admission!Check,
                  Admission!Count, Admission!WaitReap, Admission!WaitNoChild,
                  Admission!Unlock, Admission!Goto
    <3> QED
      BY <1>1, <3>1, <3>2 DEF CommandInv, TypeOK, Admission!TypeOK
  <2>4. CASE KvsBackup(t)
    <3>1. /\ UNCHANGED <<jpc, in_path>>
          /\ bpc' = [bpc EXCEPT ![t] = "idle"]
          /\ commands[t] \in Nat \ {0} /\ file_backups[t] \in Nat
          /\ commands' = [commands EXCEPT ![t] = commands[t] - 1]
          /\ file_backups' = [file_backups EXCEPT ![t] = file_backups[t] + 1]
      BY <2>4, Backing
    <3>2. \A u \in Threads : u # t => /\ commands'[u] = commands[u]
                                      /\ file_backups'[u] = file_backups[u]
                                      /\ bpc'[u] = bpc[u]
      BY <1>1, <3>1 DEF TypeOK, Admission!TypeOK
    <3>3. /\ commands'[t] = commands[t] - 1 /\ file_backups'[t] = file_backups[t] + 1
          /\ bpc'[t] = "idle"
      BY <1>1, <3>1 DEF TypeOK, Admission!TypeOK
    <3>4. file_backups'[t] + commands'[t] = file_backups[t] + commands[t]
      BY <3>1, <3>3
    <3> QED
      BY <1>1, <3>1, <3>2, <3>3, <3>4 DEF CommandInv
  <2> QED
    BY <1>4, <2>1, <2>2, <2>3, <2>4 DEF JobThread
<1> QED
  BY <1>2, <1>3, <1>4 DEF Next

LEMMA NextWrittenInv ==
    ASSUME IInv, [Next]_vars PROVE WrittenInv'
<1>1. TypeOK /\ StreamInv /\ EntryInv /\ WrittenInv
  BY DEF IInv
<1>2. chunk \in Nat /\ chunk' \in Nat /\ chunk <= chunk'
  <2>1. \/ chunk' = chunk
        \/ chunk' = chunk + 1
    BY DEF Next, JobThread, Lock, ReadNext, Refill, EndOfDirectory, CopyName, Unlock,
           Leave, Open, OpenFails, EndOfJob, Backup, Admit, KvsBackup, Strtok, Others,
           vars, streamVars
  <2> QED
    BY <1>1, <2>1, BufferTypes
<1>3. ASSUME written' = written PROVE WrittenInv'
  BY <1>1, <1>2, <1>3 DEF WrittenInv
<1>4. ASSUME NEW t \in Threads, KvsBackup(t) PROVE WrittenInv'
  <2> DEFINE token == Token(buffer[entry[t]])
             n == file_backups[t] + 1
             made == Backed(in_path[t], token, n)
  <2>1. written' \subseteq written \cup {made}
    <3>1. file_backups'[t] = n
      BY <1>1, <1>4, Backing DEF TypeOK
    <3>2. Made(t, n) = made
      BY <1>4, Backing DEF Made, Backed
    <3> HIDE DEF n, made
    <3> QED
      BY <1>4, <3>1, <3>2 DEF KvsBackup
  <2>2. token \in Tokens /\ (chunk <= 1 => token = Token(in_path[t]))
    <3>1. /\ chunk \in DOMAIN Chunks /\ chunk > 0 /\ entry[t] \in 1 .. Len(buffer)
          /\ buffer[entry[t]] \in Name
          /\ chunk = 1 => /\ entry[t] \in DOMAIN Chunks[1]
                          /\ Chunks[1][entry[t]] = in_path[t]
      BY <1>1, <1>4, Backing, BufferTypes DEF EntryInv
    <3>2. ASSUME chunk = 1 PROVE token = Token(in_path[t])
      <4>1. buffer[entry[t]] \in {in_path[t], CutOff(in_path[t])}
        BY <1>1, <3>1, <3>2 DEF StreamInv
      <4>2. in_path[t] \in Name
        BY <3>1, <3>2, Directory
      <4> QED
        BY <4>1, <4>2, CutIsName
    <3>3. chunk <= 1 => chunk = 1
      BY <1>2, <3>1
    <3> QED
      BY <3>1, <3>2, <3>3, CutIsName
  <2>3. n \in 1 .. MostBackups
    BY <1>4, Backing
  <2>4. /\ made = Backed(made.job, token, made.nth) /\ made.nth \in 1 .. MostBackups
        /\ made.job = in_path[t]
    BY <2>3 DEF Backed
  <2> HIDE DEF made, token
  <2>5. \E tok \in Tokens :
           /\ made = Backed(made.job, tok, made.nth) /\ made.nth \in 1 .. MostBackups
           /\ chunk <= 1 => tok = Token(made.job)
    BY <2>2, <2>4
  <2>6. chunk' <= 1 => chunk <= 1
    BY <1>2
  <2> QED
    BY <1>1, <2>1, <2>5, <2>6 DEF WrittenInv
<1>5. ASSUME NEW t \in Threads, JobThread(t) PROVE written' = written \/ KvsBackup(t)
  BY <1>5 DEF JobThread, Lock, ReadNext, Refill, EndOfDirectory, CopyName, Unlock,
              Leave, Open, OpenFails, Backup, Admit, EndOfJob, historyVars
<1> QED
  BY <1>3, <1>4, <1>5 DEF Next, Others, vars, historyVars

-----------------------------------------------------------------------------
LEMMA InitIInv == Init => IInv
<1> SUFFICES ASSUME Init PROVE IInv
  OBVIOUS
<1> USE DEF Init
<1>1. TypeOK
  <2>1. Admission!TypeOK
    BY DEF Admission!Init, Admission!TypeOK, Admission!BackupPCs
  <2>2. buffer \in Seq(Name) /\ chunk \in 0 .. Len(Chunks)
    BY EmptySeq, Directory
  <2>3. jpc \in [Threads -> JobPCs] /\ entry \in [Threads -> Nat \ {0}]
    BY DEF JobPCs
  <2>4. /\ in_path \in [Threads -> JobFiles \cup {Nothing}]
        /\ commands \in [Threads -> Nat] /\ file_backups \in [Threads -> Nat]
        /\ started \in [JobFiles -> Nat]
    OBVIOUS
  <2> QED
    BY <2>1, <2>2, <2>3, <2>4 DEF TypeOK
<1>2. Ahead = JobFiles
  <2>1. \A c \in DOMAIN Chunks : c > chunk
    BY Directory
  <2>2. \A c \in DOMAIN Chunks : \A i \in DOMAIN Chunks[c] : ToCome(c, i)
    BY <2>1 DEF ToCome
  <2> QED
    BY <2>2 DEF Ahead, JobFiles, Entries
<1>3. MutexInv /\ StreamInv /\ EntryInv
  <2>1. MutexInv
    BY JobsAssumption DEF MutexInv
  <2>2. StreamInv
    BY DEF StreamInv
  <2>3. EntryInv
    BY DEF EntryInv
  <2> QED
    BY <2>1, <2>2, <2>3
<1>4. PlaceInv /\ CoverInv /\ CutInv /\ EndInv
  BY <1>2 DEF PlaceInv, Pending, CoverInv, CutInv, EndInv
<1>5. AdmissionInv /\ CommandInv /\ WrittenInv
  BY DEF Admission!Init, AdmissionInv, CommandInv, WrittenInv
<1> QED
  BY <1>1, <1>3, <1>4, <1>5 DEF IInv

LEMMA Invariance == Spec => []IInv
<1>1. IInv /\ Admitted' /\ [Next]_vars => IInv'
  BY NextTypeOK, NextMutexInv, NextStreamInv, NextEntryInv, NextPlaceInv,
     NextCoverInv, NextCutInv, NextEndInv, NextAdmissionInv, NextCommandInv,
     NextWrittenInv DEF IInv
<1> QED
  BY <1>1, InitIInv, AdmissionHolds, PTL DEF Spec

-----------------------------------------------------------------------------
\* Type correctness: every variable of main.c's job phase keeps its type.
THEOREM TypeCorrect == Spec => []TypeOK
<1>1. IInv => TypeOK
  BY DEF IInv
<1> QED
  BY <1>1, Invariance, PTL

\* No job file is run twice, whatever the directory and however the threads
\* share its stream.
THEOREM NoJobRunsTwice == Spec => []JobsRunOnce
<1>1. IInv => JobsRunOnce
  BY DEF IInv, PlaceInv, JobsRunOnce
<1> QED
  BY <1>1, Invariance, PTL

\* When main goes on every job file has been run, but for those a thread
\* gave up on and those whose name a backup has cut.
THEOREM NoJobIsForgotten == Spec => []AllJobsRun
<1>1. IInv /\ Admitted => AllJobsRun
  <2> SUFFICES ASSUME IInv, Admitted, mainpc # "join",
                      NEW u \in Threads, jpc[u] # "failed",
                      NEW f \in JobFiles
               PROVE  \/ started[f] = 1
                      \/ ~PathFits(f)
                      \/ Len(Chunks) > 1 /\ f \in cut
                      \/ \E t \in Threads : jpc[t] = "failed" /\ in_path[t] = f
    BY DEF AllJobsRun
  <2>1. \A t \in Threads : jpc[t] \in {"exit", "failed"}
    BY DEF IInv, AdmissionInv, Admitted
  <2>2. Ahead = {}
    BY <2>1 DEF IInv, EndInv
  <2> QED
    BY <2>1, <2>2 DEF IInv, CoverInv, Lost
<1> QED
  BY <1>1, Invariance, AdmissionHolds, PTL

-----------------------------------------------------------------------------
(* What a backup's file is called. *)

LEMMA Literals ==
    /\ BackupExtension \in Seq(Characters) /\ Len(BackupExtension) = 4
    /\ BackupExtension[1] = Dot
    /\ "/" \in Characters /\ Dash \in Characters /\ Digits \subseteq Characters
    /\ Dot \notin Digits /\ Dash \notin Digits /\ Dot # Dash
<1>1. {Dot, Dash, "/"} \cup Digits \subseteq Characters
  BY JobsAssumption
<1>2. \A i \in 1 .. 4 : BackupExtension[i] \in Characters
  BY JobsAssumption
<1>3. Len(BackupExtension) = 4 /\ BackupExtension = [i \in 1 .. 4 |-> BackupExtension[i]]
  BY DEF BackupExtension
<1>4. BackupExtension[1] = Dot
  BY DEF BackupExtension, Dot
<1>5. Dot \notin Digits /\ Dash \notin Digits /\ Dot # Dash
  BY DEF Dot, Dash, Digits
<1>6. BackupExtension \in Seq(Characters)
  BY <1>2, <1>3, SeqDef
<1> QED
  BY <1>1, <1>3, <1>4, <1>5, <1>6

\* Words over fewer symbols are words.
LEMMA WordsAre ==
    ASSUME NEW S, NEW T, S \subseteq T, NEW w \in Seq(S)
    PROVE  w \in Seq(T)
<1>1. w \in [1 .. Len(w) -> S] /\ Len(w) \in Nat
  BY LenProperties
<1>2. w \in [1 .. Len(w) -> T]
  BY <1>1
<1> QED
  BY <1>1, <1>2, SeqDef

\* One sequence put behind another.
LEMMA Behind ==
    ASSUME NEW S, NEW a \in Seq(S), NEW b \in Seq(S)
    PROVE  /\ a \o b \in Seq(S) /\ Len(a) \in Nat /\ Len(b) \in Nat
           /\ Len(a \o b) = Len(a) + Len(b)
           /\ \A i \in 1 .. Len(a) : (a \o b)[i] = a[i]
           /\ \A i \in 1 .. Len(b) : (a \o b)[Len(a) + i] = b[i]
<1>1. /\ a \o b \in Seq(S) /\ Len(a \o b) = Len(a) + Len(b)
      /\ \A i \in 1 .. Len(a) + Len(b) :
            (a \o b)[i] = IF i <= Len(a) THEN a[i] ELSE b[i - Len(a)]
  BY ConcatProperties
<1>2. Len(a) \in Nat /\ Len(b) \in Nat
  BY LenProperties
<1>3. ASSUME NEW i \in 1 .. Len(b)
      PROVE  /\ Len(a) + i \in 1 .. Len(a) + Len(b) /\ ~(Len(a) + i <= Len(a))
             /\ (Len(a) + i) - Len(a) = i
  BY <1>2
<1>4. \A i \in 1 .. Len(b) : (a \o b)[Len(a) + i] = b[i]
  BY <1>1, <1>3
<1> QED
  BY <1>1, <1>2, <1>4

\* The parts of the path, by positions.
LEMMA PathIs ==
    ASSUME NEW token \in Tokens, NEW n \in 1 .. MostBackups
    PROVE  LET k == Len(directory) + 1
               t == Len(token)
               d == Len(Numeral[n])
               path == BackupPath(token, n)
           IN  /\ k \in Nat /\ t \in Nat /\ d \in Nat
               /\ path \in Seq(Characters) /\ Len(path) = k + t + 1 + d + 4
               /\ \A i \in 1 .. t : path[k + i] # Dot
               /\ path[k + t + 1] = Dash
               /\ \A i \in 1 .. d : /\ path[k + t + 1 + i] = Numeral[n][i]
                                    /\ path[k + t + 1 + i] \in Digits
               /\ path[k + t + 1 + d + 1] = Dot
<1>0. PICK k, t, d, path : /\ k = Len(directory) + 1 /\ t = Len(token)
                          /\ d = Len(Numeral[n]) /\ path = BackupPath(token, n)
  OBVIOUS
<1>1. PICK slash, dash : slash = <<"/">> /\ dash = <<Dash>>
  OBVIOUS
<1>2. slash \in Seq(Characters) /\ Len(slash) = 1
  BY <1>1, Literals
<1>3. dash \in Seq(Characters) /\ Len(dash) = 1 /\ dash[1] = Dash
  BY <1>1, Literals
<1>4. PICK p1, p2, p3, p4 :
         /\ p1 = directory \o slash /\ p2 = p1 \o token
         /\ p3 = p2 \o dash /\ p4 = p3 \o Numeral[n]
  OBVIOUS
<1>5. path = p4 \o BackupExtension
  BY <1>0, <1>1, <1>4 DEF BackupPath
<1>6. token \in Seq(Characters) /\ t \in Nat /\ \A i \in 1 .. t : token[i] # Dot
  <2>1. token \in Seq(Characters \ {Dot})
    BY DEF Tokens
  <2>2. t \in Nat /\ \A i \in 1 .. t : token[i] \in Characters \ {Dot}
    BY <1>0, <2>1, LenProperties, ElementOfSeq
  <2>3. token \in Seq(Characters)
    BY <2>1, WordsAre
  <2> QED
    BY <2>2, <2>3
<1>7. Numeral[n] \in Seq(Characters) /\ d \in Nat /\ \A i \in 1 .. d : Numeral[n][i] \in Digits
  <2>1. Numeral[n] \in Seq(Digits)
    BY JobsAssumption
  <2>2. d \in Nat /\ \A i \in 1 .. d : Numeral[n][i] \in Digits
    BY <1>0, <2>1, LenProperties, ElementOfSeq
  <2>3. Numeral[n] \in Seq(Characters)
    BY <2>1, WordsAre, Literals
  <2> QED
    BY <2>2, <2>3
<1>8. p1 \in Seq(Characters) /\ Len(p1) = k /\ k \in Nat
  <2>1. directory \in Seq(Characters)
    BY JobsAssumption
  <2>2. /\ directory \o slash \in Seq(Characters) /\ Len(directory) \in Nat
        /\ Len(directory \o slash) = Len(directory) + Len(slash)
    BY <1>2, <2>1, Behind
  <2> QED
    BY <1>0, <1>2, <1>4, <2>2
<1>9. /\ p2 \in Seq(Characters) /\ Len(p2) = k + t
      /\ \A i \in 1 .. t : p2[k + i] = token[i]
  <2>1. /\ p1 \o token \in Seq(Characters) /\ Len(p1 \o token) = Len(p1) + Len(token)
        /\ \A i \in 1 .. Len(token) : (p1 \o token)[Len(p1) + i] = token[i]
    <3>1. p1 \in Seq(Characters) /\ token \in Seq(Characters)
      BY <1>6, <1>8
    <3> QED
      BY <3>1, Behind
  <2> QED
    BY <1>0, <1>4, <1>8, <2>1
<1>10. PICK l : l = k + t
  OBVIOUS
<1>11. /\ p3 \in Seq(Characters) /\ Len(p3) = l + 1 /\ l \in Nat
       /\ \A i \in 1 .. l : p3[i] = p2[i]
       /\ p3[l + 1] = Dash
  <2>1. /\ p2 \o dash \in Seq(Characters) /\ Len(p2) \in Nat
        /\ Len(p2 \o dash) = Len(p2) + Len(dash)
        /\ \A i \in 1 .. Len(p2) : (p2 \o dash)[i] = p2[i]
        /\ \A i \in 1 .. Len(dash) : (p2 \o dash)[Len(p2) + i] = dash[i]
    BY <1>3, <1>9, Behind
  <2>2. 1 \in 1 .. Len(dash) /\ l = Len(p2)
    BY <1>3, <1>9, <1>10
  <2> QED
    BY <1>3, <1>4, <2>1, <2>2
<1>12. PICK e : e = l + 1
  OBVIOUS
<1>13. /\ p4 \in Seq(Characters) /\ Len(p4) = e + d /\ e \in Nat
       /\ \A i \in 1 .. e : p4[i] = p3[i]
       /\ \A i \in 1 .. d : p4[e + i] = Numeral[n][i]
  <2>1. /\ p3 \o Numeral[n] \in Seq(Characters) /\ Len(p3) \in Nat
        /\ Len(p3 \o Numeral[n]) = Len(p3) + Len(Numeral[n])
        /\ \A i \in 1 .. Len(p3) : (p3 \o Numeral[n])[i] = p3[i]
        /\ \A i \in 1 .. Len(Numeral[n]) :
              (p3 \o Numeral[n])[Len(p3) + i] = Numeral[n][i]
    <3>1. p3 \in Seq(Characters) /\ Numeral[n] \in Seq(Characters)
      BY <1>7, <1>11
    <3> QED
      BY <3>1, Behind
  <2> QED
    BY <1>0, <1>4, <1>11, <1>12, <2>1
<1>14. PICK f : f = e + d
  OBVIOUS
<1>15. /\ path \in Seq(Characters) /\ Len(path) = f + 4 /\ f \in Nat
       /\ \A i \in 1 .. f : path[i] = p4[i]
       /\ path[f + 1] = Dot
  <2>1. /\ p4 \o BackupExtension \in Seq(Characters) /\ Len(p4) \in Nat
        /\ Len(p4 \o BackupExtension) = Len(p4) + Len(BackupExtension)
        /\ \A i \in 1 .. Len(p4) : (p4 \o BackupExtension)[i] = p4[i]
        /\ \A i \in 1 .. Len(BackupExtension) :
              (p4 \o BackupExtension)[Len(p4) + i] = BackupExtension[i]
    <3>1. p4 \in Seq(Characters) /\ BackupExtension \in Seq(Characters)
      BY <1>13, Literals
    <3> QED
      BY <3>1, Behind
  <2>2. 1 \in 1 .. Len(BackupExtension) /\ Len(BackupExtension) = 4 /\ f = Len(p4)
    BY <1>13, <1>14, Literals
  <2> QED
    BY <1>5, <2>1, <2>2, Literals
<1>16. ASSUME NEW i \in 1 .. t PROVE path[k + i] # Dot
  <2>1. k + i \in 1 .. f /\ k + i \in 1 .. e /\ k + i \in 1 .. l
    BY <1>6, <1>7, <1>8, <1>10, <1>12, <1>14
  <2>2. path[k + i] = p4[k + i] /\ p4[k + i] = p3[k + i] /\ p3[k + i] = p2[k + i]
    BY <1>11, <1>13, <1>15, <2>1
  <2> QED
    BY <1>6, <1>9, <2>2
<1>17. path[e] = Dash
  <2>1. e \in 1 .. f /\ e \in 1 .. e
    BY <1>7, <1>11, <1>12, <1>14
  <2> QED
    BY <1>11, <1>12, <1>13, <1>15, <2>1
<1>18. ASSUME NEW i \in 1 .. d
       PROVE  path[e + i] = Numeral[n][i] /\ path[e + i] \in Digits
  <2>1. e + i \in 1 .. f
    BY <1>7, <1>13, <1>14
  <2> QED
    BY <1>7, <1>13, <1>15, <2>1
<1>19. e = k + t + 1 /\ f = k + t + 1 + d
  BY <1>10, <1>12, <1>14
<1>20. Len(path) = k + t + 1 + d + 4 /\ path[k + t + 1 + d + 1] = Dot
  BY <1>15, <1>19
<1>21. path[k + t + 1] = Dash
  BY <1>17, <1>19
<1>22. \A i \in 1 .. d : /\ path[k + t + 1 + i] = Numeral[n][i]
                         /\ path[k + t + 1 + i] \in Digits
  BY <1>18, <1>19
<1> QED
  BY <1>0, <1>6, <1>7, <1>8, <1>15, <1>16, <1>20, <1>21, <1>22

\* bck_name has room for its terminator.
LEMMA RoomInName == BCK_NAME_SIZE \in Nat \ {0}
  BY ONLY JobsAssumption, Zenon

\* What bck_name holds of it.
LEMMA PrintedIs ==
    ASSUME NEW path \in Seq(Characters)
    PROVE  /\ Len(path) \in Nat /\ Len(Printed(path)) \in Nat
           /\ Len(Printed(path)) = IF BCK_NAME_SIZE - 1 < Len(path)
                                   THEN BCK_NAME_SIZE - 1 ELSE Len(path)
           /\ \A i \in 1 .. Len(Printed(path)) : Printed(path)[i] = path[i]
<1>0. PICK m : m = BCK_NAME_SIZE - 1
  OBVIOUS
<1> DEFINE l == Least(m, Len(path))
<1>1. m \in Nat /\ Len(path) \in Nat
  BY <1>0, RoomInName, LenProperties
<1>2. l \in Nat /\ l <= Len(path) /\ l = IF m < Len(path) THEN m ELSE Len(path)
  BY <1>1 DEF Least
<1>3. Printed(path) = SubSeq(path, 1, l)
  BY <1>0 DEF Printed
<1> HIDE DEF l
<1>4. \A i \in 1 .. l : path[i] \in Characters
  BY <1>1, <1>2, ElementOfSeq
<1>5. /\ Len(SubSeq(path, 1, l)) = l
      /\ \A i \in 1 .. l : SubSeq(path, 1, l)[i] = path[i]
  BY <1>1, <1>2, <1>4, SubSeqProperties
<1> QED
  BY <1>0, <1>1, <1>2, <1>3, <1>5

\* Where a number that is whole ends: behind it is a dot, or nothing, and no
\* dot is in the other's token or number.
LEMMA NumbersEnd ==
    ASSUME NEW a \in Tokens, NEW b \in Tokens,
           NEW m \in 1 .. MostBackups, NEW n \in 1 .. MostBackups,
           Printed(BackupPath(a, m)) = Printed(BackupPath(b, n)),
           NumberIsWhole(BackupPath(a, m)), NumberIsWhole(BackupPath(b, n))
    PROVE  ~(Len(a) + Len(Numeral[m]) < Len(b) + Len(Numeral[n]))
<1>0. PICK k, x, p, q : /\ k = Len(directory) + 1 /\ x = BCK_NAME_SIZE - 1
                       /\ p = BackupPath(a, m) /\ q = BackupPath(b, n)
  OBVIOUS
<1>30. Printed(p) = Printed(q) /\ NumberIsWhole(p) /\ NumberIsWhole(q)
  BY <1>0
<1> SUFFICES ASSUME Len(a) + Len(Numeral[m]) < Len(b) + Len(Numeral[n]) PROVE FALSE
  OBVIOUS
<1>1. PICK s, t, c, d : s = Len(a) /\ t = Len(b) /\ c = Len(Numeral[m]) /\ d = Len(Numeral[n])
  OBVIOUS
<1>2. /\ k \in Nat /\ s \in Nat /\ c \in Nat
      /\ p \in Seq(Characters) /\ Len(p) = k + s + 1 + c + 4
      /\ p[k + s + 1 + c + 1] = Dot
  BY <1>0, <1>1, PathIs
<1>3. /\ t \in Nat /\ d \in Nat
      /\ q \in Seq(Characters) /\ Len(q) = k + t + 1 + d + 4
      /\ \A i \in 1 .. t : q[k + i] # Dot
      /\ q[k + t + 1] = Dash
      /\ \A i \in 1 .. d : q[k + t + 1 + i] \in Digits
  BY <1>0, <1>1, PathIs
<1>31. k \in Nat /\ s \in Nat /\ c \in Nat /\ t \in Nat /\ d \in Nat
  BY <1>2, <1>3
<1> DEFINE i == k + s + 1 + c + 1
<1>4. BCK_NAME_SIZE \in Nat /\ x \in Nat /\ BCK_NAME_SIZE = x + 1
  BY <1>0, RoomInName
<1>5. k + t + 1 + d <= x
  <2>1. Len(q) - Len(BackupExtension) < BCK_NAME_SIZE
    BY <1>30 DEF NumberIsWhole
  <2>2. Len(q) = k + t + 1 + d + 4 /\ Len(BackupExtension) = 4
    BY <1>3, Literals
  <2> QED
    BY <1>31, <1>4, <2>1, <2>2
<1>6. i <= k + t + 1 + d /\ i >= k + 2 /\ i \in Nat
  <2>1. s + c < t + d
    BY <1>1
  <2> QED
    BY <1>31, <2>1
<1>7. i \in 1 .. Len(Printed(p)) /\ i \in 1 .. Len(Printed(q))
  <2>1. Len(Printed(p)) = IF x < Len(p) THEN x ELSE Len(p)
    BY <1>2, PrintedIs, <1>0
  <2>2. Len(Printed(q)) = IF x < Len(q) THEN x ELSE Len(q)
    BY <1>3, PrintedIs, <1>0
  <2> QED
    BY <1>30, <1>2, <1>3, <1>4, <1>5, <1>6, <2>1, <2>2
<1>8. Printed(p)[i] = p[i] /\ Printed(q)[i] = q[i]
  BY <1>2, <1>3, <1>7, PrintedIs, <1>0
<1>9. q[i] = Dot
  BY <1>30, <1>2, <1>8
<1> HIDE DEF i
<1>10. CASE i <= k + t
  <2>1. i - k \in 1 .. t /\ k + (i - k) = i
    BY <1>2, <1>3, <1>6, <1>10
  <2> QED
    BY <1>3, <1>9, <2>1
<1>11. CASE i = k + t + 1
  BY <1>3, <1>9, <1>11, Literals
<1>12. CASE i > k + t + 1
  <2>1. i - (k + t + 1) \in 1 .. d /\ k + t + 1 + (i - (k + t + 1)) = i
    BY <1>2, <1>3, <1>6, <1>12
  <2> QED
    BY <1>3, <1>9, <2>1, Literals
<1> QED
  BY <1>2, <1>3, <1>6, <1>10, <1>11, <1>12

\* Nor does one token reach into the other's number: no digit is a dash.
LEMMA NumbersBegin ==
    ASSUME NEW a \in Tokens, NEW b \in Tokens,
           NEW m \in 1 .. MostBackups, NEW n \in 1 .. MostBackups,
           Printed(BackupPath(a, m)) = Printed(BackupPath(b, n)),
           NumberIsWhole(BackupPath(a, m)), NumberIsWhole(BackupPath(b, n)),
           Len(a) + Len(Numeral[m]) = Len(b) + Len(Numeral[n])
    PROVE  ~(Len(a) < Len(b))
<1>0. PICK k, x, p, q : /\ k = Len(directory) + 1 /\ x = BCK_NAME_SIZE - 1
                       /\ p = BackupPath(a, m) /\ q = BackupPath(b, n)
  OBVIOUS
<1>30. Printed(p) = Printed(q) /\ NumberIsWhole(p) /\ NumberIsWhole(q)
  BY <1>0
<1> SUFFICES ASSUME Len(a) < Len(b) PROVE FALSE
  OBVIOUS
<1>1. PICK s, t, c, d : s = Len(a) /\ t = Len(b) /\ c = Len(Numeral[m]) /\ d = Len(Numeral[n])
  OBVIOUS
<1>2. /\ k \in Nat /\ s \in Nat /\ c \in Nat
      /\ p \in Seq(Characters) /\ Len(p) = k + s + 1 + c + 4
      /\ \A i \in 1 .. c : p[k + s + 1 + i] \in Digits
  BY <1>0, <1>1, PathIs
<1>3. /\ t \in Nat /\ d \in Nat
      /\ q \in Seq(Characters) /\ Len(q) = k + t + 1 + d + 4
      /\ q[k + t + 1] = Dash
  BY <1>0, <1>1, PathIs
<1>31. k \in Nat /\ s \in Nat /\ c \in Nat /\ t \in Nat /\ d \in Nat
  BY <1>2, <1>3
<1> DEFINE i == k + t + 1
<1>4. BCK_NAME_SIZE \in Nat /\ x \in Nat /\ BCK_NAME_SIZE = x + 1
  BY <1>0, RoomInName
<1>5. k + t + 1 + d <= x
  <2>1. Len(q) - Len(BackupExtension) < BCK_NAME_SIZE
    BY <1>30 DEF NumberIsWhole
  <2>2. Len(q) = k + t + 1 + d + 4 /\ Len(BackupExtension) = 4
    BY <1>3, Literals
  <2> QED
    BY <1>31, <1>4, <2>1, <2>2
<1>6. i <= k + t + 1 + d /\ i \in Nat /\ i >= 1
  BY <1>31
<1>7. i \in 1 .. Len(Printed(p)) /\ i \in 1 .. Len(Printed(q))
  <2>1. Len(Printed(p)) = IF x < Len(p) THEN x ELSE Len(p)
    BY <1>2, PrintedIs, <1>0
  <2>2. Len(Printed(q)) = IF x < Len(q) THEN x ELSE Len(q)
    BY <1>3, PrintedIs, <1>0
  <2>3. s + c = t + d
    BY <1>1
  <2> QED
    BY <1>30, <1>2, <1>3, <1>4, <1>5, <1>6, <2>1, <2>2, <2>3
<1>8. Printed(p)[i] = p[i] /\ Printed(q)[i] = q[i]
  BY <1>2, <1>3, <1>7, PrintedIs, <1>0
<1>9. p[i] = Dash
  BY <1>30, <1>3, <1>8
<1>10. i - (k + s + 1) \in 1 .. c /\ k + s + 1 + (i - (k + s + 1)) = i
  <2>1. s < t /\ s + c = t + d
    BY <1>1
  <2> QED
    BY <1>2, <1>3, <2>1
<1> HIDE DEF i
<1> QED
  BY <1>2, <1>9, <1>10, Literals

\* So the file tells the number of the backup.
LEMMA FileTellsNumber ==
    ASSUME NEW a \in Tokens, NEW b \in Tokens,
           NEW m \in 1 .. MostBackups, NEW n \in 1 .. MostBackups,
           Printed(BackupPath(a, m)) = Printed(BackupPath(b, n)),
           NumberIsWhole(BackupPath(a, m)), NumberIsWhole(BackupPath(b, n))
    PROVE  m = n
<1>0. PICK k, x, p, q : /\ k = Len(directory) + 1 /\ x = BCK_NAME_SIZE - 1
                       /\ p = BackupPath(a, m) /\ q = BackupPath(b, n)
  OBVIOUS
<1>30. Printed(p) = Printed(q) /\ NumberIsWhole(p) /\ NumberIsWhole(q)
  BY <1>0
<1>1. PICK s, t, c, d : s = Len(a) /\ t = Len(b) /\ c = Len(Numeral[m]) /\ d = Len(Numeral[n])
  OBVIOUS
<1>2. /\ k \in Nat /\ s \in Nat /\ c \in Nat
      /\ p \in Seq(Characters) /\ Len(p) = k + s + 1 + c + 4
      /\ \A i \in 1 .. c : p[k + s + 1 + i] = Numeral[m][i]
  BY <1>0, <1>1, PathIs
<1>3. /\ t \in Nat /\ d \in Nat
      /\ q \in Seq(Characters) /\ Len(q) = k + t + 1 + d + 4
      /\ \A i \in 1 .. d : q[k + t + 1 + i] = Numeral[n][i]
  BY <1>0, <1>1, PathIs
<1>31. k \in Nat /\ s \in Nat /\ c \in Nat /\ t \in Nat /\ d \in Nat
  BY <1>2, <1>3
<1>4. s + c = t + d
  <2>1. ~(s + c < t + d) /\ ~(t + d < s + c)
    BY <1>1, NumbersEnd
  <2> QED
    BY <1>31, <2>1
<1>5. s = t /\ c = d
  <2>1. ~(s < t) /\ ~(t < s)
    BY <1>1, <1>4, NumbersBegin
  <2> QED
    BY <1>2, <1>3, <1>4, <2>1
<1>6. BCK_NAME_SIZE \in Nat /\ x \in Nat /\ BCK_NAME_SIZE = x + 1
  BY <1>0, RoomInName
<1>7. k + s + 1 + c <= x
  BY <1>30, <1>2, <1>6, Literals DEF NumberIsWhole
<1>8. ASSUME NEW i \in 1 .. c PROVE Numeral[m][i] = Numeral[n][i]
  <2> DEFINE j == k + s + 1 + i
  <2>1. j \in 1 .. Len(Printed(p)) /\ j \in 1 .. Len(Printed(q))
    <3>1. Len(Printed(p)) = IF x < Len(p) THEN x ELSE Len(p)
      BY <1>2, PrintedIs, <1>0
    <3>2. Len(Printed(q)) = IF x < Len(q) THEN x ELSE Len(q)
      BY <1>3, PrintedIs, <1>0
    <3> QED
      BY <1>2, <1>3, <1>5, <1>6, <1>7, <3>1, <3>2
  <2>2. Printed(p)[j] = p[j] /\ Printed(q)[j] = q[j]
    BY <1>2, <1>3, <2>1, PrintedIs, <1>0
  <2> QED
    BY <1>30, <1>2, <1>3, <1>5, <2>2
<1>9. Numeral[m] = Numeral[n]
  <2>1. Numeral[m] \in Seq(Digits) /\ Numeral[n] \in Seq(Digits)
    BY JobsAssumption
  <2> QED
    BY <1>1, <1>5, <1>8, <2>1, SeqEqual
<1>10. \A i, j \in 1 .. MostBackups : Numeral[i] = Numeral[j] => i = j
  BY JobsAssumption
<1> QED
  BY <1>9, <1>10

\* Two backups of one job never share a file while bck_name has room for
\* their numbers, and while the directory fits the stream's buffer a file has
\* the name of its own job.
THEOREM BackupsAreNamed == Spec => []BackupsHaveTheirFile
<1>1. IInv => BackupsHaveTheirFile
  <2> SUFFICES ASSUME IInv PROVE BackupsHaveTheirFile
    OBVIOUS
  <2>0. WrittenInv
    BY DEF IInv
  <2>1. ASSUME NEW b \in written, NEW c \in written,
               b.job = c.job, b.file = c.file, b.whole, c.whole
        PROVE  b = c
    <3>1. PICK u \in Tokens :
             b = Backed(b.job, u, b.nth) /\ b.nth \in 1 .. MostBackups
      BY <2>0 DEF WrittenInv
    <3>2. PICK v \in Tokens :
             c = Backed(c.job, v, c.nth) /\ c.nth \in 1 .. MostBackups
      BY <2>0 DEF WrittenInv
    <3>3. b.file = Printed(BackupPath(u, b.nth)) /\ b.whole = NumberIsWhole(BackupPath(u, b.nth))
      BY <3>1 DEF Backed
    <3>4. c.file = Printed(BackupPath(v, c.nth)) /\ c.whole = NumberIsWhole(BackupPath(v, c.nth))
      BY <3>2 DEF Backed
    <3>5. b.nth = c.nth
      BY <2>1, <3>1, <3>2, <3>3, <3>4, FileTellsNumber
    <3>6. NumberIsWhole(BackupPath(u, b.nth)) = NumberIsWhole(BackupPath(v, c.nth))
      BY <2>1, <3>3, <3>4 DEF NumberIsWhole
    <3>7. Backed(b.job, u, b.nth) = Backed(c.job, v, c.nth)
      BY <2>1, <3>3, <3>4, <3>5, <3>6 DEF Backed
    <3> QED
      BY <3>1, <3>2, <3>7
  <2>2. ASSUME chunk <= 1, NEW b \in written
        PROVE  b.file = Printed(BackupPath(Token(b.job), b.nth))
    BY <2>0, <2>2 DEF WrittenInv, Backed
  <2> QED
    BY <2>1, <2>2 DEF BackupsHaveTheirFile
<1> QED
  BY <1>1, Invariance, PTL
=============================================================================
