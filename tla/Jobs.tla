-------------------------------- MODULE Jobs --------------------------------
(***************************************************************************)
(* The job phase of server/main.c: max_threads threads share one directory *)
(* stream.  Each takes the next job file out of it under directory_mutex,  *)
(* runs the file's commands, and comes back for another; main joins them,  *)
(* reaps their backups and goes on to serve clients.                       *)
(*                                                                         *)
(* Of a job's commands only BACKUP matters here; its admission is Backups, *)
(* whose steps are taken inside run_job.                                   *)
(*                                                                         *)
(* readdir returns a pointer into the stream's buffer, which the C library *)
(* refills when it is used up.  A thread keeps that pointer during the     *)
(* whole job: kvs_backup reads the file's name through it, and strtok      *)
(* writes a terminator into it.                                            *)
(***************************************************************************)
EXTENDS Integers, Sequences, FiniteSets

CONSTANTS
    Threads, MaxBackups, NoThread,  \* as in Backups
    Characters,              \* of file names
    directory,               \* the path of the jobs, as main was given it
    MAX_JOB_FILE_NAME_SIZE,  \* 256 in constants.h
    BCK_NAME_SIZE,           \* 50 in operations.c
    Numeral,                 \* how %ld prints 1, 2, ... up to MostBackups
    MostBackups,             \* of one job, a bound
    NullText,                \* what %s prints for NULL
    Chunks,      \* the directory, in the portions that fit the buffer
    BackupsIn,   \* how many BACKUP commands a job file holds
    Nothing      \* not a name

Dot == "."
Dash == "-"
Digits == {"0", "1", "2", "3", "4", "5", "6", "7", "8", "9"}
JobExtension == <<".", "j", "o", "b">>
BackupExtension == <<".", "b", "c", "k">>

\* A d_name as strtok divides it at dots: those it skips, the token, and the
\* rest, from the next dot on.
Name ==
    {name \in [dots : Seq({Dot}), stem : Seq(Characters \ {Dot}), rest : Seq(Characters)] :
        name.rest = <<>> \/ (name.stem # <<>> /\ name.rest[1] = Dot)}

d_name(name) == name.dots \o name.stem \o name.rest

\* The token, NULL in "." and "..", and what strtok leaves of the name.
Token(name) == IF name.stem = <<>> THEN NullText ELSE name.stem
CutOff(name) == [name EXCEPT !.rest = <<>>]

\* entry_files: from its last dot on, which is not its first character, the
\* name is ".job".
IsJob(name) ==
    LET d == d_name(name)
    IN  /\ Len(d) > Len(JobExtension)
        /\ SubSeq(d, Len(d) - Len(JobExtension) + 1, Len(d)) = JobExtension

\* And the path has room in in_path.
PathFits(name) == Len(d_name(name)) + Len(directory) + 2 <= MAX_JOB_FILE_NAME_SIZE

\* kvs_backup: the path snprintf is to print, and what bck_name can hold of it.
BackupPath(token, n) ==
    directory \o <<"/">> \o token \o <<Dash>> \o Numeral[n] \o BackupExtension
Least(m, n) == IF m < n THEN m ELSE n
Printed(path) == SubSeq(path, 1, Least(BCK_NAME_SIZE - 1, Len(path)))

\* The number has not been cut off.
NumberIsWhole(path) == Len(path) - Len(BackupExtension) < BCK_NAME_SIZE

Entries == UNION {{Chunks[c][i] : i \in DOMAIN Chunks[c]} : c \in DOMAIN Chunks}

JobFiles == {f \in Entries : IsJob(f)}

\* No file is called ...job.job, of which strtok would leave a job's name.
ASSUME JobsAssumption ==
    /\ IsFiniteSet(Threads) /\ Threads # {} /\ NoThread \notin Threads
    /\ MaxBackups \in Nat \ {0}
    /\ directory \in Seq(Characters) /\ NullText \in Seq(Characters \ {Dot})
    /\ MAX_JOB_FILE_NAME_SIZE \in Nat /\ BCK_NAME_SIZE \in Nat \ {0}
    /\ {Dot, Dash, "/"} \cup Digits \subseteq Characters
    /\ {JobExtension[i] : i \in 1 .. 4} \cup {BackupExtension[i] : i \in 1 .. 4}
          \subseteq Characters
    /\ MostBackups \in Nat /\ Numeral \in [1 .. MostBackups -> Seq(Digits)]
    /\ \A m, n \in 1 .. MostBackups : Numeral[m] = Numeral[n] => m = n
    /\ Chunks \in Seq(Seq(Name) \ {<<>>})
    /\ \A f \in Entries : ~IsJob(CutOff(f))
    /\ \A c, d \in DOMAIN Chunks :
          \A i \in DOMAIN Chunks[c], j \in DOMAIN Chunks[d] :
             Chunks[c][i] = Chunks[d][j] => c = d /\ i = j
    /\ BackupsIn \in [JobFiles -> 0 .. MostBackups]
    /\ Nothing \notin Name

VARIABLES
    bpc, backupsLock, active_backups,  \* as in Backups
    running, zombies, mainpc,          \* as in Backups
    directory_mutex, \* its owner
    buffer,          \* contents of the stream's buffer
    chunk,           \* how many portions have been read into it
    slot,            \* where in the buffer the next entry is
    jpc,             \* where each thread stands in get_file
    entry,           \* the slot each thread got from readdir
    in_path,         \* the name it has copied
    commands,        \* BACKUP commands its job still holds
    file_backups     \* BACKUP commands carried out

\* History, for the properties only.
VARIABLES
    started,  \* how often each job file was opened and run
    written,  \* the backups made: job, number of its BACKUP, name of the file,
              \* and whether the number is still in that name
    cut       \* names in the buffer, not the job's own, that a backup has cut

Admission == INSTANCE Backups

admissionVars ==
    <<bpc, backupsLock, active_backups, running, zombies, mainpc>>
streamVars == <<buffer, chunk, slot>>
jobVars == <<in_path, commands, file_backups>>
historyVars == <<started, written, cut>>

vars == <<admissionVars, directory_mutex, streamVars, jpc, entry, jobVars,
          historyVars>>

Init ==
    /\ Admission!Init
    /\ directory_mutex = NoThread
    /\ buffer = <<>> /\ chunk = 0 /\ slot = 1
    /\ jpc = [t \in Threads |-> "lock"]
    /\ entry = [t \in Threads |-> 1]
    /\ in_path = [t \in Threads |-> Nothing]
    /\ commands = [t \in Threads |-> 0]
    /\ file_backups = [t \in Threads |-> 0]
    /\ started = [f \in JobFiles |-> 0]
    /\ written = {}
    /\ cut = {}

Goto(t, from, to) == jpc[t] = from /\ jpc' = [jpc EXCEPT ![t] = to]

-----------------------------------------------------------------------------
(* get_file: the directory. *)

\* MUTANT: directory_mutex is not taken.
LockUnguarded(t) ==
    /\ Goto(t, "lock", "readdir")
    /\ directory_mutex' = t
    /\ UNCHANGED <<admissionVars, streamVars, entry, jobVars, historyVars>>

Lock(t) ==
    /\ directory_mutex = NoThread
    /\ Goto(t, "lock", "readdir")
    /\ directory_mutex' = t
    /\ UNCHANGED <<admissionVars, streamVars, entry, jobVars, historyVars>>

Filled == IF chunk = 0 THEN 0 ELSE Len(Chunks[chunk])

ReadNext(t) ==
    /\ slot <= Filled
    /\ Goto(t, "readdir", "copy")
    /\ entry' = [entry EXCEPT ![t] = slot]
    /\ slot' = slot + 1
    /\ UNCHANGED <<admissionVars, directory_mutex, buffer, chunk, jobVars,
                   historyVars>>

\* The buffer is used up: the next portion of the directory replaces what
\* the last one put there.
Refill(t) ==
    /\ slot > Filled /\ chunk < Len(Chunks)
    /\ Goto(t, "readdir", "copy")
    /\ LET portion == Chunks[chunk + 1]
       IN  buffer' = portion \o SubSeq(buffer, Len(portion) + 1, Len(buffer))
    /\ chunk' = chunk + 1
    /\ entry' = [entry EXCEPT ![t] = 1]
    /\ slot' = 2
    /\ UNCHANGED <<admissionVars, directory_mutex, jobVars, historyVars>>

EndOfDirectory(t) ==
    /\ slot > Filled /\ chunk = Len(Chunks)
    /\ Goto(t, "readdir", "leave")
    /\ UNCHANGED <<admissionVars, directory_mutex, streamVars, entry, jobVars,
                   historyVars>>

\* MUTANT: a file that is not a job ends the loop.
StopAtStranger(t) ==
    LET name == buffer[entry[t]]
        found == IsJob(name) /\ PathFits(name)
    IN  /\ Goto(t, "copy", IF found THEN "unlock" ELSE "leave")
        /\ in_path' = IF found THEN [in_path EXCEPT ![t] = name] ELSE in_path
        /\ UNCHANGED <<admissionVars, directory_mutex, streamVars, entry,
                       commands, file_backups, historyVars>>

\* entry_files, on the name in the buffer: a file that is not a job, or whose
\* path is too long, is passed over.
CopyName(t) ==
    LET name == buffer[entry[t]]
        found == IsJob(name) /\ PathFits(name)
    IN  /\ Goto(t, "copy", IF found THEN "unlock" ELSE "readdir")
        /\ in_path' = IF found THEN [in_path EXCEPT ![t] = name] ELSE in_path
        /\ UNCHANGED <<admissionVars, directory_mutex, streamVars, entry,
                       commands, file_backups, historyVars>>

Unlock(t) ==
    /\ Goto(t, "unlock", "open")
    /\ directory_mutex' = NoThread
    /\ UNCHANGED <<admissionVars, streamVars, entry, jobVars, historyVars>>

\* No entry is left: the thread exits.
Leave(t) ==
    /\ Goto(t, "leave", "exit")
    /\ directory_mutex' = NoThread
    /\ Admission!Finish(t)
    /\ UNCHANGED <<streamVars, entry, jobVars, historyVars>>

-----------------------------------------------------------------------------
(* get_file and run_job: one job. *)

Open(t) ==
    /\ Goto(t, "open", "run")
    /\ commands' = [commands EXCEPT ![t] = BackupsIn[in_path[t]]]
    /\ file_backups' = [file_backups EXCEPT ![t] = 0]
    /\ started' = [started EXCEPT ![in_path[t]] = @ + 1]
    /\ UNCHANGED <<admissionVars, directory_mutex, streamVars, entry, in_path,
                   written, cut>>

\* One of the two files cannot be opened: the thread, not the job, is given
\* up.
OpenFails(t) ==
    /\ Goto(t, "open", "failed")
    /\ Admission!Finish(t)
    /\ UNCHANGED <<directory_mutex, streamVars, entry, jobVars, historyVars>>

Running(t) ==
    /\ jpc[t] = "run"
    /\ UNCHANGED <<directory_mutex, jpc, entry, in_path>>

\* MUTANT: the end of the job file is missed.
BackupAnyway(t) ==
    /\ Running(t)
    /\ Admission!Lock(t)
    /\ UNCHANGED <<streamVars, commands, file_backups, historyVars>>

\* The next BACKUP command of the job.
Backup(t) ==
    /\ Running(t) /\ commands[t] > 0
    /\ Admission!Lock(t)
    /\ UNCHANGED <<streamVars, commands, file_backups, historyVars>>

\* The rest of its admission.
Admit(t) ==
    /\ Running(t)
    /\ \/ Admission!Check(t) \/ Admission!Count(t) \/ Admission!WaitReap(t)
       \/ Admission!WaitNoChild(t) \/ Admission!Unlock(t)
    /\ UNCHANGED <<streamVars, commands, file_backups, historyVars>>

\* strtok on the name in the buffer.
Strtok(t) ==
    /\ buffer' = [buffer EXCEPT ![entry[t]] = CutOff(@)]
    /\ cut' = cut \cup ({buffer[entry[t]]} \ {in_path[t]})
    /\ UNCHANGED <<chunk, slot>>

\* The backup that the thread makes now, numbered n.
Made(t, n) ==
    LET path == BackupPath(Token(buffer[entry[t]]), n)
    IN  [job |-> in_path[t], nth |-> BackupsIn[in_path[t]] - commands[t] + 1,
         file |-> Printed(path), whole |-> NumberIsWhole(path)]

\* MUTANT: the backups of a job are not numbered.
BackupUnnumbered(t) ==
    /\ Running(t)
    /\ Strtok(t)
    /\ commands' = [commands EXCEPT ![t] = @ - 1]
    /\ UNCHANGED <<file_backups, started>>
    /\ \/ Admission!Fork(t) /\ written' = written \cup {Made(t, file_backups[t] + 1)}
       \/ Admission!ForkFails(t) /\ UNCHANGED written

\* kvs_backup, given ++file_backups.
KvsBackup(t) ==
    /\ Running(t)
    /\ Strtok(t)
    /\ commands' = [commands EXCEPT ![t] = @ - 1]
    /\ file_backups' = [file_backups EXCEPT ![t] = @ + 1]
    /\ UNCHANGED started
    /\ \/ Admission!Fork(t) /\ written' = written \cup {Made(t, file_backups'[t])}
       \/ Admission!ForkFails(t) /\ UNCHANGED written

\* The end of the job file.
EndOfJob(t) ==
    /\ bpc[t] = "idle" /\ commands[t] = 0
    /\ Goto(t, "run", "lock")
    /\ UNCHANGED <<admissionVars, directory_mutex, streamVars, entry, jobVars,
                   historyVars>>

-----------------------------------------------------------------------------
JobThread(t) ==
    \/ Lock(t) \/ ReadNext(t) \/ Refill(t) \/ EndOfDirectory(t) \/ CopyName(t)
    \/ Unlock(t) \/ Leave(t)
    \/ Open(t) \/ OpenFails(t)
    \/ Backup(t) \/ Admit(t) \/ KvsBackup(t) \/ EndOfJob(t)

\* Backup children, and main.
Others ==
    /\ Admission!ChildExit \/ Admission!Main
    /\ UNCHANGED <<directory_mutex, streamVars, jpc, entry, jobVars, historyVars>>

Next == (\E t \in Threads : JobThread(t)) \/ Others

Spec == Init /\ [][Next]_vars

\* Threads and main run when they can, and children finish writing.  There
\* are finitely many commands, so no thread is kept from a mutex for ever.
Fairness ==
    /\ \A t \in Threads : WF_vars(JobThread(t))
    /\ WF_vars(Others)

FairSpec == Spec /\ Fairness

-----------------------------------------------------------------------------
(* Properties *)

JobPCs ==
    {"lock", "readdir", "copy", "unlock", "leave", "open", "run", "exit",
     "failed"}

TypeOK ==
    /\ Admission!TypeOK
    /\ directory_mutex \in Threads \cup {NoThread}
    /\ buffer \in Seq(Name)
    /\ chunk \in 0 .. Len(Chunks)
    /\ slot \in Nat \ {0}
    /\ jpc \in [Threads -> JobPCs]
    /\ entry \in [Threads -> Nat \ {0}]
    /\ in_path \in [Threads -> JobFiles \cup {Nothing}]
    /\ commands \in [Threads -> Nat]
    /\ file_backups \in [Threads -> Nat]
    /\ started \in [JobFiles -> Nat]
    /\ cut \subseteq Name

\* No job file is run twice, though all threads read one stream and a second
\* call of readdir may overwrite the name a first one returned.
JobsRunOnce == \A f \in JobFiles : started[f] <= 1

\* When main goes on, every job file has been run, unless every thread gave
\* up on a file it could not open.  A single job is missing only if its path
\* is too long for in_path (which entry_files treats like a file that is no
\* job), if the thread that had it could not open it, or, in a directory
\* larger than the buffer, if a backup of another job has cut its name there.
AllJobsRun ==
    mainpc # "join" =>
       \/ \A f \in JobFiles :
             \/ started[f] = 1
             \/ ~PathFits(f)
             \/ Len(Chunks) > 1 /\ f \in cut
             \/ \E t \in Threads : jpc[t] = "failed" /\ in_path[t] = f
       \/ \A t \in Threads : jpc[t] = "failed"

\* operations.h on kvs_backup: it stores the state "in the correspondent
\* backup file".  Two BACKUP commands of one job never write to the same
\* file, even if the name under `entry' changes between them, as long as
\* bck_name (operations.c:156) has had room for their numbers; and a file is
\* named after another job only once the buffer has been refilled.
BackupsHaveTheirFile ==
    /\ \A b, c \in written :
          b.job = c.job /\ b.file = c.file /\ b.whole /\ c.whole => b = c
    /\ chunk <= 1 => \A b \in written :
          b.file = Printed(BackupPath(Token(b.job), b.nth))

\* The job phase ends: neither wait(NULL) under n_current_backups_lock nor a
\* thread that gives up keeps the others, or main, from finishing.
ServesEventually == <>(mainpc = "serve")
=============================================================================
