------------------------------- MODULE Backups -------------------------------
(***************************************************************************)
(* Admission and reaping of backup processes (server/main.c).              *)
(*                                                                         *)
(* A job thread that meets a BACKUP command takes n_current_backups_lock,  *)
(* and either counts itself in active_backups or, when the count has       *)
(* reached max_backups, calls wait(NULL) WITH THE LOCK HELD; it forks      *)
(* inside kvs_backup, after the lock is released.  Once every job thread   *)
(* has been joined, main waits for one child per counted backup.           *)
(*                                                                         *)
(* Children are interchangeable, so they are counted: `running' children   *)
(* are still writing their file, `zombies' have exited and are not reaped. *)
(***************************************************************************)
EXTENDS Integers, FiniteSets

CONSTANTS
    Threads,     \* the job threads, max_threads of them
    MaxBackups,  \* max_backups, the command-line limit
    NoThread     \* nobody owns n_current_backups_lock

ASSUME BackupsAssumption ==
    /\ IsFiniteSet(Threads) /\ Threads # {}
    /\ MaxBackups \in Nat \ {0}
    /\ NoThread \notin Threads

VARIABLES
    bpc,            \* where each job thread stands in its BACKUP command
    backupsLock,    \* owner of n_current_backups_lock
    active_backups, \* the counter main.c keeps
    running,        \* forked children that have not exited
    zombies,        \* exited children nobody has waited for
    mainpc          \* main: joining job threads, reaping children, serving

vars == <<bpc, backupsLock, active_backups, running, zombies, mainpc>>

\* A thread that may still fork: admitted, kvs_backup not yet carried out.
InFlight == {t \in Threads : bpc[t] \in {"unlock", "fork"}}

Init ==
    /\ bpc = [t \in Threads |-> "idle"]
    /\ backupsLock = NoThread
    /\ active_backups = 0
    /\ running = 0
    /\ zombies = 0
    /\ mainpc = "join"

Goto(t, from, to) == bpc[t] = from /\ bpc' = [bpc EXCEPT ![t] = to]

-----------------------------------------------------------------------------
(* A job thread: case CMD_BACKUP of run_job. *)

\* MUTANT: the lock is not taken.
LockUnguarded(t) ==
    /\ Goto(t, "idle", "check")
    /\ backupsLock' = t
    /\ UNCHANGED <<active_backups, running, zombies, mainpc>>

Lock(t) ==
    /\ backupsLock = NoThread
    /\ Goto(t, "idle", "check")
    /\ backupsLock' = t
    /\ UNCHANGED <<active_backups, running, zombies, mainpc>>

AtLimit == active_backups >= MaxBackups

Check(t) ==
    /\ Goto(t, "check", IF AtLimit THEN "wait" ELSE "count")
    /\ UNCHANGED <<backupsLock, active_backups, running, zombies, mainpc>>

\* MUTANT: the backup is admitted but not counted.
Uncounted(t) ==
    /\ Goto(t, "count", "unlock")
    /\ UNCHANGED <<backupsLock, active_backups, running, zombies, mainpc>>

Count(t) ==
    /\ Goto(t, "count", "unlock")
    /\ active_backups' = active_backups + 1
    /\ UNCHANGED <<backupsLock, running, zombies, mainpc>>

\* wait(NULL) collects a child that has exited; it blocks while there are
\* children and none of them has.
WaitReap(t) ==
    /\ zombies > 0
    /\ Goto(t, "wait", "unlock")
    /\ zombies' = zombies - 1
    /\ UNCHANGED <<backupsLock, active_backups, running, mainpc>>

\* MUTANT: wait is retried until it returns a child.
RetryWait(t) ==
    /\ FALSE
    /\ Goto(t, "wait", "unlock")
    /\ UNCHANGED <<backupsLock, active_backups, running, zombies, mainpc>>

\* With no child at all wait returns ECHILD at once, and the result is not
\* looked at.
WaitNoChild(t) ==
    /\ running + zombies = 0
    /\ Goto(t, "wait", "unlock")
    /\ UNCHANGED <<backupsLock, active_backups, running, zombies, mainpc>>

Unlock(t) ==
    /\ Goto(t, "unlock", "fork")
    /\ backupsLock' = NoThread
    /\ UNCHANGED <<active_backups, running, zombies, mainpc>>

Fork(t) ==
    /\ Goto(t, "fork", "idle")
    /\ running' = running + 1
    /\ UNCHANGED <<backupsLock, active_backups, zombies, mainpc>>

\* fork fails: the error is printed, active_backups keeps its value.
ForkFails(t) ==
    /\ Goto(t, "fork", "idle")
    /\ UNCHANGED <<backupsLock, active_backups, running, zombies, mainpc>>

\* The thread has no job left and exits.
Finish(t) ==
    /\ Goto(t, "idle", "done")
    /\ UNCHANGED <<backupsLock, active_backups, running, zombies, mainpc>>

\* A child has written its file: exit(1).
ChildExit ==
    /\ running > 0
    /\ running' = running - 1
    /\ zombies' = zombies + 1
    /\ UNCHANGED <<bpc, backupsLock, active_backups, mainpc>>

-----------------------------------------------------------------------------
(* main: the joins of dispatch_threads and the reaping loop after it. *)

MainJoin ==
    /\ mainpc = "join"
    /\ \A t \in Threads : bpc[t] = "done"
    /\ mainpc' = "reap"
    /\ UNCHANGED <<bpc, backupsLock, active_backups, running, zombies>>

\* MUTANT: the loop is do ... while.
ReapThenTest ==
    /\ mainpc = "reap"
    /\ \/ zombies > 0 /\ zombies' = zombies - 1
       \/ running + zombies = 0 /\ zombies' = zombies
    /\ active_backups' = active_backups - 1
    /\ UNCHANGED <<bpc, backupsLock, running, mainpc>>

MainReap ==
    /\ mainpc = "reap" /\ active_backups > 0
    /\ \/ zombies > 0 /\ zombies' = zombies - 1
       \/ running + zombies = 0 /\ zombies' = zombies
    /\ active_backups' = active_backups - 1
    /\ UNCHANGED <<bpc, backupsLock, running, mainpc>>

MainServe ==
    /\ mainpc = "reap" /\ active_backups = 0
    /\ mainpc' = "serve"
    /\ UNCHANGED <<bpc, backupsLock, active_backups, running, zombies>>

-----------------------------------------------------------------------------
Backup(t) ==
    \/ Lock(t) \/ Check(t) \/ Count(t) \/ WaitReap(t) \/ WaitNoChild(t)
    \/ Unlock(t) \/ Fork(t) \/ ForkFails(t)

Main == MainJoin \/ MainReap \/ MainServe

Next ==
    \/ \E t \in Threads : Backup(t) \/ Finish(t)
    \/ ChildExit
    \/ Main

Spec == Init /\ [][Next]_vars

\* A thread inside its BACKUP command keeps running, and a child does
\* finish writing its file.  Nothing is assumed of a thread that waits for
\* the mutex: POSIX promises no order among the waiters.
Fairness ==
    /\ \A t \in Threads :
          WF_vars(Check(t) \/ Count(t) \/ WaitReap(t) \/ WaitNoChild(t)
                  \/ Unlock(t))
    /\ WF_vars(ChildExit)

FairSpec == Spec /\ Fairness

-----------------------------------------------------------------------------
(* Properties *)

BackupPCs == {"idle", "check", "count", "wait", "unlock", "fork", "done"}

TypeOK ==
    /\ bpc \in [Threads -> BackupPCs]
    /\ backupsLock \in Threads \cup {NoThread}
    /\ active_backups \in Nat
    /\ running \in Nat
    /\ zombies \in Nat
    /\ mainpc \in {"join", "reap", "serve"}

\* What main.c says of max_backups, "Maximum allowed simultaneous backups":
\* no more children than that are ever writing a backup at the same time.
BackupLimit == running <= MaxBackups

\* How far the limit can be exceeded: by the job threads beyond max_backups,
\* each of which may pass a wait(NULL) that finds no child to wait for.
Excess ==
    IF Cardinality(Threads) > MaxBackups
    THEN Cardinality(Threads) - MaxBackups ELSE 0

\* The counter never runs past max_backups, and it accounts for every child
\* not yet reaped and every fork still to come, but for Excess of them.  The
\* code meant is the admission in run_job and both calls of wait(NULL).
CountAccountsForChildren ==
    /\ active_backups <= MaxBackups
    /\ running + zombies + Cardinality(InFlight) <= active_backups + Excess

\* When main goes on to serve clients it has collected every child, but for
\* Excess of them: with no more job threads than max_backups none is left.
ReapedBeforeServing == mainpc = "serve" => running + zombies <= Excess

\* A thread that blocks in wait(NULL) with n_current_backups_lock held does
\* not hold it for ever, so the other threads' backups are not blocked.
LockIsReleased ==
    \A t \in Threads : backupsLock = t ~> backupsLock # t
=============================================================================
