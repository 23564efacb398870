# A TLA+ model of the key-value server (proj_SO24-25-p2)

The program is a key-value server in C. It runs a directory of *job files* with
several threads over one shared hash table, makes *backups* by forking, and then
serves *clients* that connect through named pipes, subscribe to keys and are
notified of changes. All source paths below are relative to
`src/proj_so24-25-p2-grupo68/proj_SO24-25-p2/src/`.

## 1. Inventory

| Component | Source | State | Operations | Hard behaviour |
|---|---|---|---|---|
| Job dispatch | `server/main.c` 104-352, 647-685 | directory stream and its buffer, `directory_mutex`, per-thread entry, path and `file_backups` | `get_file`, `entry_files`, `run_job`, `dispatch_threads` | threads share one `readdir` stream; `entry->d_name` is used long after the mutex is released |
| Backup admission and reaping | `server/main.c` 188-203, 682-685 | `active_backups`, `max_backups`, `n_current_backups_lock`, child processes | BACKUP, `wait(NULL)`, reaping | wait with the lock held; test and fork are not atomic; fork may fail |
| Key-value store | `server/operations.c`, `server/kvs.c` | hash table, `tablelock` | `kvs_write`, `kvs_read`, `kvs_delete`, `kvs_show`, `kvs_backup` | readers and writers; fork under the read lock; buckets shared by keys; -1 as a hash; uninitialised `head` |
| Connection queue | `server/queue.c`, `server/main.c` 381-387, 573-577 | linked list, semaphores `empty` and `full`, `lock_queue` | `enqueue`, `pop` | one producer, several consumers; freed nodes |
| Registration fifo | `server/main.c` 520-585, `common/io.c` | byte stream, 122-byte buffer | `read_all`, extraction of three paths | frames of 122 bytes read 123 at a time; several writers; end of file |
| Session handshake | `server/main.c` 392-434, `client/api.c` 45-90 | three fifos, descriptors | opens on both sides, the welcome | rendezvous of blocking opens; opens that fail halfway |
| Manager session loop | `server/main.c` 436-514 | `key_list`, `intr`, descriptors, `read_buffer` | SUBSCRIBE, UNSUBSCRIBE, DISCONNECT | uninitialised variables, closed descriptors still used, no exit, SIGPIPE |
| Subscriptions | `server/subscriber_linked_list.c`, `server/keys_linked_list.c`, `kvs.c` 71-108 | lists per key and per client | append, delete, search | deletion of the first node, assignment for comparison |
| Job file parser | `server/parser.c` | file position | `get_next`, `parse_*`, `cleanup` | where an invalid line leaves the position; limits |
| Client | `client/` | fifos, notification thread | connect, subscribe, unsubscribe, disconnect | two threads, signals, blocking reads |
| SIGUSR1 | `server/main.c` 69-94 | - | never installed | - |

How they meet: `main` starts the **host** thread (registration fifo, produces
into the connection queue), then the **job threads**; it joins these, reaps the
backup children, and only then creates the **manager** threads that consume the
connection queue. Job threads share the store (read-write lock), the directory
stream (`directory_mutex`) and the backup counter (`n_current_backups_lock`). So
no job writes to the store while a client is subscribed.

What makes each correct:

- *Job dispatch*: every job file is run once; backups go to files of their own;
  the phase ends.
- *Backups*: no more children than allowed, all of them reaped, no thread blocked
  for ever in `wait` with the lock.
- *Store*: each command takes effect at one moment; a backup is one state of the
  store; one node per key.
- *Connection queue*: a bounded FIFO; places conserved; no dangling pointer;
  a waiting request is taken.
- *Registration*: each message is extracted whole, once, and not mixed with another.
- *Handshake*: a client that has registered gets its session.
- *Session loop*: an answer reaches the client that asked, once; no client can stop
  the server for the others.
- *Parsers and command loops*: what is carried out is what the file says, a bad
  line costs that line, and every file is read to its end.
- *Subscriptions*: a notification goes to exactly the subscribers of a key (but no
  list ever comes to exist: section 6).

`PROJECT.json` lists the hazards line by line, and which property covers each.

## 2. Modules

| Module | What it models |
|---|---|
| `Backups` | BACKUP in `run_job` and the two loops of `main`, as a system of its own |
| `Jobs` | the job phase: `get_file`, `run_job`, naming of backups; takes the steps of `Backups` through `INSTANCE` |
| `KvsTable` | the hash table of `kvs.c` as pure operators |
| `Kvs` | the calls of `operations.c` under the read-write lock |
| `KvSemantics`, `KvStore` | what the commands mean on a map, and the abstract store on which each takes effect at once |
| `KvsRefinement` | refinement mapping: `Kvs` implements `KvStore` |
| `QueueList` | the linked list of `queue.c`, with freed nodes |
| `ConnQueue` | host and managers around it |
| `Fifo`, `ConnQueueRefinement` | the bounded FIFO, and that `ConnQueue` implements it |
| `Registration` | the register fifo: clients' writes, `read_all`, extraction; what is extracted goes into a `Fifo` |
| `Sessions` | managers and clients: the opens of a connection, descriptors, the command loop; takes the queue as `Fifo` |
| `TextReader` | `read_string`, `read_uint`, `cleanup`, which both parsers have |
| `JobParser`, `ClientParser` | the commands of a job file, and those of a client's input, as pure operators on a text and a position |
| `CommandLoops` | the loops of `run_job` and of the client's `main` around them |
| `CommandLines` | what the author of a file may write and what it means: the assumption about the lines of `CommandLoops` |
| `MCKvs`, `MCConnQueue`, `MCJobs`, `MCSessions`, `MCCommandLoops` | model values, requests and lines |
| `BackupsProofs`, `JobsProofs`, `ConnQueueProofs`, `RegistrationProofs`, `SessionsProofs`, `CommandLoopsProofs` | theorems about the module of that name |
| `KvsProofs` | theorems about `KvsTable`, `Kvs` and `KvsRefinement` |
| `SequenceLemmas` | what the proofs need of numbers and sequences: a least number, induction over a set of numbers, the join of a sequence of sequences |

### Backups

A thread's `bpc` follows lines 188-196: `idle`, `check` (holds the lock), `count`
or `wait`, `unlock`, `fork`, `idle`. Children are interchangeable, so they are
counted: `running` ones still write, `zombies` are not yet waited for.
`wait(NULL)` returns when there is a zombie (`WaitReap`), returns at once when
there is no child (`WaitNoChild`), and blocks otherwise. `fork` may fail
(`ForkFails`) and the counter is not corrected, as in the code. `mainpc` is main's
progress through join, reap and serve.

### Jobs

The directory is a sequence of *portions* that fit the stream's buffer. `readdir`
hands out a slot of the buffer (`ReadNext`), loads the next portion over the old
one (`Refill`) or says there is none (`EndOfDirectory`). `entry_files` looks at
the name in the slot (`CopyName`). The mutex is then released and the job is
opened (`Open`, or `OpenFails`, which ends the thread). Of the commands of a job
only BACKUP changes anything here: `Backup` and `Admit` are the steps of
`Backups`, `KvsBackup` is `kvs_backup`: `strtok` takes the token from, and writes
a terminator into, whatever the slot holds *now*. Lengths matter twice, so a name is
a sequence of characters, divided where `strtok` divides it: `entry_files` passes
over a job whose path does not fit `in_path` (`PathFits`, `main.c:110`), and
`snprintf` cuts the path of a backup to the 49 characters `bck_name` holds
(`Printed`, `operations.c:156`), with a long directory or name the number too
(`NumberIsWhole`). Slots are taken to be as long as any name, so a refilled slot
starts where the old one did. `started`, `written` and `cut` are history.

### KvsTable and Kvs

A bucket is the sequence of nodes reached through `next`; a new node goes in
front. The subscriber list `head` of a node is `"null"` or `"wild"`: nothing in
the code ever makes a list of an empty one, so these are the values `malloc` can
leave. A call is `Call` (run_job passes it the parsed arguments), `WrLock` or
`RdLock`, one step per pair, key or bucket, and `Unlock`. A key whose hash is -1,
or a wild subscriber list that `write_pair` or `delete_pair` follows, kills the
process (`SegFault`); the table index -1 could also read other memory, of which
the model keeps only the crash. `kvs_backup` stores in `image` the table as the
child has it. SHOW and a backup print the same lines; that they are cut at 39
characters is not modelled.

### QueueList and ConnQueue

`QueueList` keeps head, tail and a node pool in which freed nodes keep their
contents. `enqueue` is two steps, filling and linking, and so is `pop`: copying
and unlinking. The host passes the request fifo first and `enqueue` takes the
response fifo first; the model keeps the exchange. `empty` and `full` are the
semaphores. A manager whose fifos could be opened stays in `session` for ever,
as in the code, where the command loop has no exit; whether the opens return is
left open (section 7, Handshake).

### Registration

A client opens the register fifo, writes its message in one piece (122 bytes are
fewer than `PIPE_BUF`) and closes it. The host's `read_all` appends to the buffer
what is there, up to 123 bytes (`HostRead`), and returns early at the end of the
file, when nothing is left and no client has the fifo open (`HostEof`). In both
cases the loop goes on with the buffer as it is: `HostExtract` looks at the first
byte, `HostEnqueue` puts the names into the queue, of which only the promise,
`Fifo`, is used here. A byte is a client and a position, so the model knows where
each byte of the buffer came from; `Ones` says which positions of a message hold
the character `1`, which is all that `IsConnect` sees. History are `aligned` (the
clients whose message found the fifo empty, between two reads), `swallowed` (those of
whose message the first byte was read behind another's), `extracted` and `again`.

### Sessions

A connection is three `open`s on each side, and the `open` of a fifo returns when
somebody has, or is opening, its other end. `fd[m]` are the numbers a manager has got
so far, `table` what they denote, `ends` the opens of the clients. A number is
reserved when the open begins (`Open`) and can be read, written and closed from
the moment it returns (`Installed`). A failed open or welcome is the code's
`continue` (`Leave`), which closes nothing; the second test of `fd_request`
(line 405) makes a failed response fifo go unnoticed (`OpenFails`).

The loop is `Read`, the handler, and for DISCONNECT `Close`. The code never leaves
it: after `Close` the manager reads, with the three numbers it has closed, whatever
they denote by then, and what `read_all` does not fill the buffer keeps. `intr`,
never initialised, is chosen once for each manager; set, every `read_all` fails.
A write to a fifo without a reader kills the server (SIGPIPE).

`key_list` is not initialised either. As long as it is `"unset"` each use of it is a
guess: the walk of SUBSCRIBE, UNSUBSCRIBE or DISCONNECT along it crashes the server
(SIGSEGV), or finds something that passes for a list and goes on. The walk of
DISCONNECT leaves it null, and SUBSCRIBE follows it all the same. The `head` of a
stored key, null or wild as in `Kvs`, and `table[-1]` for a key whose hash is -1 are
the other pointers nobody has set. SUBSCRIBE of a key that is not stored sends "30" and
then "31" (`SubscribeAgain`), UNSUBSCRIBE sends "41" for a key that is stored and "40"
for one that is not.

Anybody may register. A client in `Own` opens its fifos as `client/api.c` does, with
the first two names exchanged (`ConnQueue` has where). The others are processes
that speak the server's protocol; without them the command loop is never reached.
`parted` and `twice` (clients that one SUBSCRIBE has been answered twice) are history.

### TextReader, JobParser, ClientParser, CommandLoops, CommandLines

A file is a sequence of characters and a descriptor a position in it. An operator
of a parser takes a position and returns what was found and the position it
leaves, which is the point: several ways through `server/parser.c` stop in the
middle of a line or skip one too many. A command may end with a `'\0'` instead of its
newline (`LineEnd`, `parse_wait`), and what is behind a `'\0'` in a string is lost in
`strcpy` (`Copied`). Where the digits of `read_uint` are not terminated (end of file)
the operator returns a set: `Garbage` holds the digits that may lie behind them on the
stack, and `strtoul` takes them into the number.
Strings, numbers and lists have the code's limits, as constants.

`CommandLoops` has an action per `case`. A file is made of lines that carry what
they mean (`lines`), the loops see only the characters (`text`), and `log` records
what each turn consumed and carried out. What the commands do is left to the
other modules.

`CommandLines` says what a line that means something looks like (`JobLine`,
`ClientLine`): the command's keyword and its arguments, with brackets and commas and
a newline; keys and values short enough and free of separators and blanks; as many
as there is room for; a number that an unsigned int can be. TLC checks that the
lines of the runs are such lines; of a line that is mistyped nothing is required
unless it begins with no command's letter.

## 3. Runs

| Run | Module, cfg | Checks | Shows |
|---|---|---|---|
| `backups_wide` | `Backups`, `MCBackupsWide` | `TypeOK`, `CountAccountsForChildren`, `ReapedBeforeServing`, `LockIsReleased` | 3 threads, limit 1: the limit is exceeded, but by no more than the threads beyond it (so not at all with as many backups allowed as threads: `LimitIsKept`); the lock is always released |
| `backups_limit` | `Backups`, `MCBackupsLimit` | `BackupLimit` **violated** | 2 threads, limit 1: two backups at a time |
| `kvs` | `MCKvs`, `MCKvs` | `TypeOK`, `TablesWellFormed`, `ReadersSeeOneTable`, `ImplementsKvStore` | commands are atomic, a backup is one state of the store, until a key without a bucket or a wild list kills the server; nobody blocks for ever |
| `kvs_update` | `MCKvs`, `MCKvsUpdate` | `UpdatesSurvive` **violated** | an ordinary second WRITE of a key can kill the server |
| `conn_queue` | `MCConnQueue`, `MCConnQueue` | `TypeOK`, `PlacesAreConserved`, `PopFindsRequest`, `ListIsSound`, `ImplementsFifo`, `FrontIsTaken` | the queue is a bounded FIFO, memory-safe, and never leaves its front request while a manager is free |
| `jobs` | `MCJobs`, `MCJobs` | `TypeOK`, `JobsRunOnce`, `AllJobsRun`, `BackupsHaveTheirFile`, `ServesEventually` | no job runs twice, though the buffer is refilled under a running one; one is lost only for a reason `AllJobsRun` lists; two backups of a job share a file only when a number is cut off; main comes to serve |
| `registration` | `Registration`, `MCRegistration` | `TypeOK`, `NamesAreOneMessage`, `MessagesAreExtracted` | names with a 1 behind byte 3, for three clients: no mixture of messages is enqueued; a message is lost only when its first byte was read behind another's, and never one that found the fifo empty between two reads |
| `registration_once` | `Registration`, `MCRegistrationOnce` | `ExtractedOnce` **violated** | after the last client has closed, its message is enqueued again and again |
| `sessions` | `MCSessions`, `MCSessions` | `TypeOK`, `AnswersFollowRequests`, `DeathHasCause` | until the first DISCONNECT answers reach who asked, once (but for SUBSCRIBE of an absent key), though several managers serve one client; at all times SIGPIPE needs a client that has gone, and SIGSEGV a request that follows an unset pointer |
| `connect` | `MCSessions`, `MCSessionsConnect` | `ClientsConnect` **violated** | the repository's client and the server wait for each other |
| `command_loops` | `MCCommandLoops`, `MCCommandLoops` | `TypeOK`, `LinesAreRun`, `CommandsAreSpelled`, `LinesInStep`, `ArgumentsFit`, `EveryTurnReads` | a well-written file is carried out line by line; behind mistyped lines no command is made up and the loop gets to the end |
| `parser_lines` | `MCCommandLoops`, `MCCommandLoopsInvalid` | `InvalidCostsOneLine` **violated** | a rejected command takes the next line with it |

Deadlock is not checked where the system may stop: the job phase ends (`Backups`,
`Jobs`); with all managers in sessions and a full queue the host waits for ever
(`ConnQueue`, `Registration`); a dead server, or one that nobody asks anything, does
nothing (`Sessions`). In `MCKvs` and `MCCommandLoops` it is checked.

`AllJobsRun` states what really holds. A job is lost when its path is too long for
`in_path` (`main.c:110`), when its open fails, when every thread has given up, or, in a
directory larger than the stream's buffer, when `strtok` for an earlier job cuts the
name in the slot before it is read. Without any one of these exceptions `MCJobs`
violates it. `BackupsHaveTheirFile` excepts backups whose number `bck_name` has no room
for: two of those do have the same file, and in `MCJobs` they do. It speaks of the
backups of one job: of two jobs, `one.a.job` and `one.b.job`, each would write
`one-1.bck`, since `strtok` cuts at the first dot. No line of the repository
promises otherwise, so these are hazards, not findings.

`MessagesAreExtracted` says when a message may be lost. The host reads one byte more
than a message has (`main.c:544`), so of a message written behind another one, while
the host waits or extracts, or into a read that is half-way, the first byte may be read
as the end of the one before; the rest is then no message. A message that finds the
fifo empty between two reads is extracted whatever earlier reads have done.

`AnswersFollowRequests` stops at the first DISCONNECT because nothing like it holds
afterwards: the manager that has disconnected goes on with closed numbers, which
the next connection gets, and reads and answers in its place. It leaves out the
clients whose SUBSCRIBE of an absent key is answered twice: what they take for the
answer to their next request is the second one. Of UNSUBSCRIBE it accepts either answer:
`operations.h:49` and `kvs.h:60` promise 0 when the subscription was deleted, the code
returns 0 when the key is not stored, and no list of subscriptions ever exists whose
deletion could be told from that.

`DeathHasCause` names the two ways to kill the server. Its second half is about the
request at which a manager stands: a SUBSCRIBE, which always follows `key_list`; an
UNSUBSCRIBE or a DISCONNECT of a manager whose `key_list` is unset; an UNSUBSCRIBE of a
key with a wild list or no bucket. No other step crashes.

`LinesAreRun` stops at a line that is mistyped beyond its first letter, because such
a line may disturb the next one (finding 5); `CommandsAreSpelled`, `LinesInStep`
and `EveryTurnReads` say what is still true behind it. Two things the parsers accept
are excepted there. A command that ends with a `'\0'` leaves the loop in the middle of
a line, where `LinesInStep` allows it to look for the next; and `CommandsAreSpelled`
says nothing of a turn that has consumed a `'\0'`. A number at the very end of the file
may be carried out with more digits than the file has: `WAIT 9` as `WAIT 95`.

### Bounds

- *Threads*: two everywhere, three in `backups_wide`, where the excess over the
  limit must be seen to be two and not one. Every lock involved is taken by one
  thread at a time or by readers against a writer, which two threads exhibit.
- *Backups per thread* are not bounded in `Backups`: `active_backups` stays within
  the limit by itself and the children with it, so the state space is finite.
- *Keys*: `a` alone in a bucket, `B` and `one` together in another (a letter and a
  digit), `odd` with no bucket. Two buckets stand for 26: no operation looks at
  two buckets but SHOW and a backup, which go through them in order.
- *Commands*: one per shape that matters: a WRITE naming a key twice, a DELETE
  naming a key twice, pairs that share a bucket, READ, SHOW, BACKUP.
- *Queue*: two clients, two managers, two places. Full, empty and one-element
  lists, in which head and tail meet, all occur.
- *Register fifo*: three clients, messages of 4 bytes, reads of 5 (122 and 123 in the
  code): the shift by one byte per message, partial reads and end of file all
  occur. Besides the opcode byte 4 of a message is a `1`. With `Ones = {1, 3}`
  `NamesAreOneMessage` fails, as the third read may start at byte 3; the theorem
  `NamesAreNotMixed` has the general rule. In the code such a byte is the digit of a
  name like `/tmp/req1`, and it takes as many clients at once as its position.
- *Directory*: six entries in two portions, in a directory `d`: three jobs, a fourth
  with a path too long for `in_path`, a file that is no job, and `..`. The sizes
  256 and 50 are 16 and 10, so that of `twotwo.job`, which makes two backups, the number
  is cut off, and of `one.job`, which does too, it is not.
- *Sessions*: two clients, two managers, six descriptors (two connections: a leak
  makes the next open fail), a queue of one place, fifos of one message, two requests
  from each client (none after a DISCONNECT), one repetition by the host, so that
  two managers may serve one client. The requests are UNSUBSCRIBE of a stored key with a
  wild list, SUBSCRIBE of one that is not stored, and DISCONNECT: between them the
  answers "41", "30", "31" and "20" and each unset pointer but `table[-1]`, which only adds
  a way to crash and is left to the theorem; "40" is sent where "41" is. Managers and
  clients are symmetric. 2.8 million states.
- *Command loops*: files of up to three lines out of 32 for jobs and 18 for clients:
  each command, each way of getting one wrong that the parsers test for, a `'\0'` behind a
  command and in a string; the third line shows where the second has left the loop.
  Behind an unterminated number lie no digits, `5` or `00`. Strings of two characters and
  lists of two, with one more as the limit, stand for 40 and 256, numbers up to 99
  for `UINT_MAX`.

### Fairness

- `Backups`: a thread inside its BACKUP command goes on, and a child ends (it
  writes a file and exits). Nothing is assumed about who gets the mutex.
- `Jobs`: every thread, child and main go on when they can. The number of commands
  is finite, so weak fairness suffices: no thread can be passed over for ever.
- `ConnQueue`: host and managers go on when they can. No fairness is assumed of
  mutex or semaphores among the waiters, of clients, or of blocking opens.
- `Registration`: the host goes on when it can, and a client that has opened the
  fifo writes and closes, since nothing in between blocks. Managers may keep a
  client for ever, so a full queue is the exception in `MessagesAreExtracted`.

- `Sessions`, in `connect`: host and managers go on when they can, a client opens its
  fifos and reads what it is sent. None of them waits for anything but the others.

## 4. Findings

1. `main.c:190` the limit on simultaneous backups is not kept with more job
   threads than `max_backups`: a thread that has counted itself has not forked yet,
   so `wait(NULL)` of the next one finds no child and lets it pass.
2. `kvs.c:63` a new node's subscriber list is not initialised; WRITE and DELETE of
   an existing key follow it.
3. `main.c:575` request and response fifo are exchanged on the way to the manager,
   and `main.c:413` and `api.c:71` both open the notification fifo for writing: no
   session of the repository's client ever begins.
4. `main.c:544` at end of file the last message is extracted and enqueued again.
5. `parser.c:221` and others: a rejected command skips, besides its own, the next line.

## 5. Proofs

All for every value of the constants that satisfies the named assumptions
(finite sets of threads, positive limits, buckets for the hashes that occur,
model values distinct from data).

- **Backups** (`TypeCorrect`, `ChildrenAreCounted`, `ReapingIsComplete`,
  `LimitIsKept`). The bound on children is not inductive: that the counter stays
  within the limit needs that only the owner of the lock is between test and
  increment (`LockInv`, `DecisionInv`). That a `wait` without a child adds at most
  `Excess` is a counting argument: then there are no children, so all that is in
  flight are *other* threads, at most `|Threads| - 1`, and the counter is full.
  `LimitIsKept` is the case `Excess = 0`.
- **KvsTable** (`WritePairUpdates`, `DeletePairRemoves`). On a table with one node
  per key in the right bucket, `write_pair` and `delete_pair` change the map at
  their key only and keep that property: the searches of `kvs.c` are the map.
- **Kvs** (`TypeCorrect`, `TablesStayWellFormed`, `ReadersAreIsolated`). The
  invariant says that the lock's owners are exactly the threads in the body of
  their call, a writer or readers but never both; a step that changes the table
  is then a step of the writer, and no reader is inside.
- **KvsRefinement** (`StoreIsAtomic`): every behaviour of `Kvs` is one of `KvStore`.
  What is left of a call is itself a command: a WRITE, READ or DELETE whose loop
  stands at pair `i` is one of the pairs from `i` on. So what the mapping says a call
  will have done and printed at its end is moved by no turn of its loop: what one
  turn does, followed by the command that is left, is the command that was left
  before. The lines of a listing, bucket after bucket, are the pairs of the map,
  each once. A turn is then a stutter; the step that takes the lock, or for a
  backup forks, is the effect; the step that unlocks is the return. The invariant
  is extended by `HolderInv` (who holds the lock is inside its call, in the mode
  of its command) and `CallInv` (a call starts with nothing done or printed, and
  only a backup that has forked has an image). Assumed is that the marks
  `NotFound` and `NoImage` are no value and no table.
- **ConnQueue** (`TypeCorrect`, `PlacesConserved`, `PopNeverEmpty`,
  `ListStaysSound`). `Counted`: live nodes are `full` plus the managers between
  `sem_wait(&full)` and the unlinking plus the host between filling and
  `sem_post(&full)`; so a manager in `pop` finds a node. `Linked`: the live nodes
  are one chain from head to tail, but for the one being filled; "all pointers are
  live" alone is not inductive, since it allows a cycle beside the chain.

  `QueueIsFifo` maps each step to one of `Fifo` or to none. The mapping follows
  `next` from the head, so what it returns is the chain (`ReachedIsChain`): were it
  not, there would be a first place where the two differ, and it has a place before
  it (`LeastNatural`, from the well-foundedness of finite sets).
- **Jobs** (`ImplementsBackups`, `ChildrenAreCounted`, `ReapingIsComplete`,
  `TypeCorrect`, `NoJobRunsTwice`, `NoJobIsForgotten`, `BackupsAreNamed`), for any
  directory whose names are distinct. Each step of `Jobs` is a step of `Backups` or
  leaves its variables alone, so the invariants of `BackupsProofs` carry over
  instead of being proved twice. For the rest `IInv` says of every job file where it
  is: ahead of the stream, in the hands of one thread, started, or lost because its path
  is too long or a backup cut its name (`PlaceInv`: in no two places; `CoverInv`: in one
  at least).
  `JobsRunOnce` alone is not inductive: a thread between `readdir` and `open` has
  found a job of which `started` does not know. That the place is well defined
  rests on `MutexInv` (one thread at a time moves the stream) and on `StreamInv` and
  `CutInv` (what is in the buffer is the portion read last, but for cuts).
- **Registration** (`TypeCorrect`, `NamesAreNotMixed`). The second assumes that
  reads are at most one byte too long, as in the code, and that among the first
  `N` bytes of a message, for `N` clients, only the opcode is a `1`: with one client
  nothing is required, with nine no `1` among bytes 2 to 9, which in the code is the
  beginning of a path such as `/tmp/req1`. The bytes read and those in the fifo are one stream
  made of whole messages but for its beginning (`WholeMessages`, `NoRepetition`),
  and how far the beginning has shifted into a message is bounded by the number of
  clients whose messages are used up (`Shift`). The property itself says nothing of
  the fifo, and so is not inductive.
- **Sessions** (`TypeCorrect`, `DeathIsCaused`, `AnswersAreOwn`), for any clients,
  managers, descriptors and lengths of the fifos. `DeathIsCaused` holds of the whole
  life of the server, closed and reused descriptors included: whoever writes with a
  number finds a reader, since the server never has both ends of one fifo
  (`SidesInv`), so only its client can have let the open through, and keeps its end
  until it is gone (`OtherEndInv`). That a SIGSEGV has a request to account for it
  needs no invariant but itself: a handler that crashes leaves its request in the buffer
  (`CrashStrays`). `AnswersAreOwn` is about the time before the first
  DISCONNECT (`QuietInv`): each number denotes the fifo its manager opened with it
  (`OwnInv`), and the request of a client not in `twice` is in one place, in its fifo, in
  one manager's buffer, or answered (`TokenInv`); a manager that still owes a second
  answer serves a client in `twice` (`AgainInv`).

- **CommandLoops** (`TypeCorrect`, `ArgumentsHaveRoom`, `TurnsRead`,
  `LoopsKeepStep`, `CommandsAreInTheFile`), for any lines whatever and any limits,
  with room for at least two pairs (WAIT's own argument is one of the list in the
  model); `LinesAreCarriedOut` for the lines of `CommandLines`. Assumed of the
  characters is only that the mark for the end of the file is none of them. One
  lemma per helper says where it leaves the position and how long what it returns
  can be; `Found` and `Leaves` say it of `get_next` and of the parsers, and
  `Turned` of a turn, so that the first four theorems look at no parser. The lists of
  keys and pairs and the joined text are functions defined by their own earlier
  values. That such a function exists, and that all its values are in bounds, is
  shown as for `ConnQueue`: a first counterexample would have one before it
  (`KeysExist`, `KeysAre`, `PairsExist`, `PairsAre`; for joins `SequenceLemmas`).

  `CommandsAreInTheFile` (the property `CommandsAreSpelled`) reads the parsers once
  more. `Spells(word, p, q)` says that the text has `word` from `p` up to `q`; words
  that follow each other are one word (`SpellsJoin`). From a single character on, each
  helper that succeeds returns what is spelled between its two positions: a string up
  to its separator, keys joined by commas, bracketed pairs, the keyword of
  `get_next`. Where no `'\0'` was read `Copied` changes nothing, and digits of the stack come behind those of the file.
  A call that fails returns no arguments, so the turn is logged as invalid, of which
  nothing is claimed. No line, valid or not, is assumed to be anything.

  `LinesAreCarriedOut` (the property `LinesAreRun`) is the converse: what is written
  is read. A text that spells a joined sequence is cut into its parts (`SpellsFlatten`),
  so a list is cut at its commas and a WRITE at its brackets (`KeysCut`, `PairsCut`);
  each helper stops at the next cut, because a word has no separator in it (`WordRead`,
  `KeysRead`, `PairsRead`, `NumberRead`), and the keywords are told apart by the letters
  `get_next` looks at. So one turn carries out one line that does not disturb the next
  and leaves the descriptor at its end (`JobLineCarriedOut`, `ClientLineCarriedOut`).
  The property itself is not inductive, because it does not say where the loop stands.
  `Progress` does: the file is cut into its lines, and while all of them up to the last
  one read are undisturbing, the loop stands where line `Len(log)` ends; and `run_job`
  stops at the end of the file only. The theorem uses `CommandLinesAssumption`, and none
  of the others does. It is the grammar of the files, not a claim about the
  parsers: it does not mention a position or a result of theirs, and without it the
  property is false, a line `READ [a` being no READ.

Each strengthened invariant was checked by TLC on the run's instance (that of
`CommandLoops`, which TLC cannot enumerate as a set of sequences, element by element;
that of `Jobs` with the tokens of the directory for all tokens).

Model-checked only is *liveness*: `LockIsReleased`, `FrontIsTaken`, `ServesEventually`,
and `MessagesAreExtracted`. The prover has no ENABLED. Every invariant and every action
property of a passing run is a theorem.

The library's induction theorems take an operator as a parameter, which the provers
cannot instantiate. Where a proof needs an induction (joins, lists of keys
and pairs, the lines of a DELETE or a listing), it is over a *set* of numbers that has 0 and with each
number the next (`Induction` in `SequenceLemmas`, from the finite sets' minimum).

## 6. Not modelled, and why

- *The client beyond its opens*: the requests it writes (characters where the
  manager compares numbers, `main.c:451`; as long as the key where it reads 42
  bytes, `api.c:129`), its notification thread and signal handlers. With the names
  exchanged, or both ends of the notification fifo opened for writing, it never
  gets there, so there is no state of the program to start such a model from.
- *Subscription lists*: `append_list_node` and `append_list_node_key` want a first
  node, and nothing makes one; so no list exists for the other operations. The
  uninitialised pointers they are called with are in `Kvs` and `Sessions`.
- *SIGUSR1*: `sigusr1` is never installed. `kvs_terminate` and `destroy_queue` are
  never reached.
- *Bytes past a buffer*: the 123rd of a registration (with the Makefile's flags it
  falls into padding), the terminator of a string of `max` characters, a number of
  more than 15 digits.
- *Requests in pieces*, answers "11" and "21" (`result_connect` and
  `result_disconnect` are never set), clients killed in the middle of registering,
  a `read` that fails with an errno.
- *Thread creation that fails* (`main.c:328`) is assumed not to.
- Output lines cut to 39 characters and WRITE's message "Failed to write pair": wording
  without effect on state. WAIT and HELP are
  parsed, and do nothing else.

## 7. Plan

Done: `Backups`, `KvsTable`/`Kvs`/`KvStore`, `QueueList`/`ConnQueue`/`Fifo`,
`Jobs`, `Registration`, `Sessions`, the parsers and `CommandLoops`. What the code
still has to model is a failing `pthread_create` in `Jobs`.
