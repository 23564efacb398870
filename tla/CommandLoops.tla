---------------------------- MODULE CommandLoops ----------------------------
(***************************************************************************)
(* The two loops that read a file of commands: run_job in server/main.c on *)
(* a job file, and main in client/main.c on the standard input.  Each turn *)
(* calls get_next and the parser of the command it found.                  *)
(*                                                                         *)
(* What a command does is not looked at here, only which commands are      *)
(* carried out, and which part of the file each turn consumed.             *)
(***************************************************************************)
EXTENDS Integers, Sequences, SequencesExt

CONSTANTS
    MAX_STRING_SIZE, UINT_MAX, Garbage, MAX_WRITE_SIZE,  \* as in JobParser
    JobLines,     \* what the lines of a job file may be: text and meaning
    ClientLines,  \* what those of a client's input may be
    MaxLines      \* in a file

VARIABLES
    reader,  \* which of the two loops it is
    lines,   \* the file as its author wrote it, a line at a time
    text,    \* the same as one sequence of characters
    pos,     \* the offset of the descriptor
    log,     \* the turns taken: the offsets of each, and its command
    ended    \* the loop has been left

vars == <<reader, lines, text, pos, log, ended>>

Job == INSTANCE JobParser
Client == INSTANCE ClientParser

Character == STRING \ {Job!EndOfFile}

ASSUME CommandLoopsAssumption ==
    /\ MAX_STRING_SIZE \in Nat \ {0} /\ MAX_WRITE_SIZE \in Nat \ {0, 1}
    /\ UINT_MAX \in Nat /\ MaxLines \in Nat
    /\ Garbage \subseteq Seq(Job!Digits) /\ <<>> \in Garbage
    /\ \A l \in JobLines \cup ClientLines : l.text \in Seq(Character) \ {<<>>}

Init ==
    /\ \/ reader = "job" /\ lines \in SeqOf(JobLines, MaxLines)
       \/ reader = "client" /\ lines \in SeqOf(ClientLines, MaxLines)
    /\ text = FlattenSeq([i \in DOMAIN lines |-> lines[i].text])
    /\ pos = 1
    /\ log = <<>>
    /\ ended = FALSE

-----------------------------------------------------------------------------
Turn(op, args, next) ==
    /\ log' = Append(log, [from |-> pos, to |-> next,
                           op |-> op, args |-> args])
    /\ pos' = next
    /\ UNCHANGED <<reader, lines, text>>

\* A parser's result: without arguments the command is reported as invalid.
Parsed(op, result) ==
    /\ Turn(IF result.args = <<>> THEN "INVALID" ELSE op, result.args,
            result.pos)
    /\ UNCHANGED ended

JobToken == Job!get_next(pos)

JobFinds(cmds) == reader = "job" /\ ~ended /\ JobToken.cmd \in cmds

JobWrite ==
    /\ JobFinds({"WRITE"})
    /\ Parsed("WRITE", Job!parse_write(JobToken.pos))

JobReadDelete ==
    /\ JobFinds({"READ", "DELETE"})
    /\ Parsed(JobToken.cmd, Job!parse_read_delete(JobToken.pos))

JobWait ==
    /\ JobFinds({"WAIT"})
    /\ \E result \in Job!parse_wait(JobToken.pos) : Parsed("WAIT", result)

JobPlain ==
    /\ JobFinds({"SHOW", "BACKUP", "HELP", "EMPTY", "INVALID"})
    /\ Turn(JobToken.cmd, <<>>, JobToken.pos)
    /\ UNCHANGED ended

JobEnd ==
    /\ JobFinds({"EOC"})
    /\ ended' = TRUE
    /\ UNCHANGED <<reader, lines, text, pos, log>>

-----------------------------------------------------------------------------
ClientToken == Client!get_next(pos)

ClientFinds(cmds) == reader = "client" /\ ~ended /\ ClientToken.cmd \in cmds

ClientKey ==
    /\ ClientFinds({"SUBSCRIBE", "UNSUBSCRIBE"})
    /\ Parsed(ClientToken.cmd, Client!parse_list(ClientToken.pos, 1))

ClientDelay ==
    /\ ClientFinds({"DELAY"})
    /\ \E result \in Client!parse_delay(ClientToken.pos) : Parsed("DELAY", result)

ClientPlain ==
    /\ ClientFinds({"EMPTY", "INVALID"})
    /\ Turn(ClientToken.cmd, <<>>, ClientToken.pos)
    /\ UNCHANGED ended

ClientDisconnect ==
    /\ ClientFinds({"DISCONNECT"})
    /\ Turn("DISCONNECT", <<>>, ClientToken.pos)
    /\ ended' = TRUE

\* "input should end in a disconnect, or it will loop here forever"
ClientEndOfInput == ClientFinds({"EOC"}) /\ UNCHANGED vars

-----------------------------------------------------------------------------
Ended == ended /\ UNCHANGED vars

Next ==
    \/ JobWrite \/ JobReadDelete \/ JobWait \/ JobPlain \/ JobEnd
    \/ ClientKey \/ ClientDelay \/ ClientPlain \/ ClientDisconnect
    \/ ClientEndOfInput
    \/ Ended

Spec == Init /\ [][Next]_vars

-----------------------------------------------------------------------------
(* Properties *)

Ops ==
    {"WRITE", "READ", "DELETE", "WAIT", "SHOW", "BACKUP", "HELP", "EMPTY",
     "SUBSCRIBE", "UNSUBSCRIBE", "DELAY", "DISCONNECT", "INVALID"}

TypeOK ==
    /\ reader \in {"job", "client"}
    /\ pos \in 1 .. Len(text) + 1
    /\ \A i \in DOMAIN log :
          /\ log[i].op \in Ops
          /\ log[i].from \in 1 .. Len(text) + 1
          /\ log[i].to \in 1 .. Len(text) + 1
    /\ ended \in BOOLEAN

\* The last line is the only one that may lack its newline.
Complete(i) == i = Len(lines) \/ Last(lines[i].text) = "\n"

JobLetters == {"W", "R", "D", "S", "B", "H"}
ClientLetters == {"S", "U", "D"}
Letters == IF reader = "job" THEN JobLetters ELSE ClientLetters

\* A line that cannot disturb the next: a valid one, an empty one, a comment,
\* or one that begins with no command's letter.
Contained(i) ==
    Complete(i) /\ (lines[i].op # "INVALID" \/ lines[i].text[1] \notin Letters)

ContainedUpTo(i) == \A j \in 1 .. i : Contained(j)

\* As long as no line is mistyped beyond its first letter, the loops carry out
\* exactly the lines of the file, in order, with the arguments written there,
\* and at the end all of them have been: nothing is skipped, joined or split.
LinesAreRun ==
    /\ \A i \in DOMAIN log :
          (\A j \in 1 .. i : j \in DOMAIN lines => Contained(j)) =>
             /\ i \in DOMAIN lines
             /\ log[i].op = lines[i].op /\ log[i].args = lines[i].args
    /\ ended /\ reader = "job" /\ ContainedUpTo(Len(lines))
          => Len(log) = Len(lines)

Keyword(op) ==
    CASE op = "WRITE" -> Job!WRITE [] op = "READ" -> Job!READ
      [] op = "DELETE" -> Job!DELETE [] op = "WAIT" -> Job!WAIT
      [] op = "SHOW" -> Job!SHOW [] op = "BACKUP" -> Job!BACKUP
      [] op = "HELP" -> Job!HELP
      [] op = "SUBSCRIBE" -> Client!SUBSCRIBE
      [] op = "UNSUBSCRIBE" -> Client!UNSUBSCRIBE
      [] op = "DELAY" -> Client!DELAY
      [] op = "DISCONNECT" -> Client!DISCONNECT

Joined(strings) ==
    FlattenSeq([i \in DOMAIN strings |->
                  IF i = 1 THEN strings[i] ELSE <<",">> \o strings[i]])

\* What is written behind the keyword.
Arguments(op, args) ==
    CASE op = "WRITE" ->
           <<"[">> \o FlattenSeq([i \in DOMAIN args |->
                         <<"(">> \o Joined(args[i]) \o <<")">>])
             \o <<"]", "\n">>
      [] op \in {"READ", "DELETE", "SUBSCRIBE", "UNSUBSCRIBE"} ->
           <<"[">> \o Joined(args) \o <<"]", "\n">>
      [] op \in {"WAIT", "DELAY"} -> args[1]
      [] OTHER -> <<>>

Spelling(op, args) == Keyword(op) \o Arguments(op, args)

\* No command is made up: a command that is carried out is what the text its
\* turn consumed spells, even where the loop resumed in the wrong place after
\* a mistyped line.  Only a number at the very end of the file may be carried
\* out with more digits than are written there.  Text with a '\0' is excepted.
CommandsAreSpelled ==
    \A i \in DOMAIN log :
       LET consumed == SubSeq(text, log[i].from, log[i].to - 1)
           spelling == Spelling(log[i].op, log[i].args)
       IN  /\ log[i].op \notin {"EMPTY", "INVALID"}
           /\ \A n \in DOMAIN consumed : consumed[n] # Job!Nul
           => \/ IsPrefix(spelling, consumed)
              \/ /\ log[i].op \in {"WAIT", "DELAY"} /\ log[i].to = Len(text) + 1
                 /\ IsPrefix(consumed, spelling)

\* Whatever the file holds, run_job looks for its next command only where a
\* line begins, or behind the '\0' that ended an accepted command; so does the
\* client, except behind a DELAY.
LinesInStep ==
    \/ pos = 1 \/ pos = Len(text) + 1 \/ text[pos - 1] = "\n"
    \/ /\ log # <<>> /\ text[pos - 1] = Job!Nul
       /\ Last(log).op \in {"WRITE", "READ", "DELETE", "WAIT",
                            "SUBSCRIBE", "UNSUBSCRIBE"}
    \/ log # <<>> /\ Last(log).op = "DELAY"

\* What goes on to the store or the server fits the arrays it is copied to,
\* with its terminator: keys[MAX_WRITE_SIZE][MAX_STRING_SIZE] in run_job.
ArgumentsFit ==
    \A i \in DOMAIN log :
       LET args == log[i].args
       IN  /\ Len(args) < MAX_WRITE_SIZE
           /\ log[i].op = "WRITE" => \A n \in DOMAIN args :
                 Len(args[n][1]) < MAX_STRING_SIZE
                 /\ Len(args[n][2]) < MAX_STRING_SIZE
           /\ log[i].op \in {"READ", "DELETE", "SUBSCRIBE", "UNSUBSCRIBE"} =>
                 \A n \in DOMAIN args : Len(args[n]) < MAX_STRING_SIZE

\* Every turn of either loop uses up a part of the file, so a job file, which
\* is finite, comes to its end whatever is in it: the thread is not kept from
\* its next job.
EveryTurnReads == [][log' # log => pos' > pos]_vars

\* parser.c:90 on cleanup: "Jumps file descriptor to next line."  A command
\* that is rejected costs its own line and no other.
InvalidCostsOneLine ==
    \A i \in DOMAIN log :
       reader = "job" /\ log[i].op = "INVALID" =>
          log[i].to = Job!cleanup(log[i].from)
=============================================================================
