---------------------------- MODULE CommandLines ----------------------------
(***************************************************************************)
(* What the author of a file may write, and what it means: the commands as *)
(* parser.c of the server and of the client read them.  The lines of       *)
(* CommandLoops are of this kind.                                          *)
(***************************************************************************)
EXTENDS CommandLoops

\* A key or a value that read_string takes whole.
Word ==
    {s \in Seq(Character) :
        /\ Len(s) < MAX_STRING_SIZE
        /\ \A i \in DOMAIN s : s[i] \notin Job!Separators \cup {" ", Job!Nul}}

\* No newline but at the end.
OneLine(string) == \A i \in 1 .. Len(string) - 1 : string[i] # "\n"

\* The character behind the command.
Behind(l) == l.text[Len(Spelling(l.op, l.args)) + 1]

IsPairs(l) ==
    /\ l.args \in Seq(Word \X Word) /\ Len(l.args) \in 1 .. MAX_WRITE_SIZE - 1
    /\ l.text = Spelling(l.op, l.args)

IsList(l, max) ==
    /\ l.args \in Seq(Word) /\ Len(l.args) \in 1 .. max
    /\ l.text = Spelling(l.op, l.args)

IsNumber(l) ==
    /\ l.args \in Seq(Seq(Job!Digits)) /\ Len(l.args) = 1
    /\ Len(Spelling(l.op, l.args)) < Len(l.text)
    /\ IsPrefix(Spelling(l.op, l.args), l.text)

IsAlone(l) ==
    l.args = <<>> /\ l.text \in {Keyword(l.op), Append(Keyword(l.op), "\n")}

IsEmpty(l) ==
    /\ l.args = <<>>
    /\ l.text = <<"\n">> \/ (l.text[1] = "#" /\ OneLine(l.text))

\* Of a mistyped line nothing is said unless its first character shows it.
IsMistyped(l, letters) ==
    /\ l.args = <<>>
    /\ l.text[1] \notin letters => /\ l.text[1] \notin {"#", "\n"}
                                   /\ OneLine(l.text)

\* What is behind the number and a blank is not looked at.
IsWait(l) ==
    /\ l.op = "WAIT" /\ IsNumber(l) /\ Job!Number(l.args[1]) <= UINT_MAX
    /\ Behind(l) \in {" ", "\n"} /\ OneLine(l.text)

\* Whatever is behind the number is its end.
IsDelay(l) ==
    /\ l.op = "DELAY" /\ IsNumber(l) /\ Client!Number(l.args[1]) <= UINT_MAX
    /\ Behind(l) \notin Job!Digits
    /\ Len(l.text) = Len(Spelling(l.op, l.args)) + 1

JobLine(l) ==
    \/ l.op = "WRITE" /\ IsPairs(l)
    \/ l.op \in {"READ", "DELETE"} /\ IsList(l, MAX_WRITE_SIZE - 1)
    \/ IsWait(l)
    \/ l.op \in {"SHOW", "BACKUP", "HELP"} /\ IsAlone(l)
    \/ l.op = "EMPTY" /\ IsEmpty(l)
    \/ l.op = "INVALID" /\ IsMistyped(l, JobLetters)

ClientLine(l) ==
    \/ l.op \in {"SUBSCRIBE", "UNSUBSCRIBE"} /\ IsList(l, 1)
    \/ IsDelay(l)
    \/ l.op = "DISCONNECT" /\ IsAlone(l)
    \/ l.op = "EMPTY" /\ IsEmpty(l)
    \/ l.op = "INVALID" /\ IsMistyped(l, ClientLetters)

ASSUME CommandLinesAssumption ==
    (\A l \in JobLines : JobLine(l)) /\ (\A l \in ClientLines : ClientLine(l))
=============================================================================
