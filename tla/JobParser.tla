------------------------------ MODULE JobParser ------------------------------
(* server/parser.c: the commands of a job file. *)
EXTENDS TextReader

CONSTANT MAX_WRITE_SIZE  \* how many pairs or keys a command has room for

WAIT == <<"W", "A", "I", "T", " ">>
WRITE == <<"W", "R", "I", "T", "E", " ">>
READ == <<"R", "E", "A", "D", " ">>
DELETE == <<"D", "E", "L", "E", "T", "E", " ">>
SHOW == <<"S", "H", "O", "W">>
BACKUP == <<"B", "A", "C", "K", "U", "P">>
HELP == <<"H", "E", "L", "P">>

Command(p) ==
    CASE Starts(p, WAIT) -> Token("WAIT", p + Len(WAIT))
      [] Char(p) = "W" /\ ~Starts(p, WAIT) -> Keyword(WRITE, "WRITE", p)
      [] Char(p) = "R" -> Keyword(READ, "READ", p)
      [] Char(p) = "D" -> Keyword(DELETE, "DELETE", p)
      [] Char(p) = "S" -> Alone(SHOW, "SHOW", p)
      [] Char(p) = "B" -> Alone(BACKUP, "BACKUP", p)
      [] Char(p) = "H" -> Alone(HELP, "HELP", p)
      [] Char(p) = "#" -> Token("EMPTY", cleanup(p + 1))
      [] Char(p) = Newline -> Token("EMPTY", p + 1)
      [] OTHER -> Invalid(After(p, 1))

\* MUTANT: the end of the file is not told from a character.
GetNextAnyway(p) == Command(p)

get_next(p) == IF Char(p) = EndOfFile THEN Token("EOC", p) ELSE Command(p)

-----------------------------------------------------------------------------
\* <<key, value>> between the brackets; a failure has skipped the line.
parse_pair(p) ==
    LET key == read_string(p)
        value == read_string(key.pos)
    IN  IF key.closed # "," THEN Reject(key.pos)
        ELSE IF value.closed # ")" THEN Reject(value.pos)
        ELSE Accept(<<key.string, value.string>>, value.pos)

\* The pairs of a WRITE from the first "(" on; as many as there is room for
\* are too many.  When a pair fails, parse_pair has skipped the line, and
\* another one is skipped.
pairs(p) ==
    LET pair[n \in 1 .. MAX_WRITE_SIZE] ==
          parse_pair(IF n = 1 THEN p ELSE After(pair[n - 1].pos, 1))
        n == Min({k \in 1 .. MAX_WRITE_SIZE :
                    \/ k = MAX_WRITE_SIZE
                    \/ pair[k].args = <<>> \/ Char(pair[k].pos) # "("})
    IN  CASE pair[n].args = <<>> -> Reject(pair[n].pos)
          [] /\ pair[n].args # <<>> /\ n < MAX_WRITE_SIZE
             /\ Char(pair[n].pos) = "]" ->
               LineEnd([k \in 1 .. n |-> Copied(pair[k].args)], After(pair[n].pos, 1))
          [] OTHER -> Reject(After(pair[n].pos, 1))

parse_write(p) ==
    IF Char(p) # "[" THEN Reject(After(p, 1))
    ELSE IF Char(p + 1) # "(" THEN Reject(After(p + 1, 1))
    ELSE pairs(p + 2)

\* A list that takes all the room there is counts as one that is too long.
parse_read_delete(p) ==
    LET list == KeyList(p + 1, MAX_WRITE_SIZE)
    IN  CASE Char(p) # "[" -> Reject(After(p, 1))
          [] Char(p) = "[" /\ list.closed \notin {",", "]"} -> Reject(list.pos)
          [] Char(p) = "[" /\ Len(list.keys) = MAX_WRITE_SIZE -> Reject(list.pos)
          [] OTHER -> LineEnd(Copied(list.keys), list.pos)

\* MUTANT: what is behind the number and a blank is not skipped.
WaitKeepsRest(p) ==
    {CASE Fits(n) /\ n.next \in {" ", Newline, Nul, EndOfFile} ->
            Accept(<<n.digits>>, n.pos)
       [] OTHER -> Reject(n.pos) : n \in read_uint(p)}

\* run_job passes no thread_id: a second number is skipped, and so is
\* anything else behind a blank.
parse_wait(p) ==
    {CASE Fits(n) /\ n.next = " " -> Accept(<<n.digits>>, cleanup(n.pos))
       [] Fits(n) /\ n.next \in {Newline, Nul, EndOfFile} ->
            Accept(<<n.digits>>, n.pos)
       [] OTHER -> Reject(n.pos) : n \in read_uint(p)}
=============================================================================
