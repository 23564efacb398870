----------------------------- MODULE TextReader -----------------------------
(***************************************************************************)
(* The helpers that server/parser.c and client/parser.c both begin with:   *)
(* read_string, read_uint and cleanup, on a file read one byte at a time.  *)
(*                                                                         *)
(* The file is `text', a sequence of characters; a descriptor's offset is  *)
(* a position in it, and an operator returns the position it leaves.       *)
(***************************************************************************)
EXTENDS Integers, Sequences, SequencesExt

CONSTANTS
    MAX_STRING_SIZE,  \* of a key or a value
    UINT_MAX,         \* the greatest unsigned int
    Garbage           \* digits that may lie behind a number on the stack

VARIABLE text

EndOfFile == "end of file"
Newline == "\n"
Nul == "nul"  \* the character '\0'

End == Len(text) + 1
Char(p) == IF p < End THEN text[p] ELSE EndOfFile

\* The position k bytes on; no read goes past the end of the file.
After(p, k) == Min({p + k, End})

Starts(p, word) ==
    /\ p + Len(word) <= End
    /\ \A i \in DOMAIN word : text[p + i - 1] = word[i]

-----------------------------------------------------------------------------
\* MUTANT: the newline is left for the next command.
CleanupShort(p) ==
    Min({q \in p .. End : q = End \/ Char(q) = Newline})

\* "Jumps file descriptor to next line."
cleanup(p) ==
    Min({q \in p .. End : q = End \/ (q > p /\ Char(q - 1) = Newline)})

Separators == {",", ")", "]"}

\* MUTANT: a string may be one character longer.
ReadStringLong(p) ==
    LET stop == Min({q \in p .. p + MAX_STRING_SIZE + 1 :
                       \/ q = p + MAX_STRING_SIZE + 1
                       \/ Char(q) \in Separators \cup {" ", EndOfFile}})
        full == stop = p + MAX_STRING_SIZE + 1
    IN  [string |-> SubSeq(text, p, stop - 1),
         closed |-> IF full THEN "full" ELSE Char(stop),
         pos    |-> IF full THEN stop ELSE After(stop, 1)]

\* A string up to a separator.  A blank, the end of the file or the length
\* end it as well, but no newline does; then `closed' is no separator.
read_string(p) ==
    LET stop == Min({q \in p .. p + MAX_STRING_SIZE :
                       \/ q = p + MAX_STRING_SIZE
                       \/ Char(q) \in Separators \cup {" ", EndOfFile}})
        full == stop = p + MAX_STRING_SIZE
    IN  [string |-> SubSeq(text, p, stop - 1),
         closed |-> IF full THEN "full" ELSE Char(stop),
         pos    |-> IF full THEN stop ELSE After(stop, 1)]

Digits == {"0", "1", "2", "3", "4", "5", "6", "7", "8", "9"}

digit(c) ==
    CHOOSE n \in 0 .. 9 :
       c = <<"0", "1", "2", "3", "4", "5", "6", "7", "8", "9">>[n + 1]

Number(digits) == FoldLeft(LAMBDA n, c : 10 * n + digit(c), 0, digits)

\* A number and the character behind it; none at all reads as 0.  At the end
\* of the file buf is not terminated, and digits that follow on the stack are
\* taken into the number.
read_uint(p) ==
    LET stop == Min({q \in p .. End : Char(q) \notin Digits})
        beyond == IF Char(stop) = EndOfFile THEN Garbage ELSE {<<>>}
    IN  {[digits |-> SubSeq(text, p, stop - 1) \o more,
          next |-> Char(stop), pos |-> After(stop, 1)] : more \in beyond}

Fits(n) == Number(n.digits) <= UINT_MAX

-----------------------------------------------------------------------------
\* What get_next returns; a command that it rejects is skipped.
Token(cmd, p) == [cmd |-> cmd, pos |-> p]
Invalid(p) == Token("INVALID", cleanup(p))

\* A keyword with arguments: as many bytes are read as it has.
Keyword(word, cmd, p) ==
    IF Starts(p, word) THEN Token(cmd, p + Len(word))
    ELSE Invalid(After(p, Len(word)))

\* MUTANT: at the end of the file a byte is taken to have been read.
AloneUnchecked(word, cmd, p) ==
    LET q == p + Len(word)
    IN  IF Starts(p, word) /\ Char(q) \in {Newline, EndOfFile}
        THEN Token(cmd, q + 1)
        ELSE Invalid(After(p, Len(word) + IF Starts(p, word) THEN 1 ELSE 0))

\* A keyword alone on its line, or on the last one without its newline.
Alone(word, cmd, p) ==
    LET q == p + Len(word)
    IN  IF Starts(p, word) /\ Char(q) \in {Newline, EndOfFile}
        THEN Token(cmd, After(q, 1))
        ELSE Invalid(After(p, Len(word) + IF Starts(p, word) THEN 1 ELSE 0))

\* What a parser returns: the arguments, none if it rejects the command.
Accept(args, p) == [args |-> args, pos |-> p]
Reject(p) == Accept(<<>>, cleanup(p))

\* The last byte of a command, read at p; a '\0' does as well as a newline.
LineEnd(args, p) ==
    IF Char(p) \in {Newline, Nul} THEN Accept(args, After(p, 1))
    ELSE Reject(After(p, 1))

\* strcpy of each string: what is behind a '\0' in it is lost.
Copied(strings) ==
    LET length(s) == Min({n \in 0 .. Len(s) : n = Len(s) \/ s[n + 1] = Nul})
    IN  [k \in DOMAIN strings |-> SubSeq(strings[k], 1, length(strings[k]))]

\* MUTANT: any separator but "]" is followed by another key.
KeyListLoose(p, max) ==
    LET key[n \in 1 .. max] == read_string(IF n = 1 THEN p ELSE key[n - 1].pos)
        n == Min({k \in 1 .. max : k = max \/ key[k].closed \notin {",", ")"}})
    IN  [keys |-> [k \in 1 .. n |-> key[k].string],
         closed |-> key[n].closed, pos |-> key[n].pos]

\* The keys of a list, read at p until one is not followed by another, or
\* until there are max of them.
KeyList(p, max) ==
    LET key[n \in 1 .. max] == read_string(IF n = 1 THEN p ELSE key[n - 1].pos)
        n == Min({k \in 1 .. max : k = max \/ key[k].closed # ","})
    IN  [keys |-> [k \in 1 .. n |-> key[k].string],
         closed |-> key[n].closed, pos |-> key[n].pos]
=============================================================================
