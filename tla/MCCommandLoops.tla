--------------------------- MODULE MCCommandLoops ---------------------------
(* Lines for the runs of CommandLoops. *)
EXTENDS CommandLines, TLC

\* TLC takes a string for the sequence of its characters.
Chars(s) == [i \in 1 .. Len(s) |-> SubSeq(s, i, i)]

Line(string, op, args) == [text |-> Chars(string), op |-> op, args |-> args]
MistypedText(t) == [text |-> t, op |-> "INVALID", args |-> <<>>]
Mistyped(string) == MistypedText(Chars(string))

\* A string with a '\0' and what is behind it.
Nulled(head, tail) == Chars(head) \o <<Job!Nul>> \o Chars(tail)

MCGarbage == {<<>>, <<"5">>, <<"0", "0">>}

A == <<"a">>
B == <<"b">>
AB == <<"a", "b">>

MCCommon ==
    {Line("\n", "EMPTY", <<>>), Line("# READ [a]\n", "EMPTY", <<>>),
     Mistyped("x\n")}

MCJobLines ==
    MCCommon \cup
    {Line("WRITE [(a,b)]\n", "WRITE", <<<<A, B>>>>),
     Line("WRITE [(ab,a)(b,ab)]\n", "WRITE", <<<<AB, A>>, <<B, AB>>>>),
     Line("READ [a,ab]\n", "READ", <<A, AB>>),
     Line("READ []\n", "READ", <<<<>>>>),
     Line("DELETE [b]\n", "DELETE", <<B>>),
     Line("WAIT 12\n", "WAIT", <<<<"1", "2">>>>),
     Line("WAIT 1 2\n", "WAIT", <<<<"1">>>>),
     Line("SHOW\n", "SHOW", <<>>), Line("SHOW", "SHOW", <<>>),
     Line("BACKUP\n", "BACKUP", <<>>), Line("HELP\n", "HELP", <<>>),
     \* Too short for its keyword, or misspelt.
     Mistyped("W\n"), Mistyped("READ\n"), Mistyped("DELET\n"),
     Mistyped("SHOWS\n"),
     \* Without "[", "]", or a separator between pairs; a blank in a pair.
     Mistyped("READ a\n"), Mistyped("READ [a\n"), Mistyped("READ [a)b]\n"),
     Mistyped("WRITE [(a,b),(b,a)]\n"), Mistyped("WRITE [(a,b b)]\n"),
     \* Exactly as much as there is room for, and too much.
     Mistyped("WRITE [(a,b)(b,a)(a,a)]\n"), Mistyped("READ [a,b,a]\n"),
     Mistyped("DELETE [aaa]\n"),
     Mistyped("WAIT 999\n"), Mistyped("WAIT 9"), Mistyped("WAIT x\n"),
     MistypedText(Nulled("READ [a]", "SHOW\n")),
     MistypedText(Nulled("WRITE [(a", ",b)]\n")),
     MistypedText(Nulled("WAIT 1", "\n"))}

MCClientLines ==
    MCCommon \cup
    {Line("SUBSCRIBE [a]\n", "SUBSCRIBE", <<A>>),
     Line("UNSUBSCRIBE [ab]\n", "UNSUBSCRIBE", <<AB>>),
     Line("DELAY 12\n", "DELAY", <<<<"1", "2">>>>),
     Line("DISCONNECT\n", "DISCONNECT", <<>>),
     Line("DISCONNECT", "DISCONNECT", <<>>),
     Mistyped("SUB\n"), Mistyped("SUBSCRIBE [a,b]\n"),
     Mistyped("SUBSCRIBE [aaa]\n"), Mistyped("SUBSCRIBE [a\n"),
     Mistyped("UNSUBSCRIBE [a]b\n"), Mistyped("DELAY 999\n"),
     Mistyped("DELAY 1 SUBSCRIBE [a]\n"), Mistyped("DELAY"),
     Mistyped("DISCONNECTED\n"),
     MistypedText(Nulled("SUBSCRIBE [a]", "\n"))}
=============================================================================
