---------------------------- MODULE ClientParser ----------------------------
(* client/parser.c: the commands a client reads from its standard input. *)
EXTENDS TextReader

SUBSCRIBE == <<"S", "U", "B", "S", "C", "R", "I", "B", "E", " ">>
UNSUBSCRIBE == <<"U", "N">> \o SUBSCRIBE
DELAY == <<"D", "E", "L", "A", "Y", " ">>
DISCONNECT == <<"D", "I", "S", "C", "O", "N", "N", "E", "C", "T">>

get_next(p) ==
    CASE Char(p) = EndOfFile -> Token("EOC", p)
      [] Char(p) = "S" -> Keyword(SUBSCRIBE, "SUBSCRIBE", p)
      [] Char(p) = "U" -> Keyword(UNSUBSCRIBE, "UNSUBSCRIBE", p)
      [] Starts(p, DELAY) -> Token("DELAY", p + Len(DELAY))
      [] Char(p) = "D" /\ ~Starts(p, DELAY) -> Alone(DISCONNECT, "DISCONNECT", p)
      [] Char(p) = "#" -> Token("EMPTY", cleanup(p + 1))
      [] Char(p) = Newline -> Token("EMPTY", p + 1)
      [] OTHER -> Invalid(p + 1)

\* main asks for one key at a time.
parse_list(p, max_keys) ==
    LET list == KeyList(p + 1, max_keys)
    IN  CASE Char(p) # "[" -> Reject(After(p, 1))
          [] Char(p) = "[" /\ list.closed # "]" -> Reject(list.pos)
          [] OTHER -> LineEnd(Copied(list.keys), list.pos)

\* The character behind the number is read and not looked at.
parse_delay(p) ==
    {IF Fits(n) THEN Accept(<<n.digits>>, n.pos) ELSE Reject(n.pos) :
        n \in read_uint(p)}
=============================================================================
