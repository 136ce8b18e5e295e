--------------------------- MODULE MCConfiguration --------------------------
(***************************************************************************)
(* Configuration for TLC: an unsigned of 4 bits and a long of 5, and lines *)
(* with the numbers around the limits of both.                             *)
(***************************************************************************)
EXTENDS Configuration

Number(sign, digits) == [isNumber |-> TRUE, sign |-> sign, digits |-> digits]
NoNumber == [isNumber |-> FALSE, sign |-> 1, digits |-> 0]
Line(name, text) == [name |-> name, text |-> text]

SomeLines ==
    {OtherLine, Line("TRANSACTION_LOG_FILE_EXT", NoNumber), Line("DB_FILE_PATH", NoNumber)}
        \cup {Line("KEEP_SSTABLE_FILE_OPEN", t) :
                  t \in {Number(1, 0), Number(1, 1), Number(1, 2), Number(1, 8), NoNumber}}
        \cup {Line("NUM_SSTABLE_TO_COMPACT", t) :
                  t \in {Number(1, n) : n \in {0, 1, 2, 7, 8, 15, 16, 18, 31, 32}}
                           \cup {Number(-1, 1), Number(-1, 30), NoNumber}}

SomeDefault ==
    [c \in Configs |-> CASE c \in BoolConfigs -> FALSE
                         [] c \in StringConfigs -> Number(1, 0)
                         [] OTHER -> 5]
=============================================================================
