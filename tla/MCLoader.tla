-------------------------------- MODULE MCLoader --------------------------------
(* An instance of Loader for TLC: six values of a byte, 36 bytes of memory,  *)
(* records of at most two data bytes, files of up to three lines.            *)
EXTENDS Loader

MCLine(type, length, high, low, bytes) ==
    [type |-> type, length |-> length, high |-> high, low |-> low, bytes |-> bytes]

\* Two data bytes at three addresses, overlapping and at the end of memory, with
\* every checksum; records that are too short for their length or have something
\* else in them, and one that just fits into memory.
Spots   == {<<0, 1>>, <<0, 2>>, <<5, 5>>}
Whole   == {MCLine("S1", 5, p[1], p[2], <<1, 2, c>>) : p \in Spots, c \in Byte}
Broken  == {MCLine("S1", 5, p[1], p[2], b) :
                p \in Spots, b \in {<<Unreadable, 2, 0>>, <<3, Unreadable>>, <<3>>, <<3, 4>>}}
AtEnd   == {MCLine("S1", 4, 5, 5, <<2, c>>) : c \in Byte}
Others  == {MCLine("S9", 3, 2, 0, <<c>>) : c \in Byte}
           \cup {MCLine("S9", 3, 1, 1, <<>>), MCLine("S0", 4, 0, 0, <<1, 0>>),
                 MCLine("S1", 2, 0, 2, <<1>>), MCLine("other", 3, 0, 0, <<0>>),
                 MCLine("S9", Unreadable, 0, 0, <<>>),
                 MCLine(Unreadable, Unreadable, Unreadable, Unreadable, <<>>)}

MCLines == Whole \cup Broken \cup AtEnd \cup Others
MCFiles == UNION {[1 .. n -> MCLines] : n \in 0 .. 2}
              \cup {<<k, l, m>> : k \in Whole, l \in Broken \cup AtEnd, m \in Others}
=================================================================================
