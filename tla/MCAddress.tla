----------------------------- MODULE MCAddress -----------------------------
(* Seven bytes of two bits in nine characters of three kinds: as in the    *)
(* app, a version of VERSION makes the length of every address the same,   *)
(* and some texts of that length are too big to decode.                    *)
EXTENDS Address

SomeChecksum(bytes) == <<Value([n \in DOMAIN bytes |-> n * bytes[n]], 1) % BYTE>>

AllKeys  == [x : [1 .. 2 -> 0 .. 3], is_odd : BOOLEAN]
AllTexts == [1 .. 9 -> 0 .. 2] \union {<<>>, <<2, 1, 0>>, Zeros(10)}
                \union {[[n \in 1 .. 9 |-> 1] EXCEPT ![k] = 3] : k \in 1 .. 9}
\* One with a good checksum, one without.
SomeStack == {<<0, 0, 2, 3, 0, 1, 0>>, <<0, 0, 2, 3, 0, 1, 1>>}
=============================================================================
