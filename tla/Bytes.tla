-------------------------------- MODULE Bytes -------------------------------
(***************************************************************************)
(* Bytes, and the two things the framings do with sequences of them.       *)
(***************************************************************************)
EXTENDS Integers, Sequences

Byte == 0..255

(* wrapping_add over all of s: the sums of any n bytes in a row, each of   *)
(* them by halves, which keeps TLC's stack short.                          *)
SumBytes(s) ==
    LET sum[n \in 0..Len(s)] ==
            [i \in 1..(Len(s) + 1 - n) |->
                CASE n = 0 -> 0
                  [] n = 1 -> s[i]
                  [] OTHER ->
                        (sum[n \div 2][i] + sum[n - (n \div 2)][i + (n \div 2)]) % 256]
    IN sum[Len(s)][1]

(* A special byte is sent as the escape byte and the byte before it: the   *)
(* first symbol of what is left to send, and what is left after that.      *)
EscapedHead(s, special, escape) == IF Head(s) \in special THEN escape ELSE Head(s)

EscapedTail(s, special) ==
    IF Head(s) \in special THEN <<Head(s) - 1>> \o Tail(s) ELSE Tail(s)
=============================================================================
