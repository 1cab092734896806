------------------------------ MODULE Mai2Codec -----------------------------
(***************************************************************************)
(* The serial frames of the mai2 board (crates/affine-mai2/src/lib.rs):    *)
(* the receive buffer of serial_reader_thread and try_parse_frame, which   *)
(* knows a frame by its first bytes and skips a byte when it is none.      *)
(*   FF 01 0A|00 b0 b1 io touch[7] sum    buttons and touch                *)
(*   FF F0 n data[n] sum                  board info, its sum unchecked    *)
(*   28 touch[7] 29                       touch alone, without a sum       *)
(***************************************************************************)
EXTENDS Integers, Sequences, Bytes

CONSTANT RxLen        \* AFFINE_SERIAL_RX_BUF_LEN, 512 in the code

(* Frames as the board sends them (external), from [kind, data].           *)
Wire(m) ==
    CASE m.kind = "touch" ->
            LET body == <<255, 1, 10>> \o m.data IN Append(body, SumBytes(body))
      [] m.kind = "legacy" -> <<40>> \o m.data \o <<41>>
      [] m.kind = "board" ->
            LET body == <<255, 240, Len(m.data) + 1, Len(m.data)>> \o m.data
            IN Append(body, SumBytes(body))

TouchHead(b) == b[1] = 255 /\ b[2] = 1 /\ b[3] \in {0, 10}
BoardHead(b) == b[1] = 255 /\ b[2] = 240

(* Faulty variant: the sum is counted twice.                               *)
BoardLenSumTwice(b) == 3 + b[3] + 2

BoardLen(b) == 3 + b[3] + 1

(* try_parse_frame returns None and keeps the bytes: it may be a frame.    *)
Incomplete(b) ==
    \/ b = <<>>
    \/ /\ b[1] = 255
       /\ \/ Len(b) < 3
          \/ TouchHead(b) /\ Len(b) < 14
          \/ BoardHead(b) /\ BoardLen(b) <= RxLen /\ Len(b) < BoardLen(b)
    \/ b[1] = 40 /\ Len(b) < 9

(* The bytes of the frame that b starts with, 0 if it does not: a byte is  *)
(* skipped then.                                                           *)
FrameLen(b) ==
    CASE b[1] = 255 /\ TouchHead(b) ->
            IF SumBytes(SubSeq(b, 1, 13)) = b[14] THEN 14 ELSE 0
      [] b[1] = 255 /\ BoardHead(b) -> IF BoardLen(b) <= RxLen THEN BoardLen(b) ELSE 0
      [] b[1] = 40 -> IF b[9] = 41 THEN 9 ELSE 0
      [] OTHER -> 0

(* parse_board_info; <<>> stands for "unknown".                            *)
Version(data) ==
    IF data = <<>> \/ data[1] = 0 \/ data[1] + 1 > Len(data) THEN <<>>
    ELSE SubSeq(data, 2, 1 + data[1])

(* The nibbles that buttons0 takes from the two button bytes.              *)
Buttons(b0, b1) == (b0 % 16) + (b1 - (b1 % 16))

Frame(b) ==
    CASE TouchHead(b) ->
            [kind |-> "touch",
             data |-> <<Buttons(b[4], b[5]), b[6] % 64>> \o SubSeq(b, 7, 13)]
      [] BoardHead(b) -> [kind |-> "board", data |-> Version(SubSeq(b, 4, 3 + b[3]))]
      [] OTHER -> [kind |-> "legacy", data |-> SubSeq(b, 2, 8)]

Rest(b, n) == SubSeq(b, n + 1, Len(b))

(* Faulty variant: with a byte that begins no frame the others go, too.    *)
ParseClears(b) ==
    IF FrameLen(b) > 0 THEN [state |-> Rest(b, FrameLen(b)), out |-> <<Frame(b)>>]
    ELSE [state |-> <<>>, out |-> <<>>]

(* One round of try_parse_frame: a frame is taken, or a byte skipped.      *)
Parse(b) ==
    IF FrameLen(b) > 0 THEN [state |-> Rest(b, FrameLen(b)), out |-> <<Frame(b)>>]
    ELSE [state |-> Rest(b, 1), out |-> <<>>]

Idle == <<>>

(* One byte of serial_reader_thread: a full buffer is thrown away first.   *)
Push(buf, byte) ==
    [state |-> Append(IF Len(buf) >= RxLen THEN <<>> ELSE buf, byte), out |-> <<>>]

(* What comes of a whole frame.                                            *)
Expected(m) ==
    IF m.kind = "touch"
    THEN <<[kind |-> "touch",
            data |-> <<Buttons(m.data[1], m.data[2]), m.data[3] % 64>> \o SubSeq(m.data, 4, 10)]>>
    ELSE <<m>>
=============================================================================
