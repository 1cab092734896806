------------------------------ MODULE AimeCodec -----------------------------
(***************************************************************************)
(* The framing of the card reader (crates/affine-aime/src/lib.rs):         *)
(* encode_frame, the decoder inside read_frame, one byte at a time, and    *)
(* what transact takes from the decoded frame.                             *)
(***************************************************************************)
EXTENDS Integers, Sequences, Bytes

Sync == 224
Escape == 208

(* The bodies of a command, and of a board's answer (external).            *)
Command(m) ==
    <<(5 + Len(m.payload)) % 256, 0, m.seq, m.cmd, Len(m.payload) % 256>> \o m.payload

Answer(m) ==
    <<6 + Len(m.payload), 0, m.seq, m.cmd, m.status, Len(m.payload)>> \o m.payload

Body(m) == IF "status" \in DOMAIN m THEN Answer(m) ELSE Command(m)

(* The special bytes behind the first one are escaped.                     *)
Special == {Sync, Escape}

Wire(m) == <<Sync>> \o Append(Body(m), SumBytes(Body(m)))

(* The locals of read_frame; it returns at the first whole frame, and the  *)
(* next call starts afresh.                                                *)
Idle == [started |-> FALSE, escaped |-> FALSE, decoded |-> <<>>]

Result(d, frames) == [state |-> d, out |-> frames]

Store(d, value) ==
    LET decoded == Append(d.decoded, value)
        body    == SubSeq(decoded, 1, Len(decoded) - 1)
    IN IF Len(decoded) >= 2 /\ Len(decoded) = decoded[1] + 1
       THEN Result(Idle, IF SumBytes(body) = value THEN <<body>> ELSE <<>>)
       ELSE Result([d EXCEPT !.decoded = decoded, !.escaped = FALSE], <<>>)

(* Faulty variant: a start byte inside a frame does not restart it.        *)
PushIgnoresRestart(d, byte) ==
    CASE ~ d.started /\ byte # Sync -> Result(d, <<>>)
      [] ~ d.started /\ byte = Sync -> Result([Idle EXCEPT !.started = TRUE], <<>>)
      [] d.started /\ byte = Sync -> Result(d, <<>>)
      [] d.started /\ byte = Escape -> Result([d EXCEPT !.escaped = TRUE], <<>>)
      [] OTHER -> Store(d, IF d.escaped THEN (byte + 1) % 256 ELSE byte)

Push(d, byte) ==
    CASE ~ d.started /\ byte # Sync -> Result(d, <<>>)
      [] byte = Sync -> Result([Idle EXCEPT !.started = TRUE], <<>>)
      [] d.started /\ byte = Escape -> Result([d EXCEPT !.escaped = TRUE], <<>>)
      [] OTHER -> Store(d, IF d.escaped THEN (byte + 1) % 256 ELSE byte)

(* transact: the status and the payload of an answer.                      *)
Response(frame) == [status |-> frame[5], payload |-> SubSeq(frame, 7, 6 + frame[6])]
=============================================================================
