----------------------------- MODULE SliderCodec ----------------------------
(***************************************************************************)
(* The framing of the chuni and mercury boards: SliderParser::push of      *)
(* crates/affine-core/src/slider.rs, one byte at a time.  The parser keeps *)
(* no checksum: whoever gets a packet trusts its length.                   *)
(***************************************************************************)
EXTENDS Integers, Sequences, Bytes

CONSTANT SliderBuf    \* SliderParser.buf.len(), 128 in the code

Sync == 255
Escape == 253

(* A message is [cmd, payload].  The board adds a checksum, and escapes    *)
(* the special bytes behind the first one (external).                      *)
Special == {Sync, Escape}

Wire(m) ==
    LET body == <<Sync, m.cmd, Len(m.payload)>> \o m.payload
    IN Append(body, (256 - SumBytes(body)) % 256)

(* The parser: active and len are one, the buffer is empty when inactive.  *)
Idle == [buf |-> <<>>, escaped |-> FALSE]

Result(d, packets) == [state |-> d, out |-> packets]

Complete(buf) == Len(buf) >= 4 /\ Len(buf) >= buf[3] + 4

Store(d, value) ==
    LET buf == Append(d.buf, value)
    IN IF Len(d.buf) >= SliderBuf THEN Result(Idle, <<>>)
       ELSE IF Complete(buf)
       THEN Result(Idle, <<[cmd |-> buf[2], payload |-> SubSeq(buf, 4, buf[3] + 3)]>>)
       ELSE Result([buf |-> buf, escaped |-> FALSE], <<>>)

(* Faulty variant: a new frame does not clear a pending escape.            *)
PushKeepsEscape(d, byte) ==
    CASE byte = Sync -> Result([d EXCEPT !.buf = <<Sync>>], <<>>)
      [] byte # Sync /\ d.buf = <<>> -> Result(d, <<>>)
      [] byte = Escape /\ d.buf # <<>> -> Result([d EXCEPT !.escaped = TRUE], <<>>)
      [] OTHER -> Store(d, IF d.escaped THEN (byte + 1) % 256 ELSE byte)

Push(d, byte) ==
    CASE byte = Sync -> Result([buf |-> <<Sync>>, escaped |-> FALSE], <<>>)
      [] byte # Sync /\ d.buf = <<>> -> Result(d, <<>>)
      [] byte = Escape /\ d.buf # <<>> -> Result([d EXCEPT !.escaped = TRUE], <<>>)
      [] OTHER -> Store(d, IF d.escaped THEN (byte + 1) % 256 ELSE byte)

(* What comes of a whole frame: one packet, or none if it does not fit.    *)
Expected(m) == IF Len(m.payload) + 4 <= SliderBuf THEN <<m>> ELSE <<>>
=============================================================================
