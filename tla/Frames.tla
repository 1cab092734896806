------------------------------- MODULE Frames -------------------------------
(***************************************************************************)
(* The four decoders of the program on a line that also carries noise: a   *)
(* session that starts in the middle of a frame, bytes a driver dropped or *)
(* kept from an earlier session, HID reports lost in a full queue.  A line *)
(* delivers its symbols, bytes or HID reports, one by one.  How they are   *)
(* grouped in reads makes no difference, but that read_frame drops what is *)
(* behind a frame in the same read (TakeChunk of AimeReader); here a read  *)
(* of the card reader ends where a frame does.  Noise comes between        *)
(* frames, and a frame may lose a symbol or its tail.                      *)
(***************************************************************************)
EXTENDS Integers, Sequences, Bytes

CONSTANTS
    Codecs,          \* the decoders to look at
    SliderBuf, RxLen, SeqMod,
    Messages(_),     \* the messages of a codec's board
    Garbage(_),      \* the symbols of a codec that noise consists of
    MaxNoise,        \* bound: noise events
    NoMessage        \* no frame, or not a whole one

Slider == INSTANCE SliderCodec
Aime == INSTANCE AimeCodec
Mai2 == INSTANCE Mai2Codec
TouchHid == INSTANCE TouchHidCodec

(* What each board sends: bytes, and lengths that fit the frame's length   *)
(* byte.                                                                   *)
ASSUME MessagesAssumption ==
    /\ Codecs \subseteq {"slider", "aime", "mai2", "touch_hid"}
    /\ \A c \in Codecs : NoMessage \notin Messages(c)
    /\ Messages("slider") \subseteq [cmd : Byte, payload : Seq(Byte)]
    /\ \A m \in Messages("slider") : Len(m.payload) <= 255
    /\ Messages("aime") \subseteq
          [seq : Byte, cmd : Byte, payload : Seq(Byte)]
             \cup [seq : Byte, cmd : Byte, status : Byte, payload : Seq(Byte)]
    /\ \A m \in Messages("aime") :
          Len(m.payload) <= IF "status" \in DOMAIN m THEN 249 ELSE 250
    /\ Messages("mai2") \subseteq [kind : {"touch", "legacy", "board"}, data : Seq(Byte)]
    /\ \A m \in Messages("mai2") :
          /\ m.kind = "touch" => Len(m.data) = 10
          /\ m.kind = "legacy" => Len(m.data) = 7
          /\ m.kind = "board" => Len(m.data) <= 254
    /\ \A m \in Messages("touch_hid") : m.seq \in 0..(SeqMod - 1)

(* Noise on a serial line is bytes; a HID report comes whole or not at all.*)
ASSUME GarbageAssumption ==
    /\ Garbage("mai2") \subseteq Byte
    /\ \A report \in Garbage("touch_hid") : ~report.ok

(* The receive buffer holds the longest frame, and the sequence numbers do *)
(* not come round while frames are being lost.                             *)
ASSUME SizesAssumption ==
    /\ SliderBuf \in Nat
    /\ RxLen \in Nat /\ RxLen > 259
    /\ SeqMod \in Nat /\ MaxNoise \in Nat /\ MaxNoise < SeqMod

VARIABLES
    codec,           \* whose line this is
    decoder,         \* the decoder's state
    line,            \* what is left of the frame on its way
    opening,         \* ... which is all of it
    sent,            \* the message it is, while none of it has been lost
    last,            \* the message sent last
    got,             \* what came out since the frame began
    noise,           \* how much noise there has been
    quiet,           \* bytes since then, up to Swallow
    trusted          \* the frame on its way began with the line quiet

vars == <<codec, decoder, line, opening, sent, last, got, noise, quiet, trusted>>

(* A false board-info header of the mai2 line can cost a whole length byte *)
(* and its frame around it.                                                *)
Swallow == IF codec = "mai2" THEN 259 ELSE 0

Fresh(c) == CASE c = "slider" -> Slider!Idle
              [] c = "aime" -> Aime!Idle
              [] c = "mai2" -> Mai2!Idle
              [] c = "touch_hid" -> TouchHid!Idle

Wire(m) == CASE codec = "slider" -> Slider!Wire(m)
             [] codec = "aime" -> Aime!Wire(m)
             [] codec = "mai2" -> Mai2!Wire(m)
             [] codec = "touch_hid" -> TouchHid!Wire(m)

(* The next symbol on the line, and what is behind it.                     *)
Special == CASE codec = "slider" -> Slider!Special
             [] codec = "aime" -> Aime!Special
             [] OTHER -> {}

EscapeByte == IF codec = "slider" THEN Slider!Escape ELSE Aime!Escape

Symbol == IF opening THEN Head(line) ELSE EscapedHead(line, Special, EscapeByte)
Behind == IF opening THEN Tail(line) ELSE EscapedTail(line, Special)

Push(symbol) == CASE codec = "slider" -> Slider!Push(decoder, symbol)
                  [] codec = "aime" -> Aime!Push(decoder, symbol)
                  [] codec = "mai2" -> Mai2!Push(decoder, symbol)
                  [] codec = "touch_hid" -> TouchHid!Push(decoder, symbol)

Init ==
    /\ codec \in Codecs
    /\ decoder = Fresh(codec)
    /\ line = <<>> /\ opening = FALSE /\ sent = NoMessage /\ last = NoMessage /\ got = <<>>
    /\ noise = 0 /\ quiet = Swallow /\ trusted = FALSE

(* The board numbers its touch frames.                                     *)
InOrder(m) ==
    codec = "touch_hid" => m.seq = IF last = NoMessage THEN 0 ELSE (last.seq + 1) % SeqMod

(* try_parse_frame is not done with the bytes there are; only then another *)
(* one is looked at.                                                       *)
Pending == codec = "mai2" /\ ~Mai2!Incomplete(decoder)

Drain ==
    /\ Pending
    /\ LET step == Mai2!Parse(decoder)
       IN decoder' = step.state /\ got' = got \o step.out
    /\ UNCHANGED <<codec, line, opening, sent, last, noise, quiet, trusted>>

(* Until the line has been quiet long enough the board repeats itself.     *)
Send ==
    /\ ~Pending /\ line = <<>>
    /\ \E m \in Messages(codec) :
          /\ quiet \in {0, Swallow} \/ m = last
          /\ InOrder(m)
          /\ sent' = m /\ last' = m
          /\ line' = Wire(m)
    /\ opening' = TRUE
    /\ got' = <<>>
    /\ trusted' = (quiet = Swallow)
    /\ UNCHANGED <<codec, decoder, noise, quiet>>

Deliver ==
    /\ ~Pending /\ line # <<>>
    /\ LET step == Push(Symbol)
       IN decoder' = step.state /\ got' = got \o step.out
    /\ line' = Behind /\ opening' = FALSE
    /\ quiet' = IF quiet < Swallow THEN quiet + 1 ELSE Swallow
    /\ UNCHANGED <<codec, sent, last, noise, trusted>>

Disturbed ==
    /\ ~Pending
    /\ noise < MaxNoise /\ noise' = noise + 1
    /\ sent' = NoMessage /\ got' = <<>> /\ trusted' = FALSE
    /\ quiet' = 0

Noise ==
    /\ line = <<>>
    /\ Disturbed
    /\ \E symbol \in Garbage(codec) : decoder' = Push(symbol).state
    /\ UNCHANGED <<codec, line, opening, last>>

(* Bound: a frame of bytes breaks as the first disturbance only.           *)
Breakable == line # <<>> /\ (noise = 0 \/ codec = "touch_hid")

Lose ==
    /\ Breakable
    /\ Disturbed
    /\ line' = Behind /\ opening' = FALSE
    /\ UNCHANGED <<codec, decoder, last>>

Cut ==
    /\ Breakable
    /\ Disturbed
    /\ line' = <<>> /\ opening' = FALSE
    /\ UNCHANGED <<codec, decoder, last>>

Next == Send \/ Deliver \/ Drain \/ Noise \/ Lose \/ Cut

Spec == Init /\ [][Next]_vars

----------------------------------------------------------------------------
(* Properties.                                                             *)

(* A whole frame has just been delivered.                                  *)
Whole(c) == codec = c /\ ~Pending /\ line = <<>> /\ sent # NoMessage /\ trusted

(* SliderParser::push finds every whole frame, once and as it was sent,    *)
(* whatever came before it.                                                *)
SliderResyncs == Whole("slider") => got = Slider!Expected(sent)

(* read_frame finds every whole frame whatever came in the reads before,   *)
(* with every byte that encode_frame had to escape; transact finds an      *)
(* answer's status and payload in it.                                      *)
AimeResyncs ==
    Whole("aime") =>
        /\ got = <<Aime!Body(sent)>>
        /\ "status" \in DOMAIN sent =>
              Aime!Response(got[1]) = [status |-> sent.status, payload |-> sent.payload]

(* After noise try_parse_frame may take a false header for a board-info    *)
(* frame and swallow whole touch frames with it, but 259 bytes later every *)
(* frame is found again, once and as it was sent, unless the bytes of the  *)
(* frames themselves make one false header after another.                  *)
Mai2Resyncs == Whole("mai2") => got = Mai2!Expected(sent)

(* try_parse_frame sees that no frame begins with the first byte of b.     *)
Skips(b) == ~Mai2!Incomplete(b) /\ Mai2!FrameLen(b) = 0

(* A frame of m with one of n behind it.                                   *)
Two(m, n) == Mai2!Wire(m) \o Mai2!Wire(n)

(* s from position i on.                                                   *)
End(s, i) == SubSeq(s, i, Len(s))

(* What a frame of m and one of n look like from inside the first one.     *)
Inside(m, n, i) == End(Two(m, n), i)

(* No byte inside a frame looks like the beginning of one by the time the  *)
(* next frame has come.                                                    *)
NoFalseHeaders ==
    \A m, n \in Messages("mai2") : \A i \in 2..Len(Mai2!Wire(m)) : Skips(Inside(m, n, i))

(* The receive buffer never holds more than the longest frame there can    *)
(* be, so serial_reader_thread never throws it away, with the frames in it.*)
RxBufferSuffices == codec = "mai2" => Len(decoder) <= Swallow /\ Swallow < RxLen

(* A touch frame whose two reports both arrive is passed on exactly once,  *)
(* with the sensors of its second report, whatever reports were lost       *)
(* before (fewer than a whole round of sequence numbers).                  *)
TouchHidOnce == Whole("touch_hid") => got = <<TouchHid!Pack(sent.bits[2])>>
=============================================================================
