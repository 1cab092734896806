---------------------------- MODULE FramesProofs ----------------------------
(***************************************************************************)
(* The four decoders, for every message the boards can send, any noise on  *)
(* their lines and a receive buffer that holds the longest mai2 frame:     *)
(* SliderParser::push and read_frame find every whole frame, the assembler *)
(* of the touch reports passes every whole frame on once, the buffer of    *)
(* serial_reader_thread is never thrown away, and try_parse_frame finds    *)
(* every frame of a line without noise.                                    *)
(* A decoder and its line hold one frame between them: the invariants say  *)
(* what the decoder has of it while the rest is still on the line.         *)
(***************************************************************************)
EXTENDS Frames, NaturalsInduction, WellFoundedInduction, TLAPS

-----------------------------------------------------------------------------
(* Sums of bytes.                                                          *)

(* Induction over the length of the data: the order of the numbers is well *)
(* founded ...                                                             *)
LEMMA LessIsWellFounded ==
  \E R : /\ IsWellFoundedOn(R, Nat)
         /\ \A x, y \in Nat : <<x, y>> \in R <=> x < y
<1>1. IsWellFoundedOn(OpToRel(<, Nat), Nat)
  BY NatLessThanWellFounded
<1>2. \A x, y \in Nat : <<x, y>> \in OpToRel(<, Nat) <=> x < y
  BY DEF OpToRel
<1> QED
  BY <1>1, <1>2

(* ... so where a number has a property, a smallest one has.               *)
LEMMA Smallest ==
  ASSUME NEW T, T \subseteq Nat, T # {}
  PROVE  \E n \in T : \A k \in 0..(n - 1) : k \notin T
<1>1. PICK R : /\ IsWellFoundedOn(R, Nat)
               /\ \A x, y \in Nat : <<x, y>> \in R <=> x < y
  BY LessIsWellFounded
<1>2. IsWellFoundedOn(R, Nat)
  BY <1>1
<1>3. PICK x \in T : \A y \in T : ~(<<y, x>> \in R)
  BY <1>2, WFMin, Zenon
<1>4. ASSUME NEW k \in 0..(x - 1)
      PROVE  k \notin T
  <2>1. k \in Nat /\ x \in Nat /\ k < x
    OBVIOUS
  <2>2. <<k, x>> \in R
    BY <1>1, <2>1
  <2> QED
    BY <1>3, <2>2
<1> QED
  BY <1>4

(* The sums of any n bytes in a row of s, as SumBytes takes them from f,   *)
(* the sums of fewer.                                                      *)
Row(f, s, n) ==
  [i \in 1..(Len(s) + 1 - n) |->
                CASE n = 0 -> 0
                  [] n = 1 -> s[i]
                  [] OTHER ->
                        (f[n \div 2][i] + f[n - (n \div 2)][i + (n \div 2)]) % 256]

(* The table behind SumBytes.                                              *)
Sums(s) == CHOOSE f : f = [n \in 0..Len(s) |-> Row(f, s, n)]

(* SumBytes is its last entry.                                             *)
LEMMA SumIsLast == \A s : SumBytes(s) = Sums(s)[Len(s)][1]
  BY DEF SumBytes, Sums, Row

(* A row depends on the rows before it only.                               *)
LEMMA RowAgrees ==
  ASSUME NEW s, NEW f, NEW g, NEW n \in Nat,
         \A k \in 0..(n - 1) : f[k] = g[k]
  PROVE  Row(f, s, n) = Row(g, s, n)
<1>1. CASE n > 1
  <2>1. n \div 2 \in 0..(n - 1) /\ n - (n \div 2) \in 0..(n - 1)
    BY <1>1
  <2> QED
    BY <2>1, <1>1 DEF Row
<1>2. CASE n = 0 \/ n = 1
  BY <1>2 DEF Row
<1> QED
  BY <1>1, <1>2

(* There is such a table: TLA+ chooses one, and it is the one meant.       *)
LEMMA SumsExist ==
  ASSUME NEW s, Len(s) \in Nat
  PROVE  Sums(s) = [n \in 0..Len(s) |-> Row(Sums(s), s, n)]
<1> DEFINE Good(n) == \E f : f = [k \in 0..n |-> Row(f, s, k)]
           T == {n \in Nat : ~Good(n)}
<1>1. Good(0)
  <2> DEFINE f == [k \in 0..0 |-> Row(<<>>, s, k)]
  <2>1. \A k \in 0..0 : Row(<<>>, s, k) = Row(f, s, k)
    BY RowAgrees
  <2> QED
    BY <2>1
<1>2. ASSUME NEW n \in Nat, Good(n)
      PROVE  Good(n + 1)
  <2>1. PICK g : g = [k \in 0..n |-> Row(g, s, k)]
    BY <1>2
  <2> DEFINE f == [k \in 0..(n + 1) |-> IF k = n + 1 THEN Row(g, s, k) ELSE g[k]]
  <2>2. \A k \in 0..n : f[k] = g[k]
    OBVIOUS
  <2>3. \A k \in 0..(n + 1) : \A j \in 0..(k - 1) : f[j] = g[j]
    BY <2>2
  <2>4. \A k \in 0..(n + 1) : Row(f, s, k) = Row(g, s, k)
    <3> TAKE k \in 0..(n + 1)
    <3>1. k \in Nat /\ \A j \in 0..(k - 1) : f[j] = g[j]
      BY <2>3
    <3> HIDE DEF f
    <3> QED
      BY <3>1, RowAgrees
  <2>5. \A k \in 0..n : g[k] = Row(g, s, k)
    BY <2>1
  <2>6. \A k \in 0..(n + 1) : f[k] = Row(f, s, k)
    BY <2>4, <2>5
  <2>7. f = [k \in 0..(n + 1) |-> f[k]]
    OBVIOUS
  <2>8. f = [k \in 0..(n + 1) |-> Row(f, s, k)]
    <3> HIDE DEF f
    <3> QED
      BY <2>6, <2>7
  <2> QED
    BY <2>8
<1>3. T = {}
  <2>1. SUFFICES ASSUME T # {} PROVE FALSE
    OBVIOUS
  <2>2. PICK n \in T : \A k \in 0..(n - 1) : k \notin T
    <3> T \subseteq Nat
      OBVIOUS
    <3> HIDE DEF T
    <3> QED
      BY <2>1, Smallest
  <2>3. n \in Nat /\ ~Good(n)
    OBVIOUS
  <2>4. n # 0
    BY <1>1, <2>3
  <2>5. n - 1 \in Nat /\ Good(n - 1)
    BY <2>2, <2>3, <2>4
  <2>6. n = (n - 1) + 1
    BY <2>3
  <2> HIDE DEF Good
  <2> QED
    BY <1>2, <2>3, <2>5, <2>6
<1>4. Good(Len(s))
  BY <1>3
<1> QED
  BY <1>4 DEF Sums

(* The wrapping_add of any bytes is a byte: were it not, there would be a  *)
(* smallest number of bytes whose sum is none, and that sum is made of two *)
(* smaller ones.                                                           *)
LEMMA SumType ==
  ASSUME NEW s \in Seq(Byte)
  PROVE  SumBytes(s) \in Byte
<1> DEFINE Good(n) == \A i \in 1..(Len(s) + 1 - n) : Sums(s)[n][i] \in Byte
           T == {n \in 0..Len(s) : ~Good(n)}
<1>1. Len(s) \in Nat
  OBVIOUS
<1>2. \A n \in 0..Len(s) : Sums(s)[n] = Row(Sums(s), s, n)
  BY <1>1, SumsExist
<1>3. T = {}
  <2>1. SUFFICES ASSUME T # {} PROVE FALSE
    OBVIOUS
  <2>2. PICK n \in T : \A k \in 0..(n - 1) : k \notin T
    <3> T \subseteq Nat
      OBVIOUS
    <3> HIDE DEF T
    <3> QED
      BY <2>1, Smallest
  <2>3. n \in 0..Len(s) /\ ~Good(n)
    OBVIOUS
  <2>4. \A k \in 0..(n - 1) : Good(k)
    BY <1>1, <2>2, <2>3
  <2>5. PICK i \in 1..(Len(s) + 1 - n) : ~(Sums(s)[n][i] \in Byte)
    BY <2>3
  <2>6. n > 1
    <3>1. Sums(s)[n][i] = Row(Sums(s), s, n)[i]
      BY <1>2, <2>3
    <3>2. CASE n = 0
      <4>1. Row(Sums(s), s, n)[i] = 0
        BY <3>2, <2>5 DEF Row
      <4> QED
        BY <4>1, <3>1, <2>5 DEF Byte
    <3>3. CASE n = 1
      <4>1. Row(Sums(s), s, n)[i] = s[i]
        BY <3>3, <2>5 DEF Row
      <4>2. s[i] \in Byte
        BY <1>1, <2>5, <3>3
      <4> QED
        BY <4>1, <4>2, <3>1, <2>5
    <3> QED
      BY <2>3, <3>2, <3>3
  <2>7. Sums(s)[n][i] = (Sums(s)[n \div 2][i] + Sums(s)[n - (n \div 2)][i + (n \div 2)]) % 256
    <3>1. Sums(s)[n][i] = Row(Sums(s), s, n)[i]
      BY <1>2, <2>3
    <3>2. n # 0 /\ n # 1
      BY <2>6
    <3>3. i \in 1..(Len(s) + 1 - n)
      OBVIOUS
    <3> QED
      BY <3>1, <3>2, <3>3, Zenon DEF Row
  <2>8. /\ n \div 2 \in 0..(n - 1) /\ n - (n \div 2) \in 0..(n - 1)
        /\ i \in 1..(Len(s) + 1 - (n \div 2))
        /\ i + (n \div 2) \in 1..(Len(s) + 1 - (n - (n \div 2)))
    BY <1>1, <2>3, <2>6
  <2>9. /\ Sums(s)[n \div 2][i] \in Byte
        /\ Sums(s)[n - (n \div 2)][i + (n \div 2)] \in Byte
    BY <2>4, <2>8
  <2>10. \A a, b \in Byte : (a + b) % 256 \in Byte
    BY DEF Byte
  <2> QED
    BY <2>5, <2>7, <2>9, <2>10
<1>4. Good(Len(s))
  BY <1>1, <1>3
<1> QED
  BY <1>1, <1>4, SumIsLast

(* The same for the sum of each frame format.                              *)
LEMMA CodecSumTypes ==
  ASSUME NEW s \in Seq(Byte)
  PROVE  /\ Slider!SumBytes(s) \in Byte
         /\ Aime!SumBytes(s) \in Byte
         /\ Mai2!SumBytes(s) \in Byte
<1>1. Slider!SumBytes(s) = SumBytes(s)
  BY DEF SumBytes, Slider!SumBytes
<1>2. Aime!SumBytes(s) = SumBytes(s)
  BY DEF SumBytes, Aime!SumBytes
<1>3. Mai2!SumBytes(s) = SumBytes(s)
  BY DEF SumBytes, Mai2!SumBytes
<1> QED
  BY <1>1, <1>2, <1>3, SumType

-----------------------------------------------------------------------------
(* The receive buffer of the mai2 board.                                   *)

(* What is in the receive buffer is not longer than the longest frame.     *)
Mai2Inv ==
    codec = "mai2" =>
        /\ line \in Seq(Byte)
        /\ decoder \in Seq(Byte) /\ Len(decoder) <= 259

(* The board's frames are bytes.                                           *)
LEMMA Mai2WireType ==
  ASSUME NEW m \in Messages("mai2")
  PROVE  Mai2!Wire(m) \in Seq(Byte)
<1>1. m \in [kind : {"touch", "legacy", "board"}, data : Seq(Byte)]
  BY MessagesAssumption
<1>2. CASE m.kind = "touch"
  <2> DEFINE body == <<255, 1, 10>> \o m.data
  <2>1. body \in Seq(Byte)
    BY <1>1 DEF Byte
  <2>2. Mai2!Wire(m) = Append(body, Mai2!SumBytes(body))
    BY <1>2 DEF Mai2!Wire
  <2> HIDE DEF body
  <2> QED
    BY <2>1, <2>2, CodecSumTypes
<1>3. CASE m.kind = "legacy"
  <2>1. <<40>> \in Seq(Byte) /\ <<41>> \in Seq(Byte) /\ m.data \in Seq(Byte)
    BY <1>1 DEF Byte
  <2>2. Mai2!Wire(m) = <<40>> \o m.data \o <<41>>
    BY <1>3 DEF Mai2!Wire
  <2> QED
    BY <2>1, <2>2
<1>4. CASE m.kind = "board"
  <2> DEFINE body == <<255, 240, Len(m.data) + 1, Len(m.data)>> \o m.data
  <2>1. body \in Seq(Byte)
    <3>1. Len(m.data) \in Nat /\ Len(m.data) <= 254 /\ m.data \in Seq(Byte)
      BY <1>1, <1>4, MessagesAssumption
    <3>2. <<255, 240, Len(m.data) + 1, Len(m.data)>> \in Seq(Byte)
      <4>1. /\ 255 \in Byte /\ 240 \in Byte
            /\ Len(m.data) + 1 \in Byte /\ Len(m.data) \in Byte
        <5>1. 255 \in Byte /\ 240 \in Byte
          BY DEF Byte
        <5>2. \A n \in Nat : n <= 254 => n \in Byte /\ n + 1 \in Byte
          BY DEF Byte
        <5> QED
          BY <3>1, <5>1, <5>2
      <4> QED
        BY <4>1
    <3> QED
      BY <3>1, <3>2
  <2>2. Mai2!Wire(m) = Append(body, Mai2!SumBytes(body))
    BY <1>4 DEF Mai2!Wire
  <2> HIDE DEF body
  <2> QED
    BY <2>1, <2>2, CodecSumTypes
<1> QED
  BY <1>1, <1>2, <1>3, <1>4

(* A board-info frame has a length byte: no more than 259 bytes.           *)
LEMMA BoardLenType ==
  ASSUME NEW b \in Seq(Byte), Len(b) >= 3
  PROVE  Mai2!BoardLen(b) \in Nat /\ Mai2!BoardLen(b) <= 259
<1>1. 3 \in 1..Len(b)
  OBVIOUS
<1>2. b[3] \in Byte
  BY <1>1
<1>3. \A x \in Byte : 3 + x + 1 \in Nat /\ 3 + x + 1 <= 259
  BY DEF Byte
<1> QED
  BY <1>2, <1>3 DEF Mai2!BoardLen

(* What try_parse_frame waits with is shorter than the longest frame.      *)
LEMMA IncompleteIsShort ==
  ASSUME NEW b \in Seq(Byte), Mai2!Incomplete(b)
  PROVE  Len(b) <= 258
<1>1. CASE b = <<>>
  BY <1>1
<1>2. CASE Len(b) < 14
  BY <1>2
<1>3. CASE Len(b) >= 14 /\ Len(b) < Mai2!BoardLen(b)
  <2>1. Mai2!BoardLen(b) \in Nat /\ Mai2!BoardLen(b) <= 259
    BY <1>3, BoardLenType
  <2> QED
    BY <1>3, <2>1
<1> QED
  BY <1>1, <1>2, <1>3 DEF Mai2!Incomplete

(* What is no longer waited with has a length.                             *)
LEMMA FrameLenType ==
  ASSUME NEW b \in Seq(Byte), ~Mai2!Incomplete(b)
  PROVE  Mai2!FrameLen(b) \in Nat
<1>1. b # <<>> /\ (Len(b) < 3 => b[1] # 255)
  BY DEF Mai2!Incomplete
<1>2. CASE Mai2!BoardHead(b)
  <2>1. Len(b) >= 3
    BY <1>1, <1>2 DEF Mai2!BoardHead
  <2>2. Mai2!BoardLen(b) \in Nat
    BY <2>1, BoardLenType
  <2> QED
    BY <2>2 DEF Mai2!FrameLen
<1>3. CASE ~Mai2!BoardHead(b)
  BY <1>3 DEF Mai2!FrameLen
<1> QED
  BY <1>2, <1>3

(* A round of try_parse_frame only takes bytes away.                       *)
LEMMA ParseShrinks ==
  ASSUME NEW b \in Seq(Byte), ~Mai2!Incomplete(b)
  PROVE  /\ Mai2!Parse(b).state \in Seq(Byte)
         /\ Len(Mai2!Parse(b).state) <= Len(b)
<1>1. \A n \in Nat : Mai2!Rest(b, n) \in Seq(Byte) /\ Len(Mai2!Rest(b, n)) <= Len(b)
  BY DEF Mai2!Rest
<1>2. Mai2!FrameLen(b) \in Nat
  BY FrameLenType
<1> QED
  BY <1>1, <1>2 DEF Mai2!Parse

(* A byte behind an unfinished frame fits in the buffer.                   *)
LEMMA Mai2Push ==
  ASSUME NEW b \in Seq(Byte), Len(b) <= 258, NEW x \in Byte
  PROVE  /\ Mai2!Push(b, x).state \in Seq(Byte)
         /\ Len(Mai2!Push(b, x).state) <= 259
<1>1. ~(Len(b) >= RxLen)
  BY SizesAssumption
<1>2. Mai2!Push(b, x).state = Append(b, x)
  BY <1>1 DEF Mai2!Push
<1> QED
  BY <1>2

(* The mai2 board and the HID reports escape nothing.                      *)
LEMMA PlainSymbols ==
  ASSUME codec \notin {"slider", "aime"}, line # <<>>
  PROVE  Symbol = Head(line) /\ Behind = Tail(line)
<1>1. Special = {}
  BY DEF Special
<1> QED
  BY <1>1 DEF Symbol, Behind, EscapedHead, EscapedTail

(* The buffer starts empty.                                                *)
LEMMA Mai2InvInit == Init => Mai2Inv
  BY DEF Init, Mai2Inv, Fresh, Mai2!Idle

(* Another byte is looked at only when try_parse_frame waits, with the     *)
(* buffer shorter than the frame it waits for.                             *)
LEMMA Mai2InvStep == Mai2Inv /\ [Next]_vars => Mai2Inv'
<1> SUFFICES ASSUME Mai2Inv, [Next]_vars, codec' = "mai2"
             PROVE  /\ line' \in Seq(Byte)
                    /\ decoder' \in Seq(Byte) /\ Len(decoder') <= 259
  BY DEF Mai2Inv
<1>1. codec = "mai2"
  BY DEF Next, Send, Deliver, Drain, Noise, Lose, Cut, vars
<1>2. /\ line \in Seq(Byte)
      /\ decoder \in Seq(Byte) /\ Len(decoder) <= 259
  BY <1>1 DEF Mai2Inv
<1>3. ~Pending => Len(decoder) <= 258
  BY <1>1, <1>2, IncompleteIsShort DEF Pending
<1>4. line # <<>> => Behind \in Seq(Byte) /\ Symbol \in Byte
  BY <1>1, <1>2, PlainSymbols
<1>5. CASE Drain
  <2>1. ~Mai2!Incomplete(decoder) /\ line' = line
    BY <1>5 DEF Drain, Pending
  <2>2. decoder' = Mai2!Parse(decoder).state
    BY <1>5 DEF Drain
  <2> QED
    BY <1>2, <2>1, <2>2, ParseShrinks
<1>6. CASE Send
  <2>1. PICK m \in Messages(codec) : line' = Wire(m)
    BY <1>6 DEF Send
  <2>2. line' = Mai2!Wire(m) /\ m \in Messages("mai2")
    BY <1>1, <2>1 DEF Wire
  <2>3. decoder' = decoder
    BY <1>6 DEF Send
  <2> QED
    BY <1>2, <2>2, <2>3, Mai2WireType
<1>7. CASE Deliver
  <2>1. ~Pending /\ line # <<>> /\ line' = Behind
    BY <1>7 DEF Deliver
  <2>2. decoder' = Mai2!Push(decoder, Symbol).state
    BY <1>1, <1>7 DEF Deliver, Push
  <2> QED
    BY <1>2, <1>3, <1>4, <2>1, <2>2, Mai2Push
<1>8. CASE Noise
  <2>1. ~Pending /\ line' = line
    BY <1>8 DEF Noise, Disturbed
  <2>2. PICK symbol \in Garbage(codec) : decoder' = Push(symbol).state
    BY <1>8 DEF Noise
  <2>3. symbol \in Byte
    BY <1>1, <2>2, GarbageAssumption
  <2>4. decoder' = Mai2!Push(decoder, symbol).state
    BY <1>1, <2>2 DEF Push
  <2> QED
    BY <1>2, <1>3, <2>1, <2>3, <2>4, Mai2Push
<1>9. CASE Lose
  BY <1>2, <1>4, <1>9 DEF Lose, Breakable
<1>10. CASE Cut
  BY <1>2, <1>10 DEF Cut
<1>11. CASE UNCHANGED vars
  BY <1>2, <1>11 DEF vars
<1> QED
  BY <1>5, <1>6, <1>7, <1>8, <1>9, <1>10, <1>11 DEF Next

(* The receive buffer of serial_reader_thread holds at most 259 bytes,     *)
(* whatever the line carries.                                              *)
THEOREM Mai2InvHolds == Spec => []Mai2Inv
  BY Mai2InvInit, Mai2InvStep, PTL DEF Spec

(* serial_reader_thread never throws its receive buffer away: no frame is  *)
(* lost because the buffer is full of bytes before it.                     *)
THEOREM RxBuffer == Spec => []RxBufferSuffices
<1>1. Mai2Inv => RxBufferSuffices
  BY SizesAssumption DEF Mai2Inv, RxBufferSuffices, Swallow
<1> QED
  BY <1>1, Mai2InvHolds, PTL

-----------------------------------------------------------------------------
(* The touch frames that come as two HID reports.                          *)

(* How many frames were sent between two sequence numbers.                 *)
Age(from, to) == IF from <= to THEN to - from ELSE to + SeqMod - from

(* TouchHidAssembler between two reports: at most one of the two is there. *)
TouchDecoder == [seq : 0..(SeqMod - 1), mask : {{}, {0}, {1}}]

(* The assembler, and the count of the reports lost so far.                *)
TouchTypes ==
    /\ decoder \in TouchDecoder
    /\ noise \in 0..MaxNoise
    /\ sent \in {NoMessage, last}

(* Nothing of the frame has been taken yet: a half frame in the assembler  *)
(* is older, by no more than reports have been lost.                       *)
TouchWhole ==
    /\ line = TouchHid!Wire(last)
    /\ decoder.mask # {} => Age(decoder.seq, last.seq) \in 1..noise
    /\ sent # NoMessage => got = <<>>

(* The first report has been taken, or it was lost.                        *)
TouchSecond ==
    /\ line = Tail(TouchHid!Wire(last))
    /\ \/ /\ decoder = [seq |-> last.seq, mask |-> {0}]
          /\ sent # NoMessage => got = <<>>
       \/ /\ sent = NoMessage /\ noise > 0
          /\ decoder.mask # {} => Age(decoder.seq, last.seq) \in 1..(noise - 1)

(* The frame is over: half of it is left only when a report was lost.      *)
TouchOver ==
    /\ line = <<>>
    /\ decoder.mask # {} => sent = NoMessage /\ Age(decoder.seq, last.seq) < noise
    /\ sent # NoMessage => got = <<TouchHid!Pack(sent.bits[2])>>

(* The half frame in the assembler is never so old that the sequence       *)
(* numbers have come round to it.                                          *)
TouchHidInv ==
    codec = "touch_hid" =>
        /\ codec \in Codecs
        /\ TouchTypes
        /\ \/ last = NoMessage /\ line = <<>> /\ decoder.mask = {}
           \/ last \in Messages("touch_hid") /\ (TouchWhole \/ TouchSecond \/ TouchOver)

(* The i-th report of a frame.                                             *)
Report(m, i) == [ok |-> TRUE, seq |-> m.seq, index |-> i - 1, bits |-> m.bits[i]]

(* A frame is two reports.                                                 *)
LEMMA TouchWire == \A m : TouchHid!Wire(m) = <<Report(m, 1), Report(m, 2)>>
<1> TAKE m
<1>1. TouchHid!Wire(m) = [i \in 1..2 |-> Report(m, i)]
  BY DEF TouchHid!Wire, TouchHid!PartCount, Report
<1>2. \A f : [i \in 1..2 |-> f[i]] = <<f[1], f[2]>>
  OBVIOUS
<1> DEFINE f == [i \in 1..2 |-> Report(m, i)]
<1>3. f = <<f[1], f[2]>>
  BY <1>2
<1> QED
  BY <1>1, <1>3

(* TouchHidAssembler::push completes the frame whose other half it has, and*)
(* starts the report's own frame otherwise.                                *)
LEMMA TouchPush ==
  ASSUME NEW d \in TouchDecoder, NEW m, NEW i \in {1, 2}
  PROVE  /\ d.seq = m.seq /\ d.mask = {2 - i} =>
              /\ TouchHid!Push(d, Report(m, i)).state = [seq |-> m.seq, mask |-> {}]
              /\ TouchHid!Push(d, Report(m, i)).out = <<TouchHid!Pack(m.bits[i])>>
         /\ ~(d.seq = m.seq /\ d.mask = {2 - i}) =>
              /\ TouchHid!Push(d, Report(m, i)).state = [seq |-> m.seq, mask |-> {i - 1}]
              /\ TouchHid!Push(d, Report(m, i)).out = <<>>
<1> DEFINE mask == (IF d.seq = m.seq THEN d.mask ELSE {}) \cup {i - 1}
           done == [state |-> [seq |-> m.seq, mask |-> {}], out |-> <<TouchHid!Pack(m.bits[i])>>]
           kept == [state |-> [seq |-> m.seq, mask |-> mask], out |-> <<>>]
<1>1. 0..(TouchHid!PartCount - 1) = {0, 1}
  BY DEF TouchHid!PartCount
<1>2. TouchHid!Push(d, Report(m, i)) = IF mask = {0, 1} THEN done ELSE kept
  BY <1>1 DEF TouchHid!Push, TouchHid!Assemble, Report
<1>3. d.mask \in {{}, {0}, {1}}
  BY DEF TouchDecoder
<1>4. ASSUME d.seq = m.seq /\ d.mask = {2 - i}
      PROVE  mask = {0, 1}
  BY <1>4
<1>5. ASSUME ~(d.seq = m.seq /\ d.mask = {2 - i})
      PROVE  mask = {i - 1}
  BY <1>3, <1>5
<1>6. {i - 1} # {0, 1}
  OBVIOUS
<1>7. /\ done.state = [seq |-> m.seq, mask |-> {}] /\ done.out = <<TouchHid!Pack(m.bits[i])>>
      /\ kept.state = [seq |-> m.seq, mask |-> mask] /\ kept.out = <<>>
  OBVIOUS
<1> HIDE DEF mask, done, kept
<1> QED
  BY <1>2, <1>4, <1>5, <1>6, <1>7

(* A first report is kept ...                                              *)
LEMMA TouchPushFirst ==
  ASSUME NEW d \in TouchDecoder, NEW m, ~(d.seq = m.seq /\ d.mask = {1})
  PROVE  /\ TouchHid!Push(d, Report(m, 1)).state = [seq |-> m.seq, mask |-> {0}]
         /\ TouchHid!Push(d, Report(m, 1)).out = <<>>
<1>1. 1 \in {1, 2} /\ 2 - 1 = 1 /\ 1 - 1 = 0
  OBVIOUS
<1>2. ~(d.seq = m.seq /\ d.mask = {2 - 1}) =>
         /\ TouchHid!Push(d, Report(m, 1)).state = [seq |-> m.seq, mask |-> {1 - 1}]
         /\ TouchHid!Push(d, Report(m, 1)).out = <<>>
  BY <1>1, TouchPush
<1> QED
  BY <1>1, <1>2

(* ... and a second one completes it.                                      *)
LEMMA TouchPushSecond ==
  ASSUME NEW d \in TouchDecoder, NEW m
  PROVE  /\ d.seq = m.seq /\ d.mask = {0} =>
              /\ TouchHid!Push(d, Report(m, 2)).state = [seq |-> m.seq, mask |-> {}]
              /\ TouchHid!Push(d, Report(m, 2)).out = <<TouchHid!Pack(m.bits[2])>>
         /\ ~(d.seq = m.seq /\ d.mask = {0}) =>
              TouchHid!Push(d, Report(m, 2)).state = [seq |-> m.seq, mask |-> {1}]
<1>1. 2 \in {1, 2} /\ 2 - 2 = 0 /\ 2 - 1 = 1
  OBVIOUS
<1>2. /\ d.seq = m.seq /\ d.mask = {2 - 2} =>
            /\ TouchHid!Push(d, Report(m, 2)).state = [seq |-> m.seq, mask |-> {}]
            /\ TouchHid!Push(d, Report(m, 2)).out = <<TouchHid!Pack(m.bits[2])>>
      /\ ~(d.seq = m.seq /\ d.mask = {2 - 2}) =>
            TouchHid!Push(d, Report(m, 2)).state = [seq |-> m.seq, mask |-> {2 - 1}]
  BY <1>1, TouchPush
<1> QED
  BY <1>1, <1>2

(* One frame later everything is one frame older.                          *)
LEMMA NextAge ==
  ASSUME NEW from \in 0..(SeqMod - 1), NEW to \in 0..(SeqMod - 1)
  PROVE  /\ Age(from, to) \in Nat
         /\ Age(from, to) = 0 <=> from = to
         /\ Age(from, to) + 1 < SeqMod => Age(from, (to + 1) % SeqMod) = Age(from, to) + 1
<1>1. SeqMod \in Nat /\ SeqMod > 0
  BY SizesAssumption
<1>2. (to + 1) % SeqMod = IF to + 1 = SeqMod THEN 0 ELSE to + 1
  BY <1>1
<1> QED
  BY <1>1, <1>2 DEF Age

(* The line of a frame, report by report.                                  *)
LEMMA TouchLine ==
  ASSUME NEW m
  PROVE  /\ TouchHid!Wire(m) # <<>> /\ Tail(TouchHid!Wire(m)) # <<>>
         /\ Tail(Tail(TouchHid!Wire(m))) = <<>>
         /\ Head(TouchHid!Wire(m)) = Report(m, 1)
         /\ Head(Tail(TouchHid!Wire(m))) = Report(m, 2)
<1> DEFINE first == Report(m, 1)
           second == Report(m, 2)
<1>1. TouchHid!Wire(m) = <<first, second>>
  BY TouchWire
<1> HIDE DEF first, second
<1>2. /\ TouchHid!Wire(m) # <<>> /\ Head(TouchHid!Wire(m)) = first
      /\ Tail(TouchHid!Wire(m)) = <<second>>
  BY <1>1
<1>3. <<second>> # <<>> /\ Head(<<second>>) = second /\ Tail(<<second>>) = <<>>
  OBVIOUS
<1> QED
  BY <1>2, <1>3 DEF first, second

(* The assembler starts empty.                                             *)
LEMMA TouchHidInvInit == Init => TouchHidInv
<1> SUFFICES ASSUME Init, codec = "touch_hid"
             PROVE  TouchHidInv
  BY DEF TouchHidInv
<1>1. decoder = [seq |-> 0, mask |-> {}]
  BY DEF Init, Fresh, TouchHid!Idle
<1>2. decoder \in TouchDecoder
  BY <1>1, SizesAssumption DEF TouchDecoder
<1> QED
  BY <1>1, <1>2, SizesAssumption DEF Init, TouchHidInv, TouchTypes

(* The next frame makes a half one in the assembler one frame older.       *)
LEMMA TouchSend ==
  ASSUME TouchHidInv, codec = "touch_hid", Send
  PROVE  TouchHidInv'
<1> USE DEF TouchHidInv
<1>1. PICK m \in Messages("touch_hid") :
         /\ InOrder(m)
         /\ sent' = m /\ last' = m /\ line' = TouchHid!Wire(m)
  BY DEF Send, Wire
<1>2. /\ codec' = codec /\ decoder' = decoder /\ noise' = noise /\ got' = <<>>
      /\ line = <<>>
  BY DEF Send
<1>3. decoder \in TouchDecoder /\ noise \in 0..MaxNoise /\ m.seq \in 0..(SeqMod - 1)
  BY MessagesAssumption DEF TouchTypes
<1>4. decoder.mask # {} => Age(decoder.seq, m.seq) \in 1..noise
  <2>1. SUFFICES ASSUME decoder.mask # {}
                 PROVE  Age(decoder.seq, m.seq) \in 1..noise
    OBVIOUS
  <2>2. last # NoMessage /\ last \in Messages("touch_hid")
    BY <2>1, MessagesAssumption
  <2>3. TouchOver
    BY <1>2, <2>1, TouchLine DEF TouchWhole, TouchSecond
  <2>4. Age(decoder.seq, last.seq) < noise
    BY <2>1, <2>3 DEF TouchOver
  <2>5. m.seq = (last.seq + 1) % SeqMod
    BY <1>1, <2>2 DEF InOrder
  <2>6. decoder.seq \in 0..(SeqMod - 1) /\ last.seq \in 0..(SeqMod - 1)
    BY <1>3, <2>2, MessagesAssumption DEF TouchDecoder
  <2>7. /\ Age(decoder.seq, last.seq) \in Nat
        /\ Age(decoder.seq, last.seq) + 1 < SeqMod =>
              Age(decoder.seq, m.seq) = Age(decoder.seq, last.seq) + 1
    BY <2>5, <2>6, NextAge
  <2> QED
    BY <1>3, <2>4, <2>7, SizesAssumption
<1>5. TouchWhole'
  BY <1>1, <1>2, <1>4 DEF TouchWhole, Age
<1>6. TouchTypes'
  BY <1>1, <1>2, <1>3 DEF TouchTypes
<1> QED
  BY <1>1, <1>2, <1>5, <1>6

(* A report of the frame completes it, or leaves the other half missing.   *)
LEMMA TouchDeliver ==
  ASSUME TouchHidInv, codec = "touch_hid", Deliver
  PROVE  TouchHidInv'
<1> USE DEF TouchHidInv
<1>1. /\ codec' = codec /\ last' = last /\ sent' = sent /\ noise' = noise
      /\ line # <<>> /\ line' = Tail(line)
  BY PlainSymbols DEF Deliver
<1>2. /\ decoder' = TouchHid!Push(decoder, Head(line)).state
      /\ got' = got \o TouchHid!Push(decoder, Head(line)).out
  BY PlainSymbols DEF Deliver, Push
<1>3. last \in Messages("touch_hid") /\ last.seq \in 0..(SeqMod - 1)
  BY <1>1, MessagesAssumption
<1>4. /\ decoder \in TouchDecoder
      /\ noise \in 0..MaxNoise /\ sent \in {NoMessage, last}
  BY DEF TouchTypes
<1>5. Age(last.seq, last.seq) = 0
  BY <1>3, NextAge
<1>6. decoder.seq \in 0..(SeqMod - 1)
  BY <1>4 DEF TouchDecoder
<1>7. \A i \in {0, 1} : [seq |-> last.seq, mask |-> {i}] \in TouchDecoder
  BY <1>3 DEF TouchDecoder
<1>8. [seq |-> last.seq, mask |-> {}] \in TouchDecoder
  BY <1>3 DEF TouchDecoder
<1>9. CASE TouchWhole
  <2>1. Head(line) = Report(last, 1) /\ line' = Tail(TouchHid!Wire(last))
    BY <1>1, <1>9, TouchLine DEF TouchWhole
  <2>2. ~(decoder.seq = last.seq /\ decoder.mask = {1})
    BY <1>5, <1>9 DEF TouchWhole
  <2>3. /\ decoder' = [seq |-> last.seq, mask |-> {0}]
        /\ got' = got \o <<>>
    BY <1>2, <1>4, <2>1, <2>2, TouchPushFirst
  <2>4. sent # NoMessage => got' = <<>>
    BY <1>9, <2>3 DEF TouchWhole
  <2>5. TouchSecond'
    BY <1>1, <2>1, <2>3, <2>4 DEF TouchSecond
  <2>6. TouchTypes'
    BY <1>1, <1>4, <1>7, <2>3 DEF TouchTypes
  <2> QED
    BY <1>1, <1>3, <2>5, <2>6
<1>10. CASE TouchSecond
  <2>1. Head(line) = Report(last, 2) /\ line' = <<>>
    BY <1>1, <1>10, TouchLine DEF TouchSecond
  <2>2. CASE decoder = [seq |-> last.seq, mask |-> {0}] /\ (sent # NoMessage => got = <<>>)
    <3>1. /\ decoder' = [seq |-> last.seq, mask |-> {}]
          /\ got' = got \o <<TouchHid!Pack(last.bits[2])>>
      BY <1>2, <1>4, <2>1, <2>2, TouchPushSecond
    <3>2. sent # NoMessage => got' = <<TouchHid!Pack(sent.bits[2])>>
      BY <1>4, <2>2, <3>1
    <3>3. TouchOver'
      BY <1>1, <2>1, <3>1, <3>2 DEF TouchOver
    <3>4. TouchTypes'
      BY <1>1, <1>4, <1>8, <3>1 DEF TouchTypes
    <3> QED
      BY <1>1, <1>3, <3>3, <3>4
  <2>3. CASE /\ sent = NoMessage /\ noise > 0
             /\ decoder.mask # {} => Age(decoder.seq, last.seq) \in 1..(noise - 1)
    <3>1. ~(decoder.seq = last.seq /\ decoder.mask = {0})
      BY <1>5, <2>3
    <3>2. decoder' = [seq |-> last.seq, mask |-> {1}]
      BY <1>2, <1>4, <2>1, <3>1, TouchPushSecond
    <3>3. Age(decoder'.seq, last.seq) < noise
      BY <1>5, <2>3, <3>2
    <3>4. TouchOver'
      BY <1>1, <2>1, <2>3, <3>3 DEF TouchOver, Age
    <3>5. TouchTypes'
      BY <1>1, <1>4, <1>7, <3>2 DEF TouchTypes
    <3> QED
      BY <1>1, <1>3, <3>4, <3>5
  <2> QED
    BY <1>10, <2>2, <2>3 DEF TouchSecond
<1> QED
  BY <1>1, <1>9, <1>10, MessagesAssumption DEF TouchOver

(* Every disturbance is counted.                                           *)
LEMMA TouchDisturbed ==
  ASSUME TouchHidInv, codec = "touch_hid", Disturbed,
         codec' = codec, last' = last, decoder' = decoder
  PROVE  TouchTypes'
<1>1. decoder \in TouchDecoder /\ noise \in 0..MaxNoise
  BY DEF TouchHidInv, TouchTypes
<1>2. noise' \in 0..MaxNoise /\ sent' = NoMessage
  BY <1>1, SizesAssumption DEF Disturbed
<1> QED
  BY <1>1, <1>2 DEF TouchTypes

(* A report that is none changes nothing.                                  *)
LEMMA TouchNoise ==
  ASSUME TouchHidInv, codec = "touch_hid", Noise
  PROVE  TouchHidInv'
<1>1. PICK symbol \in Garbage("touch_hid") : decoder' = TouchHid!Push(decoder, symbol).state
  BY DEF Noise, Push
<1>2. decoder' = decoder
  BY <1>1, GarbageAssumption DEF TouchHid!Push
<1>3. /\ Disturbed /\ line = <<>> /\ line' = line /\ codec' = codec /\ last' = last
      /\ sent' = NoMessage /\ noise' = noise + 1 /\ noise \in 0..MaxNoise
  BY DEF Noise, Disturbed, TouchHidInv, TouchTypes
<1>4. TouchTypes'
  BY <1>2, <1>3, TouchDisturbed
<1>5. CASE last = NoMessage /\ line = <<>> /\ decoder.mask = {}
  BY <1>2, <1>3, <1>4, <1>5 DEF TouchHidInv
<1>6. CASE last \in Messages("touch_hid") /\ (TouchWhole \/ TouchSecond \/ TouchOver)
  <2>1. TouchOver
    BY <1>3, <1>6, TouchLine DEF TouchWhole, TouchSecond
  <2>2. decoder.mask # {} => Age(decoder.seq, last.seq) < noise + 1
    <3>1. decoder.mask # {} => Age(decoder.seq, last.seq) < noise
      BY <2>1 DEF TouchOver
    <3>2. decoder.seq \in 0..(SeqMod - 1) /\ last.seq \in 0..(SeqMod - 1)
      BY <1>6, MessagesAssumption DEF TouchHidInv, TouchTypes, TouchDecoder
    <3> QED
      BY <1>3, <3>1, <3>2, NextAge
  <2>3. TouchOver'
    BY <1>2, <1>3, <2>2 DEF TouchOver, Age
  <2> QED
    BY <1>3, <1>4, <1>6, <2>3 DEF TouchHidInv
<1> QED
  BY <1>5, <1>6 DEF TouchHidInv

(* A lost report leaves the half frame that was there, and lets it be      *)
(* older.                                                                  *)
LEMMA TouchBroken ==
  ASSUME TouchHidInv, codec = "touch_hid", Lose \/ Cut
  PROVE  TouchHidInv'
<1>1. /\ Disturbed /\ line # <<>> /\ codec' = codec /\ last' = last /\ decoder' = decoder
      /\ sent' = NoMessage /\ noise' = noise + 1 /\ noise \in 0..MaxNoise
  BY DEF Lose, Cut, Breakable, Disturbed, TouchHidInv, TouchTypes
<1>2. line' = Tail(line) \/ line' = <<>>
  BY <1>1, PlainSymbols DEF Lose, Cut
<1>3. TouchTypes'
  BY <1>1, TouchDisturbed
<1>4. last \in Messages("touch_hid") /\ (TouchWhole \/ TouchSecond)
  BY <1>1 DEF TouchHidInv, TouchOver
<1>5. last.seq \in 0..(SeqMod - 1) /\ Age(last.seq, last.seq) = 0
  BY <1>4, MessagesAssumption, NextAge
<1>6. decoder.mask # {} => Age(decoder.seq, last.seq) \in 0..noise
  BY <1>1, <1>4, <1>5 DEF TouchWhole, TouchSecond
<1>7. CASE line' = <<>>
  <2>1. decoder.mask # {} => Age(decoder.seq, last.seq) < noise + 1
    BY <1>1, <1>6
  <2>2. TouchOver'
    BY <1>1, <1>7, <2>1 DEF TouchOver, Age
  <2> QED
    BY <1>1, <1>3, <1>4, <2>2 DEF TouchHidInv
<1>8. CASE line' = Tail(line) /\ line' # <<>>
  <2>1. TouchWhole
    BY <1>4, <1>8, TouchLine DEF TouchSecond
  <2>2. noise' > 0
    BY <1>1
  <2>3. decoder.mask # {} => Age(decoder.seq, last.seq) \in 1..(noise + 1 - 1)
    BY <1>1, <2>1 DEF TouchWhole
  <2>4. line' = Tail(TouchHid!Wire(last))
    BY <1>8, <2>1 DEF TouchWhole
  <2>5. TouchSecond'
    BY <1>1, <2>2, <2>3, <2>4 DEF TouchSecond, Age
  <2> QED
    BY <1>1, <1>3, <1>4, <2>5 DEF TouchHidInv
<1> QED
  BY <1>2, <1>7, <1>8

(* Every step keeps the bound on the age.                                  *)
LEMMA TouchHidInvStep == TouchHidInv /\ [Next]_vars => TouchHidInv'
<1> SUFFICES ASSUME TouchHidInv, [Next]_vars, codec' = "touch_hid"
             PROVE  TouchHidInv'
  BY DEF TouchHidInv
<1>1. codec = "touch_hid"
  BY DEF Next, Send, Deliver, Drain, Noise, Lose, Cut, vars
<1>2. ~Drain
  BY <1>1 DEF Drain, Pending
<1>3. CASE UNCHANGED vars
  BY <1>3 DEF vars, TouchHidInv, TouchTypes, TouchWhole, TouchSecond, TouchOver, Age
<1> QED
  BY <1>1, <1>2, <1>3, TouchSend, TouchDeliver, TouchNoise, TouchBroken DEF Next

(* A half frame in TouchHidAssembler is younger than a round of sequence   *)
(* numbers.                                                                *)
THEOREM TouchHidInvHolds == Spec => []TouchHidInv
  BY TouchHidInvInit, TouchHidInvStep, PTL DEF Spec

(* TouchHidAssembler passes a touch frame whose two reports both arrive on *)
(* exactly once, with the sensors of its second report, however many       *)
(* reports were lost before, fewer than a round of sequence numbers.       *)
THEOREM TouchFramesOnce == Spec => []TouchHidOnce
<1>1. TouchHidInv => TouchHidOnce
  <2> SUFFICES ASSUME TouchHidInv, Whole("touch_hid")
               PROVE  got = <<TouchHid!Pack(sent.bits[2])>>
    BY DEF TouchHidOnce
  <2>1. codec = "touch_hid" /\ line = <<>> /\ sent # NoMessage
    BY DEF Whole
  <2>2. sent = last
    BY <2>1 DEF TouchHidInv, TouchTypes
  <2>3. TouchOver
    BY <2>1, <2>2, TouchLine DEF TouchHidInv, TouchWhole, TouchSecond
  <2> QED
    BY <2>1, <2>3 DEF TouchOver
<1> QED
  BY <1>1, TouchHidInvHolds, PTL

-----------------------------------------------------------------------------
(* Escaping, and sequences of bytes.                                       *)

(* The bytes that are still on the line: the escape byte before the first  *)
(* of them may have been taken already.                                    *)
Unescaped(escaped, rest) ==
    IF escaped THEN <<Head(rest) + 1>> \o Tail(rest) ELSE rest

(* A sequence is its first element and the others.                         *)
LEMMA NonEmpty ==
  ASSUME NEW S, NEW s \in Seq(S), s # <<>>
  PROVE  /\ Head(s) \in S /\ Tail(s) \in Seq(S)
         /\ s = <<Head(s)>> \o Tail(s)
         /\ Len(s) \in Nat /\ Len(s) >= 1 /\ Len(Tail(s)) = Len(s) - 1
  OBVIOUS

(* ... also when they are put together.                                    *)
LEMMA Prepend ==
  ASSUME NEW S, NEW x \in S, NEW u \in Seq(S), NEW t, t = <<x>> \o u
  PROVE  t \in Seq(S) /\ t # <<>> /\ Head(t) = x /\ Tail(t) = u
  OBVIOUS

(* A byte does not wrap.                                                   *)
LEMMA ByteModulo == \A x \in Byte : x % 256 = x
<1>1. \A x \in 0..255 : x % 256 = x
  OBVIOUS
<1> QED
  BY <1>1 DEF Byte

(* What the two formats with an escape byte have in common: neither special*)
(* byte is 0, and the byte before one is not the other.                    *)
Framing(special, sync, escape) ==
    /\ special = {sync, escape}
    /\ sync \in Byte /\ escape \in Byte /\ sync # escape
    /\ sync # 0 /\ escape # 0 /\ sync - 1 # escape /\ escape - 1 # sync

(* A sync byte is never on the line inside a frame.                        *)
LEMMA SyncHidden ==
  ASSUME NEW special, NEW sync, NEW escape, Framing(special, sync, escape), NEW s
  PROVE  EscapedHead(s, special, escape) # sync
<1>1. CASE Head(s) \in special
  BY <1>1 DEF EscapedHead, Framing
<1>2. CASE Head(s) \notin special
  BY <1>2 DEF EscapedHead, Framing
<1> QED
  BY <1>1, <1>2

(* A special byte goes out as the escape byte, and the byte before it      *)
(* stays.                                                                  *)
LEMMA SpecialTaken ==
  ASSUME NEW special, NEW sync, NEW escape, Framing(special, sync, escape),
         NEW s \in Seq(Byte), s # <<>>, Head(s) \in special,
         NEW t, t = EscapedTail(s, special)
  PROVE  /\ EscapedHead(s, special, escape) = escape
         /\ t \in Seq(Byte) /\ t # <<>>
         /\ Head(t) + 1 \in special
         /\ <<Head(t) + 1>> \o Tail(t) = s
<1>1. Head(s) \in Byte /\ Tail(s) \in Seq(Byte) /\ s = <<Head(s)>> \o Tail(s)
  BY NonEmpty
<1>2. Head(s) - 1 \in Byte /\ Head(s) - 1 + 1 = Head(s)
  <2>1. \A x \in Byte : x # 0 => x - 1 \in Byte /\ x - 1 + 1 = x
    BY DEF Byte
  <2>2. Head(s) # 0
    BY DEF Framing
  <2> QED
    BY <1>1, <2>1, <2>2
<1>3. t = <<Head(s) - 1>> \o Tail(s)
  BY DEF EscapedTail
<1>4. t \in Seq(Byte) /\ t # <<>> /\ Head(t) = Head(s) - 1 /\ Tail(t) = Tail(s)
  <2> DEFINE x == Head(s) - 1
             u == Tail(s)
  <2>1. x \in Byte /\ u \in Seq(Byte) /\ t = <<x>> \o u
    BY <1>1, <1>2, <1>3
  <2> HIDE DEF x, u
  <2>2. t \in Seq(Byte) /\ t # <<>> /\ Head(t) = x /\ Tail(t) = u
    BY <2>1, Prepend
  <2> QED
    BY <2>2 DEF x, u
<1>5. <<Head(t) + 1>> \o Tail(t) = s
  BY <1>1, <1>2, <1>4
<1>6. EscapedHead(s, special, escape) = escape
  BY DEF EscapedHead
<1> QED
  BY <1>2, <1>4, <1>5, <1>6

(* Any other byte goes out as it is.                                       *)
LEMMA PlainTaken ==
  ASSUME NEW special, NEW escape, NEW s \in Seq(Byte), s # <<>>, Head(s) \notin special
  PROVE  /\ EscapedHead(s, special, escape) = Head(s)
         /\ EscapedTail(s, special) = Tail(s)
         /\ Head(s) \in Byte /\ Tail(s) \in Seq(Byte)
         /\ s = <<Head(s)>> \o Tail(s)
<1>1. Head(s) \in Byte /\ Tail(s) \in Seq(Byte) /\ s = <<Head(s)>> \o Tail(s)
  BY NonEmpty
<1> QED
  BY <1>1 DEF EscapedHead, EscapedTail

(* The byte after an escape byte is not special, and the decoder makes the *)
(* special one of it.                                                      *)
LEMMA HeadAfterEscape ==
  ASSUME NEW special, NEW sync, NEW escape, Framing(special, sync, escape),
         NEW s \in Seq(Byte), s # <<>>, Head(s) + 1 \in special
  PROVE  /\ Head(s) \notin special
         /\ Head(s) + 1 \in Byte
         /\ (Head(s) + 1) % 256 = Head(s) + 1
<1>1. Head(s) \in Byte
  BY NonEmpty
<1>2. Head(s) \notin special
  BY <1>1 DEF Framing, Byte
<1>3. Head(s) + 1 \in Byte
  BY DEF Framing
<1> QED
  BY <1>2, <1>3, ByteModulo

(* A byte moves from the line to the decoder.                              *)
LEMMA MoveByte ==
  ASSUME NEW s \in Seq(Byte), NEW x \in Byte, NEW t \in Seq(Byte)
  PROVE  /\ Append(s, x) \in Seq(Byte)
         /\ Append(s, x) \o t = s \o (<<x>> \o t)
         /\ Append(s, x) # <<>> /\ Len(Append(s, x)) = Len(s) + 1
  OBVIOUS

(* Sequences with the same elements are equal.                             *)
LEMMA SameElements ==
  ASSUME NEW s \in Seq(Byte), NEW t \in Seq(Byte), Len(s) = Len(t),
         \A i \in 1..Len(s) : s[i] = t[i]
  PROVE  s = t
  OBVIOUS

(* The elements of a first part.                                           *)
LEMMA Prefix ==
  ASSUME NEW s \in Seq(Byte), NEW t \in Seq(Byte)
  PROVE  /\ Len(s \o t) = Len(s) + Len(t)
         /\ \A i \in 1..Len(s) : (s \o t)[i] = s[i]
         /\ s \o <<>> = s
         /\ t # <<>> => Len(t) >= 1
  OBVIOUS

(* The empty sequence is the one of length 0.                              *)
LEMMA EmptyLength ==
  ASSUME NEW s \in Seq(Byte)
  PROVE  s = <<>> <=> Len(s) = 0
  OBVIOUS

(* The elements of a part.                                                 *)
LEMMA SubSequence ==
  ASSUME NEW s \in Seq(Byte), NEW a \in Nat, NEW z \in Nat, 1 <= a, a <= z, z <= Len(s),
         NEW part, part = SubSeq(s, a, z)
  PROVE  /\ part \in Seq(Byte) /\ Len(part) = z - a + 1
         /\ \A i \in 1..(z - a + 1) : part[i] = s[a + i - 1]
<1>1. part \in Seq(Byte)
  OBVIOUS
<1>2. Len(part) = z - a + 1
  OBVIOUS
<1>3. \A i \in 1..(z - a + 1) : part[i] = s[a + i - 1]
  OBVIOUS
<1> QED
  BY <1>1, <1>2, <1>3

(* The elements with one more behind them.                                 *)
LEMMA Appended ==
  ASSUME NEW s \in Seq(Byte), NEW x \in Byte, NEW b, b = Append(s, x)
  PROVE  /\ b \in Seq(Byte) /\ Len(b) = Len(s) + 1
         /\ \A i \in 1..Len(s) : b[i] = s[i]
         /\ b[Len(s) + 1] = x
         /\ SubSeq(b, 1, Len(s)) = s
<1>1. b \in Seq(Byte) /\ Len(b) = Len(s) + 1
  OBVIOUS
<1>2. (\A i \in 1..Len(s) : b[i] = s[i]) /\ b[Len(s) + 1] = x
  OBVIOUS
<1>3. /\ SubSeq(b, 1, Len(s)) \in Seq(Byte) /\ Len(SubSeq(b, 1, Len(s))) = Len(s)
      /\ \A i \in 1..Len(s) : SubSeq(b, 1, Len(s))[i] = b[i]
  BY <1>1
<1>4. SubSeq(b, 1, Len(s)) = s
  BY <1>2, <1>3, SameElements
<1> QED
  BY <1>1, <1>2, <1>4

(* A part that has given elements is the sequence of them.                 *)
LEMMA Slice ==
  ASSUME NEW w \in Seq(Byte), NEW d \in Seq(Byte), NEW k \in Nat, NEW n \in Nat,
         Len(d) = n, k + n <= Len(w), \A i \in 1..n : w[i + k] = d[i],
         NEW s, s = SubSeq(w, k + 1, k + n)
  PROVE  s = d
<1>1. k + n \in Nat /\ k + 1 \in Nat /\ Len(w) \in Nat
  OBVIOUS
<1>2. s \in Seq(Byte) /\ Len(s) = n
  BY <1>1
<1>3. \A i \in 1..n : s[i] = w[i + k]
  BY <1>1
<1> QED
  BY <1>2, <1>3, SameElements

-----------------------------------------------------------------------------
(* The slider's packets.                                                   *)

(* The fields of an encoded slider packet, its checksum a byte.            *)
LEMMA SliderWire ==
  ASSUME NEW m \in Messages("slider"),
         NEW w, w = Slider!Wire(m)
  PROVE  /\ w \in Seq(Byte) /\ w # <<>> /\ Head(w) = Slider!Sync /\ Tail(w) # <<>>
         /\ Len(w) = Len(m.payload) + 4
         /\ w[2] = m.cmd /\ w[3] = Len(m.payload)
         /\ SubSeq(w, 4, Len(m.payload) + 3) = m.payload
         /\ m = [cmd |-> m.cmd, payload |-> m.payload]
<1> DEFINE n == Len(m.payload)
           body == <<255, m.cmd, n>> \o m.payload
           sum == (256 - Slider!SumBytes(body)) % 256
<1>1. m \in [cmd : Byte, payload : Seq(Byte)] /\ n <= 255
  BY MessagesAssumption
<1>2. n \in Nat /\ m.payload \in Seq(Byte) /\ m.cmd \in Byte
  BY <1>1
<1>3. n \in Byte /\ 255 \in Byte
  <2>1. \A x \in Nat : x <= 255 => x \in Byte
    BY DEF Byte
  <2> QED
    BY <1>1, <1>2, <2>1
<1> HIDE DEF n
<1>4. body \in Seq(Byte) /\ Len(body) = n + 3
  BY <1>2, <1>3 DEF n
<1>5. sum \in Byte
  <2>1. \A x \in Byte : (256 - x) % 256 \in Byte
    BY DEF Byte
  <2> HIDE DEF body
  <2> QED
    BY <1>4, <2>1, CodecSumTypes
<1>6. w = Append(body, sum)
  BY DEF Slider!Wire, Slider!Sync, n
<1> HIDE DEF sum
<1>7. w \in Seq(Byte) /\ Len(w) = n + 4 /\ w # <<>> /\ Tail(w) # <<>>
  BY <1>2, <1>4, <1>5, <1>6
<1>8. \A i \in 1..(n + 3) : w[i] = body[i]
  BY <1>4, <1>5, <1>6
<1>9. /\ body[1] = 255 /\ body[2] = m.cmd /\ body[3] = n
      /\ \A i \in 1..n : body[i + 3] = m.payload[i]
  BY <1>2, <1>3 DEF n
<1> HIDE DEF body
<1>10. SubSeq(w, 4, n + 3) = m.payload
  <2>1. \A i \in 1..n : w[i + 3] = m.payload[i]
    BY <1>2, <1>8, <1>9
  <2>2. /\ SubSeq(w, 4, n + 3) \in Seq(Byte) /\ Len(SubSeq(w, 4, n + 3)) = n
        /\ \A i \in 1..n : SubSeq(w, 4, n + 3)[i] = w[i + 3]
    BY <1>2, <1>7
  <2> QED
    BY <1>2, <2>1, <2>2 DEF n
<1>11. Head(w) = 255 /\ w[2] = m.cmd /\ w[3] = n
  BY <1>2, <1>7, <1>8, <1>9
<1>12. m = [cmd |-> m.cmd, payload |-> m.payload]
  BY <1>1
<1> QED
  BY <1>7, <1>10, <1>11, <1>12 DEF n, Slider!Sync

(* A byte of m's frame is stored with rest to come: it does not fit, it is *)
(* the last one, or the packet goes on.                                    *)
SliderStored(m, buf, value, rest, step) ==
    \/ /\ step.state = Slider!Idle /\ step.out = <<>>
       /\ Len(m.payload) + 4 > SliderBuf
    \/ /\ rest = <<>> /\ step.out = <<m>>
       /\ Len(m.payload) + 4 <= SliderBuf
    \/ /\ rest # <<>> /\ step.out = <<>>
       /\ step.state = [buf |-> Append(buf, value), escaped |-> FALSE]

(* SliderParser::push completes a packet with its last byte and not before,*)
(* unless the packet is longer than the buffer.                            *)
LEMMA SliderStore ==
  ASSUME NEW m \in Messages("slider"),
         NEW d, d.buf \in Seq(Byte),
         NEW value \in Byte, NEW rest \in Seq(Byte),
         d.buf \o (<<value>> \o rest) = Slider!Wire(m),
         NEW step, step = Slider!Store(d, value)
  PROVE  SliderStored(m, d.buf, value, rest, step)
<1> DEFINE full == Append(d.buf, value)
           w == Slider!Wire(m)
           n == Len(m.payload)
<1>1. /\ full \in Seq(Byte) /\ full \o rest = w
      /\ Len(full) = Len(d.buf) + 1
  BY MoveByte
<1>2. Len(w) = n + 4 /\ w[2] = m.cmd /\ w[3] = n /\ SubSeq(w, 4, n + 3) = m.payload
  BY SliderWire
<1>3. step = IF Len(d.buf) >= SliderBuf THEN [state |-> Slider!Idle, out |-> <<>>]
             ELSE IF Len(full) >= 4 /\ Len(full) >= full[3] + 4
             THEN [state |-> Slider!Idle,
                   out |-> <<[cmd |-> full[2], payload |-> SubSeq(full, 4, full[3] + 3)]>>]
             ELSE [state |-> [buf |-> full, escaped |-> FALSE], out |-> <<>>]
  BY DEF Slider!Store, Slider!Result, Slider!Complete
<1> HIDE DEF full, w
<1>4. /\ Len(w) = Len(full) + Len(rest)
      /\ Len(d.buf) \in Nat /\ Len(rest) \in Nat /\ Len(full) \in Nat
  <2>1. Len(full \o rest) = Len(full) + Len(rest)
    BY <1>1, Prefix
  <2>2. Len(d.buf) \in Nat /\ Len(rest) \in Nat /\ Len(full) \in Nat
    BY <1>1
  <2> QED
    BY <1>1, <2>1, <2>2
<1>5. n \in Nat /\ SliderBuf \in Nat
  BY MessagesAssumption, SizesAssumption
<1> HIDE DEF n
<1>6. CASE Len(d.buf) >= SliderBuf
  <2>1. step = [state |-> Slider!Idle, out |-> <<>>]
    BY <1>3, <1>6
  <2>2. n + 4 > SliderBuf
    BY <1>1, <1>2, <1>4, <1>5, <1>6
  <2> QED
    BY <2>1, <2>2 DEF n, SliderStored
<1>7. CASE Len(d.buf) < SliderBuf /\ rest = <<>>
  <2>1. full = w
    BY <1>1, <1>7, Prefix
  <2>2. Len(full) = n + 4 /\ full[3] = n
    BY <1>2, <2>1
  <2>3. [cmd |-> full[2], payload |-> SubSeq(full, 4, full[3] + 3)] = m
    <3>1. m = [cmd |-> m.cmd, payload |-> m.payload]
      BY SliderWire
    <3> QED
      BY <1>2, <2>1, <3>1
  <2>4. step = [state |-> Slider!Idle, out |-> <<m>>]
    <3>1. ~(Len(d.buf) >= SliderBuf) /\ Len(full) >= 4 /\ Len(full) >= full[3] + 4
      BY <1>4, <1>5, <1>7, <2>2
    <3> QED
      BY <1>3, <2>3, <3>1
  <2>5. n + 4 <= SliderBuf
    BY <1>1, <1>4, <1>5, <1>7, <2>2
  <2> QED
    BY <1>7, <2>4, <2>5 DEF n, SliderStored
<1>8. CASE Len(d.buf) < SliderBuf /\ rest # <<>>
  <2>1. ~(Len(full) >= 4 /\ Len(full) >= full[3] + 4)
    <3>1. SUFFICES ASSUME Len(full) >= 4
                   PROVE  ~(Len(full) >= full[3] + 4)
      OBVIOUS
    <3>2. full[3] = n
      <4>1. 3 \in 1..Len(full)
        BY <1>4, <3>1
      <4>2. (full \o rest)[3] = full[3]
        BY <1>1, <4>1, Prefix
      <4> QED
        BY <1>1, <1>2, <4>2
    <3>3. Len(rest) >= 1
      BY <1>8, Prefix
    <3> QED
      BY <1>2, <1>4, <1>5, <3>2, <3>3
  <2>2. step = [state |-> [buf |-> full, escaped |-> FALSE], out |-> <<>>]
    BY <1>3, <1>4, <1>5, <1>8, <2>1
  <2> QED
    BY <1>8, <2>2 DEF full, SliderStored
<1> QED
  BY <1>4, <1>5, <1>6, <1>7, <1>8

(* The escape byte only sets the flag ...                                  *)
LEMMA EscapeNoted ==
  ASSUME NEW S, NEW d \in [buf : S, escaped : BOOLEAN],
         NEW e, e = [d EXCEPT !.escaped = TRUE]
  PROVE  e \in [buf : S, escaped : BOOLEAN] /\ e.buf = d.buf /\ e.escaped
  OBVIOUS

(* ... which the byte behind it clears.                                    *)
LEMMA Stored ==
  ASSUME NEW S, NEW buf \in S, NEW e, e = [buf |-> buf, escaped |-> FALSE]
  PROVE  e \in [buf : S, escaped : BOOLEAN] /\ e.buf = buf /\ ~e.escaped
  OBVIOUS

(* The whole frame is still on the line.                                   *)
OnLine == opening /\ line = Wire(sent) /\ got = <<>>

(* The parser has the beginning of the packet and the line its end.        *)
SliderWithin ==
    /\ ~opening /\ got = <<>>
    /\ line \in Seq(Byte) /\ line # <<>>
    /\ decoder \in [buf : Seq(Byte), escaped : BOOLEAN] /\ decoder.buf # <<>>
    /\ decoder.escaped => Head(line) + 1 \in Slider!Special
    /\ decoder.buf \o Unescaped(decoder.escaped, line) = Slider!Wire(sent)

(* The packet was longer than the buffer: the parser waits for the next    *)
(* sync byte.                                                              *)
SliderDropped ==
    /\ ~opening /\ got = <<>>
    /\ decoder = Slider!Idle
    /\ Len(sent.payload) + 4 > SliderBuf

(* The packet came out, once.                                              *)
SliderDone ==
    /\ line = <<>> /\ got = <<sent>>
    /\ Len(sent.payload) + 4 <= SliderBuf

(* Where the parser has got to in a packet of which nothing has been lost. *)
SliderInv ==
    codec = "slider" /\ sent # NoMessage =>
        /\ sent \in Messages("slider")
        /\ OnLine \/ SliderWithin \/ SliderDropped \/ SliderDone

(* FF and FD can be escaped.                                               *)
LEMMA SliderFraming ==
  Framing(Slider!Special, Slider!Sync, Slider!Escape)
  BY DEF Framing, Slider!Sync, Slider!Escape, Slider!Special, Byte

(* SliderParser::push by the kind of the byte.                             *)
LEMMA SliderPush ==
  ASSUME NEW d, NEW symbol
  PROVE  /\ symbol = Slider!Sync =>
              /\ Slider!Push(d, symbol).state = [buf |-> <<Slider!Sync>>, escaped |-> FALSE]
              /\ Slider!Push(d, symbol).out = <<>>
         /\ symbol # Slider!Sync /\ d.buf = <<>> =>
              /\ Slider!Push(d, symbol).state = d
              /\ Slider!Push(d, symbol).out = <<>>
         /\ symbol = Slider!Escape /\ d.buf # <<>> =>
              /\ Slider!Push(d, symbol).state = [d EXCEPT !.escaped = TRUE]
              /\ Slider!Push(d, symbol).out = <<>>
         /\ symbol # Slider!Sync /\ symbol # Slider!Escape /\ d.buf # <<>> =>
              Slider!Push(d, symbol) =
                 Slider!Store(d, IF d.escaped THEN (symbol + 1) % 256 ELSE symbol)
<1>1. Slider!Sync # Slider!Escape
  BY DEF Slider!Sync, Slider!Escape
<1> QED
  BY <1>1 DEF Slider!Push, Slider!Result

(* What is taken of the line inside a packet.                              *)
LEMMA SliderTaken ==
  ASSUME codec = "slider", SliderWithin
  PROVE  /\ Symbol = EscapedHead(line, Slider!Special, Slider!Escape)
         /\ Behind = EscapedTail(line, Slider!Special)
         /\ line \in Seq(Byte) /\ line # <<>> /\ got = <<>>
         /\ decoder \in [buf : Seq(Byte), escaped : BOOLEAN]
         /\ decoder.buf \in Seq(Byte) /\ decoder.buf # <<>>
         /\ decoder.escaped => Head(line) + 1 \in Slider!Special
  BY SliderFraming DEF SliderWithin, Symbol, Behind, Special, EscapeByte

(* A byte inside a packet.                                                 *)
LEMMA SliderWithinStep ==
  ASSUME codec = "slider", sent \in Messages("slider"), SliderWithin, Deliver
  PROVE  (SliderWithin \/ SliderDropped \/ SliderDone)'
<1> DEFINE step == Slider!Push(decoder, Symbol)
           special == Slider!Special
<1>1. /\ codec' = codec /\ sent' = sent /\ opening' = FALSE /\ line' = Behind
      /\ decoder' = step.state /\ got' = got \o step.out
  BY DEF Deliver, Push
<1>2. decoder.buf \o Unescaped(decoder.escaped, line) = Slider!Wire(sent)
  BY DEF SliderWithin
<1>9. /\ Framing(Slider!Special, Slider!Sync, Slider!Escape)
      /\ Symbol = EscapedHead(line, special, Slider!Escape)
      /\ Behind = EscapedTail(line, special)
      /\ line \in Seq(Byte) /\ line # <<>>
      /\ Slider!Escape \in special
  BY SliderTaken, SliderFraming DEF Framing
<1>3. Symbol # Slider!Sync
  BY <1>9, SyncHidden
<1>4. CASE ~decoder.escaped /\ Head(line) \in special
  <2>1. /\ Symbol = Slider!Escape
        /\ Behind \in Seq(Byte) /\ Behind # <<>>
        /\ Head(Behind) + 1 \in special
        /\ <<Head(Behind) + 1>> \o Tail(Behind) = line
    BY <1>4, <1>9, SpecialTaken
  <2>2. step.state = [decoder EXCEPT !.escaped = TRUE] /\ step.out = <<>>
    BY <2>1, SliderTaken, SliderPush
  <2>3. /\ decoder' \in [buf : Seq(Byte), escaped : BOOLEAN]
        /\ decoder'.buf = decoder.buf /\ decoder'.escaped
    BY <1>1, <2>2, SliderTaken, EscapeNoted
  <2>4. got' = <<>>
    BY <1>1, <2>2, SliderTaken
  <2>5. Unescaped(decoder'.escaped, line') = line /\ Unescaped(decoder.escaped, line) = line
    BY <1>1, <1>4, <2>1, <2>3 DEF Unescaped
  <2>6. decoder'.buf \o Unescaped(decoder'.escaped, line') = Slider!Wire(sent')
    BY <1>1, <1>2, <2>3, <2>5
  <2>7. SliderWithin'
    BY <1>1, <2>1, <2>3, <2>4, <2>6, SliderTaken, SliderFraming DEF SliderWithin
  <2> QED
    BY <2>7
<1>5. ASSUME NEW value \in Byte, step = Slider!Store(decoder, value),
             Behind \in Seq(Byte), Unescaped(decoder.escaped, line) = <<value>> \o Behind
      PROVE  (SliderWithin \/ SliderDropped \/ SliderDone)'
  <2>1. decoder.buf \o (<<value>> \o Behind) = Slider!Wire(sent)
    BY <1>2, <1>5
  <2> HIDE DEF step
  <2>2. \/ /\ step.state = Slider!Idle /\ step.out = <<>>
           /\ Len(sent.payload) + 4 > SliderBuf
        \/ /\ Behind = <<>> /\ step.out = <<sent>>
           /\ Len(sent.payload) + 4 <= SliderBuf
        \/ /\ Behind # <<>> /\ step.out = <<>>
           /\ step.state = [buf |-> Append(decoder.buf, value), escaped |-> FALSE]
    <3>1. decoder.buf \in Seq(Byte)
      BY SliderTaken
    <3>2. SliderStored(sent, decoder.buf, value, Behind, step)
      BY <1>5, <2>1, <3>1, SliderStore
    <3> QED
      BY <3>2 DEF SliderStored
  <2>3. CASE step.state = Slider!Idle /\ step.out = <<>> /\ Len(sent.payload) + 4 > SliderBuf
    BY <1>1, <2>3, SliderTaken DEF SliderDropped
  <2>4. CASE Behind = <<>> /\ step.out = <<sent>> /\ Len(sent.payload) + 4 <= SliderBuf
    BY <1>1, <2>4, SliderTaken DEF SliderDone
  <2>5. CASE /\ Behind # <<>> /\ step.out = <<>>
             /\ step.state = [buf |-> Append(decoder.buf, value), escaped |-> FALSE]
    <3> DEFINE full == Append(decoder.buf, value)
    <3>1. /\ full \in Seq(Byte) /\ full # <<>>
          /\ full \o Behind = Slider!Wire(sent)
      BY <1>5, <2>1, SliderTaken, MoveByte
    <3> HIDE DEF full
    <3>2. decoder' = [buf |-> full, escaped |-> FALSE] /\ got' = <<>>
      BY <1>1, <2>5, SliderTaken DEF full
    <3>3. /\ decoder' \in [buf : Seq(Byte), escaped : BOOLEAN]
          /\ decoder'.buf = full /\ ~decoder'.escaped
      BY <3>1, <3>2, Stored
    <3>4. Unescaped(decoder'.escaped, line') = Behind
      BY <1>1, <3>3 DEF Unescaped
    <3>5. SliderWithin'
      BY <1>1, <1>5, <2>5, <3>1, <3>2, <3>3, <3>4 DEF SliderWithin
    <3> QED
      BY <3>5
  <2> QED
    BY <2>2, <2>3, <2>4, <2>5
<1>6. CASE ~decoder.escaped /\ Head(line) \notin special
  <2>1. /\ Symbol = Head(line) /\ Behind = Tail(line)
        /\ Head(line) \in Byte /\ Tail(line) \in Seq(Byte)
        /\ line = <<Head(line)>> \o Tail(line)
    BY <1>6, <1>9, PlainTaken
  <2>2. step = Slider!Store(decoder, Head(line))
    <3>1. Symbol # Slider!Escape /\ decoder.buf # <<>>
      BY <1>6, <1>9, <2>1, SliderTaken
    <3>2. step = Slider!Store(decoder, IF decoder.escaped THEN (Symbol + 1) % 256 ELSE Symbol)
      BY <1>3, <3>1, SliderPush
    <3> QED
      BY <1>6, <2>1, <3>2
  <2>3. Unescaped(decoder.escaped, line) = <<Head(line)>> \o Behind
    BY <1>6, <2>1 DEF Unescaped
  <2> QED
    BY <1>5, <2>1, <2>2, <2>3
<1>7. CASE decoder.escaped
  <2>1. /\ Head(line) \notin special /\ Head(line) + 1 \in Byte
        /\ (Head(line) + 1) % 256 = Head(line) + 1
    <3>1. Head(line) + 1 \in special
      BY <1>7, SliderTaken
    <3> QED
      BY <1>9, <3>1, HeadAfterEscape
  <2>2. /\ Symbol = Head(line) /\ Behind = Tail(line) /\ Tail(line) \in Seq(Byte)
    <3>1. Head(line) \notin special
      BY <2>1
    <3> QED
      BY <1>9, <3>1, PlainTaken
  <2>3. step = Slider!Store(decoder, Head(line) + 1)
    <3>1. /\ Symbol # Slider!Escape /\ decoder.buf # <<>>
          /\ (Symbol + 1) % 256 = Head(line) + 1
      BY <1>9, <2>1, <2>2, SliderTaken
    <3>2. step = Slider!Store(decoder, IF decoder.escaped THEN (Symbol + 1) % 256 ELSE Symbol)
      BY <1>3, <3>1, SliderPush
    <3> QED
      BY <1>7, <3>1, <3>2
  <2>4. Unescaped(decoder.escaped, line) = <<Head(line) + 1>> \o Behind
    BY <1>7, <2>2 DEF Unescaped
  <2> QED
    BY <1>5, <2>1, <2>2, <2>3, <2>4
<1>8. decoder.escaped \in BOOLEAN
  BY SliderTaken
<1> QED
  BY <1>4, <1>6, <1>7, <1>8

(* The sync byte restarts the parser, whatever it was doing.               *)
LEMMA SliderStart ==
  ASSUME codec = "slider", sent \in Messages("slider"), OnLine, Deliver
  PROVE  SliderWithin'
<1>1. /\ sent' = sent /\ opening' = FALSE /\ line' = Behind
      /\ decoder' = Slider!Push(decoder, Symbol).state
      /\ got' = got \o Slider!Push(decoder, Symbol).out
  BY DEF Deliver, Push
<1>2. /\ Symbol = Head(line) /\ Behind = Tail(line) /\ got = <<>>
      /\ line = Slider!Wire(sent)
  BY DEF OnLine, Symbol, Behind, Wire
<1>3. line \in Seq(Byte) /\ line # <<>> /\ Head(line) = Slider!Sync /\ Tail(line) # <<>>
  BY <1>2, SliderWire
<1>4. Slider!Sync \in Byte /\ Tail(line) \in Seq(Byte) /\ line = <<Slider!Sync>> \o Tail(line)
  BY <1>3, NonEmpty
<1>5. decoder' = [buf |-> <<Slider!Sync>>, escaped |-> FALSE] /\ got' = <<>>
  <2>1. Symbol = Slider!Sync
    BY <1>2, <1>3
  <2>2. /\ Slider!Push(decoder, Symbol).state = [buf |-> <<Slider!Sync>>, escaped |-> FALSE]
        /\ Slider!Push(decoder, Symbol).out = <<>>
    BY <2>1, SliderPush
  <2> QED
    BY <1>1, <1>2, <2>2
<1>6. <<Slider!Sync>> \in Seq(Byte) /\ <<Slider!Sync>> # <<>>
  BY <1>4
<1>7. /\ decoder' \in [buf : Seq(Byte), escaped : BOOLEAN]
      /\ decoder'.buf = <<Slider!Sync>> /\ ~decoder'.escaped
  BY <1>5, <1>6, Stored
<1>8. Unescaped(decoder'.escaped, line') = Tail(line)
  BY <1>1, <1>2, <1>7 DEF Unescaped
<1> QED
  BY <1>1, <1>2, <1>3, <1>4, <1>5, <1>6, <1>7, <1>8 DEF SliderWithin

(* The bytes of a packet too long are ignored.                             *)
LEMMA SliderDroppedStep ==
  ASSUME codec = "slider", SliderDropped, Deliver
  PROVE  SliderDropped'
<1>1. /\ sent' = sent /\ opening' = FALSE
      /\ decoder' = Slider!Push(decoder, Symbol).state
      /\ got' = got \o Slider!Push(decoder, Symbol).out
  BY DEF Deliver, Push
<1>2. Symbol = EscapedHead(line, Slider!Special, Slider!Escape)
  BY DEF SliderDropped, Symbol, Special, EscapeByte
<1>3. Symbol # Slider!Sync /\ decoder.buf = <<>>
  BY <1>2, SliderFraming, SyncHidden DEF SliderDropped, Slider!Idle
<1>4. decoder' = decoder /\ got' = got \o <<>>
  BY <1>1, <1>3, SliderPush
<1> QED
  BY <1>1, <1>4 DEF SliderDropped

(* Every step keeps the parser and the line together.                      *)
LEMMA SliderInvStep == SliderInv /\ [Next]_vars => SliderInv'
<1> SUFFICES ASSUME SliderInv, [Next]_vars, codec' = "slider", sent' # NoMessage
             PROVE  /\ sent' \in Messages("slider")
                    /\ (OnLine \/ SliderWithin \/ SliderDropped \/ SliderDone)'
  BY DEF SliderInv
<1>1. codec = "slider"
  BY DEF Next, Send, Deliver, Drain, Noise, Lose, Cut, vars
<1>2. CASE Send
  <2>1. PICK m \in Messages("slider") : sent' = m /\ line' = Slider!Wire(m)
    BY <1>1, <1>2 DEF Send, Wire
  <2>2. OnLine'
    BY <1>2, <2>1 DEF Send, OnLine, Wire
  <2> QED
    BY <2>1, <2>2
<1>3. CASE Deliver
  <2>1. sent' = sent /\ line # <<>>
    BY <1>3 DEF Deliver
  <2>2. /\ sent \in Messages("slider")
        /\ OnLine \/ SliderWithin \/ SliderDropped
    BY <1>1, <2>1 DEF SliderInv, SliderDone
  <2> QED
    BY <1>1, <1>3, <2>1, <2>2, SliderStart, SliderWithinStep, SliderDroppedStep
<1>4. ~Drain /\ ~Noise /\ ~Lose /\ ~Cut
  BY <1>1 DEF Drain, Pending, Noise, Lose, Cut, Disturbed
<1>5. CASE UNCHANGED vars
  BY <1>1, <1>5 DEF vars, SliderInv, OnLine, Wire, SliderWithin, SliderDropped, SliderDone
<1> QED
  BY <1>2, <1>3, <1>4, <1>5 DEF Next

(* SliderParser and the line hold the packet between them, whatever came   *)
(* before it.                                                              *)
THEOREM SliderInvHolds == Spec => []SliderInv
<1>1. Init => SliderInv
  BY DEF Init, SliderInv
<1> QED
  BY <1>1, SliderInvStep, PTL DEF Spec

(* SliderParser::push finds every whole packet once and as it was sent,    *)
(* whatever noise came before it, and drops exactly those longer than its  *)
(* buffer.                                                                 *)
THEOREM SliderFramesFound == Spec => []SliderResyncs
<1>1. SliderInv => SliderResyncs
  <2> SUFFICES ASSUME SliderInv, Whole("slider")
               PROVE  got = Slider!Expected(sent)
    BY DEF SliderResyncs
  <2>1. codec = "slider" /\ line = <<>> /\ sent # NoMessage
    BY DEF Whole
  <2>2. sent \in Messages("slider") /\ ~OnLine
    BY <2>1, SliderWire DEF SliderInv, OnLine, Wire
  <2>3. SliderDropped \/ SliderDone
    BY <2>1, <2>2 DEF SliderInv, SliderWithin
  <2>4. Len(sent.payload) \in Nat
    BY <2>2, MessagesAssumption
  <2> QED
    BY <2>3, <2>4, SizesAssumption DEF SliderDropped, SliderDone, Slider!Expected
<1> QED
  BY <1>1, SliderInvHolds, PTL

-----------------------------------------------------------------------------
(* The card reader's frames.                                               *)

(* Answers and requests of the card reader are short enough for the length *)
(* byte.                                                                   *)
LEMMA AimeFields ==
  ASSUME NEW m \in Messages("aime")
  PROVE  /\ m.seq \in Byte /\ m.cmd \in Byte /\ m.payload \in Seq(Byte)
         /\ "status" \in DOMAIN m => m.status \in Byte /\ Len(m.payload) <= 249
         /\ Len(m.payload) <= 250
<1>1. m \in [seq : Byte, cmd : Byte, payload : Seq(Byte)]
         \cup [seq : Byte, cmd : Byte, status : Byte, payload : Seq(Byte)]
  BY MessagesAssumption
<1>2. Len(m.payload) <= IF "status" \in DOMAIN m THEN 249 ELSE 250
  BY MessagesAssumption
<1>3. m.seq \in Byte /\ m.cmd \in Byte /\ m.payload \in Seq(Byte)
  BY <1>1
<1>4. "status" \in DOMAIN m => m.status \in Byte
  <2>1. \A x \in [seq : Byte, cmd : Byte, payload : Seq(Byte)] :
           DOMAIN x = {"seq", "cmd", "payload"}
    OBVIOUS
  <2>2. "status" \notin {"seq", "cmd", "payload"}
    OBVIOUS
  <2> QED
    BY <1>1, <2>1, <2>2
<1>5. Len(m.payload) \in Nat
  BY <1>3
<1> QED
  BY <1>2, <1>3, <1>4, <1>5

(* A frame before it is escaped, without its sync byte.                    *)
AimeFrame(m) == Append(Aime!Body(m), Aime!SumBytes(Aime!Body(m)))

(* The fields that read_frame finds in the frame's bytes: its length comes *)
(* first.                                                                  *)
LEMMA AimeBody ==
  ASSUME NEW m \in Messages("aime"), NEW b, b = Aime!Body(m)
  PROVE  /\ b \in Seq(Byte) /\ Len(b) >= 5 /\ b[1] = Len(b)
         /\ "status" \in DOMAIN m =>
              Aime!Response(b) = [status |-> m.status, payload |-> m.payload]
<1> DEFINE n == Len(m.payload)
<1>1. m.seq \in Byte /\ m.cmd \in Byte /\ m.payload \in Seq(Byte) /\ n \in Nat /\ n <= 250
  BY AimeFields
<1>2. \A x \in Nat : x <= 255 => x \in Byte
  BY DEF Byte
<1>3. 0 \in Byte /\ n \in Byte /\ 5 + n \in Byte
  BY <1>1, <1>2
<1>4. CASE "status" \in DOMAIN m
  <2> DEFINE header == <<6 + n, 0, m.seq, m.cmd, m.status, n>>
  <2>1. b = header \o m.payload
    BY <1>4 DEF Aime!Body, Aime!Answer
  <2>2. n <= 249 /\ m.status \in Byte
    BY <1>4, AimeFields
  <2>3. 6 + n \in Byte
    BY <1>1, <1>2, <2>2
  <2> HIDE DEF n
  <2>4. header \in Seq(Byte) /\ Len(header) = 6
    BY <1>1, <1>3, <2>2, <2>3
  <2>5. header[1] = 6 + n /\ header[5] = m.status /\ header[6] = n
    OBVIOUS
  <2> HIDE DEF header
  <2>6. /\ b \in Seq(Byte) /\ Len(b) = 6 + n
        /\ b[1] = 6 + n /\ b[5] = m.status /\ b[6] = n
        /\ \A i \in 1..n : b[i + 6] = m.payload[i]
    <3>1. /\ b \in Seq(Byte) /\ Len(b) = Len(header) + Len(m.payload)
          /\ \A i \in 1..Len(header) : b[i] = header[i]
          /\ \A i \in 1..Len(m.payload) : b[i + Len(header)] = m.payload[i]
      <4>1. header \in Seq(Byte) /\ m.payload \in Seq(Byte)
        BY <1>1, <2>4
      <4>2. b \in Seq(Byte) /\ Len(b) = Len(header) + Len(m.payload)
        BY <2>1, <4>1
      <4>3. \A i \in 1..Len(header) : b[i] = header[i]
        BY <2>1, <4>1
      <4>4. \A i \in 1..Len(m.payload) : b[i + Len(header)] = m.payload[i]
        BY <2>1, <4>1
      <4> QED
        BY <4>2, <4>3, <4>4
    <3>2. 1 \in 1..6 /\ 5 \in 1..6 /\ 6 \in 1..6
      OBVIOUS
    <3> QED
      BY <2>4, <2>5, <3>1, <3>2 DEF n
  <2>7. SubSeq(b, 7, 6 + n) = m.payload
    <3>1. /\ SubSeq(b, 7, 6 + n) \in Seq(Byte) /\ Len(SubSeq(b, 7, 6 + n)) = n
          /\ \A i \in 1..n : SubSeq(b, 7, 6 + n)[i] = b[i + 6]
      BY <1>1, <2>6
    <3>2. \A i \in 1..n : SubSeq(b, 7, 6 + n)[i] = m.payload[i]
      BY <2>6, <3>1
    <3>3. Len(m.payload) = n
      BY DEF n
    <3> QED
      BY <1>1, <3>1, <3>2, <3>3, SameElements
  <2> QED
    BY <1>1, <2>6, <2>7 DEF Aime!Response
<1>5. CASE "status" \notin DOMAIN m
  <2> DEFINE header == <<5 + n, 0, m.seq, m.cmd, n>>
  <2>1. (5 + n) % 256 = 5 + n /\ n % 256 = n
    BY <1>3, ByteModulo
  <2>2. b = header \o m.payload
    BY <1>5, <2>1 DEF Aime!Body, Aime!Command
  <2> HIDE DEF n
  <2>3. header \in Seq(Byte) /\ Len(header) = 5 /\ header[1] = 5 + n
    BY <1>1, <1>3
  <2> HIDE DEF header
  <2>4. b \in Seq(Byte) /\ Len(b) = 5 + n /\ b[1] = 5 + n
    <3>1. /\ b \in Seq(Byte) /\ Len(b) = Len(header) + Len(m.payload)
          /\ \A i \in 1..Len(header) : b[i] = header[i]
      <4>1. header \in Seq(Byte) /\ m.payload \in Seq(Byte)
        BY <1>1, <2>3
      <4>2. b \in Seq(Byte) /\ Len(b) = Len(header) + Len(m.payload)
        BY <2>2, <4>1
      <4>3. \A i \in 1..Len(header) : b[i] = header[i]
        BY <2>2, <4>1
      <4> QED
        BY <4>2, <4>3
    <3>2. 1 \in 1..5
      OBVIOUS
    <3> QED
      BY <2>3, <3>1, <3>2 DEF n
  <2> QED
    BY <1>1, <1>5, <2>4
<1> QED
  BY <1>4, <1>5

(* encode_frame puts the sync byte first, and escapes the others.          *)
LEMMA AimeWire ==
  ASSUME NEW m \in Messages("aime"), NEW w, w = Aime!Wire(m)
  PROVE  /\ AimeFrame(m) \in Seq(Byte) /\ AimeFrame(m) # <<>>
         /\ w \in Seq(Byte) /\ w # <<>> /\ Head(w) = Aime!Sync /\ Tail(w) = AimeFrame(m)
<1> DEFINE b == Aime!Body(m)
<1>1. b \in Seq(Byte)
  BY AimeBody
<1>2. Aime!SumBytes(b) \in Byte
  BY <1>1, CodecSumTypes
<1> HIDE DEF b
<1>3. Append(b, Aime!SumBytes(b)) \in Seq(Byte) /\ Append(b, Aime!SumBytes(b)) # <<>>
  BY <1>1, <1>2
<1>4. AimeFrame(m) \in Seq(Byte) /\ AimeFrame(m) # <<>>
  BY <1>3 DEF AimeFrame, b
<1>5. w = <<Aime!Sync>> \o AimeFrame(m)
  BY DEF Aime!Wire, AimeFrame
<1>6. Aime!Sync \in Byte
  BY DEF Aime!Sync, Byte
<1> QED
  BY <1>4, <1>5, <1>6, Prepend

(* A byte of m's frame is stored with rest to come: it is the last one, or *)
(* the frame goes on.                                                      *)
AimeStored(m, d, value, rest, step) ==
    \/ rest = <<>> /\ step.out = <<Aime!Body(m)>>
    \/ /\ rest # <<>> /\ step.out = <<>>
       /\ step.state = [d EXCEPT !.decoded = Append(d.decoded, value), !.escaped = FALSE]

(* read_frame is done with the last byte and not before, and the checksum  *)
(* agrees.                                                                 *)
LEMMA AimeStore ==
  ASSUME NEW m \in Messages("aime"),
         NEW d, d.decoded \in Seq(Byte),
         NEW value \in Byte, NEW rest \in Seq(Byte),
         d.decoded \o (<<value>> \o rest) = AimeFrame(m),
         NEW step, step = Aime!Store(d, value)
  PROVE  AimeStored(m, d, value, rest, step)
<1> DEFINE full == Append(d.decoded, value)
           b == Aime!Body(m)
           body == SubSeq(full, 1, Len(full) - 1)
           sum == Aime!SumBytes(b)
           next == [d EXCEPT !.decoded = full, !.escaped = FALSE]
<1>1. step = IF Len(full) >= 2 /\ Len(full) = full[1] + 1
             THEN [state |-> Aime!Idle,
                   out |-> IF Aime!SumBytes(body) = value THEN <<body>> ELSE <<>>]
             ELSE [state |-> next, out |-> <<>>]
  BY DEF Aime!Store, Aime!Result
<1>2. b \in Seq(Byte) /\ Len(b) >= 5 /\ b[1] = Len(b)
  BY AimeBody
<1>3. sum \in Byte
  BY <1>2, CodecSumTypes
<1> HIDE DEF b, sum, next
<1>4. /\ full \in Seq(Byte) /\ full \o rest = Append(b, sum)
      /\ Len(full) \in Nat /\ Len(full) >= 1 /\ Len(rest) \in Nat
      /\ full[Len(full)] = value
  <2>1. full \in Seq(Byte) /\ full \o rest = AimeFrame(m)
    BY MoveByte
  <2>2. /\ Len(full) \in Nat /\ Len(full) >= 1 /\ Len(rest) \in Nat
        /\ full[Len(full)] = value
    OBVIOUS
  <2> QED
    BY <2>1, <2>2 DEF AimeFrame, b, sum
<1> HIDE DEF full
<1>5. /\ Len(Append(b, sum)) = Len(b) + 1
      /\ Append(b, sum)[1] = Len(b)
      /\ Append(b, sum)[Len(b) + 1] = sum
      /\ SubSeq(Append(b, sum), 1, Len(b)) = b
  BY <1>2, <1>3
<1>6. full[1] = Len(b) /\ Len(full) + Len(rest) = Len(b) + 1
  <2>1. 1 \in 1..Len(full)
    BY <1>4
  <2>2. /\ Len(full \o rest) = Len(full) + Len(rest)
        /\ \A i \in 1..Len(full) : (full \o rest)[i] = full[i]
    BY <1>4, Prefix
  <2>3. (full \o rest)[1] = full[1]
    BY <2>1, <2>2
  <2> QED
    BY <1>4, <1>5, <2>2, <2>3
<1>7. CASE rest = <<>>
  <2>1. full = Append(b, sum)
    BY <1>4, <1>7, Prefix
  <2>2. Len(full) = Len(b) + 1
    BY <1>5, <2>1
  <2>3. body = b /\ value = sum
    <3>1. Len(full) - 1 = Len(b)
      BY <1>2, <2>2
    <3> QED
      BY <1>4, <1>5, <2>1, <2>2, <3>1
  <2>4. Len(full) >= 2 /\ Len(full) = full[1] + 1
    BY <1>2, <1>6, <2>2
  <2> HIDE DEF body
  <2>5. step = [state |-> Aime!Idle, out |-> <<b>>]
    <3>1. Aime!SumBytes(body) = value
      BY <2>3 DEF sum
    <3> QED
      BY <1>1, <2>3, <2>4, <3>1
  <2> QED
    BY <1>7, <2>5 DEF AimeStored, b
<1>8. CASE rest # <<>>
  <2>1. Len(rest) >= 1
    BY <1>8, Prefix
  <2>2. Len(full) # full[1] + 1
    BY <1>2, <1>4, <1>6, <2>1
  <2>3. step = [state |-> next, out |-> <<>>]
    BY <1>1, <2>2
  <2> QED
    BY <1>8, <2>3 DEF AimeStored, next, full
<1> QED
  BY <1>7, <1>8

(* read_frame inside a frame.                                              *)
AimeDecoder == [started : {TRUE}, escaped : BOOLEAN, decoded : Seq(Byte)]

(* read_frame has the beginning of the frame and the line its end.         *)
AimeWithin ==
    /\ ~opening /\ got = <<>>
    /\ line \in Seq(Byte) /\ line # <<>>
    /\ decoder \in AimeDecoder
    /\ decoder.escaped => Head(line) + 1 \in Aime!Special
    /\ decoder.decoded \o Unescaped(decoder.escaped, line) = AimeFrame(sent)

(* The frame came out, once.                                               *)
AimeDone == line = <<>> /\ got = <<Aime!Body(sent)>>

(* Where read_frame has got to in a frame of which nothing has been lost.  *)
AimeInv ==
    codec = "aime" /\ sent # NoMessage =>
        /\ sent \in Messages("aime")
        /\ OnLine \/ AimeWithin \/ AimeDone

(* E0 and D0 can be escaped.                                               *)
LEMMA AimeFraming == Framing(Aime!Special, Aime!Sync, Aime!Escape)
  BY DEF Framing, Aime!Sync, Aime!Escape, Aime!Special, Byte

(* The sync byte starts a frame ...                                        *)
LEMMA AimeStarted ==
  ASSUME NEW e, e = [Aime!Idle EXCEPT !.started = TRUE]
  PROVE  e \in AimeDecoder /\ e.decoded = <<>> /\ ~e.escaped
<1>1. /\ Aime!Idle \in [started : BOOLEAN, escaped : BOOLEAN, decoded : Seq(Byte)]
      /\ Aime!Idle.decoded = <<>> /\ ~Aime!Idle.escaped
  BY DEF Aime!Idle
<1>2. \A d \in [started : BOOLEAN, escaped : BOOLEAN, decoded : Seq(Byte)] :
         [d EXCEPT !.started = TRUE] \in AimeDecoder
  BY DEF AimeDecoder
<1>3. \A d \in [started : BOOLEAN, escaped : BOOLEAN, decoded : Seq(Byte)] :
         /\ [d EXCEPT !.started = TRUE].decoded = d.decoded
         /\ [d EXCEPT !.started = TRUE].escaped = d.escaped
  OBVIOUS
<1> QED
  BY <1>1, <1>2, <1>3

(* ... the escape byte only sets the flag ...                              *)
LEMMA AimeEscapeNoted ==
  ASSUME NEW d \in AimeDecoder, NEW e, e = [d EXCEPT !.escaped = TRUE]
  PROVE  e \in AimeDecoder /\ e.decoded = d.decoded /\ e.escaped
  BY DEF AimeDecoder

(* ... and any other byte is one more of the frame.                        *)
LEMMA AimeByteNoted ==
  ASSUME NEW d \in AimeDecoder, NEW full \in Seq(Byte),
         NEW e, e = [d EXCEPT !.decoded = full, !.escaped = FALSE]
  PROVE  e \in AimeDecoder /\ e.decoded = full /\ ~e.escaped
  BY DEF AimeDecoder

(* read_frame by the kind of the byte.                                     *)
LEMMA AimePush ==
  ASSUME NEW d, NEW symbol
  PROVE  /\ symbol = Aime!Sync =>
              /\ Aime!Push(d, symbol).state = [Aime!Idle EXCEPT !.started = TRUE]
              /\ Aime!Push(d, symbol).out = <<>>
         /\ d.started /\ symbol = Aime!Escape =>
              /\ Aime!Push(d, symbol).state = [d EXCEPT !.escaped = TRUE]
              /\ Aime!Push(d, symbol).out = <<>>
         /\ d.started /\ symbol # Aime!Sync /\ symbol # Aime!Escape =>
              Aime!Push(d, symbol) =
                 Aime!Store(d, IF d.escaped THEN (symbol + 1) % 256 ELSE symbol)
<1>1. Aime!Sync # Aime!Escape
  BY DEF Aime!Sync, Aime!Escape
<1>2. CASE symbol = Aime!Sync
  BY <1>1, <1>2 DEF Aime!Push, Aime!Result
<1>3. CASE symbol # Aime!Sync
  BY <1>1, <1>3 DEF Aime!Push, Aime!Result
<1> QED
  BY <1>2, <1>3

(* The sync byte restarts read_frame, whatever it was doing.               *)
LEMMA AimeStart ==
  ASSUME codec = "aime", sent \in Messages("aime"), OnLine, Deliver
  PROVE  AimeWithin'
<1>1. /\ sent' = sent /\ opening' = FALSE /\ line' = Behind
      /\ decoder' = Aime!Push(decoder, Symbol).state
      /\ got' = got \o Aime!Push(decoder, Symbol).out
  BY DEF Deliver, Push
<1>2. /\ Symbol = Head(line) /\ Behind = Tail(line) /\ got = <<>>
      /\ line = Aime!Wire(sent)
  BY DEF OnLine, Symbol, Behind, Wire
<1>3. /\ Head(line) = Aime!Sync /\ Tail(line) = AimeFrame(sent)
      /\ AimeFrame(sent) \in Seq(Byte) /\ AimeFrame(sent) # <<>>
  BY <1>2, AimeWire
<1>4. decoder' = [Aime!Idle EXCEPT !.started = TRUE] /\ got' = <<>>
  <2>1. Symbol = Aime!Sync
    BY <1>2, <1>3
  <2>2. /\ Aime!Push(decoder, Symbol).state = [Aime!Idle EXCEPT !.started = TRUE]
        /\ Aime!Push(decoder, Symbol).out = <<>>
    BY <2>1, AimePush
  <2> QED
    BY <1>1, <1>2, <2>2
<1>5. decoder' \in AimeDecoder /\ decoder'.decoded = <<>> /\ ~decoder'.escaped
  BY <1>4, AimeStarted
<1>6. Unescaped(decoder'.escaped, line') = AimeFrame(sent)
  BY <1>1, <1>2, <1>3, <1>5 DEF Unescaped
<1>7. decoder'.decoded \o Unescaped(decoder'.escaped, line') = AimeFrame(sent)
  <2>1. <<>> \o AimeFrame(sent) = AimeFrame(sent)
    BY <1>3
  <2> QED
    BY <1>5, <1>6, <2>1
<1>8. line' \in Seq(Byte) /\ line' # <<>>
  BY <1>1, <1>2, <1>3
<1> QED
  BY <1>1, <1>4, <1>5, <1>7, <1>8 DEF AimeWithin

(* What is taken of the line inside a frame.                               *)
LEMMA AimeTaken ==
  ASSUME codec = "aime", AimeWithin
  PROVE  /\ Symbol = EscapedHead(line, Aime!Special, Aime!Escape)
         /\ Behind = EscapedTail(line, Aime!Special)
         /\ line \in Seq(Byte) /\ line # <<>> /\ got = <<>>
         /\ decoder \in AimeDecoder /\ decoder.decoded \in Seq(Byte)
         /\ decoder.started /\ decoder.escaped \in BOOLEAN
         /\ decoder.escaped => Head(line) + 1 \in Aime!Special
         /\ Aime!Escape \in Aime!Special
<1>1. decoder \in AimeDecoder
  BY DEF AimeWithin
<1>2. decoder.decoded \in Seq(Byte) /\ decoder.started /\ decoder.escaped \in BOOLEAN
  BY <1>1 DEF AimeDecoder
<1>3. Aime!Escape \in Aime!Special
  BY DEF Aime!Special
<1> QED
  BY <1>1, <1>2, <1>3 DEF AimeWithin, Symbol, Behind, Special, EscapeByte

(* A byte inside a frame.                                                  *)
LEMMA AimeWithinStep ==
  ASSUME codec = "aime", sent \in Messages("aime"), AimeWithin, Deliver
  PROVE  (AimeWithin \/ AimeDone)'
<1> DEFINE step == Aime!Push(decoder, Symbol)
           special == Aime!Special
<1>1. /\ codec' = codec /\ sent' = sent /\ opening' = FALSE /\ line' = Behind
      /\ decoder' = step.state /\ got' = got \o step.out
  BY DEF Deliver, Push
<1>2. decoder.decoded \o Unescaped(decoder.escaped, line) = AimeFrame(sent)
  BY DEF AimeWithin
<1>3. /\ Framing(special, Aime!Sync, Aime!Escape)
      /\ Symbol = EscapedHead(line, special, Aime!Escape)
      /\ Behind = EscapedTail(line, special)
      /\ line \in Seq(Byte) /\ line # <<>>
      /\ Aime!Escape \in special
  BY AimeTaken, AimeFraming
<1>4. Symbol # Aime!Sync
  BY <1>3, SyncHidden
<1>5. CASE ~decoder.escaped /\ Head(line) \in special
  <2>1. /\ Symbol = Aime!Escape
        /\ Behind \in Seq(Byte) /\ Behind # <<>>
        /\ Head(Behind) + 1 \in special
        /\ <<Head(Behind) + 1>> \o Tail(Behind) = line
    BY <1>3, <1>5, SpecialTaken
  <2>2. step.state = [decoder EXCEPT !.escaped = TRUE] /\ step.out = <<>>
    BY <2>1, AimeTaken, AimePush
  <2>3. /\ decoder' \in AimeDecoder
        /\ decoder'.decoded = decoder.decoded /\ decoder'.escaped
    BY <1>1, <2>2, AimeTaken, AimeEscapeNoted
  <2>4. got' = <<>>
    BY <1>1, <2>2, AimeTaken
  <2>5. Unescaped(decoder'.escaped, line') = line /\ Unescaped(decoder.escaped, line) = line
    BY <1>1, <1>5, <2>1, <2>3 DEF Unescaped
  <2>6. decoder'.decoded \o Unescaped(decoder'.escaped, line') = AimeFrame(sent')
    BY <1>1, <1>2, <2>3, <2>5
  <2>7. AimeWithin'
    BY <1>1, <2>1, <2>3, <2>4, <2>6 DEF AimeWithin
  <2> QED
    BY <2>7
<1>6. ASSUME NEW value \in Byte, step = Aime!Store(decoder, value),
             Behind \in Seq(Byte), Unescaped(decoder.escaped, line) = <<value>> \o Behind
      PROVE  (AimeWithin \/ AimeDone)'
  <2> DEFINE full == Append(decoder.decoded, value)
  <2>1. decoder.decoded \o (<<value>> \o Behind) = AimeFrame(sent)
    BY <1>2, <1>6
  <2> HIDE DEF step
  <2>2. decoder.decoded \in Seq(Byte) /\ decoder \in AimeDecoder /\ got = <<>>
    BY AimeTaken
  <2>3. AimeStored(sent, decoder, value, Behind, step)
    BY <1>6, <2>1, <2>2, AimeStore
  <2>4. full \in Seq(Byte) /\ full \o Behind = AimeFrame(sent)
    BY <1>6, <2>1, <2>2, MoveByte
  <2> HIDE DEF full
  <2>5. CASE Behind = <<>> /\ step.out = <<Aime!Body(sent)>>
    BY <1>1, <2>2, <2>5 DEF AimeDone
  <2>6. CASE /\ Behind # <<>> /\ step.out = <<>>
             /\ step.state = [decoder EXCEPT !.decoded = full, !.escaped = FALSE]
    <3>1. decoder' \in AimeDecoder /\ decoder'.decoded = full /\ ~decoder'.escaped
      <4>1. decoder' = [decoder EXCEPT !.decoded = full, !.escaped = FALSE]
        BY <1>1, <2>6
      <4> QED
        BY <2>2, <2>4, <4>1, AimeByteNoted
    <3>2. Unescaped(decoder'.escaped, line') = Behind
      BY <1>1, <3>1 DEF Unescaped
    <3>3. got' = <<>>
      BY <1>1, <2>2, <2>6
    <3>4. AimeWithin'
      BY <1>1, <1>6, <2>4, <2>6, <3>1, <3>2, <3>3 DEF AimeWithin
    <3> QED
      BY <3>4
  <2> QED
    BY <2>3, <2>5, <2>6 DEF AimeStored, full
<1>7. CASE ~decoder.escaped /\ Head(line) \notin special
  <2>1. /\ Symbol = Head(line) /\ Behind = Tail(line)
        /\ Head(line) \in Byte /\ Tail(line) \in Seq(Byte)
        /\ line = <<Head(line)>> \o Tail(line)
    BY <1>3, <1>7, PlainTaken
  <2>2. step = Aime!Store(decoder, Head(line))
    <3>1. Symbol # Aime!Escape /\ decoder.started
      BY <1>3, <1>7, <2>1, AimeTaken
    <3>2. step = Aime!Store(decoder, IF decoder.escaped THEN (Symbol + 1) % 256 ELSE Symbol)
      BY <1>4, <3>1, AimePush
    <3> QED
      BY <1>7, <2>1, <3>2
  <2>3. Unescaped(decoder.escaped, line) = <<Head(line)>> \o Behind
    BY <1>7, <2>1 DEF Unescaped
  <2> QED
    BY <1>6, <2>1, <2>2, <2>3
<1>8. CASE decoder.escaped
  <2>1. /\ Head(line) \notin special /\ Head(line) + 1 \in Byte
        /\ (Head(line) + 1) % 256 = Head(line) + 1
    <3>1. Head(line) + 1 \in special
      BY <1>8, AimeTaken
    <3> QED
      BY <1>3, <3>1, HeadAfterEscape
  <2>2. /\ Symbol = Head(line) /\ Behind = Tail(line) /\ Tail(line) \in Seq(Byte)
    <3>1. Head(line) \notin special
      BY <2>1
    <3> QED
      BY <1>3, <3>1, PlainTaken
  <2>3. step = Aime!Store(decoder, Head(line) + 1)
    <3>1. /\ Symbol # Aime!Escape /\ decoder.started
          /\ (Symbol + 1) % 256 = Head(line) + 1
      BY <1>3, <2>1, <2>2, AimeTaken
    <3>2. step = Aime!Store(decoder, IF decoder.escaped THEN (Symbol + 1) % 256 ELSE Symbol)
      BY <1>4, <3>1, AimePush
    <3> QED
      BY <1>8, <3>1, <3>2
  <2>4. Unescaped(decoder.escaped, line) = <<Head(line) + 1>> \o Behind
    BY <1>8, <2>2 DEF Unescaped
  <2> QED
    BY <1>6, <2>1, <2>2, <2>3, <2>4
<1>9. decoder.escaped \in BOOLEAN
  BY AimeTaken
<1> QED
  BY <1>5, <1>7, <1>8, <1>9

(* Every step keeps read_frame and the line together.                      *)
LEMMA AimeInvStep == AimeInv /\ [Next]_vars => AimeInv'
<1> SUFFICES ASSUME AimeInv, [Next]_vars, codec' = "aime", sent' # NoMessage
             PROVE  /\ sent' \in Messages("aime")
                    /\ (OnLine \/ AimeWithin \/ AimeDone)'
  BY DEF AimeInv
<1>1. codec = "aime"
  BY DEF Next, Send, Deliver, Drain, Noise, Lose, Cut, vars
<1>2. CASE Send
  <2>1. PICK m \in Messages("aime") : sent' = m /\ line' = Aime!Wire(m)
    BY <1>1, <1>2 DEF Send, Wire
  <2>2. OnLine'
    BY <1>2, <2>1 DEF Send, OnLine, Wire
  <2> QED
    BY <2>1, <2>2
<1>3. CASE Deliver
  <2>1. sent' = sent /\ line # <<>>
    BY <1>3 DEF Deliver
  <2>2. sent \in Messages("aime") /\ (OnLine \/ AimeWithin)
    BY <1>1, <2>1 DEF AimeInv, AimeDone
  <2> QED
    BY <1>1, <1>3, <2>1, <2>2, AimeStart, AimeWithinStep
<1>4. ~Drain /\ ~Noise /\ ~Lose /\ ~Cut
  BY <1>1 DEF Drain, Pending, Noise, Lose, Cut, Disturbed
<1>5. CASE UNCHANGED vars
  BY <1>1, <1>5 DEF vars, AimeInv, OnLine, Wire, AimeWithin, AimeDone
<1> QED
  BY <1>2, <1>3, <1>4, <1>5 DEF Next

(* read_frame and the line hold the frame between them, whatever came      *)
(* before it.                                                              *)
THEOREM AimeInvHolds == Spec => []AimeInv
<1>1. Init => AimeInv
  BY DEF Init, AimeInv
<1> QED
  BY <1>1, AimeInvStep, PTL DEF Spec

(* read_frame finds every whole frame whatever bytes came in the reads     *)
(* before it, with every byte that encode_frame had to escape, and transact*)
(* finds an answer's status and payload in it.                             *)
THEOREM AimeFramesFound == Spec => []AimeResyncs
<1>1. AimeInv => AimeResyncs
  <2> SUFFICES ASSUME AimeInv, Whole("aime")
               PROVE  /\ got = <<Aime!Body(sent)>>
                      /\ "status" \in DOMAIN sent =>
                            Aime!Response(got[1]) =
                               [status |-> sent.status, payload |-> sent.payload]
    BY DEF AimeResyncs
  <2>1. codec = "aime" /\ line = <<>> /\ sent # NoMessage
    BY DEF Whole
  <2>2. sent \in Messages("aime") /\ ~OnLine
    BY <2>1, AimeWire DEF AimeInv, OnLine, Wire
  <2>3. AimeDone
    BY <2>1, <2>2 DEF AimeInv, AimeWithin
  <2>4. got[1] = Aime!Body(sent)
    BY <2>3 DEF AimeDone
  <2> QED
    BY <2>2, <2>3, <2>4, AimeBody DEF AimeDone
<1> QED
  BY <1>1, AimeInvHolds, PTL

-----------------------------------------------------------------------------
(* The mai2 board's frames on a line without noise.                        *)

(* Where try_parse_frame has got to in a frame that began with the buffer  *)
(* empty: the buffer has its beginning and the line its end ...            *)
Mai2Feeding ==
    /\ line # <<>> /\ got = <<>>
    /\ decoder \o line = Mai2!Wire(sent)

(* ... the buffer has all of it ...                                        *)
Mai2Full == line = <<>> /\ got = <<>> /\ decoder = Mai2!Wire(sent)

(* ... or it has been taken.                                               *)
Mai2Taken == line = <<>> /\ decoder = <<>> /\ got = Mai2!Expected(sent)

(* Without noise every frame begins with the buffer empty.                 *)
Mai2CleanInv ==
    /\ noise \in Nat
    /\ codec = "mai2" /\ noise = 0 =>
          \/ sent = NoMessage /\ line = <<>> /\ decoder = <<>>
          \/ sent \in Messages("mai2") /\ (Mai2Feeding \/ Mai2Full \/ Mai2Taken)

(* A line without noise: every frame that has been delivered came out of   *)
(* try_parse_frame, once and as it was sent.                               *)
Mai2CleanLine ==
    codec = "mai2" /\ noise = 0 /\ ~Pending /\ line = <<>> /\ sent # NoMessage =>
        got = Mai2!Expected(sent)

(* The board's messages and their sizes.                                   *)
LEMMA Mai2MessageTypes ==
  ASSUME NEW m \in Messages("mai2")
  PROVE  /\ m.kind \in {"touch", "legacy", "board"} /\ m.data \in Seq(Byte)
         /\ m = [kind |-> m.kind, data |-> m.data]
         /\ Len(m.data) \in Nat
         /\ m.kind = "touch" => Len(m.data) = 10
         /\ m.kind = "legacy" => Len(m.data) = 7
         /\ m.kind = "board" => Len(m.data) <= 254
<1>1. m \in [kind : {"touch", "legacy", "board"}, data : Seq(Byte)]
  BY MessagesAssumption
<1>2. /\ m.kind \in {"touch", "legacy", "board"} /\ m.data \in Seq(Byte)
      /\ m = [kind |-> m.kind, data |-> m.data]
  BY <1>1
<1> QED
  BY <1>2, MessagesAssumption

(* The bytes of a frame of buttons and touch ...                           *)
LEMMA TouchFrame ==
  ASSUME NEW m \in Messages("mai2"), m.kind = "touch", NEW w, w = Mai2!Wire(m)
  PROVE  /\ w \in Seq(Byte) /\ Len(w) = 14
         /\ w[1] = 255 /\ w[2] = 1 /\ w[3] = 10
         /\ \A i \in 1..10 : w[i + 3] = m.data[i]
         /\ Mai2!SumBytes(SubSeq(w, 1, 13)) = w[14]
<1>1. m.data \in Seq(Byte) /\ Len(m.data) = 10
  BY Mai2MessageTypes
<1>2. PICK header : header = <<255, 1, 10>>
  OBVIOUS
<1>3. header \in Seq(Byte) /\ Len(header) = 3
  BY <1>2 DEF Byte
<1>4. header[1] = 255 /\ header[2] = 1 /\ header[3] = 10
  BY <1>2
<1>5. PICK body : body = header \o m.data
  OBVIOUS
<1>6. PICK sum : sum = Mai2!SumBytes(body)
  OBVIOUS
<1>7. w = Append(body, sum)
  BY <1>2, <1>5, <1>6 DEF Mai2!Wire
<1>8. /\ body \in Seq(Byte) /\ Len(body) = 3 + 10
      /\ \A i \in 1..3 : body[i] = header[i]
      /\ \A i \in 1..10 : body[i + 3] = m.data[i]
  <2>1. header \in Seq(Byte) /\ m.data \in Seq(Byte)
    BY <1>1, <1>3
  <2>2. body = header \o m.data
    BY <1>5
  <2>3. body \in Seq(Byte) /\ Len(body) = Len(header) + Len(m.data)
    BY <2>1, <2>2
  <2>4. \A i \in 1..Len(header) : body[i] = header[i]
    BY <2>1, <2>2
  <2>5. \A i \in 1..Len(m.data) : body[i + Len(header)] = m.data[i]
    BY <2>1, <2>2
  <2> QED
    BY <1>1, <1>3, <2>3, <2>4, <2>5
<1>9. sum \in Byte
  BY <1>6, <1>8, CodecSumTypes
<1>10. Len(body) = 13
  BY <1>8
<1>11. /\ w \in Seq(Byte) /\ Len(w) = 13 + 1
       /\ \A i \in 1..13 : w[i] = body[i]
       /\ w[13 + 1] = sum
       /\ SubSeq(w, 1, 13) = body
  <2>1. /\ w \in Seq(Byte) /\ Len(w) = Len(body) + 1
        /\ \A i \in 1..Len(body) : w[i] = body[i]
        /\ w[Len(body) + 1] = sum
        /\ SubSeq(w, 1, Len(body)) = body
    BY <1>7, <1>8, <1>9, Appended, Zenon
  <2> QED
    BY <1>10, <2>1
<1>12. w[1] = 255 /\ w[2] = 1 /\ w[3] = 10
  BY <1>4, <1>8, <1>11
<1>13. \A i \in 1..10 : w[i + 3] = m.data[i]
  BY <1>8, <1>11
<1>14. Len(w) = 14 /\ w[14] = sum
  BY <1>11
<1> QED
  BY <1>6, <1>11, <1>12, <1>13, <1>14, Zenon

(* ... of one of touch alone ...                                           *)
LEMMA LegacyFrame ==
  ASSUME NEW m \in Messages("mai2"), m.kind = "legacy", NEW w, w = Mai2!Wire(m)
  PROVE  /\ w \in Seq(Byte) /\ Len(w) = 9
         /\ w[1] = 40 /\ w[9] = 41 /\ SubSeq(w, 2, 8) = m.data
<1>1. m.data \in Seq(Byte) /\ Len(m.data) = 7
  BY Mai2MessageTypes
<1>2. 40 \in Byte /\ 41 \in Byte
  BY DEF Byte
<1>3. <<40>> \in Seq(Byte) /\ Len(<<40>>) = 1 /\ <<40>>[1] = 40
  BY <1>2
<1>4. PICK body : body = <<40>> \o m.data
  OBVIOUS
<1>5. /\ body \in Seq(Byte) /\ Len(body) = 1 + 7
      /\ \A i \in 1..1 : body[i] = <<40>>[i]
      /\ \A i \in 1..7 : body[i + 1] = m.data[i]
  <2>1. <<40>> \in Seq(Byte) /\ m.data \in Seq(Byte)
    BY <1>1, <1>3
  <2>2. body = <<40>> \o m.data
    BY <1>4
  <2>3. body \in Seq(Byte) /\ Len(body) = Len(<<40>>) + Len(m.data)
    BY <2>1, <2>2
  <2>4. \A i \in 1..Len(<<40>>) : body[i] = <<40>>[i]
    BY <2>1, <2>2
  <2>5. \A i \in 1..Len(m.data) : body[i + Len(<<40>>)] = m.data[i]
    BY <2>1, <2>2
  <2> QED
    BY <1>1, <1>3, <2>3, <2>4, <2>5
<1>6. Len(body) = 8 /\ body[1] = 40
  BY <1>3, <1>5
<1>7. w = body \o <<41>>
  BY <1>4 DEF Mai2!Wire
<1>8. w = Append(body, 41)
  BY <1>2, <1>5, <1>7
<1>9. /\ w \in Seq(Byte) /\ Len(w) = 8 + 1
      /\ \A i \in 1..8 : w[i] = body[i]
      /\ w[8 + 1] = 41
  <2>1. body \in Seq(Byte) /\ 41 \in Byte /\ w = Append(body, 41)
    BY <1>2, <1>5, <1>8
  <2>2. w \in Seq(Byte) /\ Len(w) = Len(body) + 1
    BY <2>1
  <2>3. \A i \in 1..Len(body) : w[i] = body[i]
    BY <2>1
  <2>4. w[Len(body) + 1] = 41
    BY <2>1
  <2> QED
    BY <1>6, <2>2, <2>3, <2>4
<1>10. \A i \in 1..7 : w[i + 1] = m.data[i]
  BY <1>5, <1>9
<1>11. PICK s : s = SubSeq(w, 1 + 1, 1 + 7)
  OBVIOUS
<1>12. s = m.data
  BY <1>1, <1>9, <1>10, <1>11, Slice
<1> QED
  BY <1>6, <1>9, <1>11, <1>12

(* ... and of board info, whose length byte is one more than its data.     *)
LEMMA BoardFrame ==
  ASSUME NEW m \in Messages("mai2"), m.kind = "board", NEW w, w = Mai2!Wire(m)
  PROVE  /\ Len(m.data) \in Nat /\ Len(m.data) <= 254
         /\ w \in Seq(Byte) /\ Len(w) = Len(m.data) + 5
         /\ w[1] = 255 /\ w[2] = 240 /\ w[3] = Len(m.data) + 1 /\ w[4] = Len(m.data)
         /\ \A i \in 1..Len(m.data) : w[i + 4] = m.data[i]
<1> PICK n : n = Len(m.data)
  OBVIOUS
<1>1. m.data \in Seq(Byte) /\ n \in Nat /\ n <= 254
  BY Mai2MessageTypes
<1>2. 255 \in Byte /\ 240 \in Byte /\ n + 1 \in Byte /\ n \in Byte
  <2>1. \A x \in Nat : x <= 254 => x \in Byte /\ x + 1 \in Byte
    BY DEF Byte
  <2>2. 255 \in Byte /\ 240 \in Byte
    BY DEF Byte
  <2> QED
    BY <1>1, <2>1, <2>2
<1>3. PICK header : header = <<255, 240, n + 1, n>>
  OBVIOUS
<1>4. header \in Seq(Byte) /\ Len(header) = 4
  BY <1>2, <1>3
<1>5. header[1] = 255 /\ header[2] = 240 /\ header[3] = n + 1 /\ header[4] = n
  BY <1>3
<1>6. PICK body : body = header \o m.data
  OBVIOUS
<1>7. PICK sum : sum = Mai2!SumBytes(body)
  OBVIOUS
<1>8. w = Append(body, sum)
  BY <1>3, <1>6, <1>7 DEF Mai2!Wire
<1>9. /\ body \in Seq(Byte) /\ Len(body) = 4 + n
      /\ \A i \in 1..4 : body[i] = header[i]
      /\ \A i \in 1..n : body[i + 4] = m.data[i]
  <2>1. header \in Seq(Byte) /\ m.data \in Seq(Byte)
    BY <1>1, <1>4
  <2>2. body = header \o m.data
    BY <1>6
  <2>3. body \in Seq(Byte) /\ Len(body) = Len(header) + Len(m.data)
    BY <2>1, <2>2
  <2>4. \A i \in 1..Len(header) : body[i] = header[i]
    BY <2>1, <2>2
  <2>5. \A i \in 1..Len(m.data) : body[i + Len(header)] = m.data[i]
    BY <2>1, <2>2
  <2> QED
    BY <1>1, <1>4, <2>3, <2>4, <2>5
<1>10. sum \in Byte
  BY <1>7, <1>9, CodecSumTypes
<1>11. 4 + n \in Nat
  BY <1>1
<1>12. /\ w \in Seq(Byte) /\ Len(w) = 4 + n + 1
       /\ \A i \in 1..(4 + n) : w[i] = body[i]
  BY <1>8, <1>9, <1>10, <1>11, Appended
<1>13. 1 \in 1..(4 + n) /\ 2 \in 1..(4 + n) /\ 3 \in 1..(4 + n) /\ 4 \in 1..(4 + n)
  BY <1>1
<1>14. 1 \in 1..4 /\ 2 \in 1..4 /\ 3 \in 1..4 /\ 4 \in 1..4
  OBVIOUS
<1>15. w[1] = 255 /\ w[2] = 240 /\ w[3] = n + 1 /\ w[4] = n
  BY <1>5, <1>9, <1>12, <1>13, <1>14
<1>16. \A i \in 1..n : i + 4 \in 1..(4 + n)
  BY <1>1
<1>17. \A i \in 1..n : w[i + 4] = m.data[i]
  BY <1>9, <1>12, <1>16
<1>18. Len(w) = n + 5
  BY <1>1, <1>12
<1> QED
  BY <1>1, <1>12, <1>15, <1>17, <1>18

(* try_parse_frame keeps what may yet become the frame that it is the      *)
(* beginning of ...                                                        *)
LEMMA PrefixIncomplete ==
  ASSUME NEW m \in Messages("mai2"), NEW w, w = Mai2!Wire(m),
         NEW d \in Seq(Byte), Len(d) < Len(w), \A i \in 1..Len(d) : d[i] = w[i]
  PROVE  Mai2!Incomplete(d)
<1>1. CASE d = <<>>
  BY <1>1 DEF Mai2!Incomplete
<1>2. CASE d # <<>> /\ m.kind = "touch"
  <2>1. Len(w) = 14 /\ w[1] = 255 /\ w[2] = 1 /\ w[3] = 10
    BY <1>2, TouchFrame
  <2>2. Len(d) \in Nat /\ Len(d) >= 1 /\ Len(d) < 14
    BY <1>2, <2>1
  <2>3. d[1] = 255
    BY <2>1, <2>2
  <2>4. Len(d) < 3 \/ Mai2!TouchHead(d)
    <3> SUFFICES ASSUME ~(Len(d) < 3)
                 PROVE  Mai2!TouchHead(d)
      OBVIOUS
    <3>1. 2 \in 1..Len(d) /\ 3 \in 1..Len(d)
      BY <2>2
    <3>2. d[2] = 1 /\ d[3] = 10
      BY <2>1, <3>1
    <3> QED
      BY <2>3, <3>2 DEF Mai2!TouchHead
  <2> QED
    BY <2>2, <2>3, <2>4 DEF Mai2!Incomplete
<1>3. CASE d # <<>> /\ m.kind = "legacy"
  <2>1. Len(w) = 9 /\ w[1] = 40
    BY <1>3, LegacyFrame
  <2>2. Len(d) \in Nat /\ Len(d) >= 1 /\ Len(d) < 9
    BY <1>3, <2>1
  <2>3. d[1] = 40
    BY <2>1, <2>2
  <2> QED
    BY <2>2, <2>3 DEF Mai2!Incomplete
<1>4. CASE d # <<>> /\ m.kind = "board"
  <2> PICK n : n = Len(m.data)
    OBVIOUS
  <2>1. /\ n \in Nat /\ n <= 254 /\ Len(w) = n + 5
        /\ w[1] = 255 /\ w[2] = 240 /\ w[3] = n + 1
    BY <1>4, BoardFrame
  <2>2. Len(d) \in Nat /\ Len(d) >= 1 /\ Len(d) < n + 5
    BY <1>4, <2>1
  <2>3. d[1] = 255
    BY <2>1, <2>2
  <2>4. ASSUME ~(Len(d) < 3)
        PROVE  Mai2!BoardHead(d) /\ Mai2!BoardLen(d) = n + 5
    <3>1. 2 \in 1..Len(d) /\ 3 \in 1..Len(d)
      BY <2>2, <2>4
    <3>2. d[2] = 240 /\ d[3] = n + 1
      BY <2>1, <3>1
    <3>3. 3 + (n + 1) + 1 = n + 5
      BY <2>1
    <3> QED
      BY <2>3, <3>2, <3>3 DEF Mai2!BoardHead, Mai2!BoardLen
  <2>5. n + 5 <= RxLen
    BY <2>1, SizesAssumption
  <2> QED
    BY <2>2, <2>3, <2>4, <2>5 DEF Mai2!Incomplete
<1> QED
  BY <1>1, <1>2, <1>3, <1>4, Mai2MessageTypes

(* ... and takes a whole one with every byte of it.                        *)
LEMMA Taken ==
  ASSUME NEW w \in Seq(Byte), Mai2!FrameLen(w) = Len(w), Len(w) > 0
  PROVE  Mai2!Parse(w) = [state |-> <<>>, out |-> <<Mai2!Frame(w)>>]
<1>1. Mai2!Rest(w, Len(w)) = <<>>
  BY DEF Mai2!Rest
<1> QED
  BY <1>1 DEF Mai2!Parse

(* The sum of a frame of buttons and touch agrees, and its fields are      *)
(* found.                                                                  *)
LEMMA TouchParsed ==
  ASSUME NEW m \in Messages("mai2"), m.kind = "touch", NEW w, w = Mai2!Wire(m)
  PROVE  ~Mai2!Incomplete(w) /\ Mai2!Parse(w) = [state |-> <<>>, out |-> Mai2!Expected(m)]
<1>1. /\ w \in Seq(Byte) /\ Len(w) = 14
      /\ w[1] = 255 /\ w[2] = 1 /\ w[3] = 10
      /\ \A i \in 1..10 : w[i + 3] = m.data[i]
      /\ Mai2!SumBytes(SubSeq(w, 1, 13)) = w[14]
  BY TouchFrame
<1>2. Mai2!TouchHead(w) /\ ~Mai2!BoardHead(w)
  BY <1>1 DEF Mai2!TouchHead, Mai2!BoardHead
<1>3. ~Mai2!Incomplete(w)
  <2>1. w[1] # 40 /\ ~(Len(w) < 3) /\ ~(Len(w) < 14)
    BY <1>1
  <2>2. w # <<>>
    <3>1. Len(w) # 0
      BY <1>1
    <3> QED
      BY <1>1, <3>1, EmptyLength, Zenon
  <2> QED
    BY <1>2, <2>1, <2>2 DEF Mai2!Incomplete
<1>4. Mai2!FrameLen(w) = 14
  BY <1>1, <1>2 DEF Mai2!FrameLen
<1>5. Mai2!Parse(w) = [state |-> <<>>, out |-> <<Mai2!Frame(w)>>]
  <2>1. Mai2!FrameLen(w) = Len(w) /\ Len(w) > 0 /\ w \in Seq(Byte)
    BY <1>1, <1>4
  <2> QED
    BY <2>1, Taken, Zenon
<1>6. m.data \in Seq(Byte) /\ Len(m.data) = 10
  BY Mai2MessageTypes
<1>7. w[4] = m.data[1] /\ w[5] = m.data[2] /\ w[6] = m.data[3]
  <2>1. w[1 + 3] = m.data[1] /\ w[2 + 3] = m.data[2] /\ w[3 + 3] = m.data[3]
    <3>1. 1 \in 1..10 /\ 2 \in 1..10 /\ 3 \in 1..10
      OBVIOUS
    <3> QED
      BY <1>1, <3>1
  <2> QED
    BY <2>1
<1>8. SubSeq(w, 7, 13) = SubSeq(m.data, 4, 10)
  <2>1. PICK s : s = SubSeq(w, 7, 13)
    OBVIOUS
  <2>2. PICK t : t = SubSeq(m.data, 4, 10)
    OBVIOUS
  <2>3. /\ s \in Seq(Byte) /\ Len(s) = 13 - 7 + 1
        /\ \A i \in 1..(13 - 7 + 1) : s[i] = w[7 + i - 1]
    <3>1. w \in Seq(Byte) /\ 13 <= Len(w)
      BY <1>1
    <3> QED
      BY <2>1, <3>1, SubSequence
  <2>4. /\ t \in Seq(Byte) /\ Len(t) = 10 - 4 + 1
        /\ \A i \in 1..(10 - 4 + 1) : t[i] = m.data[4 + i - 1]
    BY <1>6, <2>2, SubSequence
  <2>5. \A i \in 1..7 : s[i] = t[i]
    <3> TAKE i \in 1..7
    <3>1. i + 3 \in 1..10 /\ i + 3 + 3 = 7 + i - 1 /\ i + 3 = 4 + i - 1
      OBVIOUS
    <3>2. w[i + 3 + 3] = m.data[i + 3]
      BY <1>1, <3>1
    <3> QED
      BY <2>3, <2>4, <3>1, <3>2
  <2>6. s = t
    BY <2>3, <2>4, <2>5, SameElements
  <2> QED
    BY <2>1, <2>2, <2>6
<1>9. <<Mai2!Frame(w)>> = Mai2!Expected(m)
  BY <1>2, <1>7, <1>8 DEF Mai2!Frame, Mai2!Expected
<1> QED
  BY <1>3, <1>5, <1>9

(* A frame of touch alone ends with its end byte.                          *)
LEMMA LegacyParsed ==
  ASSUME NEW m \in Messages("mai2"), m.kind = "legacy", NEW w, w = Mai2!Wire(m)
  PROVE  ~Mai2!Incomplete(w) /\ Mai2!Parse(w) = [state |-> <<>>, out |-> Mai2!Expected(m)]
<1>1. /\ w \in Seq(Byte) /\ Len(w) = 9
      /\ w[1] = 40 /\ w[9] = 41 /\ SubSeq(w, 2, 8) = m.data
  BY LegacyFrame
<1>2. ~Mai2!TouchHead(w) /\ ~Mai2!BoardHead(w)
  BY <1>1 DEF Mai2!TouchHead, Mai2!BoardHead
<1>3. ~Mai2!Incomplete(w)
  BY <1>1 DEF Mai2!Incomplete
<1>4. Mai2!FrameLen(w) = 9
  BY <1>1 DEF Mai2!FrameLen
<1>5. Mai2!Parse(w) = [state |-> <<>>, out |-> <<Mai2!Frame(w)>>]
  <2>1. Mai2!FrameLen(w) = Len(w) /\ Len(w) > 0 /\ w \in Seq(Byte)
    BY <1>1, <1>4
  <2> QED
    BY <2>1, Taken, Zenon
<1>6. Mai2!Frame(w) = [kind |-> "legacy", data |-> m.data]
  BY <1>1, <1>2 DEF Mai2!Frame
<1>7. m = [kind |-> m.kind, data |-> m.data]
  BY Mai2MessageTypes
<1>8. <<Mai2!Frame(w)>> = Mai2!Expected(m)
  BY <1>6, <1>7 DEF Mai2!Expected
<1> QED
  BY <1>3, <1>5, <1>8

(* parse_board_info finds the version in a board-info frame.               *)
LEMMA BoardParsed ==
  ASSUME NEW m \in Messages("mai2"), m.kind = "board", NEW w, w = Mai2!Wire(m)
  PROVE  ~Mai2!Incomplete(w) /\ Mai2!Parse(w) = [state |-> <<>>, out |-> Mai2!Expected(m)]
<1> PICK n : n = Len(m.data)
  OBVIOUS
<1>1. /\ n \in Nat /\ n <= 254
      /\ w \in Seq(Byte) /\ Len(w) = n + 5
      /\ w[1] = 255 /\ w[2] = 240 /\ w[3] = n + 1 /\ w[4] = n
      /\ \A i \in 1..n : w[i + 4] = m.data[i]
  BY BoardFrame
<1>2. m.data \in Seq(Byte) /\ Len(m.data) = n
  BY Mai2MessageTypes
<1>3. ~Mai2!TouchHead(w) /\ Mai2!BoardHead(w)
  BY <1>1 DEF Mai2!TouchHead, Mai2!BoardHead
<1>4. Mai2!BoardLen(w) = n + 5
  BY <1>1 DEF Mai2!BoardLen
<1>5. n + 5 <= RxLen
  BY <1>1, SizesAssumption
<1>6. ~Mai2!Incomplete(w)
  BY <1>1, <1>3, <1>4 DEF Mai2!Incomplete
<1>7. Mai2!FrameLen(w) = n + 5
  BY <1>1, <1>3, <1>4, <1>5 DEF Mai2!FrameLen
<1>8. Mai2!Parse(w) = [state |-> <<>>, out |-> <<Mai2!Frame(w)>>]
  <2>1. Mai2!FrameLen(w) = Len(w) /\ Len(w) > 0 /\ w \in Seq(Byte)
    BY <1>1, <1>7
  <2> QED
    BY <2>1, Taken, Zenon
<1>9. PICK data : data = SubSeq(w, 4, 3 + w[3])
  OBVIOUS
<1>10. data = SubSeq(w, 4, n + 4)
  BY <1>1, <1>9
<1>11. data \in Seq(Byte) /\ Len(data) = n + 1
  BY <1>1, <1>10
<1>12. \A i \in 1..(n + 1) : data[i] = w[i + 3]
  BY <1>1, <1>10
<1>13. data[1] = n
  BY <1>1, <1>12
<1>14. Mai2!Version(data) = m.data
  <2>1. CASE n = 0
    <3>1. Len(m.data) = 0
      BY <1>2, <2>1
    <3>2. m.data = <<>>
      BY <1>2, <3>1, EmptyLength, Zenon
    <3> QED
      BY <1>13, <2>1, <3>2 DEF Mai2!Version
  <2>2. CASE n # 0
    <3>1. data # <<>> /\ ~(n + 1 > Len(data))
      BY <1>1, <1>11
    <3>2. Mai2!Version(data) = SubSeq(data, 2, 1 + n)
      BY <1>13, <2>2, <3>1 DEF Mai2!Version
    <3>3. PICK s : s = SubSeq(data, 2, 1 + n)
      OBVIOUS
    <3>4. s \in Seq(Byte) /\ Len(s) = n
      BY <1>1, <1>11, <3>3
    <3>5. \A i \in 1..n : s[i] = data[i + 1]
      BY <1>1, <1>11, <3>3
    <3>6. \A i \in 1..n : s[i] = m.data[i]
      <4> TAKE i \in 1..n
      <4>1. i + 1 \in 1..(n + 1) /\ i + 1 + 3 = i + 4
        BY <1>1
      <4>2. data[i + 1] = w[i + 1 + 3]
        BY <1>12, <4>1
      <4> QED
        BY <1>1, <3>5, <4>1, <4>2
    <3>7. s = m.data
      BY <1>2, <3>4, <3>6, SameElements
    <3> QED
      BY <3>2, <3>3, <3>7
  <2> QED
    BY <2>1, <2>2
<1>15. Mai2!Frame(w) = [kind |-> "board", data |-> m.data]
  BY <1>3, <1>9, <1>14 DEF Mai2!Frame
<1>16. m = [kind |-> m.kind, data |-> m.data]
  BY Mai2MessageTypes
<1>17. <<Mai2!Frame(w)>> = Mai2!Expected(m)
  BY <1>15, <1>16 DEF Mai2!Expected
<1> QED
  BY <1>6, <1>8, <1>17

(* A whole frame is not waited with, and comes out as it was sent.         *)
LEMMA WholeParsed ==
  ASSUME NEW m \in Messages("mai2"), NEW w, w = Mai2!Wire(m)
  PROVE  /\ w \in Seq(Byte) /\ w # <<>> /\ Len(w) <= 259
         /\ ~Mai2!Incomplete(w)
         /\ Mai2!Parse(w) = [state |-> <<>>, out |-> Mai2!Expected(m)]
<1>1. CASE m.kind = "touch"
  <2>1. w \in Seq(Byte) /\ Len(w) = 14
    BY <1>1, TouchFrame
  <2>2. w # <<>> /\ Len(w) <= 259
    <3>1. w # <<>>
      <4>1. Len(w) # 0
        BY <2>1
      <4> QED
        BY <2>1, <4>1, EmptyLength, Zenon
    <3>2. Len(w) <= 259
      BY <2>1
    <3> QED
      BY <3>1, <3>2
  <2>3. ~Mai2!Incomplete(w) /\ Mai2!Parse(w) = [state |-> <<>>, out |-> Mai2!Expected(m)]
    BY <1>1, TouchParsed, Zenon
  <2> QED
    BY <2>1, <2>2, <2>3, Zenon
<1>2. CASE m.kind = "legacy"
  <2>1. w \in Seq(Byte) /\ Len(w) = 9
    BY <1>2, LegacyFrame
  <2>2. w # <<>> /\ Len(w) <= 259
    <3>1. w # <<>>
      <4>1. Len(w) # 0
        BY <2>1
      <4> QED
        BY <2>1, <4>1, EmptyLength, Zenon
    <3>2. Len(w) <= 259
      BY <2>1
    <3> QED
      BY <3>1, <3>2
  <2>3. ~Mai2!Incomplete(w) /\ Mai2!Parse(w) = [state |-> <<>>, out |-> Mai2!Expected(m)]
    BY <1>2, LegacyParsed, Zenon
  <2> QED
    BY <2>1, <2>2, <2>3, Zenon
<1>3. CASE m.kind = "board"
  <2> PICK n : n = Len(m.data)
    OBVIOUS
  <2>1. n \in Nat /\ n <= 254 /\ w \in Seq(Byte) /\ Len(w) = n + 5
    BY <1>3, BoardFrame
  <2>2. w # <<>> /\ Len(w) <= 259
    <3>1. w # <<>>
      <4>1. Len(w) # 0
        BY <2>1
      <4> QED
        BY <2>1, <4>1, EmptyLength, Zenon
    <3>2. Len(w) <= 259
      BY <2>1
    <3> QED
      BY <3>1, <3>2
  <2>3. ~Mai2!Incomplete(w) /\ Mai2!Parse(w) = [state |-> <<>>, out |-> Mai2!Expected(m)]
    BY <1>3, BoardParsed, Zenon
  <2> QED
    BY <2>1, <2>2, <2>3, Zenon
<1> QED
  BY <1>1, <1>2, <1>3, Mai2MessageTypes

(* The buffer starts empty.                                                *)
LEMMA Mai2CleanInit == Init => Mai2CleanInv
  BY DEF Init, Mai2CleanInv, Fresh, Mai2!Idle

(* While bytes of a frame are on the line, try_parse_frame waits.          *)
LEMMA LongerIncomplete ==
  ASSUME NEW m \in Messages("mai2"), NEW w, w = Mai2!Wire(m),
         NEW d \in Seq(Byte), NEW rest \in Seq(Byte), rest # <<>>, d \o rest = w
  PROVE  Len(d) < Len(w) /\ Mai2!Incomplete(d)
<1>1. Len(w) = Len(d) + Len(rest) /\ Len(rest) # 0
  BY EmptyLength
<1>2. \A i \in 1..Len(d) : d[i] = w[i]
  OBVIOUS
<1>3. w \in Seq(Byte)
  BY Mai2WireType
<1>4. Len(d) < Len(w)
  BY <1>1
<1> QED
  BY <1>2, <1>3, <1>4, PrefixIncomplete

(* No byte of a frame is skipped, and none is left when it has been taken. *)
LEMMA Mai2CleanStep == Mai2Inv /\ Mai2CleanInv /\ [Next]_vars => Mai2CleanInv'
<1> SUFFICES ASSUME Mai2Inv, Mai2CleanInv, [Next]_vars
             PROVE  Mai2CleanInv'
  OBVIOUS
<1>1. noise \in Nat
  BY DEF Mai2CleanInv
<1>2. CASE UNCHANGED vars
  BY <1>2 DEF Mai2CleanInv, Mai2Feeding, Mai2Full, Mai2Taken, vars
<1>3. CASE Disturbed
  <2>1. noise' \in Nat /\ noise' # 0
    BY <1>1, <1>3 DEF Disturbed
  <2> QED
    BY <2>1 DEF Mai2CleanInv
<1>4. CASE ~(codec = "mai2" /\ noise = 0) /\ (Send \/ Deliver \/ Drain)
  BY <1>1, <1>4 DEF Mai2CleanInv, Send, Deliver, Drain
<1> DEFINE CLEAN == codec = "mai2" /\ noise = 0
<1>5. ASSUME CLEAN
      PROVE  /\ line \in Seq(Byte) /\ decoder \in Seq(Byte)
             /\ \/ sent = NoMessage /\ line = <<>> /\ decoder = <<>>
                \/ sent \in Messages("mai2") /\ (Mai2Feeding \/ Mai2Full \/ Mai2Taken)
  BY <1>5 DEF Mai2Inv, Mai2CleanInv
<1>6. ASSUME CLEAN, Pending
      PROVE  Mai2Full /\ sent \in Messages("mai2")
  <2>1. decoder # <<>>
    BY <1>6 DEF Pending, Mai2!Incomplete
  <2>2. ~(sent \in Messages("mai2") /\ Mai2Feeding)
    <3>1. SUFFICES ASSUME sent \in Messages("mai2"), Mai2Feeding
                   PROVE  FALSE
      OBVIOUS
    <3>2. Mai2!Incomplete(decoder)
      BY <1>5, <1>6, <3>1, LongerIncomplete DEF Mai2Feeding
    <3> QED
      BY <1>6, <3>2 DEF Pending
  <2> QED
    BY <1>5, <1>6, <2>1, <2>2 DEF Mai2Taken
<1>7. CASE CLEAN /\ Drain
  <2>1. Pending
    BY <1>7 DEF Drain
  <2>2. Mai2Full /\ sent \in Messages("mai2")
    BY <1>6, <1>7, <2>1
  <2>3. Mai2!Parse(decoder) = [state |-> <<>>, out |-> Mai2!Expected(sent)]
    BY <2>2, WholeParsed DEF Mai2Full
  <2>4. decoder' = <<>> /\ got' = got \o Mai2!Expected(sent)
    BY <1>7, <2>3 DEF Drain
  <2>5. got' = Mai2!Expected(sent)
    <3>1. got = <<>>
      BY <2>2 DEF Mai2Full
    <3>2. \E x : Mai2!Expected(sent) = <<x>>
      BY DEF Mai2!Expected
    <3> QED
      BY <2>4, <3>1, <3>2
  <2>6. UNCHANGED <<codec, line, sent, noise>>
    BY <1>7 DEF Drain
  <2>7. Mai2Taken'
    BY <2>2, <2>4, <2>5, <2>6 DEF Mai2Full, Mai2Taken
  <2> QED
    BY <1>1, <2>2, <2>6, <2>7 DEF Mai2CleanInv
<1>8. CASE CLEAN /\ Send
  <2>1. ~Pending /\ line = <<>>
    BY <1>8 DEF Send
  <2>2. decoder = <<>>
    <3>1. ~(sent \in Messages("mai2") /\ Mai2Full)
      <4>1. SUFFICES ASSUME sent \in Messages("mai2"), Mai2Full
                     PROVE  FALSE
        OBVIOUS
      <4>2. ~Mai2!Incomplete(decoder)
        BY <4>1, WholeParsed DEF Mai2Full
      <4> QED
        BY <1>8, <2>1, <4>2 DEF Pending
    <3> QED
      BY <1>5, <1>8, <2>1, <3>1 DEF Mai2Feeding, Mai2Taken
  <2>3. PICK m \in Messages("mai2") : sent' = m /\ line' = Mai2!Wire(m)
    BY <1>8 DEF Send, Wire
  <2>4. line' \in Seq(Byte) /\ line' # <<>>
    BY <2>3, WholeParsed
  <2>5. UNCHANGED <<codec, decoder, noise>> /\ got' = <<>>
    BY <1>8 DEF Send
  <2>6. decoder' \o line' = line'
    BY <2>2, <2>4, <2>5
  <2>7. Mai2Feeding'
    BY <2>3, <2>4, <2>5, <2>6 DEF Mai2Feeding
  <2> QED
    BY <1>1, <2>3, <2>5, <2>7 DEF Mai2CleanInv
<1>9. CASE CLEAN /\ Deliver
  <2>1. ~Pending /\ line # <<>>
    BY <1>9 DEF Deliver
  <2>2. sent \in Messages("mai2") /\ Mai2Feeding
    BY <1>5, <1>9, <2>1 DEF Mai2Full, Mai2Taken
  <2>3. line \in Seq(Byte) /\ decoder \in Seq(Byte)
    BY <1>5, <1>9
  <2>4. /\ Head(line) \in Byte /\ Tail(line) \in Seq(Byte)
        /\ line = <<Head(line)>> \o Tail(line)
    BY <2>1, <2>3, NonEmpty
  <2>5. Symbol = Head(line) /\ Behind = Tail(line)
    BY <1>9, <2>1, PlainSymbols
  <2> PICK x, rest : x = Head(line) /\ rest = Tail(line)
    OBVIOUS
  <2>6. Len(decoder) < RxLen
    <3>1. Len(decoder) < Len(Mai2!Wire(sent))
      BY <2>1, <2>2, <2>3, LongerIncomplete DEF Mai2Feeding
    <3>2. Mai2!Wire(sent) \in Seq(Byte) /\ Len(Mai2!Wire(sent)) <= 259
      BY <2>2, WholeParsed
    <3> QED
      BY <2>3, <3>1, <3>2, SizesAssumption
  <2>7. Push(x) = [state |-> Append(decoder, x), out |-> <<>>]
    <3>1. ~(Len(decoder) >= RxLen)
      BY <2>3, <2>6, SizesAssumption
    <3>2. Mai2!Push(decoder, x) = [state |-> Append(decoder, x), out |-> <<>>]
      BY <3>1 DEF Mai2!Push
    <3> QED
      BY <1>9, <3>2 DEF Push
  <2>8. decoder' = Append(decoder, x) /\ got' = got \o <<>> /\ line' = rest
    <3> PICK step : step = Push(Symbol)
      OBVIOUS
    <3>1. decoder' = step.state /\ got' = got \o step.out /\ line' = Behind
      BY <1>9 DEF Deliver
    <3>2. Symbol = x /\ Behind = rest
      BY <2>5
    <3>3. step = [state |-> Append(decoder, x), out |-> <<>>]
      BY <2>7, <3>2, Zenon
    <3>4. step.state = Append(decoder, x) /\ step.out = <<>>
      BY <3>3
    <3> QED
      BY <3>1, <3>2, <3>4, Zenon
  <2>9. UNCHANGED <<codec, sent, noise>>
    BY <1>9 DEF Deliver
  <2>10. got' = <<>>
    BY <2>2, <2>8 DEF Mai2Feeding
  <2>11. x \in Byte /\ rest \in Seq(Byte) /\ line = <<x>> \o rest
    BY <2>4
  <2>12. decoder' \o line' = Mai2!Wire(sent)
    <3>1. Append(decoder, x) \o rest = decoder \o (<<x>> \o rest)
      BY <2>3, <2>11, MoveByte
    <3> QED
      BY <2>2, <2>8, <2>11, <3>1 DEF Mai2Feeding
  <2>13. CASE rest = <<>>
    <3>1. decoder' = Mai2!Wire(sent)
      <4>1. decoder' \in Seq(Byte)
        BY <2>3, <2>8, <2>11
      <4>2. decoder' \o <<>> = decoder'
        BY <4>1
      <4>3. decoder' \o <<>> = Mai2!Wire(sent)
        BY <2>8, <2>12, <2>13
      <4> QED
        BY <4>2, <4>3, Zenon
    <3>2. Mai2Full'
      BY <2>8, <2>9, <2>10, <2>13, <3>1 DEF Mai2Full
    <3> QED
      BY <1>1, <2>2, <2>9, <3>2 DEF Mai2CleanInv
  <2>14. CASE rest # <<>>
    <3>1. Mai2Feeding'
      BY <2>8, <2>9, <2>10, <2>12, <2>14 DEF Mai2Feeding
    <3> QED
      BY <1>1, <2>2, <2>9, <3>1 DEF Mai2CleanInv
  <2> QED
    BY <2>13, <2>14
<1> QED
  BY <1>2, <1>3, <1>4, <1>7, <1>8, <1>9 DEF Next, Noise, Lose, Cut

(* When try_parse_frame waits and the line is empty, the frame has been    *)
(* taken.                                                                  *)
LEMMA Mai2CleanHolds ==
  ASSUME Mai2CleanInv PROVE Mai2CleanLine
<1> SUFFICES ASSUME codec = "mai2", noise = 0, ~Pending, line = <<>>, sent # NoMessage
             PROVE  got = Mai2!Expected(sent)
  BY DEF Mai2CleanLine
<1>1. sent \in Messages("mai2") /\ (Mai2Feeding \/ Mai2Full \/ Mai2Taken)
  BY DEF Mai2CleanInv
<1>2. ~Mai2Full
  <2>1. SUFFICES ASSUME Mai2Full
                 PROVE  FALSE
    OBVIOUS
  <2>2. ~Mai2!Incomplete(decoder)
    BY <1>1, <2>1, WholeParsed DEF Mai2Full
  <2> QED
    BY <2>2 DEF Pending
<1> QED
  BY <1>1, <1>2 DEF Mai2Feeding, Mai2Taken

(* On a line without noise try_parse_frame finds every touch, touch-only   *)
(* and board-info frame, once and as it was sent, whatever bytes it        *)
(* consists of: no header inside a frame is taken for one.                 *)
THEOREM Mai2Exact == Spec => []Mai2CleanLine
<1>1. Init => Mai2Inv /\ Mai2CleanInv
  BY Mai2InvInit, Mai2CleanInit
<1>2. Mai2Inv /\ Mai2CleanInv /\ [Next]_vars => (Mai2Inv /\ Mai2CleanInv)'
  BY Mai2InvStep, Mai2CleanStep
<1>3. Mai2CleanInv => Mai2CleanLine
  BY Mai2CleanHolds
<1> QED
  BY <1>1, <1>2, <1>3, PTL DEF Spec

-----------------------------------------------------------------------------
(* The mai2 board's frames after noise.                                    *)

(* What try_parse_frame has decided stays so when more bytes come.         *)
LEMMA Decided ==
  ASSUME NEW b \in Seq(Byte), NEW c \in Seq(Byte), Len(b) <= Len(c),
         \A i \in 1..Len(b) : c[i] = b[i], ~Mai2!Incomplete(b)
  PROVE  ~Mai2!Incomplete(c) /\ Mai2!FrameLen(c) = Mai2!FrameLen(b)
<1>1. b # <<>> /\ Len(b) \in Nat /\ Len(c) \in Nat
  BY DEF Mai2!Incomplete
<1>2. Len(b) # 0 /\ Len(c) # 0
  BY <1>1, EmptyLength
<1>3. c # <<>>
  BY <1>2, EmptyLength
<1>4. c[1] = b[1]
  BY <1>1, <1>2
<1>5. CASE b[1] = 255
  <2>1. Len(b) >= 3
    BY <1>1, <1>5 DEF Mai2!Incomplete
  <2>2. c[2] = b[2] /\ c[3] = b[3]
    BY <1>1, <2>1
  <2>3. /\ Mai2!TouchHead(c) <=> Mai2!TouchHead(b)
        /\ Mai2!BoardHead(c) <=> Mai2!BoardHead(b)
        /\ Mai2!BoardLen(c) = Mai2!BoardLen(b)
    BY <1>4, <2>2 DEF Mai2!TouchHead, Mai2!BoardHead, Mai2!BoardLen
  <2>4. ~(Len(c) < 3) /\ c[1] # 40 /\ b[1] # 40
    BY <1>1, <1>4, <1>5, <2>1
  <2>5. CASE Mai2!TouchHead(b)
    <3>1. ~Mai2!BoardHead(b)
      BY <2>5 DEF Mai2!TouchHead, Mai2!BoardHead
    <3>2. Len(b) >= 14 /\ Len(c) >= 14
      BY <1>1, <1>5, <2>5 DEF Mai2!Incomplete
    <3>3. SubSeq(c, 1, 13) = SubSeq(b, 1, 13)
      <4>1. PICK s : s = SubSeq(b, 1, 13)
        OBVIOUS
      <4>2. PICK t : t = SubSeq(c, 1, 13)
        OBVIOUS
      <4>3. /\ s \in Seq(Byte) /\ Len(s) = 13 - 1 + 1
            /\ \A i \in 1..(13 - 1 + 1) : s[i] = b[1 + i - 1]
        BY <1>1, <3>2, <4>1, SubSequence, SMTT(30)
      <4>4. /\ t \in Seq(Byte) /\ Len(t) = 13 - 1 + 1
            /\ \A i \in 1..(13 - 1 + 1) : t[i] = c[1 + i - 1]
        BY <1>1, <3>2, <4>2, SubSequence, SMTT(30)
      <4>5. Len(s) = Len(t)
        BY <4>3, <4>4
      <4>6. \A i \in 1..Len(t) : t[i] = s[i]
        <5> TAKE i \in 1..Len(t)
        <5>1. i \in 1..(13 - 1 + 1) /\ 1 + i - 1 = i
          BY <4>4
        <5>2. i \in 1..Len(b)
          BY <1>1, <3>2, <5>1
        <5> QED
          BY <4>3, <4>4, <5>1, <5>2
      <4>7. t = s
        BY <4>3, <4>4, <4>5, <4>6, SameElements
      <4> QED
        BY <4>1, <4>2, <4>7
    <3>4. c[14] = b[14]
      BY <1>1, <3>2
    <3>5. ~Mai2!Incomplete(c)
      BY <1>3, <2>3, <2>4, <3>1, <3>2 DEF Mai2!Incomplete
    <3>6. Mai2!FrameLen(c) = Mai2!FrameLen(b)
      <4>1. Mai2!FrameLen(b) =
               IF Mai2!SumBytes(SubSeq(b, 1, 13)) = b[14] THEN 14 ELSE 0
        BY <1>5, <2>5, <3>1 DEF Mai2!FrameLen
      <4>2. Mai2!FrameLen(c) =
               IF Mai2!SumBytes(SubSeq(c, 1, 13)) = c[14] THEN 14 ELSE 0
        BY <1>4, <1>5, <2>3, <2>5, <3>1 DEF Mai2!FrameLen
      <4>3. PICK x : x = Mai2!SumBytes(SubSeq(b, 1, 13))
        OBVIOUS
      <4>4. x = Mai2!SumBytes(SubSeq(c, 1, 13))
        BY <3>3, <4>3, Zenon
      <4>5. Mai2!FrameLen(b) = IF x = b[14] THEN 14 ELSE 0
        BY <4>1, <4>3
      <4>6. Mai2!FrameLen(c) = IF x = b[14] THEN 14 ELSE 0
        BY <3>4, <4>2, <4>4
      <4> QED
        BY <4>5, <4>6
    <3> QED
      BY <3>5, <3>6
  <2>6. CASE ~Mai2!TouchHead(b) /\ Mai2!BoardHead(b)
    <3>1. Mai2!BoardLen(b) \in Nat
      BY <2>1, BoardLenType
    <3>2. ~(Mai2!BoardLen(b) <= RxLen /\ Len(b) < Mai2!BoardLen(b))
      BY <1>5, <2>6 DEF Mai2!Incomplete
    <3>3. ~(Mai2!BoardLen(c) <= RxLen /\ Len(c) < Mai2!BoardLen(c))
      BY <1>1, <2>3, <3>1, <3>2, SizesAssumption
    <3>4. ~Mai2!Incomplete(c)
      BY <1>3, <2>3, <2>4, <2>6, <3>3 DEF Mai2!Incomplete
    <3>5. Mai2!FrameLen(c) = Mai2!FrameLen(b)
      BY <1>4, <1>5, <2>3, <2>6 DEF Mai2!FrameLen
    <3> QED
      BY <3>4, <3>5
  <2>7. CASE ~Mai2!TouchHead(b) /\ ~Mai2!BoardHead(b)
    <3>1. ~Mai2!Incomplete(c)
      BY <1>3, <2>3, <2>4, <2>7 DEF Mai2!Incomplete
    <3>2. Mai2!FrameLen(c) = Mai2!FrameLen(b)
      BY <1>4, <1>5, <2>3, <2>7 DEF Mai2!FrameLen
    <3> QED
      BY <3>1, <3>2
  <2> QED
    BY <2>5, <2>6, <2>7
<1>6. CASE b[1] = 40
  <2>1. Len(b) >= 9 /\ Len(c) >= 9
    BY <1>1, <1>6 DEF Mai2!Incomplete
  <2>2. c[9] = b[9] /\ b[1] # 255 /\ c[1] # 255
    BY <1>1, <1>4, <1>6, <2>1
  <2>3. ~Mai2!Incomplete(c)
    BY <1>1, <1>3, <2>1, <2>2 DEF Mai2!Incomplete
  <2>4. Mai2!FrameLen(c) = Mai2!FrameLen(b)
    BY <1>4, <1>6, <2>2 DEF Mai2!FrameLen
  <2> QED
    BY <2>3, <2>4
<1>7. CASE b[1] # 255 /\ b[1] # 40
  BY <1>3, <1>4, <1>7 DEF Mai2!Incomplete, Mai2!FrameLen
<1> QED
  BY <1>5, <1>6, <1>7

(* Where each byte in the receive buffer comes from: position ph[x] of the *)
(* frame that the board repeats, 0 for what came before the last noise.    *)
(* k bytes are there, l is the length of the frame, r of it are still to   *)
(* come, and there have been q bytes since the noise.                      *)
Phases(ph, k, l, r, q) ==
    /\ ph \in [1..k -> 0..l]
    /\ \A x \in 1..k : x > k - q => ph[x] # 0
    /\ k > 0 /\ ph[k] # 0 => ph[k] = IF r = 0 \/ r = l THEN l ELSE l - r
    /\ \A x, y \in 1..k :
          x <= y /\ ph[x] # 0 =>
             /\ y - x <= l - ph[x] => ph[y] = ph[x] + (y - x)
             /\ y - x > l - ph[x] /\ y - x <= 2 * l - ph[x] =>
                   ph[y] = (y - x) - (l - ph[x])

(* After noise nothing is known ...                                        *)
LEMMA PhasesUnknown ==
  ASSUME NEW k \in Nat, NEW l \in Nat, NEW r \in Nat
  PROVE  Phases([x \in 1..k |-> 0], k, l, r, 0)
  BY DEF Phases

(* The position after the last one, counted from an earlier byte ...       *)
LEMMA NextPosition ==
  ASSUME NEW l \in Nat, NEW r \in 1..l, NEW a \in 1..l, NEW c \in 0..l, NEW e \in Nat,
         e <= l - a => c = a + e,
         e > l - a /\ e <= 2 * l - a => c = e - (l - a),
         c # 0 => c = IF r = l THEN l ELSE l - r
  PROVE  /\ e + 1 <= l - a => l - r + 1 = a + (e + 1)
         /\ e + 1 > l - a /\ e + 1 <= 2 * l - a => l - r + 1 = (e + 1) - (l - a)
  OBVIOUS

(* ... in the terms of Phases.                                             *)
LEMMA NextPhase ==
  ASSUME NEW k \in Nat, NEW l \in Nat, NEW r \in 1..l, NEW q \in Nat,
         NEW ph, Phases(ph, k, l, r, q), NEW x \in 1..k, ph[x] # 0
  PROVE  /\ (k - x) + 1 <= l - ph[x] => l - r + 1 = ph[x] + ((k - x) + 1)
         /\ (k - x) + 1 > l - ph[x] /\ (k - x) + 1 <= 2 * l - ph[x] =>
               l - r + 1 = ((k - x) + 1) - (l - ph[x])
<1>1. k \in 1..k /\ x <= k /\ k - x \in Nat
  OBVIOUS
<1>2. ph[x] \in 1..l /\ ph[k] \in 0..l
  BY <1>1 DEF Phases
<1>3. k - x <= l - ph[x] => ph[k] = ph[x] + (k - x)
  BY <1>1 DEF Phases
<1>4. k - x > l - ph[x] /\ k - x <= 2 * l - ph[x] => ph[k] = (k - x) - (l - ph[x])
  BY <1>1 DEF Phases
<1>5. ph[k] # 0 => ph[k] = IF r = l THEN l ELSE l - r
  BY <1>1 DEF Phases
<1> QED
  BY <1>1, <1>2, <1>3, <1>4, <1>5, NextPosition

(* qh is ph with one position more.                                        *)
Longer(qh, ph, k, l, v) ==
    /\ qh \in [1..(k + 1) -> 0..l]
    /\ \A x \in 1..k : qh[x] = ph[x]
    /\ qh[k + 1] = v

(* ... a byte is the next one of the frame ...                             *)
LEMMA PhasesGrow ==
  ASSUME NEW k \in Nat, NEW l \in Nat, NEW r \in 1..l, NEW q \in Nat, NEW p \in Nat,
         NEW ph, Phases(ph, k, l, r, q), p <= q + 1, p = q + 1 \/ k < q,
         NEW qh, Longer(qh, ph, k, l, l - r + 1)
  PROVE  Phases(qh, k + 1, l, r - 1, p)
<1> USE DEF Longer
<1>1. qh \in [1..(k + 1) -> 0..l]
  OBVIOUS
<1>2. ASSUME NEW x \in 1..(k + 1), x > k + 1 - p
      PROVE  qh[x] # 0
  <2>1. CASE x <= k
    <3>1. x \in 1..k /\ x > k - q /\ qh[x] = ph[x]
      BY <1>2, <2>1
    <3>2. \A y \in 1..k : y > k - q => ph[y] # 0
      BY DEF Phases
    <3> QED
      BY <3>1, <3>2
  <2>2. CASE x = k + 1
    BY <2>2
  <2> QED
    BY <2>1, <2>2
<1>3. qh[k + 1] = IF r - 1 = 0 \/ r - 1 = l THEN l ELSE l - (r - 1)
  OBVIOUS
<1>4. ASSUME NEW x \in 1..(k + 1), NEW y \in 1..(k + 1), x <= y, qh[x] # 0
      PROVE  /\ y - x <= l - qh[x] => qh[y] = qh[x] + (y - x)
             /\ y - x > l - qh[x] /\ y - x <= 2 * l - qh[x] =>
                   qh[y] = (y - x) - (l - qh[x])
  <2>1. CASE y <= k
    BY <1>4, <2>1 DEF Phases
  <2>2. CASE y = k + 1 /\ x = k + 1
    BY <1>4, <2>2
  <2>3. CASE y = k + 1 /\ x <= k
    <3>1. x \in 1..k /\ qh[x] = ph[x] /\ qh[y] = l - r + 1 /\ y - x = (k - x) + 1
      BY <2>3
    <3>2. /\ (k - x) + 1 <= l - ph[x] => l - r + 1 = ph[x] + ((k - x) + 1)
          /\ (k - x) + 1 > l - ph[x] /\ (k - x) + 1 <= 2 * l - ph[x] =>
                l - r + 1 = ((k - x) + 1) - (l - ph[x])
      BY <1>4, <3>1, NextPhase
    <3> QED
      BY <3>1, <3>2
  <2> QED
    BY <2>1, <2>2, <2>3
<1> QED
  BY <1>1, <1>2, <1>3, <1>4 DEF Phases

(* ... and try_parse_frame takes them off at the front.                    *)
LEMMA PhasesShrink ==
  ASSUME NEW k \in Nat, NEW l \in Nat, NEW r \in Nat, NEW q \in Nat, NEW n \in 0..k,
         NEW ph, Phases(ph, k, l, r, q),
         NEW qh, qh = [x \in 1..(k - n) |-> ph[x + n]]
  PROVE  Phases(qh, k - n, l, r, q)
<1>1. \A x \in 1..(k - n) : x + n \in 1..k
  OBVIOUS
<1>2. qh \in [1..(k - n) -> 0..l]
  BY <1>1 DEF Phases
<1>3. \A x \in 1..(k - n) : x > k - n - q => qh[x] # 0
  BY <1>1 DEF Phases
<1>4. k - n > 0 => qh[k - n] = ph[k] /\ k > 0
  BY <1>1
<1>5. ASSUME NEW x \in 1..(k - n), NEW y \in 1..(k - n), x <= y, qh[x] # 0
      PROVE  /\ y - x <= l - qh[x] => qh[y] = qh[x] + (y - x)
             /\ y - x > l - qh[x] /\ y - x <= 2 * l - qh[x] =>
                   qh[y] = (y - x) - (l - qh[x])
  <2>1. x + n \in 1..k /\ y + n \in 1..k /\ x + n <= y + n /\ (y + n) - (x + n) = y - x
    BY <1>1, <1>5
  <2>2. qh[x] = ph[x + n] /\ qh[y] = ph[y + n]
    OBVIOUS
  <2> QED
    BY <1>5, <2>1, <2>2 DEF Phases
<1> QED
  BY <1>2, <1>3, <1>4, <1>5 DEF Phases

(* d is what is in the receive buffer of a board that repeats the frame w. *)
Repeats(d, w, r, q) ==
    \E ph : /\ Phases(ph, Len(d), Len(w), r, q)
            /\ \A x \in 1..Len(d) : ph[x] # 0 => d[x] = w[ph[x]]

(* After noise anything may be in the buffer ...                           *)
LEMMA RepeatsUnknown ==
  ASSUME NEW d \in Seq(Byte), NEW w \in Seq(Byte), NEW r \in Nat
  PROVE  Repeats(d, w, r, 0)
<1> DEFINE ph == [x \in 1..Len(d) |-> 0]
<1>1. Len(d) \in Nat /\ Len(w) \in Nat
  OBVIOUS
<1>2. Phases(ph, Len(d), Len(w), r, 0)
  BY <1>1, PhasesUnknown
<1>3. \A x \in 1..Len(d) : ph[x] = 0
  OBVIOUS
<1> HIDE DEF ph
<1> QED
  BY <1>2, <1>3 DEF Repeats

(* ... the board sends the frame once more ...                             *)
LEMMA RepeatsAnew ==
  ASSUME NEW d, NEW w \in Seq(Byte), NEW q, Repeats(d, w, 0, q)
  PROVE  Repeats(d, w, Len(w), q)
<1>1. PICK ph : /\ Phases(ph, Len(d), Len(w), 0, q)
                /\ \A x \in 1..Len(d) : ph[x] # 0 => d[x] = w[ph[x]]
  BY DEF Repeats
<1>2. Phases(ph, Len(d), Len(w), Len(w), q)
  BY <1>1 DEF Phases
<1> QED
  BY <1>1, <1>2 DEF Repeats

(* ... a byte of it comes in ...                                           *)
LEMMA RepeatsByte ==
  ASSUME NEW d \in Seq(Byte), Len(d) <= 258, NEW w \in Seq(Byte), NEW r \in 1..Len(w),
         NEW q \in 0..259, Repeats(d, w, r, q),
         NEW p, p = IF q < 259 THEN q + 1 ELSE 259
  PROVE  Repeats(Append(d, w[Len(w) - r + 1]), w, r - 1, p)
<1>1. PICK ph : /\ Phases(ph, Len(d), Len(w), r, q)
                /\ \A x \in 1..Len(d) : ph[x] # 0 => d[x] = w[ph[x]]
  BY DEF Repeats
<1>a. PICK k, l : k = Len(d) /\ l = Len(w)
  OBVIOUS
<1>2. k = Len(d) /\ l = Len(w) /\ k \in Nat /\ l \in Nat
  BY <1>a
<1>3. PICK qh : qh = [x \in 1..(k + 1) |-> IF x <= k THEN ph[x] ELSE l - r + 1]
  OBVIOUS
<1>4. r \in 1..l /\ q \in Nat /\ p \in Nat /\ p <= q + 1 /\ (p = q + 1 \/ k < q)
  BY <1>2
<1>5. Phases(ph, k, l, r, q)
  BY <1>1, <1>2
<1>6. Phases(qh, k + 1, l, r - 1, p)
  <2>1. qh \in [1..(k + 1) -> 0..l]
    BY <1>2, <1>3, <1>4, <1>5 DEF Phases
  <2>2. (\A x \in 1..k : qh[x] = ph[x]) /\ qh[k + 1] = l - r + 1
    BY <1>2, <1>3
  <2>3. r \in 1..l /\ q \in Nat /\ p \in Nat /\ p <= q + 1 /\ (p = q + 1 \/ k < q)
        /\ k \in Nat /\ l \in Nat
    BY <1>2, <1>4
  <2>4. Longer(qh, ph, k, l, l - r + 1)
    BY <2>1, <2>2 DEF Longer
  <2> QED
    BY <1>5, <2>3, <2>4, PhasesGrow, Zenon
<1>7. PICK byte : byte = w[l - r + 1]
  OBVIOUS
<1>8. byte \in Byte
  BY <1>2, <1>7
<1>9. PICK e : e = Append(d, byte)
  OBVIOUS
<1>10. /\ Len(e) = k + 1
       /\ \A x \in 1..k : e[x] = d[x]
       /\ e[k + 1] = byte
  BY <1>2, <1>8, <1>9, Appended
<1>11. ASSUME NEW x \in 1..(k + 1), qh[x] # 0
       PROVE  e[x] = w[qh[x]]
  <2>1. CASE x <= k
    <3>1. x \in 1..k /\ qh[x] = ph[x]
      BY <1>3, <2>1
    <3> QED
      BY <1>1, <1>2, <1>10, <1>11, <3>1
  <2>2. CASE x = k + 1
    <3>1. qh[x] = l - r + 1
      BY <1>2, <1>3, <2>2
    <3> QED
      BY <1>7, <1>10, <2>2, <3>1
  <2> QED
    BY <1>2, <2>1, <2>2
<1>12. Repeats(e, w, r - 1, p)
  BY <1>2, <1>6, <1>10, <1>11 DEF Repeats
<1> QED
  BY <1>2, <1>7, <1>9, <1>12

(* ... and try_parse_frame drops bytes.                                    *)
LEMMA RepeatsDropped ==
  ASSUME NEW d \in Seq(Byte), NEW w \in Seq(Byte), NEW r \in Nat, NEW q \in Nat,
         Repeats(d, w, r, q), NEW n \in Nat, NEW e, e = Mai2!Rest(d, n)
  PROVE  Repeats(e, w, r, q)
<1>1. PICK ph : /\ Phases(ph, Len(d), Len(w), r, q)
                /\ \A x \in 1..Len(d) : ph[x] # 0 => d[x] = w[ph[x]]
  BY DEF Repeats
<1>a. PICK k, l : k = Len(d) /\ l = Len(w)
  OBVIOUS
<1>2. k = Len(d) /\ l = Len(w) /\ k \in Nat /\ l \in Nat
  BY <1>a
<1>3. PICK z : z = IF n > k THEN k ELSE n
  OBVIOUS
<1>4. z \in 0..k
  BY <1>2, <1>3
<1>5. PICK qh : qh = [x \in 1..(k - z) |-> ph[x + z]]
  OBVIOUS
<1>6. Phases(qh, k - z, l, r, q)
  BY <1>1, <1>2, <1>4, <1>5, PhasesShrink
<1>7. Len(e) = k - z /\ \A x \in 1..(k - z) : x + z \in 1..k /\ e[x] = d[x + z]
  <2>1. CASE n >= k
    <3>1. z = k /\ n + 1 > k
      BY <1>2, <1>3, <2>1
    <3>2. e = <<>>
      BY <1>2, <3>1 DEF Mai2!Rest
    <3> QED
      BY <1>2, <3>1, <3>2
  <2>2. CASE n < k
    <3>1. z = n /\ 1 <= n + 1 /\ n + 1 <= k /\ k - (n + 1) + 1 = k - z
      BY <1>2, <1>3, <2>2
    <3>2. e = SubSeq(d, n + 1, k)
      BY <1>2 DEF Mai2!Rest
    <3>3. Len(e) = k - (n + 1) + 1 /\ \A x \in 1..(k - (n + 1) + 1) : e[x] = d[n + 1 + x - 1]
      BY <1>2, <3>1, <3>2, SubSequence
    <3>4. \A x \in 1..(k - z) : x + z \in 1..k /\ n + 1 + x - 1 = x + z
      BY <1>2, <3>1
    <3> QED
      BY <3>1, <3>3, <3>4
  <2> QED
    BY <1>2, <2>1, <2>2
<1>9. \A x \in 1..(k - z) : qh[x] # 0 => e[x] = w[qh[x]]
  BY <1>1, <1>2, <1>5, <1>7
<1> QED
  BY <1>2, <1>6, <1>7, <1>9 DEF Repeats

(* The end of a frame of which the beginning is gone.                      *)
Leftover(a) ==
    \/ a = <<>>
    \/ \E m \in Messages("mai2") : \E i \in 2..Len(Mai2!Wire(m)) : a = End(Mai2!Wire(m), i)

(* The bytes of the end of a sequence ...                                  *)
LEMMA EndElements ==
  ASSUME NEW s \in Seq(Byte), NEW i \in 1..Len(s), NEW t, t = End(s, i)
  PROVE  /\ t \in Seq(Byte) /\ Len(t) = Len(s) - i + 1
         /\ \A x \in 1..(Len(s) - i + 1) : t[x] = s[i + x - 1]
<1>1. PICK z : z = Len(s)
  OBVIOUS
<1>2. i \in Nat /\ z \in Nat /\ 1 <= i /\ i <= z /\ z <= Len(s)
  BY <1>1
<1>3. t = SubSeq(s, i, z)
  BY <1>1 DEF End
<1>4. /\ t \in Seq(Byte) /\ Len(t) = z - i + 1
      /\ \A x \in 1..(z - i + 1) : t[x] = s[i + x - 1]
  BY <1>2, <1>3, SubSequence
<1> QED
  BY <1>1, <1>4, Zenon

(* The bytes of two sequences in one.                                      *)
LEMMA JoinElements ==
  ASSUME NEW w \in Seq(Byte), NEW v \in Seq(Byte), NEW s, s = w \o v
  PROVE  /\ s \in Seq(Byte) /\ Len(s) = Len(w) + Len(v)
         /\ \A x \in 1..Len(w) : s[x] = w[x]
         /\ \A x \in 1..Len(v) : s[x + Len(w)] = v[x]
  OBVIOUS

(* b is w from position i on with v behind it, byte by byte.               *)
Parts(b, w, v, i) ==
    /\ b \in Seq(Byte) /\ Len(b) = Len(w) + Len(v) - i + 1
    /\ \A x \in 1..(Len(w) - i + 1) : b[x] = w[i + x - 1]
    /\ \A x \in 1..Len(v) : b[x + (Len(w) - i + 1)] = v[x]

(* What try_parse_frame sees from inside a frame are the rest of it and    *)
(* the next one.                                                           *)
LEMMA InsideElements ==
  ASSUME NEW m \in Messages("mai2"), NEW n \in Messages("mai2"),
         NEW w, w = Mai2!Wire(m), NEW v, v = Mai2!Wire(n),
         NEW i \in 1..Len(w), NEW b, b = Inside(m, n, i)
  PROVE  Parts(b, w, v, i)
<1>1. w \in Seq(Byte) /\ v \in Seq(Byte)
  BY Mai2WireType
<1>a. PICK l, h : l = Len(w) /\ h = Len(v)
  OBVIOUS
<1>2. l = Len(w) /\ h = Len(v) /\ l \in Nat /\ h \in Nat /\ i \in 1..l
  BY <1>1, <1>a
<1>3. PICK s : s = Two(m, n)
  OBVIOUS
<1>4. /\ s \in Seq(Byte) /\ Len(s) = l + h
      /\ \A x \in 1..l : s[x] = w[x]
      /\ \A x \in 1..h : s[x + l] = v[x]
  <2>1. s = w \o v
    BY <1>3 DEF Two
  <2> QED
    BY <1>1, <1>2, <2>1, JoinElements
<1>5. i \in 1..Len(s)
  BY <1>2, <1>4
<1>6. /\ b \in Seq(Byte) /\ Len(b) = Len(s) - i + 1
      /\ \A x \in 1..(Len(s) - i + 1) : b[x] = s[i + x - 1]
  <2>1. b = End(s, i)
    BY <1>3 DEF Inside
  <2> QED
    <3>1. s \in Seq(Byte)
      BY <1>4
    <3> QED
      BY <1>5, <2>1, <3>1, EndElements
<1>7. Len(b) = l + h - i + 1 /\ b \in Seq(Byte)
  <2>1. Len(s) = l + h
    BY <1>4
  <2>2. Len(b) = Len(s) - i + 1 /\ b \in Seq(Byte)
    BY <1>6
  <2> QED
    BY <1>2, <2>1, <2>2
<1>8. ASSUME NEW x \in 1..(l - i + 1)
      PROVE  b[x] = w[i + x - 1]
  <2>1. x \in 1..(Len(s) - i + 1) /\ i + x - 1 \in 1..l
    BY <1>2, <1>4, <1>8
  <2> QED
    BY <1>4, <1>6, <2>1
<1>9. ASSUME NEW x \in 1..h
      PROVE  b[x + (l - i + 1)] = v[x]
  <2>1. /\ x + (l - i + 1) \in 1..(Len(s) - i + 1)
        /\ i + (x + (l - i + 1)) - 1 = x + l
    BY <1>2, <1>4, <1>9
  <2>2. b[x + (l - i + 1)] = s[i + (x + (l - i + 1)) - 1]
    BY <1>6, <2>1
  <2> QED
    BY <1>4, <2>1, <2>2
<1> QED
  BY <1>2, <1>7, <1>8, <1>9 DEF Parts

(* Frames without the first byte of a header behind their own are such     *)
(* frames.                                                                 *)
LEMMA PlainFrames ==
  ASSUME \A m \in Messages("mai2") : \A i \in 2..Len(Mai2!Wire(m)) :
            Mai2!Wire(m)[i] \notin {40, 255}
  PROVE  NoFalseHeaders
<1> SUFFICES ASSUME NEW m \in Messages("mai2"), NEW n \in Messages("mai2"),
                    NEW i \in 2..Len(Mai2!Wire(m))
             PROVE  Skips(Inside(m, n, i))
  BY DEF NoFalseHeaders
<1>1. PICK w, v, c : w = Mai2!Wire(m) /\ v = Mai2!Wire(n) /\ c = Inside(m, n, i)
  OBVIOUS
<1>2. w \in Seq(Byte) /\ v \in Seq(Byte)
  BY <1>1, Mai2WireType
<1>3. i \in 1..Len(w) /\ w[i] \notin {40, 255}
  BY <1>1, <1>2
<1>4. Parts(c, w, v, i)
  BY <1>1, <1>3, InsideElements
<1>5. PICK l, h : l = Len(w) /\ h = Len(v)
  OBVIOUS
<1>6. l \in Nat /\ h \in Nat /\ i \in 1..l
  BY <1>2, <1>3, <1>5
<1>7. c \in Seq(Byte) /\ Len(c) = l + h - i + 1
  BY <1>4, <1>5 DEF Parts
<1>8. c # <<>>
  <2>1. Len(c) # 0
    BY <1>6, <1>7
  <2> QED
    BY <1>7, <2>1, EmptyLength
<1>9. c[1] = w[i]
  <2>1. 1 \in 1..(l - i + 1) /\ i + 1 - 1 = i
    BY <1>6
  <2>2. c[1] = w[i + 1 - 1]
    BY <1>4, <1>5, <2>1 DEF Parts
  <2> QED
    BY <2>1, <2>2
<1>10. c[1] # 40 /\ c[1] # 255
  BY <1>3, <1>9
<1>11. Skips(c)
  BY <1>8, <1>10 DEF Skips, Mai2!Incomplete, Mai2!FrameLen
<1> QED
  BY <1>1, <1>11

(* k bytes that end where a frame of l does, the first one at its position *)
(* i, are the end of one frame or reach into the one before it.            *)
LEMMA Turn ==
  ASSUME NEW k \in Nat, k >= 1, NEW l \in Nat, NEW i \in 1..l, NEW c, c = l,
         k - 1 <= l - i => c = i + (k - 1),
         k - 1 > l - i /\ k - 1 <= 2 * l - i => c = (k - 1) - (l - i)
  PROVE  k = l - i + 1 \/ k >= 2 * l - i + 1
  OBVIOUS

(* What a board has left in the receive buffer that has repeated a frame   *)
(* for as long as the longest frame there can be.                          *)
LEMMA RepeatsLeftover ==
  ASSUME NEW m \in Messages("mai2"), NEW d \in Seq(Byte), Mai2!Incomplete(d),
         Repeats(d, Mai2!Wire(m), 0, 259), NoFalseHeaders
  PROVE  Leftover(d)
<1> SUFFICES ASSUME d # <<>>
             PROVE  Leftover(d)
  BY DEF Leftover
<1>1. PICK w : w = Mai2!Wire(m)
  OBVIOUS
<1>2. w \in Seq(Byte) /\ ~Mai2!Incomplete(w)
  BY <1>1, WholeParsed
<1>a. PICK k, l : k = Len(d) /\ l = Len(w)
  OBVIOUS
<1>3. k = Len(d) /\ l = Len(w) /\ k \in Nat /\ l \in Nat
  BY <1>2, <1>a
<1>4. k >= 1 /\ k <= 258
  BY <1>3, EmptyLength, IncompleteIsShort
<1>5. PICK ph : /\ Phases(ph, k, l, 0, 259)
                /\ \A x \in 1..k : ph[x] # 0 => d[x] = w[ph[x]]
  BY <1>1, <1>3 DEF Repeats
<1>6. \A x \in 1..k : ph[x] \in 1..l
  <2> TAKE x \in 1..k
  <2>1. x > k - 259
    BY <1>3, <1>4
  <2>2. ph[x] \in 0..l /\ ph[x] # 0
    BY <1>5, <2>1 DEF Phases
  <2> QED
    BY <1>3, <2>2
<1>7. \A x \in 1..k : d[x] = w[ph[x]]
  <2> TAKE x \in 1..k
  <2>1. ph[x] # 0
    BY <1>3, <1>6
  <2> QED
    BY <1>5, <2>1
<1>8. PICK i : i = ph[1]
  OBVIOUS
<1>9. 1 \in 1..k /\ k \in 1..k /\ i \in 1..l
  BY <1>3, <1>4, <1>6, <1>8
<1>10. ASSUME NEW x \in 1..k
       PROVE  /\ x - 1 <= l - i => ph[x] = i + (x - 1)
              /\ x - 1 > l - i /\ x - 1 <= 2 * l - i => ph[x] = (x - 1) - (l - i)
  <2>1. 1 <= x /\ ph[1] # 0
    BY <1>3, <1>6, <1>9, <1>10
  <2> QED
    BY <1>5, <1>8, <1>9, <1>10, <2>1 DEF Phases
<1>11. ph[k] = l
  <2>1. k > 0 /\ ph[k] # 0
    BY <1>3, <1>4, <1>6, <1>9
  <2> QED
    BY <1>5, <2>1 DEF Phases
<1>12. k = l - i + 1 \/ k >= 2 * l - i + 1
  BY <1>3, <1>4, <1>9, <1>10, <1>11, Turn
<1>13. \A x \in 1..k : x <= l - i + 1 => d[x] = w[i + x - 1]
  <2> TAKE x \in 1..k
  <2> SUFFICES ASSUME x <= l - i + 1
               PROVE  d[x] = w[i + x - 1]
    OBVIOUS
  <2>1. x - 1 <= l - i /\ i + (x - 1) = i + x - 1
    BY <1>3, <1>9
  <2>2. ph[x] = i + x - 1
    BY <1>10, <2>1
  <2> QED
    BY <1>7, <2>2
<1>14. CASE i = 1
  <2>1. Len(w) <= Len(d)
    BY <1>3, <1>12, <1>14
  <2>2. ASSUME NEW x \in 1..Len(w)
        PROVE  d[x] = w[x]
    <3>1. x \in 1..k /\ x <= l - i + 1 /\ i + x - 1 = x
      BY <1>3, <1>14, <2>1
    <3> QED
      BY <1>13, <3>1
  <2>3. ~Mai2!Incomplete(d)
    BY <1>2, <2>1, <2>2, Decided
  <2> QED
    BY <2>3
<1>15. CASE i # 1 /\ k = l - i + 1
  <2>1. PICK s : s = End(w, i)
    OBVIOUS
  <2>2. /\ s \in Seq(Byte) /\ Len(s) = l - i + 1
        /\ \A x \in 1..(l - i + 1) : s[x] = w[i + x - 1]
    BY <1>2, <1>3, <1>9, <2>1, EndElements
  <2>3. Len(d) = Len(s)
    BY <1>3, <1>15, <2>2
  <2>4. \A x \in 1..Len(d) : d[x] = s[x]
    BY <1>3, <1>13, <1>15, <2>2
  <2>5. d = s
    BY <2>2, <2>3, <2>4, SameElements
  <2>6. i \in 2..Len(Mai2!Wire(m))
    BY <1>1, <1>3, <1>9, <1>15
  <2>7. d = End(Mai2!Wire(m), i)
    BY <1>1, <2>1, <2>5
  <2> QED
    BY <2>6, <2>7 DEF Leftover
<1>16. CASE i # 1 /\ k >= 2 * l - i + 1
  <2>1. PICK b : b = Inside(m, m, i)
    OBVIOUS
  <2>2. i \in 1..Len(w)
    BY <1>3, <1>9
  <2>3. /\ b \in Seq(Byte) /\ Len(b) = l + l - i + 1
        /\ \A x \in 1..(l - i + 1) : b[x] = w[i + x - 1]
        /\ \A x \in 1..l : b[x + (l - i + 1)] = w[x]
    <3>1. Parts(b, w, w, i)
      BY <1>1, <2>1, <2>2, InsideElements
    <3> QED
      BY <1>3, <3>1 DEF Parts
  <2>4. Len(b) <= Len(d)
    BY <1>3, <1>9, <1>16, <2>3
  <2>5. ASSUME NEW x \in 1..Len(b)
        PROVE  d[x] = b[x]
    <3>1. x \in 1..k
      BY <1>3, <1>9, <2>3, <2>4
    <3>2. CASE x <= l - i + 1
      BY <1>3, <1>9, <1>13, <2>3, <3>1, <3>2
    <3>3. CASE x > l - i + 1
      <4>1. /\ x - (l - i + 1) \in 1..l
            /\ (x - (l - i + 1)) + (l - i + 1) = x
            /\ x - 1 > l - i /\ x - 1 <= 2 * l - i
            /\ (x - 1) - (l - i) = x - (l - i + 1)
        BY <1>3, <1>9, <2>3, <3>3
      <4>2. ph[x] = x - (l - i + 1)
        BY <1>10, <3>1, <4>1
      <4>3. b[x] = w[x - (l - i + 1)]
        BY <2>3, <4>1
      <4> QED
        BY <1>7, <3>1, <4>2, <4>3
    <3> QED
      BY <1>3, <1>9, <3>1, <3>2, <3>3
  <2>7. ~Mai2!Incomplete(b)
    <3>1. i \in 2..Len(Mai2!Wire(m))
      BY <1>1, <1>3, <1>9, <1>16
    <3> QED
      BY <2>1, <3>1 DEF NoFalseHeaders, Skips
  <2>8. ~Mai2!Incomplete(d)
    BY <2>3, <2>4, <2>5, <2>7, Decided
  <2> QED
    BY <2>8
<1> QED
  BY <1>12, <1>14, <1>15, <1>16

(* ... and the next byte is the one behind.                                *)
LEMMA EndTail ==
  ASSUME NEW w \in Seq(Byte), NEW i \in 1..Len(w), NEW t, t = End(w, i)
  PROVE  /\ t # <<>>
         /\ Tail(t) \in Seq(Byte)
         /\ Tail(t) = <<>> \/ (i + 1 \in 1..Len(w) /\ Tail(t) = End(w, i + 1))
<1>a. PICK l : l = Len(w)
  OBVIOUS
<1>1. l = Len(w) /\ l \in Nat /\ i \in 1..l
  BY <1>a
<1>2. /\ t \in Seq(Byte) /\ Len(t) = Len(w) - i + 1
      /\ \A x \in 1..(Len(w) - i + 1) : t[x] = w[i + x - 1]
  BY EndElements
<1>3. t \in Seq(Byte) /\ Len(t) = l - i + 1
  BY <1>1, <1>2
<1>4. Len(t) # 0
  BY <1>1, <1>3
<1>5. t # <<>>
  BY <1>3, <1>4, EmptyLength
<1>6. PICK u : u = Tail(t)
  OBVIOUS
<1>7. u \in Seq(Byte) /\ Len(u) = l - i
  <2>1. u \in Seq(Byte) /\ Len(u) = Len(t) - 1
    BY <1>3, <1>5, <1>6, NonEmpty
  <2> QED
    BY <1>1, <1>3, <2>1
<1>8. ASSUME NEW x \in 1..(l - i)
      PROVE  u[x] = w[i + x]
  <2>1. u[x] = t[x + 1]
    BY <1>1, <1>3, <1>5, <1>6, <1>7, <1>8
  <2>2. x + 1 \in 1..(Len(w) - i + 1) /\ i + (x + 1) - 1 = i + x
    BY <1>1, <1>8
  <2> QED
    BY <1>2, <2>1, <2>2
<1>9. CASE i = l
  <2>1. Len(u) = 0
    BY <1>1, <1>7, <1>9
  <2>2. u = <<>>
    BY <1>7, <2>1, EmptyLength
  <2>3. Tail(t) = <<>>
    BY <1>6, <2>2, Zenon
  <2>4. Tail(t) \in Seq(Byte)
    BY <1>6, <1>7, Zenon
  <2>5. Tail(t) = <<>> \/ (i + 1 \in 1..Len(w) /\ Tail(t) = End(w, i + 1))
    BY <2>3
  <2> QED
    BY <1>5, <2>4, <2>5
<1>10. CASE i # l
  <2>1. PICK j : j = i + 1
    OBVIOUS
  <2>2. j \in 1..Len(w) /\ Len(w) - j + 1 = l - i
    BY <1>1, <1>10, <2>1
  <2>3. PICK v : v = End(w, j)
    OBVIOUS
  <2>4. /\ v \in Seq(Byte) /\ Len(v) = Len(w) - j + 1
        /\ \A x \in 1..(Len(w) - j + 1) : v[x] = w[j + x - 1]
    BY <2>2, <2>3, EndElements
  <2>5. Len(u) = Len(v)
    BY <1>7, <2>2, <2>4
  <2>6. ASSUME NEW x \in 1..Len(u)
        PROVE  u[x] = v[x]
    <3>1. x \in 1..(l - i) /\ j + x - 1 = i + x
      BY <1>1, <1>7, <2>1, <2>6
    <3>2. x \in 1..(Len(w) - j + 1)
      BY <2>2, <3>1
    <3>3. u[x] = w[i + x] /\ v[x] = w[j + x - 1]
      BY <1>8, <2>4, <3>1, <3>2
    <3> QED
      BY <3>1, <3>3
  <2>7. u = v
    BY <1>7, <2>4, <2>5, <2>6, SameElements
  <2> QED
    BY <1>5, <1>6, <1>7, <2>1, <2>2, <2>3, <2>7
<1> QED
  BY <1>9, <1>10

(* The end of a frame without its first byte is one, too.                  *)
LEMMA LeftoverTail ==
  ASSUME NEW a, Leftover(a), a # <<>>
  PROVE  Tail(a) \in Seq(Byte) /\ Leftover(Tail(a))
<1>a. PICK m \in Messages("mai2") : \E i \in 2..Len(Mai2!Wire(m)) : a = End(Mai2!Wire(m), i)
  BY DEF Leftover
<1>1. PICK i \in 2..Len(Mai2!Wire(m)) : a = End(Mai2!Wire(m), i)
  BY <1>a
<1>2. PICK w : w = Mai2!Wire(m)
  OBVIOUS
<1>3. w \in Seq(Byte)
  BY <1>2, Mai2WireType
<1>4. i \in 1..Len(w) /\ i \in 2..Len(w)
  BY <1>2, <1>3
<1>5. a = End(w, i)
  BY <1>1, <1>2
<1>6. /\ Tail(a) \in Seq(Byte)
      /\ Tail(a) = <<>> \/ (i + 1 \in 1..Len(w) /\ Tail(a) = End(w, i + 1))
  BY <1>3, <1>4, <1>5, EndTail
<1>7. i + 1 \in 1..Len(w) => i + 1 \in 2..Len(w)
  BY <1>3, <1>4
<1> QED
  BY <1>2, <1>6, <1>7 DEF Leftover

(* c begins with d.                                                        *)
Begins(c, d) ==
    /\ c \in Seq(Byte) /\ d \in Seq(Byte) /\ Len(d) <= Len(c)
    /\ \A x \in 1..Len(d) : c[x] = d[x]

(* d is a and then b, the beginning of a frame v of which rest is to come. *)
Holds(d, a, b, rest, v) ==
    /\ a \in Seq(Byte) /\ b \in Seq(Byte) /\ rest \in Seq(Byte)
    /\ d = a \o b /\ b \o rest = v

(* An end of a frame with a part of the next one behind it is the          *)
(* beginning of what Inside describes.                                     *)
LEMMA JoinedElements ==
  ASSUME NEW w \in Seq(Byte), NEW i \in 1..Len(w), NEW v,
         NEW a, a = End(w, i), NEW b, NEW rest, NEW d, Holds(d, a, b, rest, v),
         NEW c, Parts(c, w, v, i)
  PROVE  Begins(c, d) /\ Len(c) = Len(d) + Len(rest)
<1>1. /\ Len(a) = Len(w) - i + 1
      /\ \A x \in 1..(Len(w) - i + 1) : a[x] = w[i + x - 1]
  BY EndElements
<1>a. PICK l, h, k, g : l = Len(w) /\ h = Len(v) /\ k = Len(b) /\ g = Len(rest)
  OBVIOUS
<1>b. a \in Seq(Byte) /\ b \in Seq(Byte) /\ rest \in Seq(Byte)
  BY DEF Holds
<1>c. v \in Seq(Byte)
  <2>1. b \o rest \in Seq(Byte)
    BY <1>b, JoinElements
  <2>2. b \o rest = v
    BY DEF Holds
  <2> QED
    BY <2>1, <2>2, Zenon
<1>2. l = Len(w) /\ h = Len(v) /\ k = Len(b) /\ g = Len(rest)
      /\ l \in Nat /\ h \in Nat /\ k \in Nat /\ g \in Nat /\ i \in 1..l
  BY <1>a, <1>b, <1>c
<1>3. h = k + g /\ \A x \in 1..k : v[x] = b[x]
  BY <1>2, <1>b, JoinElements DEF Holds
<1>4. /\ d \in Seq(Byte) /\ Len(d) = Len(a) + k
      /\ \A x \in 1..Len(a) : d[x] = a[x]
      /\ \A x \in 1..k : d[x + Len(a)] = b[x]
  BY <1>2, <1>b, JoinElements DEF Holds
<1>5. /\ c \in Seq(Byte) /\ Len(c) = l + h - i + 1
      /\ \A x \in 1..(l - i + 1) : c[x] = w[i + x - 1]
      /\ \A x \in 1..h : c[x + (l - i + 1)] = v[x]
  BY <1>2 DEF Parts
<1>6. PICK z : z = l - i + 1
  OBVIOUS
<1>7. z \in 1..l /\ z = l - i + 1 /\ Len(a) = z
  BY <1>1, <1>2, <1>6
<1>8. d \in Seq(Byte) /\ c \in Seq(Byte)
  BY <1>4, <1>5
<1>9. Len(d) = z + k
  BY <1>4, <1>7
<1>10. Len(c) = z + h
  <2>1. Len(c) = l + h - i + 1
    BY <1>5
  <2> QED
    BY <1>2, <1>7, <2>1
<1>11. ASSUME NEW x \in 1..Len(d)
       PROVE  c[x] = d[x]
  <2>1. CASE x <= z
    <3>1. x \in 1..(l - i + 1) /\ x \in 1..Len(a) /\ x \in 1..(Len(w) - i + 1)
      BY <1>2, <1>7, <1>9, <1>11, <2>1
    <3>2. c[x] = w[i + x - 1]
      BY <1>5, <3>1
    <3>3. d[x] = a[x]
      BY <1>4, <3>1
    <3>4. a[x] = w[i + x - 1]
      BY <1>1, <3>1
    <3> QED
      BY <3>2, <3>3, <3>4
  <2>2. CASE x > z
    <3>1. PICK y : y = x - z
      OBVIOUS
    <3>2. y \in 1..k /\ y \in 1..h /\ y + (l - i + 1) = x /\ y + Len(a) = x
      <4>1. y \in 1..k /\ y + z = x
        BY <1>2, <1>7, <1>9, <1>11, <2>2, <3>1
      <4>2. h >= k
        BY <1>2, <1>3
      <4>3. y \in 1..h
        BY <1>2, <4>1, <4>2
      <4>4. y + (l - i + 1) = x /\ y + Len(a) = x
        BY <1>7, <4>1
      <4> QED
        BY <4>1, <4>3, <4>4
    <3>3. c[x] = v[y]
      BY <1>5, <3>2
    <3>4. d[x] = b[y]
      BY <1>4, <3>2
    <3>5. v[y] = b[y]
      BY <1>3, <3>2
    <3> QED
      BY <3>3, <3>4, <3>5
  <2> QED
    <3>1. x <= z \/ x > z
      BY <1>7
    <3> QED
      BY <2>1, <2>2, <3>1, Zenon
<1>12. Len(d) <= Len(c)
  <2>1. h >= k
    BY <1>2, <1>3
  <2> QED
    BY <1>2, <1>7, <1>9, <1>10, <2>1
<1>13. Len(c) = Len(d) + Len(rest)
  <2>1. h = k + g
    BY <1>3
  <2> QED
    BY <1>2, <1>7, <1>9, <1>10, <2>1
<1> QED
  BY <1>8, <1>11, <1>12, <1>13 DEF Begins

(* What is left in the buffer is skipped byte by byte, by the time the     *)
(* frame behind it is there.                                               *)
LEMMA LeftoverSkipped ==
  ASSUME NEW a, Leftover(a), a # <<>>, NEW n \in Messages("mai2"), NoFalseHeaders,
         NEW b, NEW rest, NEW d, Holds(d, a, b, rest, Mai2!Wire(n))
  PROVE  /\ ~Mai2!Incomplete(d) => Mai2!FrameLen(d) = 0
         /\ rest = <<>> => ~Mai2!Incomplete(d)
<1>a. PICK m \in Messages("mai2") : \E i \in 2..Len(Mai2!Wire(m)) : a = End(Mai2!Wire(m), i)
  BY DEF Leftover
<1>1. PICK i \in 2..Len(Mai2!Wire(m)) : a = End(Mai2!Wire(m), i)
  BY <1>a
<1>2. PICK w, v : w = Mai2!Wire(m) /\ v = Mai2!Wire(n)
  OBVIOUS
<1>3. w \in Seq(Byte) /\ v \in Seq(Byte)
  BY <1>2, Mai2WireType
<1>4. i \in 1..Len(w) /\ a = End(w, i)
  BY <1>1, <1>2, <1>3
<1>5. PICK c : c = Inside(m, n, i)
  OBVIOUS
<1>6. Parts(c, w, v, i)
  BY <1>2, <1>4, <1>5, InsideElements
<1>8. /\ d \in Seq(Byte) /\ c \in Seq(Byte) /\ Len(d) <= Len(c)
      /\ \A x \in 1..Len(d) : c[x] = d[x]
      /\ Len(c) = Len(d) + Len(rest)
  <2>1. Holds(d, a, b, rest, v)
    BY <1>2
  <2>2. Begins(c, d) /\ Len(c) = Len(d) + Len(rest)
    BY <1>3, <1>4, <1>6, <2>1, JoinedElements
  <2> QED
    BY <2>2 DEF Begins
<1>9. Skips(c)
  BY <1>5 DEF NoFalseHeaders
<1>10. ~Mai2!Incomplete(d) => Mai2!FrameLen(c) = Mai2!FrameLen(d)
  BY <1>8, Decided
<1>12. ASSUME rest = <<>>
       PROVE  ~Mai2!Incomplete(d)
  <2>1. Len(d) = Len(c)
    <3>1. Len(rest) = 0
      BY <1>12
    <3>2. Len(c) = Len(d) + Len(rest) /\ d \in Seq(Byte)
      BY <1>8
    <3> QED
      BY <3>1, <3>2
  <2>2. Len(c) <= Len(d) /\ \A x \in 1..Len(c) : d[x] = c[x]
    BY <1>8, <2>1
  <2> QED
    BY <1>8, <1>9, <2>2, Decided DEF Skips
<1> QED
  BY <1>9, <1>10, <1>12 DEF Skips

(* A frame begins behind what is in the buffer ...                         *)
LEMMA HoldsAnew ==
  ASSUME NEW d \in Seq(Byte), NEW v \in Seq(Byte)
  PROVE  Holds(d, d, <<>>, v, v)
<1>1. d \o <<>> = d /\ <<>> \o v = v /\ <<>> \in Seq(Byte)
  OBVIOUS
<1> QED
  BY <1>1 DEF Holds

(* A byte goes behind the second of two sequences.                         *)
LEMMA AppendJoined ==
  ASSUME NEW a \in Seq(Byte), NEW b \in Seq(Byte), NEW x \in Byte
  PROVE  Append(a \o b, x) = a \o Append(b, x)
  OBVIOUS

(* ... a byte of it comes in ...                                           *)
LEMMA HoldsByte ==
  ASSUME NEW d, NEW a, NEW b, NEW rest, NEW v, Holds(d, a, b, rest, v), rest # <<>>
  PROVE  Holds(Append(d, Head(rest)), a, Append(b, Head(rest)), Tail(rest), v)
<1>1. a \in Seq(Byte) /\ b \in Seq(Byte) /\ rest \in Seq(Byte)
  BY DEF Holds
<1>2. d = a \o b /\ b \o rest = v
  BY DEF Holds
<1>3. PICK x, t : x = Head(rest) /\ t = Tail(rest)
  OBVIOUS
<1>4. x \in Byte /\ t \in Seq(Byte) /\ rest = <<x>> \o t
  BY <1>1, <1>3, NonEmpty
<1>5. Append(d, x) = a \o Append(b, x)
  BY <1>1, <1>2, <1>4, AppendJoined
<1>6. Append(b, x) \in Seq(Byte) /\ Append(b, x) \o t = b \o (<<x>> \o t)
  BY <1>1, <1>4, MoveByte
<1>7. Append(b, x) \o t = v
  BY <1>2, <1>4, <1>6, Zenon
<1>8. Holds(Append(d, x), a, Append(b, x), t, v)
  BY <1>1, <1>4, <1>5, <1>6, <1>7 DEF Holds
<1> QED
  BY <1>3, <1>8, Zenon

(* What is behind a byte ...                                               *)
LEMMA DropByte ==
  ASSUME NEW x \in Byte, NEW u \in Seq(Byte), NEW d, d = <<x>> \o u
  PROVE  Mai2!Rest(d, 1) = u
<1>1. d \in Seq(Byte) /\ d # <<>> /\ Tail(d) = u
  BY Prepend
<1>2. Mai2!Rest(d, 1) = Tail(d)
  BY <1>1 DEF Mai2!Rest
<1> QED
  BY <1>1, <1>2, Zenon

(* ... and behind the first byte of two sequences.                         *)
LEMMA DropFirst ==
  ASSUME NEW a \in Seq(Byte), a # <<>>, NEW b \in Seq(Byte)
  PROVE  Mai2!Rest(a \o b, 1) = Tail(a) \o b
<1>a. PICK x, t : x = Head(a) /\ t = Tail(a)
  OBVIOUS
<1>b. x \in Byte /\ t \in Seq(Byte) /\ a = <<x>> \o t
  BY <1>a, NonEmpty
<1>1. PICK u : u = t \o b
  OBVIOUS
<1>2. u \in Seq(Byte)
  BY <1>1, <1>b
<1>3. (<<x>> \o t) \o b = <<x>> \o u
  BY <1>1, <1>b
<1>4. PICK d : d = <<x>> \o u
  OBVIOUS
<1>5. d = a \o b
  BY <1>3, <1>4, <1>b, Zenon
<1>6. Mai2!Rest(d, 1) = u
  BY <1>2, <1>4, <1>b, DropByte
<1> QED
  BY <1>1, <1>5, <1>6, <1>a, Zenon

(* ... and try_parse_frame skips a byte of what was before it.             *)
LEMMA HoldsDropped ==
  ASSUME NEW d, NEW a, NEW b, NEW rest, NEW v, Holds(d, a, b, rest, v), a # <<>>,
         Tail(a) \in Seq(Byte)
  PROVE  Holds(Mai2!Rest(d, 1), Tail(a), b, rest, v)
<1>1. a \in Seq(Byte) /\ b \in Seq(Byte) /\ rest \in Seq(Byte)
  BY DEF Holds
<1>2. d = a \o b /\ b \o rest = v
  BY DEF Holds
<1>3. Mai2!Rest(d, 1) = Tail(a) \o b
  BY <1>1, <1>2, DropFirst, Zenon
<1> QED
  BY <1>1, <1>2, <1>3 DEF Holds

(* A frame that began with the line quiet long enough: before it there is  *)
(* nothing in the buffer but the end of an earlier one, or it has been     *)
(* taken.                                                                  *)
Mai2Trusted ==
    /\ sent \in Messages("mai2") /\ last = sent /\ quiet = 259
    /\ \/ /\ got = <<>>
          /\ \E a, b : Leftover(a) /\ Holds(decoder, a, b, line, Mai2!Wire(sent))
       \/ Mai2Taken

(* Before that: the board has sent nothing yet, or it repeats a frame.     *)
Mai2Untrusted ==
    \/ /\ last = NoMessage /\ line = <<>>
       /\ quiet = 0 \/ (quiet = 259 /\ decoder = <<>>)
    \/ /\ last \in Messages("mai2") /\ quiet \in 0..259
       /\ \E u \in Seq(Byte) : u \o line = Mai2!Wire(last)
       /\ Repeats(decoder, Mai2!Wire(last), Len(line), quiet)

Mai2SyncInv ==
    codec = "mai2" =>
        /\ codec \in Codecs
        /\ \/ trusted /\ Mai2Trusted
           \/ ~trusted /\ Mai2Untrusted

(* The line is quiet at first.                                             *)
LEMMA Mai2SyncInit == Init => Mai2SyncInv
<1> SUFFICES ASSUME Init, codec = "mai2"
             PROVE  codec \in Codecs /\ ~trusted /\ Mai2Untrusted
  BY DEF Mai2SyncInv
<1>1. /\ codec \in Codecs /\ ~trusted
      /\ decoder = <<>> /\ line = <<>> /\ last = NoMessage /\ quiet = 259
  BY DEF Init, Fresh, Mai2!Idle, Swallow
<1> QED
  BY <1>1 DEF Mai2Untrusted

(* When try_parse_frame waits and the line is empty, a frame that began    *)
(* with the line quiet has been taken.                                     *)
LEMMA Mai2TrustedTaken ==
  ASSUME NoFalseHeaders, codec = "mai2", ~Pending, line = <<>>, Mai2Trusted
  PROVE  Mai2Taken
<1> SUFFICES ASSUME NEW a, NEW b, Leftover(a),
                    Holds(decoder, a, b, line, Mai2!Wire(sent))
             PROVE  FALSE
  BY DEF Mai2Trusted
<1>1. sent \in Messages("mai2") /\ Mai2!Incomplete(decoder)
  BY DEF Mai2Trusted, Pending
<1>2. CASE a # <<>>
  <2>1. ~Mai2!Incomplete(decoder)
    BY <1>1, <1>2, LeftoverSkipped
  <2> QED
    BY <1>1, <2>1
<1>3. CASE a = <<>>
  <2>1. b \in Seq(Byte) /\ decoder = <<>> \o b /\ b \o <<>> = Mai2!Wire(sent)
    BY <1>3 DEF Holds
  <2>2. decoder = Mai2!Wire(sent)
    BY <2>1
  <2>3. ~Mai2!Incomplete(decoder)
    BY <1>1, <2>2, WholeParsed
  <2> QED
    BY <1>1, <2>3
<1> QED
  BY <1>2, <1>3

(* No message is the absence of one.                                       *)
LEMMA NoMessageIsNone ==
  ASSUME codec = "mai2", Mai2SyncInv PROVE NoMessage \notin Messages("mai2")
<1>1. codec \in Codecs
  BY DEF Mai2SyncInv
<1> QED
  BY <1>1, MessagesAssumption

(* What is in the buffer when a frame begins with the line quiet.          *)
LEMMA Mai2QuietLeftover ==
  ASSUME NoFalseHeaders, Mai2Inv, Mai2SyncInv, codec = "mai2",
         ~Pending, line = <<>>, quiet = 259
  PROVE  decoder \in Seq(Byte) /\ Leftover(decoder)
<1>1. decoder \in Seq(Byte) /\ Mai2!Incomplete(decoder)
  BY DEF Mai2Inv, Pending
<1>2. CASE Mai2Trusted
  <2>1. decoder = <<>>
    BY <1>2, Mai2TrustedTaken DEF Mai2Taken
  <2> QED
    BY <1>1, <2>1 DEF Leftover
<1>3. CASE last = NoMessage /\ Mai2Untrusted
  <2>1. last \notin Messages("mai2")
    BY <1>3, NoMessageIsNone
  <2>2. decoder = <<>>
    BY <1>3, <2>1 DEF Mai2Untrusted
  <2> QED
    BY <1>1, <2>2 DEF Leftover
<1>4. CASE last # NoMessage /\ Mai2Untrusted
  <2>1. /\ last \in Messages("mai2")
        /\ Repeats(decoder, Mai2!Wire(last), Len(line), 259)
    BY <1>4 DEF Mai2Untrusted
  <2>2. Len(line) = 0
    OBVIOUS
  <2>3. Repeats(decoder, Mai2!Wire(last), 0, 259)
    BY <2>1, <2>2
  <2> QED
    BY <1>1, <2>1, <2>3, RepeatsLeftover
<1> QED
  BY <1>2, <1>3, <1>4 DEF Mai2SyncInv

(* A frame begins: the same one again, or any one when the line has been   *)
(* quiet long enough or nothing is known of it.                            *)
LEMMA Mai2SyncSend ==
  ASSUME NoFalseHeaders, Mai2Inv, Mai2SyncInv, codec = "mai2", Send
  PROVE  (trusted /\ Mai2Trusted)' \/ (~trusted /\ Mai2Untrusted)'
<1>1. ~Pending /\ line = <<>> /\ quiet' = quiet /\ decoder' = decoder
  BY DEF Send
<1>2. trusted' = (quiet = 259) /\ got' = <<>>
  BY DEF Send, Swallow
<1>3. PICK m \in Messages("mai2") : /\ quiet \in {0, 259} \/ m = last
                                    /\ sent' = m /\ last' = m /\ line' = Mai2!Wire(m)
  BY DEF Send, Swallow, Wire
<1>4. PICK w : w = Mai2!Wire(m)
  OBVIOUS
<1>5. w \in Seq(Byte)
  BY <1>4, Mai2WireType
<1>6. decoder \in Seq(Byte)
  BY DEF Mai2Inv
<1>7. CASE quiet = 259
  <2>1. Leftover(decoder)
    BY <1>1, <1>7, Mai2QuietLeftover
  <2>2. Holds(decoder, decoder, <<>>, w, w)
    BY <1>5, <1>6, HoldsAnew
  <2>3. Leftover(decoder) /\ Holds(decoder', decoder, <<>>, line', Mai2!Wire(sent'))
    BY <1>1, <1>3, <1>4, <2>1, <2>2
  <2>4. \E a, b : Leftover(a) /\ Holds(decoder', a, b, line', Mai2!Wire(sent'))
    BY <2>3
  <2>5. Mai2Trusted'
    BY <1>1, <1>2, <1>3, <1>7, <2>4 DEF Mai2Trusted
  <2> QED
    BY <1>2, <1>7, <2>5
<1>8. CASE quiet # 259
  <2>1. ~trusted' /\ Mai2Untrusted
    BY <1>2, <1>8 DEF Mai2SyncInv, Mai2Trusted
  <2>2. last' = m /\ line' = w
    BY <1>3, <1>4
  <2>3. Repeats(decoder, w, Len(w), quiet) /\ quiet \in 0..259
    <3>1. CASE quiet = 0
      <4>1. Len(w) \in Nat
        BY <1>5
      <4> QED
        BY <1>5, <1>6, <3>1, <4>1, RepeatsUnknown
    <3>2. CASE quiet # 0
      <4>1. m = last /\ last # NoMessage
        BY <1>3, <1>8, <3>2, NoMessageIsNone
      <4>2. quiet \in 0..259 /\ Repeats(decoder, w, Len(line), quiet)
        BY <1>4, <2>1, <4>1 DEF Mai2Untrusted
      <4>3. Len(line) = 0
        BY <1>1
      <4>4. Repeats(decoder, w, 0, quiet)
        BY <4>2, <4>3
      <4> QED
        BY <1>5, <4>2, <4>4, RepeatsAnew
    <3> QED
      BY <3>1, <3>2
  <2>4. \E u \in Seq(Byte) : u \o w = w
    <3>1. <<>> \in Seq(Byte) /\ <<>> \o w = w
      BY <1>5
    <3> QED
      BY <3>1
  <2>5. Mai2Untrusted'
    BY <1>1, <1>3, <1>4, <2>2, <2>3, <2>4 DEF Mai2Untrusted
  <2> QED
    BY <2>1, <2>5
<1> QED
  BY <1>7, <1>8

(* A byte of the board comes in.                                           *)
LEMMA Mai2Delivered ==
  ASSUME Mai2Inv, codec = "mai2", Deliver
  PROVE  /\ line \in Seq(Byte) /\ line # <<>>
         /\ decoder \in Seq(Byte) /\ Len(decoder) <= 258
         /\ Head(line) \in Byte /\ Tail(line) \in Seq(Byte)
         /\ decoder' = Append(decoder, Head(line)) /\ line' = Tail(line)
         /\ got' = got \o <<>>
         /\ quiet' = IF quiet < 259 THEN quiet + 1 ELSE 259
<1>1. ~Pending /\ line # <<>> /\ line \in Seq(Byte) /\ decoder \in Seq(Byte)
  BY DEF Deliver, Mai2Inv
<1>2. Len(decoder) <= 258
  BY <1>1, IncompleteIsShort DEF Pending
<1>3. Head(line) \in Byte /\ Tail(line) \in Seq(Byte)
  BY <1>1, NonEmpty
<1>4. Symbol = Head(line) /\ Behind = Tail(line)
  BY <1>1, PlainSymbols
<1>5. PICK x : x = Head(line)
  OBVIOUS
<1>6. Push(x) = [state |-> Append(decoder, x), out |-> <<>>]
  <2>1. ~(Len(decoder) >= RxLen)
    BY <1>1, <1>2, SizesAssumption
  <2>2. Mai2!Push(decoder, x) = [state |-> Append(decoder, x), out |-> <<>>]
    BY <2>1 DEF Mai2!Push
  <2> QED
    BY <2>2 DEF Push
<1>7. decoder' = Append(decoder, x) /\ got' = got \o <<>> /\ line' = Tail(line)
  <2> PICK step : step = Push(Symbol)
    OBVIOUS
  <2>1. decoder' = step.state /\ got' = got \o step.out /\ line' = Behind
    BY DEF Deliver
  <2>2. step = [state |-> Append(decoder, x), out |-> <<>>]
    BY <1>4, <1>5, <1>6, Zenon
  <2>3. step.state = Append(decoder, x) /\ step.out = <<>>
    BY <2>2
  <2> QED
    BY <1>4, <2>1, <2>3, Zenon
<1>8. quiet' = IF quiet < 259 THEN quiet + 1 ELSE 259
  BY DEF Deliver, Swallow
<1> QED
  BY <1>1, <1>2, <1>3, <1>5, <1>7, <1>8, Zenon

(* What is to come of a frame is its end.                                  *)
LEMMA NextByte ==
  ASSUME NEW w \in Seq(Byte), NEW u \in Seq(Byte), NEW s \in Seq(Byte), u \o s = w, s # <<>>
  PROVE  /\ Len(s) \in 1..Len(w) /\ Len(Tail(s)) = Len(s) - 1
         /\ Head(s) = w[Len(w) - Len(s) + 1]
         /\ Append(u, Head(s)) \in Seq(Byte) /\ Append(u, Head(s)) \o Tail(s) = w
<1>1. /\ Head(s) \in Byte /\ Tail(s) \in Seq(Byte) /\ s = <<Head(s)>> \o Tail(s)
      /\ Len(s) >= 1 /\ Len(Tail(s)) = Len(s) - 1
  BY NonEmpty
<1>2. /\ Append(u, Head(s)) \in Seq(Byte)
      /\ Append(u, Head(s)) \o Tail(s) = u \o (<<Head(s)>> \o Tail(s))
  BY <1>1, MoveByte
<1>3. Append(u, Head(s)) \o Tail(s) = w
  BY <1>1, <1>2, Zenon
<1>4. Len(w) = Len(u) + Len(s) /\ \A x \in 1..Len(s) : w[x + Len(u)] = s[x]
  BY JoinElements
<1>5. Len(s) \in Nat /\ Len(u) \in Nat
  OBVIOUS
<1>6. Len(s) \in 1..Len(w) /\ Len(w) - Len(s) + 1 = 1 + Len(u)
  BY <1>1, <1>4, <1>5
<1>7. w[1 + Len(u)] = s[1] /\ s[1] = Head(s)
  BY <1>1, <1>4, <1>5
<1> QED
  BY <1>1, <1>2, <1>3, <1>6, <1>7

(* A byte comes in, of a frame that is to be found or of one that the      *)
(* board repeats.                                                          *)
LEMMA Mai2SyncDeliver ==
  ASSUME Mai2Inv, Mai2SyncInv, codec = "mai2", Deliver
  PROVE  (trusted /\ Mai2Trusted)' \/ (~trusted /\ Mai2Untrusted)'
<1>1. UNCHANGED <<codec, sent, last, noise, trusted>>
  BY DEF Deliver
<1>2. PICK x, rest : x = Head(line) /\ rest = Tail(line)
  OBVIOUS
<1>3. /\ line \in Seq(Byte) /\ line # <<>>
      /\ decoder \in Seq(Byte) /\ Len(decoder) <= 258
      /\ x \in Byte /\ rest \in Seq(Byte)
      /\ decoder' = Append(decoder, x) /\ line' = rest
      /\ got' = got \o <<>>
      /\ quiet' = IF quiet < 259 THEN quiet + 1 ELSE 259
  BY <1>2, Mai2Delivered
<1>4. CASE trusted /\ Mai2Trusted
  <2>1. /\ sent \in Messages("mai2") /\ last = sent /\ quiet = 259
        /\ got = <<>>
        /\ \E a, b : Leftover(a) /\ Holds(decoder, a, b, line, Mai2!Wire(sent))
    BY <1>3, <1>4 DEF Mai2Trusted, Mai2Taken
  <2>2. PICK a, b : Leftover(a) /\ Holds(decoder, a, b, line, Mai2!Wire(sent))
    BY <2>1
  <2>3. Holds(Append(decoder, x), a, Append(b, x), rest, Mai2!Wire(sent))
    BY <1>2, <1>3, <2>2, HoldsByte
  <2>4. Holds(decoder', a, Append(b, x), line', Mai2!Wire(sent'))
    BY <1>1, <1>3, <2>3
  <2>5. \E c, d : Leftover(c) /\ Holds(decoder', c, d, line', Mai2!Wire(sent'))
    BY <2>2, <2>4
  <2>6. got' = <<>> /\ quiet' = 259
    BY <1>3, <2>1
  <2>7. Mai2Trusted'
    BY <1>1, <2>1, <2>5, <2>6 DEF Mai2Trusted
  <2> QED
    BY <1>1, <1>4, <2>7
<1>5. CASE ~trusted /\ Mai2Untrusted
  <2>1. /\ last \in Messages("mai2") /\ quiet \in 0..259
        /\ \E u \in Seq(Byte) : u \o line = Mai2!Wire(last)
        /\ Repeats(decoder, Mai2!Wire(last), Len(line), quiet)
    BY <1>3, <1>5 DEF Mai2Untrusted
  <2>2. PICK w : w = Mai2!Wire(last)
    OBVIOUS
  <2>3. w \in Seq(Byte)
    BY <2>1, <2>2, Mai2WireType
  <2>4. PICK u \in Seq(Byte) : u \o line = w
    BY <2>1, <2>2
  <2>5. /\ Len(line) \in 1..Len(w) /\ Len(rest) = Len(line) - 1
        /\ x = w[Len(w) - Len(line) + 1]
        /\ Append(u, x) \in Seq(Byte) /\ Append(u, x) \o rest = w
    BY <1>2, <1>3, <2>3, <2>4, NextByte, SMTT(30)
  <2>6. PICK p : p = IF quiet < 259 THEN quiet + 1 ELSE 259
    OBVIOUS
  <2>7. p \in 0..259 /\ quiet' = p
    BY <1>3, <2>1, <2>6
  <2>8. Repeats(decoder, w, Len(line), quiet)
    BY <2>1, <2>2
  <2>9. Repeats(Append(decoder, w[Len(w) - Len(line) + 1]), w, Len(line) - 1, p)
    <3>1. decoder \in Seq(Byte) /\ Len(decoder) <= 258
      BY <1>3
    <3>2. Len(line) \in 1..Len(w)
      BY <2>5
    <3> QED
      BY <2>1, <2>3, <2>6, <2>8, <3>1, <3>2, RepeatsByte, Zenon
  <2>10. Repeats(decoder', Mai2!Wire(last'), Len(line'), quiet')
    BY <1>1, <1>3, <2>2, <2>5, <2>7, <2>9
  <2>11. \E t \in Seq(Byte) : t \o line' = Mai2!Wire(last')
    BY <1>1, <1>3, <2>2, <2>5
  <2>12. Mai2Untrusted'
    BY <1>1, <2>1, <2>7, <2>10, <2>11 DEF Mai2Untrusted
  <2> QED
    BY <1>1, <1>5, <2>12
<1> QED
  BY <1>4, <1>5 DEF Mai2SyncInv

(* try_parse_frame takes the frame off the buffer, or skips a byte of what *)
(* was there before.                                                       *)
LEMMA Mai2SyncDrain ==
  ASSUME NoFalseHeaders, Mai2Inv, Mai2SyncInv, codec = "mai2", Drain
  PROVE  (trusted /\ Mai2Trusted)' \/ (~trusted /\ Mai2Untrusted)'
<1>1. ~Mai2!Incomplete(decoder) /\ decoder \in Seq(Byte) /\ decoder # <<>>
  BY DEF Drain, Pending, Mai2Inv, Mai2!Incomplete
<1>2. UNCHANGED <<codec, line, sent, last, quiet, trusted>>
  BY DEF Drain
<1>3. PICK step : step = Mai2!Parse(decoder)
  OBVIOUS
<1>4. decoder' = step.state /\ got' = got \o step.out
  BY <1>3 DEF Drain
<1>5. CASE ~trusted /\ Mai2Untrusted
  <2>1. PICK n \in Nat : decoder' = Mai2!Rest(decoder, n)
    <3>1. Mai2!FrameLen(decoder) \in Nat
      BY <1>1, FrameLenType
    <3>2. CASE Mai2!FrameLen(decoder) > 0
      <4>1. step.state = Mai2!Rest(decoder, Mai2!FrameLen(decoder))
        BY <1>3, <3>2 DEF Mai2!Parse
      <4> QED
        BY <1>4, <3>1, <4>1
    <3>3. CASE ~(Mai2!FrameLen(decoder) > 0)
      <4>1. step.state = Mai2!Rest(decoder, 1)
        BY <1>3, <3>3 DEF Mai2!Parse
      <4> QED
        BY <1>4, <4>1
    <3> QED
      BY <3>2, <3>3
  <2>2. CASE last = NoMessage
    <3>1. line = <<>> /\ quiet = 0
      BY <1>1, <1>5, <2>2, NoMessageIsNone DEF Mai2Untrusted
    <3> QED
      BY <1>2, <1>5, <2>2, <3>1 DEF Mai2Untrusted
  <2>3. CASE last # NoMessage
    <3>1. /\ last \in Messages("mai2") /\ quiet \in 0..259
          /\ \E u \in Seq(Byte) : u \o line = Mai2!Wire(last)
          /\ Repeats(decoder, Mai2!Wire(last), Len(line), quiet)
      BY <1>5, <2>3 DEF Mai2Untrusted
    <3>2. Mai2!Wire(last) \in Seq(Byte) /\ Len(line) \in Nat /\ quiet \in Nat
      BY <3>1, Mai2WireType DEF Mai2Inv
    <3>3. Repeats(decoder', Mai2!Wire(last), Len(line), quiet)
      BY <1>1, <2>1, <3>1, <3>2, RepeatsDropped
    <3>4. Mai2Untrusted'
      BY <1>2, <3>1, <3>3 DEF Mai2Untrusted
    <3> QED
      BY <1>2, <1>5, <3>4
  <2> QED
    BY <2>2, <2>3
<1>6. CASE trusted /\ Mai2Trusted
  <2>1. /\ sent \in Messages("mai2") /\ last = sent /\ quiet = 259
        /\ got = <<>>
        /\ \E a, b : Leftover(a) /\ Holds(decoder, a, b, line, Mai2!Wire(sent))
    BY <1>1, <1>6 DEF Mai2Trusted, Mai2Taken
  <2>2. PICK a, b : Leftover(a) /\ Holds(decoder, a, b, line, Mai2!Wire(sent))
    BY <2>1
  <2>3. CASE a = <<>>
    <3>1. /\ b \in Seq(Byte) /\ line \in Seq(Byte)
          /\ decoder = <<>> \o b /\ b \o line = Mai2!Wire(sent)
      BY <2>2, <2>3 DEF Holds
    <3>2. decoder = b
      BY <3>1
    <3>3. line = <<>>
      BY <1>1, <2>1, <3>1, <3>2, LongerIncomplete
    <3>4. decoder = Mai2!Wire(sent)
      <4>1. b \o <<>> = b
        BY <3>1
      <4> QED
        BY <3>1, <3>2, <3>3, <4>1, Zenon
    <3>5. step = [state |-> <<>>, out |-> Mai2!Expected(sent)]
      BY <1>3, <2>1, <3>4, WholeParsed
    <3>6. decoder' = <<>> /\ got' = got \o Mai2!Expected(sent)
      BY <1>4, <3>5
    <3>7. got' = Mai2!Expected(sent)
      <4>1. \E y : Mai2!Expected(sent) = <<y>>
        BY DEF Mai2!Expected
      <4> QED
        BY <2>1, <3>6, <4>1
    <3>8. Mai2Taken'
      BY <1>2, <3>3, <3>6, <3>7 DEF Mai2Taken
    <3>9. Mai2Trusted'
      BY <1>2, <2>1, <3>8 DEF Mai2Trusted
    <3> QED
      BY <1>2, <1>6, <3>9
  <2>4. CASE a # <<>>
    <3>1. Mai2!FrameLen(decoder) = 0
      BY <1>1, <2>1, <2>2, <2>4, LeftoverSkipped
    <3>2. step = [state |-> Mai2!Rest(decoder, 1), out |-> <<>>]
      BY <1>3, <3>1 DEF Mai2!Parse
    <3>3. decoder' = Mai2!Rest(decoder, 1) /\ got' = <<>>
      <4>1. step.state = Mai2!Rest(decoder, 1) /\ step.out = <<>>
        BY <3>2
      <4> QED
        BY <1>4, <2>1, <4>1
    <3>4. Tail(a) \in Seq(Byte) /\ Leftover(Tail(a))
      BY <2>2, <2>4, LeftoverTail
    <3>5. Holds(decoder', Tail(a), b, line', Mai2!Wire(sent'))
      BY <1>2, <2>2, <2>4, <3>3, <3>4, HoldsDropped
    <3>6. \E c, d : Leftover(c) /\ Holds(decoder', c, d, line', Mai2!Wire(sent'))
      BY <3>4, <3>5
    <3>7. Mai2Trusted'
      BY <1>2, <2>1, <3>3, <3>6 DEF Mai2Trusted
    <3> QED
      BY <1>2, <1>6, <3>7
  <2> QED
    BY <2>3, <2>4
<1> QED
  BY <1>5, <1>6 DEF Mai2SyncInv

(* Noise, and frames that break: all that is known is which frame the      *)
(* board repeats.                                                          *)
LEMMA Mai2SyncDisturbed ==
  ASSUME Mai2Inv, Mai2Inv', Mai2SyncInv, codec = "mai2", codec' = "mai2",
         Noise \/ Lose \/ Cut
  PROVE  (~trusted /\ Mai2Untrusted)'
<1>1. last' = last /\ quiet' = 0 /\ ~trusted'
  BY DEF Noise, Lose, Cut, Disturbed
<1>2. line \in Seq(Byte) /\ line' \in Seq(Byte) /\ decoder' \in Seq(Byte)
  BY DEF Mai2Inv
<1>3. CASE last = NoMessage
  <2>1. last \notin Messages("mai2")
    BY <1>3, NoMessageIsNone
  <2>2. line = <<>>
    BY <2>1 DEF Mai2SyncInv, Mai2Trusted, Mai2Untrusted
  <2>3. line' = <<>>
    BY <2>2 DEF Noise, Lose, Cut, Breakable
  <2> QED
    BY <1>1, <1>3, <2>3 DEF Mai2Untrusted
<1>4. CASE last # NoMessage
  <2>1. last \in Messages("mai2")
    BY <1>4 DEF Mai2SyncInv, Mai2Trusted, Mai2Untrusted
  <2>2. PICK w : w = Mai2!Wire(last)
    OBVIOUS
  <2>3. w \in Seq(Byte)
    BY <2>1, <2>2, Mai2WireType
  <2>4. \E u \in Seq(Byte) : u \o line' = w
    <3>1. CASE line' = <<>>
      <4>1. w \o <<>> = w
        BY <2>3
      <4> QED
        BY <2>3, <3>1, <4>1
    <3>2. CASE line' # <<>>
      <4>1. line # <<>> /\ line' = Behind /\ Behind = Tail(line)
        <5>1. line # <<>> /\ line' = Behind
          BY <3>2 DEF Noise, Lose, Cut, Breakable
        <5> QED
          BY <5>1, PlainSymbols
      <4>2. PICK u \in Seq(Byte) : u \o line = w
        <5>1. CASE Mai2Trusted
          <6>1. PICK a, b : Holds(decoder, a, b, line, Mai2!Wire(sent))
            BY <4>1, <5>1 DEF Mai2Trusted, Mai2Taken
          <6>2. b \in Seq(Byte) /\ b \o line = w
            BY <2>2, <5>1, <6>1 DEF Holds, Mai2Trusted
          <6> QED
            BY <6>2
        <5>2. CASE Mai2Untrusted
          BY <1>4, <2>2, <5>2 DEF Mai2Untrusted
        <5> QED
          BY <5>1, <5>2 DEF Mai2SyncInv
      <4>3. /\ Append(u, Head(line)) \in Seq(Byte)
            /\ Append(u, Head(line)) \o Tail(line) = w
        BY <1>2, <2>3, <4>1, <4>2, NextByte
      <4> QED
        BY <4>1, <4>3
    <3> QED
      BY <3>1, <3>2
  <2>5. Repeats(decoder', w, Len(line'), 0)
    <3>1. Len(line') \in Nat
      BY <1>2
    <3> QED
      BY <1>2, <2>3, <3>1, RepeatsUnknown
  <2>6. Mai2Untrusted'
    BY <1>1, <2>1, <2>2, <2>4, <2>5 DEF Mai2Untrusted
  <2> QED
    BY <1>1, <2>6
<1> QED
  BY <1>3, <1>4

(* Each step of the line and of try_parse_frame.                           *)
LEMMA Mai2SyncStep ==
  ASSUME NoFalseHeaders, Mai2Inv, Mai2Inv', Mai2SyncInv, [Next]_vars
  PROVE  Mai2SyncInv'
<1> SUFFICES ASSUME codec' = "mai2"
             PROVE  Mai2SyncInv'
  BY DEF Mai2SyncInv
<1>1. codec = "mai2" /\ codec \in Codecs /\ codec' \in Codecs
  <2>1. codec' = codec
    BY DEF Next, Send, Deliver, Drain, Noise, Lose, Cut, vars
  <2> QED
    BY <2>1 DEF Mai2SyncInv
<1>2. CASE Send
  BY <1>1, <1>2, Mai2SyncSend DEF Mai2SyncInv
<1>3. CASE Deliver
  BY <1>1, <1>3, Mai2SyncDeliver DEF Mai2SyncInv
<1>4. CASE Drain
  BY <1>1, <1>4, Mai2SyncDrain DEF Mai2SyncInv
<1>5. CASE Noise \/ Lose \/ Cut
  BY <1>1, <1>5, Mai2SyncDisturbed DEF Mai2SyncInv
<1>6. CASE UNCHANGED vars
  BY <1>6 DEF Mai2SyncInv, Mai2Trusted, Mai2Untrusted, Mai2Taken, vars
<1> QED
  BY <1>2, <1>3, <1>4, <1>5, <1>6 DEF Next

(* After noise, and 259 bytes in which the board repeats a frame,          *)
(* try_parse_frame finds every frame of the mai2 board, once and as it was *)
(* sent, as long as no byte inside its frames is taken for the header of   *)
(* one.                                                                    *)
THEOREM Mai2FramesFound ==
  ASSUME NoFalseHeaders PROVE Spec => []Mai2Resyncs
<1>1. Init => Mai2Inv /\ Mai2SyncInv
  BY Mai2InvInit, Mai2SyncInit
<1>2. (Mai2Inv /\ Mai2SyncInv) /\ [Next]_vars => (Mai2Inv /\ Mai2SyncInv)'
  BY Mai2InvStep, Mai2SyncStep
<1>3. Mai2SyncInv => Mai2Resyncs
  <2> SUFFICES ASSUME Mai2SyncInv, Whole("mai2")
               PROVE  got = Mai2!Expected(sent)
    BY DEF Mai2Resyncs
  <2>1. codec = "mai2" /\ ~Pending /\ line = <<>> /\ Mai2Trusted
    BY DEF Whole, Mai2SyncInv
  <2> QED
    BY <2>1, Mai2TrustedTaken DEF Mai2Taken
<1> QED
  BY <1>1, <1>2, <1>3, PTL DEF Spec
=============================================================================
