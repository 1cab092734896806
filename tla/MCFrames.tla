------------------------------ MODULE MCFrames ------------------------------
(***************************************************************************)
(* Messages at the borders: payloads of every length that matters, made of *)
(* bytes around the ones each framing treats specially.                    *)
(***************************************************************************)
EXTENDS Frames

Same(n, byte) == [i \in 1..n |-> byte]

SliderMessages ==
    { [cmd |-> 1, payload |-> p] :
        p \in {<<>>, <<252, 253, 254, 255>>, <<255, 255>>, Same(SliderBuf - 4, 253),
               Same(SliderBuf - 3, 0)} }

AimeMessages ==
    { [seq |-> q, cmd |-> 224, payload |-> p] :
        q \in {207, 208},
        p \in {<<>>, <<207, 208, 223, 224, 225>>, Same(203, 0), Same(250, 224)} }
    \cup { [seq |-> 224, cmd |-> 66, status |-> s, payload |-> p] :
             s \in {0, 208}, p \in {<<>>, <<224, 208, 5>>} }

Mai2Messages ==
    { [kind |-> "touch", data |-> d] :
        d \in {Same(10, 0), <<15, 240, 63>> \o Same(7, 31), <<0, 0, 30>> \o Same(7, 0)} }
    \cup { [kind |-> "legacy", data |-> Same(7, 31)],
           [kind |-> "board", data |-> <<49, 46, 48>>] }

TouchHidMessages ==
    [seq : 0..(SeqMod - 1), bits : {<<{}, {33}>>, <<{0, 7}, {8, 33}>>}]

MCMessages(c) ==
    CASE c = "slider" -> SliderMessages
      [] c = "aime" -> AimeMessages
      [] c = "mai2" -> Mai2Messages
      [] c = "touch_hid" -> TouchHidMessages

MCGarbage(c) ==
    CASE c = "slider" -> {0, 1, 253, 255}
      [] c = "aime" -> {0, 2, 208, 224}
      [] c = "mai2" -> {0, 1, 40, 240, 255}
      [] c = "touch_hid" -> {TouchHid!BadReport}

(* Mai2FramesFound of FramesProofs is about messages like these.           *)
ASSUME MessagesAreFound == NoFalseHeaders
=============================================================================
