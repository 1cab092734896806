SPECIFICATION Spec
CONSTANTS
    Codecs = {"slider", "aime", "mai2", "touch_hid"}
    SliderBuf = 128
    RxLen = 512
    SeqMod = 4
    Messages <- MCMessages
    Garbage <- MCGarbage
    MaxNoise = 2
    NoMessage = nomessage
INVARIANTS
    SliderResyncs
    AimeResyncs
    Mai2Resyncs
    RxBufferSuffices
    TouchHidOnce
