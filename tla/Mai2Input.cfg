SPECIFICATION Spec
CONSTANTS
    Interfaces = {"hid", "vendor", "touch_hid", "serial"}
    ButtonVals = {nobtn, btn}
    NoButtons = nobtn
    TouchVals = {notouch, touch}
    NoTouch = notouch
    None = none
    MaxFrames = 1
INVARIANTS
    TypeOK
    NoHeldInputWithoutSource
    HeldFieldHasFeeder
