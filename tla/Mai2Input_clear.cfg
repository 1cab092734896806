SPECIFICATION Spec
CONSTANTS
    Interfaces = {"hid", "serial"}
    ButtonVals = {nobtn, btn}
    NoButtons = nobtn
    TouchVals = {notouch, touch}
    NoTouch = notouch
    None = none
    MaxFrames = 1
PROPERTY
    ClearSparesLiveSource
