SPECIFICATION TouchSpec
CONSTANTS
    Interfaces = {"touch_hid", "serial"}
    ButtonVals = {nobtn}
    NoButtons = nobtn
    TouchVals = {notouch, touch}
    NoTouch = notouch
    None = none
    MaxFrames = 1
PROPERTIES
    DisconnectTerminates
    UnplugReleasesTouch
    HeldTouchDelivered
