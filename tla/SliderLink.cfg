SPECIFICATION Spec
CONSTANTS
    Inputs = {noinput, touch}
    NoInput = noinput
    Beams = {nobeams, beam}
    NoBeams = nobeams
    None = none
    MaxLeds = 2
    MaxPackets = 2
INVARIANTS
    TypeOK
    ToldAgrees
    LedsAreShown
    StartedStreams
PROPERTIES
    UnplugReleases
    ScanStarts
    LedsReachSlider
