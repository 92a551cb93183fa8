SPECIFICATION Spec
CONSTANTS
    MaxIfaces = 2
    CodecResults = {"ok", "fail"}
    Keys = {"q", "l", "h", "r", "k", "j", "PageUp", "PageDown", "g", "G"}
    ChanCap = 4
INVARIANTS
    SelectionInList
    ReplyIsForRequest
PROPERTIES
    NoSilentChange
    RefreshEnds
CHECK_DEADLOCK FALSE
