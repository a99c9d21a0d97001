\* A minimum hold of several frames, so that clicks end before it.
SPECIFICATION FairSpec
CONSTANTS
    Sources = {"menu", "softLeft", "ok"}
    Keys = {"soft-left", "ok"}
    KeyOf <- MCKeyOf
    MinimumHold = 3
    FrameBudget = 2
INVARIANTS
    HeldKeysAreDown
    NoStuckKeys
PROPERTIES
    ClicksAreSeen
    PendingIsReleased
