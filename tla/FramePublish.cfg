\* A core that numbers its presentations, with opens and closes between two
\* polls, and one without numbers, with opens and closes at any point of a poll.
SPECIFICATION FrameFairSpec
\* Once every title of the bound is closed there is nothing to ask for.
CHECK_DEADLOCK FALSE
CONSTANTS
    Pictures = {blank, menu, scene}
    Blank = blank
    Straddle = FALSE
    MaxTitles = 3
    MaxDraws = 4
    None = None
INVARIANTS
    FrameConsistent
PROPERTIES
    LastPictureShown
