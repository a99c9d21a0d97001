\* A shell that waits for each call: three opens of two titles, two cheats.
SPECIFICATION CheatSpec
CONSTANTS
    Titles = {t1, t2}
    Cheats = {c1, c2}
    DefaultOn = {c1}
    Requests = {panel}
    Opener = opener
    MaxOpens = 3
    NoTitle = NoTitle
    Overlap = FALSE
SYMMETRY Symmetry
INVARIANTS
    
    DefaultsBeforeOpenReturns
    
