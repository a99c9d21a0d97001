\* Two games, guests that write once in all, one save state, two pads.
SPECIFICATION PlaySpec
CONSTANTS
    Games = {g1, g2}
    MaxWrites = 1
    NoMachine = NoMachine
    NoGame = NoGame
    Empty = Empty
    Unreadable = Unreadable
    Pads <- TwoPads
SYMMETRY Symmetry
INVARIANTS
    RunsWhatWasLoaded
    SavesStayWithTheirGame
    PadIsHeld
PROPERTIES
    HandOver
    SessionSpec
