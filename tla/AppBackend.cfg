\* One backend, two ordinary titles, one save-state slot, guests that write twice.
SPECIFICATION Spec
CONSTANTS
    Titles = {t1, t2}
    Diagnostic = {}
    Slots = {s1}
    MaxWrites = 2
    NoMachine = NoMachine
    Empty = Empty
SYMMETRY Symmetry
INVARIANTS
    TitleKeepsItsSaves
    RunIntent
    SelectionIsFresh
    SyncedReplies
    NoSilentRollback
PROPERTY
    HandOver
