\* One backend, two firmware sets, guests that write three times.
SPECIFICATION Spec
CONSTANTS
    Firmwares = {f1, f2}
    MaxWrites = 3
    NoMachine = NoMachine
    Absent = Absent
    Unreadable = Unreadable
    Irregular = Irregular
    Unknown = Unknown
SYMMETRY Symmetry
INVARIANTS
    UnsavedIsWarned
    NoSilentRollback
PROPERTIES
    MediaPreserved
    HandOver
