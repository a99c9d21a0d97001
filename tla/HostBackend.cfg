\* A title and two phones; a CPU each adapter refuses and a font only one uses.
SPECIFICATION RouterSpec
CONSTANTS
    Inputs = {title, phone, tablet}
    Firmware = {phone, tablet}
    Kinds = {"cpu", "font"}
    Values = {jit, precise}
    Rejects <- OwnCPUs
    NoInput = NoInput
    Unset = Unset
    jit = jit
    precise = precise
INVARIANTS
    RouterConsistent
    SettingsFollow
