\* Two callers of one process, one content under two names, one death and one
\* damaged file.
SPECIFICATION FairSpec
CONSTANTS
    Packages = {p1, p2, p3}
    Digest <- Digests
    Callers = {c1, c2}
    ProcessOf <- OneProcess
    ReadsFail = FALSE
    MaxCrashes = 1
    MaxDamages = 1
    Nothing = Nothing
    c1 = c1
    c2 = c2
    p1 = p1
    p2 = p2
    p3 = p3
    shell = shell
INVARIANTS
    PackagesPersist
PROPERTIES
    Answered
