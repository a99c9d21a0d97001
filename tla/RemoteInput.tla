----------------------------- MODULE RemoteInput -----------------------------
(***************************************************************************)
(* internal/remoteinput: a player link becomes a file of the package       *)
(* library.  Callers of one process take turns on the digest they want;    *)
(* processes do not know of each other.  The names of a link, its parsing  *)
(* and the transport are left out: a link is the digest it pins and the    *)
(* file it is kept in, and the network answers anything.                   *)
(***************************************************************************)
EXTENDS Naturals, FiniteSets

CONSTANTS
    Packages,     \* files of the library
    Digest,       \* Digest[p]: the SHA-256 a package must have
    Callers,      \* goroutines that resolve links
    ProcessOf,    \* the process of each caller
    ReadsFail,    \* whether an existing file may fail to be read
    MaxCrashes,   \* bound: how often a process dies
    MaxDamages,   \* bound: how often a file is damaged or deleted from outside
    Nothing

VARIABLES
    library,      \* the file of each package: "missing", "corrupt" or "good"
    parts,        \* calls that own a .part file in the library
    at,           \* next step of each caller
    wants,        \* the package each caller resolves
    given,        \* history: packages a call has returned, not damaged since
    crashes, damages

vars == <<library, parts, at, wants, given, crashes, damages>>
counts == <<crashes, damages>>

ASSUME RemoteInputAssumption ==
    /\ ReadsFail \in BOOLEAN
    /\ MaxCrashes \in Nat /\ MaxDamages \in Nat
    /\ Nothing \notin Packages
    /\ IsFiniteSet(Callers)

Steps == {"idle", "lock", "match", "remove", "stage", "fetch", "activate",
          "discard"}
Locked == Steps \ {"idle", "lock"}

\* digestLocks: one mutex for each digest in each process.
Holds(c, d) == at[c] \in Locked /\ Digest[wants[c]] = d
LockFree(c) ==
    \A other \in Callers :
        ProcessOf[other] = ProcessOf[c] => ~Holds(other, Digest[wants[c]])

Init ==
    /\ library \in [Packages -> {"missing", "corrupt", "good"}]
    /\ parts = {}
    /\ at = [c \in Callers |-> "idle"]
    /\ wants = [c \in Callers |-> Nothing]
    /\ given = {}
    /\ crashes = 0
    /\ damages = 0

Goto(c, step) == at' = [at EXCEPT ![c] = step]

\* Faulty: the next call of this goroutine finds the wish of this one.
FailKeepsWish(c) ==
    /\ Goto(c, "idle")
    /\ parts' = parts \ {c}
    /\ UNCHANGED wants

\* The call ends without a file; the staging file goes with it.
Fail(c) ==
    /\ Goto(c, "idle")
    /\ wants' = [wants EXCEPT ![c] = Nothing]
    /\ parts' = parts \ {c}

\* The call returns the path of its package.
Return(c) ==
    /\ Fail(c)
    /\ given' = given \union {wants[c]}

-----------------------------------------------------------------------------

Resolve(c, p) ==
    /\ at[c] = "idle"
    /\ wants' = [wants EXCEPT ![c] = p]
    /\ Goto(c, "lock")
    /\ UNCHANGED <<library, parts, given, counts>>

\* Faulty: only calls for the same file wait for each other.
LockPerCall(c) ==
    /\ at[c] = "lock"
    /\ Goto(c, "match")
    /\ UNCHANGED <<library, parts, wants, given, counts>>

Lock(c) ==
    /\ at[c] = "lock"
    /\ LockFree(c)
    /\ Goto(c, "match")
    /\ UNCHANGED <<library, parts, wants, given, counts>>

\* matchesDigest; a file it cannot read does not match either.
Match(c) ==
    /\ at[c] = "match"
    /\ \/ library[wants[c]] = "good" /\ Return(c)
       \/ /\ library[wants[c]] # "good" \/ ReadsFail
          /\ Goto(c, "remove") /\ UNCHANGED <<wants, parts, given>>
    /\ UNCHANGED <<library, counts>>

\* The corrupt package goes before its replacement is there.
Remove(c) ==
    /\ at[c] = "remove"
    /\ \/ /\ library' = [library EXCEPT ![wants[c]] = "missing"]
          /\ Goto(c, "stage")
          /\ UNCHANGED <<parts, wants>>
       \/ Fail(c) /\ UNCHANGED library
    /\ UNCHANGED <<given, counts>>

Stage(c) ==
    /\ at[c] = "stage"
    /\ \/ /\ parts' = parts \union {c}
          /\ Goto(c, "fetch")
          /\ UNCHANGED wants
       \/ Fail(c)
    /\ UNCHANGED <<library, given, counts>>

\* The whole body came, with the right digest; or the call fails: no answer
\* within the timeout, an error, too large, or another content.
Fetch(c) ==
    /\ at[c] = "fetch"
    /\ \/ Goto(c, "activate") /\ UNCHANGED <<parts, wants>>
       \/ Goto(c, "discard") /\ UNCHANGED <<parts, wants>>
    /\ UNCHANGED <<library, given, counts>>

\* The rename, after which the deferred close and unlock follow.
Activate(c) ==
    /\ at[c] = "activate"
    /\ \/ library' = [library EXCEPT ![wants[c]] = "good"] /\ Return(c)
       \/ Goto(c, "discard") /\ UNCHANGED <<library, wants, parts, given>>
    /\ UNCHANGED <<counts>>

\* Faulty: a failed download is kept beside the packages.
DiscardKeepsPart(c) ==
    /\ at[c] = "discard"
    /\ Goto(c, "idle")
    /\ wants' = [wants EXCEPT ![c] = Nothing]
    /\ UNCHANGED <<library, parts, given, counts>>

\* Faulty: an early return that forgets the mutex.
DiscardHoldsLock(c) ==
    /\ at[c] = "discard"
    /\ parts' = parts \ {c}
    /\ UNCHANGED <<library, at, wants, given, counts>>

\* The deferred removal of the staging file, before the lock is released.
Discard(c) ==
    /\ at[c] = "discard"
    /\ Fail(c)
    /\ UNCHANGED <<library, given, counts>>

\* The operating system ends a process: its calls are gone.  Their staging files
\* stay, under names nobody uses again.
Crash(process) ==
    LET dead == {c \in Callers : ProcessOf[c] = process}
    IN  /\ crashes < MaxCrashes
        /\ crashes' = crashes + 1
        /\ at' = [c \in Callers |-> IF c \in dead THEN "idle" ELSE at[c]]
        /\ wants' = [c \in Callers |-> IF c \in dead THEN Nothing ELSE wants[c]]
        /\ parts' = parts \ dead
        /\ UNCHANGED <<library, given, damages>>

\* A user, a full disk or a cleaner damages a file of the library.
Damage(p) ==
    /\ damages < MaxDamages
    /\ damages' = damages + 1
    /\ library' \in {[library EXCEPT ![p] = "missing"],
                     [library EXCEPT ![p] = "corrupt"]}
    /\ given' = given \ {p}
    /\ UNCHANGED <<parts, at, wants, crashes>>

Download(c) ==
    \/ Match(c)
    \/ Remove(c)
    \/ Stage(c)
    \/ Fetch(c)
    \/ Activate(c)
    \/ Discard(c)

Next ==
    \/ \E c \in Callers :
         \/ \E p \in Packages : Resolve(c, p)
         \/ Lock(c)
         \/ Download(c)
    \/ \E c \in Callers : Crash(ProcessOf[c])
    \/ \E p \in Packages : Damage(p)

Spec == Init /\ [][Next]_vars

\* Every step of a call ends, a download by its timeout; a Go mutex in
\* starvation mode is handed to the call that has waited longest.
FairSpec ==
    /\ Spec
    /\ \A c \in Callers : WF_vars(Download(c)) /\ SF_vars(Lock(c))

-----------------------------------------------------------------------------

\* Types of the variables, and who owns a staging file.
TypeOK ==
    /\ library \in [Packages -> {"missing", "corrupt", "good"}]
    /\ parts \subseteq Callers
    /\ at \in [Callers -> Steps]
    /\ wants \in [Callers -> Packages \union {Nothing}]
    /\ \A c \in Callers : at[c] = "idle" <=> wants[c] = Nothing
    /\ given \subseteq Packages
    /\ crashes \in 0 .. MaxCrashes
    /\ damages \in 0 .. MaxDamages

\* "persistent, backend-readable package files" (remoteinput.go:1-2): a package
\* that was returned stays whole, whatever links are resolved after or beside
\* it, whatever fails, and whoever dies.
PackagesPersist == \A p \in given : library[p] = "good"

\* A staging file belongs to a call that is about to fill, activate or discard
\* it: none is left behind by a call that ended, whichever step failed.
StagingIsOwned ==
    \A c \in Callers : c \in parts => at[c] \in {"fetch", "activate", "discard"}

\* Whoever waits for a link gets an answer, also behind other downloads of the
\* same digest.
Answered == \A c \in Callers : at[c] = "lock" ~> at[c] = "idle"
=============================================================================
