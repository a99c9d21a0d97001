---------------------------- MODULE CheatCatalog ----------------------------
(***************************************************************************)
(* The cheat catalog of integration.Backend.  Open imports the catalog of  *)
(* the title it has published, and the Cheat Manager imports, refreshes    *)
(* and toggles it.  Only Open and Close hold operationMu; every other step *)
(* takes the state lock by itself, so a title can be replaced between any  *)
(* two steps of a Cheat Manager request that is waiting for the network.   *)
(*                                                                         *)
(* The engine, its library and the database are external.  Each open makes *)
(* a library of its own, numbered in order; a title's catalog publishes    *)
(* the same Cheats for every title.                                        *)
(***************************************************************************)
EXTENDS Naturals

CONSTANTS
    Titles,     \* image SHA-256 identities
    Cheats,     \* cheat ids of a catalog
    DefaultOn,  \* those a catalog declares default_enabled
    Requests,   \* Cheat Manager calls that may be in flight at once
    Opener,     \* the holder of operationMu inside Open
    MaxOpens,   \* bound: how many titles are opened
    NoTitle,
    Overlap     \* TRUE: requests run beside each other and beside an Open;
                \* FALSE: the caller waits for each call to return

ASSUME CheatCatalogAssumption ==
    /\ DefaultOn \subseteq Cheats
    /\ Opener \notin Requests
    /\ MaxOpens \in Nat
    /\ NoTitle \notin Titles
    /\ Overlap \in BOOLEAN

VARIABLES
    library,    \* each open's library: its title, has it a catalog, what is on
    current,    \* number of backend.cheats, 0 for nil
    opened,     \* how many libraries there have been
    imported,   \* cheatImported
    identity,   \* cheatIdentity
    choices,    \* choices/<identity>.json: <<title it was made for, on>>
    doubt,      \* history: cheats of the current library an apply or a
                \* recording has failed for
    pc,         \* each call's next step
    lib, refresh, ident, todo, doing, chosen, result  \* and its locals

backend == <<library, current, opened, imported, identity>>
locals == <<pc, lib, refresh, ident, todo, doing, chosen, result>>
cheatVars == <<backend, choices, doubt, locals>>

Procs == Requests \union {Opener}
Libraries == 1 .. MaxOpens
Unset == <<>>
Choices == {Unset} \union (Titles \X BOOLEAN)
Decisions == Cheats \X BOOLEAN
NoChoices == [c \in Cheats |-> Unset]

CheatInit ==
    /\ library = [n \in Libraries |->
                    [title |-> NoTitle, catalog |-> FALSE, on |-> {}]]
    /\ current = 0
    /\ opened = 0
    /\ imported = FALSE
    /\ identity = NoTitle
    /\ choices = [t \in Titles |-> NoChoices]
    /\ doubt = {}
    /\ pc = [p \in Procs |-> "idle"]
    /\ lib = [p \in Procs |-> 0]
    /\ refresh = [p \in Procs |-> FALSE]
    /\ ident = [p \in Procs |-> NoTitle]
    /\ todo = [p \in Procs |-> {}]
    /\ doing = [p \in Procs |-> {}]
    /\ chosen = [p \in Procs |-> NoChoices]
    /\ result = [p \in Procs |-> "none"]

-----------------------------------------------------------------------------

Goto(p, label) == pc' = [pc EXCEPT ![p] = label]

\* The call returns and its locals are gone.
Return(p, outcome) ==
    /\ Goto(p, "idle")
    /\ refresh' = [refresh EXCEPT ![p] = FALSE]
    /\ ident' = [ident EXCEPT ![p] = NoTitle]
    /\ todo' = [todo EXCEPT ![p] = {}]
    /\ UNCHANGED <<doing, chosen>>
    /\ result' = [result EXCEPT ![p] = outcome]
    /\ UNCHANGED lib

Admitted(p) ==
    /\ pc[p] = "idle"
    /\ ~Overlap => \A q \in Procs : pc[q] = "idle"

\* Faulty: the flag of the previous title's import is not reset.
OpenKeepsImported(t) ==
    /\ Admitted(Opener)
    /\ opened < MaxOpens
    /\ opened' = opened + 1
    /\ library' = [library EXCEPT ![opened + 1].title = t]
    /\ current' = opened + 1
    /\ doubt' = {}
    /\ lib' = [lib EXCEPT ![Opener] = opened + 1]
    /\ result' = [result EXCEPT ![Opener] = "none"]
    /\ Goto(Opener, "ensure")
    /\ UNCHANGED <<imported, identity, choices, refresh, ident, todo, doing, chosen>>

\* Open has published a machine with a new library and goes on to import its
\* catalog before it returns.
OpenPublishes(t) ==
    /\ Admitted(Opener)
    /\ opened < MaxOpens
    /\ opened' = opened + 1
    /\ library' = [library EXCEPT ![opened + 1].title = t]
    /\ current' = opened + 1
    /\ imported' = FALSE
    /\ identity' = NoTitle
    /\ doubt' = {}
    /\ lib' = [lib EXCEPT ![Opener] = opened + 1]
    /\ result' = [result EXCEPT ![Opener] = "none"]
    /\ Goto(Opener, "ensure")
    /\ UNCHANGED <<choices, refresh, ident, todo, doing, chosen>>

\* Faulty: Close leaves the identity that choices are recorded under.
CloseKeepsIdentity ==
    /\ Admitted(Opener)
    /\ current' = 0
    /\ imported' = FALSE
    /\ doubt' = {}
    /\ UNCHANGED <<library, opened, identity, choices, locals>>

\* Close, or an Open whose title the cheat engine cannot describe.
CloseBackend ==
    /\ Admitted(Opener)
    /\ current' = 0
    /\ imported' = FALSE
    /\ identity' = NoTitle
    /\ doubt' = {}
    /\ UNCHANGED <<library, opened, choices, locals>>

\* cheatSnapshot begins with the library that is current now.
BeginSnapshot(p, again) ==
    /\ Admitted(p)
    /\ current # 0
    /\ lib' = [lib EXCEPT ![p] = current]
    /\ refresh' = [refresh EXCEPT ![p] = again]
    /\ result' = [result EXCEPT ![p] = "none"]
    /\ Goto(p, "ensure")
    /\ UNCHANGED <<backend, choices, doubt, ident, todo, doing, chosen>>

\* The toggle action: the panel's checkboxes want exactly these cheats on.
BeginToggle(p, wanted) ==
    /\ Admitted(p)
    /\ current # 0
    /\ library[current].catalog
    /\ lib' = [lib EXCEPT ![p] = current]
    /\ todo' = [todo EXCEPT ![p] =
         {d \in Decisions : /\ d[2] = (d[1] \in wanted)
                            /\ d[2] # (d[1] \in library[current].on)}]
    /\ result' = [result EXCEPT ![p] = "none"]
    /\ Goto(p, "toggle")
    /\ UNCHANGED <<backend, choices, doubt, refresh, ident, doing, chosen>>

-----------------------------------------------------------------------------
(* ensureCheatCatalog. *)

\* An imported catalog is not imported again unless asked for.
ReadImported(p) ==
    /\ pc[p] = "ensure"
    /\ IF imported /\ ~refresh[p]
         THEN Return(p, "ok")
         ELSE Goto(p, "identify")
              /\ UNCHANGED <<lib, refresh, ident, todo, doing, chosen, result>>
    /\ UNCHANGED <<backend, choices, doubt>>

\* Faulty: the identities of the first title opened are kept.
ReadFirstIdentities(p) ==
    /\ pc[p] = "identify"
    /\ IF current = 0
         THEN Return(p, "failed")
         ELSE /\ ident' = [ident EXCEPT ![p] = library[1].title]
              /\ Goto(p, "import")
              /\ UNCHANGED <<lib, refresh, todo, doing, chosen, result>>
    /\ UNCHANGED <<backend, choices, doubt>>

\* titleIdentities: of the title loaded now; a closed backend has none.
ReadIdentities(p) ==
    /\ pc[p] = "identify"
    /\ IF current = 0
         THEN Return(p, "failed")
         ELSE /\ ident' = [ident EXCEPT ![p] = library[current].title]
              /\ Goto(p, "import")
              /\ UNCHANGED <<lib, refresh, todo, doing, chosen, result>>
    /\ UNCHANGED <<backend, choices, doubt>>

\* The store finds no valid catalog in time.  The library may also refuse a
\* catalog of another title, and accepts one of its own.
LoadFails(p) ==
    /\ pc[p] = "import"
    /\ Return(p, "failed")
    /\ UNCHANGED <<backend, choices, doubt>>

Import(p) ==
    /\ pc[p] = "import"
    /\ library' = [library EXCEPT ![lib[p]].catalog = TRUE]
    /\ Goto(p, "apply")
    /\ UNCHANGED <<current, opened, imported, identity, choices, doubt, lib,
                   refresh, ident, todo, doing, chosen, result>>

\* What a catalog with these choices turns on.
Resolved(decided) ==
    {c \in Cheats : IF decided[c] = Unset THEN c \in DefaultOn ELSE decided[c][2]}

\* Faulty: the defaults of the catalog are applied again over the choices.
ApplyDefaults(p) ==
    /\ pc[p] = "apply"
    /\ library' = [library EXCEPT ![lib[p]].on = DefaultOn]
    /\ UNCHANGED doubt
    /\ Goto(p, "publish")
    /\ UNCHANGED <<current, opened, imported, identity, choices, lib, refresh,
                   ident, todo, doing, chosen, result>>

\* library.ApplyState(store.loadChoices(identity)): cheats that cannot be
\* applied keep the state they had, and are reported in a warning.
Apply(p) ==
    /\ pc[p] = "apply"
    /\ LET target == Resolved(choices[ident[p]])
           on == library[lib[p]].on
       IN  \E stuck \in SUBSET ((target \ on) \union (on \ target)) :
             /\ library' = [library EXCEPT ![lib[p]].on =
                              (target \ stuck) \union (on \intersect stuck)]
             /\ doubt' = IF lib[p] = current THEN stuck ELSE doubt
    /\ Goto(p, "publish")
    /\ UNCHANGED <<current, opened, imported, identity, choices, lib, refresh,
                   ident, todo, doing, chosen, result>>

\* The backend, whatever title it has now, is told that it is done.
Publish(p) ==
    /\ pc[p] = "publish"
    /\ imported' = TRUE
    /\ identity' = ident[p]
    /\ Return(p, "ok")
    /\ UNCHANGED <<library, current, opened, choices, doubt>>

-----------------------------------------------------------------------------
(* executeCheatAction's toggle and recordCheatChoice. *)

\* library.SetEnabled of one cheat whose checkbox differs; one that fails is
\* not recorded.
SetEnabled(p, d) ==
    /\ pc[p] = "toggle"
    /\ d \in todo[p]
    /\ todo' = [todo EXCEPT ![p] = @ \ {d}]
    /\ \/ UNCHANGED <<library, pc, doing>>
       \/ /\ library' = [library EXCEPT ![lib[p]].on =
                           IF d[2] THEN @ \union {d[1]} ELSE @ \ {d[1]}]
          /\ doing' = [doing EXCEPT ![p] = {d}]
          /\ Goto(p, "record")
    /\ UNCHANGED <<current, opened, imported, identity, choices, doubt, lib,
                   refresh, ident, chosen, result>>

\* recordCheatChoice reads the identity and the choices made under it so far;
\* without an identity there is nothing to record.
ReadChoices(p) ==
    /\ pc[p] = "record"
    /\ IF identity = NoTitle
         THEN Goto(p, "toggle") /\ doing' = [doing EXCEPT ![p] = {}]
              /\ UNCHANGED <<ident, chosen>>
         ELSE /\ ident' = [ident EXCEPT ![p] = identity]
              /\ chosen' = [chosen EXCEPT ![p] = choices[identity]]
              /\ Goto(p, "save")
              /\ UNCHANGED doing
    /\ UNCHANGED <<backend, choices, doubt, lib, refresh, todo, result>>

Toggled(p) == {d[1] : d \in doing[p]}

\* saveChoices writes all of them back with the new one added, or fails.
SaveChoices(p) ==
    /\ pc[p] = "save"
    /\ \/ /\ choices' = [choices EXCEPT ![ident[p]] =
              [c \in Cheats |-> IF c \in Toggled(p)
                 THEN <<library[lib[p]].title, <<c, TRUE>> \in doing[p]>>
                 ELSE chosen[p][c]]]
          /\ doubt' = IF lib[p] = current THEN doubt \ Toggled(p) ELSE doubt
       \/ /\ doubt' = IF lib[p] = current THEN doubt \union Toggled(p) ELSE doubt
          /\ UNCHANGED choices
    /\ doing' = [doing EXCEPT ![p] = {}]
    /\ ident' = [ident EXCEPT ![p] = NoTitle]
    /\ chosen' = [chosen EXCEPT ![p] = NoChoices]
    /\ Goto(p, "toggle")
    /\ UNCHANGED <<backend, lib, refresh, todo, result>>

\* The toggles end in a snapshot of the library that is current by then.
EndToggles(p) ==
    /\ pc[p] = "toggle"
    /\ todo[p] = {}
    /\ IF current = 0
         THEN Return(p, "failed")
         ELSE /\ lib' = [lib EXCEPT ![p] = current]
              /\ Goto(p, "ensure")
              /\ UNCHANGED <<refresh, ident, todo, doing, chosen, result>>
    /\ UNCHANGED <<backend, choices, doubt>>

CheatNext ==
    \/ \E t \in Titles : OpenPublishes(t)
    \/ CloseBackend
    \/ \E p \in Requests :
         \/ \E again \in BOOLEAN : BeginSnapshot(p, again)
         \/ \E wanted \in SUBSET Cheats : BeginToggle(p, wanted)
         \/ \E d \in todo[p] : SetEnabled(p, d)
         \/ ReadChoices(p)
         \/ SaveChoices(p)
         \/ EndToggles(p)
    \/ \E p \in Procs :
         \/ ReadImported(p)
         \/ ReadIdentities(p)
         \/ LoadFails(p)
         \/ Import(p)
         \/ Apply(p)
         \/ Publish(p)

CheatSpec == CheatInit /\ [][CheatNext]_cheatVars

-----------------------------------------------------------------------------

Labels == {"idle", "ensure", "identify", "import", "apply", "publish",
           "toggle", "record", "save"}

\* Types of the variables; a catalog identity is known exactly when a catalog
\* has been imported.
CheatTypeOK ==
    /\ library \in [Libraries -> [title : Titles \union {NoTitle},
                                  catalog : BOOLEAN, on : SUBSET Cheats]]
    /\ current \in 0 .. opened
    /\ opened \in 0 .. MaxOpens
    /\ imported \in BOOLEAN
    /\ identity \in Titles \union {NoTitle}
    /\ imported = (identity # NoTitle)
    /\ choices \in [Titles -> [Cheats -> Choices]]
    /\ doubt \subseteq Cheats
    /\ pc \in [Procs -> Labels]
    /\ lib \in [Procs -> 0 .. opened]
    /\ refresh \in [Procs -> BOOLEAN]
    /\ ident \in [Procs -> Titles \union {NoTitle}]
    /\ todo \in [Procs -> SUBSET Decisions]
    /\ doing \in [Procs -> SUBSET Decisions]
    /\ chosen \in [Procs -> [Cheats -> Choices]]
    /\ result \in [Procs -> {"none", "ok", "failed"}]

\* "Catalog defaults must be in guest memory before Open returns"
\* (backend.go:246): an Open that ends without an error has imported the
\* catalog into the library of the title it opened.
DefaultsBeforeOpenReturns ==
    pc[Opener] = "idle" /\ result[Opener] = "ok" /\ current = lib[Opener]
    => current = 0 \/ library[current].catalog

\* "Each cheat a person turns on or off is recorded ... keyed by image identity"
\* (docs/integration.md:115): the choices of a title were made for that title.
ChoicesKeyedByTitle ==
    \A t \in Titles, c \in Cheats : choices[t][c] # Unset => choices[t][c][1] = t

\* "a recorded choice outranks the default forever after"
\* (docs/integration.md:117): between calls the loaded title's cheats are what
\* its recorded choices say and the catalog's defaults for the others, except
\* where applying or recording one has failed.
ChoicesOutrankDefaults ==
    /\ imported
    /\ \A p \in Procs : pc[p] = "idle"
    => \A c \in Cheats \ doubt :
         (c \in library[current].on) <=> (c \in Resolved(choices[library[current].title]))

\* The types, and what the loaded title's cheats are between calls.
Consistent == CheatTypeOK /\ ChoicesOutrankDefaults
=============================================================================
