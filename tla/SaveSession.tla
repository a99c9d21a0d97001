---------------------------- MODULE SaveSession ----------------------------
(***************************************************************************)
(* What a host that plays one title at a time promises its users about     *)
(* saves.  A session starts from what is stored for its title; only that   *)
(* session stores for the title, and only what it holds itself; a session  *)
(* that is replaced by another has been stored.  LibretroCore.tla and      *)
(* AppBackend.tla are shown to implement it.                               *)
(***************************************************************************)
CONSTANTS
    Titles,
    Contents,   \* what a save can hold
    Empty,      \* nothing was ever saved, a member of Contents
    Unreadable, \* a file no session can start from
    NoSession

VARIABLES
    current,    \* NoSession or [title, content]
    stored      \* what is on disk for each title

vars == <<current, stored>>

Sessions == [title : Titles, content : Contents]

Init ==
    /\ current = NoSession
    /\ stored \in [Titles -> Contents \union {Unreadable}]

\* What is on disk once session s has been saved; there may be nothing to save.
Saved(s) ==
    IF s.content = Empty THEN stored ELSE [stored EXCEPT ![s.title] = s.content]

\* The session goes on, with whatever its title wrote or had restored, and may
\* be saved on the way.
Play ==
    /\ current # NoSession
    /\ current' \in [title : {current.title}, content : Contents]
    /\ stored' \in {stored, Saved(current')}

\* The session, if any, is saved; the next one starts from what is then stored.
Switch(t) ==
    /\ stored' = IF current = NoSession THEN stored ELSE Saved(current)
    /\ stored'[t] # Unreadable
    /\ current' = [title |-> t, content |-> stored'[t]]

Close ==
    /\ current # NoSession
    /\ stored' = Saved(current)
    /\ current' = NoSession

\* The process dies, or the host has given up saving.
Abandon ==
    /\ current' = NoSession
    /\ UNCHANGED stored

Next == Play \/ (\E t \in Titles : Switch(t)) \/ Close \/ Abandon

Spec == Init /\ [][Next]_vars
=============================================================================
