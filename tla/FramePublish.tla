---------------------------- MODULE FramePublish ----------------------------
(***************************************************************************)
(* VideoFrame of the application backend: the UI thread asks for a picture *)
(* and a sequence number while the guest draws and titles come and go on   *)
(* another thread.  The machine is read without mu; the number is decided  *)
(* under it, from the presentation number of a core that has one, else by  *)
(* comparing pixels.                                                       *)
(*                                                                         *)
(* The shell (aram-frontend, external) forgets what it shows when an open  *)
(* or a close returns, and otherwise takes a new picture only if its       *)
(* number is new.                                                          *)
(***************************************************************************)
EXTENDS Naturals

CONSTANTS
    Pictures,   \* what a guest can draw
    Blank,      \* the first picture of every machine, a member of Pictures
    Straddle,   \* whatever the core, an open or close may happen while the UI
                \* thread reads
    MaxTitles,  \* bound: machines published in all
    MaxDraws,   \* bound: presentations of one machine
    None

VARIABLES
    presenting, \* the core numbers its presentations
    title,      \* number of the published machine, 0 if there is none
    opened,     \* how many machines have been published
    screen,     \* what its guest shows
    drawn,      \* its presentation number
    baseline,   \* lastPresentation, or lastFramePixels
    sequence,   \* frameSequence
    ui,         \* "idle", "machine" or "picture": what the UI thread has read
    held,       \* the machine it reads, as far as it is known: [title,
                \* picture, number]
    shown       \* what the shell shows: [title, picture, sequence]

frameVars == <<presenting, title, opened, screen, drawn, baseline, sequence,
              ui, held, shown>>
guest == <<screen, drawn>>
published == <<baseline, sequence>>

ASSUME FramePublishAssumption ==
    /\ Blank \in Pictures
    /\ Straddle \in BOOLEAN
    /\ MaxTitles \in Nat /\ MaxDraws \in Nat \ {0}
    /\ None \notin Pictures \union Nat

NothingHeld == [title |-> 0, picture |-> None, number |-> None]
NothingShown == [title |-> 0, picture |-> None, sequence |-> 0]

\* What tells this picture of the published machine from its other ones.
Number == IF presenting THEN drawn ELSE screen

Current == [title |-> title, picture |-> screen, number |-> Number]

FrameInit ==
    /\ presenting \in BOOLEAN
    /\ title = 0
    /\ opened = 0
    /\ screen = Blank
    /\ drawn = 0
    /\ baseline = None
    /\ sequence = 0
    /\ ui = "idle"
    /\ held = NothingHeld
    /\ shown = NothingShown

\* Faulty: the sequence goes on, and with it the last presentation.
ForgetsNothing == UNCHANGED published

\* Faulty: the number starts again but the baseline does not.
ForgetsNumber == sequence' = 0 /\ UNCHANGED baseline

\* Open and Close forget what was published.
Forgets == sequence' = 0 /\ baseline' = None

\* A machine the UI thread is about to read stops as it is.  With a
\* core that numbers its presentations, only between two polls.
Outlives ==
    /\ ui = "idle" \/ ~presenting \/ Straddle
    /\ held' = IF ui = "machine" /\ held.title = title THEN Current ELSE held
    /\ UNCHANGED ui

Open ==
    /\ opened < MaxTitles
    /\ Outlives
    /\ opened' = opened + 1
    /\ title' = opened + 1
    /\ screen' = Blank
    /\ drawn' = 1
    /\ Forgets
    /\ shown' = NothingShown
    /\ UNCHANGED presenting

Close ==
    /\ title # 0
    /\ Outlives
    /\ title' = 0
    /\ Forgets
    /\ shown' = NothingShown
    /\ UNCHANGED <<presenting, opened, guest>>

\* RunFrame: the guest presents, maybe the same pixels again.
Draw ==
    /\ title # 0
    /\ drawn < MaxDraws
    /\ drawn' = drawn + 1
    /\ screen' \in Pictures
    /\ UNCHANGED <<presenting, title, opened, published, ui, held, shown>>

\* VideoFrame: currentMachine.  Without one there is no frame.
ReadMachine ==
    /\ ui = "idle"
    /\ title # 0
    /\ ui' = "machine"
    /\ held' = [NothingHeld EXCEPT !.title = title]
    /\ UNCHANGED <<presenting, title, opened, guest, published, shown>>

\* VideoPresentation, FramePresentation or Framebuffer of that machine.
ReadPicture ==
    /\ ui = "machine"
    /\ ui' = "picture"
    /\ held' = IF held.title = title THEN Current ELSE held
    /\ UNCHANGED <<presenting, title, opened, guest, published, shown>>

\* What the shell does with the picture and the number it is given.
Shows(number) ==
    shown' = IF number = shown.sequence THEN shown
               ELSE [title |-> held.title, picture |-> held.picture,
                     sequence |-> number]

\* Faulty: the baseline is only taken for the first picture.
PublishFirst ==
    /\ ui = "picture"
    /\ ui' = "idle"
    /\ held' = NothingHeld
    /\ sequence' = IF sequence = 0 \/ held.number # baseline
                     THEN sequence + 1 ELSE sequence
    /\ baseline' = IF sequence = 0 THEN held.number ELSE baseline
    /\ Shows(sequence')
    /\ UNCHANGED <<presenting, title, opened, guest>>

\* Faulty: the number read is not compared with the one published.
PublishOnce ==
    /\ ui = "picture"
    /\ ui' = "idle"
    /\ held' = NothingHeld
    /\ baseline' = held.number
    /\ sequence' = IF sequence = 0 THEN 1 ELSE sequence
    /\ Shows(sequence')
    /\ UNCHANGED <<presenting, title, opened, guest>>

\* publishVideoFrame, under mu: a new number for what differs from the last.
Publish ==
    /\ ui = "picture"
    /\ ui' = "idle"
    /\ held' = NothingHeld
    /\ IF sequence = 0 \/ held.number # baseline
         THEN baseline' = held.number /\ sequence' = sequence + 1
         ELSE UNCHANGED published
    /\ Shows(sequence')
    /\ UNCHANGED <<presenting, title, opened, guest>>

VideoFrame == ReadMachine \/ ReadPicture \/ Publish

FrameNext == Open \/ Close \/ Draw \/ VideoFrame

FrameSpec == FrameInit /\ [][FrameNext]_frameVars

\* The shell asks for a frame on every tick of its loop.
FrameFairSpec == FrameSpec /\ WF_frameVars(VideoFrame)

-----------------------------------------------------------------------------

\* Types of the variables; a title gets at most one number more than it drew,
\* for the poll that straddled its opening.
FrameTypeOK ==
    /\ presenting \in BOOLEAN
    /\ title \in 0 .. opened
    /\ opened \in 0 .. MaxTitles
    /\ screen \in Pictures
    /\ drawn \in 0 .. MaxDraws
    /\ baseline \in (IF presenting THEN 0 .. MaxDraws ELSE Pictures) \union {None}
    /\ sequence \in 0 .. (MaxDraws + 1)
    /\ sequence = 0 <=> baseline = None
    /\ ui \in {"idle", "machine", "picture"}
    /\ held.title \in 0 .. opened
    /\ held.picture \in Pictures \union {None}
    /\ shown.title \in 0 .. opened
    /\ shown.picture \in Pictures \union {None}
    /\ shown.sequence \in 0 .. (MaxDraws + 1)

\* frame_change_test.go:115-117, "a new core presentation kept the published
\* sequence" being the failure: once the guest stops drawing, here at the
\* bound, the shell shows its last picture and keeps it.
LastPictureShown == <>[](title = 0 \/ shown.picture = screen)

\* frame_change_test.go:11-12: "The published sequence must only move when the
\* guest actually redrew": a title that has presented n times has had at most n
\* numbers, however often the shell asked.  For a core without numbers, this
\* holds of a poll that no open or close straddles.
NumbersAreRedraws == title # 0 /\ presenting => sequence <= drawn

\* The types, and what the sequence number says of the redraws.
FrameConsistent == FrameTypeOK /\ NumbersAreRedraws
=============================================================================
