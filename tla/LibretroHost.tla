---------------------------- MODULE LibretroHost ----------------------------
(***************************************************************************)
(* The C half of the libretro core, cmd/aram-libretro/libretro.c, with the *)
(* bridge it calls (cmd/aram-libretro/main.go): what a front end is        *)
(* offered, asked, shown and played, over several front ends that use the  *)
(* loaded library one after the other.  A call is one action; its          *)
(* alternatives are the outcomes of the core and of the allocator.         *)
(* libretro.Core is seen through its results only: the size of a frame,    *)
(* the audio chunks the machine has queued, success or failure.            *)
(***************************************************************************)
EXTENDS Naturals, Sequences

CONSTANTS
    Sizes,        \* frame sizes <<width, height>>
    DrainLimit,   \* chunks one drainAudio takes at most, 128 in core.go
    MaxFrontEnds, \* bound: front ends that use the library in turn
    MaxChunks,    \* bound: audio chunks machines queue in all
    NoSize,       \* last_width == 0; no picture
    Repeat,       \* the NULL picture of a repeated frame
    Nobody        \* log_cb == NULL

VARIABLES
    frontEnd,     \* number of the front end in charge, 0 before the first
    accepts,      \* whether that front end can repeat a frame
    ready,        \* between retro_init and retro_deinit
    loaded,       \* a game is loaded
    canDupe,      \* can_dupe
    logger,       \* the front end log_cb belongs to
    lastSize,     \* last_width, last_height
    video,        \* [buffer, capacity]: real size of video_buffer, video_capacity
    audio,        \* the same of audio_buffer
    last,         \* bridge.last: [frame, chunks]
    queue,        \* the machine's audio, not yet drained
    made,         \* chunks machines have queued so far
    told,         \* geometry the front end was told last
    seen,         \* size of the last real frame of this game, or NoSize
    heard,        \* number of the last chunk played
    dropped,      \* history: the last chunk that was lost for a reason
    call          \* what this step returned from, and the callbacks it made

\* Statics of the library that outlive a front end, and the session itself.
statics == <<canDupe, logger, lastSize, video, audio>>
machine == <<last, queue, made>>
shown == <<told, seen, heard, dropped>>
vars == <<frontEnd, accepts, ready, loaded, statics, machine, shown, call>>

ASSUME LibretroHostAssumption ==
    /\ Sizes \subseteq (Nat \ {0}) \X (Nat \ {0})
    /\ DrainLimit \in Nat \ {0}
    /\ MaxFrontEnds \in Nat
    /\ MaxChunks \in Nat
    /\ Nobody \notin 1 .. MaxFrontEnds
    /\ {NoSize, Repeat} \cap Sizes = {} /\ NoSize # Repeat

Pixels(size) == size[1] * size[2]
NoBuffer == [buffer |-> 0, capacity |-> 0]
NoResult == [frame |-> NoSize, chunks |-> <<>>]

\* A call that returned: its name, whether it succeeded, whether an allocation
\* failed in it, whether it called SET_GEOMETRY, the picture it gave to
\* video_cb, if any, and the chunks it played.
Returned(name, ok, short, published, picture, played) ==
    call' = [name |-> name, ok |-> ok, short |-> short,
             published |-> published, picture |-> picture, played |-> played]

\* A call that makes no video or audio callback and no announcement.
Silent(name, ok) == Returned(name, ok, FALSE, FALSE, NoSize, <<>>)

Init ==
    /\ frontEnd = 0
    /\ accepts = FALSE
    /\ ready = FALSE
    /\ loaded = FALSE
    /\ canDupe = FALSE
    /\ logger = Nobody
    /\ lastSize = NoSize
    /\ video = NoBuffer
    /\ audio = NoBuffer
    /\ last = NoResult
    /\ queue = <<>>
    /\ made = 0
    /\ told = NoSize
    /\ seen = NoSize
    /\ heard = 0
    /\ dropped = 0
    /\ call = [name |-> "none", ok |-> TRUE, short |-> FALSE,
               published |-> FALSE, picture |-> NoSize, played |-> <<>>]

-----------------------------------------------------------------------------
(* Pieces of libretro.c. *)

\* Faulty: a size is new only if both its width and its height are.
PublishesEither(size) ==
    lastSize = NoSize \/ (size[1] # lastSize[1] /\ size[2] # lastSize[2])

\* publish_geometry announces a size it did not announce last.
Publishes(size) == size # lastSize

\* Faulty: the new capacity is not remembered.
ReservedUncounted(area, n, granted) ==
    IF n > area.capacity /\ granted THEN [area EXCEPT !.buffer = n] ELSE area

\* reserve_video, reserve_audio: granted is the allocator's answer.
Reserved(area, n, granted) ==
    IF n > area.capacity /\ granted
      THEN [buffer |-> n, capacity |-> n]
      ELSE area

\* aram_copy_video, aram_copy_audio copy n elements into the reserved area.
Copied(area, n) == n > 0 /\ area.buffer > 0 /\ n <= area.capacity

\* The machine's queue after it has produced k more chunks.
Queued(k) == queue \o [i \in 1 .. k |-> made + i]
NewChunks == {k \in 0 .. 2 : made + k <= MaxChunks}

\* The allocator was asked and refused.
Refused(area, n, granted) == n > area.capacity /\ ~granted

\* What is left in the queue may be dropped; if it is, that was for a reason.
MayDropQueue ==
    \/ UNCHANGED <<queue, dropped>>
    \/ queue' = <<>> /\ dropped' = made
DropsQueue == queue' = <<>> /\ dropped' = made

LastOf(s) == s[Len(s)]
Shorter(a, b) == IF a < b THEN a ELSE b

\* Faulty: a front end that does not know GET_CAN_DUPE keeps the old answer.
NegotiatedOnce == canDupe' = (accepts' \/ canDupe)

\* GET_CAN_DUPE, or false for a front end that does not know it.
Negotiated == canDupe' = accepts'

\* Faulty: the buffers are freed, but their capacities stay.
FreedOnly ==
    /\ video' = [video EXCEPT !.buffer = 0]
    /\ audio' = [audio EXCEPT !.buffer = 0]

Freed == video' = NoBuffer /\ audio' = NoBuffer

-----------------------------------------------------------------------------
(* The calls of a front end. *)

\* The next front end registers its callbacks; it may have no log interface,
\* and it may not know GET_CAN_DUPE.
RetroSetEnvironment ==
    /\ ~ready
    /\ frontEnd < MaxFrontEnds
    /\ frontEnd' = frontEnd + 1
    /\ accepts' \in BOOLEAN
    /\ Negotiated
    /\ logger' \in {logger, frontEnd'}
    /\ Silent("environment", TRUE)
    /\ UNCHANGED <<ready, loaded, lastSize, video, audio, machine, shown>>

RetroInit ==
    /\ ~ready
    /\ frontEnd > 0
    /\ ready' = TRUE
    /\ Silent("init", TRUE)
    /\ UNCHANGED <<frontEnd, accepts, loaded, statics, machine, shown>>

RetroDeinit ==
    /\ ready
    /\ ~loaded
    /\ ready' = FALSE
    /\ Freed
    /\ lastSize' = NoSize
    /\ last' = NoResult
    /\ DropsQueue
    /\ told' = NoSize
    /\ Silent("deinit", TRUE)
    /\ UNCHANGED <<frontEnd, accepts, loaded, canDupe, logger, made, seen, heard>>

\* No data, or the front end rejects XRGB8888.
LoadRefused ==
    /\ ready
    /\ ~loaded
    /\ Silent("load", FALSE)
    /\ UNCHANGED <<frontEnd, accepts, ready, loaded, statics, machine, shown>>

\* The core rejects the content, and forgot the last result before.
LoadFails ==
    /\ ready
    /\ ~loaded
    /\ last' = NoResult
    /\ MayDropQueue
    /\ Silent("load", FALSE)
    /\ UNCHANGED <<frontEnd, accepts, ready, loaded, statics, made, told, seen, heard>>

\* The announced size is what retro_get_system_av_info then returns, too.
RetroLoadGame ==
    /\ ready
    /\ ~loaded
    /\ loaded' = TRUE
    /\ last' = NoResult
    /\ DropsQueue
    /\ \E size \in Sizes : lastSize' = size /\ told' = size
    /\ seen' = NoSize
    /\ Returned("load", TRUE, FALSE, TRUE, NoSize, <<>>)
    /\ UNCHANGED <<frontEnd, accepts, ready, canDupe, logger, video, audio,
                   made, heard>>

\* Faulty: a failed frame goes on to deliver what is in bridge.last.
RunFailsOnward ==
    /\ loaded
    /\ \E k \in NewChunks : queue' = Queued(k) /\ made' = made + k
    /\ last.frame # NoSize
    /\ Returned("run", FALSE, FALSE, FALSE, last.frame, last.chunks)
    /\ heard' = IF last.chunks = <<>> THEN heard ELSE LastOf(last.chunks)
    /\ UNCHANGED <<frontEnd, accepts, ready, loaded, statics, last, told, seen,
                   dropped>>

\* Faulty: the sound is drained before the missing picture is noticed.
RunFailsDrained ==
    /\ loaded
    /\ \E k \in NewChunks :
         LET all == Queued(k)
             n == Shorter(Len(all), DrainLimit)
         IN  made' = made + k /\ queue' = SubSeq(all, n + 1, Len(all))
    /\ Silent("run", FALSE)
    /\ UNCHANGED <<frontEnd, accepts, ready, loaded, statics, last, shown>>

\* aram_run fails, maybe after the machine has advanced: what it queued stays
\* queued, and the previous frame counts for this one.
RunFails ==
    /\ loaded
    /\ \E k \in NewChunks : queue' = Queued(k) /\ made' = made + k
    /\ Returned("run", FALSE, FALSE, FALSE,
                IF canDupe /\ lastSize # NoSize THEN Repeat ELSE NoSize, <<>>)
    /\ UNCHANGED <<frontEnd, accepts, ready, loaded, statics, last, shown>>

\* A frame of the given size, with sound; the allocator may refuse either.
RetroRun(size, grantVideo, grantAudio) ==
    /\ loaded
    /\ \E k \in NewChunks :
         LET all == Queued(k)
             n == Shorter(Len(all), DrainLimit)
         IN  /\ made' = made + k
             /\ last' = [frame |-> size, chunks |-> SubSeq(all, 1, n)]
             /\ queue' = SubSeq(all, n + 1, Len(all))
    /\ video' = Reserved(video, Pixels(size), grantVideo)
    /\ audio' = Reserved(audio, Len(last'.chunks), grantAudio)
    /\ LET drawn == Copied(video', Pixels(size))
           sounds == Copied(audio', Len(last'.chunks))
           announced == drawn /\ Publishes(size)
       IN  /\ lastSize' = IF announced THEN size ELSE lastSize
           /\ told' = IF announced THEN size ELSE told
           /\ seen' = IF drawn THEN size ELSE seen
           /\ heard' = IF sounds THEN LastOf(last'.chunks) ELSE heard
           /\ dropped' = IF Refused(audio, Len(last'.chunks), grantAudio)
                           THEN LastOf(last'.chunks) ELSE dropped
           /\ Returned("run", TRUE, Refused(video, Pixels(size), grantVideo), announced,
                       IF drawn THEN size ELSE NoSize,
                       IF sounds THEN last'.chunks ELSE <<>>)
    /\ UNCHANGED <<frontEnd, accepts, ready, loaded, canDupe, logger>>

\* The bridge forgets the last result before it tries.
RetroReset ==
    /\ loaded
    /\ last' = NoResult
    /\ MayDropQueue
    /\ \E ok \in BOOLEAN : Silent("reset", ok)
    /\ UNCHANGED <<frontEnd, accepts, ready, loaded, statics, made, told, seen, heard>>

RetroSerialize ==
    /\ loaded
    /\ \E ok \in BOOLEAN : Silent("serialize", ok)
    /\ UNCHANGED <<frontEnd, accepts, ready, loaded, statics, machine, shown>>

\* The machine may drop the sound it had queued.
RetroUnserialize ==
    /\ loaded
    /\ MayDropQueue
    /\ \E ok \in BOOLEAN : Silent("unserialize", ok)
    /\ UNCHANGED <<frontEnd, accepts, ready, loaded, statics, last, made, told, seen, heard>>

\* To the front end the game is gone, also if the core kept it.
RetroUnloadGame ==
    /\ loaded
    /\ loaded' = FALSE
    /\ last' = NoResult
    /\ MayDropQueue
    /\ \E ok \in BOOLEAN : Silent("unload", ok)
    /\ UNCHANGED <<frontEnd, accepts, ready, statics, made, told, seen, heard>>

Next ==
    \/ RetroSetEnvironment
    \/ RetroInit
    \/ RetroDeinit
    \/ LoadRefused
    \/ LoadFails
    \/ RetroLoadGame
    \/ RunFails
    \/ \E size \in Sizes, v, a \in BOOLEAN : RetroRun(size, v, a)
    \/ RetroReset
    \/ RetroSerialize
    \/ RetroUnserialize
    \/ RetroUnloadGame

Spec == Init /\ [][Next]_vars

-----------------------------------------------------------------------------

Chunks == Seq(1 .. MaxChunks)
Areas == [buffer : Nat, capacity : Nat]

\* Types of the variables; a capacity is never more than what is allocated, so
\* no copy runs over the end of a buffer or through a freed one.
TypeOK ==
    /\ frontEnd \in 0 .. MaxFrontEnds
    /\ accepts \in BOOLEAN
    /\ ready \in BOOLEAN
    /\ loaded \in BOOLEAN
    /\ loaded => ready /\ lastSize # NoSize
    /\ canDupe \in BOOLEAN
    /\ logger \in {Nobody} \union (1 .. frontEnd)
    /\ lastSize \in Sizes \union {NoSize}
    /\ video \in Areas /\ video.capacity = video.buffer
    /\ audio \in Areas /\ audio.capacity = audio.buffer
    /\ last \in [frame : Sizes \union {NoSize}, chunks : Chunks]
    /\ queue \in Chunks
    /\ made \in 0 .. MaxChunks
    /\ told \in Sizes \union {NoSize}
    /\ seen \in Sizes \union {NoSize}
    /\ heard \in 0 .. made
    /\ dropped \in 0 .. made
    /\ call.ok \in BOOLEAN
    /\ call.short \in BOOLEAN
    /\ call.published \in BOOLEAN
    /\ call.picture \in Sizes \union {NoSize, Repeat}
    /\ call.played \in Chunks

\* A picture has the size the front end was told last, however sizes change
\* between frames, games and front ends, and whatever allocation failed.
DrawnAsAnnounced == call.picture \in Sizes => call.picture = told

\* Every retro_run of a front end that can repeat a frame gives it one picture,
\* new or repeated, unless memory ran out; a good one gives a new picture, also
\* to a front end that takes over a library another has used.  One that cannot
\* repeat frames is never asked to, whatever an earlier one could do.
PicturePerRun ==
    /\ call.name = "run" /\ ~call.short =>
        /\ call.ok => call.picture \in Sizes
        /\ accepts => call.picture # NoSize
    /\ call.picture = Repeat => accepts

\* Sound is played in the order the machine made it, and never twice.
SoundOnce ==
    [][ /\ \A i \in 1 .. Len(call'.played) : call'.played[i] > heard
        /\ \A i, j \in 1 .. Len(call'.played) :
             i < j => call'.played[i] < call'.played[j] ]_vars

\* Sound that has left the machine's queue has been played, unless a reset, a
\* state, an unload or an allocation failure took it: a failed frame only
\* delays it.
NoSoundLost ==
    IF heard > dropped THEN heard + Len(queue) = made
                       ELSE dropped + Len(queue) = made

\* libretro.h:1541: SET_GEOMETRY "Can only be called from within retro_run()".
GeometryOnlyInRun == call.published => call.name = "run"

\* libretro.c:198-199: "A failed frame still counts as a frame: dupe the
\* previous one".  So there is a previous one, of this game.
RepeatsAPicture == call.picture = Repeat => seen # NoSize

\* libretro.h:8157: "all global variables should be reset to their default
\* states": an error is logged with the current front end, or not at all.
LogsToItsFrontEnd == ~call.ok => logger \in {Nobody, frontEnd}
=============================================================================
