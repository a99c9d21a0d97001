---------------------------- MODULE LibretroSmoke ----------------------------
(***************************************************************************)
(* The device smoke test of the libretro core, testhost/smoke.c: one front *)
(* end, playing its fixed sequence of calls against LibretroHost, counting *)
(* the callbacks and ending with an exit code.  Every call is a step of    *)
(* LibretroHost, which thus also checks that the sequence is one a front   *)
(* end may make.  Beside it, any front ends that are no test.              *)
(***************************************************************************)
EXTENDS LibretroHost

CONSTANTS
    Portrait    \* the size the synthetic content is shown at, 240 by 320

VARIABLES
    at,         \* the next call of the test; 0 for other front ends
    frames,     \* video_frames
    geometries, \* geometry_updates
    exit        \* exit code, or Running

smoke == <<at, frames, geometries, exit>>
smokeVars == <<vars, smoke>>

ASSUME LibretroSmokeAssumption == Portrait \in Sizes /\ MaxFrontEnds >= 1

Running == 100
Script == <<"environment", "init", "load", "run", "run", "serialize", "reset",
            "unserialize", "run", "unload", "broken", "deinit", "end">>

SmokeInit ==
    /\ Init
    /\ at \in {0, 1}
    /\ frames = 0
    /\ geometries = 0
    /\ exit = Running

\* environment(), video_refresh(): what the call just made has called back.
Count ==
    /\ frames' = frames + (IF call'.picture \in Sizes THEN 1 ELSE 0)
    /\ geometries' = geometries + (IF call'.published THEN 1 ELSE 0)

\* A real picture is expected of every callback; code is the caller's verdict.
Judge(code) ==
    IF call'.picture = Repeat THEN 20 ELSE code

\* Step n of the script: a call that took place, and what main makes of it.
Step(name, code) ==
    /\ Script[at] = name
    /\ at' = at + 1
    /\ Count
    /\ exit' = Judge(code)

\* Its environment() knows no GET_CAN_DUPE, and has a log interface.
Environment ==
    /\ RetroSetEnvironment
    /\ ~accepts'
    /\ logger' = frontEnd'
    /\ Step("environment", Running)

InitCall == RetroInit /\ Step("init", Running)

\* Main checks the size and the timing it is told.  It has content and accepts
\* XRGB8888, so only the core can refuse.
LoadSynthetic ==
    /\ LoadFails \/ RetroLoadGame
    /\ Step("load",
            IF ~call'.ok THEN 7 ELSE IF told' # Portrait THEN 8 ELSE Running)

\* Only after the second frame are the counts looked at.
RunFrame ==
    /\ RunFails \/ (\E size \in Sizes, v, a \in BOOLEAN : RetroRun(size, v, a))
    /\ Step("run",
            IF at = 5 /\ ~(frames' = 2 /\ seen' = Portrait /\ geometries' > 0)
              THEN 9 ELSE Running)

\* There is always memory for the state, or exit code 11 says so.
Serialize ==
    /\ RetroSerialize
    /\ Step("serialize", IF call'.ok THEN Running ELSE 11)

\* retro_reset reports nothing to its caller.
ResetCall == RetroReset /\ Step("reset", Running)

Unserialize ==
    /\ RetroUnserialize
    /\ Step("unserialize", IF call'.ok THEN Running ELSE 12)

\* retro_unload_game reports nothing either.
UnloadCall == RetroUnloadGame /\ Step("unload", Running)

LoadBroken ==
    /\ LoadFails \/ RetroLoadGame
    /\ Step("broken", IF call'.ok THEN 13 ELSE Running)

Deinit ==
    /\ RetroDeinit
    /\ Step("deinit", 0)

Ended == exit # Running /\ UNCHANGED smokeVars

Test ==
    /\ at > 0
    /\ exit = Running
    /\ \/ Environment
       \/ InitCall
       \/ LoadSynthetic
       \/ RunFrame
       \/ Serialize
       \/ ResetCall
       \/ Unserialize
       \/ UnloadCall
       \/ LoadBroken
       \/ Deinit

\* Front ends that make any calls the interface allows.
AnyFrontEnd == at = 0 /\ Next /\ UNCHANGED smoke

SmokeNext == Test \/ Ended \/ AnyFrontEnd

SmokeSpec == SmokeInit /\ [][SmokeNext]_smokeVars

-----------------------------------------------------------------------------

\* A core that passes has shown two pictures of its own for the first two
\* frames, each announced: a failed frame cannot be mistaken for one.
PassMeansPictures ==
    [][ at = 5 /\ exit' = Running
        => /\ call.ok /\ call'.ok
           /\ call.picture \in Sizes /\ call'.picture = Portrait ]_smokeVars
=============================================================================
