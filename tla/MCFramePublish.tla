--------------------------- MODULE MCFramePublish ---------------------------
(***************************************************************************)
(* TLC instance of FramePublish.                                           *)
(***************************************************************************)
EXTENDS FramePublish
=============================================================================
