----------------------------- MODULE MCKeyHolds -----------------------------
(***************************************************************************)
(* TLC instances of KeyHolds: two host controls of one guest key and one   *)
(* of another, as QueueInput maps menu onto soft-left.                     *)
(***************************************************************************)
EXTENDS KeyHolds

MCKeyOf == [menu |-> "soft-left", softLeft |-> "soft-left", ok |-> "ok"]
=============================================================================
