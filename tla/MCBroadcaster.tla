---------------------------- MODULE MCBroadcaster ----------------------------
(***************************************************************************)
(* Instances of Broadcaster for TLC.                                       *)
(***************************************************************************)
EXTENDS Broadcaster

CONSTANTS desktop, phone, turn, mainLoop, chat, everyone
=============================================================================
