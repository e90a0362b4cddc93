------------------------- MODULE MCRequestLifecycle -------------------------
(***************************************************************************)
(* Instances of RequestLifecycle for TLC.  Two requests and a channel of   *)
(* two events: one request alone fills the channel, and two make every     *)
(* loss possible (a "start", an "end", both).                              *)
(***************************************************************************)
EXTENDS RequestLifecycle, TLC

CONSTANTS r1, r2

MCRequests == {r1, r2}

MCPaths == AllPaths
=============================================================================
