---------------------------- MODULE MCOpenStreams ---------------------------
(***************************************************************************)
(* OpenStreams for TLC, with the constants of MCProjectDb.                 *)
(***************************************************************************)
EXTENDS MCProjectDb, OpenStreams
=============================================================================
