----------------------------- MODULE MCRecovery -----------------------------
(***************************************************************************)
(* Recovery for TLC, with the constants of MCProjectDb.                    *)
(***************************************************************************)
EXTENDS MCProjectDb, Recovery
=============================================================================
