----------------------------- MODULE MCFailures -----------------------------
(***************************************************************************)
(* Failures for TLC, with the constants of MCProjectDb.                    *)
(***************************************************************************)
EXTENDS MCProjectDb, Failures
=============================================================================
