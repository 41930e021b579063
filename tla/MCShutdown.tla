----------------------------- MODULE MCShutdown -----------------------------
(***************************************************************************)
(* Small instances of Shutdown for TLC.                                    *)
(***************************************************************************)
EXTENDS Shutdown

CONSTANTS ward1, ward2

=============================================================================
