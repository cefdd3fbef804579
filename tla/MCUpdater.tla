----------------------------- MODULE MCUpdater -----------------------------
(***************************************************************************)
(* An instance of Updater for TLC: three releases, the second of which     *)
(* never gets a heartbeat accepted.                                        *)
(***************************************************************************)
EXTENDS Updater

WorkingReleases == {1, 3}
=============================================================================
