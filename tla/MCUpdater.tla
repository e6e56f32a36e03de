----------------------------- MODULE MCUpdater -----------------------------
(* Instances of Updater for TLC.                                           *)
EXTENDS Updater
CONSTANTS watcher, manual
============================================================================
