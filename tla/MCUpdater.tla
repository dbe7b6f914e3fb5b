----------------------------- MODULE MCUpdater -----------------------------
(* An instance of Updater for TLC: the five programs, of which the Manager  *)
(* may be open.  A package holds any of them, the updater included.         *)
EXTENDS Updater

CONSTANTS host, control, manager, engine, updater

MCNames == <<host, control, manager, engine, updater>>
MCOpened == {{updater}, {updater, manager}}
MCPackages == SUBSET Programs
=============================================================================
