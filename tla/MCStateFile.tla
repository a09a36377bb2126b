---------------------------- MODULE MCStateFile ----------------------------
(* Small instances of StateFile for TLC; the values are in the .cfg files. *)
EXTENDS StateFile

=============================================================================
