--------------------------- MODULE MCMaintenance ---------------------------
(***************************************************************************)
(* Three papers in two shards, and two releases.                           *)
(***************************************************************************)
EXTENDS Maintenance
=============================================================================
