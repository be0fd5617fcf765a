---------------------------- MODULE MCCloudSync ----------------------------
(* Two backups, of which each side keeps the newer. *)
EXTENDS CloudSync, TLC
=============================================================================
