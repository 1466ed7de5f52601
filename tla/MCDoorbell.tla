----------------------------- MODULE MCDoorbell -----------------------------
(* Small instances of the doorbell for TLC; see the .cfg files. *)
EXTENDS Doorbell
=============================================================================
