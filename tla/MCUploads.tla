----------------------------- MODULE MCUploads -----------------------------
(* An instance of Uploads for TLC. *)
EXTENDS Uploads
=============================================================================
