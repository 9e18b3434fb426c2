---------------------------- MODULE MCFileLayout ----------------------------
(* An instance of FileLayout for TLC, with the text its torrents come from. *)
EXTENDS Metainfo
=============================================================================
