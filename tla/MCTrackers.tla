----------------------------- MODULE MCTrackers -----------------------------
(* An instance of Trackers for TLC. *)
EXTENDS Trackers, TLC

CONSTANTS t1, t2

Mixed == t1 :> "udp" @@ t2 :> "http"
=============================================================================
