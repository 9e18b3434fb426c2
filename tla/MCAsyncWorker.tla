--------------------------- MODULE MCAsyncWorker ---------------------------
(* Small pools of threads for TLC: used as the client does, and in every way. *)
EXTENDS AsyncWorker
=============================================================================
