------------------------------- MODULE MCWire -------------------------------
(* Wire for TLC: a torrent whose pieces do not fill their last byte. *)
EXTENDS Wire

\* Contents of a block.
Data == {<<7>>}
=============================================================================
