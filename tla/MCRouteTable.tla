---------------------------- MODULE MCRouteTable ----------------------------
(* RouteTable for TLC: one id for each number of bits shared with the master. *)
EXTENDS RouteTable

Zero == [k \in 1 .. Bits |-> 0]
Differing == {[k \in 1 .. Bits |-> IF k = d THEN 1 ELSE 0] : d \in 1 .. Bits - 1} \cup {Zero}
=============================================================================
