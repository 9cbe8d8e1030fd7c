----------------------------- MODULE MCPolling -----------------------------
(***************************************************************************)
(* Values for Polling's configurations: two feeds share a host.            *)
(***************************************************************************)
EXTENDS Polling

CONSTANTS f1, f2

TwoOnOneHost == [f \in Feeds |-> IF f = f2 THEN f1 ELSE f]
=============================================================================
