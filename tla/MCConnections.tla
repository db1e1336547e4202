--------------------------- MODULE MCConnections ---------------------------
(* Small instances of Connections for TLC.                                 *)
EXTENDS Connections

CONSTANTS
  k1, k2,         \* the connections
  OnSecond,       \* the requests for k2; the others are for k1
  Removed         \* what every one of Removes removes

MCHome == [r \in Requests |-> IF r \in OnSecond THEN k2 ELSE k1]

MCSubject == [r \in Removes |-> Removed]
=============================================================================
