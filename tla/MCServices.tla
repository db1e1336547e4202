----------------------------- MODULE MCServices -----------------------------
(***************************************************************************)
(* Services with one service and a call of it, one subscription and a      *)
(* signal for it.                                                          *)
(***************************************************************************)
EXTENDS Services

CONSTANTS s1, b1, c1, g1

MCFor == [m \in Messages |-> IF m = c1 THEN {s1} ELSE Subscriptions]
=============================================================================
