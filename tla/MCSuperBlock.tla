---------------------------- MODULE MCSuperBlock ----------------------------
(* Model of SuperBlock for TLC: two values and five epochs, so that both   *)
(* slots are overwritten at least twice and a reader can be overtaken.     *)
EXTENDS SuperBlock
=============================================================================
