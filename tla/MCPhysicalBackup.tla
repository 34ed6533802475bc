---------------------------- MODULE MCPhysicalBackup ----------------------------
(* Two backups of the same two databases, in opposite orders. *)
EXTENDS PhysicalBackup

CONSTANTS d1, d2, j1, j2

OppositeOrders == [j \in Jobs |-> IF j = j1 THEN <<d1, d2>> ELSE <<d2, d1>>]
=============================================================================
