------------------------------ MODULE MC_Outbox ------------------------------
(* Outbox for TLC: the constants are given in the .cfg files. *)
EXTENDS Outbox
=============================================================================
