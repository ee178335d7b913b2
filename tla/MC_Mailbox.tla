----------------------------- MODULE MC_Mailbox -----------------------------
(* Mailbox for TLC: the constants are given in the .cfg files. *)
EXTENDS Mailbox
=============================================================================
