---------------------------- MODULE MC_PeerTrust ----------------------------
(* PeerTrust for TLC: the constants are given in the .cfg files. *)
EXTENDS PeerTrust
=============================================================================
