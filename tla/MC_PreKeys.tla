----------------------------- MODULE MC_PreKeys -----------------------------
(* PreKeys for TLC: the constants are given in Keys_v_rotation.cfg. *)
EXTENDS PreKeys, TLC
=============================================================================
