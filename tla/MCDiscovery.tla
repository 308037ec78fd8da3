---------------------------- MODULE MCDiscovery -----------------------------
(* Small instances of Discovery for TLC, whose constants are model values. *)
EXTENDS Discovery
=============================================================================
