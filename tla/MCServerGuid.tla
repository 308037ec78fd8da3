---------------------------- MODULE MCServerGuid ----------------------------
(* A small instance of ServerGuid for TLC: an array for three addresses    *)
(* and a host with up to four of them.                                     *)
EXTENDS ServerGuid

MCAddresses == {<<10, 0, 0, 1>>, <<192, 168, 1, 2>>}
MCMacs == {<<2, 0, 94, 16, 0, 254>>}
=============================================================================
