---------------------------- MODULE MCHeartbeat -----------------------------
(* A small instance of Heartbeat for TLC: the clock is set at most twice,  *)
(* back by 30 or forward by 45 seconds.                                    *)
EXTENDS Heartbeat

MCShifts == {-30, 45}
=============================================================================
