---------------------------- MODULE MCEventPath -----------------------------
(* A small instance of EventPath for TLC: one measurement class and two    *)
(* others at the ends of the range, empty and full payloads, and date      *)
(* blocks on both sides of every limit.                                    *)
EXTENDS EventPath

MCDates == [year : {0, 1, 65534, 65535}, month : {0, 1, 12, 13},
            day : {0, 1, 31, 32}, hour : {23, 24}, minute : {59, 60},
            second : {59, 60}]
MCDateTimes == {-1, 0, 7}
=============================================================================
