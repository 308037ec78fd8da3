----------------------------- MODULE Heartbeat ------------------------------
(***************************************************************************)
(* The heartbeat of the main loop in CControlObject::run()                 *)
(* (src/src/controlobject.cpp): every pass reads CLOCK_REALTIME and, when  *)
(* more than 60 seconds have passed since the saved reading, saves a new   *)
(* reading and calls periodicEvents().                                     *)
(*                                                                         *)
(* Time is in whole seconds, as tv_sec is.  up is real time; clock is what *)
(* CLOCK_REALTIME shows, which an administrator or NTP may set.  A pass    *)
(* without a heartbeat takes 5 ms; one with a heartbeat also four          *)
(* publishes and the gethostbyname() of getIPAddress(), which may wait for *)
(* a name server: at most MaxTicks second boundaries fall into a pass.     *)
(***************************************************************************)
EXTENDS Integers

CONSTANTS
    MaxUp,    \* bound on the seconds explored
    MaxTicks, \* second boundaries that may fall into one pass
    Shifts,   \* by how much CLOCK_REALTIME may be set, in seconds
    MaxSets   \* bound on how often

ASSUME HeartbeatAssumption ==
    MaxUp \in Nat /\ MaxTicks \in Nat /\ Shifts \subseteq Int /\ MaxSets \in Nat

VARIABLES
    up,        \* seconds since the main loop was entered
    clock,     \* CLOCK_REALTIME, tv_sec
    old_now,   \* the saved reading
    hpc,       \* "test", "save", "send" or "sleep"
    ticks,     \* second boundaries that fell into this pass
    lastBeat,  \* up at the last call of periodicEvents()
    beats,     \* calls of periodicEvents()
    setBack,   \* seconds the clock was set back since the saved reading
    sets       \* how often it was set at all

vars == <<up, clock, old_now, hpc, ticks, lastBeat, beats, setBack, sets>>

(* Faulty variant of Init: old_now not moved back.                         *)
InitNow ==
    /\ up = 0 /\ clock = 0 /\ old_now = 0 /\ hpc = "test" /\ ticks = 0
    /\ lastBeat = 0 /\ beats = 0 /\ setBack = 0 /\ sets = 0

(* clock_gettime(&old_now); old_now.tv_sec -= 60;                          *)
Init ==
    /\ up = 0
    /\ clock = 0
    /\ old_now = -60
    /\ hpc = "test"
    /\ ticks = 0
    /\ lastBeat = 0
    /\ beats = 0
    /\ setBack = 0
    /\ sets = 0

-----------------------------------------------------------------------------
(* Faulty variants of actions below, used in no specification.             *)

(* A minute taken for a hundred seconds.                                   *)
TestHundred ==
    /\ hpc = "test"
    /\ hpc' = IF clock - old_now > 100 THEN "save" ELSE "sleep"
    /\ UNCHANGED <<up, clock, old_now, ticks, lastBeat, beats, setBack, sets>>

(* The reading not saved.                                                  *)
SaveForgotten ==
    /\ hpc = "save"
    /\ hpc' = "send"
    /\ UNCHANGED <<up, clock, old_now, ticks, lastBeat, beats, setBack, sets>>

(* A failure to send taken as the end of the main loop.                    *)
PeriodicEventsFatal ==
    /\ hpc = "send"
    /\ hpc' \in {"sleep", "left"}
    /\ lastBeat' = up
    /\ beats' = beats + 1
    /\ UNCHANGED <<up, clock, old_now, ticks, setBack, sets>>

-----------------------------------------------------------------------------
Test ==
    /\ hpc = "test"
    /\ hpc' = IF clock - old_now > 60 THEN "save" ELSE "sleep"
    /\ UNCHANGED <<up, clock, old_now, ticks, lastBeat, beats, setBack, sets>>

(* The clock is read a second time.                                        *)
Save ==
    /\ hpc = "save"
    /\ hpc' = "send"
    /\ old_now' = clock
    /\ setBack' = 0
    /\ UNCHANGED <<up, clock, ticks, lastBeat, beats, sets>>

(* periodicEvents(): four events on the daemon's client, whose failures    *)
(* are only logged.                                                        *)
PeriodicEvents ==
    /\ hpc = "send"
    /\ hpc' = "sleep"
    /\ lastBeat' = up
    /\ beats' = beats + 1
    /\ UNCHANGED <<up, clock, old_now, ticks, setBack, sets>>

(* usleep(5000)                                                            *)
Sleep ==
    /\ hpc = "sleep"
    /\ hpc' = "test"
    /\ ticks' = 0
    /\ UNCHANGED <<up, clock, old_now, lastBeat, beats, setBack, sets>>

Tick ==
    /\ ticks < MaxTicks /\ up < MaxUp
    /\ ticks' = ticks + 1
    /\ up' = up + 1
    /\ clock' = clock + 1
    /\ UNCHANGED <<old_now, hpc, lastBeat, beats, setBack, sets>>

SetClock ==
    /\ sets < MaxSets
    /\ \E s \in Shifts :
         /\ clock' = clock + s
         /\ setBack' = IF s < 0 THEN setBack - s ELSE setBack
    /\ sets' = sets + 1
    /\ UNCHANGED <<up, old_now, hpc, ticks, lastBeat, beats>>

Next == Test \/ Save \/ PeriodicEvents \/ Sleep \/ Tick \/ SetClock

Spec == Init /\ [][Next]_vars

-----------------------------------------------------------------------------
(* Properties.                                                             *)

(* Every variable of the heartbeat keeps its type.                         *)
TypeOK ==
    /\ up \in 0..MaxUp /\ lastBeat \in 0..MaxUp
    /\ clock \in Int /\ old_now \in Int /\ setBack \in Nat
    /\ hpc \in {"test", "save", "send", "sleep"}
    /\ ticks \in 0..MaxTicks
    /\ beats \in Nat
    /\ sets \in 0..MaxSets

(* Until the next periodicEvents() is due, the heartbeat has been silent   *)
(* for at most a minute and two passes plus the seconds the clock was set  *)
(* back meanwhile: run() compares wall-clock readings, so a clock set back *)
(* by an hour is an hour of silence, and a name server that is slow to     *)
(* answer delays the next heartbeat only by its own delay.                 *)
SilenceBounded ==
    hpc # "send" => up - lastBeat <= 60 + 2 * MaxTicks + setBack

(* As long as the clock is not set, two heartbeats are at least 61 seconds *)
(* less the seconds of one pass apart: the reading is saved before the     *)
(* heartbeat is sent, so a slow name server brings the next heartbeat      *)
(* closer by its delay, but the 5 ms passes of the loop send no burst.     *)
NoBurst ==
    [][beats' > beats /\ beats > 0 /\ sets = 0
         => up - lastBeat >= 61 - MaxTicks]_vars

(* The first heartbeat waits for no more than the seconds of two passes,   *)
(* plus what the clock was set back: old_now is moved back by 60 seconds   *)
(* to "Do first send right away".  (It is not sent in the first pass: the  *)
(* test asks for more than the 60 seconds old_now was moved back by.)      *)
FirstBeat == beats = 0 /\ hpc # "send" => up <= 2 * MaxTicks + setBack
=============================================================================
