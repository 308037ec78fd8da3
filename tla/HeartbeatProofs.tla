-------------------------- MODULE HeartbeatProofs ---------------------------
(* Theorems about module Heartbeat, for every delay of a pass and every    *)
(* way of setting the clock.                                               *)
EXTENDS Heartbeat, TLAPS

(* The clock against real time.  What the clock has advanced since the     *)
(* saved reading, plus what it was set back, is never less than the time   *)
(* that has really passed since the last heartbeat.                        *)
ClockInv ==
    /\ clock - old_now + setBack >= 0
    /\ hpc # "send" => up - lastBeat <= clock - old_now + setBack

(* SilenceBounded step by step: a test that sends no heartbeat leaves a    *)
(* silence of a minute, and each boundary crossed since then adds a second.*)
SilenceInv ==
    /\ hpc = "sleep" => up - lastBeat <= 60 + ticks + setBack
    /\ hpc \in {"test", "save"} =>
         up - lastBeat <= 60 + MaxTicks + ticks + setBack

(* As long as the clock is not set: it is real time, the last heartbeat    *)
(* was sent in the pass of the saved reading, and a heartbeat about to be  *)
(* sent comes 61 seconds after the saved reading before it.                *)
UnsetInv ==
    sets = 0 =>
      /\ clock = up
      /\ beats > 0 /\ hpc # "send" => lastBeat <= old_now + MaxTicks
      /\ hpc = "save" => up - old_now > 60
      /\ hpc = "send" => /\ up - old_now <= ticks
                         /\ beats > 0 => up - lastBeat >= 61 - MaxTicks

(* Before the first heartbeat nothing has been saved: the clock is still   *)
(* compared with the reading that run() made a minute older.               *)
FirstInv ==
    beats = 0 /\ hpc # "send" =>
      /\ old_now = -60 /\ up <= clock + setBack
      /\ hpc = "sleep" => up <= ticks + setBack
      /\ hpc \in {"test", "save"} => up <= MaxTicks + ticks + setBack

Inv == TypeOK /\ ClockInv /\ SilenceInv /\ UnsetInv /\ FirstInv

USE HeartbeatAssumption

(* The main loop is entered with a saved reading of a minute ago.          *)
LEMMA InvInit == Init => Inv
BY DEF Init, Inv, TypeOK, ClockInv, SilenceInv, UnsetInv, FirstInv

LEMMA TypeStep == TypeOK /\ [Next]_vars => TypeOK'
<1> SUFFICES ASSUME TypeOK, [Next]_vars PROVE TypeOK'
  OBVIOUS
<1> USE DEF TypeOK
<1>1. CASE Test  BY <1>1 DEF Test
<1>2. CASE Save  BY <1>2 DEF Save
<1>3. CASE PeriodicEvents  BY <1>3 DEF PeriodicEvents
<1>4. CASE Sleep  BY <1>4 DEF Sleep
<1>5. CASE Tick  BY <1>5 DEF Tick
<1>6. CASE SetClock
  <2> PICK s \in Shifts : /\ clock' = clock + s
                          /\ setBack' = IF s < 0 THEN setBack - s ELSE setBack
    BY <1>6 DEF SetClock
  <2> QED
    BY <1>6 DEF SetClock
<1>7. CASE UNCHANGED vars  BY <1>7 DEF vars
<1> QED
  BY <1>1, <1>2, <1>3, <1>4, <1>5, <1>6, <1>7 DEF Next

LEMMA ClockStep == Inv /\ [Next]_vars => ClockInv' /\ SilenceInv'
<1> SUFFICES ASSUME Inv, [Next]_vars PROVE ClockInv' /\ SilenceInv'
  OBVIOUS
<1> USE DEF Inv, TypeOK, ClockInv, SilenceInv
<1>1. CASE Test  BY <1>1 DEF Test
<1>2. CASE Save  BY <1>2 DEF Save
<1>3. CASE PeriodicEvents  BY <1>3 DEF PeriodicEvents
<1>4. CASE Sleep  BY <1>4 DEF Sleep
<1>5. CASE Tick  BY <1>5 DEF Tick
<1>6. CASE SetClock
  <2> PICK s \in Shifts : /\ clock' = clock + s
                          /\ setBack' = IF s < 0 THEN setBack - s ELSE setBack
    BY <1>6 DEF SetClock
  <2> QED
    BY <1>6 DEF SetClock
<1>7. CASE UNCHANGED vars  BY <1>7 DEF vars
<1> QED
  BY <1>1, <1>2, <1>3, <1>4, <1>5, <1>6, <1>7 DEF Next

LEMMA UnsetStep == Inv /\ [Next]_vars => UnsetInv'
<1> SUFFICES ASSUME Inv, [Next]_vars PROVE UnsetInv'
  OBVIOUS
<1> USE DEF Inv, TypeOK, UnsetInv
<1>1. CASE Test  BY <1>1 DEF Test
<1>2. CASE Save  BY <1>2 DEF Save
<1>3. CASE PeriodicEvents  BY <1>3 DEF PeriodicEvents
<1>4. CASE Sleep  BY <1>4 DEF Sleep
<1>5. CASE Tick  BY <1>5 DEF Tick
<1>6. CASE SetClock  BY <1>6 DEF SetClock
<1>7. CASE UNCHANGED vars  BY <1>7 DEF vars
<1> QED
  BY <1>1, <1>2, <1>3, <1>4, <1>5, <1>6, <1>7 DEF Next

LEMMA FirstStep == Inv /\ [Next]_vars => FirstInv'
<1> SUFFICES ASSUME Inv, [Next]_vars PROVE FirstInv'
  OBVIOUS
<1> USE DEF Inv, TypeOK, FirstInv
<1>1. CASE Test  BY <1>1 DEF Test
<1>2. CASE Save  BY <1>2 DEF Save
<1>3. CASE PeriodicEvents  BY <1>3 DEF PeriodicEvents
<1>4. CASE Sleep  BY <1>4 DEF Sleep
<1>5. CASE Tick  BY <1>5 DEF Tick
<1>6. CASE SetClock
  <2> PICK s \in Shifts : /\ clock' = clock + s
                          /\ setBack' = IF s < 0 THEN setBack - s ELSE setBack
    BY <1>6 DEF SetClock
  <2> QED
    BY <1>6 DEF SetClock
<1>7. CASE UNCHANGED vars  BY <1>7 DEF vars
<1> QED
  BY <1>1, <1>2, <1>3, <1>4, <1>5, <1>6, <1>7 DEF Next

(* The inductive invariant holds in every reachable state.                 *)
THEOREM Invariance == Spec => []Inv
<1>1. Init => Inv
  BY InvInit
<1>2. Inv /\ [Next]_vars => Inv'
  BY TypeStep, ClockStep, UnsetStep, FirstStep DEF Inv
<1> QED
  BY <1>1, <1>2, PTL DEF Spec

(* The heartbeat is type correct.                                          *)
THEOREM TypeCorrect == Spec => []TypeOK
BY Invariance, PTL DEF Inv

(* Whatever the clock does and however long a pass takes, the main loop is *)
(* silent for a minute and two passes at most, plus what the clock was set *)
(* back.                                                                   *)
THEOREM Silence == Spec => []SilenceBounded
<1>1. Inv => SilenceBounded
  BY DEF Inv, TypeOK, SilenceInv, SilenceBounded
<1> QED
  BY Invariance, <1>1, PTL

(* The first heartbeat is as little late as two passes allow.              *)
THEOREM First == Spec => []FirstBeat
<1>1. Inv => FirstBeat
  BY DEF Inv, TypeOK, FirstInv, FirstBeat
<1> QED
  BY Invariance, <1>1, PTL

(* With a clock nobody sets, periodicEvents() is never called twice within *)
(* 61 seconds less one pass.                                               *)
THEOREM Bursts == Spec => NoBurst
<1> DEFINE A == beats' > beats /\ beats > 0 /\ sets = 0
                  => up - lastBeat >= 61 - MaxTicks
<1>1. Inv /\ [Next]_vars => [A]_vars
  <2> SUFFICES ASSUME Inv, [Next]_vars, beats' > beats, beats > 0, sets = 0
               PROVE up - lastBeat >= 61 - MaxTicks
    OBVIOUS
  <2>1. hpc = "send"
    BY DEF Next, Test, Save, PeriodicEvents, Sleep, Tick, SetClock, vars, Inv, TypeOK
  <2> QED
    BY <2>1 DEF Inv, UnsetInv
<1> QED
  BY Invariance, <1>1, PTL DEF Spec, NoBurst
=============================================================================
