--------------------------- MODULE ProcessProofs ----------------------------
(* Theorems about module Process, for every length of the log queue and    *)
(* every set of optional sinks.                                            *)
EXTENDS Process, TLAPS

(* What the step of main() says of the handlers, of gpobj and of the end.  *)
StepInv ==
    /\ ppc \in Unarmed => ~armed
    /\ ppc \in Owned => gpobj = "object"
    /\ status # "none" => ppc \in {"shutdown", "hung", "gone"}

Inv == TypeOK /\ StepInv

USE ProcessAssumption

LEMMA InvInit == Init => Inv
<1> SUFFICES ASSUME Init PROVE Inv
  OBVIOUS
<1>1. TypeOK
  <2>1. queue \in 0..QueueSize
    BY DEF Init
  <2>2. sinks \in SUBSET (OptionalSinks \cup {"console", "file"})
    BY DEF Init
  <2> QED
    BY <2>1, <2>2 DEF Init, TypeOK, Steps
<1>2. StepInv
  BY DEF Init, StepInv, Owned
<1> QED
  BY <1>1, <1>2 DEF Inv

LEMMA InvStep == Inv /\ [Next]_vars => Inv'
<1> SUFFICES ASSUME Inv, [Next]_vars PROVE Inv'
  OBVIOUS
<1> USE DEF Inv, TypeOK, StepInv, Steps, Unarmed, Owned, logVars, objVars,
            pidVars, sigVars, Enqueue, Remove, End
<1>1. CASE Options  BY <1>1 DEF Options
<1>2. CASE Daemonize  BY <1>2 DEF Daemonize
<1>3. CASE WritePid  BY <1>3 DEF WritePid
<1>4. CASE Chdir  BY <1>4 DEF Chdir
<1>5. CASE SetupSignalHandlers  BY <1>5 DEF SetupSignalHandlers
<1>6. CASE NewControlObject  BY <1>6 DEF NewControlObject
<1>7. CASE InitControlObject
  <2>1. enabled' \in SUBSET OptionalSinks
    BY <1>7 DEF InitControlObject
  <2>2. sinks' \in SUBSET (OptionalSinks \cup {"console", "file"})
    BY <1>7, <2>1 DEF InitControlObject
  <2>3. privileged' \in BOOLEAN
    BY <1>7, Zenon DEF InitControlObject
  <2>4. /\ ppc = "init" /\ ppc' = "logger"
        /\ UNCHANGED <<standalone, pool, queue, gpobj, quit, pidFile, armed,
                       signalled, status>>
    BY <1>7 DEF InitControlObject
  <2> QED
    BY <2>1, <2>2, <2>3, <2>4
<1>8. CASE InitFails  BY <1>8 DEF InitFails
<1>9. CASE InitThrows  BY <1>9 DEF InitThrows
<1>10. CASE SetupLogger  BY <1>10 DEF SetupLogger
<1>11. CASE Run  BY <1>11 DEF Run
<1>12. CASE RunFails  BY <1>12 DEF RunFails
<1>13. CASE LoopEnds  BY <1>13 DEF LoopEnds
<1>14. CASE Cleanup  BY <1>14 DEF Cleanup
<1>15. CASE Delete  BY <1>15 DEF Delete
<1>16. CASE Unlink  BY <1>16 DEF Unlink
<1>17. CASE Shutdown  BY <1>17 DEF Shutdown
<1>18. CASE Log  BY <1>18 DEF Log
<1>19. CASE Drain  BY <1>19 DEF Drain
<1>20. CASE Signal
  <2>1. /\ ppc # "gone" /\ signalled' = TRUE
        /\ UNCHANGED <<standalone, pool, queue, enabled, sinks, gpobj, pidFile,
                       privileged, armed>>
    BY <1>20 DEF Signal
  <2>2. CASE End("killed") \/ End("crashed")
    BY <2>1, <2>2
  <2>3. CASE quit' \in BOOLEAN /\ UNCHANGED <<ppc, status>>
    BY <2>1, <2>3
  <2> QED
    BY <1>20, <2>2, <2>3 DEF Signal
<1>21. CASE Terminated \/ UNCHANGED vars  BY <1>21 DEF Terminated, vars
<1> QED
  BY <1>1, <1>2, <1>3, <1>4, <1>5, <1>6, <1>7, <1>8, <1>9, <1>10, <1>11, <1>12,
     <1>13, <1>14, <1>15, <1>16, <1>17, <1>18, <1>19, <1>20, <1>21
     DEF Next, Main

LEMMA Invariance == Spec => []Inv
  BY InvInit, InvStep, PTL DEF Spec

(* Type correctness; in particular the log queue never exceeds its length. *)
THEOREM TypeCorrect == Spec => []TypeOK
  BY Invariance, PTL DEF Inv

(* A signal crashes the process only where gpobj refers to no object while *)
(* the handlers are installed.                                             *)
THEOREM Crashes == Spec => CrashWindow
<1> DEFINE A == status' = "crashed" /\ status # "crashed"
                  => ppc \in {"new", "unlink", "shutdown", "hung"}
<1>1. Inv /\ [Next]_vars => [A]_vars
  <2> SUFFICES ASSUME Inv, Next, status' = "crashed", status # "crashed"
               PROVE ppc \in {"new", "unlink", "shutdown", "hung"}
    OBVIOUS
  <2>1. Signal
    BY DEF Next, Main, Options, Daemonize, WritePid, Chdir, SetupSignalHandlers,
           NewControlObject, InitControlObject, InitFails, InitThrows, SetupLogger,
           Run, RunFails, LoopEnds, Cleanup, Delete, Unlink, Shutdown, Log, Drain,
           Terminated, vars
  <2>2. armed /\ gpobj # "object" /\ ppc # "gone"
    BY <2>1 DEF Signal, End
  <2> QED
    BY <2>2 DEF Inv, TypeOK, StepInv, Steps, Unarmed, Owned
<1> QED
  BY <1>1, Invariance, PTL DEF Spec, CrashWindow

-----------------------------------------------------------------------------
(* The safety core of StopHonoured: the handler's assignment is not lost.  *)

(* Before there is an object to tell, a signal ends the process.           *)
SignalInv ==
    /\ ppc \in Unarmed \cup {"new"} => ~signalled /\ gpobj = "null"
    /\ StopRemembered

LEMMA SignalStep == Inv /\ SignalInv /\ [Next]_vars => SignalInv'
<1> SUFFICES ASSUME Inv, SignalInv, [Next]_vars PROVE SignalInv'
  OBVIOUS
<1> USE DEF SignalInv, StopRemembered, Unarmed, Owned, objVars, sigVars
<1>1. CASE Options \/ Daemonize \/ WritePid \/ Chdir \/ SetupSignalHandlers
  BY <1>1 DEF Options, Daemonize, WritePid, Chdir, SetupSignalHandlers
<1>2. CASE NewControlObject
  BY <1>2 DEF NewControlObject
<1>3. CASE InitControlObject \/ InitFails \/ InitThrows \/ SetupLogger
  <2>1. /\ UNCHANGED <<quit, signalled>> /\ ppc \in {"init", "logger"}
        /\ ppc' \in {"logger", "shutdown", "gone", "run"}
    BY <1>3 DEF InitControlObject, InitFails, InitThrows, SetupLogger
  <2> QED
    BY <2>1
<1>4. CASE Run \/ RunFails \/ LoopEnds \/ Cleanup \/ Delete \/ Unlink \/ Shutdown
  BY <1>4 DEF Run, RunFails, LoopEnds, Cleanup, Delete, Unlink, Shutdown
<1>5. CASE Log \/ Drain
  BY <1>5 DEF Log, Drain
<1>6. CASE Signal
  <2>1. \/ ppc' = "gone"
        \/ ppc' = ppc /\ armed /\ gpobj # "null" /\ (gpobj = "object" => quit')
    BY <1>6 DEF Signal, End, Inv, TypeOK
  <2> QED
    BY <1>6, <2>1 DEF Signal, Inv, StepInv
<1>7. CASE Terminated \/ UNCHANGED vars
  BY <1>7 DEF Terminated, vars
<1> QED
  BY <1>1, <1>2, <1>3, <1>4, <1>5, <1>6, <1>7 DEF Next, Main

(* A stop signal at any time since the assignment of gpobj is still set    *)
(* when the main loop looks at m_bQuit.                                    *)
THEOREM StopKept == Spec => []StopRemembered
<1>1. Init => SignalInv
  BY DEF Init, SignalInv, StopRemembered, Owned
<1>2. Inv /\ SignalInv /\ [Next]_vars => SignalInv'
  BY SignalStep
<1> QED
  BY <1>1, <1>2, Invariance, PTL DEF Spec, SignalInv

-----------------------------------------------------------------------------
(* What becomes of the messages of a daemon that has forked.               *)

Forked == ~standalone /\ ppc \notin {"options", "daemonize", "gone"}

(* No message ever leaves the queue of the forked process, spdlog's flush  *)
(* and its shutdown included: the thread that would take it stayed behind. *)
QueueOnlyGrows == [][Forked => queue' >= queue]_vars

PoolInv == Forked => ~pool

LEMMA PoolStep == Inv /\ PoolInv /\ [Next]_vars => PoolInv'
<1> SUFFICES ASSUME Inv, PoolInv, [Next]_vars PROVE PoolInv'
  OBVIOUS
<1> USE DEF PoolInv, Forked, logVars, Enqueue
<1>1. CASE Options
  BY <1>1 DEF Options
<1>2. CASE Daemonize
  BY <1>2 DEF Daemonize
<1>3. CASE WritePid \/ Chdir \/ SetupSignalHandlers \/ NewControlObject
  BY <1>3 DEF WritePid, Chdir, SetupSignalHandlers, NewControlObject
<1>4. CASE InitControlObject \/ InitFails \/ InitThrows \/ SetupLogger
  <2>1. UNCHANGED <<standalone, pool>> /\ ppc \in {"init", "logger"}
    BY <1>4 DEF InitControlObject, InitFails, InitThrows, SetupLogger
  <2> QED
    BY <2>1
<1>5. CASE Run \/ RunFails \/ LoopEnds \/ Cleanup \/ Delete \/ Unlink \/ Shutdown
  BY <1>5 DEF Run, RunFails, LoopEnds, Cleanup, Delete, Unlink, Shutdown
<1>6. CASE Log \/ Drain
  BY <1>6 DEF Log, Drain
<1>7. CASE Signal
  <2>1. UNCHANGED <<standalone, pool>> /\ (ppc' = "gone" \/ ppc' = ppc)
    BY <1>7 DEF Signal, End
  <2> QED
    BY <2>1
<1>8. CASE Terminated \/ UNCHANGED vars
  BY <1>8 DEF Terminated, vars
<1> QED
  BY <1>1, <1>2, <1>3, <1>4, <1>5, <1>6, <1>7, <1>8 DEF Next, Main

(* A forked daemon writes none of the messages it logs, for every length   *)
(* of the queue.                                                           *)
THEOREM ForkedQueue == Spec => QueueOnlyGrows
<1>1. Spec => []PoolInv
  <2>1. Init => PoolInv
    BY DEF Init, PoolInv, Forked
  <2>2. Inv /\ PoolInv /\ [Next]_vars => PoolInv'
    BY PoolStep
  <2> QED
    BY <2>1, <2>2, Invariance, PTL DEF Spec
<1>2. Inv /\ PoolInv /\ [Next]_vars => [Forked => queue' >= queue]_vars
  <2> SUFFICES ASSUME Inv, PoolInv, Next, Forked PROVE queue' >= queue
    OBVIOUS
  <2>1. ~pool /\ queue \in Nat /\ ppc \notin {"options", "daemonize", "gone"}
    BY DEF PoolInv, Forked, Inv, TypeOK
  <2>2. \/ queue' = queue \/ Enqueue
        \/ Shutdown /\ queue' = queue
    BY <2>1 DEF Next, Main, Options, Daemonize, WritePid, Chdir, SetupSignalHandlers,
       NewControlObject, InitControlObject, InitFails, InitThrows, SetupLogger,
       Run, RunFails, LoopEnds, Cleanup, Delete, Unlink, Shutdown, Log, Drain,
       Signal, Terminated, vars, logVars
  <2> QED
    BY <2>1, <2>2 DEF Enqueue
<1> QED
  BY <1>1, <1>2, Invariance, PTL DEF Spec, QueueOnlyGrows
=============================================================================
