------------------------------- MODULE Daemon -------------------------------
(***************************************************************************)
(* The daemon process from CControlObject::run() to the end of main(): the *)
(* main thread that starts, stops, joins and destroys the drivers of       *)
(* DeviceItem, composed with their threads and with the signal handler     *)
(* that asks the daemon to stop (src/src/controlobject.cpp,                *)
(* src/src/mqttvscpd.cpp).                                                 *)
(*                                                                         *)
(* cleanup() runs twice: at the end of run() and again in main().  The     *)
(* heartbeat of the main loop changes no state of this module.             *)
(***************************************************************************)
EXTENDS DeviceItem

VARIABLES
    mpc,              \* control point of the main thread
    it,               \* its iterator over m_devItemList
    cleanups,         \* completed calls of cleanup()
    m_bThreadStarted, \* of each item; only the main thread touches it
    mainMqtt,         \* is the control object's own client connected?
    quit              \* CControlObject::m_bQuit

mainVars == <<mpc, it, cleanups, m_bThreadStarted, mainMqtt, quit>>
vars == <<itemVars, mainVars>>

Init ==
    /\ ItemInit
    /\ mpc = "init_mqtt"
    /\ it = 1
    /\ cleanups = 0
    /\ m_bThreadStarted = [d \in Driver |-> FALSE]
    /\ mainMqtt = FALSE
    /\ quit = FALSE

-----------------------------------------------------------------------------
(* Faulty variants of actions below, used in no specification.             *)

(* stopDriver() joins without asking the thread to quit.                   *)
StopDriverSilently ==
    /\ mpc = "stop" /\ it \in Driver
    /\ mpc' = "join"
    /\ UNCHANGED <<itemVars, it, cleanups, m_bThreadStarted, mainMqtt, quit>>

(* stopDriver() does not wait for the thread.                              *)
JoinDriverDetached ==
    /\ mpc = "join"
    /\ mpc' = "stop" /\ it' = it + 1
    /\ UNCHANGED <<itemVars, cleanups, m_bThreadStarted, mainMqtt, quit>>

(* m_bThreadStarted not reset after the join.                              *)
JoinDriverFlagged ==
    /\ mpc = "join"
    /\ IF m_bThreadStarted[it] THEN Goto(it, "done", "joined") ELSE UNCHANGED pc
    /\ mpc' = "stop" /\ it' = it + 1
    /\ UNCHANGED <<threadVars, m_bQuit, m_deviceMutex, mqtt, callbackVars,
                   cleanups, m_bThreadStarted, mainMqtt, quit>>

-----------------------------------------------------------------------------
(* run(): start the daemon's MQTT client and the drivers.                  *)

(* init_mqtt().  Without a broker run() returns false and main() exits.    *)
InitMqtt ==
    /\ mpc = "init_mqtt"
    /\ \/ mpc' = "start" /\ mainMqtt' = TRUE
       \/ mpc' = "exit" /\ UNCHANGED mainMqtt
    /\ UNCHANGED <<itemVars, it, cleanups, m_bThreadStarted, quit>>

(* startDriver() for the next item.  The loop ignores a pthread_create()   *)
(* that fails and goes on with the remaining items.                        *)
StartDriver ==
    /\ mpc = "start" /\ it \in Driver
    /\ \/ /\ Goto(it, "none", "load")
          /\ m_bThreadStarted' = [m_bThreadStarted EXCEPT ![it] = TRUE]
       \/ UNCHANGED <<pc, m_bThreadStarted>>
    /\ it' = it + 1
    /\ UNCHANGED <<threadVars, m_bQuit, m_deviceMutex, mqtt, callbackVars,
                   mpc, cleanups, mainMqtt, quit>>

DriversStarted ==
    /\ mpc = "start" /\ it \notin Driver
    /\ mpc' = "run"
    /\ UNCHANGED <<itemVars, it, cleanups, m_bThreadStarted, mainMqtt, quit>>

(* The main loop ends and cleanup() is called.                             *)
MainLoopEnds ==
    /\ mpc = "run" /\ quit
    /\ mpc' = "stop" /\ it' = 1
    /\ UNCHANGED <<itemVars, cleanups, m_bThreadStarted, mainMqtt, quit>>

-----------------------------------------------------------------------------
(* cleanup(): stopDriver() for one item after the other, then the client.  *)

StopDriver ==
    /\ mpc = "stop" /\ it \in Driver
    /\ m_bQuit' = [m_bQuit EXCEPT ![it] = TRUE]
    /\ mpc' = "join"
    /\ UNCHANGED <<pc, threadVars, m_deviceMutex, mqtt, callbackVars,
                   it, cleanups, m_bThreadStarted, mainMqtt, quit>>

(* pthread_join() returns when deviceThread() has returned.                *)
JoinDriver ==
    /\ mpc = "join"
    /\ IF m_bThreadStarted[it]
       THEN /\ Goto(it, "done", "joined")
            /\ m_bThreadStarted' = [m_bThreadStarted EXCEPT ![it] = FALSE]
       ELSE UNCHANGED <<pc, m_bThreadStarted>>
    /\ mpc' = "stop" /\ it' = it + 1
    /\ UNCHANGED <<threadVars, m_bQuit, m_deviceMutex, mqtt, callbackVars,
                   cleanups, mainMqtt, quit>>

(* The rest of cleanup(): m_mqttClient.disconnect().  The first call was   *)
(* run()'s, after which main() calls it again; the second is main()'s.     *)
DisconnectMain ==
    /\ mpc = "stop" /\ it \notin Driver
    /\ mainMqtt' = FALSE
    /\ cleanups' = cleanups + 1
    /\ IF cleanups = 0
       THEN mpc' = "stop" /\ it' = 1
       ELSE mpc' = "delete" /\ UNCHANGED it
    /\ UNCHANGED <<itemVars, m_bThreadStarted, quit>>

(* delete gpobj: the database is closed, the mutexes and items destroyed.  *)
DeleteControlObject ==
    /\ mpc = "delete"
    /\ mpc' = "exit"
    /\ UNCHANGED <<itemVars, it, cleanups, m_bThreadStarted, mainMqtt, quit>>

MainThread ==
    \/ InitMqtt \/ StartDriver \/ DriversStarted \/ MainLoopEnds
    \/ StopDriver \/ JoinDriver \/ DisconnectMain \/ DeleteControlObject

-----------------------------------------------------------------------------
(* _sighandlerStop(), at any time while the control object exists.         *)
Signal ==
    /\ mpc # "exit"
    /\ quit' = TRUE
    /\ UNCHANGED <<itemVars, mpc, it, cleanups, m_bThreadStarted, mainMqtt>>

Crashed == \E d \in Driver : NullCall(d)
Exited == mpc = "exit"

ThreadStep(d) == ~Crashed /\ ~Exited /\ DeviceThread(d) /\ UNCHANGED mainVars
DeliverStep(d) == ~Crashed /\ ~Exited /\ CbDeliver(d) /\ UNCHANGED mainVars
CallbackStep(d) == ~Crashed /\ ~Exited /\ Callback(d) /\ UNCHANGED mainVars
MainStep == ~Crashed /\ MainThread
SignalStep == ~Crashed /\ Signal

(* The process is gone; everything else that stops is a deadlock.          *)
Terminated == (Exited \/ Crashed) /\ UNCHANGED vars

Next ==
    \/ \E d \in Driver : ThreadStep(d) \/ DeliverStep(d) \/ CallbackStep(d)
    \/ MainStep
    \/ SignalStep
    \/ Terminated

(* Threads are scheduled and driver calls return (they carry a timeout).   *)
(* Nothing obliges a signal or a message to arrive.                        *)
Fairness ==
    /\ \A d \in Driver : WF_vars(ThreadStep(d)) /\ WF_vars(CallbackStep(d))
    /\ WF_vars(MainStep)

Spec == Init /\ [][Next]_vars
FairSpec == Spec /\ Fairness

-----------------------------------------------------------------------------
(* Properties.                                                             *)

MainPoints == {"init_mqtt", "start", "run", "stop", "join", "delete", "exit"}

(* Every variable of the daemon keeps its type.                            *)
TypeOK ==
    /\ ItemTypeOK
    /\ mpc \in MainPoints
    /\ it \in 1..(N + 1)
    /\ cleanups \in 0..2
    /\ m_bThreadStarted \in [Driver -> BOOLEAN]
    /\ mainMqtt \in BOOLEAN
    /\ quit \in BOOLEAN

(* The callback enters a driver only while its library is mapped and its   *)
(* channel open under the handle it passes, and through a pointer that was *)
(* resolved; the one exception is a Level I driver whose CanalGetLevel()   *)
(* answered 2, which sends the callback through the NULL m_proc_VSCPWrite  *)
(* (devicethread.cpp, receive_event_callback and line 455).                *)
CallbackCallSafe ==
    \A d \in Driver : cb[d] = "call" =>
        /\ loaded[d] /\ channel[d] = "open" /\ m_openHandle[d] # 0
        /\ \/ cbProc[d] \in procs[d]
           \/ branch[d] = 1 /\ m_driverLevel[d] = 2

(* The device thread reads, asks the level of and closes a driver only     *)
(* while its library is mapped and its channel open, through pointers it   *)
(* has resolved, and never closes it while the callback is inside it       *)
(* ("Serialize driver access against close in the device thread").         *)
ThreadCallSafe ==
    \A d \in Driver :
        /\ pc[d] \in {"level", "read", "close"} =>
              loaded[d] /\ channel[d] = "open" /\ m_openHandle[d] # 0
        /\ pc[d] = "level" => "CanalGetLevel" \in procs[d]
        /\ pc[d] = "read" => ReadProcs(d) \subseteq procs[d]
        /\ pc[d] = "close" => CloseProc(d) \in procs[d] /\ cb[d] # "call"

(* A device thread reports discovered nodes on the control object's client *)
(* and publishes events on its own only while these are connected: cleanup *)
(* joins every driver before it disconnects the daemon's client.           *)
SendsWhileConnected ==
    \A d \in Driver :
        /\ pc[d] = "discovery" => mainMqtt
        /\ pc[d] = "send" => mqtt[d]

(* When the control object and its items are deleted no device thread      *)
(* runs, and no callback either if disconnect() joins the client's thread. *)
QuiescentAtDelete ==
    mpc \in {"delete", "exit"} => \A d \in Driver :
        /\ pc[d] \in {"none", "joined"}
        /\ DisconnectJoins => cb[d] = "idle"

(* pthread_join() is called only on a thread that was created and not yet  *)
(* joined, although cleanup() and with it stopDriver() runs twice.         *)
JoinsOnce ==
    mpc = "join" /\ m_bThreadStarted[it] => pc[it] \notin {"none", "joined"}

(* What a device thread may leave behind, whichever way it ends.  The      *)
(* client is disconnected and the mutex free of the thread, always.  A     *)
(* library stays mapped only if a symbol was missing, and then it was      *)
(* never opened.  A Level II driver is never left open, and no handle is   *)
(* left of it.  A Level I driver is left open, in an unmapped library,     *)
(* only where the broker refused the connection; such a handle, or the     *)
(* negative one of a failed CanalOpen(), would pass the test of the        *)
(* receive callback, so no callback may run that could see it.             *)
ReleasedAtEnd ==
    \A d \in Driver : pc[d] \in {"done", "joined"} =>
        /\ ~mqtt[d] /\ m_deviceMutex[d] # "thread"
        /\ loaded[d] => procs[d] = {} /\ channel[d] = "new"
        /\ branch[d] = 2 => channel[d] # "open" /\ m_openHandle[d] = 0
        /\ channel[d] = "closed" => m_openHandle[d] = 0
        /\ m_openHandle[d] # 0 => cb[d] = "idle"

(* The waits of the shutdown: the device thread's for the mutex and for    *)
(* the end of disconnect(), the callback's for the mutex.                  *)
ThreadWaits(d) ==
    \/ pc[d] = "lock" /\ m_deviceMutex[d] # "free"
    \/ pc[d] = "disconnecting" /\ DisconnectJoins /\ cb[d] # "idle"
CallbackWaits(d) == cb[d] = "lock" /\ m_deviceMutex[d] # "free"

(* The waits never close to a circle and never wait for nobody: the main   *)
(* thread joins only a live thread that has been told to quit; a device    *)
(* thread that waits at its end waits for a callback that is running and   *)
(* does not wait itself; a waiting callback waits for a device thread that *)
(* is at the close, past every wait.                                       *)
NoCircularWait ==
    /\ mpc = "join" /\ m_bThreadStarted[it] =>
         m_bQuit[it] /\ pc[it] \notin {"none", "joined"}
    /\ \A d \in Driver :
         /\ ThreadWaits(d) => cb[d] # "idle" /\ ~CallbackWaits(d)
         /\ CallbackWaits(d) => pc[d] \in {"close", "unlock"}

(* Asked to stop, the daemon terminates, whatever its drivers are doing,   *)
(* unless it has crashed in a call through a NULL pointer.                 *)
StopLeadsToExit == quit ~> (Exited \/ Crashed)

(* The stages of a device thread.                                          *)
BeforeOpen == {"none", "load", "resolve", "open"}
Connected == {"level", "loop", "read", "discovery", "send", "disconnect"}
Closing == {"disconnecting", "lock", "close"}
Closed == {"unlock", "unload", "done", "joined"}

(* The calls that are inside a driver: the device thread's are the reads   *)
(* of the driver contract, the callback's its writes.                      *)
Reading == [d \in Driver |-> pc[d] \in {"level", "read"}]
Writing == [d \in Driver |-> cb[d] = "call" /\ cbProc[d] \in procs[d]]

(* A driver is in use from the connect to the close.                       *)
InUse == [d \in Driver |-> pc[d] \in Connected \cup Closing]

Contract == INSTANCE DriverContract WITH
    mapped <- loaded, inUse <- InUse, reading <- Reading, writing <- Writing

(* Every sequence of driver calls the daemon's threads can make, in any    *)
(* interleaving, is one the driver contract allows: devicethread.cpp opens *)
(* before it connects and disconnects before it closes under the mutex.    *)
KeepsContract == Contract!Spec

-----------------------------------------------------------------------------
(* The inductive invariant behind the safety properties (DaemonProofs).    *)

(* What the control point of the device thread says of the driver.         *)
ThreadInv(d) ==
    /\ mqtt[d] = (pc[d] \in Connected)
    /\ pc[d] \in BeforeOpen => channel[d] = "new" /\ m_openHandle[d] = 0
    /\ pc[d] \in {"resolve", "open", "unlock", "unload"} => loaded[d]
    /\ pc[d] \in {"none", "load"} => ~loaded[d]
    /\ pc[d] \in {"open", "connect"} \cup Connected \cup Closing =>
          Required(branch[d]) \subseteq procs[d]
    /\ pc[d] \in {"connect"} \cup Connected \cup Closing =>
          loaded[d] /\ channel[d] = "open" /\ m_openHandle[d] # 0
    /\ pc[d] \in {"unlock", "unload"} => channel[d] = "closed"
    /\ pc[d] \in Closed /\ channel[d] = "closed" => m_openHandle[d] = 0
    /\ pc[d] \in Closed /\ branch[d] = 2 =>
          channel[d] # "open" /\ m_openHandle[d] = 0
    /\ pc[d] \in {"none", "load", "resolve"} => procs[d] = {}
    /\ pc[d] \in {"done", "joined"} /\ loaded[d] =>
          procs[d] = {} /\ channel[d] = "new"

(* m_driverLevel against the half of deviceThread() that runs.             *)
LevelInv(d) ==
    /\ branch[d] \in {1, 2}
    /\ branch[d] = 2 => m_driverLevel[d] = 2
    /\ pc[d] \in BeforeOpen \cup {"connect", "level"} =>
          m_driverLevel[d] = branch[d]
    /\ pc[d] = "level" => branch[d] = 1

(* Who holds m_deviceMutex, and how far the callback can have come.        *)
CallbackInv(d) ==
    /\ (m_deviceMutex[d] = "callback") = (cb[d] \notin {"idle", "lock"})
    /\ (m_deviceMutex[d] = "thread") = (pc[d] \in {"close", "unlock"})
    /\ pc[d] \in BeforeOpen \cup {"connect"} => cb[d] = "idle"
    /\ cb[d] \in {"dispatch", "call"} =>
          pc[d] \in Connected \cup {"disconnecting", "lock"}
    /\ pc[d] \in Closed /\ m_openHandle[d] # 0 => cb[d] = "idle"
    /\ DisconnectJoins /\ pc[d] \in {"lock", "close"} \cup Closed =>
          cb[d] = "idle"
    /\ cb[d] = "call" => \/ cbProc[d] \in procs[d]
                         \/ branch[d] = 1 /\ m_driverLevel[d] = 2

(* The main thread against the device threads.                             *)
MainInv ==
    /\ \A d \in Driver :
          m_bThreadStarted[d] = (pc[d] \notin {"none", "joined"})
    /\ mpc = "init_mqtt" => it = 1 /\ \A d \in Driver : pc[d] = "none"
    /\ mpc = "start" => \A d \in Driver : d >= it => pc[d] = "none"
    /\ mpc = "join" => it \in Driver /\ m_bQuit[it]
    /\ mpc \in {"stop", "join"} => \A d \in Driver :
          d < it \/ cleanups > 0 => ~m_bThreadStarted[d]
    /\ mpc \in {"delete", "exit"} => \A d \in Driver : ~m_bThreadStarted[d]
    /\ mpc \in {"init_mqtt", "start", "run"} => cleanups = 0
    /\ mpc \in {"stop", "join"} => cleanups <= 1
    /\ mpc \in {"start", "run"} => mainMqtt
    /\ mpc \in {"stop", "join"} /\ cleanups = 0 => mainMqtt

ItemInv(d) == ThreadInv(d) /\ LevelInv(d) /\ CallbackInv(d)

Inv == TypeOK /\ MainInv /\ \A d \in Driver : ItemInv(d)
=============================================================================
