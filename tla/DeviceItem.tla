----------------------------- MODULE DeviceItem -----------------------------
(***************************************************************************)
(* The drivers of the VSCP MQTT daemon: one CDeviceItem per configured     *)
(* driver (src/src/devicelist.cpp), its worker thread deviceThread() and   *)
(* the MQTT thread that runs receive_event_callback() for it               *)
(* (src/src/devicethread.cpp).                                             *)
(*                                                                         *)
(* The two threads of an item share the driver library: the worker thread  *)
(* loads, opens, reads, closes and unloads it, while the callback writes   *)
(* to it whenever the broker delivers an event.  m_bQuit, m_openHandle,    *)
(* m_driverLevel and the resolved function pointers are the state they     *)
(* share; m_deviceMutex is taken by the callback for its whole body but by *)
(* the worker only around the close.                                       *)
(*                                                                         *)
(* Every item is enabled: addItem(), the only writer of m_bEnable, sets it *)
(* before the item is in the list, so the m_bEnable guards of the code are *)
(* true for every item here.                                               *)
(***************************************************************************)
EXTENDS Integers

CONSTANTS
    N,               \* number of items in m_devItemList
    Libraries,       \* export sets a driver library may turn out to have
    LevelReplies,    \* what a driver may answer from CanalGetLevel()
    DisconnectJoins  \* does disconnect() wait for a running callback?

ASSUME NAssumption == N \in Nat
ASSUME LevelAssumption == LevelReplies \subseteq Nat
ASSUME JoinsAssumption == DisconnectJoins \in BOOLEAN

Driver == 1..N

VARIABLES
    pc,            \* control point of each device thread
    branch,        \* the half of deviceThread() it runs: 1 CANAL, 2 VSCP
    loaded,        \* is the library mapped (dlopen without dlclose)?
    procs,         \* the m_proc_* pointers that are not NULL
    channel,       \* the driver's own view: "new", "open" or "closed"
    m_openHandle,
    m_driverLevel,
    m_bQuit,
    m_deviceMutex, \* "free", or the thread of the item that holds it
    mqtt,          \* may m_mqttClient deliver a callback?
    cb,            \* control point of receive_event_callback()
    cbProc         \* the pointer the callback is calling through

threadVars == <<branch, loaded, procs, channel, m_openHandle, m_driverLevel>>
callbackVars == <<cb, cbProc>>
itemVars == <<pc, threadVars, m_bQuit, m_deviceMutex, mqtt, callbackVars>>

-----------------------------------------------------------------------------
(* The driver interfaces.                                                  *)

CanalRequired ==
    {"CanalOpen", "CanalClose", "CanalGetLevel", "CanalSend",
     "CanalDataAvailable", "CanalReceive", "CanalGetStatus",
     "CanalGetStatistics", "CanalSetFilter", "CanalSetMask",
     "CanalGetVersion", "CanalGetDllVersion", "CanalGetVendorString"}

CanalGeneration2 ==
    {"CanalBlockingSend", "CanalBlockingReceive", "CanalGetDriverInfo"}

VscpRequired ==
    {"VSCPOpen", "VSCPClose", "VSCPWrite", "VSCPRead", "VSCPGetVersion"}

Required(level) == IF level = 1 THEN CanalRequired ELSE VscpRequired
Interface(level) ==
    IF level = 1 THEN CanalRequired \cup CanalGeneration2 ELSE VscpRequired

(* The sign is all the code looks at in a handle.                          *)
Handle == {-1, 0, 1}
OpenFailed(level, h) == IF level = 1 THEN h <= 0 ELSE h = 0

(* The pointers through which the device thread calls the driver.          *)
ReadProcs(d) ==
    IF branch[d] = 2 THEN {"VSCPRead"}
    ELSE IF "CanalBlockingReceive" \in procs[d] THEN {"CanalBlockingReceive"}
    ELSE {"CanalDataAvailable", "CanalReceive"}
CloseProc(d) == IF branch[d] = 1 THEN "CanalClose" ELSE "VSCPClose"
SendProc(d) ==
    IF "CanalBlockingSend" \in procs[d] THEN "CanalBlockingSend" ELSE "CanalSend"

Goto(d, from, to) == pc[d] = from /\ pc' = [pc EXCEPT ![d] = to]
CbGoto(d, from, to) == cb[d] = from /\ cb' = [cb EXCEPT ![d] = to]

-----------------------------------------------------------------------------
(* Faulty variants of actions below, each with one plausible mistake; they *)
(* occur in no specification and show that the properties can fail.        *)

(* CanalGetLevel()'s answer stored without the conversion to uint8_t.      *)
GetLevelUntruncated(d) ==
    /\ Goto(d, "level", "loop")
    /\ \E r \in LevelReplies : m_driverLevel' = [m_driverLevel EXCEPT ![d] = r]
    /\ UNCHANGED <<branch, loaded, procs, channel, m_openHandle, m_bQuit,
                   m_deviceMutex, mqtt, callbackVars>>

(* A refused connection handled by the Level II half as by the other one.  *)
ConnectRefusedUnclosed(d) ==
    /\ \/ /\ Goto(d, "connect", IF branch[d] = 1 THEN "level" ELSE "loop")
          /\ mqtt' = [mqtt EXCEPT ![d] = TRUE]
          /\ UNCHANGED loaded
       \/ /\ Goto(d, "connect", "done")
          /\ loaded' = [loaded EXCEPT ![d] = FALSE]
          /\ UNCHANGED mqtt
    /\ UNCHANGED <<branch, procs, channel, m_openHandle, m_driverLevel,
                   m_bQuit, m_deviceMutex, callbackVars>>

(* disconnect() forgotten at the end of the work loop.                     *)
DisconnectForgotten(d) ==
    /\ Goto(d, "disconnect", "disconnecting")
    /\ m_bQuit' = [m_bQuit EXCEPT ![d] = TRUE]
    /\ UNCHANGED <<threadVars, m_deviceMutex, mqtt, callbackVars>>

(* disconnect() called with m_deviceMutex held.                            *)
DisconnectLocked(d) ==
    /\ m_deviceMutex[d] = "free"
    /\ Goto(d, "disconnect", "disconnecting")
    /\ m_bQuit' = [m_bQuit EXCEPT ![d] = TRUE]
    /\ mqtt' = [mqtt EXCEPT ![d] = FALSE]
    /\ m_deviceMutex' = [m_deviceMutex EXCEPT ![d] = "thread"]
    /\ UNCHANGED <<threadVars, callbackVars>>

(* The close without m_deviceMutex.                                        *)
LockForCloseSkipped(d) ==
    /\ Goto(d, "lock", "close")
    /\ UNCHANGED <<threadVars, m_bQuit, m_deviceMutex, mqtt, callbackVars>>

(* The callback without m_deviceMutex.                                     *)
CbLockSkipped(d) ==
    /\ CbGoto(d, "lock", "check")
    /\ UNCHANGED <<pc, threadVars, m_bQuit, m_deviceMutex, mqtt, cbProc>>

(* The callback without the test of m_bQuit and m_openHandle.              *)
CbCheckSkipped(d) ==
    /\ CbGoto(d, "check", "dispatch")
    /\ UNCHANGED <<pc, threadVars, m_bQuit, m_deviceMutex, mqtt, cbProc>>

-----------------------------------------------------------------------------
(* The CDeviceItem constructor followed by addItem().                      *)
ItemInit ==
    /\ pc = [d \in Driver |-> "none"]
    /\ m_driverLevel \in [Driver -> {1, 2}]
    /\ branch = m_driverLevel
    /\ loaded = [d \in Driver |-> FALSE]
    /\ procs = [d \in Driver |-> {}]
    /\ channel = [d \in Driver |-> "new"]
    /\ m_openHandle = [d \in Driver |-> 0]
    /\ m_bQuit = [d \in Driver |-> FALSE]
    /\ m_deviceMutex = [d \in Driver |-> "free"]
    /\ mqtt = [d \in Driver |-> FALSE]
    /\ cb = [d \in Driver |-> "idle"]
    /\ cbProc = [d \in Driver |-> "none"]

-----------------------------------------------------------------------------
(* deviceThread(): from dlopen() to the work loop.                         *)

(* dlopen(); the thread then enters the half that m_driverLevel selects.   *)
Load(d) ==
    /\ \/ /\ Goto(d, "load", "resolve")
          /\ loaded' = [loaded EXCEPT ![d] = TRUE]
          /\ branch' = [branch EXCEPT ![d] = m_driverLevel[d]]
       \/ /\ Goto(d, "load", "done")
          /\ UNCHANGED <<loaded, branch>>
    /\ UNCHANGED <<procs, channel, m_openHandle, m_driverLevel, m_bQuit,
                   m_deviceMutex, mqtt, callbackVars>>

(* The dlsym() calls.  They all precede the connect, so no other thread    *)
(* can see them one by one.  A missing symbol ends the thread; dlclose()   *)
(* is called only by the Level I half, and not for its first symbol.  What *)
(* an incomplete resolution leaves in the pointers is never read again.    *)
Resolve(d) ==
    /\ \E exports \in Libraries :
         \/ /\ Required(branch[d]) \subseteq exports
            /\ Goto(d, "resolve", "open")
            /\ procs' = [procs EXCEPT ![d] = exports \cap Interface(branch[d])]
            /\ UNCHANGED loaded
         \/ /\ ~(Required(branch[d]) \subseteq exports)
            /\ Goto(d, "resolve", "done")
            /\ loaded' = [loaded EXCEPT ![d] =
                            ~(branch[d] = 1 /\ "CanalOpen" \in exports)]
            /\ UNCHANGED procs
    /\ UNCHANGED <<branch, channel, m_openHandle, m_driverLevel, m_bQuit,
                   m_deviceMutex, mqtt, callbackVars>>

(* CanalOpen() or VSCPOpen(), without m_deviceMutex.                       *)
Open(d) ==
    /\ \E h \in Handle :
         /\ m_openHandle' = [m_openHandle EXCEPT ![d] = h]
         /\ IF OpenFailed(branch[d], h)
            THEN /\ Goto(d, "open", "done")
                 /\ loaded' = [loaded EXCEPT ![d] = FALSE]
                 /\ UNCHANGED channel
            ELSE /\ Goto(d, "open", "connect")
                 /\ channel' = [channel EXCEPT ![d] = "open"]
                 /\ UNCHANGED loaded
    /\ UNCHANGED <<branch, procs, m_driverLevel, m_bQuit, m_deviceMutex, mqtt,
                   callbackVars>>

(* m_mqttClient.connect().  From a successful connect on the callback may  *)
(* run.  On failure the Level II half closes the driver before dlclose();  *)
(* the Level I half calls dlclose() alone.                                 *)
Connect(d) ==
    /\ \/ /\ Goto(d, "connect", IF branch[d] = 1 THEN "level" ELSE "loop")
          /\ mqtt' = [mqtt EXCEPT ![d] = TRUE]
          /\ UNCHANGED <<loaded, channel, m_openHandle>>
       \/ /\ Goto(d, "connect", "done")
          /\ loaded' = [loaded EXCEPT ![d] = FALSE]
          /\ IF branch[d] = 1
             THEN UNCHANGED <<channel, m_openHandle>>
             ELSE /\ channel' = [channel EXCEPT ![d] = "closed"]
                  /\ m_openHandle' = [m_openHandle EXCEPT ![d] = 0]
          /\ UNCHANGED mqtt
    /\ UNCHANGED <<branch, procs, m_driverLevel, m_bQuit, m_deviceMutex,
                   callbackVars>>

(* The Level I half overwrites m_driverLevel, a uint8_t, with the driver's *)
(* answer: after the connect and without the mutex.                        *)
GetLevel(d) ==
    /\ Goto(d, "level", "loop")
    /\ \E r \in LevelReplies :
         m_driverLevel' = [m_driverLevel EXCEPT ![d] = r % 256]
    /\ UNCHANGED <<branch, loaded, procs, channel, m_openHandle, m_bQuit,
                   m_deviceMutex, mqtt, callbackVars>>

-----------------------------------------------------------------------------
(* deviceThread(): the work loop.                                          *)

(* while (!m_bQuit): go and read the driver, or leave the loop.            *)
LoopTest(d) ==
    /\ Goto(d, "loop", IF m_bQuit[d] THEN "disconnect" ELSE "read")
    /\ UNCHANGED <<threadVars, m_bQuit, m_deviceMutex, mqtt, callbackVars>>

(* The read returns: an event to pass on, or a timeout, an error or a      *)
(* frame that does not convert, after which the loop continues.            *)
Read(d) ==
    /\ \/ Goto(d, "read", "discovery")
       \/ Goto(d, "read", "loop")
    /\ UNCHANGED <<threadVars, m_bQuit, m_deviceMutex, mqtt, callbackVars>>

(* CDeviceItem::sendEvent(): the control object's discovery(), ...         *)
Discovery(d) ==
    /\ Goto(d, "discovery", "send")
    /\ UNCHANGED <<threadVars, m_bQuit, m_deviceMutex, mqtt, callbackVars>>

(* ... then m_mqttClient.send(), whose result is ignored.                  *)
Send(d) ==
    /\ Goto(d, "send", "loop")
    /\ UNCHANGED <<threadVars, m_bQuit, m_deviceMutex, mqtt, callbackVars>>

-----------------------------------------------------------------------------
(* deviceThread(): from the end of the work loop to dlclose().             *)

(* m_bQuit = true and the call of disconnect(): no further callback.       *)
Disconnect(d) ==
    /\ Goto(d, "disconnect", "disconnecting")
    /\ m_bQuit' = [m_bQuit EXCEPT ![d] = TRUE]
    /\ mqtt' = [mqtt EXCEPT ![d] = FALSE]
    /\ UNCHANGED <<threadVars, m_deviceMutex, callbackVars>>

(* disconnect() returns, after the running callback if it joins the        *)
(* client's thread.                                                        *)
Disconnected(d) ==
    /\ DisconnectJoins => cb[d] = "idle"
    /\ Goto(d, "disconnecting", "lock")
    /\ UNCHANGED <<threadVars, m_bQuit, m_deviceMutex, mqtt, callbackVars>>

LockForClose(d) ==
    /\ m_deviceMutex[d] = "free"
    /\ Goto(d, "lock", "close")
    /\ m_deviceMutex' = [m_deviceMutex EXCEPT ![d] = "thread"]
    /\ UNCHANGED <<threadVars, m_bQuit, mqtt, callbackVars>>

(* CanalClose() or VSCPClose(), and m_openHandle = 0.                      *)
Close(d) ==
    /\ Goto(d, "close", "unlock")
    /\ channel' = [channel EXCEPT ![d] = "closed"]
    /\ m_openHandle' = [m_openHandle EXCEPT ![d] = 0]
    /\ UNCHANGED <<branch, loaded, procs, m_driverLevel, m_bQuit,
                   m_deviceMutex, mqtt, callbackVars>>

UnlockAfterClose(d) ==
    /\ Goto(d, "unlock", "unload")
    /\ m_deviceMutex' = [m_deviceMutex EXCEPT ![d] = "free"]
    /\ UNCHANGED <<threadVars, m_bQuit, mqtt, callbackVars>>

Unload(d) ==
    /\ Goto(d, "unload", "done")
    /\ loaded' = [loaded EXCEPT ![d] = FALSE]
    /\ UNCHANGED <<branch, procs, channel, m_openHandle, m_driverLevel,
                   m_bQuit, m_deviceMutex, mqtt, callbackVars>>

DeviceThread(d) ==
    \/ Load(d) \/ Resolve(d) \/ Open(d) \/ Connect(d) \/ GetLevel(d)
    \/ LoopTest(d) \/ Read(d) \/ Discovery(d) \/ Send(d)
    \/ Disconnect(d) \/ Disconnected(d) \/ LockForClose(d) \/ Close(d)
    \/ UnlockAfterClose(d) \/ Unload(d)

-----------------------------------------------------------------------------
(* receive_event_callback(), run by the thread of the item's MQTT client.  *)

CbDeliver(d) ==
    /\ mqtt[d]
    /\ CbGoto(d, "idle", "lock")
    /\ UNCHANGED <<pc, threadVars, m_bQuit, m_deviceMutex, mqtt, cbProc>>

CbLock(d) ==
    /\ m_deviceMutex[d] = "free"
    /\ CbGoto(d, "lock", "check")
    /\ m_deviceMutex' = [m_deviceMutex EXCEPT ![d] = "callback"]
    /\ UNCHANGED <<pc, threadVars, m_bQuit, mqtt, cbProc>>

CbCheck(d) ==
    /\ CbGoto(d, "check", IF m_bQuit[d] \/ m_openHandle[d] = 0
                          THEN "unlock" ELSE "dispatch")
    /\ UNCHANGED <<pc, threadVars, m_bQuit, m_deviceMutex, mqtt, cbProc>>

(* The branch on m_driverLevel.  An event that does not convert to a CANAL *)
(* frame, or a level that is neither 1 nor 2, is dropped.                  *)
CbDispatch(d) ==
    /\ \/ /\ m_driverLevel[d] \in {1, 2}
          /\ CbGoto(d, "dispatch", "call")
          /\ cbProc' = [cbProc EXCEPT ![d] =
               IF m_driverLevel[d] = 1 THEN SendProc(d) ELSE "VSCPWrite"]
       \/ /\ m_driverLevel[d] # 2
          /\ CbGoto(d, "dispatch", "unlock")
          /\ UNCHANGED cbProc
    /\ UNCHANGED <<pc, threadVars, m_bQuit, m_deviceMutex, mqtt>>

CbReturn(d) ==
    /\ CbGoto(d, "call", "unlock")
    /\ cbProc' = [cbProc EXCEPT ![d] = "none"]
    /\ UNCHANGED <<pc, threadVars, m_bQuit, m_deviceMutex, mqtt>>

CbUnlock(d) ==
    /\ CbGoto(d, "unlock", "idle")
    /\ m_deviceMutex' = [m_deviceMutex EXCEPT ![d] = "free"]
    /\ UNCHANGED <<pc, threadVars, m_bQuit, mqtt, cbProc>>

(* The steps a callback takes once it has been delivered.                  *)
Callback(d) ==
    \/ CbLock(d) \/ CbCheck(d) \/ CbDispatch(d) \/ CbReturn(d) \/ CbUnlock(d)

(* A call through a NULL pointer ends the process.                         *)
NullCall(d) == cb[d] = "call" /\ cbProc[d] \notin procs[d]

-----------------------------------------------------------------------------
ThreadPoints ==
    {"none", "load", "resolve", "open", "connect", "level", "loop", "read",
     "discovery", "send", "disconnect", "disconnecting", "lock", "close",
     "unlock", "unload", "done", "joined"}
CallbackPoints == {"idle", "lock", "check", "dispatch", "call", "unlock"}
Symbols == CanalRequired \cup CanalGeneration2 \cup VscpRequired

(* The types of an item's variables.                                       *)
ItemTypeOK ==
    /\ pc \in [Driver -> ThreadPoints]
    /\ branch \in [Driver -> 0..255]
    /\ loaded \in [Driver -> BOOLEAN]
    /\ procs \in [Driver -> SUBSET Symbols]
    /\ channel \in [Driver -> {"new", "open", "closed"}]
    /\ m_openHandle \in [Driver -> Handle]
    /\ m_driverLevel \in [Driver -> 0..255]
    /\ m_bQuit \in [Driver -> BOOLEAN]
    /\ m_deviceMutex \in [Driver -> {"free", "thread", "callback"}]
    /\ mqtt \in [Driver -> BOOLEAN]
    /\ cb \in [Driver -> CallbackPoints]
    /\ cbProc \in [Driver -> Symbols \cup {"none"}]
=============================================================================
