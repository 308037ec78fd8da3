---------------------------- MODULE DaemonProofs ----------------------------
(***************************************************************************)
(* Proofs about Daemon, for every number of drivers, every set of driver   *)
(* libraries, every answer to CanalGetLevel() and for both behaviours of   *)
(* disconnect().                                                           *)
(***************************************************************************)
EXTENDS Daemon, TLAPS

-----------------------------------------------------------------------------
(* Facts about the driver interfaces.                                      *)

(* Whatever a library exports, the pointers kept from it are interface     *)
(* functions.                                                              *)
LEMMA InterfaceInSymbols ==
    ASSUME NEW level, NEW exports
    PROVE  exports \cap Interface(level) \in SUBSET Symbols
BY DEF Interface, Symbols

(* A complete resolution keeps every required function.                    *)
LEMMA RequiredResolved ==
    ASSUME NEW level, NEW exports, Required(level) \subseteq exports
    PROVE  Required(level) \subseteq exports \cap Interface(level)
BY DEF Required, Interface

(* The functions the callback sends through are interface functions.       *)
LEMMA SendProcInSymbols ==
    ASSUME NEW d \in Driver
    PROVE  SendProc(d) \in Symbols /\ "VSCPWrite" \in Symbols
<1>1. "CanalBlockingSend" \in CanalGeneration2
  BY DEF CanalGeneration2
<1>2. "CanalSend" \in CanalRequired
  BY DEF CanalRequired
<1>3. "VSCPWrite" \in VscpRequired
  BY DEF VscpRequired
<1> QED
  BY <1>1, <1>2, <1>3 DEF SendProc, Symbols

(* The conversion to uint8_t.                                              *)
LEMMA LevelInByte ==
    ASSUME NEW r \in LevelReplies
    PROVE  r % 256 \in 0..255
BY LevelAssumption

-----------------------------------------------------------------------------
(* Type correctness.                                                       *)

(* The initial states are well typed.                                      *)
LEMMA TypeInit == Init => TypeOK
<1> SUFFICES ASSUME Init PROVE TypeOK
  OBVIOUS
<1>1. ItemTypeOK
  <2>1. m_driverLevel \in [Driver -> 0..255] /\ branch \in [Driver -> 0..255]
    BY DEF Init, ItemInit
  <2>2. m_openHandle \in [Driver -> Handle]
    BY DEF Init, ItemInit, Handle
  <2> QED
    BY <2>1, <2>2 DEF Init, ItemInit, ItemTypeOK, ThreadPoints, CallbackPoints
<1>2. it \in 1..(N + 1) /\ cleanups \in 0..2
  BY NAssumption DEF Init
<1>3. mpc \in MainPoints /\ mainMqtt \in BOOLEAN /\ quit \in BOOLEAN
  BY DEF Init, MainPoints
<1>4. m_bThreadStarted \in [Driver -> BOOLEAN]
  BY DEF Init
<1> QED
  BY <1>1, <1>2, <1>3, <1>4 DEF TypeOK

(* deviceThread() keeps the types of the items.                            *)
LEMMA TypeDeviceThread ==
    ASSUME ItemTypeOK, NEW d \in Driver, DeviceThread(d)
    PROVE  ItemTypeOK'
<1> USE DEF ItemTypeOK, Goto, ThreadPoints
<1>1. CASE Load(d)
  <2>1. branch' \in [Driver -> 0..255]
    BY <1>1 DEF Load
  <2>2. loaded' \in [Driver -> BOOLEAN]
    BY <1>1 DEF Load
  <2> QED BY <1>1, <2>1, <2>2 DEF Load, callbackVars
<1>2. CASE Resolve(d)
  <2>1. procs' \in [Driver -> SUBSET Symbols]
    BY <1>2, InterfaceInSymbols DEF Resolve
  <2>2. loaded' \in [Driver -> BOOLEAN]
    BY <1>2 DEF Resolve
  <2> QED BY <1>2, <2>1, <2>2 DEF Resolve, callbackVars
<1>3. CASE Open(d)
  <2>1. m_openHandle' \in [Driver -> Handle]
    BY <1>3 DEF Open
  <2>2. channel' \in [Driver -> {"new", "open", "closed"}]
    BY <1>3 DEF Open
  <2>3. loaded' \in [Driver -> BOOLEAN]
    BY <1>3 DEF Open
  <2> QED BY <1>3, <2>1, <2>2, <2>3 DEF Open, callbackVars
<1>4. CASE Connect(d)
  <2>1. m_openHandle' \in [Driver -> Handle]
    BY <1>4 DEF Connect, Handle
  <2>2. channel' \in [Driver -> {"new", "open", "closed"}]
    BY <1>4 DEF Connect
  <2>3. loaded' \in [Driver -> BOOLEAN] /\ mqtt' \in [Driver -> BOOLEAN]
    BY <1>4 DEF Connect
  <2> QED BY <1>4, <2>1, <2>2, <2>3 DEF Connect, callbackVars
<1>5. CASE GetLevel(d)
  BY <1>5, LevelInByte DEF GetLevel, callbackVars
<1>6. CASE LoopTest(d)
  BY <1>6 DEF LoopTest, callbackVars, threadVars
<1>7. CASE Read(d)
  BY <1>7 DEF Read, callbackVars, threadVars
<1>8. CASE Discovery(d)
  BY <1>8 DEF Discovery, callbackVars, threadVars
<1>9. CASE Send(d)
  BY <1>9 DEF Send, callbackVars, threadVars
<1>10. CASE Disconnect(d)
  BY <1>10 DEF Disconnect, callbackVars, threadVars
<1>11. CASE Disconnected(d)
  BY <1>11 DEF Disconnected, callbackVars, threadVars
<1>12. CASE LockForClose(d)
  BY <1>12 DEF LockForClose, callbackVars, threadVars
<1>13. CASE Close(d)
  <2>1. m_openHandle' \in [Driver -> Handle]
    BY <1>13 DEF Close, Handle
  <2> QED BY <1>13, <2>1 DEF Close, callbackVars
<1>14. CASE UnlockAfterClose(d)
  BY <1>14 DEF UnlockAfterClose, callbackVars, threadVars
<1>15. CASE Unload(d)
  BY <1>15 DEF Unload, callbackVars
<1> QED
  BY <1>1, <1>2, <1>3, <1>4, <1>5, <1>6, <1>7, <1>8, <1>9, <1>10, <1>11,
     <1>12, <1>13, <1>14, <1>15 DEF DeviceThread

(* receive_event_callback() keeps the types of the items.                  *)
LEMMA TypeCallback ==
    ASSUME ItemTypeOK, NEW d \in Driver, CbDeliver(d) \/ Callback(d)
    PROVE  ItemTypeOK'
<1> USE DEF ItemTypeOK, CbGoto, CallbackPoints, threadVars
<1>1. CASE CbDeliver(d) BY <1>1 DEF CbDeliver
<1>2. CASE CbLock(d) BY <1>2 DEF CbLock
<1>3. CASE CbCheck(d) BY <1>3 DEF CbCheck
<1>4. CASE CbDispatch(d) BY <1>4, SendProcInSymbols DEF CbDispatch
<1>5. CASE CbReturn(d) BY <1>5 DEF CbReturn
<1>6. CASE CbUnlock(d) BY <1>6 DEF CbUnlock
<1> QED BY <1>1, <1>2, <1>3, <1>4, <1>5, <1>6 DEF Callback

(* The main thread and the signal handler keep all types; the iterator and *)
(* the count of cleanups stay in range only because of MainInv.            *)
LEMMA TypeMain ==
    ASSUME TypeOK, MainInv, MainThread \/ Signal
    PROVE  TypeOK'
<1>1. ItemTypeOK'
  <2>1. CASE UNCHANGED itemVars
    BY <2>1 DEF TypeOK, ItemTypeOK, itemVars, threadVars, callbackVars
  <2>2. CASE StartDriver
    BY <2>2 DEF TypeOK, ItemTypeOK, StartDriver, Goto, ThreadPoints,
       threadVars, callbackVars
  <2>3. CASE StopDriver
    BY <2>3 DEF TypeOK, ItemTypeOK, StopDriver, threadVars, callbackVars
  <2>4. CASE JoinDriver
    BY <2>4 DEF TypeOK, ItemTypeOK, JoinDriver, Goto, ThreadPoints,
       threadVars, callbackVars
  <2> QED
    BY <2>1, <2>2, <2>3, <2>4 DEF MainThread, InitMqtt, DriversStarted,
       MainLoopEnds, DisconnectMain, DeleteControlObject, Signal
<1>2. it' \in 1..(N + 1)
  BY NAssumption DEF TypeOK, MainInv, MainThread, InitMqtt, StartDriver,
     DriversStarted, MainLoopEnds, StopDriver, JoinDriver, DisconnectMain,
     DeleteControlObject, Signal, Driver
<1>5. cleanups' \in 0..2
  BY DEF TypeOK, MainInv, MainThread, InitMqtt, StartDriver, DriversStarted,
     MainLoopEnds, StopDriver, JoinDriver, DisconnectMain, DeleteControlObject,
     Signal
<1>3. mpc' \in MainPoints /\ mainMqtt' \in BOOLEAN /\ quit' \in BOOLEAN
  BY DEF TypeOK, MainPoints, MainThread, InitMqtt, StartDriver, DriversStarted,
     MainLoopEnds, StopDriver, JoinDriver, DisconnectMain, DeleteControlObject,
     Signal
<1>4. m_bThreadStarted' \in [Driver -> BOOLEAN]
  BY DEF TypeOK, MainThread, InitMqtt, StartDriver, DriversStarted,
     MainLoopEnds, StopDriver, JoinDriver, DisconnectMain, DeleteControlObject,
     Signal
<1> QED
  BY <1>1, <1>2, <1>3, <1>4, <1>5 DEF TypeOK

-----------------------------------------------------------------------------
(* An item is disturbed only by its own threads and by the main thread.    *)

ItemUnchanged(d) ==
    /\ pc'[d] = pc[d] /\ branch'[d] = branch[d] /\ loaded'[d] = loaded[d]
    /\ procs'[d] = procs[d] /\ channel'[d] = channel[d]
    /\ m_openHandle'[d] = m_openHandle[d]
    /\ m_driverLevel'[d] = m_driverLevel[d]
    /\ m_deviceMutex'[d] = m_deviceMutex[d]
    /\ mqtt'[d] = mqtt[d] /\ cb'[d] = cb[d] /\ cbProc'[d] = cbProc[d]

(* An item whose variables are left alone keeps its invariant.             *)
LEMMA ItemFrame ==
    ASSUME NEW d \in Driver, ItemInv(d), ItemUnchanged(d)
    PROVE  ItemInv(d)'
BY DEF ItemInv, ThreadInv, LevelInv, CallbackInv, ItemUnchanged

(* The steps of one item's threads leave every other item alone.           *)
LEMMA OtherItems ==
    ASSUME ItemTypeOK, NEW d \in Driver, NEW e \in Driver, e # d,
           DeviceThread(d) \/ CbDeliver(d) \/ Callback(d)
    PROVE  ItemUnchanged(e)
<1> USE DEF ItemTypeOK, ItemUnchanged, Goto, CbGoto, threadVars, callbackVars
<1>1. CASE Load(d)
  BY <1>1 DEF Load
<1>2. CASE Resolve(d)
  BY <1>2 DEF Resolve
<1>3. CASE Open(d)
  BY <1>3 DEF Open
<1>4. CASE Connect(d)
  BY <1>4 DEF Connect
<1>5. CASE GetLevel(d)
  BY <1>5 DEF GetLevel
<1>6. CASE LoopTest(d)
  BY <1>6 DEF LoopTest
<1>7. CASE Read(d)
  BY <1>7 DEF Read
<1>8. CASE Discovery(d)
  BY <1>8 DEF Discovery
<1>9. CASE Send(d)
  BY <1>9 DEF Send
<1>10. CASE Disconnect(d)
  BY <1>10 DEF Disconnect
<1>11. CASE Disconnected(d)
  BY <1>11 DEF Disconnected
<1>12. CASE LockForClose(d)
  BY <1>12 DEF LockForClose
<1>13. CASE Close(d)
  BY <1>13 DEF Close
<1>14. CASE UnlockAfterClose(d)
  BY <1>14 DEF UnlockAfterClose
<1>15. CASE Unload(d)
  BY <1>15 DEF Unload
<1>16. CASE CbDeliver(d)
  BY <1>16 DEF CbDeliver
<1>17. CASE CbLock(d)
  BY <1>17 DEF CbLock
<1>18. CASE CbCheck(d)
  BY <1>18 DEF CbCheck
<1>19. CASE CbDispatch(d)
  BY <1>19 DEF CbDispatch
<1>20. CASE CbReturn(d)
  BY <1>20 DEF CbReturn
<1>21. CASE CbUnlock(d)
  BY <1>21 DEF CbUnlock
<1> QED
  BY <1>1, <1>2, <1>3, <1>4, <1>5, <1>6, <1>7, <1>8, <1>9, <1>10, <1>11,
     <1>12, <1>13, <1>14, <1>15, <1>16, <1>17, <1>18, <1>19, <1>20, <1>21
     DEF DeviceThread, Callback

-----------------------------------------------------------------------------
(* The inductive invariant: the initial states.                            *)

(* The invariant holds when run() is entered.                              *)
LEMMA InvInit == Init => Inv
<1> SUFFICES ASSUME Init PROVE Inv
  OBVIOUS
<1>1. TypeOK
  BY TypeInit
<1>2. MainInv
  BY NAssumption DEF Init, ItemInit, MainInv, Driver
<1>3. ASSUME NEW d \in Driver PROVE ItemInv(d)
  <2>1. ThreadInv(d)
    <3>1. /\ pc[d] = "none" /\ ~mqtt[d] /\ ~loaded[d] /\ channel[d] = "new"
          /\ procs[d] = {} /\ m_openHandle[d] = 0
      BY DEF Init, ItemInit
    <3>2. mqtt[d] = (pc[d] \in Connected)
      <4>1. mqtt[d] \in BOOLEAN /\ (pc[d] \in Connected) = FALSE
        BY <3>1, <1>1 DEF TypeOK, ItemTypeOK, Connected
      <4> QED BY <3>1, <4>1
    <3> QED
      BY <3>1, <3>2 DEF ThreadInv, BeforeOpen, Connected, Closing, Closed
  <2>2. LevelInv(d)
    BY DEF Init, ItemInit, LevelInv
  <2>3. CallbackInv(d)
    BY DEF Init, ItemInit, CallbackInv, BeforeOpen, Connected, Closed
  <2> QED BY <2>1, <2>2, <2>3 DEF ItemInv
<1> QED
  BY <1>1, <1>2, <1>3 DEF Inv

-----------------------------------------------------------------------------
(* The inductive invariant: the device thread of the item itself.          *)

(* Every step of an item's device thread preserves the item's invariant.   *)
LEMMA ThreadKeepsItem ==
    ASSUME ItemTypeOK, NEW d \in Driver, ItemInv(d), DeviceThread(d)
    PROVE  ItemInv(d)'
<1> USE DEF ItemInv, BeforeOpen, Connected, Closing, Closed, Goto,
        threadVars, callbackVars
<1>1. CASE Load(d)
  <2>1. ThreadInv(d)'
    BY <1>1 DEF Load, ItemTypeOK, ThreadInv
  <2>2. LevelInv(d)'
    BY <1>1 DEF Load, ItemTypeOK, LevelInv
  <2>3. CallbackInv(d)'
    BY <1>1 DEF Load, ItemTypeOK, CallbackInv, ThreadInv, LevelInv
  <2> QED BY <2>1, <2>2, <2>3
<1>2. CASE Resolve(d)
  <2>1. ThreadInv(d)'
    <3>1. PICK exports \in Libraries : Resolve(d)!1!(exports)
      BY <1>2 DEF Resolve
    <3>2. CASE Required(branch[d]) \subseteq exports
      <4>1. Required(branch[d])' \subseteq procs'[d]
        BY <1>2, <3>1, <3>2, RequiredResolved DEF Resolve, ItemTypeOK
      <4> QED
        BY <1>2, <3>1, <3>2, <4>1 DEF Resolve, ItemTypeOK, ThreadInv
    <3>3. CASE ~(Required(branch[d]) \subseteq exports)
      BY <1>2, <3>1, <3>3 DEF Resolve, ItemTypeOK, ThreadInv
    <3> QED BY <3>2, <3>3
  <2>2. LevelInv(d)'
    BY <1>2 DEF Resolve, ItemTypeOK, LevelInv
  <2>3. CallbackInv(d)'
    BY <1>2 DEF Resolve, ItemTypeOK, CallbackInv, ThreadInv, LevelInv
  <2> QED BY <2>1, <2>2, <2>3
<1>3. CASE Open(d)
  <2>1. ThreadInv(d)'
    BY <1>3 DEF Open, ItemTypeOK, ThreadInv, OpenFailed
  <2>2. LevelInv(d)'
    BY <1>3 DEF Open, ItemTypeOK, LevelInv
  <2>3. CallbackInv(d)'
    BY <1>3 DEF Open, ItemTypeOK, CallbackInv, ThreadInv, LevelInv
  <2> QED BY <2>1, <2>2, <2>3
<1>4. CASE Connect(d)
  <2>1. ThreadInv(d)'
    <3>1. CASE pc'[d] = "done"
      <4>1. ~mqtt'[d]
        BY <1>4, <3>1 DEF Connect, ItemTypeOK, ThreadInv
      <4> QED
        BY <1>4, <3>1, <4>1 DEF Connect, ItemTypeOK, ThreadInv
    <3>2. CASE pc'[d] \in {"level", "loop"}
      <4>1. mqtt'[d] = TRUE
        BY <1>4, <3>2 DEF Connect, ItemTypeOK
      <4> QED
        BY <1>4, <3>2, <4>1 DEF Connect, ItemTypeOK, ThreadInv
    <3> QED
      BY <1>4, <3>1, <3>2 DEF Connect, ItemTypeOK
  <2>2. LevelInv(d)'
    BY <1>4 DEF Connect, ItemTypeOK, LevelInv
  <2>3. CallbackInv(d)'
    BY <1>4 DEF Connect, ItemTypeOK, CallbackInv, ThreadInv, LevelInv
  <2> QED BY <2>1, <2>2, <2>3
<1>5. CASE GetLevel(d)
  <2>1. ThreadInv(d)'
    BY <1>5 DEF GetLevel, ItemTypeOK, ThreadInv
  <2>2. LevelInv(d)'
    BY <1>5 DEF GetLevel, ItemTypeOK, LevelInv
  <2>3. CallbackInv(d)'
    BY <1>5 DEF GetLevel, ItemTypeOK, CallbackInv, ThreadInv, LevelInv
  <2> QED BY <2>1, <2>2, <2>3
<1>6. CASE LoopTest(d)
  <2>1. ThreadInv(d)'
    BY <1>6 DEF LoopTest, ItemTypeOK, ThreadInv
  <2>2. LevelInv(d)'
    BY <1>6 DEF LoopTest, ItemTypeOK, LevelInv
  <2>3. CallbackInv(d)'
    BY <1>6 DEF LoopTest, ItemTypeOK, CallbackInv, ThreadInv, LevelInv
  <2> QED BY <2>1, <2>2, <2>3
<1>7. CASE Read(d)
  <2>1. ThreadInv(d)'
    BY <1>7 DEF Read, ItemTypeOK, ThreadInv
  <2>2. LevelInv(d)'
    BY <1>7 DEF Read, ItemTypeOK, LevelInv
  <2>3. CallbackInv(d)'
    BY <1>7 DEF Read, ItemTypeOK, CallbackInv, ThreadInv, LevelInv
  <2> QED BY <2>1, <2>2, <2>3
<1>8. CASE Discovery(d)
  <2>1. ThreadInv(d)'
    BY <1>8 DEF Discovery, ItemTypeOK, ThreadInv
  <2>2. LevelInv(d)'
    BY <1>8 DEF Discovery, ItemTypeOK, LevelInv
  <2>3. CallbackInv(d)'
    BY <1>8 DEF Discovery, ItemTypeOK, CallbackInv, ThreadInv, LevelInv
  <2> QED BY <2>1, <2>2, <2>3
<1>9. CASE Send(d)
  <2>1. ThreadInv(d)'
    BY <1>9 DEF Send, ItemTypeOK, ThreadInv
  <2>2. LevelInv(d)'
    BY <1>9 DEF Send, ItemTypeOK, LevelInv
  <2>3. CallbackInv(d)'
    BY <1>9 DEF Send, ItemTypeOK, CallbackInv, ThreadInv, LevelInv
  <2> QED BY <2>1, <2>2, <2>3
<1>10. CASE Disconnect(d)
  <2>1. ThreadInv(d)'
    <3>1. mqtt'[d] = FALSE /\ pc'[d] = "disconnecting"
      BY <1>10 DEF Disconnect, ItemTypeOK
    <3>2. (pc'[d] \in Connected) = FALSE
      BY <3>1
    <3>3. mqtt'[d] = (pc'[d] \in Connected)
      BY <3>1, <3>2
    <3>4. pc[d] = "disconnect" /\ UNCHANGED threadVars
      BY <1>10 DEF Disconnect
    <3> QED
      BY <3>1, <3>3, <3>4 DEF ThreadInv
  <2>2. LevelInv(d)'
    BY <1>10 DEF Disconnect, ItemTypeOK, LevelInv
  <2>3. CallbackInv(d)'
    BY <1>10 DEF Disconnect, ItemTypeOK, CallbackInv, ThreadInv, LevelInv
  <2> QED BY <2>1, <2>2, <2>3
<1>11. CASE Disconnected(d)
  <2>1. ThreadInv(d)'
    BY <1>11 DEF Disconnected, ItemTypeOK, ThreadInv
  <2>2. LevelInv(d)'
    BY <1>11 DEF Disconnected, ItemTypeOK, LevelInv
  <2>3. CallbackInv(d)'
    BY <1>11 DEF Disconnected, ItemTypeOK, CallbackInv, ThreadInv, LevelInv
  <2> QED BY <2>1, <2>2, <2>3
<1>12. CASE LockForClose(d)
  <2>1. ThreadInv(d)'
    BY <1>12 DEF LockForClose, ItemTypeOK, ThreadInv
  <2>2. LevelInv(d)'
    BY <1>12 DEF LockForClose, ItemTypeOK, LevelInv
  <2>3. CallbackInv(d)'
    BY <1>12 DEF LockForClose, ItemTypeOK, CallbackInv, ThreadInv, LevelInv
  <2> QED BY <2>1, <2>2, <2>3
<1>13. CASE Close(d)
  <2>1. ThreadInv(d)'
    BY <1>13 DEF Close, ItemTypeOK, ThreadInv
  <2>2. LevelInv(d)'
    BY <1>13 DEF Close, ItemTypeOK, LevelInv
  <2>3. CallbackInv(d)'
    BY <1>13 DEF Close, ItemTypeOK, CallbackInv, ThreadInv, LevelInv
  <2> QED BY <2>1, <2>2, <2>3
<1>14. CASE UnlockAfterClose(d)
  <2>1. ThreadInv(d)'
    BY <1>14 DEF UnlockAfterClose, ItemTypeOK, ThreadInv
  <2>2. LevelInv(d)'
    BY <1>14 DEF UnlockAfterClose, ItemTypeOK, LevelInv
  <2>3. CallbackInv(d)'
    BY <1>14 DEF UnlockAfterClose, ItemTypeOK, CallbackInv, ThreadInv, LevelInv
  <2> QED BY <2>1, <2>2, <2>3
<1>15. CASE Unload(d)
  <2>1. ThreadInv(d)'
    BY <1>15 DEF Unload, ItemTypeOK, ThreadInv
  <2>2. LevelInv(d)'
    BY <1>15 DEF Unload, ItemTypeOK, LevelInv
  <2>3. CallbackInv(d)'
    BY <1>15 DEF Unload, ItemTypeOK, CallbackInv, ThreadInv, LevelInv
  <2> QED BY <2>1, <2>2, <2>3
<1> QED
  BY <1>1, <1>2, <1>3, <1>4, <1>5, <1>6, <1>7, <1>8, <1>9, <1>10, <1>11,
     <1>12, <1>13, <1>14, <1>15 DEF DeviceThread

-----------------------------------------------------------------------------
(* The inductive invariant: the callback of the item itself.               *)

(* Through which functions the callback calls, given the level it reads.   *)
LEMMA DispatchProc ==
    ASSUME NEW d \in Driver, LevelInv(d), Required(branch[d]) \subseteq procs[d]
    PROVE  /\ m_driverLevel[d] = 1 => SendProc(d) \in procs[d]
           /\ m_driverLevel[d] = 2 => "VSCPWrite" \in procs[d] \/ branch[d] = 1
<1>1. CASE branch[d] = 1
  <2>1. "CanalSend" \in procs[d]
    BY <1>1 DEF Required, CanalRequired
  <2> QED BY <1>1, <2>1 DEF SendProc
<1>2. CASE branch[d] = 2
  <2>1. "VSCPWrite" \in procs[d]
    BY <1>2 DEF Required, VscpRequired
  <2> QED BY <1>2, <2>1 DEF LevelInv
<1> QED BY <1>1, <1>2 DEF LevelInv

(* Every step of an item's callback preserves the item's invariant.        *)
LEMMA CallbackKeepsItem ==
    ASSUME ItemTypeOK, NEW d \in Driver, ItemInv(d), CbDeliver(d) \/ Callback(d)
    PROVE  ItemInv(d)'
<1> USE DEF ItemInv, CbGoto
<1>1. UNCHANGED <<pc, threadVars, mqtt>>
  BY DEF Callback, CbDeliver, CbLock, CbCheck, CbDispatch, CbReturn, CbUnlock
<1>2. ThreadInv(d)' /\ LevelInv(d)'
  BY <1>1 DEF ThreadInv, LevelInv, threadVars
<1>3. CallbackInv(d)'
  <2> USE <1>1 DEF ItemTypeOK, CallbackInv, threadVars, BeforeOpen, Connected,
          Closing, Closed
  <2>1. CASE CbDeliver(d)
    BY <2>1 DEF CbDeliver, ThreadInv
  <2>2. CASE CbLock(d)
    BY <2>2 DEF CbLock
  <2>3. CASE CbCheck(d)
    BY <2>3 DEF CbCheck, ThreadInv, ThreadPoints
  <2>4. CASE CbDispatch(d)
    <3>1. Required(branch[d]) \subseteq procs[d]
      BY <2>4 DEF CbDispatch, ThreadInv
    <3>2. cb'[d] = "call" =>
            \/ cbProc'[d] \in procs[d]
            \/ branch[d] = 1 /\ m_driverLevel[d] = 2
      <4>1. \/ cb'[d] = "unlock"
            \/ m_driverLevel[d] = 1 /\ cbProc'[d] = SendProc(d)
            \/ m_driverLevel[d] = 2 /\ cbProc'[d] = "VSCPWrite"
        BY <2>4 DEF CbDispatch
      <4>2. LevelInv(d)
        OBVIOUS
      <4> HIDE DEF ItemInv, CallbackInv, ItemTypeOK
      <4> QED
        BY <3>1, <4>1, <4>2, DispatchProc
    <3> QED
      BY <2>4, <3>2 DEF CbDispatch
  <2>5. CASE CbReturn(d)
    BY <2>5 DEF CbReturn
  <2>6. CASE CbUnlock(d)
    BY <2>6 DEF CbUnlock
  <2> QED
    BY <2>1, <2>2, <2>3, <2>4, <2>5, <2>6 DEF Callback
<1> QED
  BY <1>2, <1>3

-----------------------------------------------------------------------------
(* The inductive invariant: the main thread.                               *)

(* Started threads, and only they, take steps of deviceThread().           *)
LEMMA ThreadRuns ==
    ASSUME ItemTypeOK, NEW d \in Driver, DeviceThread(d)
    PROVE  /\ pc[d] \notin {"none", "joined"}
           /\ pc'[d] \notin {"none", "joined"}
           /\ \A e \in Driver : e # d => pc'[e] = pc[e]
<1> USE DEF ItemTypeOK, Goto
<1>1. \E from, to \in ThreadPoints \ {"none", "joined"} : Goto(d, from, to)
  <2>1. CASE Load(d)
    BY <2>1 DEF Load, ThreadPoints
  <2>2. CASE Resolve(d)
    BY <2>2 DEF Resolve, ThreadPoints
  <2>3. CASE Open(d)
    BY <2>3 DEF Open, ThreadPoints
  <2>4. CASE Connect(d)
    BY <2>4 DEF Connect, ThreadPoints
  <2>5. CASE GetLevel(d) \/ LoopTest(d) \/ Read(d) \/ Discovery(d) \/ Send(d)
    BY <2>5 DEF GetLevel, LoopTest, Read, Discovery, Send, ThreadPoints
  <2>6. CASE Disconnect(d) \/ Disconnected(d) \/ LockForClose(d) \/ Close(d)
                \/ UnlockAfterClose(d) \/ Unload(d)
    BY <2>6 DEF Disconnect, Disconnected, LockForClose, Close,
       UnlockAfterClose, Unload, ThreadPoints
  <2> QED
    BY <2>1, <2>2, <2>3, <2>4, <2>5, <2>6 DEF DeviceThread
<1> QED
  BY <1>1

(* A thread told to quit is never told otherwise.                          *)
LEMMA ThreadKeepsQuit ==
    ASSUME ItemTypeOK, NEW d \in Driver, DeviceThread(d)
    PROVE  \A e \in Driver : m_bQuit[e] => m_bQuit'[e]
<1>1. UNCHANGED m_bQuit \/ m_bQuit' = [m_bQuit EXCEPT ![d] = TRUE]
  BY DEF DeviceThread, Load, Resolve, Open, Connect, GetLevel, LoopTest, Read, Discovery,
     Send, Disconnect, Disconnected, LockForClose, Close, UnlockAfterClose, Unload
<1> QED
  BY <1>1 DEF ItemTypeOK

(* A step of a device thread does not disturb what the main thread knows.  *)
LEMMA ThreadKeepsMain ==
    ASSUME TypeOK, MainInv, NEW d \in Driver, DeviceThread(d),
           UNCHANGED mainVars
    PROVE  MainInv'
<1>1. \A e \in Driver : m_bQuit[e] => m_bQuit'[e]
  BY ThreadKeepsQuit DEF TypeOK
<1> QED
  BY <1>1, ThreadRuns DEF TypeOK, MainInv, mainVars

(* Neither does a step of a callback.                                      *)
LEMMA CallbackKeepsMain ==
    ASSUME MainInv, NEW d \in Driver, CbDeliver(d) \/ Callback(d),
           UNCHANGED mainVars
    PROVE  MainInv'
<1>1. UNCHANGED <<pc, m_bQuit>>
  BY DEF Callback, CbDeliver, CbLock, CbCheck, CbDispatch, CbReturn, CbUnlock
<1> QED
  BY <1>1 DEF MainInv, mainVars

(* Starting, stopping and joining keep m_bThreadStarted in step with the   *)
(* threads, and the client connected until the last join.                  *)
LEMMA MainKeepsMain ==
    ASSUME TypeOK, MainInv, MainThread \/ Signal
    PROVE  MainInv'
<1> USE NAssumption DEF TypeOK, ItemTypeOK, MainInv, Driver, itemVars
<1>1. CASE InitMqtt
  BY <1>1 DEF InitMqtt
<1>2. CASE StartDriver
  <2>1. \A d \in Driver : d # it =>
          pc'[d] = pc[d] /\ m_bThreadStarted'[d] = m_bThreadStarted[d]
    BY <1>2 DEF StartDriver, Goto
  <2>2. m_bThreadStarted'[it] = (pc'[it] \notin {"none", "joined"})
    <3>1. CASE UNCHANGED <<pc, m_bThreadStarted>>
      BY <1>2, <3>1 DEF StartDriver
    <3>2. CASE /\ Goto(it, "none", "load")
               /\ m_bThreadStarted' = [m_bThreadStarted EXCEPT ![it] = TRUE]
      <4>1. pc'[it] = "load" /\ m_bThreadStarted'[it] = TRUE
        BY <1>2, <3>2 DEF StartDriver, Goto
      <4> QED BY <4>1
    <3> QED
      BY <1>2, <3>1, <3>2 DEF StartDriver
  <2>3. \A d \in Driver :
          m_bThreadStarted'[d] = (pc'[d] \notin {"none", "joined"})
    BY <2>1, <2>2
  <2>4. mpc' = "start" /\ it' = it + 1 /\ cleanups' = cleanups
        /\ mainMqtt' = mainMqtt /\ mpc = "start"
    BY <1>2 DEF StartDriver
  <2>5. \A d \in Driver : d >= it' => pc'[d] = "none"
    BY <2>1, <2>4
  <2> QED
    BY <2>3, <2>4, <2>5
<1>3. CASE DriversStarted
  BY <1>3 DEF DriversStarted
<1>4. CASE MainLoopEnds
  BY <1>4 DEF MainLoopEnds
<1>5. CASE StopDriver
  BY <1>5 DEF StopDriver
<1>6. CASE JoinDriver
  <2>1. \A d \in Driver : d # it =>
          pc'[d] = pc[d] /\ m_bThreadStarted'[d] = m_bThreadStarted[d]
    BY <1>6 DEF JoinDriver, Goto
  <2>2. /\ m_bThreadStarted'[it] = (pc'[it] \notin {"none", "joined"})
        /\ ~m_bThreadStarted'[it]
    <3>1. it \in Driver
      BY <1>6 DEF JoinDriver
    <3>2. CASE m_bThreadStarted[it]
      <4>1. pc'[it] = "joined" /\ m_bThreadStarted'[it] = FALSE
        BY <1>6, <3>1, <3>2 DEF JoinDriver, Goto
      <4> QED BY <4>1
    <3>3. CASE ~m_bThreadStarted[it]
      BY <1>6, <3>1, <3>3 DEF JoinDriver
    <3> QED BY <3>2, <3>3
  <2>3. \A d \in Driver :
          m_bThreadStarted'[d] = (pc'[d] \notin {"none", "joined"})
    BY <2>1, <2>2
  <2>4. mpc' = "stop" /\ it' = it + 1 /\ cleanups' = cleanups
        /\ mainMqtt' = mainMqtt /\ mpc = "join"
    BY <1>6 DEF JoinDriver
  <2>5. \A d \in Driver : d < it' \/ cleanups' > 0 => ~m_bThreadStarted'[d]
    BY <2>1, <2>2, <2>4
  <2> QED
    BY <2>3, <2>4, <2>5
<1>7. CASE DisconnectMain
  BY <1>7 DEF DisconnectMain
<1>8. CASE DeleteControlObject
  BY <1>8 DEF DeleteControlObject
<1>9. CASE Signal
  BY <1>9 DEF Signal
<1> QED
  BY <1>1, <1>2, <1>3, <1>4, <1>5, <1>6, <1>7, <1>8, <1>9 DEF MainThread

(* The main thread starts and joins item threads and tells them to quit.   *)
LEMMA MainKeepsItems ==
    ASSUME TypeOK, MainInv, NEW d \in Driver, ItemInv(d), MainThread \/ Signal
    PROVE  ItemInv(d)'
<1> USE DEF TypeOK, ItemTypeOK
<1>1. CASE UNCHANGED itemVars
  BY <1>1, ItemFrame DEF ItemUnchanged, itemVars, threadVars, callbackVars
<1>2. CASE StartDriver
  <2> USE <1>2 DEF StartDriver, Goto, threadVars, callbackVars, BeforeOpen,
          Connected, Closing, Closed
  <2>1. ThreadInv(d)'
    BY DEF ItemInv, ThreadInv
  <2>2. LevelInv(d)'
    BY DEF ItemInv, LevelInv
  <2>3. CallbackInv(d)'
    BY DEF ItemInv, CallbackInv
  <2> QED BY <2>1, <2>2, <2>3 DEF ItemInv
<1>3. CASE StopDriver
  BY <1>3, ItemFrame DEF StopDriver, ItemUnchanged, threadVars, callbackVars
<1>4. CASE JoinDriver
  <2> USE <1>4 DEF JoinDriver, Goto, threadVars, callbackVars, BeforeOpen,
          Connected, Closing, Closed
  <2>1. ThreadInv(d)'
    BY DEF ItemInv, ThreadInv
  <2>2. LevelInv(d)'
    BY DEF ItemInv, LevelInv
  <2>3. CallbackInv(d)'
    BY DEF ItemInv, CallbackInv
  <2> QED BY <2>1, <2>2, <2>3 DEF ItemInv
<1> QED
  BY <1>1, <1>2, <1>3, <1>4 DEF MainThread, InitMqtt, DriversStarted,
     MainLoopEnds, DisconnectMain, DeleteControlObject, Signal

-----------------------------------------------------------------------------
(* Inv is an invariant.                                                    *)

(* A step of one item's threads keeps the invariants of all items.         *)
LEMMA StepKeepsItems ==
    ASSUME ItemTypeOK, \A e \in Driver : ItemInv(e), NEW d \in Driver,
           DeviceThread(d) \/ CbDeliver(d) \/ Callback(d)
    PROVE  \A e \in Driver : ItemInv(e)'
<1> SUFFICES ASSUME NEW e \in Driver PROVE ItemInv(e)'
  OBVIOUS
<1>1. ItemInv(e)
  OBVIOUS
<1>2. CASE e = d
  BY <1>1, <1>2, ThreadKeepsItem, CallbackKeepsItem
<1>3. CASE e # d
  BY <1>1, <1>3, OtherItems, ItemFrame
<1> QED BY <1>2, <1>3

(* Every step of the daemon preserves the invariant.                       *)
LEMMA InvNext == Inv /\ [Next]_vars => Inv'
<1> SUFFICES ASSUME Inv, [Next]_vars PROVE Inv'
  OBVIOUS
<1>1. TypeOK /\ ItemTypeOK /\ MainInv /\ \A e \in Driver : ItemInv(e)
  BY DEF Inv, TypeOK
<1>2. CASE \E d \in Driver : ThreadStep(d)
  <2>1. PICK d \in Driver : DeviceThread(d) /\ UNCHANGED mainVars
    BY <1>2 DEF ThreadStep
  <2>2. TypeOK'
    BY <1>1, <2>1, TypeDeviceThread DEF TypeOK, mainVars
  <2>3. MainInv'
    BY <1>1, <2>1, ThreadKeepsMain
  <2>4. \A e \in Driver : ItemInv(e)'
    BY <1>1, <2>1, StepKeepsItems
  <2> QED BY <2>2, <2>3, <2>4 DEF Inv
<1>3. CASE \E d \in Driver : DeliverStep(d) \/ CallbackStep(d)
  <2>1. PICK d \in Driver :
          (CbDeliver(d) \/ Callback(d)) /\ UNCHANGED mainVars
    BY <1>3 DEF DeliverStep, CallbackStep
  <2>2. TypeOK'
    BY <1>1, <2>1, TypeCallback DEF TypeOK, mainVars
  <2>3. MainInv'
    BY <1>1, <2>1, CallbackKeepsMain
  <2>4. \A e \in Driver : ItemInv(e)'
    BY <1>1, <2>1, StepKeepsItems
  <2> QED BY <2>2, <2>3, <2>4 DEF Inv
<1>4. CASE MainStep \/ SignalStep
  <2>1. MainThread \/ Signal
    BY <1>4 DEF MainStep, SignalStep
  <2>2. TypeOK'
    BY <1>1, <2>1, TypeMain
  <2>3. MainInv'
    BY <1>1, <2>1, MainKeepsMain
  <2>4. \A e \in Driver : ItemInv(e)'
    BY <1>1, <2>1, MainKeepsItems
  <2> QED BY <2>2, <2>3, <2>4 DEF Inv
<1>5. CASE UNCHANGED vars
  <2>1. TypeOK'
    BY <1>1, <1>5 DEF TypeOK, ItemTypeOK, vars, itemVars, mainVars, threadVars,
       callbackVars
  <2>2. MainInv'
    BY <1>1, <1>5 DEF MainInv, vars, itemVars, mainVars
  <2>3. \A e \in Driver : ItemInv(e)'
    BY <1>1, <1>5, ItemFrame DEF ItemUnchanged, vars, itemVars, threadVars,
       callbackVars
  <2> QED BY <2>1, <2>2, <2>3 DEF Inv
<1> QED
  BY <1>2, <1>3, <1>4, <1>5 DEF Next, Terminated

(* The inductive invariant holds in every reachable state of the daemon.   *)
THEOREM Invariance == Spec => []Inv
<1>1. Init => Inv
  BY InvInit
<1>2. Inv /\ [Next]_vars => Inv'
  BY InvNext
<1> QED
  BY <1>1, <1>2, PTL DEF Spec

-----------------------------------------------------------------------------
(* The safety properties.                                                  *)

(* Every variable of the daemon keeps its type, m_driverLevel its 8 bits.  *)
THEOREM TypeCorrect == Spec => []TypeOK
<1>1. Inv => TypeOK
  BY DEF Inv
<1> QED
  BY <1>1, Invariance, PTL

(* receive_event_callback() enters a driver only while it is mapped and    *)
(* open, and through a resolved pointer unless a Level I driver claims to  *)
(* be of Level II.                                                         *)
THEOREM CallbackCalls == Spec => []CallbackCallSafe
<1>1. Inv => CallbackCallSafe
  <2> SUFFICES ASSUME Inv, NEW d \in Driver, cb[d] = "call"
               PROVE  /\ loaded[d] /\ channel[d] = "open" /\ m_openHandle[d] # 0
                      /\ \/ cbProc[d] \in procs[d]
                         \/ branch[d] = 1 /\ m_driverLevel[d] = 2
    BY DEF CallbackCallSafe
  <2>1. pc[d] \in Connected \cup {"disconnecting", "lock"}
    BY DEF Inv, ItemInv, CallbackInv
  <2>2. loaded[d] /\ channel[d] = "open" /\ m_openHandle[d] # 0
    BY <2>1 DEF Inv, ItemInv, ThreadInv, Closing
  <2> QED
    BY <2>2 DEF Inv, ItemInv, CallbackInv
<1> QED
  BY <1>1, Invariance, PTL

(* deviceThread() enters a driver only while it is mapped and open, through *)
(* resolved pointers, and closes it only while the callback is outside it. *)
THEOREM ThreadCalls == Spec => []ThreadCallSafe
<1>1. Inv => ThreadCallSafe
  <2> SUFFICES ASSUME Inv, NEW d \in Driver,
                      pc[d] \in {"level", "read", "close"}
               PROVE  /\ loaded[d] /\ channel[d] = "open" /\ m_openHandle[d] # 0
                      /\ pc[d] = "level" => "CanalGetLevel" \in procs[d]
                      /\ pc[d] = "read" => ReadProcs(d) \subseteq procs[d]
                      /\ pc[d] = "close" =>
                            CloseProc(d) \in procs[d] /\ cb[d] # "call"
    BY DEF ThreadCallSafe
  <2>1. loaded[d] /\ channel[d] = "open" /\ m_openHandle[d] # 0
    BY DEF Inv, ItemInv, ThreadInv, Connected, Closing
  <2>2. Required(branch[d]) \subseteq procs[d]
    BY DEF Inv, ItemInv, ThreadInv, Connected, Closing
  <2>3. branch[d] \in {1, 2} /\ (pc[d] = "level" => branch[d] = 1)
    BY DEF Inv, ItemInv, LevelInv
  <2>4. branch[d] = 1 => {"CanalGetLevel", "CanalDataAvailable", "CanalReceive",
                          "CanalClose"} \subseteq procs[d]
    BY <2>2 DEF Required, CanalRequired
  <2>5. branch[d] = 2 => {"VSCPRead", "VSCPClose"} \subseteq procs[d]
    BY <2>2 DEF Required, VscpRequired
  <2>6. ReadProcs(d) \subseteq procs[d] /\ CloseProc(d) \in procs[d]
    BY <2>3, <2>4, <2>5 DEF ReadProcs, CloseProc
  <2>7. pc[d] = "close" => cb[d] # "call"
    BY DEF Inv, ItemInv, CallbackInv, Connected
  <2> QED
    BY <2>1, <2>3, <2>4, <2>6, <2>7
<1> QED
  BY <1>1, Invariance, PTL

(* Discovered nodes and events are sent only on connected clients.         *)
THEOREM ConnectedSends == Spec => []SendsWhileConnected
<1>1. Inv => SendsWhileConnected
  <2> SUFFICES ASSUME Inv, NEW d \in Driver
               PROVE  /\ pc[d] = "discovery" => mainMqtt
                      /\ pc[d] = "send" => mqtt[d]
    BY DEF SendsWhileConnected
  <2>1. pc[d] = "send" => mqtt[d]
    BY DEF Inv, ItemInv, ThreadInv, Connected
  <2>2. pc[d] = "discovery" => m_bThreadStarted[d]
    BY DEF Inv, MainInv
  <2>3. m_bThreadStarted[d] => mainMqtt
    <3> SUFFICES ASSUME m_bThreadStarted[d] PROVE mainMqtt
      OBVIOUS
    <3>1. mpc \notin {"delete", "exit"}
      BY DEF Inv, MainInv
    <3>2. mpc # "init_mqtt"
      BY DEF Inv, MainInv
    <3>3. CASE mpc \in {"start", "run"}
      BY <3>3 DEF Inv, MainInv
    <3>4. CASE mpc \in {"stop", "join"}
      BY <3>4 DEF Inv, MainInv, TypeOK
    <3> QED
      BY <3>1, <3>2, <3>3, <3>4 DEF Inv, TypeOK, MainPoints
  <2> QED
    BY <2>1, <2>2, <2>3
<1> QED
  BY <1>1, Invariance, PTL

(* No device thread outlives the control object.                           *)
THEOREM Quiescence == Spec => []QuiescentAtDelete
<1>1. Inv => QuiescentAtDelete
  <2> SUFFICES ASSUME Inv, mpc \in {"delete", "exit"}, NEW d \in Driver
               PROVE  /\ pc[d] \in {"none", "joined"}
                      /\ DisconnectJoins => cb[d] = "idle"
    BY DEF QuiescentAtDelete
  <2>1. pc[d] \in {"none", "joined"}
    BY DEF Inv, MainInv
  <2> QED
    BY <2>1 DEF Inv, ItemInv, CallbackInv, BeforeOpen, Closed
<1> QED
  BY <1>1, Invariance, PTL

(* No thread is joined twice or before it was created.                     *)
THEOREM SingleJoin == Spec => []JoinsOnce
<1>1. Inv => JoinsOnce
  BY DEF Inv, MainInv, JoinsOnce
<1> QED
  BY <1>1, Invariance, PTL

(* Whichever way a device thread ends, its client is disconnected and the  *)
(* mutex free of it; a library it leaves mapped lacked a symbol and was    *)
(* never opened; a Level II driver is not left open; and a handle that is  *)
(* left, of a Level I driver that was not closed or failed to open, is one *)
(* no callback can see.                                                    *)
THEOREM Released == Spec => []ReleasedAtEnd
<1>1. Inv => ReleasedAtEnd
  <2> SUFFICES ASSUME Inv, NEW d \in Driver, pc[d] \in {"done", "joined"}
               PROVE  /\ ~mqtt[d] /\ m_deviceMutex[d] # "thread"
                      /\ loaded[d] => procs[d] = {} /\ channel[d] = "new"
                      /\ branch[d] = 2 =>
                           channel[d] # "open" /\ m_openHandle[d] = 0
                      /\ channel[d] = "closed" => m_openHandle[d] = 0
                      /\ m_openHandle[d] # 0 => cb[d] = "idle"
    BY DEF ReleasedAtEnd
  <2>1. ~mqtt[d]
    BY DEF Inv, ItemInv, ThreadInv, Connected
  <2>2. m_deviceMutex[d] # "thread"
    BY DEF Inv, ItemInv, CallbackInv
  <2>3. loaded[d] => procs[d] = {} /\ channel[d] = "new"
    BY DEF Inv, ItemInv, ThreadInv
  <2>4. /\ branch[d] = 2 => channel[d] # "open" /\ m_openHandle[d] = 0
        /\ channel[d] = "closed" => m_openHandle[d] = 0
    BY DEF Inv, ItemInv, ThreadInv, Closed
  <2>5. m_openHandle[d] # 0 => cb[d] = "idle"
    BY DEF Inv, ItemInv, CallbackInv, Closed
  <2> QED
    BY <2>1, <2>2, <2>3, <2>4, <2>5
<1> QED
  BY <1>1, Invariance, PTL

(* The waits of the shutdown never close to a circle, however many drivers *)
(* there are and whether or not disconnect() joins the client's thread.    *)
THEOREM NoCircle == Spec => []NoCircularWait
<1>1. Inv => NoCircularWait
  <2> SUFFICES ASSUME Inv PROVE NoCircularWait
    OBVIOUS
  <2>1. mpc = "join" /\ m_bThreadStarted[it] =>
          m_bQuit[it] /\ pc[it] \notin {"none", "joined"}
    BY DEF Inv, MainInv
  <2>2. ASSUME NEW d \in Driver
        PROVE  /\ ThreadWaits(d) => cb[d] # "idle" /\ ~CallbackWaits(d)
               /\ CallbackWaits(d) => pc[d] \in {"close", "unlock"}
    <3>1. m_deviceMutex[d] \in {"free", "thread", "callback"}
      BY DEF Inv, TypeOK, ItemTypeOK
    <3>2. /\ m_deviceMutex[d] = "callback" => cb[d] \notin {"idle", "lock"}
          /\ m_deviceMutex[d] = "thread" => pc[d] \in {"close", "unlock"}
      BY DEF Inv, ItemInv, CallbackInv
    <3> QED
      BY <3>1, <3>2 DEF ThreadWaits, CallbackWaits
  <2> QED
    BY <2>1, <2>2 DEF NoCircularWait
<1> QED
  BY <1>1, Invariance, PTL

-----------------------------------------------------------------------------
(* A device thread that has been told to quit.                             *)

(* The control points in the order in which a thread that finds m_bQuit    *)
(* set passes them: out of the work loop and through the close.            *)
Stage(p) ==
    CASE p = "none" -> 0 [] p = "load" -> 1 [] p = "resolve" -> 2
      [] p = "open" -> 3 [] p = "connect" -> 4 [] p = "level" -> 5
      [] p = "read" -> 6 [] p = "discovery" -> 7 [] p = "send" -> 8
      [] p = "loop" -> 9 [] p = "disconnect" -> 10 [] p = "disconnecting" -> 11
      [] p = "lock" -> 12 [] p = "close" -> 13 [] p = "unlock" -> 14
      [] p = "unload" -> 15 [] p = "done" -> 16 [] OTHER -> 17

(* From wherever it is, a thread told to quit moves only towards its end:  *)
(* it enters the driver for no further read once it is back at the head of *)
(* the work loop, so pthread_join() waits for at most 15 of its steps.     *)
StopMovesForward ==
    [][\A d \in Driver : m_bQuit[d] =>
         /\ m_bQuit'[d]
         /\ pc'[d] = pc[d] \/ Stage(pc'[d]) > Stage(pc[d])]_vars

LEMMA StopStep ==
    ASSUME ItemTypeOK, NEW d \in Driver, m_bQuit[d], DeviceThread(d)
    PROVE  Stage(pc'[d]) > Stage(pc[d])
<1> USE DEF ItemTypeOK, Goto, Stage
<1>1. CASE Load(d) \/ Resolve(d) \/ Open(d)
  BY <1>1 DEF Load, Resolve, Open
<1>2. CASE Connect(d) \/ GetLevel(d)
  BY <1>2 DEF Connect, GetLevel
<1>3. CASE LoopTest(d)
  BY <1>3 DEF LoopTest
<1>4. CASE Read(d) \/ Discovery(d) \/ Send(d)
  BY <1>4 DEF Read, Discovery, Send
<1>5. CASE Disconnect(d) \/ Disconnected(d) \/ LockForClose(d)
  BY <1>5 DEF Disconnect, Disconnected, LockForClose
<1>6. CASE Close(d) \/ UnlockAfterClose(d) \/ Unload(d)
  BY <1>6 DEF Close, UnlockAfterClose, Unload
<1> QED
  BY <1>1, <1>2, <1>3, <1>4, <1>5, <1>6 DEF DeviceThread

(* The main thread moves an item only from "none" and from "done".         *)
LEMMA MainForward ==
    ASSUME ItemTypeOK, NEW d \in Driver, MainThread \/ Signal, MainInv
    PROVE  /\ m_bQuit[d] => m_bQuit'[d]
           /\ pc'[d] = pc[d] \/ Stage(pc'[d]) > Stage(pc[d])
<1> USE DEF ItemTypeOK
<1>1. CASE UNCHANGED itemVars
  BY <1>1 DEF itemVars
<1>2. CASE StartDriver
  BY <1>2 DEF StartDriver, Goto, Stage
<1>3. CASE StopDriver
  BY <1>3 DEF StopDriver
<1>4. CASE JoinDriver
  BY <1>4 DEF JoinDriver, Goto, Stage, MainInv
<1> QED
  BY <1>1, <1>2, <1>3, <1>4 DEF MainThread, InitMqtt, DriversStarted,
     MainLoopEnds, DisconnectMain, DeleteControlObject, Signal

(* Whatever its driver answers, a device thread told to quit moves only    *)
(* towards its end.                                                        *)
THEOREM StopForward == Spec => StopMovesForward
<1>1. Inv /\ [Next]_vars =>
        [\A d \in Driver : m_bQuit[d] =>
           /\ m_bQuit'[d]
           /\ pc'[d] = pc[d] \/ Stage(pc'[d]) > Stage(pc[d])]_vars
  <2> SUFFICES ASSUME Inv, Next, NEW d \in Driver, m_bQuit[d]
               PROVE  /\ m_bQuit'[d]
                      /\ pc'[d] = pc[d] \/ Stage(pc'[d]) > Stage(pc[d])
    OBVIOUS
  <2>1. ItemTypeOK /\ MainInv
    BY DEF Inv, TypeOK
  <2>2. ASSUME NEW e \in Driver, ThreadStep(e)
        PROVE  /\ m_bQuit'[d]
               /\ pc'[d] = pc[d] \/ Stage(pc'[d]) > Stage(pc[d])
    <3>1. m_bQuit'[d]
      BY <2>1, <2>2, ThreadKeepsQuit DEF ThreadStep
    <3>2. CASE e = d
      BY <2>1, <2>2, <3>1, <3>2, StopStep DEF ThreadStep
    <3>3. CASE e # d
      BY <2>1, <2>2, <3>1, <3>3, ThreadRuns DEF ThreadStep
    <3> QED
      BY <3>2, <3>3
  <2>3. ASSUME NEW e \in Driver, DeliverStep(e) \/ CallbackStep(e)
        PROVE  UNCHANGED <<pc, m_bQuit>>
    BY <2>3 DEF DeliverStep, CallbackStep, Callback, CbDeliver, CbLock, CbCheck,
       CbDispatch, CbReturn, CbUnlock
  <2>4. CASE MainStep \/ SignalStep
    BY <2>1, <2>4, MainForward DEF MainStep, SignalStep
  <2>5. CASE Terminated
    BY <2>5 DEF Terminated, vars, itemVars
  <2> QED
    BY <2>2, <2>3, <2>4, <2>5 DEF Next
<1> QED
  BY <1>1, Invariance, PTL DEF Spec, StopMovesForward
=============================================================================
