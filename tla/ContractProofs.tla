--------------------------- MODULE ContractProofs ---------------------------
(***************************************************************************)
(* The daemon implements the driver contract, for every number of drivers, *)
(* every set of driver libraries and both behaviours of disconnect().      *)
(***************************************************************************)
EXTENDS DaemonProofs

ReadPoints == {"level", "read"}
UsePoints == Connected \cup Closing

(* The read call of one driver begins or ends.                             *)
LEMMA ReadingChanges ==
    ASSUME NEW d \in Driver, NEW v \in BOOLEAN,
           (pc'[d] \in ReadPoints) = v,
           \A e \in Driver : e # d => pc'[e] = pc[e]
    PROVE  Reading' = [Reading EXCEPT ![d] = v]
BY DEF Reading, ReadPoints

(* A step that neither begins nor ends a read call.                        *)
LEMMA ReadingSame ==
    ASSUME NEW d \in Driver,
           (pc'[d] \in ReadPoints) = (pc[d] \in ReadPoints),
           \A e \in Driver : e # d => pc'[e] = pc[e]
    PROVE  Reading' = Reading
BY DEF Reading, ReadPoints

(* One driver is taken into use or closed.                                 *)
LEMMA InUseChanges ==
    ASSUME NEW d \in Driver, NEW v \in BOOLEAN,
           (pc'[d] \in UsePoints) = v,
           \A e \in Driver : e # d => pc'[e] = pc[e]
    PROVE  InUse' = [InUse EXCEPT ![d] = v]
BY DEF InUse, UsePoints

(* A step that neither takes a driver into use nor closes it.              *)
LEMMA InUseSame ==
    ASSUME NEW d \in Driver,
           (pc'[d] \in UsePoints) = (pc[d] \in UsePoints),
           \A e \in Driver : e # d => pc'[e] = pc[e]
    PROVE  InUse' = InUse
BY DEF InUse, UsePoints

(* The write call of one driver begins or ends.                            *)
LEMMA WritingChanges ==
    ASSUME NEW d \in Driver, NEW v \in BOOLEAN,
           (cb'[d] = "call" /\ cbProc'[d] \in procs'[d]) = v,
           \A e \in Driver : e # d => /\ cb'[e] = cb[e]
                                      /\ cbProc'[e] = cbProc[e]
                                      /\ procs'[e] = procs[e]
    PROVE  Writing' = [Writing EXCEPT ![d] = v]
BY DEF Writing

(* A step that neither begins nor ends a write call.                       *)
LEMMA WritingSame ==
    ASSUME NEW d \in Driver,
           \/ cb[d] # "call" /\ cb'[d] # "call"
           \/ cb'[d] = cb[d] /\ cbProc'[d] = cbProc[d] /\ procs'[d] = procs[d],
           \A e \in Driver : e # d => /\ cb'[e] = cb[e]
                                      /\ cbProc'[e] = cbProc[e]
                                      /\ procs'[e] = procs[e]
    PROVE  Writing' = Writing
BY DEF Writing

-----------------------------------------------------------------------------
(* Each step of the threads of driver d is a step of the contract for d or *)
(* leaves the contract's variables alone.                                  *)

ContractStep(d) ==
    \/ Contract!Map(d) \/ Contract!Unmap(d) \/ Contract!Open(d)
    \/ Contract!Use(d) \/ Contract!Close(d) \/ Contract!CloseAndUnmap(d)
    \/ Contract!BeginRead(d) \/ Contract!EndRead(d)
    \/ Contract!BeginWrite(d) \/ Contract!EndWrite(d)
    \/ UNCHANGED <<loaded, channel, InUse, Reading, Writing>>

(* Every step of a device thread is a step of the contract or none.        *)
LEMMA ThreadImplements ==
    ASSUME Inv, NEW d \in Driver, DeviceThread(d)
    PROVE  ContractStep(d)
<1>1. ItemTypeOK /\ ThreadInv(d) /\ CallbackInv(d) /\ LevelInv(d)
  BY DEF Inv, TypeOK, ItemInv
<1>2. \A e \in Driver : e # d => /\ pc'[e] = pc[e] /\ cb'[e] = cb[e]
                                 /\ cbProc'[e] = cbProc[e]
                                 /\ procs'[e] = procs[e]
  BY <1>1, OtherItems DEF ItemUnchanged
<1>3. UNCHANGED <<cb, cbProc>>
  BY DEF DeviceThread, Load, Resolve, Open, Connect, GetLevel, LoopTest, Read,
     Discovery, Send, Disconnect, Disconnected, LockForClose, Close,
     UnlockAfterClose, Unload, callbackVars
<1>4. /\ Reading[d] = (pc[d] \in ReadPoints)
      /\ Writing[d] = (cb[d] = "call" /\ cbProc[d] \in procs[d])
      /\ InUse[d] = (pc[d] \in UsePoints)
  BY DEF Reading, Writing, InUse, ReadPoints, UsePoints
<1>5. cb[d] = "call" => pc[d] \in Connected \cup {"disconnecting", "lock"}
  BY <1>1 DEF CallbackInv
<1>6. CASE Load(d) \/ Resolve(d) \/ Open(d)
  <2>1. pc[d] \in {"load", "resolve", "open"}
        /\ pc'[d] \in {"resolve", "open", "connect", "done"}
    BY <1>1, <1>6 DEF Load, Resolve, Open, Goto, ItemTypeOK
  <2>2. cb[d] # "call" /\ channel[d] = "new"
    BY <1>1, <1>5, <2>1 DEF Connected, ThreadInv, BeforeOpen
  <2>3. Reading' = Reading
    BY <1>2, <2>1, ReadingSame DEF ReadPoints
  <2>4. Writing' = Writing
    BY <1>2, <1>3, <2>2, WritingSame
  <2>5. ~Reading[d] /\ ~Writing[d] /\ ~InUse[d]
    BY <1>4, <2>1, <2>2 DEF ReadPoints, UsePoints, Connected, Closing
  <2>9. InUse' = InUse
    BY <1>2, <2>1, InUseSame DEF UsePoints, Connected, Closing
  <2>6. CASE Load(d)
    <3>1. ~loaded[d] /\ channel' = channel
      BY <1>1, <2>6 DEF Load, Goto, ThreadInv
    <3>2. loaded' = loaded \/ loaded' = [loaded EXCEPT ![d] = TRUE]
      BY <2>6 DEF Load
    <3> QED
      BY <2>2, <2>3, <2>4, <2>9, <3>1, <3>2 DEF ContractStep, Contract!Map
  <2>7. CASE Resolve(d)
    <3>1. loaded[d] /\ channel' = channel
      BY <1>1, <2>7 DEF Resolve, Goto, ThreadInv
    <3>2. loaded' = loaded \/ loaded' = [loaded EXCEPT ![d] = FALSE]
      <4>1. \/ loaded' = loaded
            \/ \E leaked \in BOOLEAN : loaded' = [loaded EXCEPT ![d] = leaked]
        BY <2>7 DEF Resolve
      <4>2. [loaded EXCEPT ![d] = TRUE] = loaded
        BY <1>1, <3>1 DEF ItemTypeOK
      <4> QED BY <4>1, <4>2
    <3> QED
      BY <2>3, <2>4, <2>5, <2>9, <3>1, <3>2 DEF ContractStep, Contract!Unmap,
         Contract!Idle
  <2>8. CASE Open(d)
    <3>1. loaded[d]
      BY <1>1, <2>8 DEF Open, Goto, ThreadInv
    <3>2. \/ loaded' = [loaded EXCEPT ![d] = FALSE] /\ channel' = channel
          \/ channel' = [channel EXCEPT ![d] = "open"] /\ loaded' = loaded
      BY <2>8 DEF Open
    <3> QED
      BY <2>2, <2>3, <2>4, <2>5, <2>9, <3>1, <3>2 DEF ContractStep,
         Contract!Unmap, Contract!Idle, Contract!Open
  <2> QED
    BY <1>6, <2>6, <2>7, <2>8
<1>7. CASE Connect(d)
  <2>1. pc[d] = "connect" /\ pc'[d] \in {"level", "loop", "done"}
    BY <1>1, <1>7 DEF Connect, Goto, ItemTypeOK
  <2>2. cb[d] # "call" /\ loaded[d] /\ channel[d] = "open"
    BY <1>1, <1>5, <2>1 DEF Connected, ThreadInv
  <2>3. Writing' = Writing
    BY <1>2, <1>3, <2>2, WritingSame
  <2>4. ~Reading[d] /\ ~Writing[d] /\ ~InUse[d]
    BY <1>4, <2>1, <2>2 DEF ReadPoints, UsePoints, Connected, Closing
  <2>8. pc'[d] # "done" => InUse' = [InUse EXCEPT ![d] = TRUE]
    <3>1. ASSUME pc'[d] # "done" PROVE (pc'[d] \in UsePoints) = TRUE
      BY <2>1, <3>1 DEF UsePoints, Connected
    <3> QED BY <1>2, <3>1, InUseChanges
  <2>5. CASE pc'[d] = "level"
    <3>1. Reading' = [Reading EXCEPT ![d] = TRUE]
      BY <1>2, <2>5, ReadingChanges DEF ReadPoints
    <3>2. UNCHANGED <<loaded, channel>>
      BY <1>1, <1>7, <2>5 DEF Connect, Goto, ItemTypeOK
    <3> QED
      BY <2>2, <2>3, <2>4, <2>5, <2>8, <3>1, <3>2 DEF ContractStep,
         Contract!BeginRead, Contract!Usable
  <2>6. CASE pc'[d] = "loop"
    <3>1. Reading' = Reading
      BY <1>2, <2>1, <2>6, ReadingSame DEF ReadPoints
    <3>2. UNCHANGED <<loaded, channel>>
      BY <1>1, <1>7, <2>6 DEF Connect, Goto, ItemTypeOK
    <3> QED
      BY <2>2, <2>3, <2>6, <2>8, <3>1, <3>2 DEF ContractStep, Contract!Use,
         Contract!Usable
  <2>7. CASE pc'[d] = "done"
    <3>1. Reading' = Reading
      BY <1>2, <2>1, <2>7, ReadingSame DEF ReadPoints
    <3>2. /\ loaded' = [loaded EXCEPT ![d] = FALSE]
          /\ \/ channel' = channel
             \/ channel' = [channel EXCEPT ![d] = "closed"]
      BY <1>1, <1>7, <2>7 DEF Connect, Goto, ItemTypeOK
    <3>3. InUse' = InUse
      BY <1>2, <2>1, <2>7, InUseSame DEF UsePoints, Connected, Closing
    <3> QED
      BY <2>2, <2>3, <2>4, <3>1, <3>2, <3>3 DEF ContractStep, Contract!Unmap,
         Contract!CloseAndUnmap, Contract!Usable, Contract!Idle
  <2> QED
    BY <2>1, <2>5, <2>6, <2>7
<1>8. CASE GetLevel(d) \/ LoopTest(d) \/ Read(d)
  <2>1. /\ pc[d] \in {"level", "loop", "read"}
        /\ pc'[d] \in {"loop", "read", "discovery", "disconnect"}
        /\ pc[d] = "loop" \/ pc'[d] \notin ReadPoints
    BY <1>1, <1>8 DEF GetLevel, LoopTest, Read, Goto, ItemTypeOK, ReadPoints
  <2>2. UNCHANGED <<loaded, channel, procs>>
    BY <1>8 DEF GetLevel, LoopTest, Read, threadVars
  <2>3. Writing' = Writing
    BY <1>2, <1>3, <2>2, WritingSame
  <2>4. loaded[d] /\ channel[d] = "open"
    BY <1>1, <2>1 DEF ThreadInv, Connected
  <2>8. InUse' = InUse /\ InUse' = [InUse EXCEPT ![d] = TRUE]
    <3>1. (pc[d] \in UsePoints) = TRUE /\ (pc'[d] \in UsePoints) = TRUE
      BY <2>1 DEF UsePoints, Connected
    <3> QED BY <1>2, <3>1, InUseSame, InUseChanges
  <2>5. CASE pc[d] = "loop" /\ pc'[d] = "read"
    <3>1. Reading' = [Reading EXCEPT ![d] = TRUE]
      BY <1>2, <2>5, ReadingChanges DEF ReadPoints
    <3>2. ~Reading[d]
      BY <1>4, <2>5 DEF ReadPoints
    <3> QED
      BY <2>2, <2>3, <2>4, <2>8, <3>1, <3>2 DEF ContractStep,
         Contract!BeginRead, Contract!Usable
  <2>6. CASE pc[d] \in ReadPoints /\ pc'[d] \notin ReadPoints
    <3>1. Reading' = [Reading EXCEPT ![d] = FALSE]
      <4>1. (pc'[d] \in ReadPoints) = FALSE
        BY <2>6
      <4> QED BY <1>2, <4>1, ReadingChanges
    <3>2. Reading[d]
      BY <1>4, <2>6
    <3> QED
      BY <2>2, <2>3, <2>4, <2>8, <3>1, <3>2 DEF ContractStep,
         Contract!EndRead, Contract!Usable
  <2>7. CASE pc[d] = "loop" /\ pc'[d] \notin ReadPoints
    <3>1. Reading' = Reading
      BY <1>2, <2>7, ReadingSame DEF ReadPoints
    <3> QED
      BY <2>2, <2>3, <2>8, <3>1 DEF ContractStep
  <2> QED
    BY <2>1, <2>5, <2>6, <2>7 DEF ReadPoints
<1>9. CASE \/ Discovery(d) \/ Send(d) \/ Disconnect(d) \/ Disconnected(d)
           \/ LockForClose(d) \/ UnlockAfterClose(d)
  <2>1. /\ UNCHANGED <<loaded, channel, procs>>
        /\ pc[d] \notin ReadPoints /\ pc'[d] \notin ReadPoints
        /\ (pc'[d] \in UsePoints) = (pc[d] \in UsePoints)
    BY <1>1, <1>9 DEF Discovery, Send, Disconnect, Disconnected, LockForClose,
       UnlockAfterClose, threadVars, Goto, ItemTypeOK, ReadPoints, UsePoints,
       Connected, Closing
  <2>2. Reading' = Reading
    BY <1>2, <2>1, ReadingSame
  <2>3. Writing' = Writing
    BY <1>2, <1>3, <2>1, WritingSame
  <2>4. InUse' = InUse
    BY <1>2, <2>1, InUseSame
  <2> QED
    BY <2>1, <2>2, <2>3, <2>4 DEF ContractStep
<1>10. CASE Close(d) \/ Unload(d)
  <2>1. /\ pc[d] \in {"close", "unload"} /\ loaded[d]
        /\ pc'[d] \in {"unlock", "done"} /\ UNCHANGED procs
    BY <1>1, <1>10 DEF Close, Unload, Goto, ItemTypeOK, ThreadInv, Closing
  <2>2. cb[d] # "call"
    BY <1>5, <2>1 DEF Connected
  <2>3. ~Reading[d] /\ ~Writing[d]
    BY <1>4, <2>1, <2>2 DEF ReadPoints
  <2>4. Reading' = Reading
    BY <1>2, <2>1, ReadingSame DEF ReadPoints
  <2>5. Writing' = Writing
    BY <1>2, <1>3, <2>1, WritingSame
  <2>6. CASE Close(d)
    <3>1. channel[d] = "open" /\ UNCHANGED loaded
          /\ channel' = [channel EXCEPT ![d] = "closed"]
      BY <1>1, <2>6 DEF Close, Goto, ThreadInv, Closing
    <3>2. InUse' = [InUse EXCEPT ![d] = FALSE]
      <4>1. (pc'[d] \in UsePoints) = FALSE
        BY <1>1, <2>6 DEF Close, Goto, ItemTypeOK, UsePoints, Connected, Closing
      <4> QED BY <1>2, <4>1, InUseChanges
    <3> QED
      BY <2>1, <2>3, <2>4, <2>5, <3>1, <3>2 DEF ContractStep, Contract!Close,
         Contract!Usable, Contract!Idle
  <2>7. CASE Unload(d)
    <3>1. UNCHANGED channel /\ loaded' = [loaded EXCEPT ![d] = FALSE]
      BY <2>7 DEF Unload
    <3>2. pc[d] = "unload" /\ pc'[d] = "done"
      BY <1>1, <2>7 DEF Unload, Goto, ItemTypeOK
    <3>3. InUse' = InUse /\ ~InUse[d]
      <4>1. (pc[d] \in UsePoints) = FALSE /\ (pc'[d] \in UsePoints) = FALSE
        BY <3>2 DEF UsePoints, Connected, Closing
      <4> QED BY <1>2, <1>4, <4>1, InUseSame
    <3> QED
      BY <2>1, <2>3, <2>4, <2>5, <3>1, <3>3 DEF ContractStep, Contract!Unmap,
         Contract!Idle
  <2> QED
    BY <1>10, <2>6, <2>7
<1> QED
  BY <1>6, <1>7, <1>8, <1>9, <1>10 DEF DeviceThread

(* Every step of a callback is a step of the contract or none.             *)
LEMMA CallbackImplements ==
    ASSUME Inv, NEW d \in Driver, CbDeliver(d) \/ Callback(d)
    PROVE  ContractStep(d)
<1>1. ItemTypeOK /\ ThreadInv(d) /\ CallbackInv(d)
  BY DEF Inv, TypeOK, ItemInv
<1>2. \A e \in Driver : e # d => /\ pc'[e] = pc[e] /\ cb'[e] = cb[e]
                                 /\ cbProc'[e] = cbProc[e]
                                 /\ procs'[e] = procs[e]
  BY <1>1, OtherItems DEF ItemUnchanged
<1>3. UNCHANGED <<pc, loaded, channel, procs>>
  BY DEF Callback, CbDeliver, CbLock, CbCheck, CbDispatch, CbReturn, CbUnlock,
     threadVars
<1>4. Reading' = Reading /\ InUse' = InUse
  BY <1>3 DEF Reading, InUse
<1>5. Writing[d] = (cb[d] = "call" /\ cbProc[d] \in procs[d])
  BY DEF Writing
<1>6. CASE CbDispatch(d)
  <2>1. cb[d] = "dispatch" /\ cb'[d] \in {"call", "unlock"}
    BY <1>1, <1>6 DEF CbDispatch, CbGoto, ItemTypeOK
  <2>2. loaded[d] /\ channel[d] = "open"
    BY <1>1, <2>1 DEF CallbackInv, ThreadInv, Closing
  <2>3. ~Writing[d] /\ InUse[d]
    BY <1>1, <1>5, <2>1 DEF CallbackInv, InUse, Closing
  <2>4. CASE cb'[d] = "call" /\ cbProc'[d] \in procs'[d]
    <3>1. Writing' = [Writing EXCEPT ![d] = TRUE]
      BY <1>2, <2>4, WritingChanges
    <3> QED
      BY <1>3, <1>4, <2>2, <2>3, <3>1 DEF ContractStep, Contract!BeginWrite,
         Contract!Usable
  <2>5. CASE ~(cb'[d] = "call" /\ cbProc'[d] \in procs'[d])
    <3>1. Writing' = [Writing EXCEPT ![d] = FALSE]
      BY <1>2, <2>5, WritingChanges
    <3>2. Writing' = Writing
      BY <2>3, <3>1 DEF Writing
    <3> QED
      BY <1>3, <1>4, <3>2 DEF ContractStep
  <2> QED
    BY <2>4, <2>5
<1>7. CASE CbReturn(d)
  <2>1. cb[d] = "call" /\ cb'[d] = "unlock"
    BY <1>1, <1>7 DEF CbReturn, CbGoto, ItemTypeOK
  <2>2. loaded[d] /\ channel[d] = "open"
    BY <1>1, <2>1 DEF CallbackInv, ThreadInv, Closing
  <2>3. Writing' = [Writing EXCEPT ![d] = FALSE]
    BY <1>2, <2>1, WritingChanges
  <2>4. CASE Writing[d]
    BY <1>3, <1>4, <2>2, <2>3, <2>4 DEF ContractStep, Contract!EndWrite,
       Contract!Usable
  <2>5. CASE ~Writing[d]
    <3>1. Writing' = Writing
      BY <2>3, <2>5 DEF Writing
    <3> QED
      BY <1>3, <1>4, <3>1 DEF ContractStep
  <2> QED
    BY <2>4, <2>5
<1>8. CASE CbDeliver(d) \/ CbLock(d) \/ CbCheck(d) \/ CbUnlock(d)
  <2>1. cb[d] # "call" /\ cb'[d] # "call"
    BY <1>1, <1>8 DEF CbDeliver, CbLock, CbCheck, CbUnlock, CbGoto, ItemTypeOK
  <2>2. Writing' = Writing
    BY <1>2, <2>1, WritingSame
  <2> QED
    BY <1>3, <1>4, <2>2 DEF ContractStep
<1> QED
  BY <1>6, <1>7, <1>8 DEF Callback

(* The main thread never enters a driver.                                  *)
LEMMA MainImplements ==
    ASSUME Inv, MainThread \/ Signal
    PROVE  UNCHANGED <<loaded, channel, InUse, Reading, Writing>>
<1>1. UNCHANGED <<loaded, channel, procs, cb, cbProc>>
  BY DEF MainThread, InitMqtt, StartDriver, DriversStarted, MainLoopEnds,
     StopDriver, JoinDriver, DisconnectMain, DeleteControlObject, Signal,
     itemVars, threadVars, callbackVars
<1>2. Writing' = Writing
  BY <1>1 DEF Writing
<1>3. CASE UNCHANGED pc
  BY <1>1, <1>2, <1>3 DEF Reading, InUse
<1>4. CASE StartDriver /\ ~UNCHANGED pc
  <2>1. it \in Driver /\ pc[it] = "none" /\ pc' = [pc EXCEPT ![it] = "load"]
    BY <1>4 DEF StartDriver, Goto
  <2>2. Reading' = Reading /\ InUse' = InUse
    BY <2>1, ReadingSame, InUseSame DEF Inv, TypeOK, ItemTypeOK, ReadPoints,
       UsePoints, Connected, Closing
  <2> QED BY <1>1, <1>2, <2>2
<1>5. CASE JoinDriver /\ ~UNCHANGED pc
  <2>1. it \in Driver /\ pc[it] = "done" /\ pc' = [pc EXCEPT ![it] = "joined"]
    BY <1>5 DEF JoinDriver, Goto, Inv, MainInv
  <2>2. Reading' = Reading /\ InUse' = InUse
    BY <2>1, ReadingSame, InUseSame DEF Inv, TypeOK, ItemTypeOK, ReadPoints,
       UsePoints, Connected, Closing
  <2> QED BY <1>1, <1>2, <2>2
<1> QED
  BY <1>3, <1>4, <1>5 DEF MainThread, InitMqtt, DriversStarted, MainLoopEnds,
     StopDriver, DisconnectMain, DeleteControlObject, Signal, itemVars

(* Whatever the drivers, the broker and the scheduler do, the sequence of  *)
(* calls that the device threads and the callbacks make on each driver     *)
(* library is one that the driver contract allows: a driver in use is      *)
(* closed, with no call inside it, before it is unmapped.                  *)
THEOREM ContractKept == Spec => KeepsContract
<1>1. Init => Contract!Init
  <2> SUFFICES ASSUME Init PROVE Contract!Init
    OBVIOUS
  <2>1. Reading = [d \in Driver |-> FALSE]
    <3>1. \A d \in Driver : (pc[d] \in {"level", "read"}) = FALSE
      BY DEF Init, ItemInit
    <3> QED BY <3>1 DEF Reading
  <2>2. Writing = [d \in Driver |-> FALSE]
    <3>1. \A d \in Driver : (cb[d] = "call" /\ cbProc[d] \in procs[d]) = FALSE
      BY DEF Init, ItemInit
    <3> QED BY <3>1 DEF Writing
  <2>3. InUse = [d \in Driver |-> FALSE]
    <3>1. \A d \in Driver : (pc[d] \in Connected \cup Closing) = FALSE
      BY DEF Init, ItemInit, Connected, Closing
    <3> QED BY <3>1 DEF InUse
  <2> QED
    BY <2>1, <2>2, <2>3 DEF Init, ItemInit, Contract!Init
<1>2. Inv /\ [Next]_vars => [Contract!Next]_(Contract!vars)
  <2> SUFFICES ASSUME Inv, [Next]_vars
               PROVE  \/ \E d \in Driver : ContractStep(d)
                      \/ UNCHANGED <<loaded, channel, InUse, Reading, Writing>>
    BY DEF Contract!Next, Contract!vars, ContractStep
  <2>1. CASE \E d \in Driver : ThreadStep(d)
    BY <2>1, ThreadImplements DEF ThreadStep
  <2>2. CASE \E d \in Driver : DeliverStep(d) \/ CallbackStep(d)
    BY <2>2, CallbackImplements DEF DeliverStep, CallbackStep
  <2>3. CASE MainStep \/ SignalStep
    BY <2>3, MainImplements DEF MainStep, SignalStep
  <2>4. CASE UNCHANGED vars
    BY <2>4 DEF vars, itemVars, threadVars, callbackVars, InUse, Reading,
       Writing
  <2> QED
    BY <2>1, <2>2, <2>3, <2>4 DEF Next, Terminated
<1> QED
  BY <1>1, <1>2, Invariance, PTL DEF Spec, KeepsContract, Contract!Spec
=============================================================================
