-------------------------- MODULE DiscoveryProofs ---------------------------
(***************************************************************************)
(* Proofs about Discovery, for every set of nodes and every set of device  *)
(* threads, with deaths and failures of the database at any step.          *)
(***************************************************************************)
EXTENDS Discovery, TLAPS

-----------------------------------------------------------------------------
(* Inv is an invariant.                                                    *)

(* Before the first start nothing is recorded, announced or locked.        *)
LEMMA InvInit == Init => Inv
<1> SUFFICES ASSUME Init PROVE Inv
  OBVIOUS
<1>1. TypeOK
  BY GuidAssumption DEF Init, TypeOK
<1>2. MutexInv /\ CriticalInv
  BY ThreadAssumption DEF Init, MutexInv, CriticalInv, Critical
<1>3. KnownIsRecorded /\ AnnouncedAtMostOnce /\ RecordedIsAnnounced
  BY DEF Init, KnownIsRecorded, AnnouncedAtMostOnce, RecordedIsAnnounced
<1> QED
  BY <1>1, <1>2, <1>3 DEF Inv

(* init() touches neither the threads nor what has been announced, and     *)
(* adds at most the daemon's own row.                                      *)
LEMMA InitKeeps ==
    ASSUME Inv, \/ Start \/ NoDatabase \/ OpenExisting \/ LoadMap
                \/ CreateFile \/ CreateTable \/ InsertSelf \/ InitFails
    PROVE  Inv'
<1>1. UNCHANGED <<mutex, tpc, cur, announced, lost>>
  BY DEF Start, NoDatabase, OpenExisting, LoadMap, CreateFile, CreateTable,
     InsertSelf, InitFails, threadVars
<1>2. /\ rows' \in SUBSET Guid /\ rows \subseteq rows'
      /\ rows' \subseteq rows \cup {m_guid}
      /\ map' \subseteq rows'
  BY GuidAssumption DEF Start, NoDatabase, OpenExisting, LoadMap, CreateFile,
     CreateTable, InsertSelf, InitFails, Inv, TypeOK, KnownIsRecorded
<1>3. /\ file' \in {"absent", "empty", "table"}
      /\ ipc' \in {"down", "open", "load", "table", "self", "up"}
      /\ db' \in BOOLEAN
  BY DEF Start, NoDatabase, OpenExisting, LoadMap, CreateFile, CreateTable,
     InsertSelf, InitFails, Inv, TypeOK
<1>4. TypeOK'
  BY <1>1, <1>2, <1>3 DEF Inv, TypeOK
<1>5. MutexInv' /\ CriticalInv'
  BY <1>1, <1>2 DEF Inv, MutexInv, CriticalInv
<1>6. KnownIsRecorded' /\ AnnouncedAtMostOnce'
  BY <1>1, <1>2 DEF Inv, KnownIsRecorded, AnnouncedAtMostOnce
<1>7. RecordedIsAnnounced'
  BY <1>1, <1>2 DEF Inv, RecordedIsAnnounced
<1> QED
  BY <1>4, <1>5, <1>6, <1>7 DEF Inv

(* At most one thread is in the critical section.                          *)
LEMMA Exclusion == Inv => Serialized
BY DEF Inv, MutexInv, Serialized

(* A thread that enters, takes or releases the mutex, or looks the node up *)
(* leaves the registry alone.                                              *)
LEMMA QuietStepKeeps ==
    ASSUME Inv, NEW t \in Thread,
           Enter(t) \/ Lock(t) \/ Find(t) \/ Unlock(t)
    PROVE  Inv'
<1> USE DEF Inv
<1>1. UNCHANGED <<initVars, rows, map, announced, lost>>
  BY DEF Enter, Lock, Find, Unlock
<1>2. /\ tpc[t] # "publish" /\ tpc'[t] \notin {"publish", "map"}
      /\ \A u \in Thread : u # t => tpc'[u] = tpc[u] /\ cur'[u] = cur[u]
  BY DEF Enter, Lock, Find, Unlock, Goto, TypeOK
<1>3. TypeOK'
  BY <1>1 DEF Enter, Lock, Find, Unlock, Goto, TypeOK, initVars, Critical
<1>4. MutexInv'
  BY ThreadAssumption DEF Enter, Lock, Find, Unlock, Goto, TypeOK, MutexInv,
     Critical
<1>5. CriticalInv'
  BY <1>1, <1>2 DEF CriticalInv
<1>6. KnownIsRecorded' /\ AnnouncedAtMostOnce'
  BY <1>1 DEF KnownIsRecorded, AnnouncedAtMostOnce
<1>7. RecordedIsAnnounced'
  BY <1>1, <1>2 DEF RecordedIsAnnounced
<1> QED
  BY <1>3, <1>4, <1>5, <1>6, <1>7

(* The INSERT records a node that nobody has announced, or fails and       *)
(* records nothing.                                                        *)
LEMMA InsertKeeps ==
    ASSUME Inv, NEW t \in Thread, Insert(t)
    PROVE  Inv'
<1> USE DEF Inv
<1>1. CASE Goto(t, "insert", "unlock") /\ UNCHANGED rows
  BY <1>1 DEF Insert, Goto, TypeOK, MutexInv, CriticalInv, KnownIsRecorded,
     AnnouncedAtMostOnce, RecordedIsAnnounced, Critical, initVars
<1>2. CASE /\ cur[t] \notin rows /\ Goto(t, "insert", "publish")
           /\ rows' = rows \cup {cur[t]}
  <2>1. UNCHANGED <<initVars, map, mutex, cur, announced, lost>>
    BY DEF Insert
  <2>2. TypeOK' /\ MutexInv'
    BY <1>2, <2>1 DEF Goto, TypeOK, MutexInv, Critical, initVars
  <2>3. announced[cur[t]] = 0
    BY <1>2 DEF TypeOK, KnownIsRecorded
  <2>4. CriticalInv'
    BY <1>2, <2>1, <2>3 DEF Goto, TypeOK, CriticalInv
  <2>5. KnownIsRecorded' /\ AnnouncedAtMostOnce'
    BY <1>2, <2>1 DEF KnownIsRecorded, AnnouncedAtMostOnce
  <2>6. RecordedIsAnnounced'
    BY <1>2, <2>1 DEF Goto, TypeOK, RecordedIsAnnounced
  <2> QED
    BY <2>2, <2>4, <2>5, <2>6
<1> QED
  BY <1>1, <1>2 DEF Insert

(* The publish of a node that nobody else is publishing.                   *)
LEMMA PublishKeeps ==
    ASSUME Inv, NEW t \in Thread, Publish(t)
    PROVE  Inv'
<1> USE DEF Inv
<1>1. /\ tpc[t] = "publish" /\ tpc' = [tpc EXCEPT ![t] = "map"]
      /\ UNCHANGED <<initVars, rows, map, mutex, cur>>
  BY DEF Publish, Goto
<1>2. cur[t] \in Guid /\ cur[t] \in rows /\ announced[cur[t]] = 0
  BY <1>1 DEF CriticalInv, TypeOK
<1>3. \A u \in Thread : u # t => tpc[u] # "publish"
  BY <1>1, Exclusion DEF Serialized, Critical
<1>4. \/ announced' = [announced EXCEPT ![cur[t]] = 1] /\ UNCHANGED lost
      \/ lost' = lost \cup {cur[t]} /\ UNCHANGED announced
  BY <1>2 DEF Publish, TypeOK
<1>5. TypeOK' /\ MutexInv'
  BY <1>1, <1>2, <1>4 DEF TypeOK, MutexInv, Critical, initVars
<1>6. CriticalInv'
  BY <1>1, <1>2, <1>3 DEF TypeOK, CriticalInv
<1>7. KnownIsRecorded' /\ AnnouncedAtMostOnce'
  BY <1>1, <1>2, <1>4 DEF TypeOK, KnownIsRecorded, AnnouncedAtMostOnce
<1>8. RecordedIsAnnounced'
  <2> SUFFICES ASSUME NEW g \in rows, g # cur[t]
               PROVE  \/ announced'[g] > 0
                      \/ g = m_guid \/ g \in lost'
                      \/ \E u \in Thread : tpc'[u] = "publish" /\ cur'[u] = g
    BY <1>1, <1>2, <1>4 DEF TypeOK, RecordedIsAnnounced
  <2>1. \/ announced[g] > 0
        \/ g = m_guid \/ g \in lost
        \/ \E u \in Thread : u # t /\ tpc[u] = "publish" /\ cur[u] = g
    BY DEF RecordedIsAnnounced
  <2> QED
    BY <1>1, <1>4, <2>1 DEF TypeOK
<1> QED
  BY <1>5, <1>6, <1>7, <1>8

(* Only a recorded node is filed in the map.                               *)
LEMMA AddToMapKeeps ==
    ASSUME Inv, NEW t \in Thread, AddToMap(t)
    PROVE  Inv'
BY DEF Inv, AddToMap, Goto, TypeOK, MutexInv, CriticalInv, KnownIsRecorded,
   AnnouncedAtMostOnce, RecordedIsAnnounced, Critical, initVars

(* A death of the process loses the map, the mutex and a publish under     *)
(* way, but nothing that is on disk.                                       *)
LEMMA DieKeeps ==
    ASSUME Inv, Die
    PROVE  Inv'
<1> USE DEF Inv
<1>1. TypeOK'
  BY DEF Die, TypeOK
<1>2. MutexInv' /\ CriticalInv'
  BY ThreadAssumption DEF Die, MutexInv, CriticalInv, Critical
<1>3. KnownIsRecorded' /\ AnnouncedAtMostOnce'
  BY DEF Die, KnownIsRecorded, AnnouncedAtMostOnce
<1>4. RecordedIsAnnounced'
  BY DEF Die, RecordedIsAnnounced
<1> QED
  BY <1>1, <1>2, <1>3, <1>4

(* Every step of discovery preserves the invariant.                        *)
LEMMA InvNext == Inv /\ [Next]_vars => Inv'
<1> SUFFICES ASSUME Inv, [Next]_vars PROVE Inv'
  OBVIOUS
<1>1. CASE UNCHANGED vars
  BY <1>1 DEF Inv, TypeOK, MutexInv, CriticalInv, KnownIsRecorded,
     AnnouncedAtMostOnce, RecordedIsAnnounced, vars
<1>2. CASE \E t \in Thread : Enter(t) \/ Lock(t) \/ Body(t)
  BY <1>2, QuietStepKeeps, InsertKeeps, PublishKeeps, AddToMapKeeps DEF Body
<1> QED
  BY <1>1, <1>2, InitKeeps, DieKeeps DEF Next

(* The inductive invariant holds in every reachable state.                 *)
THEOREM Invariance == Spec => []Inv
<1>1. Init => Inv
  BY InvInit
<1>2. Inv /\ [Next]_vars => Inv'
  BY InvNext
<1> QED
  BY <1>1, <1>2, PTL DEF Spec

-----------------------------------------------------------------------------
(* The safety properties.                                                  *)

(* Discovery is type correct over every restart and failure.               *)
THEOREM TypeCorrect == Spec => []TypeOK
<1>1. Inv => TypeOK
  BY DEF Inv
<1> QED
  BY Invariance, <1>1, PTL

(* However many device threads race, m_mutex_discovery lets one at a time  *)
(* into the map, the database and the publish.                             *)
THEOREM Exclusive == Spec => []Serialized
BY Invariance, Exclusion, PTL

(* No node is announced twice in the life of the database.                 *)
THEOREM AtMostOnce == Spec => []AnnouncedAtMostOnce
<1>1. Inv => AnnouncedAtMostOnce
  BY DEF Inv
<1> QED
  BY <1>1, Invariance, PTL

(* Known and announced nodes are in the database.                          *)
THEOREM Recorded == Spec => []KnownIsRecorded
<1>1. Inv => KnownIsRecorded
  BY DEF Inv
<1> QED
  BY <1>1, Invariance, PTL

(* A recorded node whose announcement was not lost has been announced or   *)
(* is about to be.                                                         *)
THEOREM Announced == Spec => []RecordedIsAnnounced
<1>1. Inv => RecordedIsAnnounced
  BY DEF Inv
<1> QED
  BY <1>1, Invariance, PTL

(* discovery() and the database part of init() implement a node registry:  *)
(* every step, a death of the process included, records one node,          *)
(* announces one recorded node for the first time, or does neither.        *)
THEOREM Refinement == Spec => ImplementsRegistry
<1>1. Init => Registry!Init
  BY DEF Init, Registry!Init
<1>2. Inv /\ [Next]_vars => [Registry!Next]_(Registry!vars)
  <2> SUFFICES ASSUME Inv, [Next]_vars
               PROVE  Registry!Next \/ UNCHANGED <<rows, announced>>
    BY DEF Registry!vars
  <2>1. CASE \E t \in Thread : Insert(t)
    <3>1. PICK t \in Thread : Insert(t)
      BY <2>1
    <3>2. Registry!Record(cur[t]) \/ UNCHANGED <<rows, announced>>
      BY <3>1 DEF Insert, Registry!Record
    <3> QED
      BY <3>2 DEF Registry!Next, Inv, TypeOK
  <2>2. CASE \E t \in Thread : Publish(t)
    <3>1. PICK t \in Thread : Publish(t)
      BY <2>2
    <3>2. cur[t] \in Guid /\ cur[t] \in rows /\ announced[cur[t]] = 0
      BY <3>1 DEF Publish, Goto, Inv, TypeOK, CriticalInv
    <3>3. Registry!Announce(cur[t]) \/ UNCHANGED <<rows, announced>>
      BY <3>1, <3>2 DEF Publish, Registry!Announce, Inv, TypeOK
    <3> QED
      BY <3>2, <3>3 DEF Registry!Next
  <2>3. CASE InsertSelf
    <3>1. Registry!Record(m_guid) \/ UNCHANGED <<rows, announced>>
      BY <2>3 DEF InsertSelf, Registry!Record
    <3> QED
      BY <3>1, GuidAssumption DEF Registry!Next
  <2>4. CASE \E t \in Thread :
               Enter(t) \/ Lock(t) \/ Find(t) \/ AddToMap(t) \/ Unlock(t)
    BY <2>4 DEF Enter, Lock, Find, AddToMap, Unlock
  <2>5. CASE \/ Start \/ NoDatabase \/ OpenExisting \/ LoadMap
             \/ CreateFile \/ CreateTable \/ InitFails \/ Die \/ UNCHANGED vars
    BY <2>5 DEF Start, NoDatabase, OpenExisting, LoadMap, CreateFile,
       CreateTable, InitFails, Die, vars
  <2> QED
    BY <2>1, <2>2, <2>3, <2>4, <2>5 DEF Next, Body
<1> QED
  BY <1>1, <1>2, Invariance, PTL DEF Spec, ImplementsRegistry, Registry!Spec

-----------------------------------------------------------------------------
(* The safety core of LockReleased.                                        *)

(* The control points of the critical section, in order.                   *)
Phase(p) ==
    CASE p = "find" -> 1 [] p = "insert" -> 2 [] p = "publish" -> 3
      [] p = "map" -> 4 [] p = "unlock" -> 5 [] OTHER -> 0

(* The thread that holds m_mutex_discovery keeps it only to go on, at most *)
(* four steps, or gives it back; it is never handed to another thread.     *)
HolderMovesOn ==
    [][\A t \in Thread : mutex = t =>
         \/ mutex' = NoThread
         \/ mutex' = t /\ (tpc'[t] = tpc[t] \/ Phase(tpc'[t]) > Phase(tpc[t]))]_vars

(* Every path through discovery() leads to the release of its mutex.       *)
THEOREM MovesOn == Spec => HolderMovesOn
<1>1. Inv /\ [Next]_vars =>
        [\A t \in Thread : mutex = t =>
           \/ mutex' = NoThread
           \/ mutex' = t /\ (tpc'[t] = tpc[t] \/ Phase(tpc'[t]) > Phase(tpc[t]))]_vars
  <2> SUFFICES ASSUME Inv, Next, NEW t \in Thread, mutex = t
               PROVE  \/ mutex' = NoThread
                      \/ /\ mutex' = t
                         /\ tpc'[t] = tpc[t] \/ Phase(tpc'[t]) > Phase(tpc[t])
    OBVIOUS
  <2>1. tpc[t] \in Critical /\ tpc \in [Thread -> {"idle", "lock"} \cup Critical]
    BY DEF Inv, MutexInv, TypeOK
  <2>2. mutex # NoThread
    BY ThreadAssumption
  <2>3. ASSUME NEW u \in Thread, Enter(u) \/ Lock(u) \/ Body(u)
        PROVE  \/ mutex' = NoThread
               \/ /\ mutex' = t
                  /\ tpc'[t] = tpc[t] \/ Phase(tpc'[t]) > Phase(tpc[t])
    <3>1. CASE u # t
      <4>1. tpc[u] \notin Critical
        BY <3>1 DEF Inv, MutexInv
      <4>2. Enter(u)
        BY <2>2, <2>3, <4>1 DEF Lock, Body, Find, Insert, Publish, AddToMap, Unlock,
           Goto, Critical
      <4> QED
        BY <2>1, <3>1, <4>2 DEF Enter, Goto
    <3>2. CASE u = t
      <4>1. Body(t)
        BY <2>1, <2>3, <3>2 DEF Enter, Lock, Goto, Critical
      <4>2. CASE Unlock(t)
        BY <4>2 DEF Unlock
      <4>3. CASE Find(t) \/ Insert(t) \/ Publish(t) \/ AddToMap(t)
        BY <2>1, <4>3 DEF Find, Insert, Publish, AddToMap, Goto, Phase
      <4> QED
        BY <4>1, <4>2, <4>3 DEF Body
    <3> QED
      BY <3>1, <3>2
  <2>4. CASE \/ Start \/ NoDatabase \/ OpenExisting \/ LoadMap
             \/ CreateFile \/ CreateTable \/ InsertSelf \/ InitFails \/ Die
    BY <2>4 DEF Start, NoDatabase, OpenExisting, LoadMap, CreateFile, CreateTable,
       InsertSelf, InitFails, Die, threadVars
  <2> QED
    BY <2>3, <2>4 DEF Next
<1> QED
  BY <1>1, Invariance, PTL DEF Spec, HolderMovesOn

-----------------------------------------------------------------------------
(* A database without its table.                                           *)

(* Left behind by an init() that created the file and got no further.      *)
Barren == file = "empty" /\ ipc # "table"

Nothing == rows = {} /\ \A g \in Guid : announced[g] = 0

(* Rows and indexes come after the table.                                  *)
TableInv ==
    /\ file # "table" => rows = {}
    /\ ipc = "self" => file = "table"

LEMMA TableStep == Inv /\ TableInv /\ [Next]_vars => TableInv'
<1> SUFFICES ASSUME Inv, TableInv, [Next]_vars PROVE TableInv'
  OBVIOUS
<1>1. CASE \E t \in Thread : Enter(t) \/ Lock(t) \/ Body(t)
  BY <1>1 DEF TableInv, Enter, Lock, Body, Find, Insert, Publish, AddToMap, Unlock,
     initVars
<1>2. CASE \/ Start \/ NoDatabase \/ OpenExisting \/ LoadMap
           \/ CreateFile \/ CreateTable \/ InsertSelf \/ InitFails \/ Die
  BY <1>2 DEF TableInv, Start, NoDatabase, OpenExisting, LoadMap, CreateFile,
     CreateTable, InsertSelf, InitFails, Die
<1>3. CASE UNCHANGED vars
  BY <1>3 DEF TableInv, vars
<1> QED
  BY <1>1, <1>2, <1>3 DEF Next

LEMMA BarrenStep == Barren /\ [Next]_vars => Barren'
<1> SUFFICES ASSUME Barren, [Next]_vars PROVE Barren'
  OBVIOUS
<1>1. CASE \E t \in Thread : Enter(t) \/ Lock(t) \/ Body(t)
  BY <1>1 DEF Barren, Enter, Lock, Body, Find, Insert, Publish, AddToMap, Unlock,
     initVars
<1>2. CASE \/ Start \/ NoDatabase \/ OpenExisting \/ LoadMap
           \/ CreateFile \/ CreateTable \/ InsertSelf \/ InitFails \/ Die
  BY <1>2 DEF Barren, Start, NoDatabase, OpenExisting, LoadMap, CreateFile,
     CreateTable, InsertSelf, InitFails, Die
<1>3. CASE UNCHANGED vars
  BY <1>3 DEF Barren, vars
<1> QED
  BY <1>1, <1>2, <1>3 DEF Next

(* A daemon that ended between the creation of the database file and that  *)
(* of its table never records or announces a node again, however often it  *)
(* is started: init() takes the file for a database.                       *)
THEOREM BarrenForEver == Spec => [](Barren => []Nothing)
<1>1. Init => TableInv
  BY DEF Init, TableInv
<1>2. Inv /\ TableInv /\ [Next]_vars => TableInv'
  BY TableStep
<1>3. Barren /\ [Next]_vars => Barren'
  BY BarrenStep
<1>4. Inv /\ TableInv /\ Barren => Nothing
  BY DEF Inv, TypeOK, KnownIsRecorded, TableInv, Barren, Nothing
<1> QED
  BY <1>1, <1>2, <1>3, <1>4, Invariance, PTL DEF Spec
=============================================================================
