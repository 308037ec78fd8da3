----------------------------- MODULE Discovery ------------------------------
(***************************************************************************)
(* Node discovery (src/src/controlobject.cpp): the part of init() that     *)
(* opens or creates the discovery database, and CControlObject::           *)
(* discovery(), which every device thread calls for every event it sends.  *)
(*                                                                         *)
(* The database file survives the process; the handle, the map and the     *)
(* mutex do not.  The process can die between any two steps and be started *)
(* again.  An orderly exit is the special case of a death in which no      *)
(* thread is inside discovery().                                           *)
(***************************************************************************)
EXTENDS Naturals

CONSTANTS
    Guid,      \* the GUIDs that occur in events
    m_guid,    \* the daemon's own
    Thread,    \* the device threads
    NoThread

ASSUME GuidAssumption == m_guid \in Guid
ASSUME ThreadAssumption == NoThread \notin Thread

VARIABLES
    file,       \* on disk: "absent", "empty" (no table yet) or "table"
    rows,       \* on disk: the guid column of the discovery table
    ipc,        \* control point of init(); "up" once the threads run
    db,         \* is m_db_vscp_daemon non-null?
    map,        \* the keys of m_map_discoveryGuidToName
    mutex,      \* owner of m_mutex_discovery
    tpc,        \* control point of each device thread in discovery()
    cur,        \* the guid of the event it was called with
    announced,  \* how often each node was published, over all restarts
    lost        \* nodes whose publish failed or was cut off by a death

initVars == <<file, ipc, db>>
threadVars == <<tpc, cur>>
vars == <<file, rows, ipc, db, map, mutex, tpc, cur, announced, lost>>

Init ==
    /\ file = "absent"
    /\ rows = {}
    /\ ipc = "down"
    /\ db = FALSE
    /\ map = {}
    /\ mutex = NoThread
    /\ tpc = [t \in Thread |-> "idle"]
    /\ cur = [t \in Thread |-> m_guid]
    /\ announced = [g \in Guid |-> 0]
    /\ lost = {}

-----------------------------------------------------------------------------
(* init(): open or create the database.                                    *)

Start ==
    /\ ipc = "down"
    /\ ipc' = "open"
    /\ UNCHANGED <<file, rows, db, map, mutex, threadVars, announced, lost>>

(* An empty "maindb": the daemon runs without discovery.                   *)
NoDatabase ==
    /\ ipc = "open"
    /\ ipc' = "up"
    /\ UNCHANGED <<file, rows, db, map, mutex, threadVars, announced, lost>>

(* vscp_fileExists() is true.  An open that fails leaves the handle null   *)
(* and the daemon goes on without discovery as well.                       *)
OpenExisting ==
    /\ ipc = "open" /\ file # "absent"
    /\ \/ db' = TRUE /\ ipc' = "load"
       \/ db' = FALSE /\ ipc' = "up"
    /\ UNCHANGED <<file, rows, map, mutex, threadVars, announced, lost>>

(* SELECT guid,name FROM discovery.  A failed prepare reads no row, a      *)
(* failing step ends the loop early: any part of the table may be read.    *)
LoadMap ==
    /\ ipc = "load"
    /\ ipc' = "up"
    /\ \E read \in SUBSET rows : map' = read
    /\ UNCHANGED <<file, rows, db, mutex, threadVars, announced, lost>>

(* The file does not exist: sqlite3_open() creates it, empty.              *)
CreateFile ==
    /\ ipc = "open" /\ file = "absent"
    /\ \/ file' = "empty" /\ db' = TRUE /\ ipc' = "table"
       \/ ipc' = "down" /\ UNCHANGED <<file, db>>
    /\ UNCHANGED <<rows, map, mutex, threadVars, announced, lost>>

CreateTable ==
    /\ ipc = "table"
    /\ file' = "table"
    /\ ipc' = "self"
    /\ UNCHANGED <<rows, db, map, mutex, threadVars, announced, lost>>

(* The two indexes, then the row and the map entry of the daemon itself.   *)
InsertSelf ==
    /\ ipc = "self"
    /\ rows' = rows \cup {m_guid}
    /\ map' = map \cup {m_guid}
    /\ ipc' = "up"
    /\ UNCHANGED <<file, db, mutex, threadVars, announced, lost>>

(* Any of the CREATE and INSERT statements of init() fails: init() returns *)
(* false and main() exits.                                                 *)
InitFails ==
    /\ ipc \in {"table", "self"}
    /\ ipc' = "down"
    /\ db' = FALSE
    /\ UNCHANGED <<file, rows, map, mutex, threadVars, announced, lost>>

-----------------------------------------------------------------------------
(* Faulty variants of actions below, used in no specification.             *)

Goto(t, from, to) == tpc[t] = from /\ tpc' = [tpc EXCEPT ![t] = to]

(* discovery() without its mutex.                                          *)
LockSkipped(t) ==
    /\ Goto(t, "lock", "find")
    /\ UNCHANGED <<initVars, rows, map, mutex, cur, announced, lost>>

(* The publish moved in front of the INSERT.                               *)
FindThenPublish(t) ==
    /\ Goto(t, "find", IF cur[t] \in map THEN "unlock" ELSE "publish")
    /\ UNCHANGED <<initVars, rows, map, mutex, cur, announced, lost>>

(* A guid column that is not UNIQUE.                                       *)
InsertDuplicate(t) ==
    /\ \/ /\ file = "table"
          /\ Goto(t, "insert", "publish")
          /\ rows' = rows \cup {cur[t]}
       \/ /\ Goto(t, "insert", "unlock")
          /\ UNCHANGED rows
    /\ UNCHANGED <<initVars, map, mutex, cur, announced, lost>>

(* A failed INSERT that does not return.                                   *)
InsertErrorIgnored(t) ==
    /\ Goto(t, "insert", "publish")
    /\ \/ file = "table" /\ rows' = rows \cup {cur[t]}
       \/ UNCHANGED rows
    /\ UNCHANGED <<initVars, map, mutex, cur, announced, lost>>

(* A failed INSERT that returns with the mutex held.                       *)
InsertKeepsLock(t) ==
    /\ \/ /\ file = "table" /\ cur[t] \notin rows
          /\ Goto(t, "insert", "publish")
          /\ rows' = rows \cup {cur[t]}
       \/ /\ Goto(t, "insert", "idle")
          /\ UNCHANGED rows
    /\ UNCHANGED <<initVars, map, mutex, cur, announced, lost>>

(* The publish left out.                                                   *)
PublishSkipped(t) ==
    /\ Goto(t, "publish", "map")
    /\ UNCHANGED <<initVars, rows, map, mutex, cur, announced, lost>>

(* The map entry filed under a wrong key.                                  *)
AddWrongKey(t) ==
    /\ Goto(t, "map", "unlock")
    /\ map' = map \cup {t}
    /\ UNCHANGED <<initVars, rows, mutex, cur, announced, lost>>

-----------------------------------------------------------------------------
(* discovery(), called by device thread t.                                 *)

Enter(t) ==
    /\ ipc = "up" /\ db
    /\ Goto(t, "idle", "lock")
    /\ \E g \in Guid : cur' = [cur EXCEPT ![t] = g]
    /\ UNCHANGED <<initVars, rows, map, mutex, announced, lost>>

Lock(t) ==
    /\ mutex = NoThread
    /\ Goto(t, "lock", "find")
    /\ mutex' = t
    /\ UNCHANGED <<initVars, rows, map, cur, announced, lost>>

Find(t) ==
    /\ Goto(t, "find", IF cur[t] \in map THEN "unlock" ELSE "insert")
    /\ UNCHANGED <<initVars, rows, map, mutex, cur, announced, lost>>

(* The INSERT.  The guid column is UNIQUE; without the table, or on any    *)
(* error of the database, the statement fails and discovery() returns.     *)
Insert(t) ==
    /\ \/ /\ file = "table" /\ cur[t] \notin rows
          /\ Goto(t, "insert", "publish")
          /\ rows' = rows \cup {cur[t]}
       \/ /\ Goto(t, "insert", "unlock")
          /\ UNCHANGED rows
    /\ UNCHANGED <<initVars, map, mutex, cur, announced, lost>>

(* mosquitto_publish() on the daemon's client; a failure is only logged.   *)
Publish(t) ==
    /\ Goto(t, "publish", "map")
    /\ \/ /\ announced' = [announced EXCEPT ![cur[t]] = @ + 1]
          /\ UNCHANGED lost
       \/ /\ lost' = lost \cup {cur[t]}
          /\ UNCHANGED announced
    /\ UNCHANGED <<initVars, rows, map, mutex, cur>>

AddToMap(t) ==
    /\ Goto(t, "map", "unlock")
    /\ map' = map \cup {cur[t]}
    /\ UNCHANGED <<initVars, rows, mutex, cur, announced, lost>>

Unlock(t) ==
    /\ Goto(t, "unlock", "idle")
    /\ mutex' = NoThread
    /\ UNCHANGED <<initVars, rows, map, cur, announced, lost>>

Body(t) ==
    \/ Find(t) \/ Insert(t) \/ Publish(t) \/ AddToMap(t) \/ Unlock(t)

-----------------------------------------------------------------------------
(* The process ends, anywhere.                                             *)
Die ==
    /\ ipc # "down"
    /\ ipc' = "down"
    /\ db' = FALSE
    /\ map' = {}
    /\ mutex' = NoThread
    /\ tpc' = [t \in Thread |-> "idle"]
    /\ lost' = lost \cup {cur[t] : t \in {u \in Thread : tpc[u] = "publish"}}
    /\ UNCHANGED <<file, rows, cur, announced>>

Next ==
    \/ Start \/ NoDatabase \/ OpenExisting \/ LoadMap
    \/ CreateFile \/ CreateTable \/ InsertSelf \/ InitFails
    \/ \E t \in Thread : Enter(t) \/ Lock(t) \/ Body(t)
    \/ Die

(* A thread inside the critical section is scheduled and its calls return. *)
Fairness == \A t \in Thread : WF_vars(Body(t))

Spec == Init /\ [][Next]_vars
FairSpec == Spec /\ Fairness

-----------------------------------------------------------------------------
(* Properties.                                                             *)

Critical == {"find", "insert", "publish", "map", "unlock"}

(* Every variable of node discovery keeps its type.                        *)
TypeOK ==
    /\ file \in {"absent", "empty", "table"}
    /\ rows \in SUBSET Guid
    /\ ipc \in {"down", "open", "load", "table", "self", "up"}
    /\ db \in BOOLEAN
    /\ map \in SUBSET Guid
    /\ mutex \in Thread \cup {NoThread}
    /\ tpc \in [Thread -> {"idle", "lock"} \cup Critical]
    /\ cur \in [Thread -> Guid]
    /\ announced \in [Guid -> Nat]
    /\ lost \in SUBSET Guid

(* No node is announced twice on the discovery topic, however the device   *)
(* threads race, whatever part of the table was read at the last start and *)
(* wherever the process died before.                                       *)
AnnouncedAtMostOnce == \A g \in Guid : announced[g] <= 1

(* A node is in the map of known nodes, and has been announced, only if    *)
(* its row is in the database, where a restart finds it.                   *)
KnownIsRecorded ==
    /\ map \subseteq rows
    /\ \A g \in Guid : announced[g] > 0 => g \in rows

(* Two device threads are never in the map, the database and the publish   *)
(* at the same time: m_mutex_discovery "Protects m_map_discoveryGuidToName,*)
(* discovery db writes and discovery publish".                             *)
Serialized ==
    \A t, u \in Thread : tpc[t] \in Critical /\ tpc[u] \in Critical => t = u

(* A recorded node has been announced, or is being announced right now;    *)
(* the exceptions are the daemon's own row and a publish that failed or    *)
(* was cut off by the end of the process, which is never repeated.         *)
RecordedIsAnnounced ==
    \A g \in rows :
        \/ announced[g] > 0
        \/ g = m_guid \/ g \in lost
        \/ \E t \in Thread : tpc[t] = "publish" /\ cur[t] = g

(* Every path through discovery(), the failed INSERT included, releases    *)
(* the mutex.                                                              *)
LockReleased == \A t \in Thread : (mutex = t) ~> (mutex # t)

Registry == INSTANCE NodeRegistry WITH recorded <- rows

(* Discovery, with its crashes and failures, is a node registry.           *)
ImplementsRegistry == Registry!Spec

(* A daemon that runs with an open database can record nodes: init() has   *)
(* opened the discovery database or created it, "tables and indexes"       *)
(* included.                                                               *)
OpenHasTable == ipc = "up" /\ db => file = "table"

-----------------------------------------------------------------------------
(* The inductive invariant behind the safety properties (DiscoveryProofs). *)

(* m_mutex_discovery is held by exactly the thread in the critical section.*)
MutexInv == \A t \in Thread : mutex = t <=> tpc[t] \in Critical

(* The node a thread publishes or files is recorded, and not yet announced *)
(* by anybody when it is published.                                        *)
CriticalInv ==
    \A t \in Thread :
        /\ tpc[t] \in {"publish", "map"} => cur[t] \in rows
        /\ tpc[t] = "publish" => announced[cur[t]] = 0

Inv ==
    /\ TypeOK /\ MutexInv /\ CriticalInv
    /\ KnownIsRecorded /\ AnnouncedAtMostOnce /\ RecordedIsAnnounced
=============================================================================
