# A verification project for the VSCP MQTT daemon

The daemon (`src/src/`) connects VSCP drivers (shared libraries of Level I, the
CANAL interface, or Level II) to an MQTT broker. This directory holds TLA+
models of its core, the TLC configurations that check them on small instances,
and TLAPS proofs of the main properties for every value of the constants.

## 1. Inventory

| Part | State | Operations | Interacts with |
| --- | --- | --- | --- |
| Device item (`devicelist.cpp`) | `m_bQuit`, `m_openHandle`, `m_driverLevel`, `m_proc_*`, `m_deviceMutex`, `m_bThreadStarted` | `addItem`, `startDriver`, `stopDriver`, `sendEvent` | owned by the control object, shared by its device thread and its MQTT thread |
| Device thread (`devicethread.cpp`, `deviceThread`) | its control point, the mapped library | load, resolve, open, connect, get level, work loop, disconnect, close, unload | the driver library; the item's client; `discovery()` of the control object |
| Receive callback (`receive_event_callback`) | its control point | lock, test, dispatch on the level, driver call, unlock | runs on the thread of the item's MQTT client, against the device thread |
| Control object (`controlobject.cpp`) | `m_bQuit`, device list, own MQTT client | `init`, `init_mqtt`, `run`, `cleanup`, destructor | starts, stops, joins and deletes the items |
| Node discovery (`discovery`, end of `init`) | database file, map of known nodes, `m_mutex_discovery` | open, create, load, find, insert, publish | called by all device threads; survives restarts on disk |
| Heartbeat (`run`, `periodicEvents`) | `old_now` | test, save, send, sleep | the wall clock, the control object's client |
| Process (`mqttvscpd.cpp`) | `gpobj`, pid file, log queue and sinks | options, fork, pid file, signal handlers, loggers, delete, exit | sets `m_bQuit` from a signal; every thread logs through its queue |
| Configuration (`readJSON`, rest of `init`) | topics, drivers, log settings, encryption key, user | parse, refuse or default, add items, apply | feeds `addItem`, the log sinks, the MQTT clients |
| Event path (`devicethread.cpp`, work loops) | the event, its payload on the heap | convert, translate, stamp, send, delete | one pass of the device thread |
| Server GUID (`getMacAddress`, `getIPAddress`) | `m_guid`, the host's address list | read hardware address, resolve the host name, put together | `init()`, and every heartbeat |

What is hard here: each driver library is entered by two threads that share one
mutex only partly; every driver calls into one shared discovery routine; the
shutdown waits for threads that wait for a client that waits for a callback;
`cleanup()` runs twice; signals go through a global pointer; `fork()` comes after
the log threads were started; the database survives a process that may die anywhere;
the heartbeat trusts a clock that can be set and waits for a name server; the
configuration is read key by key, each with its own way of failing; and the
payload of an event changes owner and length on its way. `PROJECT.json` lists these
hazards with the line where each bites.

What makes the parts correct:

* item, device thread, callback: no call into a library that is unmapped,
  closed or being closed, and none through an unresolved pointer; a driver that
  has been in use is closed before it is unmapped;
* control object: no thread outlives what it uses, no thread is joined twice,
  a request to stop ends the process;
* discovery: one announcement per node at most, none before the node is
  recorded, none forgotten unless a failure is to blame; the mutex is returned;
* heartbeat: bounded silence, no burst;
* process: no stop request is lost, a signal does no harm while the daemon
  works, the log is written;
* configuration: what is accepted does not depend on the order it is read in,
  every driver wanted is there once, with its own MQTT settings, and connects
  under the GUID the daemon runs under;
* event path: no leak, no use of freed or short memory, the class and the time
  of what is sent follow from what was received;
* server GUID: never null, never changed by a heartbeat, made of the first
  address, and no read behind the end of the host's list of addresses.

## 2. Modules

| Module | Models | Lines of code |
| --- | --- | --- |
| `DeviceItem` | one device thread and one callback per driver | `devicethread.cpp`, parts of `devicelist.cpp` |
| `Daemon` | `DeviceItem` composed with the main thread and the signal handler | `controlobject.cpp` run/cleanup, `mqttvscpd.cpp` |
| `DriverContract` | abstract: what a driver library may rely on | (specification) |
| `Discovery` | the database part of `init()` and `discovery()` with restarts | `controlobject.cpp` 607-721, 1259-1329 |
| `NodeRegistry` | abstract: a durable set of nodes, each announced at most once | (specification) |
| `Heartbeat` | the timing of the main loop | `controlobject.cpp` 1040-1071, 1123-1252 |
| `Process` | `main()` and the signal handler | `mqttvscpd.cpp`, constructor and first half of `init()` in `controlobject.cpp` |
| `Startup` | from the configuration file to connected drivers | `controlobject.cpp` 295-605, 756-894, 1728-2522, `addItem`, client set-up in `devicethread.cpp` |
| `EventPath` | one event through the three work loops | `devicethread.cpp` 473-533, 547-631, 788-824 |
| `ServerGuid` | the GUID made of a hardware or IP address | `controlobject.cpp` 525-533, 1204-1227, 1613-1722 |
| `MC...` | constants for TLC, one module per specification | |
| `DaemonProofs`, `ContractProofs`, `DiscoveryProofs`, `ProcessProofs`, `HeartbeatProofs`, `StartupProofs`, `EventPathProofs`, `ServerGuidProofs` | theorems | |

### DeviceItem and Daemon

The variables are the fields of `CDeviceItem` under their own names, the control
points `pc` (device thread) and `cb` (callback), and four things the code keeps
elsewhere: `loaded` (the `dlopen` handle), `procs` (which `m_proc_*` are not
NULL), `channel` (the driver's own idea of whether it is open) and `mqtt` (may
the client deliver). One action stands for the code between two points at which
another thread can see a difference. In particular

* all `dlsym` calls are one step, because nobody can see the item's pointers
  before `connect()`;
* `Open`, `Connect` and `GetLevel` are separate steps: the callback can run
  between `connect()` and the assignment of `m_driverLevel`, which the device
  thread makes without the mutex (a data race; both values are explored);
* `Disconnect` and `Disconnected` are the call of `disconnect()` and its return;
* the driver call of the callback is the state `cb[d] = "call"`: the step into
  it and the step out of it are separate, so every interleaving with the close
  is explored.

`m_bEnable` is true for every item (`addItem` sets it and nothing clears it), so
its guards are left out. `m_mutexdeviceThread` is taken only by the main thread.
A level in the item is 1 or 2 at the start (`readJSON` passes these two).

`vscpClientMqtt` is not part of the repository. The constant `DisconnectJoins`
says whether its `disconnect()` waits for a callback that is running. Safety is
checked and proved for both values; what depends on it says so.

The main thread runs `init_mqtt`, `startDriver` for each item (a failing
`pthread_create` is ignored, as in the code), the main loop, `stopDriver` and
the join for each item, `disconnect()` of the own client, all of `cleanup()` a
second time, and the delete. A call through a NULL pointer ends the process
(`Crashed`).

### Discovery

`file` and `rows` are on disk, the rest is memory and is lost in `Die`, which is
enabled at every step. The load of the map may stop anywhere (the code ends its
loop at the first result that is not a row), every statement and every publish
may fail. `announced` counts publishes over the whole life of the database and
`lost` remembers publishes that failed or were cut off; no guard reads either.

### Heartbeat

Whole seconds, as `tv_sec`. A pass of the loop takes 5 ms and a few publishes,
but `periodicEvents()` also resolves the host's name: `ticks` counts the second
boundaries that fall into a pass, up to `MaxTicks`. A clock adjustment may come
at any step.

### Process

`ppc` is the next step of `main()`; the life of the control object (`gpobj`), of
the pid file and of the loggers is followed through every exit path, with a
signal possible before each step. `run()` and `cleanup()` are single steps here;
`Daemon` looks into them. Once the asynchronous logger is installed, a step that
logs needs a place in `queue`. `pool` says whether the thread that empties the
queue exists in this process: after `fork()` it does not. What
`spdlog::shutdown()` does with such a pool is undefined, so it may return or
hang. `privileged` covers the rights to `/var/run`, which `init()` gives up when
it becomes another user. A write through the dangling `gpobj` crashes or does
nothing visible.

### Startup

`cfg` is the configuration file, chosen once; `spc` is the next part of
`readJSON()`, `init()` and `init_mqtt()`, and `k` the key or the driver entry
within it. A JSON value is reduced to what the code tells apart (absent, of the
wrong type, readable), a topic to the pieces it is put together from. Each part
keeps its own way of failing: a required key ends in `return false` ("failed"), a
topic or an `enable` of the wrong type is an exception nobody catches
("aborted"), a log setting keeps its default. A missing section of `drivers` is
looked up with `operator[]` of a const object, which is undefined behaviour: it
ends the process or finds nothing. `ServerGuid` and `Discovery` look into
`ChooseGuid` and into the database part that is left out here. The last action
is the part of the device thread that sets up the driver's client.

### EventPath

`path` selects the loop: Level I with `CanalBlockingReceive()`, Level I polled,
Level II. `heap` has one block for each allocation a pass can make, with its
length, so a leak, a second delete and a copy of the wrong length all show. The
conversions of the helper library may fail at each call and then leave the
event alone; their results are ignored, as in the code. The branch for a failed
`sendEvent()` cannot be taken: its local `rv` is never set.

### ServerGuid

Byte 7 of a GUID says how it was made and bytes 8 to 13 hold the address; the
rest is constant. `getIPAddress()` is stepped through address by address. A
write behind `localaddr[]` is undefined: it does no harm or ends the process. The
machine is little endian (the order of the bytes depends on it).

## 3. Runs

| Run | Question | Result |
| --- | --- | --- |
| `daemon` | Are all driver calls, sends and joins safe with two drivers, and do they implement `DriverContract`? | holds |
| `daemon_join` | With a joining `disconnect()`: is nothing left at the delete, can the waits of the shutdown close to a circle, does a stop request end the process? | holds |
| `discovery` | Announcement at most once, recorded before known, mutual exclusion, nothing forgotten; does discovery implement `NodeRegistry`, and is the mutex always returned? | holds |
| `table` | Has a daemon with an open database its table? | violated |
| `heartbeat` | When does the heartbeat begin, how long can it be silent, can it burst? | holds |
| `process` | Where can a signal crash the process, is a stop ever lost, is it remembered during the whole start? | holds |
| `fork` | Is the log queue of a daemonized process emptied? | violated |
| `sinks` | Does a daemon told to use syslog do so while it runs? | violated |
| `startup` | Which configurations are accepted, which drivers come of them, with which settings, topics and GUID? | holds |
| `event_path` | Memory, payload, class and time of an event through the three loops | holds |
| `server_guid` | Is there always a GUID, is it stable, are the lists read within their ends? | holds |
| `local_addresses` | Does the loop stay inside `localaddr[]`? | violated |

Properties and what they show:

* `CallbackCallSafe`, `ThreadCallSafe`: the two sides of the race between the
  callback and the close. `CallbackCallSafe` has one exception, which the code
  really has: a Level I driver that answers 2 from `CanalGetLevel()` sends the
  callback through `m_proc_VSCPWrite`, which a Level I driver never resolves.
* `SendsWhileConnected`: the order join, then disconnect in `cleanup()`.
* `QuiescentAtDelete`: what may be alive when the items are freed. If
  `disconnect()` does not join, TLC finds callbacks that still run; the property
  claims their absence only for a joining one, which is the case TLC checks. For
  the other it is proved.
* `JoinsOnce`: two cleanups, one join.
* `ReleasedAtEnd`: what a device thread may leave behind, for every way it can
  end. Always released are the client and the mutex. A library stays mapped only
  if it lacked a symbol, and then it was never opened. A Level II driver is always
  closed. A Level I driver is not, where the broker refuses the connection
  (`devicethread.cpp` 444-448): it stays open in a library that is unmapped, and
  `m_openHandle` stays set. What the property claims of this case is that no
  callback can be running that would pass its test on such a handle.
* `NoCircularWait`: main waits for a device thread, that thread for the mutex or
  for `disconnect()`, `disconnect()` for a callback, and the callback for the
  same mutex: no state closes the circle. If `disconnect()` were called with the
  mutex held, it would.
* `StopLeadsToExit`: so a daemon asked to stop ends.
* `KeepsContract`: the sequence of calls a driver sees, as one statement. A driver
  taken into use (the connection was made) is closed before it is unmapped, with
  no call inside it. Only a driver that was opened and never used may be unmapped
  open, which the Level I half does where the broker refuses the connection.
* `AnnouncedAtMostOnce`, `KnownIsRecorded`, `Serialized`, `RecordedIsAnnounced`,
  `LockReleased`, `ImplementsRegistry`: see section 1.
* `SilenceBounded`: at most a minute and two passes of the loop without a
  heartbeat, plus what the clock was set back (62 seconds when a pass crosses at
  most one second boundary). `NoBurst`: with an untouched clock two heartbeats are
  61 seconds less one pass apart; the reading is saved before the slow part of
  the heartbeat, so a delay brings the next one closer. `FirstBeat`: the first
  one comes within two passes of the loop, plus what the clock was set back.
* `CrashWindow`: the exact places where the handler finds no object.
  `StopHonoured`: a signal at any moment, the start included, ends the process
  unless it waits for the log thread it lost in `fork()`.
  `StopRemembered`: why that is so for a signal during the start: from the
  assignment of `gpobj` to the delete nothing clears `m_bQuit` again.
  Nothing is claimed about the pid file (section 5).
* `Verdict`: `readJSON()` goes on exactly for the configurations that
  `Acceptable` describes as a whole, whatever the order of the parts; the one
  exception is the undefined look-up of a missing section. `ItemsAsConfigured`:
  the device list is the sequence of the entries wanted, and a prefix of it
  wherever reading stopped. `OwnBlock`: a driver's MQTT settings are its own, if
  its name is; of two drivers of one name the first gets both blocks.
  `ServerGuidUsed`: the copy of the null GUID that `addItem()` makes never
  reaches the broker. `TopicsAsConfigured`: a topic is the base in force and the
  configured name, without an `mqtt` object the default base and name.
* `NoLeak`, `PayloadFits`: ownership and length of the payload. `TranslatedClass`:
  the class for every combination of the three bits. `TimeKept`:
  a Level II driver's time survives wherever it is a date or a time at all.
* `GuidStable`, `ReadsInList`, `FirstAddressUsed`: the server GUID
  over failing look-ups and repeated heartbeats.

Findings (each is a violated run):

1. `table`: an existing file is taken for a complete database. A first start
   that dies or fails between `sqlite3_open()` and `CREATE TABLE` leaves an
   empty file, and discovery never works again with it.
2. `fork`: the log pool is created before `fork()`. Without `-s` nothing is
   ever written to the log file, and when the queue (8192 messages) is full every
   thread that logs blocks, the shutdown too.
3. `sinks`: `init()` sets up syslog and UDP sinks, then `main()` replaces the
   whole logger by one without them.
4. `local_addresses`: `idx < 16` is tested before the increment, so a host with
   16 addresses makes the loop write `localaddr[16]`.

Smaller differences between the code and its comments or documentation, which the
models follow as the code has them and which have no run of their own:

* six error paths of the device thread carry the comment "Free the library" and
  return without `dlclose()` (`devicethread.cpp` 217, 681 to 713); `ReleasedAtEnd`
  lets such a library stay mapped, but not opened;
* a refused connection closes the driver in the Level II half and not in the
  Level I half (`devicethread.cpp` 444 to 448); `ReleasedAtEnd` and
  `DriverContract` allow the latter for a driver that was never used;
* `localaddr[idx] = *((unsigned long *) pAddr)` (`controlobject.cpp` 1708) reads
  eight bytes of a four-byte address where a long has eight; the model takes the
  address as a whole, so `ReadsInList` covers the list of pointers only;
* "Do first send right away" (`controlobject.cpp` 1046) subtracts 60 seconds and
  the test requires more than 60, so the first pass sends nothing; `FirstBeat`
  gives the bound that does hold;
* with an `mqtt` object in the configuration, a topic left to its default carries
  the base twice (`controlobject.cpp` 2335); `TopicsAsConfigured` leaves it out;
* the documentation makes the guid optional
  (`docs/configuring_the_vscp_daemon.md` 242), the code refuses a configuration
  without it and accepts only an all-zero one in its place; it is in
  `RequiredKeys`;
* a measurement bit and the bit "all to Level II" together add 512 to the class
  of a measurement that was already converted (1552 or 1572); `TranslatedClass`
  says so;
* on a little-endian machine the bytes of the IP address are reversed in the GUID
  and in the heartbeat; `FirstAddressUsed` is stated for that order.

### Bounds

Items do not share state, only the main thread and `mainMqtt`, so two drivers
show every interaction: one that is being joined while the other still runs. The
libraries are one of each shape the resolution tells apart. The level replies are
1, 2 and one value whose low byte is neither (259). In `daemon_join` the answer 2
is left out, so that no behaviour ends in the crash that `StopLeadsToExit`
excuses, and the libraries are reduced to one per outcome. Discovery has two
threads, two nodes and the daemon's own. The heartbeat runs for 200 seconds (`MaxUp`) with
at most two clock changes (`MaxSets`), enough for three heartbeats with a change
in each interval, and passes of up to three seconds (`MaxTicks`).
The log queue has three places instead of 8192: the main thread passes through
empty, partly filled and full queues. The configurations of `MCStartup` are a
complete file with each key varied alone, all mqtt objects, and all pairs of
Level I entries against all Level II sections, because entries meet only in the
list and by their names. Events have one measurement class and the two ends of
the Level I range, an empty and a full payload, and dates with every field on
both sides of its limits. `localaddr[]` has three elements (`Capacity`) instead of
16 and the host up to four addresses, so the loop ends at either limit and past
it.

### Fairness

`Daemon` assumes weak fairness of each device thread, each delivered callback and
the main thread: threads are scheduled and driver calls return (reads and writes
carry a timeout of 50 to 500 ms in the code). Neither a signal nor a message is
ever obliged to come. Weak fairness suffices although there is a mutex, because
the callback is delivered at most once more after `disconnect()` was called.
`Discovery` assumes it only of the thread inside the critical section.
`Process` assumes weak fairness of `main()` and of the log thread, and strong
fairness of the step that leaves the main loop: other threads may fill the queue
again and again, and the condition variable of the queue wakes its waiters in
turn.

Deadlock checking is on in all runs of the threaded models: a process that has
exited or crashed stutters in `Terminated`, everything else that stops would be
reported. It is off in the runs of `Startup` and `ServerGuid`, which really end: a
start is refused, aborted or complete, and a write behind the array may end the
process.

## 4. Proofs

All theorems hold for every value of the constants under the named assumptions:
`NAssumption` (N is a natural number), `LevelAssumption`, `JoinsAssumption`,
`GuidAssumption`, `ThreadAssumption`, `ProcessAssumption` (the log queue has a
place), `HeartbeatAssumption`, `ConfigurationAssumption`, `EventPathAssumption` and
`ServerGuidAssumption` (the types of the inputs explored).

* `DaemonProofs`. The safety properties are not inductive: that a driver is open
  when the callback is inside it depends on where the device thread can be, on
  who holds the mutex and on the test the callback made before. `Inv` adds
  `ThreadInv` (what each control point says of library, channel and handle),
  `LevelInv` (the level against the half that runs), `CallbackInv` (mutex owner
  against both control points, and how far the callback can have come) and
  `MainInv` (`m_bThreadStarted` against the threads, the iterator and the count
  of cleanups against what has been joined, and that a thread is joined only
  after it was told to quit). The proof has one step per action
  and conjunct; a frame lemma disposes of the other items. Eight theorems follow
  from `Inv`, `NoCircularWait` among them: the thread that holds the mutex is
  past `disconnect()`, and a callback that waits for the mutex waits for a thread
  inside the close, which waits for nobody. The ninth, `StopForward`, is an
  action property: the control points of a device thread are numbered (`Stage`)
  in the order in which a thread that finds `m_bQuit` set passes them, and every
  step of such a thread goes to a higher number. With fairness, that and
  `NoCircularWait` are why `StopLeadsToExit` holds.
* `ContractProofs`. `Spec => KeepsContract`: each step of a thread of driver `d`
  is one contract step of `d` or leaves the contract's variables alone. The
  contract's `inUse`, `reading` and `writing` are functions of the control points.
* `DiscoveryProofs`. The invariant adds `MutexInv` and `CriticalInv` (a node
  being published is recorded and not announced); from it the four safety
  properties and `Spec => ImplementsRegistry`. `MovesOn` says that the holder of
  the mutex only goes on (`Phase` numbers its steps) or releases it.
  `BarrenForEver` says what the finding `table` leads to: `TableInv` (rows and
  announcements come after the table) makes a file left without its table a trap
  for every later start.
* `ProcessProofs`. `StepInv` says at which steps of `main()` the handlers are not
  yet installed, at which `gpobj` refers to an object, and that a decided end is
  final; from it the crash window. `SignalInv` adds that no
  signal can have been survived before `gpobj` is assigned; from it `StopKept`:
  `m_bQuit` is set and stays set for every signal since. `PoolInv` adds that a
  forked process has no thread for its log queue; from it `ForkedQueue`, the
  reason for the finding `fork`.
* `HeartbeatProofs`. The bounds are on real time and the code reads the wall
  clock: `ClockInv` relates the two (what the clock has advanced since the saved
  reading, plus what it was set back, is at least the time since the last
  heartbeat), `SilenceInv` and `UnsetInv` carry the two bounds from step to step
  of a pass, `FirstInv` the bound on the first heartbeat.
* `StartupProofs`. `GuidInv` says when the server GUID is chosen and which items
  use it. For the verdict, `ReadInv` says that what has been read so far was
  acceptable; the last section read, that is all of `Acceptable`, and every
  step that stops early has met a part that is not. `TopicInv` gives the topics
  before and after the `mqtt` object is read.
  `ListInv` is about the device list: its items are wanted entries in order and
  without gaps (`ListParts`), and `Reached` says that they are exactly the wanted
  ones before the reading position. That position moves from one section to the
  next only past the last entry, so at the end nothing is missing.
  `NameInv` says that of every name in the list there is a first item. That
  is what `getDeviceItemFromName()` returns; its existence is a matter of
  induction over the list, and as an invariant it needs none, because the list
  grows by one item at a time. From it, `OwnBlock` is inductive.
* `EventPathProofs`. `HeapInv` says who owns each block, `StepInv` bounds the
  payload before it is wrapped (so the uint16 arithmetic does not wrap),
  `ClassInv` is `TranslatedClass` before the last translation and `StampInv` ties
  the event to what was read.
* `ServerGuidProofs`. `LoopInv` is the loop invariant of `getIPAddress()`, `CallInv`
  who calls it and when there is a server GUID; from them all four properties,
  for every length of the array and every number of addresses. `ShortHost` is
  what is left of the violated `WritesInArray`: it holds for a host that has
  fewer addresses than the array has elements.

Every invariant and every action property of the passing runs is proved, and both
refinements. Only model-checked are the three liveness properties
`StopLeadsToExit`, `LockReleased` and `StopHonoured`, since liveness under fairness
and ENABLED are out of the prover's reach; their safety cores are the theorems
`NoCircle`, `StopForward`, `MovesOn` and `StopKept`.

## 5. Not modelled, and the plan

Left out:

* `vscpClientMqtt`, mosquitto, SQLite, spdlog, the JSON library and the VSCP
  helper library, which are outside the repository: what they may do is taken
  from how this code uses them and is marked external. That includes what the
  documentation says of a driver's MQTT settings being derived from the main
  ones, which the client would have to do.
* the Windows and macOS branches;
* what is logged (which sinks exist and the queue are in `Process`, the log
  settings in `Startup`); the JSON
  listing of drivers; the contents of the class and type tables, which are read
  once and then constant;
* the flags and parameters of a driver, which are only handed to it;
* `pauseDriver`/`resumeDriver` (nobody calls them and nobody reads the flag they
  set) and `removeItem` (it does nothing);
* a statement about the pid file, which the model follows through every exit. A
  start that `init()` or `run()` gives up calls `unlink()`, but ignores its
  result, and `init()` may have become a user who may not remove the file by
  then; with `-s` the file removed is another daemon's, if there is one. After a
  failed log set-up and after an orderly exit, which unlinks
  `/var/run/vscp/vscpd.pid` and not `/var/run/vscpd.pid`, the file stays. Nothing
  in the repository promises otherwise.

Next:

1. `Process` composed with `Daemon`, and SIGHUP, which the service files send to
   reload and the code takes as a stop.
2. Proofs that relate the modules: the `ChooseGuid` of `Startup` as what
   `ServerGuid` implements, and the database part of `Startup` as what `Discovery`
   implements.
