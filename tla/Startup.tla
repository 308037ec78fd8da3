------------------------------ MODULE Startup -------------------------------
(***************************************************************************)
(* What the control object makes of its configuration: readConfiguration() *)
(* and readJSON(), the rest of init() that applies it (log sinks, user,    *)
(* server GUID, class and type tokens), init_mqtt() and the set-up of each *)
(* driver's MQTT client by its device thread (src/src/controlobject.cpp,   *)
(* devicelist.cpp, devicethread.cpp).                                      *)
(*                                                                         *)
(* A JSON value is reduced to what the code tells apart: a key is absent,  *)
(* has a value of the wrong type, or a readable one.  A topic is the       *)
(* sequence of the pieces it is put together from.  The flags of a Level I *)
(* driver, which are only handed to the driver, and the database part of   *)
(* init(), which is module Discovery, are left out.                        *)
(***************************************************************************)
EXTENDS Integers, SequencesExt

CONSTANTS
    Configurations,  \* the configuration files explored
    Names            \* names of drivers

-----------------------------------------------------------------------------
(* The configuration file.                                                 *)

(* The keys without which readJSON() fails, in the order it reads them.    *)
RequiredKeys == <<"runasuser", "guid", "servername", "classtypedb", "maindb">>

(* The keys of the logging object, for each of the four sinks.             *)
FileKeys == {"file-enable-log", "file-log-level", "file-pattern", "file-path",
             "file-max-size", "file-max-files"}
ConsoleKeys == {"console-enable-log", "console-log-level", "console-pattern"}
SyslogKeys == {"syslog-enable-log", "syslog-log-level", "syslog-ident"}
UdpKeys == {"udp-enable-log", "udp-log-level", "udp-pattern", "udp-host", "udp-port"}
LogKeys == FileKeys \cup ConsoleKeys \cup SyslogKeys \cup UdpKeys

Byte == 0..255
Piece == {"daemon-base", "drivers", "discovery", "own"}
TopicKey == [is : {"absent", "wrong", "text"}, text : Seq(Piece)]

(* A driver entry.  complete: every other key the level asks for is there  *)
(* and of the right type.  exists: there is a file at the driver's path.   *)
Entry ==
    [object : BOOLEAN, enable : {"absent", "wrong", "false", "true"},
     complete : BOOLEAN, exists : BOOLEAN, name : Names,
     translation : Nat, mqtt : {"absent", "good", "bad"}]

(* parses: the root folder and the file are there, and the file is JSON.   *)
Configuration ==
    [parses : BOOLEAN,
     required : [DOMAIN RequiredKeys -> {"absent", "wrong", "text"}],
     user : {"none", "known", "unknown"}, nullGuid : BOOLEAN,
     vscpkey : {"absent", "wrong", "text"}, keyFile : {"good", "short", "none"},
     logging : [LogKeys -> {"absent", "wrong", "value", "zero"}],
     mqtt : [block : {"absent", "good", "bad"}, base : TopicKey,
             drivers : TopicKey, discovery : TopicKey],
     drivers : BOOLEAN,
     level : [1..2 -> [is : {"absent", "object", "scalar", "array"},
                       entries : Seq(Entry)]]]

ASSUME ConfigurationAssumption == Configurations \subseteq Configuration

VARIABLES
    cfg,       \* the configuration file
    spc,       \* what is done next
    k,         \* the key or driver entry read next
    log,       \* for each log setting, where its value comes from
    key,       \* bytes of __vscp_key: the built-in ones, the file's or a mix
    m_topicDaemonBase, m_topicDrivers, m_topicDiscovery,
    main,      \* settings of the control object's MQTT client
    items,     \* m_devItemList
    m_guid     \* where the server GUID comes from, "null" if all zero

topicVars == <<m_topicDaemonBase, m_topicDrivers, m_topicDiscovery>>
vars == <<cfg, spc, k, log, key, topicVars, main, items, m_guid>>

Goto(from, to) == spc = from /\ spc' = to

(* The topics of the mqtt object.                                          *)
TopicKeys == {cfg.mqtt.base, cfg.mqtt.drivers, cfg.mqtt.discovery}
TextOr(t, default) == IF t.is = "text" THEN t.text ELSE default

(* The constructor: every setting has a default, and both topics carry the *)
(* default base.                                                           *)
Init ==
    /\ cfg \in Configurations
    /\ spc = "file"
    /\ k = 1
    /\ log = [l \in LogKeys |-> "default"]
    /\ key = "default"
    /\ m_topicDaemonBase = <<"daemon-base">>
    /\ m_topicDrivers = <<"daemon-base", "drivers">>
    /\ m_topicDiscovery = <<"daemon-base", "discovery">>
    /\ main = "default"
    /\ items = <<>>
    /\ m_guid = "null"

-----------------------------------------------------------------------------
(* Faulty variants of definitions below, used in no specification.         *)

(* A required key of the wrong type taken for a readable one.              *)
ReadRequiredAnyType ==
    /\ spc = "required"
    /\ \/ /\ cfg.required[k] # "absent"
          /\ spc' = IF k < Len(RequiredKeys) THEN "required" ELSE "key"
          /\ k' = k + 1
          /\ m_guid' = IF RequiredKeys[k] = "guid" /\ ~cfg.nullGuid
                       THEN "configured" ELSE m_guid
       \/ /\ cfg.required[k] = "absent"
          /\ spc' = "failed"
          /\ UNCHANGED <<k, m_guid>>
    /\ UNCHANGED <<cfg, log, key, topicVars, main, items>>

(* The topics prefixed before the base is read (configurations that are    *)
(* refused left out).                                                      *)
ReadMqttOldBase ==
    /\ Goto("mqtt", "level1") /\ k' = 1
    /\ \/ cfg.mqtt.block = "absent" /\ UNCHANGED <<topicVars, main>>
       \/ /\ cfg.mqtt.block = "good" /\ \A t \in TopicKeys : t.is # "wrong"
          /\ main' = "main"
          /\ m_topicDaemonBase' = TextOr(cfg.mqtt.base, m_topicDaemonBase)
          /\ m_topicDrivers' =
               m_topicDaemonBase \o TextOr(cfg.mqtt.drivers, m_topicDrivers)
          /\ m_topicDiscovery' =
               m_topicDaemonBase \o TextOr(cfg.mqtt.discovery, m_topicDiscovery)
    /\ UNCHANGED <<cfg, log, key, items, m_guid>>

(* m_translation taken as it was written.                                  *)
ItemUntruncated(id, e) ==
    [id |-> id, name |-> e.name, m_mqttConfig |-> <<0, 0>>,
     m_translation |-> IF id[1] = 1 THEN e.translation ELSE 0,
     srvGuid |-> m_guid, client |-> "new"]

(* The first item of the list, whatever its name.                          *)
firstDeviceItem(list, name) == 1

(* The position in the first section kept for the second.                  *)
EndLevelKeepsIndex(l) ==
    /\ ~(cfg.drivers /\ cfg.level[l].is = "array" /\ k \in DOMAIN cfg.level[l].entries)
    /\ ~(cfg.drivers /\ cfg.level[l].is = "scalar")
    /\ Goto(<<"level1", "level2">>[l], <<"level2", "sinks">>[l])
    /\ UNCHANGED <<cfg, k, log, key, topicVars, main, items, m_guid>>

(* The GUID addItem() copied left as it is.                                *)
DriverClientStale(i) ==
    /\ spc = "drivers" /\ items[i].client = "new"
    /\ \E c \in {"connected", "refused"} : items' = [items EXCEPT ![i].client = c]
    /\ UNCHANGED <<cfg, spc, k, log, key, topicVars, main, m_guid>>

-----------------------------------------------------------------------------
(* readConfiguration() and readJSON().                                     *)

ReadFile ==
    /\ Goto("file", IF cfg.parses THEN "required" ELSE "failed")
    /\ UNCHANGED <<cfg, k, log, key, topicVars, main, items, m_guid>>

ReadRequired ==
    /\ spc = "required"
    /\ \/ /\ cfg.required[k] = "text"
          /\ spc' = IF k < Len(RequiredKeys) THEN "required" ELSE "key"
          /\ k' = k + 1
          /\ m_guid' = IF RequiredKeys[k] = "guid" /\ ~cfg.nullGuid
                       THEN "configured" ELSE m_guid
       \/ /\ cfg.required[k] # "text"
          /\ spc' = "failed"
          /\ UNCHANGED <<k, m_guid>>
    /\ UNCHANGED <<cfg, log, key, topicVars, main, items>>

(* readEncryptionKey() decodes the file straight into __vscp_key; a file   *)
(* that is missing or too short is only logged.                            *)
ReadKey ==
    /\ Goto("key", IF cfg.vscpkey = "wrong" THEN "failed" ELSE "logging")
    /\ key' = CASE cfg.vscpkey = "text" /\ cfg.keyFile = "good"  -> "file"
                [] cfg.vscpkey = "text" /\ cfg.keyFile = "short" -> "mixed"
                [] OTHER -> key
    /\ UNCHANGED <<cfg, k, log, topicVars, main, items, m_guid>>

(* Each key on its own; one that cannot be read leaves its default.  An    *)
(* absent logging object is one without keys.                              *)
ReadLogging ==
    /\ Goto("logging", "mqtt")
    /\ log' = [l \in LogKeys |-> IF cfg.logging[l] \in {"value", "zero"}
                                 THEN cfg.logging[l] ELSE log[l]]
    /\ UNCHANGED <<cfg, k, key, topicVars, main, items, m_guid>>

(* The three topics are read outside any try block: a value that is no     *)
(* string ends the process.                                                *)
ReadMqtt ==
    /\ \/ /\ cfg.mqtt.block = "absent"
          /\ Goto("mqtt", "level1")
          /\ UNCHANGED <<topicVars, main>>
       \/ /\ cfg.mqtt.block = "bad"
          /\ Goto("mqtt", "failed")
          /\ UNCHANGED <<topicVars, main>>
       \/ /\ cfg.mqtt.block = "good" /\ \E t \in TopicKeys : t.is = "wrong"
          /\ Goto("mqtt", "aborted")
          /\ main' = "main"
          /\ UNCHANGED topicVars
       \/ /\ cfg.mqtt.block = "good" /\ \A t \in TopicKeys : t.is # "wrong"
          /\ Goto("mqtt", "level1")
          /\ main' = "main"
          /\ m_topicDaemonBase' = TextOr(cfg.mqtt.base, m_topicDaemonBase)
          /\ m_topicDrivers' =
               m_topicDaemonBase' \o TextOr(cfg.mqtt.drivers, m_topicDrivers)
          /\ m_topicDiscovery' =
               m_topicDaemonBase' \o TextOr(cfg.mqtt.discovery, m_topicDiscovery)
    /\ k' = 1
    /\ UNCHANGED <<cfg, log, key, items, m_guid>>

(* CDeviceList: an item, and the first item of a name.                     *)
NoBlock == <<0, 0>>
Item(id, e) ==
    [id |-> id, name |-> e.name, m_mqttConfig |-> NoBlock,
     m_translation |-> IF id[1] = 1 THEN e.translation % 256 ELSE 0,
     srvGuid |-> m_guid, client |-> "new"]
getDeviceItemFromName(list, name) ==
    SelectInSeq(list, LAMBDA item : item.name = name)

(* addItem() drops a driver whose file does not exist.                     *)
Throws(e) == ~e.object \/ e.enable = "wrong"
Wanted(e) == e.object /\ e.enable = "true" /\ e.complete /\ e.exists

(* drivers: anything that is not an object is taken for a list of entries. *)
LevelStep == <<"level1", "level2", "sinks">>
Entries(l) ==
    IF cfg.drivers /\ cfg.level[l].is = "array" THEN cfg.level[l].entries ELSE <<>>

ReadEntry(l) ==
    /\ k \in DOMAIN Entries(l)
    /\ LET e == Entries(l)[k]
           added == Append(items, Item(<<l, k>>, e))
           named == getDeviceItemFromName(added, e.name)
       IN  \/ /\ Throws(e)
              /\ Goto(LevelStep[l], "aborted")
              /\ UNCHANGED <<k, items>>
           \/ /\ ~Throws(e) /\ ~Wanted(e)
              /\ Goto(LevelStep[l], LevelStep[l])
              /\ k' = k + 1
              /\ UNCHANGED items
           \/ /\ Wanted(e)
              /\ Goto(LevelStep[l], IF e.mqtt = "bad" THEN "failed" ELSE LevelStep[l])
              /\ k' = k + 1
              /\ items' = IF e.mqtt = "absent" THEN added
                          ELSE [added EXCEPT ![named].m_mqttConfig = <<l, k>>]
    /\ UNCHANGED <<cfg, log, key, topicVars, main, m_guid>>

EndLevel(l) ==
    /\ k \notin DOMAIN Entries(l)
    /\ ~(cfg.drivers /\ cfg.level[l].is = "scalar")
    /\ Goto(LevelStep[l], LevelStep[l + 1])
    /\ k' = 1
    /\ UNCHANGED <<cfg, log, key, topicVars, main, items, m_guid>>

(* A scalar has no key "enable" to look up.  A missing section is looked   *)
(* up in a const object, which is undefined: it dies, or finds nothing.    *)
LevelThrows(l) ==
    /\ cfg.drivers /\ cfg.level[l].is \in {"scalar", "absent"}
    /\ Goto(LevelStep[l], "aborted")
    /\ UNCHANGED <<cfg, k, log, key, topicVars, main, items, m_guid>>

-----------------------------------------------------------------------------
(* The rest of init(), and init_mqtt().                                    *)

(* A log file that cannot be opened, or of size zero, is an exception that *)
(* nobody catches.                                                         *)
SetupSinks ==
    /\ \/ log["file-max-size"] # "zero" /\ Goto("sinks", "user")
       \/ Goto("sinks", "aborted")
    /\ UNCHANGED <<cfg, k, log, key, topicVars, main, items, m_guid>>

BecomeUser ==
    /\ Goto("user", IF cfg.user = "unknown" THEN "failed" ELSE "guid")
    /\ UNCHANGED <<cfg, k, log, key, topicVars, main, items, m_guid>>

(* getMacAddress(), then getIPAddress(), whose result is ignored.          *)
ChooseGuid ==
    /\ Goto("guid", "tokens")
    /\ m_guid' \in IF m_guid = "null" THEN {"mac", "ip", "prefix"} ELSE {m_guid}
    /\ UNCHANGED <<cfg, k, log, key, topicVars, main, items>>

(* The class and type tables: what cannot be opened or read is logged, but *)
(* a row without a token is a std::string made from a null pointer, and    *)
(* sqlite3_initialize() must succeed.                                      *)
LoadTokens ==
    /\ \E to \in {"connect", "failed", "aborted"} : Goto("tokens", to)
    /\ UNCHANGED <<cfg, k, log, key, topicVars, main, items, m_guid>>

(* init_mqtt(): connect, then five retained messages whose failure is only *)
(* logged.                                                                 *)
InitMqtt ==
    /\ Goto("connect", "drivers") \/ Goto("connect", "failed")
    /\ UNCHANGED <<cfg, k, log, key, topicVars, main, items, m_guid>>

-----------------------------------------------------------------------------
(* The device threads: each sets both GUIDs of its client again and        *)
(* connects it.  addItem() copied the server GUID before it was chosen.    *)
Client(item, c) ==
    [id |-> item.id, name |-> item.name, m_mqttConfig |-> item.m_mqttConfig,
     m_translation |-> item.m_translation, srvGuid |-> m_guid, client |-> c]
DriverClient(i) ==
    /\ spc = "drivers" /\ items[i].client = "new"
    /\ \E c \in {"connected", "refused"} :
         items' = [items EXCEPT ![i] = Client(@, c)]
    /\ UNCHANGED <<cfg, spc, k, log, key, topicVars, main, m_guid>>

Next ==
    \/ ReadFile \/ ReadRequired \/ ReadKey \/ ReadLogging \/ ReadMqtt
    \/ \E l \in 1..2 : ReadEntry(l) \/ EndLevel(l) \/ LevelThrows(l)
    \/ SetupSinks \/ BecomeUser \/ ChooseGuid \/ LoadTokens \/ InitMqtt
    \/ \E i \in DOMAIN items : DriverClient(i)

Spec == Init /\ [][Next]_vars

-----------------------------------------------------------------------------
(* Properties.                                                             *)

Reading == {"file", "required", "key", "logging", "mqtt", "level1", "level2"}
Applying == {"sinks", "user", "guid", "tokens", "connect", "drivers"}

Guids == {"null", "configured", "mac", "ip", "prefix"}
EntryId == (0..2) \X Nat
ItemType ==
    [id : EntryId, name : Names, m_mqttConfig : EntryId,
     m_translation : Byte, srvGuid : Guids,
     client : {"new", "connected", "refused"}]

(* Every variable keeps its type; m_translation fits the uint8_t readJSON()*)
(* takes it as.                                                            *)
TypeOK ==
    /\ cfg \in Configuration
    /\ spc \in Reading \cup Applying \cup {"failed", "aborted"}
    /\ k \in Nat
    /\ log \in [LogKeys -> {"default", "value", "zero"}]
    /\ key \in {"default", "file", "mixed"}
    /\ m_topicDaemonBase \in Seq(Piece) /\ m_topicDrivers \in Seq(Piece)
    /\ m_topicDiscovery \in Seq(Piece)
    /\ main \in {"default", "main"}
    /\ items \in Seq(ItemType)
    /\ m_guid \in Guids

(* The entries of the configuration that stand for a driver, and the order *)
(* of the entries, Level I first.                                          *)
EntryOf(id) == Entries(id[1])[id[2]]
WantedIds ==
    {id \in UNION {{l} \X DOMAIN Entries(l) : l \in 1..2} : Wanted(EntryOf(id))}
Before(a, b) == a[1] < b[1] \/ (a[1] = b[1] /\ a[2] < b[2])

(* The device list is the list of the configured, enabled and installed    *)
(* drivers, each once and in their order: complete when readJSON() is      *)
(* done, and a prefix of it wherever readJSON() has stopped.               *)
ItemsAsConfigured ==
    LET Listed(id) == \E i \in DOMAIN items : items[i].id = id
    IN  /\ \A i \in DOMAIN items : items[i].id \in WantedIds
        /\ \A i, j \in DOMAIN items : i < j => Before(items[i].id, items[j].id)
        /\ \A i \in DOMAIN items, id \in WantedIds :
             Before(id, items[i].id) => Listed(id)
        /\ spc \in Applying => \A id \in WantedIds : Listed(id)

(* A driver's client is configured by the mqtt block of an entry with the  *)
(* driver's name, and of its own entry if no other driver has that name.   *)
(* (readJSON() finds the item it has just added by its name, so of two     *)
(* drivers of one name the first gets both blocks and the second none.)    *)
OwnBlock ==
    \A i \in DOMAIN items :
        LET block == items[i].m_mqttConfig
            others == {j \in DOMAIN items \ {i} : items[j].name = items[i].name}
        IN  /\ block # NoBlock => EntryOf(block).name = items[i].name
            /\ others = {} => block = IF EntryOf(items[i].id).mqtt = "absent"
                                      THEN NoBlock ELSE items[i].id

(* What readJSON() accepts, whatever the order it reads it in.             *)
Acceptable(c) ==
    /\ c.parses
    /\ \A i \in DOMAIN RequiredKeys : c.required[i] = "text"
    /\ c.vscpkey # "wrong"
    /\ c.mqtt.block # "bad"
    /\ c.mqtt.block = "good" => "wrong" \notin
         {c.mqtt.base.is, c.mqtt.drivers.is, c.mqtt.discovery.is}
    /\ c.drivers => \A l \in 1..2 :
         /\ c.level[l].is # "scalar"
         /\ c.level[l].is = "array" => \A i \in DOMAIN c.level[l].entries :
              LET e == c.level[l].entries[i]
              IN  ~Throws(e) /\ (Wanted(e) => e.mqtt # "bad")

MissingSection == cfg.drivers /\ \E l \in 1..2 : cfg.level[l].is = "absent"

(* readJSON() goes on to the rest of init() exactly when everything it     *)
(* insists on is there, except that a drivers object in which one of the   *)
(* two sections is missing may also end the process.  (The documentation   *)
(* makes the guid optional, docs/configuring_the_vscp_daemon.md 242; the   *)
(* code refuses a file without one, and so does Acceptable.)               *)
Verdict ==
    [][spc' \notin Reading /\ spc \in Reading =>
         IF spc' = "sinks" THEN Acceptable(cfg)
         ELSE ~Acceptable(cfg) \/ MissingSection]_vars

(* Every driver is connected with the GUID the daemon itself runs under,   *)
(* and that is not the null GUID, although addItem() gave it a copy before *)
(* init() replaced a null GUID.                                            *)
ServerGuidUsed ==
    \A i \in DOMAIN items : items[i].client = "connected" =>
        items[i].srvGuid = m_guid /\ m_guid # "null"

(* Both topics are the base in force followed by the configured name, and  *)
(* with no mqtt object the default base followed by the default name, as   *)
(* the documentation has it.  (In an mqtt object that leaves out a topic   *)
(* the base is put in front of a default that already carries one.)        *)
TopicsAsConfigured ==
    LET Named(topic, t, default) ==
            /\ cfg.mqtt.block = "absent" => topic = m_topicDaemonBase \o default
            /\ cfg.mqtt.block = "good" /\ t.is = "text" =>
                 topic = TextOr(cfg.mqtt.base, <<"daemon-base">>) \o t.text
    IN  spc \in Applying =>
            /\ Named(m_topicDrivers, cfg.mqtt.drivers, <<"drivers">>)
            /\ Named(m_topicDiscovery, cfg.mqtt.discovery, <<"discovery">>)
=============================================================================
