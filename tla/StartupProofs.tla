--------------------------- MODULE StartupProofs ----------------------------
(* Theorems about module Startup, for every set of configuration files and *)
(* every set of driver names.                                              *)
EXTENDS Startup, TLAPS

(* The server GUID: chosen before any driver is connected, and the one a   *)
(* client that has been set up uses.                                       *)
GuidInv ==
    /\ spc \in {"tokens", "connect", "drivers"} => m_guid # "null"
    /\ \A i \in DOMAIN items : items[i].client # "new" =>
         spc = "drivers" /\ items[i].srvGuid = m_guid

(* The parts of Acceptable, in the order readJSON() comes to them.         *)
Fine(e) == ~Throws(e) /\ (Wanted(e) => e.mqtt # "bad")
MqttFine ==
    /\ cfg.mqtt.block # "bad"
    /\ cfg.mqtt.block = "good" => "wrong" \notin
         {cfg.mqtt.base.is, cfg.mqtt.drivers.is, cfg.mqtt.discovery.is}
EntriesFine(l, n) == \A i \in DOMAIN Entries(l) : i < n => Fine(Entries(l)[i])
LevelFine(l) ==
    /\ ~(cfg.drivers /\ cfg.level[l].is = "scalar")
    /\ \A i \in DOMAIN Entries(l) : Fine(Entries(l)[i])

(* What has been read so far was acceptable.                               *)
ReadInv ==
    /\ spc = "file" => k = 1
    /\ spc \in Reading \ {"file"} => cfg.parses
    /\ spc = "required" =>
         k \in 1..5 /\ \A i \in 1..5 : i < k => cfg.required[i] = "text"
    /\ spc \in {"key", "logging", "mqtt", "level1", "level2"} =>
         \A i \in 1..5 : cfg.required[i] = "text"
    /\ spc \in {"logging", "mqtt", "level1", "level2"} => cfg.vscpkey # "wrong"
    /\ spc \in {"level1", "level2"} => MqttFine /\ k >= 1
    /\ spc = "level1" => EntriesFine(1, k)
    /\ spc = "level2" => LevelFine(1) /\ EntriesFine(2, k)

Inv == TypeOK /\ GuidInv

-----------------------------------------------------------------------------
(* What the proofs need of the configuration.                              *)

LEMMA Required == DOMAIN RequiredKeys = 1..5 /\ Len(RequiredKeys) = 5
BY SMT DEF RequiredKeys

LEMMA Steps ==
    /\ LevelStep[1] = "level1" /\ LevelStep[2] = "level2" /\ LevelStep[3] = "sinks"
BY SMT DEF LevelStep

LEMMA LevelType ==
    ASSUME cfg \in Configuration, NEW l \in 1..2
    PROVE  Entries(l) \in Seq(Entry)
<1>1. cfg.level \in [1..2 -> [is : {"absent", "object", "scalar", "array"},
                              entries : Seq(Entry)]]
  BY SMT DEF Configuration
<1>2. cfg.level[l].entries \in Seq(Entry)
  BY <1>1, SMT
<1>3. <<>> \in Seq(Entry)
  BY SMT
<1> QED
  BY <1>2, <1>3, SMT DEF Entries

LEMMA TranslationByte == ASSUME NEW n \in Nat PROVE n % 256 \in Byte /\ 0 \in Byte
BY SMT DEF Byte

LEMMA ItemHasType ==
    ASSUME m_guid \in Guids, NEW e \in Entry, NEW l \in 1..2, NEW n \in Nat
    PROVE  Item(<<l, n>>, e) \in ItemType /\ Item(<<l, n>>, e).client = "new"
<1>1. e.translation \in Nat /\ e.name \in Names
  BY SMT DEF Entry
<1>2. e.translation % 256 \in Byte /\ 0 \in Byte
  BY <1>1, TranslationByte
<1>3. <<l, n>> \in EntryId /\ NoBlock \in EntryId
  BY SMT DEF NoBlock, EntryId
<1> QED
  BY <1>1, <1>2, <1>3, SMT DEF Item, ItemType

LEMMA ClientHasType ==
    ASSUME m_guid \in Guids, NEW item \in ItemType, NEW c \in {"connected", "refused"}
    PROVE  Client(item, c) \in ItemType /\ Client(item, c).srvGuid = m_guid
BY SMT DEF Client, ItemType

(* Appending an item, and giving one of the list a block: the other fields *)
(* of the items stay, whichever item the look-up by name returns.          *)
LEMMA AppendKeeps ==
    ASSUME NEW s \in Seq(ItemType), NEW x \in ItemType
    PROVE  /\ Append(s, x) \in Seq(ItemType)
           /\ \A i \in DOMAIN Append(s, x) :
                Append(s, x)[i] = x \/ (i \in DOMAIN s /\ Append(s, x)[i] = s[i])
BY SMT

Filled(s, j, b) == [s EXCEPT ![j].m_mqttConfig = b]
LEMMA BlockKeeps ==
    ASSUME NEW s \in Seq(ItemType), NEW j, NEW b \in EntryId
    PROVE  /\ Filled(s, j, b) \in Seq(ItemType) /\ DOMAIN Filled(s, j, b) = DOMAIN s
           /\ \A i \in DOMAIN s : /\ Filled(s, j, b)[i].client = s[i].client
                                  /\ Filled(s, j, b)[i].srvGuid = s[i].srvGuid
<1> DEFINE t == [s EXCEPT ![j].m_mqttConfig = b]
<1>1. ASSUME NEW x \in ItemType
      PROVE  LET y == [x EXCEPT !.m_mqttConfig = b]
             IN  y \in ItemType /\ y.client = x.client /\ y.srvGuid = x.srvGuid
  <2> DEFINE y == [x EXCEPT !.m_mqttConfig = b]
  <2>1. y.client = x.client /\ y.srvGuid = x.srvGuid
    BY SMT DEF ItemType
  <2>2. y \in ItemType
    BY SMT DEF ItemType
  <2> QED
    BY <2>1, <2>2
<1>2. DOMAIN t = DOMAIN s
  BY SMT
<1>3. \A i \in DOMAIN s : /\ t[i] \in ItemType /\ t[i].client = s[i].client
                          /\ t[i].srvGuid = s[i].srvGuid
  <2> SUFFICES ASSUME NEW i \in DOMAIN s
               PROVE /\ t[i] \in ItemType /\ t[i].client = s[i].client
                     /\ t[i].srvGuid = s[i].srvGuid
    OBVIOUS
  <2>1. s[i] \in ItemType
    BY SMT
  <2>2. t[i] = s[i] \/ t[i] = [s[i] EXCEPT !.m_mqttConfig = b]
    BY SMT
  <2> QED
    BY <1>1, <2>1, <2>2
<1>4. t \in Seq(ItemType)
  <2>1. Len(s) \in Nat /\ DOMAIN s = 1..Len(s)
    BY SMT
  <2>2. t = [i \in DOMAIN s |-> t[i]]
    BY <1>2, SMT
  <2> HIDE DEF t
  <2>3. t \in [1..Len(s) -> ItemType]
    BY <1>3, <2>1, <2>2, SMT
  <2> QED
    BY <2>1, <2>3, SMT
<1> QED
  BY <1>2, <1>3, <1>4 DEF Filled

LEMMA FilledNew ==
    ASSUME NEW s \in Seq(ItemType), NEW j, NEW b \in EntryId,
           \A i \in DOMAIN s : s[i].client = "new"
    PROVE  /\ Filled(s, j, b) \in Seq(ItemType)
           /\ \A i \in DOMAIN Filled(s, j, b) : Filled(s, j, b)[i].client = "new"
<1> DEFINE t == Filled(s, j, b)
<1>1. /\ t \in Seq(ItemType) /\ DOMAIN t = DOMAIN s
      /\ \A i \in DOMAIN s : t[i].client = s[i].client
  BY BlockKeeps
<1> HIDE DEF t
<1>2. t \in Seq(ItemType) /\ \A i \in DOMAIN t : t[i].client = "new"
  BY <1>1, SMT
<1> QED
  BY <1>2 DEF t

-----------------------------------------------------------------------------
(* Type correctness and the server GUID.                                   *)

Elsewhere == <<cfg, log, key, topicVars, main, m_guid>>

LEMMA InvInit == Init => Inv
<1> SUFFICES ASSUME Init PROVE Inv
  OBVIOUS
<1>1. items = <<>> /\ items \in Seq(ItemType) /\ DOMAIN items = {}
  BY SMT DEF Init
<1>2. cfg \in Configuration
  BY ConfigurationAssumption, SMT DEF Init
<1>3. /\ m_topicDaemonBase \in Seq(Piece) /\ m_topicDrivers \in Seq(Piece)
      /\ m_topicDiscovery \in Seq(Piece)
  BY SMT DEF Init, Piece
<1>4. log \in [LogKeys -> {"default", "value", "zero"}]
  BY SMT DEF Init
<1>5. TypeOK
  BY <1>1, <1>2, <1>3, <1>4, SMT DEF Init, TypeOK, Reading, Guids
<1> QED
  BY <1>1, <1>5, SMT DEF Init, Inv, GuidInv

(* The steps that leave topics, log settings and items alone.              *)
LEMMA PlainStep ==
    ASSUME Inv, \/ ReadFile \/ ReadRequired \/ ReadKey \/ SetupSinks
                \/ BecomeUser \/ LoadTokens \/ InitMqtt
    PROVE  Inv'
<1>1. UNCHANGED <<cfg, log, topicVars, main, items>>
  BY Zenon DEF ReadFile, ReadRequired, ReadKey, SetupSinks, BecomeUser, LoadTokens,
     InitMqtt
<1>2. m_guid' = m_guid \/ (spc = "required" /\ m_guid' = "configured")
  <2>1. CASE ReadRequired
    <3>1. spc = "required"
      BY <2>1 DEF ReadRequired
    <3>2. m_guid' = m_guid \/ m_guid' = IF RequiredKeys[k] = "guid" /\ ~cfg.nullGuid
                                       THEN "configured" ELSE m_guid
      BY <2>1 DEF ReadRequired
    <3> QED
      BY <3>1, <3>2
  <2>2. CASE ReadFile  BY <2>2 DEF ReadFile
  <2>3. CASE ReadKey  BY <2>3 DEF ReadKey
  <2>4. CASE SetupSinks  BY <2>4 DEF SetupSinks
  <2>5. CASE BecomeUser  BY <2>5 DEF BecomeUser
  <2>6. CASE LoadTokens \/ InitMqtt  BY <2>6 DEF LoadTokens, InitMqtt
  <2> QED
    BY <2>1, <2>2, <2>3, <2>4, <2>5, <2>6
<1>3. /\ spc # "drivers"
      /\ spc' \in {"tokens", "connect", "drivers"} => spc \in {"tokens", "connect"}
      /\ spc' \in Reading \cup Applying \cup {"failed", "aborted"}
  <2> USE DEF Reading, Applying, Goto
  <2>1. CASE ReadFile  BY <2>1, SMT DEF ReadFile
  <2>2. CASE ReadRequired  BY <2>2, SMT DEF ReadRequired
  <2>3. CASE ReadKey  BY <2>3, SMT DEF ReadKey
  <2>4. CASE SetupSinks  BY <2>4, SMT DEF SetupSinks
  <2>5. CASE BecomeUser  BY <2>5, SMT DEF BecomeUser
  <2>6. CASE LoadTokens \/ InitMqtt  BY <2>6, SMT DEF LoadTokens, InitMqtt
  <2> QED
    BY <2>1, <2>2, <2>3, <2>4, <2>5, <2>6
<1>4. k' \in Nat /\ key' \in {"default", "file", "mixed"}
  BY SMT DEF ReadFile, ReadRequired, ReadKey, SetupSinks, BecomeUser, LoadTokens,
     InitMqtt, Inv, TypeOK
<1>5. TypeOK'
  BY <1>1, <1>2, <1>3, <1>4, SMT DEF Inv, TypeOK, topicVars, Guids
<1>6. GuidInv'
  BY <1>1, <1>2, <1>3, SMT DEF Inv, GuidInv
<1> QED
  BY <1>5, <1>6 DEF Inv

LEMMA ReadLoggingStep == Inv /\ ReadLogging => Inv'
<1> SUFFICES ASSUME Inv, ReadLogging PROVE Inv'
  OBVIOUS
<1>1. /\ spc = "logging" /\ spc' = "mqtt"
      /\ UNCHANGED <<cfg, k, key, topicVars, main, items, m_guid>>
  BY SMT DEF ReadLogging, Goto
<1>2. cfg.logging \in [LogKeys -> {"absent", "wrong", "value", "zero"}]
  BY SMT DEF Inv, TypeOK, Configuration
<1>3. log' \in [LogKeys -> {"default", "value", "zero"}]
  BY <1>2, SMT DEF ReadLogging, Inv, TypeOK
<1> QED
  BY <1>1, <1>3, SMT DEF Inv, TypeOK, GuidInv, topicVars, Reading

LEMMA ReadMqttStep == Inv /\ ReadMqtt => Inv'
<1> SUFFICES ASSUME Inv, ReadMqtt PROVE Inv'
  OBVIOUS
<1>1. /\ spc = "mqtt" /\ spc' \in {"level1", "failed", "aborted"} /\ k' = 1
      /\ main' \in {main, "main"} /\ UNCHANGED <<cfg, log, key, items, m_guid>>
  BY SMT DEF ReadMqtt, Goto
<1>2. /\ m_topicDaemonBase' \in Seq(Piece) /\ m_topicDrivers' \in Seq(Piece)
      /\ m_topicDiscovery' \in Seq(Piece)
  <2>1. CASE UNCHANGED topicVars
    BY <2>1, SMT DEF Inv, TypeOK, topicVars
  <2>2. CASE /\ m_topicDaemonBase' = TextOr(cfg.mqtt.base, m_topicDaemonBase)
             /\ m_topicDrivers' =
                  m_topicDaemonBase' \o TextOr(cfg.mqtt.drivers, m_topicDrivers)
             /\ m_topicDiscovery' =
                  m_topicDaemonBase' \o TextOr(cfg.mqtt.discovery, m_topicDiscovery)
    <3>1. /\ cfg.mqtt.base.text \in Seq(Piece) /\ cfg.mqtt.drivers.text \in Seq(Piece)
          /\ cfg.mqtt.discovery.text \in Seq(Piece)
      <4>1. /\ cfg.mqtt.base \in TopicKey /\ cfg.mqtt.drivers \in TopicKey
            /\ cfg.mqtt.discovery \in TopicKey
        BY SMT DEF Inv, TypeOK, Configuration
      <4> QED
        BY <4>1, SMT DEF TopicKey
    <3>2. /\ TextOr(cfg.mqtt.base, m_topicDaemonBase) \in Seq(Piece)
          /\ TextOr(cfg.mqtt.drivers, m_topicDrivers) \in Seq(Piece)
          /\ TextOr(cfg.mqtt.discovery, m_topicDiscovery) \in Seq(Piece)
      BY <3>1, SMT DEF TextOr, Inv, TypeOK
    <3> QED
      BY <2>2, <3>2, SMT
  <2> QED
    BY <2>1, <2>2, Zenon DEF ReadMqtt
<1> QED
  BY <1>1, <1>2, SMT DEF Inv, TypeOK, GuidInv, Reading

LEMMA ReadEntryStep == ASSUME Inv, NEW l \in 1..2, ReadEntry(l) PROVE Inv'
<1> DEFINE e == Entries(l)[k]
           added == Append(items, Item(<<l, k>>, e))
           named == getDeviceItemFromName(added, e.name)
           filled == Filled(added, named, <<l, k>>)
<1>1. /\ spc = LevelStep[l] /\ spc' \in {LevelStep[l], "failed", "aborted"}
      /\ k' \in {k, k + 1}
      /\ UNCHANGED Elsewhere /\ items' \in {items, added, filled}
  BY Zenon DEF ReadEntry, Goto, Elsewhere, Filled
<1>2. spc \in {"level1", "level2"}
  BY <1>1, Steps, SMT
<1>3. e \in Entry /\ k \in Nat
  <2>1. Entries(l) \in Seq(Entry) /\ k \in DOMAIN Entries(l)
    BY LevelType, SMT DEF ReadEntry, Inv, TypeOK
  <2> QED
    BY <2>1, SMT
<1>4. Item(<<l, k>>, e) \in ItemType /\ Item(<<l, k>>, e).client = "new"
  BY <1>3, ItemHasType, SMT DEF Inv, TypeOK
<1>5. \A i \in DOMAIN items : items[i].client = "new"
  BY <1>2, SMT DEF Inv, GuidInv
<1>6. items \in Seq(ItemType) /\ <<l, k>> \in EntryId
  BY <1>3, SMT DEF Inv, TypeOK, EntryId
<1> HIDE DEF e
<1>7. added \in Seq(ItemType) /\ \A i \in DOMAIN added : added[i].client = "new"
  BY <1>4, <1>5, <1>6, AppendKeeps, SMT
<1> HIDE DEF added
<1>8. filled \in Seq(ItemType) /\ \A i \in DOMAIN filled : filled[i].client = "new"
  BY <1>6, <1>7, FilledNew
<1> HIDE DEF filled
<1>9. items' \in Seq(ItemType) /\ \A i \in DOMAIN items' : items'[i].client = "new"
  BY <1>1, <1>5, <1>6, <1>7, <1>8, SMT
<1>10. TypeOK'
  BY <1>1, <1>2, <1>3, <1>9, SMT DEF Inv, TypeOK, Elsewhere, topicVars, Reading
<1> QED
  BY <1>1, <1>2, <1>9, <1>10, SMT DEF Inv, GuidInv, Elsewhere

LEMMA LevelStepStep ==
    ASSUME Inv, NEW l \in 1..2, EndLevel(l) \/ LevelThrows(l) PROVE Inv'
<1>1. /\ spc \in {"level1", "level2"} /\ spc' \in {"level2", "sinks", "aborted"}
      /\ k' \in {1, k} /\ UNCHANGED items /\ UNCHANGED Elsewhere
  <2>1. CASE EndLevel(l)
    BY <2>1, Steps, SMT DEF EndLevel, Goto, Elsewhere
  <2>2. CASE LevelThrows(l)
    BY <2>2, Steps, SMT DEF LevelThrows, Goto, Elsewhere
  <2> QED
    BY <2>1, <2>2
<1> QED
  BY <1>1, SMT DEF Inv, TypeOK, GuidInv, Elsewhere, topicVars, Reading, Applying

LEMMA ChooseGuidStep == Inv /\ ChooseGuid => Inv'
<1> SUFFICES ASSUME Inv, ChooseGuid PROVE Inv'
  OBVIOUS
<1>1. /\ spc = "guid" /\ spc' = "tokens"
      /\ UNCHANGED <<cfg, k, log, key, topicVars, main, items>>
      /\ m_guid' \in Guids \ {"null"}
  BY SMT DEF ChooseGuid, Goto, Inv, TypeOK, Guids
<1> QED
  BY <1>1, SMT DEF Inv, TypeOK, GuidInv, topicVars, Applying

LEMMA DriverClientStep ==
    ASSUME Inv, NEW i \in DOMAIN items, DriverClient(i) PROVE Inv'
<1>1. PICK c \in {"connected", "refused"} : items' = [items EXCEPT ![i] = Client(@, c)]
  BY Zenon DEF DriverClient
<1>2. spc = "drivers" /\ UNCHANGED <<cfg, spc, k, log, key, topicVars, main, m_guid>>
  BY SMT DEF DriverClient
<1>3. items \in Seq(ItemType) /\ items[i] \in ItemType
  BY SMT DEF Inv, TypeOK
<1>4. Client(items[i], c) \in ItemType /\ Client(items[i], c).srvGuid = m_guid
  BY <1>3, ClientHasType, SMT DEF Inv, TypeOK
<1>5. items' = [items EXCEPT ![i] = Client(items[i], c)]
  BY <1>1
<1>6. /\ items' \in Seq(ItemType) /\ DOMAIN items' = DOMAIN items
      /\ items'[i].srvGuid = m_guid
      /\ \A j \in DOMAIN items : j # i => items'[j] = items[j]
  BY <1>3, <1>4, <1>5, SMT
<1> QED
  <2>1. TypeOK'
    BY <1>2, <1>6, SMT DEF Inv, TypeOK, topicVars
  <2>2. GuidInv'
    BY <1>2, <1>6, SMT DEF Inv, GuidInv
  <2> QED
    BY <2>1, <2>2 DEF Inv

(* The inductive invariant holds in every reachable state.                 *)
THEOREM Invariance == Spec => []Inv
<1>1. Init => Inv
  BY InvInit
<1>2. Inv /\ UNCHANGED vars => Inv'
  BY DEF vars, topicVars, Inv, TypeOK, GuidInv
<1>3. Inv /\ [Next]_vars => Inv'
  BY <1>2, PlainStep, ReadLoggingStep, ReadMqttStep, ReadEntryStep, LevelStepStep,
     ChooseGuidStep, DriverClientStep DEF Next
<1> QED
  BY <1>1, <1>3, PTL DEF Spec

(* Whatever the configuration file holds, the settings made from it are    *)
(* type correct.                                                           *)
THEOREM TypeCorrect == Spec => []TypeOK
BY Invariance, PTL DEF Inv

(* Every driver is connected with the server GUID the daemon runs under.   *)
THEOREM OneServerGuid == Spec => []ServerGuidUsed
<1>1. Inv => ServerGuidUsed
  BY SMT DEF Inv, GuidInv, ServerGuidUsed
<1> QED
  BY Invariance, <1>1, PTL

-----------------------------------------------------------------------------
(* What readJSON() accepts.                                                *)

LEMMA LevelFineMeaning ==
    ASSUME NEW l \in 1..2
    PROVE  LevelFine(l) <=>
             (cfg.drivers =>
                /\ cfg.level[l].is # "scalar"
                /\ cfg.level[l].is = "array" =>
                     \A i \in DOMAIN cfg.level[l].entries : Fine(cfg.level[l].entries[i]))
<1>1. CASE cfg.drivers /\ cfg.level[l].is = "array"
  BY <1>1 DEF LevelFine, Entries
<1>2. CASE ~(cfg.drivers /\ cfg.level[l].is = "array")
  <2>1. Entries(l) = <<>> /\ DOMAIN Entries(l) = {}
    BY <1>2, SMT DEF Entries
  <2> QED
    BY <1>2, <2>1, Zenon DEF LevelFine
<1> QED
  BY <1>1, <1>2

LEMMA AcceptableMeaning ==
    Acceptable(cfg) <=>
      /\ cfg.parses /\ \A i \in 1..5 : cfg.required[i] = "text"
      /\ cfg.vscpkey # "wrong" /\ MqttFine /\ LevelFine(1) /\ LevelFine(2)
<1>1. (\A l \in 1..2 : LevelFine(l)) <=> LevelFine(1) /\ LevelFine(2)
  BY SMT
<1>2. (\A l \in 1..2 : LevelFine(l)) <=>
        (cfg.drivers => \A l \in 1..2 :
           /\ cfg.level[l].is # "scalar"
           /\ cfg.level[l].is = "array" =>
                \A i \in DOMAIN cfg.level[l].entries : Fine(cfg.level[l].entries[i]))
  BY LevelFineMeaning, Zenon
<1> QED
  BY <1>1, <1>2, Required, Zenon DEF Acceptable, MqttFine, Fine

(* The step from one section to the next.                                  *)
LEMMA SectionRead ==
    ASSUME TypeOK, NEW l \in 1..2, EndLevel(l), EntriesFine(l, k), k >= 1
    PROVE  LevelFine(l)
<1>1. Entries(l) \in Seq(Entry)
  BY LevelType DEF TypeOK
<1>2. k \in Nat /\ k \notin DOMAIN Entries(l) /\ ~(cfg.drivers /\ cfg.level[l].is = "scalar")
  BY DEF EndLevel, TypeOK
<1>3. \A i \in DOMAIN Entries(l) : i < k
  BY <1>1, <1>2, SMT
<1> QED
  BY <1>2, <1>3 DEF LevelFine, EntriesFine

LEMMA ReadInit == Init => ReadInv
BY SMT DEF Init, ReadInv

(* One step of readJSON() per action; the configuration never changes.     *)
LEMMA ReadStep == TypeOK /\ ReadInv /\ [Next]_vars => ReadInv'
<1> SUFFICES ASSUME TypeOK, ReadInv, [Next]_vars PROVE ReadInv'
  OBVIOUS
<1>0. cfg' = cfg
  BY Zenon DEF Next, vars, ReadFile, ReadRequired, ReadKey, ReadLogging, ReadMqtt,
     ReadEntry, EndLevel, LevelThrows, SetupSinks, BecomeUser, ChooseGuid, LoadTokens,
     InitMqtt, DriverClient
<1>b. \A l : Entries(l)' = Entries(l)
  BY <1>0, Zenon DEF Entries
<1>c. MqttFine' <=> MqttFine
  BY <1>0, SMT DEF MqttFine
<1>d. ASSUME NEW l PROVE LevelFine(l)' <=> LevelFine(l)
  <2>1. Entries(l)' = Entries(l)
    BY <1>b
  <2>2. cfg.drivers' = cfg.drivers /\ cfg.level[l].is' = cfg.level[l].is
    BY <1>0, Zenon
  <2>3. (\A i \in DOMAIN Entries(l) : Fine(Entries(l)[i]))' <=>
          \A i \in DOMAIN Entries(l) : Fine(Entries(l)[i])
    BY <2>1, SMT DEF Fine, Throws, Wanted
  <2> QED
    BY <2>2, <2>3, Zenon DEF LevelFine
<1>a. (MqttFine' <=> MqttFine) /\ \A l : LevelFine(l)' <=> LevelFine(l)
  BY <1>c, <1>d
<1>1. CASE spc' \notin Reading
  BY <1>1, SMT DEF ReadInv, Reading
<1>2. CASE ReadFile
  BY <1>0, <1>2, SMT DEF ReadFile, Goto, ReadInv, Reading
<1>3. CASE ReadRequired
  BY <1>0, <1>3, Required, SMT DEF ReadRequired, ReadInv, Reading, TypeOK
<1>4. CASE ReadKey
  BY <1>0, <1>4, SMT DEF ReadKey, Goto, ReadInv, Reading
<1>5. CASE ReadLogging
  BY <1>0, <1>5, SMT DEF ReadLogging, Goto, ReadInv, Reading
<1>6. CASE ReadMqtt /\ spc' = "level1"
  <2>1. spc = "mqtt" /\ k' = 1
    BY <1>6, SMT DEF ReadMqtt, Goto
  <2>2. MqttFine
    BY <1>6, SMT DEF ReadMqtt, Goto, MqttFine, TopicKeys
  <2>3. EntriesFine(1, k)'
    <3>1. Entries(1) \in Seq(Entry)
      BY LevelType DEF TypeOK
    <3> QED
      BY <1>b, <2>1, <3>1, SMT DEF EntriesFine
  <2> QED
    BY <1>0, <1>a, <1>6, <2>1, <2>2, <2>3, SMT DEF ReadInv, Reading
<1>7. ASSUME NEW l \in 1..2, ReadEntry(l), spc' = LevelStep[l] PROVE ReadInv'
  <2>1. /\ spc = LevelStep[l] /\ k' = k + 1 /\ k \in DOMAIN Entries(l)
        /\ Fine(Entries(l)[k])
    <3>1. LevelStep[l] # "aborted" /\ LevelStep[l] # "failed"
      BY Steps, SMT
    <3>2. ~Throws(Entries(l)[k])
      BY <1>7, <3>1, Zenon DEF ReadEntry, Goto, Wanted, Throws
    <3>3. Wanted(Entries(l)[k]) => Entries(l)[k].mqtt # "bad"
      BY <1>7, <3>1, <3>2, Zenon DEF ReadEntry, Goto
    <3>4. spc = LevelStep[l] /\ k' = k + 1 /\ k \in DOMAIN Entries(l)
      BY <1>7, <3>2, Zenon DEF ReadEntry, Goto
    <3> QED
      BY <3>2, <3>3, <3>4 DEF Fine
  <2>2. spc \in {"level1", "level2"} /\ k \in Nat /\ k >= 1 /\ EntriesFine(l, k)
    BY <2>1, Steps, SMT DEF ReadInv, TypeOK
  <2>3. EntriesFine(l, k)'
    <3>1. Entries(l) \in Seq(Entry)
      BY LevelType DEF TypeOK
    <3>2. \A i \in DOMAIN Entries(l) : i < k + 1 => i < k \/ i = k
      BY <2>2, <3>1, SMT
    <3>3. \A i \in DOMAIN Entries(l) : i < k + 1 => Fine(Entries(l)[i])
      BY <2>1, <2>2, <3>2 DEF EntriesFine
    <3> QED
      BY <1>b, <2>1, <3>3, Zenon DEF EntriesFine, Fine, Throws, Wanted
  <2>4. k' >= 1 /\ spc' = spc
    BY <1>7, <2>1, <2>2, SMT
  <2> QED
    BY <1>0, <1>a, <2>1, <2>2, <2>3, <2>4, Steps, SMT DEF ReadInv, Reading
<1>8. CASE EndLevel(1)
  <2>1. spc = "level1" /\ spc' = "level2" /\ k' = 1
    BY <1>8, Steps, SMT DEF EndLevel, Goto
  <2>2. LevelFine(1)
    BY <1>8, <2>1, SectionRead, SMT DEF ReadInv
  <2>3. EntriesFine(2, k)'
    <3>1. Entries(2) \in Seq(Entry)
      BY LevelType DEF TypeOK
    <3> QED
      BY <1>b, <2>1, <3>1, SMT DEF EntriesFine
  <2> QED
    BY <1>0, <1>a, <2>1, <2>2, <2>3, SMT DEF ReadInv, Reading
<1>9. CASE UNCHANGED vars
  <2>1. UNCHANGED <<cfg, spc, k>>
    BY <1>9 DEF vars
  <2>2. \A l : EntriesFine(l, k)' <=> EntriesFine(l, k)
    BY <1>b, <2>1, Zenon DEF EntriesFine, Fine, Throws, Wanted
  <2> QED
    BY <1>a, <2>1, <2>2, SMT DEF ReadInv
<1>10. CASE SetupSinks \/ BecomeUser \/ ChooseGuid \/ LoadTokens \/ InitMqtt
  <2>1. spc' \notin Reading
    BY <1>10, SMT DEF SetupSinks, BecomeUser, ChooseGuid, LoadTokens, InitMqtt, Goto, Reading
  <2> QED
    BY <1>1, <2>1
<1>11. ASSUME NEW i \in DOMAIN items, DriverClient(i) PROVE ReadInv'
  <2>1. spc' \notin Reading
    BY <1>11, SMT DEF DriverClient, Reading
  <2> QED
    BY <1>1, <2>1
<1>12. ASSUME NEW l \in 1..2, ReadEntry(l) \/ EndLevel(l) \/ LevelThrows(l)
       PROVE ReadInv'
  <2>1. CASE ReadEntry(l)
    <3>1. spc' \in {LevelStep[l], "failed", "aborted"}
      BY <2>1, Zenon DEF ReadEntry, Goto
    <3> QED
      BY <1>1, <1>7, <2>1, <3>1, SMT DEF Reading
  <2>2. CASE EndLevel(l)
    <3>1. l = 2 => spc' = "sinks"
      BY <2>2, Steps, SMT DEF EndLevel, Goto
    <3> QED
      BY <1>1, <1>8, <2>2, <3>1, SMT DEF Reading
  <2>3. CASE LevelThrows(l)
    BY <1>1, <2>3, SMT DEF LevelThrows, Goto, Reading
  <2> QED
    BY <1>12, <2>1, <2>2, <2>3
<1>13. CASE ReadMqtt
  <2>1. spc' \in {"level1", "failed", "aborted"}
    BY <1>13, SMT DEF ReadMqtt, Goto
  <2> QED
    BY <1>1, <1>6, <1>13, <2>1, SMT DEF Reading
<1> QED
  BY <1>2, <1>3, <1>4, <1>5, <1>9, <1>10, <1>11, <1>12, <1>13, Zenon DEF Next

LEMMA ReadInvariance == Spec => []ReadInv
<1>1. TypeOK /\ ReadInv /\ [Next]_vars => ReadInv'
  BY ReadStep
<1> QED
  BY <1>1, ReadInit, TypeCorrect, PTL DEF Spec

Ends == spc \in Reading /\ spc' \notin Reading
VerdictStep ==
    IF spc' = "sinks" THEN Acceptable(cfg) ELSE ~Acceptable(cfg) \/ MissingSection

(* The last section read, everything has been found acceptable.            *)
LEMMA AcceptStep ==
    ASSUME TypeOK, ReadInv, EndLevel(2) PROVE Acceptable(cfg) /\ spc' = "sinks"
<1>1. spc = "level2" /\ spc' = "sinks"
  BY Steps, SMT DEF EndLevel, Goto
<1>2. LevelFine(2)
  <2>1. EntriesFine(2, k) /\ k >= 1
    BY <1>1, SMT DEF ReadInv
  <2>2. 2 \in 1..2
    BY SMT
  <2> QED
    BY <2>1, <2>2, SectionRead
<1>3. /\ cfg.parses /\ \A i \in 1..5 : cfg.required[i] = "text"
      /\ cfg.vscpkey # "wrong" /\ MqttFine /\ LevelFine(1)
  BY <1>1, SMT DEF ReadInv, Reading
<1> QED
  BY <1>1, <1>2, <1>3, AcceptableMeaning

(* A driver entry that ends readJSON() is one it does not accept.          *)
LEMMA RefuseEntry ==
    ASSUME NEW l \in 1..2, ReadEntry(l), spc' # LevelStep[l]
    PROVE  ~Acceptable(cfg) /\ spc' # "sinks"
<1>1. k \in DOMAIN Entries(l) /\ spc' \in {"aborted", "failed"}
  BY Zenon DEF ReadEntry, Goto
<1>2. ~Fine(Entries(l)[k])
  BY Zenon DEF ReadEntry, Goto, Fine
<1>3. ~LevelFine(l)
  BY <1>1, <1>2, Zenon DEF LevelFine
<1>4. ~(LevelFine(1) /\ LevelFine(2))
  BY <1>3, SMT
<1> QED
  BY <1>1, <1>4, AcceptableMeaning, SMT

(* A section that ends readJSON() is a scalar or missing.                  *)
LEMMA RefuseSection ==
    ASSUME NEW l \in 1..2, LevelThrows(l)
    PROVE  (~Acceptable(cfg) \/ MissingSection) /\ spc' # "sinks"
<1>1. spc' # "sinks" /\ cfg.drivers /\ cfg.level[l].is \in {"scalar", "absent"}
  BY SMT DEF LevelThrows, Goto
<1>2. CASE cfg.level[l].is = "absent"
  BY <1>1, <1>2, Zenon DEF MissingSection
<1>3. CASE cfg.level[l].is = "scalar"
  <2>1. ~LevelFine(l)
    BY <1>1, <1>3, Zenon DEF LevelFine
  <2>2. ~(LevelFine(1) /\ LevelFine(2))
    BY <2>1, SMT
  <2> QED
    BY <1>1, <2>2, AcceptableMeaning, Zenon
<1> QED
  BY <1>1, <1>2, <1>3, Zenon

(* The keys before the drivers.                                            *)
LEMMA RefuseKeys ==
    ASSUME TypeOK, ReadInv, Ends,
           ReadFile \/ ReadRequired \/ ReadKey \/ ReadLogging \/ ReadMqtt
    PROVE  ~Acceptable(cfg) /\ spc' # "sinks"
<1>1. CASE ReadFile
  <2>1. ~cfg.parses /\ spc' = "failed"
    BY <1>1, SMT DEF ReadFile, Goto, Ends, Reading
  <2> QED
    BY <2>1, AcceptableMeaning, SMT
<1>2. CASE ReadRequired
  <2>1. k \in 1..5 /\ cfg.required[k] # "text" /\ spc' = "failed"
    BY <1>2, Required, SMT DEF ReadRequired, Ends, Reading, ReadInv
  <2> QED
    BY <2>1, AcceptableMeaning, SMT
<1>3. CASE ReadKey
  <2>1. cfg.vscpkey = "wrong" /\ spc' = "failed"
    BY <1>3, SMT DEF ReadKey, Goto, Ends, Reading
  <2> QED
    BY <2>1, AcceptableMeaning, SMT
<1>4. CASE ReadLogging
  BY <1>4, SMT DEF ReadLogging, Goto, Ends, Reading
<1>5. CASE ReadMqtt
  <2>1. spc' \in {"failed", "aborted"}
    BY <1>5, SMT DEF ReadMqtt, Goto, Ends, Reading
  <2>2. \/ cfg.mqtt.block = "bad"
        \/ cfg.mqtt.block = "good" /\ \E t \in TopicKeys : t.is = "wrong"
    BY <1>5, <2>1, SMT DEF ReadMqtt, Goto
  <2>3. ~MqttFine
    BY <2>2, SMT DEF MqttFine, TopicKeys
  <2> QED
    BY <2>1, <2>3, AcceptableMeaning, SMT
<1> QED
  BY <1>1, <1>2, <1>3, <1>4, <1>5

LEMMA VerdictOfStep == TypeOK /\ ReadInv /\ Next /\ Ends => VerdictStep
<1> SUFFICES ASSUME TypeOK, ReadInv, Next, Ends PROVE VerdictStep
  OBVIOUS
<1>1. CASE ReadFile \/ ReadRequired \/ ReadKey \/ ReadLogging \/ ReadMqtt
  BY <1>1, RefuseKeys, Zenon DEF VerdictStep
<1>2. ASSUME NEW l \in 1..2, ReadEntry(l) PROVE VerdictStep
  <2>1. spc' # LevelStep[l]
    BY Steps, SMT DEF Ends, Reading
  <2> QED
    BY <1>2, <2>1, RefuseEntry, Zenon DEF VerdictStep
<1>3. ASSUME NEW l \in 1..2, EndLevel(l) PROVE VerdictStep
  <2>1. l = 2
    BY <1>3, Steps, SMT DEF EndLevel, Goto, Ends, Reading
  <2> QED
    BY <1>3, <2>1, AcceptStep, Zenon DEF VerdictStep
<1>4. ASSUME NEW l \in 1..2, LevelThrows(l) PROVE VerdictStep
  BY <1>4, RefuseSection, Zenon DEF VerdictStep
<1>5. CASE SetupSinks \/ BecomeUser \/ ChooseGuid \/ LoadTokens \/ InitMqtt
  BY <1>5, SMT DEF SetupSinks, BecomeUser, ChooseGuid, LoadTokens, InitMqtt, Goto,
     Ends, Reading
<1>6. ASSUME NEW i \in DOMAIN items, DriverClient(i) PROVE VerdictStep
  BY <1>6, SMT DEF DriverClient, Ends, Reading
<1> QED
  BY <1>1, <1>2, <1>3, <1>4, <1>5, <1>6, Zenon DEF Next

(* For every configuration file, readJSON() goes on to the rest of init()  *)
(* exactly when everything it insists on is there.                         *)
THEOREM VerdictTheorem == Spec => Verdict
<1>1. TypeOK /\ ReadInv /\ [Next]_vars =>
        [spc' \notin Reading /\ spc \in Reading =>
           IF spc' = "sinks" THEN Acceptable(cfg)
           ELSE ~Acceptable(cfg) \/ MissingSection]_vars
  BY VerdictOfStep, Zenon DEF Ends, VerdictStep
<1> QED
  BY <1>1, ReadInvariance, TypeCorrect, PTL DEF Spec, Verdict

-----------------------------------------------------------------------------
(* The topics of the drivers and of node discovery.                        *)

NamedAs(topic, t, default) ==
    /\ cfg.mqtt.block = "absent" => topic = m_topicDaemonBase \o default
    /\ cfg.mqtt.block = "good" /\ t.is = "text" =>
         topic = TextOr(cfg.mqtt.base, <<"daemon-base">>) \o t.text

(* The defaults until the mqtt object is read, the configured names after. *)
TopicInv ==
    /\ spc \in {"file", "required", "key", "logging", "mqtt"} =>
         /\ m_topicDaemonBase = <<"daemon-base">>
         /\ m_topicDrivers = <<"daemon-base", "drivers">>
         /\ m_topicDiscovery = <<"daemon-base", "discovery">>
    /\ spc \in {"level1", "level2"} \cup Applying =>
         /\ NamedAs(m_topicDrivers, cfg.mqtt.drivers, <<"drivers">>)
         /\ NamedAs(m_topicDiscovery, cfg.mqtt.discovery, <<"discovery">>)

(* What every step but the reading of the mqtt object does.                *)
LEMMA OtherSteps ==
    ASSUME Inv, [Next]_vars
    PROVE  /\ cfg' = cfg
           /\ \/ ReadMqtt
              \/ /\ UNCHANGED topicVars
                 /\ spc' \in {"file", "required", "key", "logging", "mqtt"} =>
                      spc \in {"file", "required", "key", "logging", "mqtt"}
                 /\ spc' \in {"level1", "level2"} \cup Applying =>
                      spc \in {"level1", "level2"} \cup Applying
<1> USE DEF Goto, Applying
<1>1. CASE ReadFile \/ ReadKey \/ ReadLogging
  BY <1>1, SMT DEF ReadFile, ReadKey, ReadLogging
<1>2. CASE ReadRequired
  BY <1>2, SMT DEF ReadRequired
<1>3. CASE ReadMqtt
  BY <1>3, Zenon DEF ReadMqtt
<1>4. ASSUME NEW l \in 1..2, ReadEntry(l) \/ EndLevel(l) \/ LevelThrows(l)
      PROVE  /\ UNCHANGED <<cfg, topicVars>> /\ spc \in {"level1", "level2"}
             /\ spc' \in {"level1", "level2", "sinks", "failed", "aborted"}
  <2>1. UNCHANGED <<cfg, topicVars>> /\ spc = LevelStep[l]
    BY <1>4, Zenon DEF ReadEntry, EndLevel, LevelThrows
  <2>2. spc' \in {LevelStep[l], LevelStep[l + 1], "failed", "aborted"}
    BY <1>4, Zenon DEF ReadEntry, EndLevel, LevelThrows
  <2>3. LevelStep[l] \in {"level1", "level2"} /\ LevelStep[l + 1] \in {"level2", "sinks"}
    BY Steps, SMT
  <2> QED
    BY <2>1, <2>2, <2>3, SMT
<1>5. CASE SetupSinks \/ BecomeUser \/ ChooseGuid \/ LoadTokens \/ InitMqtt
  BY <1>5, SMT DEF SetupSinks, BecomeUser, ChooseGuid, LoadTokens, InitMqtt
<1>6. ASSUME NEW i \in DOMAIN items, DriverClient(i)
      PROVE UNCHANGED <<cfg, topicVars, spc>>
  BY <1>6 DEF DriverClient
<1>7. CASE UNCHANGED vars
  BY <1>7 DEF vars
<1> QED
  BY <1>1, <1>2, <1>3, <1>4, <1>5, <1>6, <1>7, SMT DEF Next

LEMMA TopicStep == Inv /\ TopicInv /\ [Next]_vars => TopicInv'
<1> SUFFICES ASSUME Inv, TopicInv, [Next]_vars PROVE TopicInv'
  OBVIOUS
<1>1. CASE ReadMqtt
  <2>1. spc' \in {"level1", "failed", "aborted"} /\ cfg' = cfg /\ spc = "mqtt"
    BY <1>1, SMT DEF ReadMqtt, Goto
  <2>2. /\ m_topicDaemonBase = <<"daemon-base">>
        /\ m_topicDrivers = <<"daemon-base", "drivers">>
        /\ m_topicDiscovery = <<"daemon-base", "discovery">>
    BY <2>1, SMT DEF TopicInv
  <2>3. CASE cfg.mqtt.block = "absent"
    <3>1. UNCHANGED topicVars
      BY <1>1, <2>3, SMT DEF ReadMqtt
    <3>2. /\ m_topicDrivers = m_topicDaemonBase \o <<"drivers">>
          /\ m_topicDiscovery = m_topicDaemonBase \o <<"discovery">>
      BY <2>2, SMT
    <3> QED
      BY <2>1, <2>3, <3>1, <3>2, SMT DEF TopicInv, NamedAs, topicVars, Applying
  <2>4. CASE cfg.mqtt.block = "good" /\ spc' = "level1"
    <3>1. /\ m_topicDaemonBase' = TextOr(cfg.mqtt.base, m_topicDaemonBase)
          /\ m_topicDrivers' =
               m_topicDaemonBase' \o TextOr(cfg.mqtt.drivers, m_topicDrivers)
          /\ m_topicDiscovery' =
               m_topicDaemonBase' \o TextOr(cfg.mqtt.discovery, m_topicDiscovery)
      BY <1>1, <2>4, SMT DEF ReadMqtt, Goto
    <3>2. /\ cfg.mqtt.drivers.is = "text" =>
               m_topicDrivers' = m_topicDaemonBase' \o cfg.mqtt.drivers.text
          /\ cfg.mqtt.discovery.is = "text" =>
               m_topicDiscovery' = m_topicDaemonBase' \o cfg.mqtt.discovery.text
      BY <3>1, Zenon DEF TextOr
    <3>3. m_topicDaemonBase' = TextOr(cfg.mqtt.base, <<"daemon-base">>)
      BY <2>2, <3>1
    <3>4. /\ NamedAs(m_topicDrivers, cfg.mqtt.drivers, <<"drivers">>)'
          /\ NamedAs(m_topicDiscovery, cfg.mqtt.discovery, <<"discovery">>)'
      BY <2>1, <2>4, <3>2, <3>3, Zenon DEF NamedAs, TextOr
    <3> QED
      BY <2>4, <3>4, SMT DEF TopicInv
  <2>5. CASE spc' # "level1"
    BY <2>1, <2>5, SMT DEF TopicInv, Applying
  <2>6. cfg.mqtt.block = "absent" \/ cfg.mqtt.block = "good" \/ spc' # "level1"
    BY <1>1, SMT DEF ReadMqtt, Goto
  <2> QED
    BY <2>3, <2>4, <2>5, <2>6
<1>2. CASE ~ReadMqtt
  <2>1. cfg' = cfg /\ UNCHANGED topicVars
    BY <1>2, OtherSteps
  <2>2. /\ NamedAs(m_topicDrivers, cfg.mqtt.drivers, <<"drivers">>)' <=>
             NamedAs(m_topicDrivers, cfg.mqtt.drivers, <<"drivers">>)
        /\ NamedAs(m_topicDiscovery, cfg.mqtt.discovery, <<"discovery">>)' <=>
             NamedAs(m_topicDiscovery, cfg.mqtt.discovery, <<"discovery">>)
    BY <2>1, Zenon DEF NamedAs, TextOr, topicVars
  <2> QED
    BY <1>2, <2>1, <2>2, OtherSteps, SMT DEF TopicInv, topicVars
<1> QED
  BY <1>1, <1>2

(* For every configuration file, the topics of the drivers and of node     *)
(* discovery are the base in force followed by the configured name.        *)
THEOREM Topics == Spec => []TopicsAsConfigured
<1>1. Init => TopicInv
  BY SMT DEF Init, TopicInv, Applying
<1>2. Inv /\ TopicInv /\ [Next]_vars => TopicInv'
  BY TopicStep
<1>3. TopicInv => TopicsAsConfigured
  BY Zenon DEF TopicInv, TopicsAsConfigured, NamedAs
<1> QED
  BY <1>1, <1>2, <1>3, Invariance, PTL DEF Spec

-----------------------------------------------------------------------------
(* The device list.                                                        *)

Listed(id) == \E i \in DOMAIN items : items[i].id = id
Reached(pos) == \A id \in WantedIds : Listed(id) <=> Before(id, pos)

(* The list is in order and leaves no wanted entry out.                    *)
ListParts ==
    /\ \A i \in DOMAIN items : items[i].id \in WantedIds
    /\ \A i, j \in DOMAIN items : i < j => Before(items[i].id, items[j].id)
    /\ \A i \in DOMAIN items, id \in WantedIds :
         Before(id, items[i].id) => Listed(id)

(* It holds what is wanted of the entries read so far.                     *)
ListInv ==
    /\ ListParts
    /\ spc \in Reading \ {"level1", "level2"} => items = <<>>
    /\ spc = "level1" => Reached(<<1, k>>)
    /\ spc = "level2" => Reached(<<2, k>>)
    /\ spc \in Applying => \A id \in WantedIds : Listed(id)

(* The items carry the names of their entries; of every name there is a    *)
(* first item, which is the one getDeviceItemFromName() returns.           *)
IsFirst(list, f, name) ==
    /\ f \in DOMAIN list /\ list[f].name = name
    /\ \A j \in DOMAIN list : list[j].name = name => f <= j
HasFirst(list) ==
    \A i \in DOMAIN list : \E f \in DOMAIN list : IsFirst(list, f, list[i].name)
NameInv ==
    /\ \A i \in DOMAIN items : items[i].name = EntryOf(items[i].id).name
    /\ HasFirst(items)

(* What is kept of the items when only blocks and clients are set.         *)
SameItems(s, t) ==
    /\ DOMAIN t = DOMAIN s
    /\ \A i \in DOMAIN s : t[i].id = s[i].id /\ t[i].name = s[i].name

LEMMA WantedMeaning ==
    ASSUME NEW l \in 1..2, NEW n
    PROVE  <<l, n>> \in WantedIds <=> n \in DOMAIN Entries(l) /\ Wanted(Entries(l)[n])
<1>1. EntryOf(<<l, n>>) = Entries(l)[n]
  BY SMT DEF EntryOf
<1>2. <<l, n>> \in UNION {{m} \X DOMAIN Entries(m) : m \in 1..2} <=>
        n \in DOMAIN Entries(l)
  BY SMT
<1> QED
  BY <1>1, <1>2, Zenon DEF WantedIds

LEMMA WantedShape ==
    ASSUME TypeOK, NEW id \in WantedIds
    PROVE  \E l \in 1..2, n \in Nat : /\ id = <<l, n>> /\ n >= 1
                                      /\ n \in DOMAIN Entries(l)
<1>1. PICK l \in 1..2 : id \in {l} \X DOMAIN Entries(l)
  BY SMT DEF WantedIds
<1>2. id = <<l, id[2]>> /\ id[2] \in DOMAIN Entries(l)
  BY <1>1, SMT
<1>3. Entries(l) \in Seq(Entry)
  BY LevelType DEF TypeOK
<1>4. id[2] \in Nat /\ id[2] >= 1
  BY <1>2, <1>3, SMT
<1> QED
  BY <1>2, <1>4

(* Moving the reading position past an entry, and past a section.          *)
LEMMA NextPosition ==
    ASSUME TypeOK, NEW l \in 1..2, NEW n \in Nat, NEW id \in WantedIds
    PROVE  Before(id, <<l, n + 1>>) <=> Before(id, <<l, n>>) \/ id = <<l, n>>
<1>1. PICK m \in 1..2, i \in Nat : id = <<m, i>>
  BY WantedShape
<1> QED
  BY <1>1, SMT DEF Before

LEMMA NextSection ==
    ASSUME TypeOK, k \in Nat, k >= 1, NEW l \in 1..2, k \notin DOMAIN Entries(l),
           NEW id \in WantedIds
    PROVE  /\ l = 1 => (Before(id, <<1, k>>) <=> Before(id, <<2, 1>>))
           /\ l = 2 => Before(id, <<2, k>>)
<1>1. PICK m \in 1..2, i \in Nat :
        id = <<m, i>> /\ i >= 1 /\ i \in DOMAIN Entries(m)
  BY WantedShape
<1>2. Entries(l) \in Seq(Entry)
  BY LevelType DEF TypeOK
<1>3. m = l => i < k
  BY <1>1, <1>2, SMT
<1> QED
  BY <1>1, <1>3, SMT DEF Before

LEMMA SameList ==
    ASSUME cfg' = cfg, SameItems(items, items')
    PROVE  /\ WantedIds' = WantedIds /\ \A id : EntryOf(id)' = EntryOf(id)
           /\ \A id : Listed(id)' <=> Listed(id)
           /\ \A pos : Reached(pos) =>
                \A id \in WantedIds' : Listed(id)' <=> Before(id, pos)
           /\ ListParts => ListParts'
           /\ NameInv => NameInv'
<1>1. \A l : Entries(l)' = Entries(l)
  BY Zenon DEF Entries
<1>2. WantedIds' = WantedIds /\ \A id : EntryOf(id)' = EntryOf(id)
  BY <1>1, Zenon DEF WantedIds, EntryOf, Wanted
<1>3. /\ DOMAIN items' = DOMAIN items
      /\ \A i \in DOMAIN items : items'[i].id = items[i].id /\ items'[i].name = items[i].name
  BY DEF SameItems
<1>4. \A id : Listed(id)' <=> Listed(id)
  BY <1>3, Zenon DEF Listed
<1>5. ListParts => ListParts'
  <2> SUFFICES ASSUME ListParts PROVE ListParts'
    OBVIOUS
  <2>1. \A i \in DOMAIN items' : items'[i].id \in WantedIds'
    BY <1>2, <1>3 DEF ListParts
  <2>2. \A i, j \in DOMAIN items' : i < j => Before(items'[i].id, items'[j].id)
    BY <1>3 DEF ListParts
  <2>3. \A i \in DOMAIN items', id \in WantedIds' :
          Before(id, items'[i].id) => Listed(id)'
    BY <1>2, <1>3, <1>4 DEF ListParts
  <2> QED
    BY <2>1, <2>2, <2>3, Zenon DEF ListParts, Before
<1>6. HasFirst(items) => HasFirst(items')
  <2>1. \A f, name : IsFirst(items, f, name) => IsFirst(items', f, name)
    BY <1>3, Zenon DEF IsFirst
  <2> QED
    BY <1>3, <2>1, Zenon DEF HasFirst
<1>7. NameInv => NameInv'
  BY <1>2, <1>3, <1>6, Zenon DEF NameInv
<1> QED
  BY <1>2, <1>4, <1>5, <1>7, Zenon DEF Reached

LEMMA FilledSame ==
    ASSUME NEW s \in Seq(ItemType), NEW j, NEW b \in EntryId
    PROVE  /\ SameItems(s, Filled(s, j, b))
           /\ \A i \in DOMAIN s : Filled(s, j, b)[i].m_mqttConfig =
                IF i = j THEN b ELSE s[i].m_mqttConfig
<1>1. DOMAIN Filled(s, j, b) = DOMAIN s
  BY BlockKeeps
<1>2. ASSUME NEW i \in DOMAIN s
      PROVE  /\ Filled(s, j, b)[i].id = s[i].id /\ Filled(s, j, b)[i].name = s[i].name
             /\ Filled(s, j, b)[i].m_mqttConfig =
                  IF i = j THEN b ELSE s[i].m_mqttConfig
  <2>1. s[i] \in ItemType
    BY SMT
  <2>2. Filled(s, j, b)[i] = IF i = j THEN [s[i] EXCEPT !.m_mqttConfig = b] ELSE s[i]
    BY SMT DEF Filled
  <2> QED
    BY <2>1, <2>2, SMT DEF ItemType
<1> QED
  BY <1>1, <1>2, Zenon DEF SameItems

LEMMA SameTwice ==
    ASSUME NEW s, NEW t, NEW u, SameItems(s, t), SameItems(t, u) PROVE SameItems(s, u)
BY Zenon DEF SameItems

(* The item of the entry read is the last one, and no other is changed.    *)
Extended(s, t, id, name) ==
    /\ DOMAIN s = 1..Len(s) /\ Len(s) \in Nat /\ DOMAIN t = 1..(Len(s) + 1)
    /\ \A i \in DOMAIN s : t[i].id = s[i].id /\ t[i].name = s[i].name
    /\ t[Len(s) + 1].id = id /\ t[Len(s) + 1].name = name

LEMMA AppendExtends ==
    ASSUME NEW s \in Seq(ItemType), NEW x \in ItemType, NEW t,
           SameItems(Append(s, x), t)
    PROVE  Extended(s, t, x.id, x.name)
<1>1. /\ DOMAIN s = 1..Len(s) /\ Len(s) \in Nat
      /\ DOMAIN Append(s, x) = 1..(Len(s) + 1)
      /\ \A i \in DOMAIN s : Append(s, x)[i] = s[i]
      /\ Append(s, x)[Len(s) + 1] = x
  BY SMT
<1>2. Len(s) + 1 \in DOMAIN Append(s, x) /\ DOMAIN s \subseteq DOMAIN Append(s, x)
  BY <1>1, SMT
<1>3. \A i \in DOMAIN s : t[i].id = s[i].id /\ t[i].name = s[i].name
  BY <1>1, <1>2, Zenon DEF SameItems
<1>4. t[Len(s) + 1].id = x.id /\ t[Len(s) + 1].name = x.name
  BY <1>1, <1>2, Zenon DEF SameItems
<1> QED
  BY <1>1, <1>3, <1>4, Zenon DEF Extended, SameItems

(* An entry for a driver, read into the list.                              *)
LEMMA ListExtended ==
    ASSUME TypeOK, ListParts, NEW l \in 1..2, k \in DOMAIN Entries(l),
           Wanted(Entries(l)[k]), Reached(<<l, k>>), cfg' = cfg, NEW name,
           Extended(items, items', <<l, k>>, name)
    PROVE  /\ ListParts' /\ WantedIds' = WantedIds
           /\ \A id \in WantedIds : Listed(id)' <=> Before(id, <<l, k + 1>>)
<1> DEFINE new == <<l, k>>
           n == Len(items) + 1
<1>1. WantedIds' = WantedIds
  BY Zenon DEF WantedIds, Entries, EntryOf, Wanted
<1>2. k \in Nat /\ new \in WantedIds
  BY WantedMeaning DEF TypeOK
<1>3. /\ n \in DOMAIN items' /\ items'[n].id = new
      /\ \A i \in DOMAIN items' : i # n => i \in DOMAIN items /\ i < n
      /\ \A i \in DOMAIN items : i \in DOMAIN items' /\ i < n /\ items'[i].id = items[i].id
  BY SMT DEF Extended
<1> HIDE DEF n
<1>4. \A id : Listed(id)' <=> Listed(id) \/ id = new
  BY <1>3, Zenon DEF Listed
<1>5. \A id \in WantedIds : Listed(id) <=> Before(id, new)
  BY Zenon DEF Reached
<1>6. \A id \in WantedIds : Listed(id)' <=> Before(id, <<l, k + 1>>)
  BY <1>2, <1>4, <1>5, NextPosition
<1>7. \A i \in DOMAIN items' : items'[i].id \in WantedIds
  BY <1>2, <1>3, Zenon DEF ListParts
<1>8. \A i \in DOMAIN items : Before(items[i].id, new)
  BY <1>5, Zenon DEF ListParts, Listed
<1>9. \A i, j \in DOMAIN items' : i < j => Before(items'[i].id, items'[j].id)
  <2> SUFFICES ASSUME NEW i \in DOMAIN items', NEW j \in DOMAIN items', i < j
               PROVE Before(items'[i].id, items'[j].id)
    OBVIOUS
  <2>1. i \in DOMAIN items /\ items'[i].id = items[i].id
    <3>1. i # n
      <4>1. n \in Nat /\ i \in Nat /\ j \in Nat /\ j <= n
        BY SMT DEF Extended, n
      <4> QED
        BY <4>1, SMT
    <3> QED
      BY <1>3, <3>1, Zenon
  <2>2. CASE j = n
    BY <1>3, <1>8, <2>1, <2>2, Zenon
  <2>3. CASE j # n
    <3>1. j \in DOMAIN items /\ items'[j].id = items[j].id
      BY <1>3, <2>3, Zenon
    <3>2. Before(items[i].id, items[j].id)
      BY <2>1, <3>1, Zenon DEF ListParts
    <3> QED
      BY <2>1, <3>1, <3>2, Zenon
  <2> QED
    BY <2>2, <2>3
<1>10. \A i \in DOMAIN items', id \in WantedIds : Before(id, items'[i].id) => Listed(id)'
  <2> SUFFICES ASSUME NEW i \in DOMAIN items', NEW id \in WantedIds,
                      Before(id, items'[i].id)
               PROVE Listed(id)'
    OBVIOUS
  <2>1. CASE i = n
    BY <1>3, <1>4, <1>5, <2>1, Zenon
  <2>2. CASE i # n
    <3>1. i \in DOMAIN items /\ items'[i].id = items[i].id
      BY <1>3, <2>2, Zenon
    <3>2. Before(id, items[i].id)
      BY <3>1, Zenon
    <3> QED
      BY <1>4, <3>1, <3>2, Zenon DEF ListParts
  <2> QED
    BY <2>1, <2>2
<1>11. ListParts'
  BY <1>1, <1>7, <1>9, <1>10, Zenon DEF ListParts
<1> QED
  BY <1>1, <1>6, <1>11, Zenon

LEMMA NamesExtended ==
    ASSUME NameInv, cfg' = cfg, NEW id,
           Extended(items, items', id, EntryOf(id).name)
    PROVE  NameInv'
<1> DEFINE n == Len(items) + 1
           name == EntryOf(id).name
<1>1. /\ n \in DOMAIN items' /\ items'[n].id = id /\ items'[n].name = name
      /\ \A i \in DOMAIN items' : i # n => i \in DOMAIN items
      /\ \A i \in DOMAIN items : /\ i \in DOMAIN items' /\ i <= n
                                 /\ items'[i].id = items[i].id
                                 /\ items'[i].name = items[i].name
      /\ n <= n
  BY SMT DEF Extended
<1> HIDE DEF n
<1>2. \A i : EntryOf(i)' = EntryOf(i)
  BY Zenon DEF EntryOf, Entries
<1>3. \A i \in DOMAIN items' : items'[i].name = EntryOf(items'[i].id).name
  BY <1>1, Zenon DEF NameInv
<1> HIDE DEF name
<1>4. \A f, m : IsFirst(items, f, m) => IsFirst(items', f, m)
  BY <1>1, Zenon DEF IsFirst
<1>5. \A i \in DOMAIN items : \E f \in DOMAIN items' : IsFirst(items', f, items[i].name)
  BY <1>1, <1>4, Zenon DEF NameInv, HasFirst
<1>6. \E f \in DOMAIN items' : IsFirst(items', f, name)
  <2>1. CASE \E i \in DOMAIN items : items[i].name = name
    BY <1>5, <2>1, Zenon
  <2>2. CASE ~\E i \in DOMAIN items : items[i].name = name
    <3>1. IsFirst(items', n, name)
      BY <1>1, <2>2, Zenon DEF IsFirst
    <3> QED
      BY <1>1, <3>1
  <2> QED
    BY <2>1, <2>2
<1>7. HasFirst(items')
  BY <1>1, <1>5, <1>6, Zenon DEF HasFirst
<1> QED
  BY <1>2, <1>3, <1>7, Zenon DEF NameInv

(* The item a look-up by name returns, where the name is in the list.      *)
LEMMA FirstOfName ==
    ASSUME NEW list \in Seq(ItemType), NEW name, NEW f, IsFirst(list, f, name)
    PROVE  getDeviceItemFromName(list, name) = f
<1> DEFINE I == {i \in 1..Len(list) : list[i].name = name}
<1>1. DOMAIN list = 1..Len(list) /\ Len(list) \in Nat
  BY SMT
<1>2. f \in I /\ \A y \in I : f =< y
  BY <1>1, Zenon DEF IsFirst
<1>3. getDeviceItemFromName(list, name) = CHOOSE x \in I : \A y \in I : x =< y
  BY <1>2, Zenon DEF getDeviceItemFromName, SelectInSeq, Min
<1>4. I \subseteq Nat
  BY <1>1, SMT
<1> HIDE DEF I
<1>5. \A x, y \in I : x =< y /\ y =< x => x = y
  BY <1>4, SMT
<1> QED
  BY <1>2, <1>3, <1>5, Zenon

(* An entry read either leaves the list alone or extends it.               *)
LEMMA EntryRead ==
    ASSUME Inv, NEW l \in 1..2, ReadEntry(l)
    PROVE  /\ k \in DOMAIN Entries(l) /\ k \in Nat /\ cfg' = cfg /\ spc = LevelStep[l]
           /\ spc' \in {LevelStep[l], "failed", "aborted"}
           /\ spc' = LevelStep[l] => k' = k + 1
           /\ \/ items' = items /\ (spc' = LevelStep[l] => ~Wanted(Entries(l)[k]))
              \/ /\ Wanted(Entries(l)[k])
                 /\ Extended(items, items', <<l, k>>, Entries(l)[k].name)
<1> DEFINE e == Entries(l)[k]
           added == Append(items, Item(<<l, k>>, e))
           named == getDeviceItemFromName(added, e.name)
           filled == Filled(added, named, <<l, k>>)
<1>1. k \in DOMAIN Entries(l) /\ k \in Nat /\ e \in Entry
  <2>1. Entries(l) \in Seq(Entry) /\ k \in DOMAIN Entries(l)
    BY LevelType, SMT DEF ReadEntry, Inv, TypeOK
  <2> QED
    BY <2>1, SMT
<1>2. /\ items \in Seq(ItemType) /\ <<l, k>> \in EntryId
      /\ Item(<<l, k>>, e) \in ItemType
  BY <1>1, ItemHasType, SMT DEF Inv, TypeOK, EntryId
<1>3. Item(<<l, k>>, e).id = <<l, k>> /\ Item(<<l, k>>, e).name = e.name
  BY DEF Item
<1>4. added \in Seq(ItemType)
  BY <1>2, AppendKeeps
<1> HIDE DEF added
<1>5. SameItems(added, added) /\ SameItems(added, filled)
  <2>1. SameItems(added, added)
    BY Zenon DEF SameItems
  <2>2. SameItems(added, filled)
    BY <1>2, <1>4, FilledSame
  <2> QED
    BY <2>1, <2>2
<1>6. ASSUME items' = added \/ items' = filled
      PROVE  Extended(items, items', <<l, k>>, e.name)
  <2>1. SameItems(added, items')
    BY <1>5, <1>6, Zenon
  <2> QED
    BY <1>2, <1>3, <2>1, AppendExtends, Zenon DEF added
<1>7. cfg' = cfg /\ spc = LevelStep[l] /\ spc' \in {LevelStep[l], "failed", "aborted"}
  BY Zenon DEF ReadEntry, Goto
<1>8. LevelStep[l] # "aborted"
  BY Steps, SMT
<1>9. CASE ~Wanted(e)
  <2>1. items' = items /\ (spc' = LevelStep[l] => k' = k + 1)
    BY <1>8, <1>9, Zenon DEF ReadEntry, Goto
  <2> QED
    BY <1>1, <1>7, <1>9, <2>1, Zenon
<1>10. CASE Wanted(e) /\ Throws(e)
  BY <1>10, SMT DEF Wanted, Throws
<1>11. CASE Wanted(e) /\ ~Throws(e)
  <2>1. k' = k + 1 /\ (items' = added \/ items' = filled)
    BY <1>11, Zenon DEF ReadEntry, Filled, added
  <2> QED
    BY <1>1, <1>6, <1>7, <1>11, <2>1, Zenon
<1> QED
  BY <1>9, <1>10, <1>11, Zenon

LEMMA EntryList ==
    ASSUME Inv, ReadInv, ListInv, NEW l \in 1..2, ReadEntry(l) PROVE ListInv'
<1>1. /\ k \in DOMAIN Entries(l) /\ k \in Nat /\ cfg' = cfg /\ spc = LevelStep[l]
      /\ spc' \in {LevelStep[l], "failed", "aborted"}
      /\ spc' = LevelStep[l] => k' = k + 1
  BY EntryRead
<1>2. TypeOK /\ ListParts /\ Reached(<<l, k>>)
  BY <1>1, Steps, SMT DEF Inv, ListInv
<1>3. /\ ListParts' /\ WantedIds' = WantedIds
      /\ spc' = LevelStep[l] =>
           \A id \in WantedIds : Listed(id)' <=> Before(id, <<l, k + 1>>)
  <2>1. CASE items' = items /\ (spc' = LevelStep[l] => ~Wanted(Entries(l)[k]))
    <3>1. SameItems(items, items')
      BY <2>1, Zenon DEF SameItems
    <3>2. ListParts' /\ WantedIds' = WantedIds /\ \A id : Listed(id)' <=> Listed(id)
      BY <1>1, <1>2, <3>1, SameList
    <3>3. spc' = LevelStep[l] => <<l, k>> \notin WantedIds
      BY <2>1, WantedMeaning
    <3>4. ASSUME spc' = LevelStep[l], NEW id \in WantedIds
          PROVE Listed(id)' <=> Before(id, <<l, k + 1>>)
      <4>1. Before(id, <<l, k + 1>>) <=> Before(id, <<l, k>>)
        BY <1>1, <1>2, <3>3, <3>4, NextPosition
      <4> QED
        BY <1>2, <3>2, <4>1, Zenon DEF Reached
    <3> QED
      BY <3>2, <3>4
  <2>2. CASE /\ Wanted(Entries(l)[k])
             /\ Extended(items, items', <<l, k>>, Entries(l)[k].name)
    BY <1>1, <1>2, <2>2, ListExtended
  <2> QED
    BY <2>1, <2>2, EntryRead
<1>4. spc' = LevelStep[l] => Reached(<<l, k>>)'
  BY <1>1, <1>3, Zenon DEF Reached
<1> QED
  BY <1>1, <1>3, <1>4, Steps, SMT DEF ListInv, Reading, Applying

LEMMA EndLevelList ==
    ASSUME Inv, ReadInv, ListInv, NEW l \in 1..2, EndLevel(l) PROVE ListInv'
<1>1. /\ k \notin DOMAIN Entries(l) /\ k' = 1 /\ cfg' = cfg /\ items' = items
      /\ \/ l = 1 /\ spc = "level1" /\ spc' = "level2"
         \/ l = 2 /\ spc = "level2" /\ spc' = "sinks"
  BY Steps, SMT DEF EndLevel, Goto
<1>2. /\ TypeOK /\ k \in Nat /\ k >= 1 /\ ListParts
      /\ l = 1 => Reached(<<1, k>>)
      /\ l = 2 => Reached(<<2, k>>)
  BY <1>1, SMT DEF Inv, TypeOK, ReadInv, ListInv
<1>3. ListParts' /\ WantedIds' = WantedIds /\ \A id : Listed(id)' <=> Listed(id)
  <2>1. SameItems(items, items')
    BY <1>1, Zenon DEF SameItems
  <2> QED
    BY <1>1, <1>2, <2>1, SameList
<1>4. \A id \in WantedIds : /\ l = 1 => (Before(id, <<1, k>>) <=> Before(id, <<2, 1>>))
                            /\ l = 2 => Before(id, <<2, k>>)
  BY <1>1, <1>2, NextSection
<1>5. CASE l = 1
  <2>1. ASSUME NEW id \in WantedIds PROVE Listed(id)' <=> Before(id, <<2, 1>>)
    <3>1. Listed(id) <=> Before(id, <<1, k>>)
      BY <1>2, <1>5, Zenon DEF Reached
    <3>2. Before(id, <<1, k>>) <=> Before(id, <<2, 1>>)
      BY <1>4, <1>5
    <3> QED
      BY <1>3, <3>1, <3>2
  <2>2. Reached(<<2, k>>)'
    BY <1>1, <1>3, <2>1, Zenon DEF Reached
  <2> QED
    BY <1>1, <1>3, <1>5, <2>2, SMT DEF ListInv, Reading, Applying
<1>6. CASE l = 2
  <2>1. \A id \in WantedIds : Listed(id)'
    BY <1>2, <1>3, <1>4, <1>6 DEF Reached
  <2> QED
    BY <1>1, <1>3, <1>6, <2>1, SMT DEF ListInv, Reading, Applying
<1> QED
  BY <1>5, <1>6, SMT

(* The steps outside the drivers object keep the items, or their ids.      *)
LEMMA OtherList ==
    ASSUME Inv, ListInv, cfg' = cfg, SameItems(items, items'),
           \/ spc' \in {"failed", "aborted"}
           \/ items' = items /\ {spc, spc'} \subseteq Reading \ {"level1", "level2"}
           \/ {spc, spc'} \subseteq Applying
           \/ spc' = spc /\ k' = k /\ items' = items
    PROVE  ListInv'
<1>1. ListParts
  BY DEF ListInv
<1>2. ListParts' /\ WantedIds' = WantedIds /\ \A id : Listed(id)' <=> Listed(id)
  BY <1>1, SameList
<1>3. spc' \in {"failed", "aborted"} => ListInv'
  BY <1>2, SMT DEF ListInv, Reading, Applying
<1>4. items' = items /\ {spc, spc'} \subseteq Reading \ {"level1", "level2"} => ListInv'
  BY <1>2, SMT DEF ListInv, Reading, Applying
<1>5. {spc, spc'} \subseteq Applying => ListInv'
  BY <1>2, SMT DEF ListInv, Reading, Applying
<1>6. ASSUME spc' = spc, k' = k, items' = items PROVE ListInv'
  <2>1. (Reached(<<1, k>>)' <=> Reached(<<1, k>>)) /\ (Reached(<<2, k>>)' <=> Reached(<<2, k>>))
    BY <1>2, <1>6, Zenon DEF Reached
  <2> QED
    BY <1>2, <1>6, <2>1, Zenon DEF ListInv
<1> QED
  BY <1>3, <1>4, <1>5, <1>6

LEMMA ClientSame ==
    ASSUME Inv, NEW i \in DOMAIN items, DriverClient(i)
    PROVE  /\ SameItems(items, items') /\ cfg' = cfg /\ spc' = spc /\ spc = "drivers"
           /\ \A j \in DOMAIN items : items'[j].m_mqttConfig = items[j].m_mqttConfig
<1>1. PICK c : items' = [items EXCEPT ![i] = Client(items[i], c)]
  BY Zenon DEF DriverClient
<1>2. items \in Seq(ItemType)
  BY DEF Inv, TypeOK
<1>3. \A x : /\ Client(x, c).id = x.id /\ Client(x, c).name = x.name
             /\ Client(x, c).m_mqttConfig = x.m_mqttConfig
  BY DEF Client
<1>4. /\ DOMAIN items' = DOMAIN items /\ items'[i] = Client(items[i], c)
      /\ \A j \in DOMAIN items : j # i => items'[j] = items[j]
  BY <1>1, <1>2, SMT
<1>5. \A j \in DOMAIN items : /\ items'[j].id = items[j].id
                             /\ items'[j].name = items[j].name
                             /\ items'[j].m_mqttConfig = items[j].m_mqttConfig
  BY <1>3, <1>4, Zenon
<1>6. cfg' = cfg /\ spc' = spc /\ spc = "drivers"
  BY DEF DriverClient
<1> QED
  BY <1>4, <1>5, <1>6, Zenon DEF SameItems

LEMMA MqttList == Inv /\ ListInv /\ ReadMqtt => ListInv'
<1> SUFFICES ASSUME Inv, ListInv, ReadMqtt PROVE ListInv'
  OBVIOUS
<1>1. /\ spc = "mqtt" /\ spc' \in {"level1", "failed", "aborted"} /\ k' = 1
      /\ cfg' = cfg /\ items' = items
  BY SMT DEF ReadMqtt, Goto
<1>2. items = <<>> /\ DOMAIN items = {}
  BY <1>1, SMT DEF ListInv, Reading
<1>3. SameItems(items, items') /\ ListParts
  BY <1>1, Zenon DEF SameItems, ListInv
<1>4. ListParts' /\ WantedIds' = WantedIds /\ \A id : Listed(id)' <=> Listed(id)
  BY <1>1, <1>3, SameList
<1>5. ASSUME NEW id \in WantedIds PROVE ~Listed(id) /\ ~Before(id, <<1, 1>>)
  <2>1. PICK l \in 1..2, n \in Nat : id = <<l, n>> /\ n >= 1
    BY WantedShape DEF Inv
  <2>2. ~Before(id, <<1, 1>>)
    BY <2>1, SMT DEF Before
  <2> QED
    BY <1>2, <2>2, Zenon DEF Listed
<1>6. Reached(<<1, k>>)'
  BY <1>1, <1>4, <1>5, Zenon DEF Reached
<1> QED
  BY <1>1, <1>4, <1>6, SMT DEF ListInv, Reading, Applying

LEMMA ListStep == Inv /\ ReadInv /\ ListInv /\ [Next]_vars => ListInv'
<1> SUFFICES ASSUME Inv, ReadInv, ListInv, [Next]_vars PROVE ListInv'
  OBVIOUS
<1>1. cfg' = cfg
  BY OtherSteps
<1>2. items' = items => SameItems(items, items')
  BY Zenon DEF SameItems
<1>3. CASE ReadFile \/ ReadRequired \/ ReadKey \/ ReadLogging
  <2>1. /\ items' = items /\ spc \in Reading \ {"level1", "level2"}
        /\ spc' \in (Reading \ {"level1", "level2"}) \cup {"failed", "aborted"}
    BY <1>3, SMT DEF ReadFile, ReadRequired, ReadKey, ReadLogging, Goto, Reading
  <2>2. \/ spc' \in {"failed", "aborted"}
        \/ {spc, spc'} \subseteq Reading \ {"level1", "level2"}
    BY <2>1, SMT
  <2> QED
    BY <1>1, <1>2, <2>1, <2>2, OtherList
<1>4. CASE ReadMqtt
  BY <1>4, MqttList
<1>5. ASSUME NEW l \in 1..2, ReadEntry(l) \/ EndLevel(l) \/ LevelThrows(l)
      PROVE  ListInv'
  <2>1. CASE LevelThrows(l)
    <3>1. spc' = "aborted" /\ items' = items
      BY <2>1 DEF LevelThrows, Goto
    <3> QED
      BY <1>1, <1>2, <3>1, OtherList
  <2> QED
    BY <1>5, <2>1, EntryList, EndLevelList
<1>6. CASE SetupSinks \/ BecomeUser \/ ChooseGuid \/ LoadTokens \/ InitMqtt
  <2>1. /\ items' = items /\ spc \in Applying
        /\ spc' \in Applying \cup {"failed", "aborted"}
    BY <1>6, SMT DEF SetupSinks, BecomeUser, ChooseGuid, LoadTokens, InitMqtt, Goto,
       Applying
  <2>2. spc' \in {"failed", "aborted"} \/ {spc, spc'} \subseteq Applying
    BY <2>1, SMT
  <2> QED
    BY <1>1, <1>2, <2>1, <2>2, OtherList
<1>7. ASSUME NEW i \in DOMAIN items, DriverClient(i) PROVE ListInv'
  <2>1. SameItems(items, items') /\ spc' = spc /\ spc = "drivers"
    BY <1>7, ClientSame
  <2>2. {spc, spc'} \subseteq Applying
    BY <2>1, SMT DEF Applying
  <2> QED
    BY <1>1, <2>1, <2>2, OtherList
<1>8. CASE UNCHANGED vars
  <2>1. spc' = spc /\ k' = k /\ items' = items
    BY <1>8 DEF vars
  <2> QED
    BY <1>1, <1>2, <2>1, OtherList
<1> QED
  BY <1>3, <1>4, <1>5, <1>6, <1>7, <1>8, Zenon DEF Next

(* For every configuration file, the device list is the list of the        *)
(* configured, enabled and installed drivers, each once and in order.      *)
THEOREM DeviceList == Spec => []ItemsAsConfigured
<1>1. Init => ListInv
  <2> SUFFICES ASSUME Init PROVE ListInv
    OBVIOUS
  <2>1. items = <<>> /\ DOMAIN items = {} /\ spc = "file"
    BY SMT DEF Init
  <2> QED
    BY <2>1, SMT DEF ListInv, ListParts, Applying
<1>2. Inv /\ ReadInv /\ ListInv /\ [Next]_vars => ListInv'
  BY ListStep
<1>3. ListInv => ItemsAsConfigured
  BY Zenon DEF ListInv, ListParts, Listed, ItemsAsConfigured
<1> QED
  BY <1>1, <1>2, <1>3, Invariance, ReadInvariance, PTL DEF Spec

-----------------------------------------------------------------------------
(* The mqtt blocks.                                                        *)

Alone(list, i) == \A j \in DOMAIN list \ {i} : list[j].name # list[i].name
BlockFor(list, i) ==
    LET block == list[i].m_mqttConfig
    IN  /\ block # NoBlock => EntryOf(block).name = list[i].name
        /\ Alone(list, i) => block = IF EntryOf(list[i].id).mqtt = "absent"
                                     THEN NoBlock ELSE list[i].id

LEMMA AloneMeaning ==
    ASSUME NEW list, NEW i
    PROVE  {j \in DOMAIN list \ {i} : list[j].name = list[i].name} = {} <=> Alone(list, i)
BY SMT DEF Alone

LEMMA OwnBlockMeaning == OwnBlock <=> \A i \in DOMAIN items : BlockFor(items, i)
BY AloneMeaning, Zenon DEF OwnBlock, BlockFor

LEMMA SameBlocks ==
    ASSUME OwnBlock, cfg' = cfg, SameItems(items, items'),
           \A i \in DOMAIN items : items'[i].m_mqttConfig = items[i].m_mqttConfig
    PROVE  OwnBlock'
<1>1. \A id : EntryOf(id)' = EntryOf(id)
  BY Zenon DEF EntryOf, Entries
<1>2. ASSUME NEW i \in DOMAIN items PROVE BlockFor(items, i)'
  <2>1. Alone(items, i)' <=> Alone(items, i)
    BY <1>2, Zenon DEF Alone, SameItems
  <2>2. /\ items'[i].id = items[i].id /\ items'[i].name = items[i].name
        /\ items'[i].m_mqttConfig = items[i].m_mqttConfig
    BY <1>2, Zenon DEF SameItems
  <2>3. BlockFor(items, i)
    BY <1>2, OwnBlockMeaning
  <2> QED
    BY <1>1, <2>1, <2>2, <2>3, Zenon DEF BlockFor
<1>3. DOMAIN items' = DOMAIN items
  BY DEF SameItems
<1>4. OwnBlock' <=> \A i \in DOMAIN items' : BlockFor(items, i)'
  BY AloneMeaning, Zenon DEF OwnBlock, BlockFor
<1> QED
  BY <1>2, <1>3, <1>4, Zenon

(* The item of a new entry, and the block of that entry (f = 0 if it has   *)
(* none) put into the first item of the entry's name.                      *)
ItemAdded(id, f) ==
    /\ Extended(items, items', id, EntryOf(id).name)
    /\ f = 0 <=> EntryOf(id).mqtt = "absent"
    /\ f # 0 => IsFirst(items', f, EntryOf(id).name)
    /\ \A i \in DOMAIN items : items'[i].m_mqttConfig =
         IF i = f THEN id ELSE items[i].m_mqttConfig
    /\ items'[Len(items) + 1].m_mqttConfig =
         IF Len(items) + 1 = f THEN id ELSE NoBlock

(* It is the new item's own unless another has that name.                  *)
LEMMA BlocksExtended ==
    ASSUME OwnBlock, cfg' = cfg, NEW id, NEW f, ItemAdded(id, f)
    PROVE  OwnBlock'
<1> DEFINE n == Len(items) + 1
           name == EntryOf(id).name
<1>1. /\ n \in DOMAIN items' /\ items'[n].id = id /\ items'[n].name = name /\ n # 0
      /\ \A i \in DOMAIN items' : i # n => i \in DOMAIN items
      /\ \A i \in DOMAIN items : /\ i \in DOMAIN items' /\ i # n
                                 /\ items'[i].id = items[i].id
                                 /\ items'[i].name = items[i].name
      /\ items'[n].m_mqttConfig = IF n = f THEN id ELSE NoBlock
  BY SMT DEF ItemAdded, Extended
<1> HIDE DEF n
<1>2. \A i : EntryOf(i)' = EntryOf(i)
  BY Zenon DEF EntryOf, Entries
<1>3. /\ f = 0 <=> EntryOf(id).mqtt = "absent"
      /\ f # 0 => IsFirst(items', f, name)
      /\ \A i \in DOMAIN items : items'[i].m_mqttConfig =
           IF i = f THEN id ELSE items[i].m_mqttConfig
  BY DEF ItemAdded
<1>4. ASSUME NEW i \in DOMAIN items' PROVE BlockFor(items, i)'
  <2>1. CASE i = f
    <3>1. items'[i].name = name /\ items'[i].m_mqttConfig = id /\ f # 0
      <4>1. f # 0
        <5>1. \A j \in DOMAIN items' : j # 0
          BY SMT DEF ItemAdded, Extended
        <5> QED
          BY <1>4, <2>1, <5>1
      <4>2. items'[i].m_mqttConfig = id
        BY <1>1, <1>3, <1>4, <2>1, Zenon
      <4> QED
        BY <1>3, <2>1, <4>1, <4>2, Zenon DEF IsFirst
    <3>2. Alone(items', i) => i = n
      BY <1>1, <3>1, Zenon DEF Alone
    <3>3. EntryOf(id).mqtt # "absent" /\ items'[n].id = id
      BY <1>1, <1>3, <3>1
    <3> QED
      BY <1>2, <3>1, <3>2, <3>3, Zenon DEF BlockFor
  <2>2. CASE i # f /\ i = n
    <3>1. items'[n].m_mqttConfig = NoBlock /\ items'[n].id = id
      BY <1>1, <2>2
    <3>2. Alone(items', n) => EntryOf(id).mqtt = "absent"
      <4>1. f # 0 => f \in DOMAIN items' /\ f # n /\ items'[f].name = items'[n].name
        BY <1>1, <1>3, <2>2, Zenon DEF IsFirst
      <4> QED
        BY <1>3, <4>1, Zenon DEF Alone
    <3> QED
      BY <1>2, <2>2, <3>1, <3>2, Zenon DEF BlockFor
  <2>3. CASE i # f /\ i # n
    <3>1. /\ i \in DOMAIN items /\ items'[i].id = items[i].id
          /\ items'[i].name = items[i].name
          /\ items'[i].m_mqttConfig = items[i].m_mqttConfig
      BY <1>1, <1>3, <1>4, <2>3, Zenon
    <3>2. BlockFor(items, i)
      BY <3>1, OwnBlockMeaning
    <3>3. Alone(items', i) => Alone(items, i)
      BY <1>1, <3>1, Zenon DEF Alone
    <3> QED
      BY <1>2, <3>1, <3>2, <3>3, Zenon DEF BlockFor
  <2> QED
    BY <2>1, <2>2, <2>3
<1>5. OwnBlock' <=> \A i \in DOMAIN items' : BlockFor(items, i)'
  BY AloneMeaning, Zenon DEF OwnBlock, BlockFor
<1> QED
  BY <1>4, <1>5, Zenon

LEMMA EntryBlocks ==
    ASSUME Inv, NameInv, OwnBlock, NEW l \in 1..2, ReadEntry(l)
    PROVE  NameInv' /\ OwnBlock'
<1> DEFINE e == Entries(l)[k]
           id == <<l, k>>
           x == Item(id, e)
           added == Append(items, x)
           named == getDeviceItemFromName(added, e.name)
<1>1. /\ k \in DOMAIN Entries(l) /\ k \in Nat /\ cfg' = cfg
      /\ items' = items \/ Extended(items, items', id, e.name)
  BY EntryRead
<1>2. EntryOf(id) = e
  BY SMT DEF EntryOf
<1>3. CASE items' = items
  <2>1. SameItems(items, items')
    BY <1>3, Zenon DEF SameItems
  <2>2. \A i \in DOMAIN items : items'[i].m_mqttConfig = items[i].m_mqttConfig
    BY <1>3
  <2> QED
    BY <1>1, <2>1, <2>2, SameList, SameBlocks
<1>4. CASE items' # items /\ Extended(items, items', id, e.name)
  <2>1. NameInv'
    BY <1>1, <1>2, <1>4, NamesExtended
  <2>2. e \in Entry
    <3>1. Entries(l) \in Seq(Entry)
      BY LevelType DEF Inv, TypeOK
    <3> QED
      BY <1>1, <3>1, SMT
  <2>3. id \in EntryId /\ id # NoBlock
    BY <1>1, SMT DEF EntryId, NoBlock
  <2>4. items \in Seq(ItemType) /\ x \in ItemType
    BY <1>1, <2>2, ItemHasType DEF Inv, TypeOK
  <2>5. added \in Seq(ItemType)
    BY <2>4, AppendKeeps
  <2>6. /\ DOMAIN items \subseteq DOMAIN added /\ Len(items) + 1 \in DOMAIN added
        /\ \A i \in DOMAIN items : added[i] = items[i]
        /\ added[Len(items) + 1] = x /\ \A i \in DOMAIN items : i # 0
        /\ Len(items) + 1 # 0
    BY <2>4, SMT
  <2>7. x.m_mqttConfig = NoBlock /\ x.name = e.name
    BY DEF Item
  <2> HIDE DEF x, added
  <2>8. items' = IF e.mqtt = "absent" THEN added ELSE Filled(added, named, id)
    BY <1>4, Zenon DEF ReadEntry, Filled, added, x
  <2>9. CASE e.mqtt = "absent"
    <3>1. /\ \A i \in DOMAIN items : items'[i].m_mqttConfig = items[i].m_mqttConfig
          /\ items'[Len(items) + 1].m_mqttConfig = NoBlock
      BY <2>6, <2>7, <2>8, <2>9
    <3>2. /\ \A i \in DOMAIN items : items'[i].m_mqttConfig =
               IF i = 0 THEN id ELSE items[i].m_mqttConfig
          /\ items'[Len(items) + 1].m_mqttConfig =
               IF Len(items) + 1 = 0 THEN id ELSE NoBlock
      BY <2>6, <3>1, Zenon
    <3>3. Extended(items, items', id, EntryOf(id).name) /\ EntryOf(id).mqtt = "absent"
      BY <1>2, <1>4, <2>9
    <3>4. ItemAdded(id, 0)
      BY <3>2, <3>3, Zenon DEF ItemAdded
    <3> HIDE DEF id, e
    <3>5. OwnBlock'
      BY <1>1, <3>4, BlocksExtended
    <3> QED
      BY <2>1, <3>5
  <2>10. CASE e.mqtt # "absent"
    <3>1. items' = Filled(added, named, id)
      BY <2>8, <2>10
    <3>2. SameItems(added, items')
      BY <2>3, <2>5, <3>1, FilledSame
    <3>3. PICK f \in DOMAIN items' : IsFirst(items', f, e.name)
      <4>1. HasFirst(items')
        BY <2>1 DEF NameInv
      <4>2. /\ Len(items) + 1 \in DOMAIN items'
            /\ items'[Len(items) + 1].name = e.name
        BY <2>6, <2>7, <3>2, Zenon DEF SameItems
      <4> QED
        BY <4>1, <4>2, Zenon DEF HasFirst
    <3>4. IsFirst(added, f, e.name)
      BY <3>2, <3>3, Zenon DEF IsFirst, SameItems
    <3>5. named = f
      BY <2>5, <3>4, FirstOfName
    <3>6. f # 0
      <4>1. \A i \in DOMAIN items' : i # 0
        BY <1>4, SMT DEF Extended
      <4> QED
        BY <4>1
    <3>7. \A i \in DOMAIN added : items'[i].m_mqttConfig =
            IF i = f THEN id ELSE added[i].m_mqttConfig
      BY <2>3, <2>5, <3>1, <3>5, FilledSame
    <3>8. /\ \A i \in DOMAIN items : items'[i].m_mqttConfig =
               IF i = f THEN id ELSE items[i].m_mqttConfig
          /\ items'[Len(items) + 1].m_mqttConfig =
               IF Len(items) + 1 = f THEN id ELSE NoBlock
      BY <2>6, <2>7, <3>7, Zenon
    <3>9. /\ Extended(items, items', id, EntryOf(id).name)
          /\ f = 0 <=> EntryOf(id).mqtt = "absent"
          /\ IsFirst(items', f, EntryOf(id).name)
      BY <1>2, <1>4, <2>10, <3>3, <3>6
    <3>10. ItemAdded(id, f)
      BY <3>6, <3>8, <3>9, Zenon DEF ItemAdded
    <3> HIDE DEF id, e
    <3>11. OwnBlock'
      BY <1>1, <3>10, BlocksExtended
    <3> QED
      BY <2>1, <3>11
  <2> QED
    BY <2>9, <2>10
<1> QED
  BY <1>1, <1>3, <1>4

LEMMA BlockStep == Inv /\ NameInv /\ OwnBlock /\ [Next]_vars => NameInv' /\ OwnBlock'
<1> SUFFICES ASSUME Inv, NameInv, OwnBlock, [Next]_vars PROVE NameInv' /\ OwnBlock'
  OBVIOUS
<1>1. cfg' = cfg
  BY OtherSteps
<1>2. CASE items' = items
  <2>1. SameItems(items, items')
    BY <1>2, Zenon DEF SameItems
  <2>2. \A i \in DOMAIN items : items'[i].m_mqttConfig = items[i].m_mqttConfig
    BY <1>2
  <2> QED
    BY <1>1, <2>1, <2>2, SameList, SameBlocks
<1>3. ASSUME NEW l \in 1..2, ReadEntry(l) PROVE NameInv' /\ OwnBlock'
  BY <1>3, EntryBlocks
<1>4. ASSUME NEW i \in DOMAIN items, DriverClient(i) PROVE NameInv' /\ OwnBlock'
  BY <1>1, <1>4, ClientSame, SameList, SameBlocks
<1>5. \/ items' = items \/ \E l \in 1..2 : ReadEntry(l)
      \/ \E i \in DOMAIN items : DriverClient(i)
  BY Zenon DEF Next, vars, ReadFile, ReadRequired, ReadKey, ReadLogging, ReadMqtt,
     EndLevel, LevelThrows, SetupSinks, BecomeUser, ChooseGuid, LoadTokens, InitMqtt
<1> QED
  BY <1>2, <1>3, <1>4, <1>5

(* A driver's client is configured by the block of an entry with its name, *)
(* its own if no other driver has that name.                               *)
THEOREM Blocks == Spec => []OwnBlock
<1>1. Init => NameInv /\ OwnBlock
  <2> SUFFICES ASSUME Init PROVE NameInv /\ OwnBlock
    OBVIOUS
  <2>1. DOMAIN items = {}
    BY SMT DEF Init
  <2> QED
    BY <2>1, Zenon DEF NameInv, HasFirst, OwnBlock
<1>2. Inv /\ NameInv /\ OwnBlock /\ [Next]_vars => NameInv' /\ OwnBlock'
  BY BlockStep
<1> QED
  BY <1>1, <1>2, Invariance, PTL DEF Spec
=============================================================================
