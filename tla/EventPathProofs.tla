-------------------------- MODULE EventPathProofs ---------------------------
(* Theorems about module EventPath, for every set of classes, payload      *)
(* sizes, date blocks and time stamps.                                     *)
EXTENDS EventPath, TLAPS

Plain == 0..512
Level1Steps == {"convert", "m2f", "m2s", "all_l2"}

(* Which loop a step belongs to, and the limits of what was received.      *)
StepInv ==
    /\ epc \in Level1Steps => path # "level2"
    /\ epc = "stamp" => path = "level2"
    /\ epc \in {"loop", "convert"} => ev.pdata = "null" /\ ev.sizeData = 0
    /\ epc # "loop" => rcv.vscp_class \in Classes /\ rcv.sizeData \in Plain
    /\ epc \in Level1Steps => ev.sizeData \in Plain

(* Who owns a block: every live block is the payload of the event, or the  *)
(* event itself in the polled loop.                                        *)
HeapInv ==
    /\ \A b \in Block : heap[b] # Free => b = ev.pdata \/ b = "event"
    /\ epc = "loop" => heap["event"] = Free
    /\ ev.pdata # "event"
    /\ epc \in Level1Steps => ev.pdata # "wrapped"

(* TranslatedClass before the last translation.                            *)
ClassInv ==
    epc \in {"m2f", "m2s", "all_l2"} =>
        LET c == rcv.vscp_class IN
        /\ m_translation \subseteq {"ALL_L2"} =>
             ev.vscp_class = c /\ ev.sizeData = rcv.sizeData
        /\ \/ ev.vscp_class = c
           \/ /\ c \in Measurements
              /\ \/ ev.vscp_class = MEASUREMENT_FLOAT /\ "M1_M2F" \in m_translation
                 \/ ev.vscp_class = MEASUREMENT_STR /\ "M1_M2S" \in m_translation

(* An event that waits for its time stamp is the one that was read.        *)
StampInv == epc = "stamp" => ev = rcv

Inv ==
    /\ TypeOK /\ StepInv /\ HeapInv /\ PayloadFits
    /\ ClassInv /\ TranslatedClass /\ StampInv /\ TimeKept

(* What the proofs need of the constants and of numbers of a width.        *)
LEMMA WordSizeFacts ==
    /\ WordSize \in Nat /\ WordSize > 1572 /\ WordSize - 1 = 65535
BY SMT DEF WordSize

LEMMA WordRange == \A n \in Int : n \in Word <=> n >= 0 /\ n < WordSize
BY WordSizeFacts, SMT DEF Word

LEMMA ModuloInWord == ASSUME NEW n \in Nat PROVE (n + 512) % WordSize \in Word
BY WordSizeFacts, SMT DEF Word

LEMMA ModuloSmall ==
    ASSUME NEW n \in Nat, n <= 1060 PROVE (n + 512) % WordSize = n + 512
BY WordSizeFacts, SMT

LEMMA YearRange ==
    ASSUME NEW y, y \in Word PROVE y \in Years <=> y > 0 /\ y < 65535
BY WordSizeFacts, SMT DEF Word, Years

LEMMA WordFacts ==
    /\ 0 \in Word /\ 65535 \in Word /\ 0 \in Byte /\ 255 \in Byte
    /\ \A n \in Word : n \in Nat /\ (n + 512) % WordSize \in Word
    /\ MEASUREMENT_FLOAT \in Word /\ MEASUREMENT_STR \in Word
<1>1. 0 \in Word /\ 65535 \in Word
  BY WordSizeFacts, SMT DEF Word
<1>2. 0 \in Byte /\ 255 \in Byte
  BY SMT DEF Byte
<1>3. ASSUME NEW n \in Word PROVE n \in Nat /\ (n + 512) % WordSize \in Word
  <2>1. n \in Nat
    BY WordSizeFacts, SMT DEF Word
  <2>2. (n + 512) % WordSize \in Word
    BY <2>1, ModuloInWord
  <2> QED
    BY <2>1, <2>2
<1>4. MEASUREMENT_FLOAT \in Word /\ MEASUREMENT_STR \in Word
  BY WordSizeFacts, WordRange, SMT DEF MEASUREMENT_FLOAT, MEASUREMENT_STR
<1> QED
  BY <1>1, <1>2, <1>3, <1>4, SMT

LEMMA ClassFacts ==
    /\ \A c \in Measurements : c \in Classes
    /\ \A c \in Classes : c \in Word /\ (c + 512) % WordSize = c + 512
    /\ MEASUREMENT_FLOAT \notin Classes /\ MEASUREMENT_STR \notin Classes
    /\ (MEASUREMENT_FLOAT + 512) % WordSize = MEASUREMENT_FLOAT + 512
    /\ (MEASUREMENT_STR + 512) % WordSize = MEASUREMENT_STR + 512
<1>1. \A c \in Measurements : c \in Classes
  BY EventPathAssumption, SMT
<1>2. \A c \in Classes : c \in Nat /\ c < 512
  BY EventPathAssumption, SMT
<1>3. ASSUME NEW c \in Classes PROVE c \in Word /\ (c + 512) % WordSize = c + 512
  <2>1. c \in Nat /\ c < 512
    BY <1>2
  <2>2. c \in Word
    BY <2>1, WordSizeFacts, WordRange, SMT
  <2>3. c <= 1060
    BY <2>1, SMT
  <2> QED
    BY <2>1, <2>2, <2>3, ModuloSmall
<1>4. MEASUREMENT_FLOAT \notin Classes /\ MEASUREMENT_STR \notin Classes
  BY <1>2, SMT DEF MEASUREMENT_FLOAT, MEASUREMENT_STR
<1>5. /\ MEASUREMENT_FLOAT \in Nat /\ MEASUREMENT_FLOAT <= 1060
      /\ MEASUREMENT_STR \in Nat /\ MEASUREMENT_STR <= 1060
  BY SMT DEF MEASUREMENT_FLOAT, MEASUREMENT_STR
<1>6. /\ (MEASUREMENT_FLOAT + 512) % WordSize = MEASUREMENT_FLOAT + 512
      /\ (MEASUREMENT_STR + 512) % WordSize = MEASUREMENT_STR + 512
  BY <1>5, ModuloSmall
<1> QED
  BY <1>1, <1>3, <1>4, <1>6

LEMMA SizeFacts ==
    /\ 0 \in Plain /\ ConvertedSize \in Plain \ {0}
    /\ \A s \in Sizes : s \in Plain
    /\ \A s \in Plain : s \in Nat /\ s \in Size /\ s + 16 \in Size /\ s + 16 # 0
    /\ \A s \in Size : s \in Nat
BY EventPathAssumption, SMT DEF Plain, Size

LEMMA TimeFacts ==
    /\ Now \in Nat \ {0} /\ \A t \in DriverTimes : t \in Nat
    /\ \A t \in DateTimes : t \in Int
    /\ \A d \in Dates : d \in Date
BY EventPathAssumption, SMT

LEMMA ByteFacts == \A n \in Byte : n \in Nat
BY SMT DEF Byte

(* The test of the code accepts the dates of the calendar.                 *)
LEMMA ValidIsCalendar == ASSUME NEW d \in Date PROVE ValidDate(d) <=> d \in Calendar
<1>1. d.year \in Years <=> d.year > 0 /\ d.year < 65535
  <2>1. d.year \in Word
    BY SMT DEF Date
  <2> QED
    BY <2>1, YearRange, SMT
<1>2. /\ d.month \in Nat /\ d.day \in Nat /\ d.hour \in Nat /\ d.minute \in Nat
      /\ d.second \in Nat
  BY ByteFacts, SMT DEF Date
<1>3. d \in Calendar <=>
        /\ d.year \in Years /\ d.month \in 1..12 /\ d.day \in 1..31
        /\ d.hour \in 0..23 /\ d.minute \in 0..59 /\ d.second \in 0..59
  BY SMT DEF Date, Calendar
<1> QED
  BY <1>1, <1>2, <1>3, SMT DEF ValidDate

(* The record constructors of the model yield events.                      *)
LEMMA RepackedEvent ==
    ASSUME NEW e \in Event, NEW c \in Word, NEW s \in Size, NEW b \in Block \cup {"null"}
    PROVE  /\ Repacked(e, c, s, b) \in Event
           /\ Repacked(e, c, s, b).vscp_class = c /\ Repacked(e, c, s, b).sizeData = s
           /\ Repacked(e, c, s, b).pdata = b
BY SMT DEF Repacked, Event

LEMMA RestampedEvent ==
    ASSUME NEW e \in Event, NEW t \in Nat
    PROVE  /\ Restamped(e, t) \in Event /\ Restamped(e, t).frame = "unix_ns"
           /\ Restamped(e, t).timestamp_ns = t
           /\ Restamped(e, t).pdata = e.pdata /\ Restamped(e, t).sizeData = e.sizeData
<1>1. e.date \in Date
  BY SMT DEF Event
<1>2. Unused(e.date) \in Date
  BY <1>1, WordFacts, SMT DEF Unused, Date
<1> QED
  BY <1>2, SMT DEF Restamped, Event

LEMMA NoEventIsEvent == NoEvent \in Event
<1>1. NoDate \in Date
  BY WordFacts, SMT DEF NoDate, Date
<1> QED
  BY <1>1, WordFacts, SizeFacts, SMT DEF NoEvent, Event

-----------------------------------------------------------------------------
(* The thread begins with nothing allocated.                               *)
LEMMA InvInit == Init => Inv
<1> SUFFICES ASSUME Init PROVE Inv
  OBVIOUS
<1>3. TypeOK
  BY NoEventIsEvent DEF Init, TypeOK
<1> QED
  BY <1>3 DEF Init, Inv, StepInv, HeapInv, PayloadFits, ClassInv, TranslatedClass,
     StampInv, TimeKept, Level1Steps, NoEvent, Block

(* A conversion yields an event of the right type and size, and its block. *)
LEMMA MeasurementKeeps ==
    ASSUME TypeOK, HeapInv, PayloadFits, epc \in {"m2f", "m2s"},
           ev.sizeData \in Plain,
           NEW flag, NEW class \in Word, Measurement(flag, class)
    PROVE  /\ ev' \in Event /\ heap' \in [Block -> Nat \cup {Free}]
           /\ ev'.pdata \in {ev.pdata, "converted"}
           /\ ev'.sizeData \in Plain
           /\ PayloadFits'
           /\ \A b \in Block : heap'[b] # Free => b = ev'.pdata \/ b = "event"
<1>1. CASE UNCHANGED <<ev, heap>>
  BY <1>1 DEF TypeOK, HeapInv, PayloadFits
<1>2. CASE /\ ev' = Repacked(ev, class, ConvertedSize, "converted")
           /\ heap' = Alloc(Delete(heap, ev.pdata), "converted", ConvertedSize)
  <2>1. ev' \in Event /\ ev'.pdata = "converted" /\ ev'.sizeData = ConvertedSize
    <3>1. ev \in Event /\ "converted" \in Block \cup {"null"} /\ ConvertedSize \in Size
      BY SizeFacts DEF TypeOK, Block
    <3> QED
      BY <1>2, <3>1, RepackedEvent
  <2>2. heap' \in [Block -> Nat \cup {Free}] /\ heap'["converted"] = ConvertedSize
    BY <1>2, SizeFacts DEF TypeOK, Alloc, Delete, Block
  <2>3. \A b \in Block : heap'[b] # Free => b = "converted" \/ b = "event"
    BY <1>2 DEF TypeOK, HeapInv, Alloc, Delete, Block
  <2> QED
    BY <2>1, <2>2, <2>3, SizeFacts DEF PayloadFits
<1> QED
  BY <1>1, <1>2 DEF Measurement

-----------------------------------------------------------------------------
(* One lemma per action.                                                   *)

LEMMA ReceiveStep == Inv /\ Receive => Inv'
<1> SUFFICES ASSUME Inv, Receive PROVE Inv'
  OBVIOUS
<1>1. PICK c \in Classes, s \in Sizes :
         rcv' = Repacked(NoEvent, c, s, "null")
  BY DEF Receive
<1>2. rcv' \in Event /\ rcv'.vscp_class \in Classes /\ rcv'.sizeData \in Plain
  BY <1>1, ClassFacts, SizeFacts, NoEventIsEvent, RepackedEvent
<1>3. /\ epc = "loop" /\ epc' = "convert" /\ path # "level2"
      /\ UNCHANGED <<path, m_translation, ev, ns>>
      /\ heap' = heap \/ heap' = Alloc(heap, "event", 0)
  BY DEF Receive, Goto
<1>4. heap' \in [Block -> Nat \cup {Free}]
      /\ \A b \in Block : b # "event" => heap'[b] = heap[b]
  BY <1>3 DEF Inv, TypeOK, Alloc, Block
<1>5. TypeOK'
  BY <1>2, <1>3, <1>4 DEF Inv, TypeOK
<1>6. PayloadFits' /\ HeapInv' /\ StepInv'
  BY <1>2, <1>3, <1>4, SizeFacts DEF Inv, PayloadFits, HeapInv, StepInv, Level1Steps
<1> QED
  BY <1>3, <1>5, <1>6 DEF Inv, ClassInv, TranslatedClass, StampInv, TimeKept

LEMMA ConvertStep == Inv /\ Convert => Inv'
<1> SUFFICES ASSUME Inv, Convert PROVE Inv'
  OBVIOUS
<1> epc = "convert" /\ path # "level2" /\ UNCHANGED <<path, m_translation, ns>>
  BY DEF Convert, Goto, Inv, StepInv, Level1Steps
<1> rcv.vscp_class \in Classes /\ rcv \in Event
  BY DEF Inv, StepInv, TypeOK
<1>1. CASE epc' = "loop"
  <2>1. heap' = Delete(heap, "event") /\ ev' = ev /\ rcv' = NoEvent
    BY <1>1 DEF Convert, Goto
  <2>2. NoEvent \in Event
    BY NoEventIsEvent
  <2>3. /\ heap' \in [Block -> Nat \cup {Free}] /\ heap'["event"] = Free
        /\ \A b \in Block : heap'[b] # Free => heap'[b] = heap[b]
    BY <2>1 DEF Inv, TypeOK, Delete, Block
  <2> QED
    BY <1>1, <2>1, <2>2, <2>3 DEF Inv, TypeOK, StepInv, HeapInv, PayloadFits,
       ClassInv, TranslatedClass, StampInv, TimeKept, Level1Steps
<1>2. CASE epc' = "m2f"
  <2>1. /\ ev' = [rcv EXCEPT !.pdata = IF rcv.sizeData = 0 THEN "null" ELSE "payload"]
        /\ heap' = IF rcv.sizeData = 0 THEN heap
                   ELSE Alloc(heap, "payload", rcv.sizeData)
        /\ rcv' = rcv
    BY <1>2 DEF Convert, Goto
  <2>2. /\ ev' \in Event /\ ev'.vscp_class = rcv.vscp_class
        /\ ev'.sizeData = rcv.sizeData
        /\ ev'.pdata = IF rcv.sizeData = 0 THEN "null" ELSE "payload"
    BY <2>1 DEF Event, Block
  <2>3. /\ heap' \in [Block -> Nat \cup {Free}]
        /\ rcv.sizeData # 0 => heap'["payload"] = rcv.sizeData
        /\ \A b \in Block : b # "payload" \/ rcv.sizeData = 0 => heap'[b] = heap[b]
    BY <2>1, SizeFacts DEF Inv, TypeOK, StepInv, Alloc, Block
  <2>4. HeapInv' /\ PayloadFits'
    BY <1>2, <2>2, <2>3 DEF Inv, HeapInv, PayloadFits, StepInv, Level1Steps, Block
  <2>5. TypeOK' /\ StepInv' /\ ClassInv'
    BY <1>2, <2>1, <2>2, <2>3 DEF Inv, TypeOK, StepInv, ClassInv, Level1Steps
  <2> QED
    BY <1>2, <2>4, <2>5 DEF Inv, TranslatedClass, StampInv, TimeKept
<1> QED
  BY <1>1, <1>2 DEF Convert, Goto

LEMMA ToFloatStep == Inv /\ ToFloat => Inv'
<1> SUFFICES ASSUME Inv, ToFloat PROVE Inv'
  OBVIOUS
<1>1. /\ epc = "m2f" /\ epc' = "m2s" /\ Measurement("M1_M2F", MEASUREMENT_FLOAT)
      /\ UNCHANGED <<path, m_translation, ns, rcv>>
  BY DEF ToFloat, Goto
<1>2. /\ ev' \in Event /\ heap' \in [Block -> Nat \cup {Free}]
      /\ ev'.pdata \in {ev.pdata, "converted"} /\ ev'.sizeData \in Plain
      /\ PayloadFits'
      /\ \A b \in Block : heap'[b] # Free => b = ev'.pdata \/ b = "event"
  BY <1>1, WordFacts, MeasurementKeeps DEF Inv, StepInv, Level1Steps
<1>3. TypeOK' /\ StepInv' /\ HeapInv'
  BY <1>1, <1>2 DEF Inv, TypeOK, StepInv, HeapInv, Level1Steps
<1>4. ClassInv'
  <2>1. CASE UNCHANGED <<ev, heap>>
    BY <1>1, <2>1 DEF Inv, ClassInv
  <2>2. CASE /\ "M1_M2F" \in m_translation /\ ev.vscp_class \in Measurements
             /\ ev' = Repacked(ev, MEASUREMENT_FLOAT, ConvertedSize, "converted")
    <3>1. ev.vscp_class = rcv.vscp_class
      BY <1>1, <2>2, ClassFacts DEF Inv, ClassInv
    <3>2. ev'.vscp_class = MEASUREMENT_FLOAT
      BY <2>2 DEF Repacked
    <3> QED
      BY <1>1, <2>2, <3>1, <3>2 DEF ClassInv
  <2> QED
    BY <1>1, <2>1, <2>2 DEF Measurement
<1> QED
  BY <1>1, <1>2, <1>3, <1>4 DEF Inv, TranslatedClass, StampInv, TimeKept

LEMMA ToStringStep == Inv /\ ToString => Inv'
<1> SUFFICES ASSUME Inv, ToString PROVE Inv'
  OBVIOUS
<1>1. /\ epc = "m2s" /\ epc' = "all_l2" /\ Measurement("M1_M2S", MEASUREMENT_STR)
      /\ UNCHANGED <<path, m_translation, ns, rcv>>
  BY DEF ToString, Goto
<1>2. /\ ev' \in Event /\ heap' \in [Block -> Nat \cup {Free}]
      /\ ev'.pdata \in {ev.pdata, "converted"} /\ ev'.sizeData \in Plain
      /\ PayloadFits'
      /\ \A b \in Block : heap'[b] # Free => b = ev'.pdata \/ b = "event"
  BY <1>1, WordFacts, MeasurementKeeps DEF Inv, StepInv, Level1Steps
<1>3. TypeOK' /\ StepInv' /\ HeapInv'
  BY <1>1, <1>2 DEF Inv, TypeOK, StepInv, HeapInv, Level1Steps
<1>4. ClassInv'
  <2>1. CASE UNCHANGED <<ev, heap>>
    BY <1>1, <2>1 DEF Inv, ClassInv
  <2>2. CASE /\ "M1_M2S" \in m_translation /\ ev.vscp_class \in Measurements
             /\ ev' = Repacked(ev, MEASUREMENT_STR, ConvertedSize, "converted")
    <3>1. ev.vscp_class = rcv.vscp_class
      BY <1>1, <2>2, ClassFacts DEF Inv, ClassInv
    <3>2. ev'.vscp_class = MEASUREMENT_STR
      BY <2>2 DEF Repacked
    <3> QED
      BY <1>1, <2>2, <3>1, <3>2 DEF ClassInv
  <2> QED
    BY <1>1, <2>1, <2>2 DEF Measurement
<1> QED
  BY <1>1, <1>2, <1>3, <1>4 DEF Inv, TranslatedClass, StampInv, TimeKept

LEMMA OverLevel2Step == Inv /\ OverLevel2 => Inv'
<1> SUFFICES ASSUME Inv, OverLevel2 PROVE Inv'
  OBVIOUS
<1>1. /\ epc = "all_l2" /\ epc' = "send" /\ path # "level2"
      /\ UNCHANGED <<path, m_translation, ns, rcv>>
  BY DEF OverLevel2, Goto, Inv, StepInv, Level1Steps
<1>2. CASE "ALL_L2" \notin m_translation
  <2>1. UNCHANGED <<heap, ev>>
    BY <1>2 DEF OverLevel2
  <2>2. TranslatedClass'
    <3>1. /\ rcv.vscp_class \in Nat
          /\ MEASUREMENT_FLOAT \in Nat /\ MEASUREMENT_STR \in Nat
      BY <1>1, ClassFacts, WordFacts DEF Inv, StepInv
    <3>2. /\ rcv.vscp_class + 0 = rcv.vscp_class
          /\ MEASUREMENT_FLOAT + 0 = MEASUREMENT_FLOAT
          /\ MEASUREMENT_STR + 0 = MEASUREMENT_STR
      BY <3>1, SMT
    <3> QED
      BY <1>1, <1>2, <2>1, <3>2 DEF Inv, ClassInv, TranslatedClass
  <2> QED
    BY <1>1, <2>1, <2>2 DEF Inv, TypeOK, StepInv, HeapInv, PayloadFits, ClassInv,
       StampInv, TimeKept, Level1Steps
<1>3. CASE "ALL_L2" \in m_translation
  <2>1. /\ heap' = Delete(Alloc(heap, "wrapped", 16 + ev.sizeData), ev.pdata)
        /\ ev' = Repacked(ev, (ev.vscp_class + 512) % WordSize, ev.sizeData + 16, "wrapped")
    BY <1>3, SMT DEF OverLevel2
  <2>2. /\ ev \in Event /\ ev.sizeData \in Plain /\ ev.vscp_class \in Word
        /\ ev.pdata \in Block \cup {"null"} /\ ev.pdata # "wrapped"
    BY <1>1 DEF Inv, TypeOK, Event, StepInv, HeapInv, Level1Steps
  <2>3. /\ ev' \in Event /\ ev'.pdata = "wrapped" /\ ev'.sizeData = ev.sizeData + 16
        /\ ev'.vscp_class = (ev.vscp_class + 512) % WordSize
    <3>1. /\ (ev.vscp_class + 512) % WordSize \in Word /\ ev.sizeData + 16 \in Size
          /\ "wrapped" \in Block \cup {"null"}
      BY <2>2, WordFacts, SizeFacts, SMT DEF Block
    <3> QED
      BY <2>1, <2>2, <3>1, RepackedEvent, SMT
  <2>4. /\ heap' \in [Block -> Nat \cup {Free}]
        /\ heap'["wrapped"] = ev.sizeData + 16
        /\ \A b \in Block : heap'[b] # Free => b = "wrapped" \/ b = "event"
    BY <2>1, <2>2, SizeFacts, SMT DEF Inv, TypeOK, HeapInv, Alloc, Delete, Block
  <2>5. TypeOK' /\ StepInv' /\ HeapInv' /\ PayloadFits'
    BY <1>1, <2>2, <2>3, <2>4, SizeFacts, SMT DEF Inv, TypeOK, StepInv, HeapInv,
       PayloadFits, Level1Steps
  <2>6. TranslatedClass'
    <3>1. rcv.vscp_class \in Classes
      BY <1>1 DEF Inv, StepInv
    <3>2. \/ ev'.vscp_class = rcv.vscp_class + 512
          \/ /\ rcv.vscp_class \in Measurements
             /\ \/ /\ ev'.vscp_class = MEASUREMENT_FLOAT + 512
                   /\ "M1_M2F" \in m_translation
                \/ /\ ev'.vscp_class = MEASUREMENT_STR + 512
                   /\ "M1_M2S" \in m_translation
      BY <1>1, <2>3, <3>1, ClassFacts DEF Inv, ClassInv
    <3>3. ASSUME m_translation = {"ALL_L2"}
          PROVE  /\ ev'.vscp_class = rcv.vscp_class + 512
                 /\ ev'.sizeData = rcv.sizeData + 16
      <4>1. ev.vscp_class = rcv.vscp_class /\ ev.sizeData = rcv.sizeData
        BY <1>1, <3>3 DEF Inv, ClassInv
      <4> QED
        BY <2>3, <3>1, <4>1, ClassFacts
    <3> QED
      BY <1>1, <1>3, <3>2, <3>3 DEF TranslatedClass
  <2> QED
    BY <1>1, <2>5, <2>6 DEF Inv, ClassInv, StampInv, TimeKept
<1> QED
  BY <1>2, <1>3

LEMMA ReadEventStep == Inv /\ ReadEvent => Inv'
<1> SUFFICES ASSUME Inv, ReadEvent PROVE Inv'
  OBVIOUS
<1>1. /\ epc = "loop" /\ epc' = "stamp" /\ path = "level2"
      /\ UNCHANGED <<path, m_translation, ns>> /\ ev' = rcv'
  BY DEF ReadEvent, Goto
<1>2. PICK c \in Classes, s \in Sizes, f \in {"original", "unix_ns"},
           d \in Dates, t \in DriverTimes :
         /\ rcv' = [vscp_class |-> c, sizeData |-> s, frame |-> f, date |-> d,
                    timestamp_ns |-> t,
                    pdata |-> IF s = 0 THEN "null" ELSE "payload"]
         /\ heap' = IF s = 0 THEN heap ELSE Alloc(heap, "payload", s)
  BY DEF ReadEvent
<1>3. /\ rcv' \in Event /\ rcv'.vscp_class \in Classes /\ rcv'.sizeData = s
      /\ rcv'.pdata = IF s = 0 THEN "null" ELSE "payload"
  BY <1>2, ClassFacts, SizeFacts, TimeFacts DEF Event, Block
<1>4. /\ heap' \in [Block -> Nat \cup {Free}]
      /\ s # 0 => heap'["payload"] = s
      /\ \A b \in Block : b # "payload" \/ s = 0 => heap'[b] = heap[b]
  BY <1>2, SizeFacts DEF Inv, TypeOK, Alloc, Block
<1>5. HeapInv' /\ PayloadFits'
  BY <1>1, <1>3, <1>4 DEF Inv, HeapInv, PayloadFits, StepInv, Level1Steps, Block
<1>6. TypeOK' /\ StepInv'
  BY <1>1, <1>3, <1>4, SizeFacts DEF Inv, TypeOK, StepInv, Level1Steps
<1> QED
  BY <1>1, <1>5, <1>6 DEF Inv, ClassInv, TranslatedClass, StampInv, TimeKept

LEMMA StampStep == Inv /\ Stamp => Inv'
<1> SUFFICES ASSUME Inv, Stamp PROVE Inv'
  OBVIOUS
<1>1. /\ epc = "stamp" /\ epc' = "send" /\ path = "level2" /\ ev = rcv
      /\ UNCHANGED <<path, m_translation, heap, rcv>>
  BY DEF Stamp, Goto, Inv, StepInv, StampInv
<1>2. /\ ev \in Event /\ ev.date \in Date /\ ev.timestamp_ns \in Nat
      /\ ev.frame \in {"original", "unix_ns"}
  BY DEF Inv, TypeOK, Event
<1>3. CASE ev.frame # "unix_ns"
  <2>1. /\ ns' \in IF ValidDate(ev.date) THEN DateTimes ELSE {-1}
        /\ ev' = Restamped(ev, IF ns' > 0 THEN ns' ELSE Now)
    BY <1>3 DEF Stamp
  <2>2. ns' \in Int /\ (IF ns' > 0 THEN ns' ELSE Now) \in Nat \ {0}
    BY <2>1, TimeFacts
  <2>3. /\ ev' \in Event /\ ev'.frame = "unix_ns"
        /\ ev'.timestamp_ns = IF ns' > 0 THEN ns' ELSE Now
        /\ ev'.pdata = ev.pdata /\ ev'.sizeData = ev.sizeData
    BY <1>2, <2>1, <2>2, RestampedEvent
  <2>4. ValidDate(ev.date) <=> ev.date \in Calendar
    BY <1>2, ValidIsCalendar
  <2>5. TimeKept'
    BY <1>1, <1>3, <2>1, <2>2, <2>3, <2>4 DEF TimeKept
  <2> QED
    BY <1>1, <2>2, <2>3, <2>5 DEF Inv, TypeOK, StepInv, HeapInv, PayloadFits,
       ClassInv, TranslatedClass, StampInv, Level1Steps
<1>4. CASE ev.frame = "unix_ns"
  <2>1. /\ ev' = [ev EXCEPT !.timestamp_ns = IF @ = 0 THEN Now ELSE @]
        /\ UNCHANGED ns
    BY <1>4 DEF Stamp
  <2>2. /\ ev' \in Event /\ ev'.frame = "unix_ns"
        /\ ev'.timestamp_ns > 0
        /\ ev.timestamp_ns > 0 => ev' = ev
        /\ ev'.pdata = ev.pdata /\ ev'.sizeData = ev.sizeData
    BY <1>2, <1>4, <2>1, TimeFacts DEF Event
  <2>3. TimeKept'
    BY <1>1, <1>4, <2>2 DEF TimeKept
  <2> QED
    BY <1>1, <2>1, <2>2, <2>3 DEF Inv, TypeOK, StepInv, HeapInv, PayloadFits,
       ClassInv, TranslatedClass, StampInv, Level1Steps
<1> QED
  BY <1>3, <1>4

LEMMA SendAndDeleteStep == Inv /\ SendAndDelete => Inv'
<1> SUFFICES ASSUME Inv, SendAndDelete PROVE Inv'
  OBVIOUS
<1>1. /\ epc = "send" /\ epc' = "loop" /\ ev' = NoEvent /\ rcv' = NoEvent
      /\ ns' = -1 /\ UNCHANGED <<path, m_translation>>
      /\ heap' = Delete(Delete(heap, ev.pdata), "event")
  BY DEF SendAndDelete, Goto
<1>2. NoEvent \in Event
  BY NoEventIsEvent
<1>3. heap' \in [Block -> Nat \cup {Free}] /\ \A b \in Block : heap'[b] = Free
  BY <1>1 DEF Inv, TypeOK, HeapInv, Delete
<1>4. TypeOK'
  BY <1>1, <1>2, <1>3 DEF Inv, TypeOK
<1> QED
  BY <1>1, <1>3, <1>4 DEF Inv, StepInv, HeapInv, PayloadFits, ClassInv,
     TranslatedClass, StampInv, TimeKept, Level1Steps, NoEvent, Block

-----------------------------------------------------------------------------
(* The inductive invariant holds in every reachable state.                 *)
THEOREM Invariance == Spec => []Inv
<1>1. Init => Inv
  BY InvInit
<1>2. Inv /\ UNCHANGED vars => Inv'
  BY DEF vars, Inv, TypeOK, StepInv, HeapInv, PayloadFits, ClassInv,
     TranslatedClass, StampInv, TimeKept
<1>3. Inv /\ [Next]_vars => Inv'
  BY <1>2, ReceiveStep, ConvertStep, ToFloatStep, ToStringStep, OverLevel2Step,
     ReadEventStep, StampStep, SendAndDeleteStep DEF Next
<1> QED
  BY <1>1, <1>3, PTL DEF Spec

(* The path of an event is type correct: its class stays an uint16_t, its  *)
(* size within 528 bytes and its time stamp unsigned.                      *)
THEOREM TypeCorrect == Spec => []TypeOK
BY Invariance, PTL DEF Inv

(* However conversions fail, no pass of a work loop leaves a block behind. *)
THEOREM Leaks == Spec => []NoLeak
<1>1. Inv => NoLeak
  BY DEF Inv, StepInv, HeapInv, NoLeak, Block
<1> QED
  BY Invariance, <1>1, PTL

(* The payload of the event is always a live block of sizeData bytes.      *)
THEOREM Payloads == Spec => []PayloadFits
BY Invariance, PTL DEF Inv

(* The class the broker gets is the one the translation flags select, for  *)
(* every class.                                                            *)
THEOREM Translations == Spec => []TranslatedClass
BY Invariance, PTL DEF Inv

(* A Level II event goes out with the driver's time wherever it gave one,  *)
(* for every date block and time stamp.                                    *)
THEOREM Times == Spec => []TimeKept
BY Invariance, PTL DEF Inv
=============================================================================
