----------------------------- MODULE EventPath ------------------------------
(***************************************************************************)
(* What a device thread does with one frame or event of its driver, from   *)
(* the read to the end of the pass: conversion, outgoing translations and  *)
(* time stamp, the send, and the memory the event owns meanwhile           *)
(* (src/src/devicethread.cpp).  The three work loops are the three values  *)
(* of path: a Level I driver with CanalBlockingReceive(), one that is      *)
(* polled, and a Level II driver.                                          *)
(*                                                                         *)
(* When the threads run and how they stop is the subject of DeviceItem.    *)
(* The functions of the VSCP helper library are external: a conversion may *)
(* fail and then leaves the event alone, a Level II event is no Level I    *)
(* measurement, and vscp_deleteEvent() frees the payload if there is one.  *)
(* The frame is followed for Level II events only: the head of a Level I   *)
(* event is written by vscp_convertCanalToEvent().                         *)
(***************************************************************************)
EXTENDS Integers

CONSTANTS
    Classes,         \* classes of the events explored
    Measurements,    \* those of them that are measurements
    Sizes,           \* payload sizes
    ConvertedSize,   \* payload size of a Level II measurement
    Dates,           \* date blocks a Level II driver may send
    DateTimes,       \* results of vscp_to_unix_ns()
    DriverTimes,     \* values of timestamp_ns a Level II driver may send
    Now              \* vscp_makeTimeStampNs()

MEASUREMENT_STR == 1040    \* VSCP_CLASS2_MEASUREMENT_STR
MEASUREMENT_FLOAT == 1060  \* VSCP_CLASS2_MEASUREMENT_FLOAT

Byte == 0..255
WordSize == 65536
Word == 0..(WordSize - 1)
Size == 0..(512 + 16)  \* a payload behind sixteen bytes
Date == [year : Word, month : Byte, day : Byte, hour : Byte, minute : Byte,
         second : Byte]

ASSUME EventPathAssumption ==
    /\ Classes \subseteq 0..511 /\ Measurements \subseteq Classes
    /\ Sizes \subseteq 0..512 /\ ConvertedSize \in 1..512
    /\ Dates \subseteq Date /\ DateTimes \subseteq Int
    /\ DriverTimes \subseteq Nat /\ Now \in Nat \ {0}

Flags == {"M1_M2F", "M1_M2S", "ALL_L2"}
Block == {"event", "payload", "converted", "wrapped"}
Free == -1

VARIABLES
    path,           \* which of the three loops
    m_translation,  \* the translation bits of the item
    epc,            \* what is done next
    ev,             \* the event; pdata names the block of its payload
    ns,             \* the local variable of that name
    heap,           \* for each block its length, or Free
    rcv             \* the event as it was received

vars == <<path, m_translation, epc, ev, ns, heap, rcv>>

NoDate == [year |-> 0, month |-> 0, day |-> 0, hour |-> 0, minute |-> 0,
           second |-> 0]
NoEvent == [vscp_class |-> 0, sizeData |-> 0, pdata |-> "null",
            frame |-> "original", date |-> NoDate, timestamp_ns |-> 0]

(* The event with another class and payload, and with the new frame, whose *)
(* date block is unused.                                                   *)
Repacked(e, class, size, block) ==
    [vscp_class |-> class, sizeData |-> size, pdata |-> block,
     frame |-> e.frame, date |-> e.date, timestamp_ns |-> e.timestamp_ns]
Unused(d) ==
    [year |-> 65535, month |-> 255, day |-> d.day, hour |-> d.hour,
     minute |-> d.minute, second |-> d.second]
Restamped(e, t) ==
    [vscp_class |-> e.vscp_class, sizeData |-> e.sizeData, pdata |-> e.pdata,
     frame |-> "unix_ns", date |-> Unused(e.date), timestamp_ns |-> t]

Goto(from, to) == epc = from /\ epc' = to
Alloc(h, b, len) == [h EXCEPT ![b] = len]
Delete(h, b) == [x \in Block |-> IF x = b THEN Free ELSE h[x]]

Init ==
    /\ path \in {"blocking", "polling", "level2"}
    /\ m_translation \in SUBSET Flags
    /\ path = "level2" => m_translation = {}
    /\ epc = "loop"
    /\ ev = NoEvent /\ rcv = NoEvent
    /\ ns = -1
    /\ heap = [b \in Block |-> Free]

-----------------------------------------------------------------------------
(* Faulty variants of actions below, used in no specification.             *)

(* The old payload not deleted.                                            *)
OverLevel2Leaks ==
    /\ Goto("all_l2", "send")
    /\ IF "ALL_L2" \in m_translation
       THEN /\ heap' = Alloc(heap, "wrapped", 16 + ev.sizeData)
            /\ ev' = Repacked(ev, (ev.vscp_class + 512) % WordSize, ev.sizeData + 16,
                              "wrapped")
       ELSE UNCHANGED <<heap, ev>>
    /\ UNCHANGED <<path, m_translation, ns, rcv>>

(* sizeData not adjusted.                                                  *)
OverLevel2KeepsSize ==
    /\ Goto("all_l2", "send")
    /\ IF "ALL_L2" \in m_translation
       THEN /\ heap' = Delete(Alloc(heap, "wrapped", 16 + ev.sizeData), ev.pdata)
            /\ ev' = Repacked(ev, (ev.vscp_class + 512) % WordSize, ev.sizeData,
                              "wrapped")
       ELSE UNCHANGED <<heap, ev>>
    /\ UNCHANGED <<path, m_translation, ns, rcv>>

(* A measurement converted whatever the bits say.                          *)
ToStringAlways ==
    /\ Goto("m2s", "all_l2")
    /\ \/ UNCHANGED <<ev, heap>>
       \/ /\ ev.vscp_class \in Measurements
          /\ ev' = Repacked(ev, MEASUREMENT_STR, ConvertedSize, "converted")
          /\ heap' = Alloc(Delete(heap, ev.pdata), "converted", ConvertedSize)
    /\ UNCHANGED <<path, m_translation, ns, rcv>>

(* Hour 24 taken for an hour of the day.                                   *)
ValidHour24(d) ==
    /\ d.year > 0 /\ d.year < 65535 /\ d.month \in 1..12 /\ d.day \in 1..31
    /\ d.hour <= 24 /\ d.minute <= 59 /\ d.second <= 59

(* A conversion that failed taken for a time.                              *)
StampUnchecked ==
    /\ Goto("stamp", "send")
    /\ \/ /\ ev.frame # "unix_ns"
          /\ ns' \in DateTimes
          /\ ev' = Restamped(ev, ns')
       \/ ev.frame = "unix_ns" /\ UNCHANGED <<ev, ns>>
    /\ UNCHANGED <<path, m_translation, heap, rcv>>

-----------------------------------------------------------------------------
(* The Level I loops.                                                      *)

(* CanalBlockingReceive(), or CanalDataAvailable() and CanalReceive() with *)
(* a new vscpEvent.  A read without a frame changes nothing.               *)
Receive ==
    /\ path # "level2" /\ Goto("loop", "convert")
    /\ \E c \in Classes, s \in Sizes :
         rcv' = Repacked(NoEvent, c, s, "null")
    /\ heap' = IF path = "polling" THEN Alloc(heap, "event", 0) ELSE heap
    /\ UNCHANGED <<path, m_translation, ev, ns>>

(* vscp_convertCanalToEvent().  When it fails the polled loop deletes the  *)
(* event, the blocking one has it on its stack.                            *)
Convert ==
    /\ \/ /\ Goto("convert", "m2f")
          /\ ev' = [rcv EXCEPT !.pdata = IF rcv.sizeData = 0 THEN "null" ELSE "payload"]
          /\ heap' = IF rcv.sizeData = 0 THEN heap
                     ELSE Alloc(heap, "payload", rcv.sizeData)
       \/ /\ Goto("convert", "loop")
          /\ heap' = Delete(heap, "event")
          /\ UNCHANGED ev
    /\ rcv' = IF epc' = "loop" THEN NoEvent ELSE rcv
    /\ UNCHANGED <<path, m_translation, ns>>

(* vscp_convertLevel1MeasurementToLevel2Double() or ...String(), whose     *)
(* result nobody looks at.                                                 *)
Measurement(flag, class) ==
    \/ UNCHANGED <<ev, heap>>
    \/ /\ flag \in m_translation /\ ev.vscp_class \in Measurements
       /\ ev' = Repacked(ev, class, ConvertedSize, "converted")
       /\ heap' = Alloc(Delete(heap, ev.pdata), "converted", ConvertedSize)

ToFloat ==
    /\ Goto("m2f", "m2s")
    /\ Measurement("M1_M2F", MEASUREMENT_FLOAT)
    /\ UNCHANGED <<path, m_translation, ns, rcv>>

ToString ==
    /\ Goto("m2s", "all_l2")
    /\ Measurement("M1_M2S", MEASUREMENT_STR)
    /\ UNCHANGED <<path, m_translation, ns, rcv>>

(* Sixteen bytes in front of the payload, in a new block; vscp_class is a  *)
(* uint16_t.                                                               *)
OverLevel2 ==
    /\ Goto("all_l2", "send")
    /\ IF "ALL_L2" \in m_translation
       THEN /\ heap' = Delete(Alloc(heap, "wrapped", 16 + ev.sizeData), ev.pdata)
            /\ ev' = Repacked(ev, (ev.vscp_class + 512) % WordSize, ev.sizeData + 16,
                              "wrapped")
       ELSE UNCHANGED <<heap, ev>>
    /\ UNCHANGED <<path, m_translation, ns, rcv>>

-----------------------------------------------------------------------------
(* The Level II loop.                                                      *)

(* VSCPRead() fills a zeroed event, whose payload then is the thread's.    *)
ReadEvent ==
    /\ path = "level2" /\ Goto("loop", "stamp")
    /\ \E c \in Classes, s \in Sizes, f \in {"original", "unix_ns"},
          d \in Dates, t \in DriverTimes :
         /\ rcv' = [vscp_class |-> c, sizeData |-> s, frame |-> f, date |-> d,
                    timestamp_ns |-> t,
                    pdata |-> IF s = 0 THEN "null" ELSE "payload"]
         /\ heap' = IF s = 0 THEN heap ELSE Alloc(heap, "payload", s)
    /\ ev' = rcv'
    /\ UNCHANGED <<path, m_translation, ns>>

ValidDate(d) ==
    /\ d.year > 0 /\ d.year < 65535 /\ d.month \in 1..12 /\ d.day \in 1..31
    /\ d.hour <= 23 /\ d.minute <= 59 /\ d.second <= 59

(* An event with the original frame gets the new one, with the time of its *)
(* date block if there is one and the present time otherwise.              *)
Stamp ==
    /\ Goto("stamp", "send")
    /\ \/ /\ ev.frame # "unix_ns"
          /\ ns' \in IF ValidDate(ev.date) THEN DateTimes ELSE {-1}
          /\ ev' = Restamped(ev, IF ns' > 0 THEN ns' ELSE Now)
       \/ /\ ev.frame = "unix_ns"
          /\ ev' = [ev EXCEPT !.timestamp_ns = IF @ = 0 THEN Now ELSE @]
          /\ UNCHANGED ns
    /\ UNCHANGED <<path, m_translation, heap, rcv>>

-----------------------------------------------------------------------------
(* The end of all three loops.                                             *)

(* sendEvent() returns true for every event, so the branch for its failure *)
(* is never taken; vscp_deleteEvent() on the event of the stack,           *)
(* vscp_deleteEvent_v2() on the allocated one.                             *)
SendAndDelete ==
    /\ Goto("send", "loop")
    /\ heap' = Delete(Delete(heap, ev.pdata), "event")
    /\ ev' = NoEvent /\ rcv' = NoEvent /\ ns' = -1
    /\ UNCHANGED <<path, m_translation>>

Next ==
    \/ Receive \/ Convert \/ ToFloat \/ ToString \/ OverLevel2
    \/ ReadEvent \/ Stamp \/ SendAndDelete

Spec == Init /\ [][Next]_vars

-----------------------------------------------------------------------------
(* Properties.                                                             *)

Event == [vscp_class : Word, sizeData : Size, pdata : Block \cup {"null"},
          frame : {"original", "unix_ns"}, date : Date, timestamp_ns : Nat]

(* Every variable keeps its type; timestamp_ns is unsigned.                *)
TypeOK ==
    /\ path \in {"blocking", "polling", "level2"}
    /\ m_translation \in SUBSET Flags
    /\ epc \in {"loop", "convert", "m2f", "m2s", "all_l2", "stamp", "send"}
    /\ ev \in Event /\ rcv \in Event
    /\ ns \in Int
    /\ heap \in [Block -> Nat \cup {Free}]

(* Whatever conversions succeed or fail, a pass of the loop leaves no      *)
(* block behind: a gateway that runs for months would lose one per event.  *)
NoLeak == epc = "loop" => \A b \in Block : heap[b] = Free

(* The payload the thread reads, sends and deletes is a live block of      *)
(* exactly sizeData bytes: nothing is used or deleted twice, and neither   *)
(* the copy behind the sixteen bytes nor the send runs over its end.       *)
PayloadFits ==
    IF ev.pdata = "null" THEN ev.sizeData = 0 ELSE heap[ev.pdata] = ev.sizeData

(* What the broker gets for a Level I event: the event itself or, only if  *)
(* it is a measurement and its bit is set, the converted one; with the bit *)
(* "all to Level II" 512 is added to the class of either.  Without a       *)
(* measurement bit the payload is the one received, behind sixteen bytes   *)
(* if the class was changed.  (So a measurement bit and "all to Level II"  *)
(* together may send class 1552 or 1572, which is no Level I over Level II *)
(* class although devicelist.h says of that bit "All Level I events to     *)
(* Level I over level II events".)                                         *)
TranslatedClass ==
    path # "level2" /\ epc = "send" =>
        LET c == rcv.vscp_class
            added == IF "ALL_L2" \in m_translation THEN 512 ELSE 0
        IN  /\ \/ ev.vscp_class = c + added
               \/ /\ c \in Measurements
                  /\ \/ /\ ev.vscp_class = MEASUREMENT_FLOAT + added
                        /\ "M1_M2F" \in m_translation
                     \/ /\ ev.vscp_class = MEASUREMENT_STR + added
                        /\ "M1_M2S" \in m_translation
            /\ m_translation = {} => ev.sizeData = rcv.sizeData
            /\ m_translation = {"ALL_L2"} =>
                 ev.vscp_class = c + 512 /\ ev.sizeData = rcv.sizeData + 16

Years == Word \ {0, 65535}
Calendar == [year : Years, month : 1..12, day : 1..31, hour : 0..23,
             minute : 0..59, second : 0..59]

(* A Level II event is published with the new frame and a time after the   *)
(* epoch: the driver's own time wherever it gave one, as nanoseconds or as *)
(* a date of the calendar that converts, and the present time otherwise.   *)
TimeKept ==
    path = "level2" /\ epc = "send" =>
        /\ ev.frame = "unix_ns" /\ ev.timestamp_ns > 0
        /\ rcv.frame = "unix_ns" /\ rcv.timestamp_ns > 0 => ev = rcv
        /\ rcv.frame # "unix_ns" => ev.timestamp_ns =
             IF rcv.date \in Calendar /\ ns > 0 THEN ns ELSE Now
=============================================================================
