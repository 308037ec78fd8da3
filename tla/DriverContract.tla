--------------------------- MODULE DriverContract ---------------------------
(***************************************************************************)
(* What the daemon promises every driver library, whichever thread calls   *)
(* it: the library is entered only while it is mapped and open, at most    *)
(* one call reads and at most one call writes at a time, it is closed only *)
(* when no call is inside it, unmapped only when none is, and never opened *)
(* again.  A driver that has been taken into use is closed before it is    *)
(* unmapped; only one that was opened and never used may be unmapped with  *)
(* its channel open.  This is the discipline m_deviceMutex, m_bQuit and    *)
(* the order of connect, disconnect and close in devicethread.cpp are      *)
(* there to enforce.                                                       *)
(***************************************************************************)
CONSTANT Driver

VARIABLES
    mapped,   \* is the library in memory?
    channel,  \* "new", "open" or "closed"
    inUse,    \* is it in use, from before its first call until the close?
    reading,  \* is a call of the device thread inside the driver?
    writing   \* is a call of the callback inside the driver?

vars == <<mapped, channel, inUse, reading, writing>>

Init ==
    /\ mapped = [d \in Driver |-> FALSE]
    /\ channel = [d \in Driver |-> "new"]
    /\ inUse = [d \in Driver |-> FALSE]
    /\ reading = [d \in Driver |-> FALSE]
    /\ writing = [d \in Driver |-> FALSE]

Usable(d) == mapped[d] /\ channel[d] = "open"
Idle(d) == ~reading[d] /\ ~writing[d]

Map(d) ==
    /\ ~mapped[d] /\ channel[d] = "new"
    /\ mapped' = [mapped EXCEPT ![d] = TRUE]
    /\ UNCHANGED <<channel, inUse, reading, writing>>

Unmap(d) ==
    /\ mapped[d] /\ Idle(d) /\ ~inUse[d]
    /\ mapped' = [mapped EXCEPT ![d] = FALSE]
    /\ UNCHANGED <<channel, inUse, reading, writing>>

Open(d) ==
    /\ mapped[d] /\ channel[d] = "new"
    /\ channel' = [channel EXCEPT ![d] = "open"]
    /\ UNCHANGED <<mapped, inUse, reading, writing>>

Use(d) ==
    /\ Usable(d)
    /\ inUse' = [inUse EXCEPT ![d] = TRUE]
    /\ UNCHANGED <<mapped, channel, reading, writing>>

Close(d) ==
    /\ Usable(d) /\ Idle(d)
    /\ channel' = [channel EXCEPT ![d] = "closed"]
    /\ inUse' = [inUse EXCEPT ![d] = FALSE]
    /\ UNCHANGED <<mapped, reading, writing>>

(* Close and dlclose() in one go: the driver was opened for nothing.       *)
CloseAndUnmap(d) ==
    /\ Usable(d) /\ Idle(d) /\ ~inUse[d]
    /\ channel' = [channel EXCEPT ![d] = "closed"]
    /\ mapped' = [mapped EXCEPT ![d] = FALSE]
    /\ UNCHANGED <<inUse, reading, writing>>

(* The first call may be what takes it into use.                           *)
BeginRead(d) ==
    /\ Usable(d) /\ ~reading[d]
    /\ reading' = [reading EXCEPT ![d] = TRUE]
    /\ inUse' = [inUse EXCEPT ![d] = TRUE]
    /\ UNCHANGED <<mapped, channel, writing>>

EndRead(d) ==
    /\ Usable(d) /\ reading[d]
    /\ reading' = [reading EXCEPT ![d] = FALSE]
    /\ UNCHANGED <<mapped, channel, inUse, writing>>

BeginWrite(d) ==
    /\ Usable(d) /\ inUse[d] /\ ~writing[d]
    /\ writing' = [writing EXCEPT ![d] = TRUE]
    /\ UNCHANGED <<mapped, channel, inUse, reading>>

EndWrite(d) ==
    /\ Usable(d) /\ writing[d]
    /\ writing' = [writing EXCEPT ![d] = FALSE]
    /\ UNCHANGED <<mapped, channel, inUse, reading>>

Next == \E d \in Driver :
    \/ Map(d) \/ Unmap(d) \/ Open(d) \/ Use(d) \/ Close(d) \/ CloseAndUnmap(d)
    \/ BeginRead(d) \/ EndRead(d) \/ BeginWrite(d) \/ EndWrite(d)

Spec == Init /\ [][Next]_vars
=============================================================================
