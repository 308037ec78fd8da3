----------------------------- MODULE ServerGuid -----------------------------
(***************************************************************************)
(* The server GUID when the configuration gives none, and the IP address   *)
(* in the heartbeat: getMacAddress() and getIPAddress() of                 *)
(* src/src/controlobject.cpp (Linux, little endian), called by init() and  *)
(* by every periodicEvents().                                              *)
(*                                                                         *)
(* Of a GUID the model keeps byte 7, which tells how it was made ("00" if  *)
(* it was not), and the bytes 8 to 13; the others are 0xff or 0.           *)
(***************************************************************************)
EXTENDS Integers, Sequences

CONSTANTS
    Capacity,      \* length of localaddr[], 16 in the code
    Addresses,     \* IPv4 addresses of the host, in network order
    MaxAddresses,  \* bound on how many it has
    Macs           \* hardware addresses of eth0

Byte == 0..255
ASSUME ServerGuidAssumption ==
    /\ Capacity \in Nat \ {0} /\ MaxAddresses \in Nat
    /\ Addresses \subseteq [1..4 -> Byte] /\ Macs \subseteq [1..6 -> Byte]

Place == 8..13
GUID == [tag : {"00", "fe", "fd", "cfg"}, at : [Place -> Byte]]
Null == [tag |-> "00", at |-> [p \in Place |-> 0]]

VARIABLES
    gpc,        \* what is done next
    caller,     \* who has called getIPAddress()
    m_guid,     \* the server GUID
    guid,       \* the GUID getIPAddress() makes
    list,       \* h_addr_list of the host, without its terminating NULL
    idx,
    localaddr0, \* localaddr[0], the only element that is used
    rv,         \* result of getIPAddress()
    ip          \* the address field of the last heartbeat

vars == <<gpc, caller, m_guid, guid, list, idx, localaddr0, rv, ip>>

Zero == [i \in 1..4 |-> 0]

(* m_guid.isNULL() or not.                                                 *)
Init ==
    /\ \/ gpc = "mac" /\ m_guid = Null
       \/ gpc = "loop" /\ m_guid = [Null EXCEPT !.tag = "cfg"]
    /\ caller = "init"
    /\ guid = Null /\ list = <<>> /\ idx = -1 /\ localaddr0 = Zero
    /\ rv = FALSE /\ ip = Zero

-----------------------------------------------------------------------------
(* Faulty variants of actions below, used in no specification.             *)

(* The last address kept instead of the first.                             *)
NextAddressLast ==
    /\ gpc = "next"
    /\ idx' = idx + 1
    /\ localaddr0' = IF idx' < Len(list) THEN list[idx' + 1] ELSE localaddr0
    /\ gpc' = IF idx' < Len(list) /\ idx' < Capacity THEN "next" ELSE "assemble"
    /\ UNCHANGED <<caller, m_guid, guid, list, rv, ip>>

(* The end of the list not noticed.                                        *)
NextAddressUnterminated ==
    /\ gpc = "next"
    /\ idx' = idx + 1
    /\ localaddr0' = IF idx' = 0 /\ Len(list) > 0 THEN list[1] ELSE localaddr0
    /\ gpc' = IF idx' < Capacity THEN "next" ELSE "assemble"
    /\ UNCHANGED <<caller, m_guid, guid, list, rv, ip>>

(* The heartbeat's address looked up in m_guid itself.                     *)
HeartbeatInPlace ==
    /\ gpc = "return"
    /\ gpc' = "loop"
    /\ m_guid' = guid
    /\ ip' = IF caller = "heartbeat" THEN Zero ELSE ip
    /\ UNCHANGED <<caller, guid, list, idx, localaddr0, rv>>

(* A byte kept as the signed char sa_data[] is made of.                    *)
GetMacSigned ==
    /\ gpc = "mac"
    /\ \/ /\ gpc' = "loop"
          /\ \E mac \in Macs : m_guid' = [tag |-> "fe", at |-> [p \in Place |->
               IF mac[p - 7] > 127 THEN mac[p - 7] - 256 ELSE mac[p - 7]]]
       \/ gpc' = "prefix" /\ m_guid' = Null
    /\ UNCHANGED <<caller, guid, list, idx, localaddr0, rv, ip>>

-----------------------------------------------------------------------------
(* getMacAddress(): clears the GUID, then socket() and ioctl() for eth0.   *)
GetMacAddress ==
    /\ gpc = "mac"
    /\ \/ /\ gpc' = "loop"
          /\ \E mac \in Macs : m_guid' = [tag |-> "fe", at |-> [p \in Place |-> mac[p - 7]]]
       \/ gpc' = "prefix" /\ m_guid' = Null
    /\ UNCHANGED <<caller, guid, list, idx, localaddr0, rv, ip>>

(* getIPAddress(): the prefix, then gethostbyname(), which may fail.       *)
Resolve ==
    /\ gpc = "prefix"
    /\ guid' = [Null EXCEPT !.tag = "fd"]
    /\ idx' = -1 /\ localaddr0' = Zero
    /\ \/ gpc' = "return" /\ rv' = FALSE /\ UNCHANGED list
       \/ /\ gpc' = "next"
          /\ \E n \in 0..MaxAddresses : list' \in [1..n -> Addresses]
          /\ UNCHANGED rv
    /\ UNCHANGED <<caller, m_guid, ip>>

(* One pass of do ... while.  A write behind the end of localaddr[] is     *)
(* undefined: it does no harm, or the process dies.                        *)
NextAddress ==
    /\ gpc = "next"
    /\ idx' = idx + 1
    /\ localaddr0' = IF idx' = 0 /\ Len(list) > 0 THEN list[1] ELSE localaddr0
    /\ \/ gpc' = IF idx' < Len(list) /\ idx' < Capacity THEN "next" ELSE "assemble"
       \/ idx' >= Capacity /\ gpc' = "crashed"
    /\ UNCHANGED <<caller, m_guid, guid, list, rv, ip>>

(* The address was loaded as a number, so its first byte in memory is the  *)
(* least significant one.                                                  *)
Assemble ==
    /\ gpc = "assemble"
    /\ gpc' = "return"
    /\ guid' = [guid EXCEPT !.at = [p \in Place |->
                  IF p <= 11 THEN localaddr0[12 - p] ELSE 0]]
    /\ rv' = TRUE
    /\ UNCHANGED <<caller, m_guid, list, idx, localaddr0, ip>>

(* init() passes m_guid and ignores the result; periodicEvents() passes a  *)
(* GUID of its own.                                                        *)
Return ==
    /\ gpc = "return"
    /\ gpc' = "loop"
    /\ IF caller = "init"
       THEN m_guid' = guid /\ UNCHANGED ip
       ELSE /\ ip' = IF rv THEN [i \in 1..4 |-> guid.at[i + 7]] ELSE Zero
            /\ UNCHANGED m_guid
    /\ UNCHANGED <<caller, guid, list, idx, localaddr0, rv>>

(* The fourth event of periodicEvents(), once a minute.                    *)
Heartbeat ==
    /\ gpc = "loop"
    /\ gpc' = "prefix"
    /\ caller' = "heartbeat"
    /\ UNCHANGED <<m_guid, guid, list, idx, localaddr0, rv, ip>>

Next == GetMacAddress \/ Resolve \/ NextAddress \/ Assemble \/ Return \/ Heartbeat

Spec == Init /\ [][Next]_vars

-----------------------------------------------------------------------------
(* Properties.                                                             *)

(* Every variable keeps its type; the bytes of a GUID are unsigned.        *)
TypeOK ==
    /\ gpc \in {"mac", "prefix", "next", "assemble", "return", "loop", "crashed"}
    /\ caller \in {"init", "heartbeat"}
    /\ m_guid \in GUID /\ guid \in GUID
    /\ list \in Seq(Addresses)
    /\ idx \in -1..Capacity
    /\ localaddr0 \in [1..4 -> Byte] /\ ip \in [1..4 -> Byte]
    /\ rv \in BOOLEAN

(* The server GUID is never null once the daemon works, whichever of the   *)
(* two look-ups of init() fail, and no heartbeat ever changes it, although *)
(* getIPAddress() clears and rewrites the GUID it is given.                *)
GuidStable == [][caller = "heartbeat" => m_guid # Null /\ m_guid' = m_guid]_vars

(* The loop over h_addr_list reads no pointer behind the terminating NULL, *)
(* however many addresses the host has.  (How many bytes it then takes     *)
(* from the address a pointer leads to is outside this model: the code     *)
(* reads it through an unsigned long *.)                                   *)
ReadsInList == gpc \in {"next", "assemble"} => idx <= Len(list)

(* An address that is passed on is the first one of the host, all of it,   *)
(* and zero for a host without addresses.  (Its bytes come in reverse: the *)
(* documented form FD:YY:YY:YY:YY of the IP address has them in order.)    *)
FirstAddressUsed ==
    gpc = "return" /\ rv => \A i \in 1..4 :
        guid.at[12 - i] = IF list = <<>> THEN 0 ELSE list[1][i]

(* "max 16 local addresses": the loop writes only into localaddr[].        *)
WritesInArray == idx < Capacity
=============================================================================
