-------------------------- MODULE ServerGuidProofs --------------------------
(* Theorems about module ServerGuid, for every host: any number of         *)
(* addresses, any length of localaddr[], any hardware address.             *)
EXTENDS ServerGuid, TLAPS

InIPAddress == {"next", "assemble", "return"}

(* Who may be where: getMacAddress() is called by init() only, a GUID      *)
(* under construction carries its prefix, and once the main loop has been  *)
(* reached there is a server GUID.                                         *)
CallInv ==
    /\ gpc = "mac" => caller = "init"
    /\ gpc \in InIPAddress => guid.tag = "fd"
    /\ caller = "heartbeat" \/ gpc = "loop" => m_guid # Null

(* The loop over the list: it goes on only inside the list and the array,  *)
(* and has kept the first address.                                         *)
LoopInv ==
    /\ gpc = "next" => idx < Len(list) /\ idx < Capacity
    /\ gpc = "assemble" => idx >= 0 /\ idx <= Len(list)
    /\ gpc \in {"next", "assemble"} =>
         localaddr0 = IF idx = -1 \/ list = <<>> THEN Zero ELSE list[1]

Inv == TypeOK /\ CallInv /\ LoopInv /\ FirstAddressUsed

USE ServerGuidAssumption

LEMMA ZeroByte == 0 \in Byte /\ Zero \in [1..4 -> Byte] /\ Null \in GUID
<1>1. 0 \in Byte
  BY SMT DEF Byte
<1> QED
  BY <1>1, SMT DEF Zero, Null, GUID

(* Of every GUID the tag and the bytes have their types.                   *)
LEMMA Tagged ==
    ASSUME NEW t \in {"00", "fe", "fd", "cfg"}, NEW a \in [Place -> Byte]
    PROVE  [tag |-> t, at |-> a] \in GUID
BY SMT DEF GUID

LEMMA InvInit == Init => Inv
<1> SUFFICES ASSUME Init PROVE Inv
  OBVIOUS
<1>1. m_guid \in GUID /\ (gpc = "loop" => m_guid # Null)
  BY ZeroByte, SMT DEF Init, Null, GUID
<1>2. list \in Seq(Addresses) /\ idx \in -1..Capacity
  BY SMT DEF Init
<1>3. TypeOK
  <2>1. /\ gpc \in {"mac", "loop"} /\ caller = "init" /\ rv \in BOOLEAN
        /\ guid = Null /\ localaddr0 = Zero /\ ip = Zero
    BY Zenon DEF Init
  <2> QED
    BY <1>1, <1>2, <2>1, ZeroByte, SMT DEF TypeOK
<1> QED
  BY <1>1, <1>3, SMT DEF Init, Inv, CallInv, LoopInv, FirstAddressUsed, InIPAddress

LEMMA GetMacAddressStep == Inv /\ GetMacAddress => Inv'
<1> SUFFICES ASSUME Inv, GetMacAddress PROVE Inv'
  OBVIOUS
<1>1. /\ gpc = "mac" /\ gpc' \in {"loop", "prefix"} /\ caller = "init"
      /\ UNCHANGED <<caller, guid, list, idx, localaddr0, rv, ip>>
  BY SMT DEF GetMacAddress, Inv, CallInv
<1>2. m_guid' \in GUID /\ (gpc' = "loop" => m_guid' # Null)
  <2>1. CASE gpc' = "prefix" /\ m_guid' = Null
    BY <2>1, ZeroByte, SMT
  <2>2. CASE /\ gpc' = "loop"
             /\ \E mac \in Macs : m_guid' = [tag |-> "fe", at |-> [p \in Place |-> mac[p - 7]]]
    <3>1. PICK mac \in Macs : m_guid' = [tag |-> "fe", at |-> [p \in Place |-> mac[p - 7]]]
      BY <2>2
    <3>2. mac \in [1..6 -> Byte]
      BY SMT
    <3>3. [p \in Place |-> mac[p - 7]] \in [Place -> Byte]
      BY <3>2, SMT DEF Place
    <3>4. m_guid' \in GUID
      BY <3>1, <3>3, Tagged
    <3>5. m_guid'.tag = "fe" /\ Null.tag = "00"
      BY <3>1, SMT DEF Null
    <3> QED
      BY <3>4, <3>5, SMT
  <2> QED
    BY <2>1, <2>2, SMT DEF GetMacAddress
<1> QED
  BY <1>1, <1>2, SMT DEF Inv, TypeOK, CallInv, LoopInv, FirstAddressUsed, InIPAddress

LEMMA ResolveStep == Inv /\ Resolve => Inv'
<1> SUFFICES ASSUME Inv, Resolve PROVE Inv'
  OBVIOUS
<1>1. /\ gpc = "prefix" /\ guid' = [Null EXCEPT !.tag = "fd"]
      /\ idx' = -1 /\ localaddr0' = Zero /\ gpc' \in {"return", "next"}
      /\ gpc' = "return" => rv' = FALSE
      /\ rv' \in BOOLEAN
      /\ UNCHANGED <<caller, m_guid, ip>>
  BY Zenon DEF Resolve, Inv, TypeOK
<1>2. guid' \in GUID /\ guid'.tag = "fd"
  BY <1>1, ZeroByte, SMT DEF GUID
<1>3. list' \in Seq(Addresses)
  <2>1. CASE UNCHANGED list
    BY <2>1, SMT DEF Inv, TypeOK
  <2>2. CASE \E n \in 0..MaxAddresses : list' \in [1..n -> Addresses]
    BY <2>2, SMT
  <2> QED
    BY <2>1, <2>2, SMT DEF Resolve
<1>4. Len(list') \in Nat /\ Capacity > 0
  BY <1>3, SMT
<1> QED
  BY <1>1, <1>2, <1>3, <1>4, ZeroByte, SMT DEF Inv, TypeOK, CallInv, LoopInv,
     FirstAddressUsed, InIPAddress

LEMMA NextAddressStep == Inv /\ NextAddress => Inv'
<1> SUFFICES ASSUME Inv, NextAddress PROVE Inv'
  OBVIOUS
<1>1. /\ gpc = "next" /\ idx' = idx + 1
      /\ localaddr0' = IF idx' = 0 /\ Len(list) > 0 THEN list[1] ELSE localaddr0
      /\ gpc' \in {"next", "assemble", "crashed"}
      /\ gpc' = "next" => idx' < Len(list) /\ idx' < Capacity
      /\ UNCHANGED <<caller, m_guid, guid, list, rv, ip>>
  BY SMT DEF NextAddress
<1>2. /\ idx \in -1..Capacity /\ list \in Seq(Addresses) /\ Len(list) \in Nat
      /\ idx < Len(list) /\ idx < Capacity
      /\ localaddr0 = IF idx = -1 \/ list = <<>> THEN Zero ELSE list[1]
  BY <1>1, SMT DEF Inv, TypeOK, LoopInv
<1>3. Len(list) > 0 => list[1] \in [1..4 -> Byte] /\ list # <<>>
  BY <1>2, SMT
<1>4. Len(list) = 0 => list = <<>>
  BY <1>2, SMT
<1>5. localaddr0' = IF idx' = -1 \/ list = <<>> THEN Zero ELSE list[1]
  BY <1>1, <1>2, <1>3, <1>4, SMT
<1>6. localaddr0' \in [1..4 -> Byte] /\ idx' \in -1..Capacity
  BY <1>1, <1>2, <1>3, SMT DEF Inv, TypeOK
<1> QED
  BY <1>1, <1>2, <1>5, <1>6, SMT DEF Inv, TypeOK, CallInv, LoopInv,
     FirstAddressUsed, InIPAddress

LEMMA AssembleStep == Inv /\ Assemble => Inv'
<1> SUFFICES ASSUME Inv, Assemble PROVE Inv'
  OBVIOUS
<1> DEFINE a == [p \in Place |-> IF p <= 11 THEN localaddr0[12 - p] ELSE 0]
<1>1. /\ gpc = "assemble" /\ gpc' = "return" /\ rv' = TRUE
      /\ guid' = [guid EXCEPT !.at = a]
      /\ UNCHANGED <<caller, m_guid, list, idx, localaddr0, ip>>
  BY SMT DEF Assemble
<1>2. /\ localaddr0 \in [1..4 -> Byte] /\ guid \in GUID /\ guid.tag = "fd"
      /\ idx >= 0 /\ idx \in Int
      /\ localaddr0 = IF list = <<>> THEN Zero ELSE list[1]
  BY <1>1, SMT DEF Inv, TypeOK, LoopInv, CallInv, InIPAddress
<1>3. a \in [Place -> Byte] /\ \A i \in 1..4 : a[12 - i] = localaddr0[i]
  BY <1>2, ZeroByte, SMT DEF Place
<1> HIDE DEF a
<1>4. guid' \in GUID /\ guid'.tag = "fd" /\ guid'.at = a
  BY <1>1, <1>2, <1>3, SMT DEF GUID
<1>5. FirstAddressUsed'
  BY <1>1, <1>2, <1>3, <1>4, SMT DEF FirstAddressUsed, Zero
<1> QED
  BY <1>1, <1>4, <1>5, SMT DEF Inv, TypeOK, CallInv, LoopInv, InIPAddress

LEMMA ReturnStep == Inv /\ Return => Inv'
<1> SUFFICES ASSUME Inv, Return PROVE Inv'
  OBVIOUS
<1>1. /\ gpc = "return" /\ gpc' = "loop"
      /\ UNCHANGED <<caller, guid, list, idx, localaddr0, rv>>
      /\ caller = "init" => m_guid' = guid /\ ip' = ip
      /\ caller # "init" =>
           /\ m_guid' = m_guid
           /\ ip' = IF rv THEN [i \in 1..4 |-> guid.at[i + 7]] ELSE Zero
  BY SMT DEF Return
<1>2. guid \in GUID /\ guid # Null /\ guid.at \in [Place -> Byte]
  BY <1>1, SMT DEF Inv, TypeOK, GUID, CallInv, InIPAddress, Null
<1>3. [i \in 1..4 |-> guid.at[i + 7]] \in [1..4 -> Byte]
  BY <1>2, SMT DEF Place
<1>4. ip' \in [1..4 -> Byte]
  BY <1>1, <1>3, ZeroByte, SMT DEF Inv, TypeOK
<1> QED
  BY <1>1, <1>2, <1>4, SMT DEF Inv, TypeOK, CallInv, LoopInv, FirstAddressUsed,
     InIPAddress

LEMMA HeartbeatStep == Inv /\ Heartbeat => Inv'
BY SMT DEF Heartbeat, Inv, TypeOK, CallInv, LoopInv, FirstAddressUsed, InIPAddress

(* The inductive invariant holds in every reachable state.                 *)
THEOREM Invariance == Spec => []Inv
<1>1. Init => Inv
  BY InvInit
<1>2. Inv /\ UNCHANGED vars => Inv'
  BY SMT DEF vars, Inv, TypeOK, CallInv, LoopInv, FirstAddressUsed
<1>3. Inv /\ [Next]_vars => Inv'
  BY <1>2, GetMacAddressStep, ResolveStep, NextAddressStep, AssembleStep,
     ReturnStep, HeartbeatStep DEF Next
<1> QED
  BY <1>1, <1>3, PTL DEF Spec

(* The GUIDs keep their type; idx never exceeds the length of localaddr[]  *)
(* by more than the one element behind its end.                            *)
THEOREM TypeCorrect == Spec => []TypeOK
BY Invariance, PTL DEF Inv

(* No read goes behind the NULL that ends the list of addresses.           *)
THEOREM Reads == Spec => []ReadsInList
<1>1. Inv => ReadsInList
  BY SMT DEF Inv, TypeOK, LoopInv, ReadsInList
<1> QED
  BY Invariance, <1>1, PTL

(* The address passed on is the first one of the host.                     *)
THEOREM FirstAddress == Spec => []FirstAddressUsed
BY Invariance, PTL DEF Inv

(* The heartbeat finds a server GUID and leaves it alone.                  *)
THEOREM Stable == Spec => GuidStable
<1>1. Inv /\ [Next]_vars => [caller = "heartbeat" => m_guid # Null /\ m_guid' = m_guid]_vars
  BY SMT DEF Inv, CallInv, Next, GetMacAddress, Resolve, NextAddress, Assemble,
     Return, Heartbeat, vars
<1> QED
  BY Invariance, <1>1, PTL DEF Spec, GuidStable

(* The loop is inside the list, and the list as long as a host has it.     *)
Bounded == Len(list) <= MaxAddresses /\ idx <= Len(list)

LEMMA BoundedStep == Inv /\ Bounded /\ [Next]_vars => Bounded'
<1> SUFFICES ASSUME Inv, Bounded, [Next]_vars PROVE Bounded'
  OBVIOUS
<1>1. list \in Seq(Addresses) /\ Len(list) \in Nat /\ idx \in Int
  BY SMT DEF Inv, TypeOK
<1>2. CASE Resolve
  <2>1. idx' = -1 /\ (list' = list \/ \E n \in 0..MaxAddresses : list' \in [1..n -> Addresses])
    BY <1>2, Zenon DEF Resolve
  <2>2. ASSUME NEW n \in 0..MaxAddresses, list' \in [1..n -> Addresses]
        PROVE  Len(list') = n
    BY <2>2, SMT
  <2>3. Len(list') \in Nat /\ Len(list') <= MaxAddresses
    BY <1>1, <2>1, <2>2, SMT DEF Bounded
  <2> QED
    BY <2>1, <2>3, SMT DEF Bounded
<1>3. CASE NextAddress
  <2>1. idx < Len(list) /\ idx' = idx + 1 /\ list' = list
    BY <1>3, SMT DEF NextAddress, Inv, LoopInv
  <2> QED
    BY <1>1, <2>1, SMT DEF Bounded
<1>4. CASE GetMacAddress \/ Assemble \/ Return \/ Heartbeat \/ UNCHANGED vars
  <2>1. UNCHANGED <<list, idx>>
    BY <1>4, SMT DEF GetMacAddress, Assemble, Return, Heartbeat, vars
  <2> QED
    BY <2>1, SMT DEF Bounded
<1> QED
  BY <1>2, <1>3, <1>4, Zenon DEF Next

(* A host with fewer addresses than localaddr[] has elements never makes   *)
(* the loop write behind the array: the loop ends at the NULL first, so    *)
(* the test of idx that comes too late does no harm.                       *)
THEOREM ShortHost == Spec => [](MaxAddresses < Capacity => WritesInArray)
<1>1. Init => Bounded
  BY SMT DEF Init, Bounded
<1>2. Inv /\ Bounded => (MaxAddresses < Capacity => WritesInArray)
  <2>1. Inv => Len(list) \in Nat /\ idx \in Int
    BY SMT DEF Inv, TypeOK
  <2> QED
    BY <2>1, SMT DEF Bounded, WritesInArray
<1> QED
  BY <1>1, <1>2, BoundedStep, Invariance, PTL DEF Spec
=============================================================================
