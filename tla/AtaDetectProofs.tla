-------------------------- MODULE AtaDetectProofs ---------------------------
(***************************************************************************)
(* For every set of media: what identify_ata_devices, detect_ata_devices   *)
(* and check_and_set_atapi_device select is a CD drive that can be read,   *)
(* and the first one on record.                                            *)
(***************************************************************************)
EXTENDS AtaDetect, TLAPS

USE DetectAssumption DEF DetectAssumption

-----------------------------------------------------------------------------
(* The inductive invariant.                                                *)

\* A record never claims more than what is in the bay.
RecordsTrue ==
  \A s \in Slots :
    /\ is_atapi[s] => bay[s].kind = "atapi"
    /\ sector_size[s] # 0 => /\ bay[s].kind = "atapi"
                             /\ sector_size[s] = bay[s].medium

\* The pointer only moves to drives on record, and only if the first look
\* through it, at address 0, was lucky.
PointerMoved == device # 0 => stray /\ is_atapi[device]

BeforeCheck == pc \in {"identify", "detect"} => device = 0 /\ i <= 4

\* A good drive that was passed over was passed over for that one reason.
PassedOver == pc \in {"check", "found"} =>
                \A s \in RecordedGood : s < i => ~stray

Ends == /\ pc = "found" => /\ device = i /\ device \in RecordedGood
        /\ pc = "not_found" => RecordedGood = {} \/ ~stray

IInv == TypeOK /\ RecordsTrue /\ PointerMoved /\ BeforeCheck /\ PassedOver /\ Ends

-----------------------------------------------------------------------------

(* Before anything is known every record is empty.                         *)
LEMMA InitIInv == Init => IInv
  BY DEF Init, IInv, TypeOK, RecordsTrue, PointerMoved, BeforeCheck, PassedOver,
         Ends, Slots

(* One position is detected: only its own record changes.                  *)
LEMMA DetectKeeps == IInv /\ Detect => IInv'
<1> SUFFICES ASSUME IInv, Detect PROVE IInv'
  OBVIOUS
<1>1. /\ pc = "detect" /\ i \in Slots /\ device = 0
      /\ bay[i] \in Bays
      /\ UNCHANGED <<bay, floats, device, stray>>
      /\ \/ i < 4 /\ i' = i + 1 /\ pc' = "detect"
         \/ i = 4 /\ i' = 1 /\ pc' = "check"
  BY DEF IInv, TypeOK, BeforeCheck, Detect, NoDevice, Disk, AtapiDrive,
         Unrecognised, Advance, Slots
<1>2. /\ connected' \in [Slots -> BOOLEAN]
      /\ is_atapi' \in [Slots -> BOOLEAN]
      /\ sector_size' \in [Slots -> Media \cup {0}]
      /\ RecordsTrue'
  <2> USE <1>1 DEF IInv, TypeOK, RecordsTrue
  <2>1. CASE NoDevice
    BY <2>1 DEF NoDevice
  <2>2. CASE Disk
    BY <2>2 DEF Disk
  <2>3. CASE AtapiDrive
    <3>1. bay[i].kind = "atapi" /\ bay[i].medium \in Media
      BY <2>3 DEF AtapiDrive, Signatures, Bays
    <3>2. PICK n \in {bay[i].medium, 0} :
             sector_size' = [sector_size EXCEPT ![i] = n]
      BY <2>3 DEF AtapiDrive, Capacity
    <3> QED
      BY <2>3, <3>1, <3>2 DEF AtapiDrive
  <2>4. CASE Unrecognised
    BY <2>4 DEF Unrecognised
  <2> QED
    BY <2>1, <2>2, <2>3, <2>4 DEF Detect
<1>3. TypeOK'
  BY <1>1, <1>2 DEF IInv, TypeOK, Slots
<1>4. (PointerMoved /\ BeforeCheck /\ PassedOver /\ Ends)'
  BY <1>1 DEF PointerMoved, BeforeCheck, PassedOver, Ends, RecordedGood, Slots
<1> QED
  BY <1>2, <1>3, <1>4 DEF IInv

(* A device is passed over: unless it is not usable, the NULL pointer told *)
(* that no device is.                                                      *)
LEMMA NextDeviceKeeps == IInv /\ NextDevice => IInv'
<1> SUFFICES ASSUME IInv, NextDevice PROVE IInv'
  OBVIOUS
<1>1. /\ pc = "check" /\ i \in Slots /\ i' = i + 1
      /\ UNCHANGED <<pc, bay, floats, is_atapi, connected, sector_size, stray>>
      /\ RecordedGood' = RecordedGood
  BY DEF IInv, TypeOK, NextDevice, Slots, RecordedGood
<1>2. device' = device \/ (device' = i /\ is_atapi[i] /\ Passes)
  BY DEF NextDevice, Skip, Reject, WrongSize
<1>3. Passes => stray
  BY DEF Passes, IInv, PointerMoved
<1>4. i \in RecordedGood => ~stray
  BY DEF IInv, PointerMoved, NextDevice, Skip, Reject, WrongSize, Passes, Usable,
         RecordedGood
<1>5. TypeOK' /\ RecordsTrue'
  BY <1>1, <1>2 DEF IInv, TypeOK, RecordsTrue, Slots
<1>6. PointerMoved'
  BY <1>1, <1>2, <1>3 DEF IInv, PointerMoved
<1>7. (BeforeCheck /\ PassedOver /\ Ends)'
  BY <1>1, <1>4 DEF IInv, BeforeCheck, PassedOver, Ends, RecordedGood, Slots
<1> QED
  BY <1>5, <1>6, <1>7 DEF IInv

(* Every other step; and so the invariant holds in every reachable state.  *)
LEMMA Invariance == Spec => []IInv
<1>1. IInv /\ [Next]_vars => IInv'
  <2> SUFFICES ASSUME IInv, [Next]_vars PROVE IInv'
    OBVIOUS
  <2> USE DEF IInv, TypeOK, RecordsTrue, PointerMoved, BeforeCheck, PassedOver,
              Ends, RecordedGood, Slots
  <2>1. CASE Identify
    BY <2>1 DEF Identify, Advance
  <2>2. CASE Detect
    BY <2>2, DetectKeeps
  <2>3. CASE NextDevice
    BY <2>3, NextDeviceKeeps
  <2>4. CASE Found
    BY <2>4 DEF Found, Passes, Usable
  <2>5. CASE NotFound
    BY <2>5 DEF NotFound
  <2>6. CASE UNCHANGED vars
    BY <2>6 DEF vars
  <2> QED
    BY <2>1, <2>2, <2>3, <2>4, <2>5, <2>6 DEF Next
<1> QED
  BY InitIInv, <1>1, PTL DEF Spec

(* Phases, records and pointer keep their types (ata.c, ata.inc).          *)
THEOREM TypeCorrect == Spec => []TypeOK
  BY Invariance, PTL DEF IInv

(* The device read_sector will use is a CD drive with a readable medium,   *)
(* whatever answered late or with an error (ata.c:420-463).                *)
THEOREM FoundDeviceIsUsable == Spec => []FoundIsUsable
<1>1. IInv => FoundIsUsable
  <2> SUFFICES ASSUME IInv, pc = "found" PROVE FoundIsUsable
    BY DEF FoundIsUsable
  <2>1. /\ device \in Slots /\ bay[device] \in Bays
        /\ bay[device].kind = "atapi" /\ bay[device].medium = Good
    BY DEF IInv, TypeOK, RecordsTrue, Ends, RecordedGood
  <2> QED
    BY <2>1 DEF FoundIsUsable, Bays
<1> QED
  BY <1>1, Invariance, PTL

(* The first drive on record is taken; all are overlooked only when the    *)
(* first look through the NULL pointer read a zero (ata.c:447).            *)
THEOREM FirstUsableIsFound == Spec => []FirstUsableWins
<1>1. IInv => FirstUsableWins
  BY DEF IInv, TypeOK, PointerMoved, PassedOver, Ends, FirstUsableWins,
         RecordedGood, Slots
<1> QED
  BY <1>1, Invariance, PTL
=============================================================================
