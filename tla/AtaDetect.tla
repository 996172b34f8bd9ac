----------------------------- MODULE AtaDetect ------------------------------
(***************************************************************************)
(* Finding the CD drive: identify_ata_devices (ata.inc:185-373), then      *)
(* detect_ata_devices and check_and_set_atapi_device (ata.c:143-368,       *)
(* 420-463) over the four positions of the two ATA channels.               *)
(*                                                                         *)
(* What a drive answers depends on how fast it is: the wait after the soft *)
(* reset is bounded (ata.c:152), and a READ CAPACITY that ends in ERR (as  *)
(* the first command after a reset may) is not repeated (ata.c:340-344).   *)
(***************************************************************************)
EXTENDS Naturals

CONSTANTS Media,      \* block sizes of the media that may be inserted
          Good        \* 2048, the block size the file system needs

ASSUME DetectAssumption == /\ Good \in Media
                           /\ Media \subseteq Nat \ {0}

Slots == 1..4

\* What a position of a channel holds (hardware).
Bays == [kind : {"none", "disk"}, medium : {0}]
          \cup [kind : {"atapi"}, medium : Media]

VARIABLES pc, i,          \* phase of the boot and the position it is at
          bay,
          floats,         \* whether an absent master reads as 0xFF (a slave that
                          \* is alone may answer in its place)
          is_atapi, connected, sector_size,   \* fields of the four records
          device,         \* the global pointer, 0 for NULL
          stray           \* what device->is_atapi reads while it is NULL

vars == <<pc, i, bay, floats, is_atapi, connected, sector_size, device, stray>>

TypeOK == /\ pc \in {"identify", "detect", "check", "found", "not_found"}
          /\ i \in 1..5
          /\ bay \in [Slots -> Bays]
          /\ floats \in BOOLEAN
          /\ is_atapi \in [Slots -> BOOLEAN]
          /\ connected \in [Slots -> BOOLEAN]
          /\ sector_size \in [Slots -> Media \cup {0}]
          /\ device \in Slots \cup {0}
          /\ stray \in BOOLEAN

Init == /\ pc = "identify" /\ i = 1
        /\ bay \in [Slots -> Bays]
        /\ floats \in BOOLEAN
        /\ is_atapi = [s \in Slots |-> FALSE]
        /\ connected = [s \in Slots |-> FALSE]
        /\ sector_size = [s \in Slots |-> 0]
        /\ device = 0
        /\ stray \in BOOLEAN

-----------------------------------------------------------------------------
(* Faulty variants, one per property.                                      *)

\* READ CAPACITY's first number, the last block, is taken for the size.
CapacityLba(b) == {b.medium + 1}

\* A drive with another block size is accepted.
UsableAny(s) == is_atapi[s]

\* The global pointer's size is tested before the pointer is moved.
UsablePrevious(s) == device # 0 /\ sector_size[device] = Good

\* The loop over the table ends one device early.
NotFoundEarly == /\ pc = "check" /\ i >= 4
                 /\ pc' = "not_found"
                 /\ UNCHANGED <<i, bay, floats, is_atapi, connected, sector_size,
                                device, stray>>

\* continue without counting.
NextDeviceSame == /\ pc = "check" /\ i <= 4
                  /\ UNCHANGED <<pc, i, bay, floats, is_atapi, connected,
                                 sector_size, device, stray>>

-----------------------------------------------------------------------------
(* identify_device: "test bx, 0" and "test cx, 0" never set a flag that    *)
(* the jne behind them could see, so every call addresses the primary      *)
(* master.  Its BSY poll has no bound.                                     *)

Target(s) == 1

Busy(s) == floats /\ bay[s].kind = "none"

Advance(next) == IF i < 4 THEN i' = i + 1 /\ pc' = pc ELSE i' = 1 /\ pc' = next

Identify == /\ pc = "identify"
            /\ ~Busy(Target(i))
            /\ Advance("detect")
            /\ UNCHANGED <<bay, floats, is_atapi, connected, sector_size, device,
                           stray>>

-----------------------------------------------------------------------------
(* detect_device_ata_atapi.                                                *)

\* The bytes in LBA1 and LBA2; a drive that is still in reset when the
\* bounded wait gives up shows anything else.
Signatures(b) == CASE b.kind = "none"  -> {"FFFF", "0000"}
                   [] b.kind = "disk"  -> {"0000", "unknown"}
                   [] b.kind = "atapi" -> {"14EB", "0000", "unknown"}

\* What READ CAPACITY leaves in atapi_sector_size: an error leaves 0.
Capacity(b) == {b.medium, 0}

NoDevice == /\ pc = "detect" /\ "FFFF" \in Signatures(bay[i])
            /\ connected' = [connected EXCEPT ![i] = FALSE]
            /\ UNCHANGED <<is_atapi, sector_size>>

Disk == /\ pc = "detect" /\ "0000" \in Signatures(bay[i])
        /\ connected' = [connected EXCEPT ![i] = TRUE]
        /\ is_atapi' = [is_atapi EXCEPT ![i] = FALSE]
        /\ UNCHANGED sector_size

AtapiDrive == /\ pc = "detect" /\ "14EB" \in Signatures(bay[i])
              /\ connected' = [connected EXCEPT ![i] = TRUE]
              /\ is_atapi' = [is_atapi EXCEPT ![i] = TRUE]
              /\ \E n \in Capacity(bay[i]) :
                   sector_size' = [sector_size EXCEPT ![i] = n]

Unrecognised == /\ pc = "detect" /\ "unknown" \in Signatures(bay[i])
                /\ UNCHANGED <<is_atapi, connected, sector_size>>

Detect == /\ NoDevice \/ Disk \/ AtapiDrive \/ Unrecognised
          /\ Advance("check")
          /\ UNCHANGED <<bay, floats, device, stray>>

-----------------------------------------------------------------------------
(* check_and_set_atapi_device and check_for_atapi.                         *)

\* check_for_atapi tests the global pointer, not its argument (ata.c:447).
Passes == IF device = 0 THEN stray ELSE is_atapi[device]

Usable(s) == sector_size[s] = Good

Skip == ~is_atapi[i] /\ UNCHANGED device

Reject == is_atapi[i] /\ ~Passes /\ UNCHANGED device

WrongSize == is_atapi[i] /\ Passes /\ ~Usable(i) /\ device' = i

NextDevice == /\ pc = "check" /\ i <= 4
              /\ Skip \/ Reject \/ WrongSize
              /\ i' = i + 1
              /\ UNCHANGED <<pc, bay, floats, is_atapi, connected, sector_size,
                             stray>>

Found == /\ pc = "check" /\ i <= 4
         /\ is_atapi[i] /\ Passes /\ Usable(i)
         /\ device' = i
         /\ pc' = "found"
         /\ UNCHANGED <<i, bay, floats, is_atapi, connected, sector_size, stray>>

NotFound == /\ pc = "check" /\ i = 5
            /\ pc' = "not_found"
            /\ UNCHANGED <<i, bay, floats, is_atapi, connected, sector_size,
                           device, stray>>

Next == Identify \/ Detect \/ NextDevice \/ Found \/ NotFound

Spec == Init /\ [][Next]_vars
FairSpec == Spec /\ WF_vars(Next)

-----------------------------------------------------------------------------
(* Properties.                                                             *)

(* The device read_sector will use is a CD drive with a readable medium:   *)
(* what the records say agrees with what is in the bay, for every mixture  *)
(* of drives and every drive that answered late or with an error.          *)
FoundIsUsable ==
  pc = "found" => /\ device \in Slots
                  /\ bay[device] = [kind |-> "atapi", medium |-> Good]

(* Of the drives recorded as good the first in the order of the table is   *)
(* taken; all of them are only overlooked when the very first test, made   *)
(* through the NULL pointer (ata.c:447), read a zero.                      *)
RecordedGood == {s \in Slots : is_atapi[s] /\ sector_size[s] = Good}
FirstUsableWins ==
  /\ pc = "found" => \A s \in RecordedGood : device <= s
  /\ pc = "not_found" => RecordedGood = {} \/ ~stray

(* The search ends unless the first channel has no master and reads as     *)
(* 0xFF: the unbounded poll of identify_device then never ends.            *)
Terminates == ~Busy(1) => <>(pc \in {"found", "not_found"})
=============================================================================
