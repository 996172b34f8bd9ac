----------------------------- MODULE AtapiRead ------------------------------
(***************************************************************************)
(* read_sector and the PIO driver behind it, ata_device_read_sector_atapi  *)
(* (ata.c:492-565, 594-598), running against an ATAPI drive.  Driver and   *)
(* drive are two processes that share the task file: the drive moves       *)
(* between its phases at its own pace while the driver polls the status    *)
(* register, and any command of the drive may end in ERR.                  *)
(*                                                                         *)
(* The drive comes from detection (ata.c:265-344), whose READ CAPACITY     *)
(* returns as soon as its eight bytes are read, without waiting for the    *)
(* end of the command; and the driver selects the drive and writes its     *)
(* command without looking at BSY (ata.c:502-508).  The first command can  *)
(* therefore reach a drive that is still finishing, which ignores it.      *)
(*                                                                         *)
(* _read_12 (ata.c:492) is only ever set to 0, but it is in .bss, which    *)
(* nobody clears: what memory held there decides between READ(10) and      *)
(* READ(12) of the one sector, and whether a failed packet is tried again. *)
(***************************************************************************)
EXTENDS Naturals

CONSTANTS Lbas, NoLba, Junk, Units,
          IsAtapi,     \* dev->is_atapi of the device chosen at boot
          BlockSizes   \* the byte counts the drive may announce for one DRQ

ASSUME AtapiAssumption == /\ NoLba \notin Lbas
                          /\ Junk \notin Lbas
                          /\ Units \in Nat \ {0}
                          /\ IsAtapi \in BOOLEAN
                          /\ BlockSizes \subseteq 1..Units

VARIABLES pc,          \* where the driver is; "idle" outside read_sector
          lba,         \* argument of the call in progress
          buf,         \* for each piece of the caller's buffer, its sector
          read_12,     \* whether _read_12 is nonzero
          phase,       \* what the drive is doing
          err,         \* ERR bit of the status register
          count,       \* byte count registers (ATA_REG_LBA1, ATA_REG_LBA2)
          target,      \* the sector named by the last packet the drive took
          sent         \* pieces of it the drive has delivered

driverVars == <<pc, lba, buf, read_12>>
driveVars  == <<phase, err, count, target, sent>>
vars == <<pc, lba, buf, read_12, phase, err, count, target, sent>>

Pieces == 1..Units

PCs    == {"idle", "command", "poll_packet", "packet", "poll_data",
           "transfer", "poll_end"}
Phases == {"ready", "accepting", "await_packet", "executing", "data",
           "finishing"}

TypeOK == /\ pc \in PCs
          /\ lba \in Lbas \cup {NoLba}
          /\ buf \in [Pieces -> Lbas \cup {Junk}]
          /\ read_12 \in BOOLEAN
          /\ phase \in Phases
          /\ err \in {0, 1}
          /\ count \in 0..Units
          /\ target \in Lbas \cup {NoLba}
          /\ sent \in 0..Units

-----------------------------------------------------------------------------
(* The status register as the driver's inb sees it.                        *)

BSY  == phase \in {"accepting", "executing", "finishing"}
DRQ  == phase \in {"await_packet", "data"}
DRDY == ~BSY
ERR  == err = 1

Init == /\ pc = "idle"
        /\ lba = NoLba
        /\ buf = [i \in Pieces |-> Junk]
        /\ read_12 \in BOOLEAN               \* not cleared
        /\ phase \in {"ready", "finishing"}   \* READ CAPACITY was not awaited
        /\ err = 0
        /\ count = 0
        /\ target = NoLba
        /\ sent = 0

-----------------------------------------------------------------------------
(* Faulty variants of the driver, one per property: what each run must      *)
(* notice.                                                                  *)

\* The byte count limit is programmed for two sectors.
IssueCommandTwoSectors == /\ pc = "command"
                          /\ pc' = "poll_packet"
                          /\ IF BSY THEN UNCHANGED driveVars
                                    ELSE /\ count' = 2 * Units
                                         /\ phase' = "accepting"
                                         /\ err' = 0
                                         /\ sent' = 0
                                         /\ UNCHANGED target
                          /\ UNCHANGED <<lba, read_12, buf>>

\* A failed command is issued again, as often as it fails.
GiveUpAndRetry == /\ pc \in {"poll_packet", "poll_data", "poll_end"}
                  /\ ERR
                  /\ pc' = "command"
                  /\ UNCHANGED <<lba, read_12, buf, driveVars>>

\* The data is fetched without waiting for DRQ.
PollDataNoWait == /\ pc = "poll_data"
                  /\ ~ERR
                  /\ pc' = "transfer"
                  /\ UNCHANGED <<lba, read_12, buf, driveVars>>

\* size_to_read / 2 taken for the number of bytes.
StoredHalf(n) == [i \in Pieces |->
                   IF 2 * i > n THEN buf[i]
                   ELSE IF phase = "data" THEN target ELSE Junk]

\* The function returns as soon as the last word is read.
PollEndNoWait == /\ pc = "poll_end"
                 /\ ~ERR
                 /\ pc' = "idle"
                 /\ UNCHANGED <<lba, read_12, buf, driveVars>>

-----------------------------------------------------------------------------
(* The driver.                                                             *)

\* A caller enters read_sector; a device that is not ATAPI returns at once.
Call(l) == /\ pc = "idle"
           /\ lba' = l
           /\ pc' = IF IsAtapi THEN "command" ELSE "idle"
           /\ UNCHANGED <<buf, read_12, driveVars>>

\* Select the drive, program the byte count limit, write ATA_CMD_PACKET.
\* Writing the command register clears ERR and makes the drive busy; a drive
\* that is busy takes no notice of the three writes.
IssueCommand == /\ pc = "command"
                /\ pc' = "poll_packet"
                /\ IF BSY THEN UNCHANGED driveVars
                          ELSE /\ count' = Units
                               /\ phase' = "accepting"
                               /\ err' = 0
                               /\ sent' = 0
                               /\ UNCHANGED target
                /\ UNCHANGED <<lba, read_12, buf>>

\* "Error on setup" and "Error on cmd": the function returns nothing.
GiveUp == /\ \/ pc \in {"poll_packet", "poll_end"}
             \/ pc = "poll_data" /\ ~read_12
          /\ ERR
          /\ pc' = "idle"
          /\ UNCHANGED <<lba, read_12, buf, driveVars>>

\* "Trying again", with READ(10) this time.
TryAgain == /\ pc = "poll_data" /\ read_12
            /\ ERR
            /\ pc' = "command"
            /\ read_12' = FALSE
            /\ UNCHANGED <<lba, buf, driveVars>>

PollPacket == /\ pc = "poll_packet"
              /\ ~ERR /\ ~BSY /\ DRQ
              /\ pc' = "packet"
              /\ UNCHANGED <<lba, read_12, buf, driveVars>>

\* Six words of a READ(10) or READ(12) for the requested sector.
SendPacket == /\ pc = "packet"
              /\ pc' = "poll_data"
              /\ IF phase = "await_packet"
                   THEN phase' = "executing" /\ target' = lba
                   ELSE UNCHANGED <<phase, target>>
              /\ UNCHANGED <<lba, read_12, buf, err, count, sent>>

PollData == /\ pc = "poll_data"
            /\ ~ERR /\ ~BSY /\ DRQ
            /\ pc' = "transfer"
            /\ UNCHANGED <<lba, read_12, buf, driveVars>>

\* The pieces that rep insw stores: always at the front of the buffer, and
\* as many as the byte count registers say.
Stored(n) == [i \in Pieces |->
                IF i > n THEN buf[i]
                ELSE IF phase = "data" THEN target ELSE Junk]

Transfer == /\ pc = "transfer"
            /\ buf' = Stored(count)
            /\ pc' = "poll_end"
            /\ IF phase = "data"
                 THEN /\ sent' = IF sent + count <= Units THEN sent + count
                                                          ELSE Units
                      /\ phase' = IF sent + count < Units THEN "executing"
                                                          ELSE "finishing"
                 ELSE UNCHANGED <<sent, phase>>
            /\ UNCHANGED <<lba, read_12, err, count, target>>

PollEnd == /\ pc = "poll_end"
           /\ ~ERR /\ ~BSY /\ DRDY
           /\ pc' = "idle"
           /\ UNCHANGED <<lba, read_12, buf, driveVars>>

Driver == \/ IssueCommand \/ GiveUp \/ TryAgain \/ PollPacket
          \/ SendPacket \/ PollData \/ Transfer \/ PollEnd

-----------------------------------------------------------------------------
(* The drive (hardware, modelled from the handshake the driver expects).   *)

DriveFails == /\ BSY
              /\ phase' = "ready"
              /\ err' = 1
              /\ UNCHANGED <<driverVars, count, target, sent>>

DriveTakesCommand == /\ phase = "accepting"
                     /\ phase' = "await_packet"
                     /\ UNCHANGED <<driverVars, err, count, target, sent>>

\* The drive announces how much it will deliver before the next DRQ.
DriveHasData(n) == /\ phase = "executing"
                   /\ n <= Units - sent
                   /\ phase' = "data"
                   /\ count' = n
                   /\ UNCHANGED <<driverVars, err, target, sent>>

DriveFinishes == /\ phase = "finishing"
                 /\ phase' = "ready"
                 /\ UNCHANGED <<driverVars, err, count, target, sent>>

Drive == \/ DriveFails \/ DriveTakesCommand \/ DriveFinishes
         \/ \E n \in BlockSizes : DriveHasData(n)

-----------------------------------------------------------------------------

Next == (\E l \in Lbas : Call(l)) \/ Driver \/ Drive

Spec == Init /\ [][Next]_vars

\* The CPU runs nothing else and the drive ends every command it started;
\* nobody has to ask for another sector.
FairSpec == Spec /\ WF_vars(Driver) /\ WF_vars(Drive)

-----------------------------------------------------------------------------
(* Properties.                                                             *)

(* The driver and the drive agree on the phase of the transfer whenever    *)
(* the driver touches the data port: packet words go to a drive that waits *)
(* for a packet, and data words come from a drive that is delivering the   *)
(* requested sector and nothing left over from an earlier, failed call.    *)
PortAgreement == /\ pc = "packet" => phase = "await_packet"
                 /\ pc = "transfer" => phase = "data" /\ target = lba

(* ata.c writes ATA_CMD_PACKET only to a drive at rest: no return path of  *)
(* an earlier read leaves it in the middle of a transfer, except that of a *)
(* sector the drive split, of which the driver reads the first block.      *)
(* Only the command of detection, before the first read the drive takes,   *)
(* can still be under way.                                                 *)
CommandToQuietDrive ==
  [][IssueCommand => /\ BSY => target = NoLba
                     /\ DRQ => sent \in 1..(Units - 1)]_vars

(* A call that leaves through the last poll without ERR has put everything *)
(* the drive delivered of the requested sector into the buffer: the whole  *)
(* sector unless the drive split it.                                       *)
CleanReturnHasSector ==
  [][PollEnd => sent > 0 /\ \A i \in 1..sent : buf[i] = lba]_vars

(* The driver implements the promise of SectorRead: whatever the drive     *)
(* does, the buffer is only overwritten from the front, only with the      *)
(* sector that was asked for.                                              *)
Pending == IF pc = "idle" THEN NoLba ELSE lba
SR == INSTANCE SectorRead WITH pending <- Pending, buffer <- buf

Implements == SR!Spec

(* The drive ended detection's command and never saw that of the first     *)
(* read: it waits for a command, the driver waits for DRQ.                 *)
Lost == /\ pc = "poll_packet"
        /\ phase = "ready" /\ ~ERR
        /\ target = NoLba

(* Every call returns: all three polling loops end when the drive ends its *)
(* commands, with or without an error.  The only exception is a first read *)
(* that overlaps the command detection did not wait for (ata.c:338).       *)
EveryReadReturns == (pc # "idle") ~> (pc = "idle" \/ Lost)
=============================================================================
