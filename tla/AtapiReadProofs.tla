-------------------------- MODULE AtapiReadProofs ---------------------------
(***************************************************************************)
(* For every set of sectors, every sector length and every drive that      *)
(* announces legal byte counts: the driver is type correct, agrees with    *)
(* the drive on the phase of a transfer, and implements SectorRead.        *)
(***************************************************************************)
EXTENDS AtapiRead, TLAPS

(* How far the drive can be when the driver is at each of its points.  A   *)
(* poll that sees a quiet drive without ERR happens only to the command    *)
(* that detection's READ CAPACITY swallowed, and that one never sees DRQ.  *)
Coupling ==
  /\ pc # "idle" => lba \in Lbas
  /\ pc = "poll_packet"
       => phase \in {"accepting", "await_packet", "finishing", "ready"}
  /\ pc = "packet" => phase = "await_packet" /\ err = 0
  /\ pc = "poll_data" => \/ phase \in {"executing", "data"} /\ target = lba
                         \/ err = 1
  /\ pc = "transfer" => phase = "data" /\ target = lba /\ err = 0
  /\ phase = "data" => count \in 1..(Units - sent)
  /\ err = 1 => phase = "ready"

(* What is in the buffer while the drive delivers, and what a return       *)
(* leaves behind: a drive at rest, or one that waits for the rest of a     *)
(* split sector to be fetched.                                             *)
Delivery ==
  /\ sent <= Units
  /\ pc \in {"poll_packet", "packet", "poll_data", "transfer"} /\ err = 0
       => sent = 0
  /\ pc = "poll_end" => /\ sent > 0
                        /\ \A i \in 1..sent : buf[i] = lba
                        /\ phase \in {"executing", "data", "finishing", "ready"}
                        /\ phase \in {"executing", "data"} => sent < Units
                        /\ target # NoLba
  /\ pc \in {"idle", "command"} => \/ phase = "ready"
                                   \/ phase = "data" /\ sent \in 1..(Units - 1)
                                   \/ phase = "finishing" /\ target = NoLba
  /\ target = NoLba => sent = 0

IInv == TypeOK /\ Coupling /\ Delivery

USE AtapiAssumption DEF AtapiAssumption

(* The initial state satisfies the invariant.                              *)
LEMMA InitIInv == Init => IInv
  BY DEF Init, IInv, TypeOK, Coupling, Delivery, PCs, Phases, Pieces

(* Every step of the driver and of the drive preserves the invariant.      *)
LEMMA NextIInv == IInv /\ [Next]_vars => IInv'
  <1> SUFFICES ASSUME IInv, [Next]_vars PROVE IInv'
    OBVIOUS
  <1> USE DEF IInv, TypeOK, Coupling, Delivery, PCs, Phases, Pieces,
              driverVars, driveVars
  <1>1. ASSUME NEW l \in Lbas, Call(l) PROVE IInv'
    BY <1>1 DEF Call
  <1>2. CASE IssueCommand
    BY <1>2 DEF IssueCommand, BSY
  <1>3. CASE GiveUp
    BY <1>3 DEF GiveUp, ERR
  <1>14. CASE TryAgain
    BY <1>14 DEF TryAgain, ERR
  <1>4. CASE PollPacket
    BY <1>4 DEF PollPacket, ERR, BSY, DRQ
  <1>5. CASE SendPacket
    BY <1>5 DEF SendPacket
  <1>6. CASE PollData
    BY <1>6 DEF PollData, ERR, BSY, DRQ
  <1>7. CASE Transfer
    BY <1>7 DEF Transfer, Stored
  <1>8. CASE PollEnd
    BY <1>8 DEF PollEnd, ERR, BSY, DRDY
  <1>9. CASE DriveFails
    BY <1>9 DEF DriveFails, BSY
  <1>10. CASE DriveTakesCommand
    BY <1>10 DEF DriveTakesCommand
  <1>11. CASE DriveFinishes
    BY <1>11 DEF DriveFinishes
  <1>12. ASSUME NEW n \in BlockSizes, DriveHasData(n) PROVE IInv'
    BY <1>12 DEF DriveHasData
  <1>13. CASE UNCHANGED vars
    BY <1>13 DEF vars
  <1> QED
    BY <1>1, <1>2, <1>3, <1>4, <1>5, <1>6, <1>7, <1>8, <1>9, <1>10, <1>11,
       <1>12, <1>13, <1>14 DEF Next, Driver, Drive

(* The invariant holds in every reachable state.                           *)
THEOREM Invariance == Spec => []IInv
  BY InitIInv, NextIInv, PTL DEF Spec

(* The driver's variables and the task file keep their types.              *)
THEOREM TypeCorrect == Spec => []TypeOK
  BY Invariance, PTL DEF IInv

(* Packet words and data words are moved only when the drive is ready for  *)
(* them, and the data are those of the sector asked for.                   *)
THEOREM PortsAgree == Spec => []PortAgreement
  <1>1. IInv => PortAgreement
    BY DEF IInv, Coupling, PortAgreement
  <1> QED
    BY <1>1, Invariance, PTL

(* Every step of driver and drive is a step of SectorRead or leaves it     *)
(* alone: a call overwrites the buffer only from the front and only with   *)
(* the requested sector.                                                   *)
LEMMA StepImplements == IInv /\ [Next]_vars => [SR!Next]_SR!vars
  <1> SUFFICES ASSUME IInv, [Next]_vars PROVE [SR!Next]_SR!vars
    OBVIOUS
  <1> USE DEF IInv, TypeOK, Coupling, PCs, Phases, Pieces, driverVars,
              driveVars, Pending, SR!vars
  <1>1. ASSUME NEW l \in Lbas, Call(l) PROVE SR!Request(l) \/ UNCHANGED SR!vars
    BY <1>1 DEF Call, SR!Request
  <1>2. CASE GiveUp \/ PollEnd
    <2>1. SR!Return
      BY <1>2 DEF GiveUp, PollEnd, SR!Return
    <2> QED
      BY <2>1 DEF SR!Next
  <1>3. CASE Transfer
    <2>1. count \in SR!Pieces /\ SR!Fill(count)
      BY <1>3 DEF Transfer, Stored, SR!Fill, SR!Pieces
    <2> QED
      BY <2>1 DEF SR!Next
  <1>4. CASE IssueCommand \/ TryAgain \/ PollPacket \/ SendPacket \/ PollData
    BY <1>4 DEF IssueCommand, TryAgain, PollPacket, SendPacket, PollData
  <1>5. CASE Drive
    BY <1>5 DEF Drive, DriveFails, DriveTakesCommand, DriveFinishes,
                DriveHasData
  <1>6. CASE UNCHANGED vars
    BY <1>6 DEF vars
  <1> QED
    BY <1>1, <1>2, <1>3, <1>4, <1>5, <1>6 DEF Next, Driver, SR!Next

(* The PIO driver implements SectorRead.                                   *)
THEOREM Implementation == Spec => Implements
  <1>1. Init => SR!Init
    BY DEF Init, SR!Init, Pending, Pieces, SR!Pieces
  <1> QED
    BY <1>1, StepImplements, Invariance, PTL DEF Spec, Implements, SR!Spec

(* A new command meets a drive at rest, or one that still offers the rest  *)
(* of a split sector, or one that has not finished detection's command.    *)
THEOREM QuietDrive == Spec => CommandToQuietDrive
  <1>1. IInv /\ [Next]_vars
          => [IssueCommand => /\ BSY => target = NoLba
                              /\ DRQ => sent \in 1..(Units - 1)]_vars
    BY DEF IInv, Coupling, Delivery, IssueCommand, BSY, DRQ
  <1> QED
    BY <1>1, Invariance, PTL DEF Spec, CommandToQuietDrive

(* A return without ERR leaves in the buffer what the drive delivered of   *)
(* the requested sector, from its first piece on.                          *)
THEOREM CleanReturn == Spec => CleanReturnHasSector
  <1>1. IInv /\ [Next]_vars
          => [PollEnd => sent > 0 /\ \A i \in 1..sent : buf[i] = lba]_vars
    BY DEF IInv, Delivery, PollEnd
  <1> QED
    BY <1>1, Invariance, PTL DEF Spec, CleanReturnHasSector
=============================================================================
