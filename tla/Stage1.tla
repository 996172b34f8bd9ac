------------------------------- MODULE Stage1 -------------------------------
(***************************************************************************)
(* The first stage (stage1.asm:51-248): find the primary volume            *)
(* descriptor, read the first sector of the root directory, look for       *)
(* STAGE2.BIN and load it sector by sector with int 13h/42h (iso9660.inc,  *)
(* disk.inc), then jump to it.  Real mode arithmetic keeps its widths: a   *)
(* 16-bit register holds numbers below Half, a 32-bit register numbers     *)
(* below Full.  The carry flag of int 13h is never looked at               *)
(* (disk.inc:68), so a failed read leaves its buffer as it was.            *)
(*                                                                         *)
(* A directory sector is the sequence of its records; the zero length byte *)
(* that ends a scan is the end of the sequence.                            *)
(***************************************************************************)
EXTENDS Integers, Sequences

CONSTANTS Half, Full,      \* 2^16 and 2^32
          SectorSize,      \* 2048
          Para,            \* 16, the paragraph of segment:offset addresses
          Seg0, Off0,      \* STAGE2_AREA_SEGMENT, STAGE2_AREA_OFFSET
          Disks,           \* media that may be in the drive
          OldDirs,         \* what may lie at SUBSYSTEM_MEM before the boot
          EdxHighs         \* what the BIOS may leave in the high half of EDX

ASSUME WidthAssumption ==
  /\ {Half, Full, SectorSize, Para, Seg0, Off0} \subseteq Nat
  /\ SectorSize > 0 /\ Para > 0
  /\ Half > 0 /\ Half % SectorSize = 0 /\ Half % Para = 0
  /\ Full > 0 /\ Full % (SectorSize * Half) = 0
  /\ Seg0 < Half /\ Off0 < Half /\ Off0 % SectorSize = 0
  /\ EdxHighs \subseteq Nat

(* A directory record: its identifier, the identifier's length, whether it *)
(* is a directory, its extent and its data length.                         *)
Names   == {"STAGE2.BIN", "STAGE2.BIN;1", "STAGE2.BINX;1", "OTHER"}
Records == [id : Names, len : Nat, isDir : BOOLEAN, lba : Nat, size : Nat]

Descriptors == {"boot", "pvd", "terminator"}

ASSUME DiskAssumption ==
  /\ OldDirs \subseteq Seq(Records)
  /\ \A d \in Disks : d.vds \in Seq(Descriptors) /\ d.root \in Seq(Records)

VARIABLES pc, disk,
          flaky,           \* whether int 13h may fail in this boot
          vd,              \* dwVolumeDescriptorStartingSector, from sector 16
          pvd,             \* descriptor in the PrimaryVolumeDescriptor buffer
          dir,             \* records in the buffer at SUBSYSTEM_MEM
          entry,           \* [bp - 4]: number of the record looked at
          edxHigh,         \* high half of EDX, untouched until the division
          count,           \* ECX given to the disk routine
          cx,              \* the loop counter
          seg, off,        \* DiskPackage.Segment, DiskPackage.Offset
          sector,          \* DiskPackage.Sector
          mem              \* for each address, the sector loaded there

vars == <<pc, disk, flaky, vd, pvd, dir, entry, edxHigh, count, cx, seg, off, sector, mem>>

Junk == -1
Linear == 0..((Half - 1) * Para + Half - 1)
Base == Seg0 * Para + Off0

TypeOK ==
  /\ pc \in {"iterate_descriptor", "check_descriptor", "read_root",
             "iterate_entry", "got_file", "sLoop", "jump", "stage2", "crashed"}
  /\ disk \in Disks
  /\ flaky \in BOOLEAN
  /\ vd \in Nat \ {0}
  /\ pvd \in {"none", "boot", "pvd", "terminator", "invalid"}
  /\ dir \in OldDirs \cup {disk.root}
  /\ entry \in 1..(Len(dir) + 1)
  /\ edxHigh \in EdxHighs
  /\ count \in 0..(Full - 1) /\ cx \in 0..(Half - 1)
  /\ seg \in 0..(Half - 1) /\ off \in 0..(Half - 1)
  /\ sector \in Nat
  /\ mem \in [Linear -> Nat \cup {Junk}]

Init == /\ pc = "iterate_descriptor"
        /\ disk \in Disks
        /\ flaky \in BOOLEAN
        /\ vd = 1
        /\ pvd = "none"
        /\ dir \in OldDirs
        /\ entry = 1
        /\ edxHigh \in EdxHighs
        /\ count = 0 /\ cx = 0
        /\ seg = 0 /\ off = 0 /\ sector = 0
        /\ mem = [a \in Linear |-> Junk]

fileVars == <<entry, count, cx, seg, off, sector, mem>>

\* int 13h/42h into a buffer: the sector, or what was there before.
Reads(new, old) == IF flaky THEN {new, old} ELSE {new}

\* The sectors behind the last descriptor hold something else.
Descriptor(n) == IF n <= Len(disk.vds) THEN disk.vds[n] ELSE "invalid"

RoundUp(size) == (size + SectorSize - 1) \div SectorSize

-----------------------------------------------------------------------------
(* Faulty variants, one per property.                                      *)

\* The size is divided without rounding up.
RoundedDown(size) == size

\* Only the offset is carried on.
NextSegmentNever(s, o) == s

\* The same descriptor is read again.
NextDescriptorSame(n) == n

\* The counter is not cut to 16 bits.
LoopCountWide(n) == n

\* The packet keeps its sector number.
NextSectorSame(n) == n

-----------------------------------------------------------------------------
(* Read_volume_descriptors.                                                *)

ReadDescriptor == /\ pc = "iterate_descriptor"
                  /\ pvd' \in Reads(Descriptor(vd), pvd)
                  /\ pc' = "check_descriptor"
                  /\ UNCHANGED <<disk, flaky, vd, dir, edxHigh, fileVars>>

\* An invalid disk and the terminator both return to main, which goes on
\* with whatever the directory buffer holds.
AfterDescriptor(type) ==
  CASE type \in {"none", "invalid", "terminator"} -> "iterate_entry"
    [] type = "pvd" -> "read_root"
    [] OTHER -> "iterate_descriptor"

\* What lies behind the last descriptor is all alike, so is its number.
NextDescriptor(n) == IF n <= Len(disk.vds) THEN n + 1 ELSE n

CheckDescriptor == /\ pc = "check_descriptor"
                   /\ pc' = AfterDescriptor(pvd)
                   /\ vd' = IF pc' = "iterate_descriptor" THEN NextDescriptor(vd)
                                                         ELSE vd
                   /\ UNCHANGED <<disk, flaky, pvd, dir, edxHigh, fileVars>>

ReadRoot == /\ pc = "read_root"
            /\ dir' \in Reads(disk.root, dir)
            /\ pc' = "iterate_entry"
            /\ UNCHANGED <<disk, flaky, vd, pvd, edxHigh, fileVars>>

-----------------------------------------------------------------------------
(* Find_and_Load_File_from_Root.                                           *)

\* repe cmpsb over the ten characters of STAGE2.BIN.
Matches(id) == id # "OTHER"

Skips(e) == e.isDir \/ ~Matches(e.id)

\* A file that is not empty and ends where real mode addresses end, at 1 MB.
HasRoom(e) == /\ e.size \in 1..(Full - SectorSize)
              /\ RoundUp(e.size) < Half
              /\ Base + RoundUp(e.size) * SectorSize <= Half * Para

\* Nothing in the code looks at the length of what it loads.
ASSUME RoomAssumption ==
  \A d \in OldDirs \cup {m.root : m \in Disks} :
    \A i \in DOMAIN d : Skips(d[i]) \/ HasRoom(d[i])

\* EAX + 2047 keeps 32 bits.
Rounded(size) == (size + SectorSize - 1) % Full

NextEntry == /\ pc = "iterate_entry"
             /\ entry <= Len(dir) /\ Skips(dir[entry])
             /\ entry' = entry + 1
             /\ UNCHANGED <<pc, disk, flaky, vd, pvd, dir, edxHigh, count, cx, seg,
                            off, sector, mem>>

\* The message is all that tells: main jumps to the stage 2 area as well.
DidntFind == /\ pc = "iterate_entry"
             /\ entry > Len(dir)
             /\ pc' = "jump"
             /\ UNCHANGED <<disk, flaky, vd, pvd, dir, edxHigh, fileVars>>

FoundFile == /\ pc = "iterate_entry"
             /\ entry <= Len(dir) /\ ~Skips(dir[entry])
             /\ pc' = "got_file"
             /\ UNCHANGED <<disk, flaky, vd, pvd, dir, edxHigh, fileVars>>

\* EDX is not cleared before div ecx: its low half still holds the length
\* of the identifier (iso9660.inc:276), its high half what the BIOS left.
Edx(e) == edxHigh * Half + e.len

\* A quotient that does not fit into EAX is a divide error.
DivideError == /\ pc = "got_file"
               /\ Edx(dir[entry]) >= SectorSize
               /\ pc' = "crashed"
               /\ UNCHANGED <<disk, flaky, vd, pvd, dir, edxHigh, fileVars>>

Quotient(e) == Edx(e) * (Full \div SectorSize)
                 + (Rounded(e.size) \div SectorSize)

\* The disk routine counts in CX, the low half of ECX.
LoopCount(n) == n % Half

StartLoad == /\ pc = "got_file"
             /\ Edx(dir[entry]) < SectorSize
             /\ count' = Quotient(dir[entry])
             /\ cx' = LoopCount(count')
             /\ seg' = Seg0 /\ off' = Off0
             /\ sector' = dir[entry].lba
             /\ pc' = "sLoop"
             /\ UNCHANGED <<disk, flaky, vd, pvd, dir, entry, edxHigh, mem>>

-----------------------------------------------------------------------------
(* ReadFromDiskUsingExtendedBIOSFunction.                                  *)

NextOffset(o) == (o + SectorSize) % Half

NextSegment(s, o) == IF NextOffset(o) = 0 THEN (s + Half \div Para) % Half ELSE s

NextSector(n) == n + 1

\* One sector; loop decrements CX and ends when it has become 0.
SLoop == /\ pc = "sLoop"
         /\ mem' \in Reads([mem EXCEPT ![seg * Para + off] = sector], mem)
         /\ off' = NextOffset(off)
         /\ seg' = NextSegment(seg, off)
         /\ sector' = NextSector(sector)
         /\ cx' = (cx - 1) % Half
         /\ pc' = IF cx' = 0 THEN "jump" ELSE "sLoop"
         /\ UNCHANGED <<disk, flaky, vd, pvd, dir, entry, edxHigh, count>>

Jump == /\ pc = "jump"
        /\ pc' = "stage2"
        /\ UNCHANGED <<disk, flaky, vd, pvd, dir, edxHigh, fileVars>>

Next == \/ ReadDescriptor \/ CheckDescriptor \/ ReadRoot
        \/ NextEntry \/ DidntFind \/ FoundFile \/ DivideError \/ StartLoad
        \/ SLoop \/ Jump

Spec == Init /\ [][Next]_vars
FairSpec == Spec /\ WF_vars(Next)

-----------------------------------------------------------------------------
(* Properties.                                                             *)

IsStage2(e) == ~e.isDir /\ e.id \in {"STAGE2.BIN", "STAGE2.BIN;1"}

Holds(e) == \A k \in 0..(RoundUp(e.size) - 1) :
              mem[Base + k * SectorSize] = e.lba + k

\* A medium made for this loader: its primary descriptor comes before the
\* terminator, STAGE2.BIN is in the first sector of the root, and no other
\* file has a name that begins with it.
Sound == /\ \E k \in DOMAIN disk.vds : /\ disk.vds[k] = "pvd"
                                       /\ \A j \in 1..(k - 1) : disk.vds[j] = "boot"
         /\ \E i \in DOMAIN disk.root : IsStage2(disk.root[i])
         /\ \A i \in DOMAIN disk.root : disk.root[i].id # "STAGE2.BINX;1"

(* From a sound medium that can be read the whole of STAGE2.BIN is laid    *)
(* out without gaps from the stage 2 area on when main jumps there,        *)
(* however many 64 KB segments the file crosses.                           *)
Stage2Intact ==
  pc = "stage2" /\ Sound /\ ~flaky =>
    \E i \in DOMAIN disk.root : IsStage2(disk.root[i]) /\ Holds(disk.root[i])

(* Segment and offset name the address a flat pointer would, across 64 KB  *)
(* segments, and whatever has been loaded, also where int 13h fails, comes *)
(* from one file: no sector of another one, none twice, none out of place. *)
LoadIsContiguous ==
  /\ pc = "sLoop" =>
       seg * Para + off = Base + (sector - dir[entry].lba) * SectorSize
  /\ \A a \in Linear : mem[a] # Junk =>
        a - Base = (mem[a] - dir[entry].lba) * SectorSize

(* Where every sector can be read the first stage ends, in stage 2 or in a *)
(* divide error; failing reads may repeat the same descriptor for ever.    *)
Terminates == ~flaky => <>(pc \in {"stage2", "crashed"})
=============================================================================
