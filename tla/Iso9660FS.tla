----------------------------- MODULE Iso9660FS ------------------------------
(***************************************************************************)
(* The file system of stage 2 and its only client: init_vfs and            *)
(* load_kernel (vfs.c) running iso9660_mount, _open, _find_in_directory,   *)
(* _read and _list (ISO9660FS.c), from the first call of init_vfs to the   *)
(* return of load_kernel.  One step per sector read, because read_sector   *)
(* may leave its buffer as it was, or overwritten in part, and still       *)
(* return 0 (see SectorRead): the parser then works on what is there.      *)
(*                                                                         *)
(* A buffer is represented by the sector whose contents it holds, or Junk; *)
(* a byte of a file by its sector and offset.  Lengths are in units:       *)
(* SectorSize stands for 2048.                                             *)
(***************************************************************************)
EXTENDS Heap, Sequences, FiniteSetsExt, Functions

CONSTANTS Disks,        \* the images the machine may be booted from
          SectorSize,   \* ISO9660_SECTOR_SIZE
          ProbeSize,    \* sizeof(buffer) in init_vfs, 512 in the code
          NodeSize,     \* sizeof(vfs_node_t)
          ProbePath, ListPath, KernelPath,   \* the three paths of vfs.c
          LongIds,      \* identifiers that overrun char filename[128]
          Room,         \* bytes above KERNEL_LOAD_START before addresses wrap
          StaleRoots,   \* what memory may hold in place of a root record
          Garbage,      \* records that bytes of no directory may look like
          Junk          \* the contents of a buffer that are no sector's

UnsignedInt == 0..(Word - 1)
Nodes == [sector : UnsignedInt, size : UnsignedInt, is_directory : BOOLEAN]
Roots == [root_dir_sector : UnsignedInt, root_dir_size : UnsignedInt]

ASSUME FSAssumption == /\ SectorSize \in Nat \ {0} /\ ProbeSize \in Nat
                       /\ Word % SectorSize = 0
                       /\ Requests = {NodeSize} /\ NodeSize > 0
                       /\ NULL \notin Nodes
                       /\ StaleRoots \subseteq Roots

\* load_kernel is never asked for the root.
ASSUME PathAssumption ==
  {ProbePath, ListPath, KernelPath} \subseteq Seq(STRING) /\ KernelPath # <<>>

VARIABLES disk,         \* the medium
          stage,        \* which call of init_vfs / load_kernel is running
          op,           \* and what it is doing
          iso_fs,       \* extent of the root directory; .bss until mounted
          tokens,       \* path components still to be found, in open
          current,      \* directory being searched or listed
          current_sector, remaining_bytes,  \* its scan
          dirbuf,       \* directory sector in root_dir_entries (0x90000)
          node,         \* what open returned
          dest,         \* bytes stored by the read in progress
          secbuf,       \* sector in iso9660_read's sector_buffer
          listed,       \* names printed by iso9660_list
          g_kernelSize,
          result,       \* what load_kernel returned
          faults,       \* a read has failed silently
          astray        \* a search took bytes of no directory for records

scanVars == <<current, current_sector, remaining_bytes>>
readVars == <<dest, secbuf>>
bootVars == <<disk, iso_fs, listed, g_kernelSize, result>>
vars == <<disk, stage, op, iso_fs, tokens, current, current_sector,
          remaining_bytes, dirbuf, node, dest, secbuf, listed, heapVars,
          g_kernelSize, result, faults, astray>>

Stages == {"mount", "probe", "list", "kernel", "done", "derailed"}
Ops    == {"open", "find", "opened", "read", "list", "none"}

-----------------------------------------------------------------------------
(* The medium: [valid, root, dirs], where dirs maps a sector to the records *)
(* it starts with, up to the first zero length.  A record is               *)
(* [id, length, sector, size, is_directory]; id is the identifier split at *)
(* its ';'.                                                                *)

Entries == [id : Seq(STRING), length : Nat \ {0}, sector : UnsignedInt,
            size : UnsignedInt, is_directory : BOOLEAN]

ASSUME GarbageAssumption == Garbage \subseteq Seq(Entries) /\ Garbage # {}

RecordsOf(d, lba) == IF lba \in DOMAIN d.dirs THEN d.dirs[lba] ELSE <<>>
Records(lba) == RecordsOf(disk, lba)

\* What the parser may find in a buffer: file data, sectors that were read in
\* part and uninitialized memory have no records, but look like some.
DirSector(buf) == IF buf \in DOMAIN disk.dirs THEN buf ELSE Junk
Readings(buf) == IF buf \in DOMAIN disk.dirs THEN {Records(buf)} ELSE Garbage

\* strchr(file_name, ';') cuts the version off.
FileName(rec) == Head(rec.id)

\* Offset of record k in its sector: each record gives the way to the next.
Offset(recs, k) == SumFunctionOnSet(
                     [j \in DOMAIN recs |-> recs[j].length], 1..(k - 1))

Node(rec) == [sector |-> rec.sector, size |-> rec.size,
              is_directory |-> rec.is_directory]

RootOf(d) == [sector |-> d.root.root_dir_sector, size |-> d.root.root_dir_size,
              is_directory |-> TRUE]

Sectors(dir) == dir.sector..(dir.sector + ((dir.size + SectorSize - 1) \div SectorSize) - 1)

ChildrenOf(d, dir) == UNION {Range(RecordsOf(d, s)) : s \in Sectors(dir)}

\* Everything the medium has a record of.
Recorded(d) == {Node(r) : r \in UNION {Range(d.dirs[s]) : s \in DOMAIN d.dirs}}

WellFormed(d) ==
  /\ d.valid \in BOOLEAN /\ d.root \in Roots
  /\ DOMAIN d.dirs \subseteq UnsignedInt
  /\ \A s \in DOMAIN d.dirs : d.dirs[s] \in Seq(Entries)

ASSUME MediumAssumption == Junk \notin Nat /\ \A d \in Disks : WellFormed(d)

\* ISO 9660, and what the project's image is made of: a directory is whole
\* sectors long, none of its records starts behind the end of its sector, it
\* holds a name once, and names are short; a volume has less than 2^32
\* sectors.  Nobody checks it.
Orderly(d) ==
  /\ \A s \in DOMAIN d.dirs : \A k \in DOMAIN d.dirs[s] :
       /\ Offset(d.dirs[s], k) \in 0..(SectorSize - 1)
       /\ d.dirs[s][k].id \notin LongIds
  /\ \A n \in {RootOf(d)} \cup Recorded(d) :
       n.is_directory =>
         /\ n.size % SectorSize = 0
         /\ Sectors(n) \subseteq DOMAIN d.dirs
         /\ n.sector + (n.size \div SectorSize) < Word
         /\ \A q, r \in ChildrenOf(d, n) : FileName(q) = FileName(r) => q = r

RootNode == [sector |-> iso_fs.root_dir_sector, size |-> iso_fs.root_dir_size,
             is_directory |-> TRUE]

Path == CASE stage = "probe"  -> ProbePath
          [] stage = "list"   -> ListPath
          [] stage = "kernel" -> KernelPath

\* Whether read_sector delivers the whole sector, nothing, or a part of it,
\* nobody is told.
Outcomes == {"whole", "none", "part"}
ReadSector(lba, buf, how) == CASE how = "whole" -> lba
                               [] how = "none" -> buf
                               [] how = "part" -> Junk
Fault(how) == faults' = (faults \/ how # "whole")

-----------------------------------------------------------------------------
Init == /\ disk \in Disks
        /\ stage = "mount"
        /\ op = "none"
        /\ iso_fs \in StaleRoots
        /\ tokens = <<>>
        /\ current = NULL
        /\ current_sector = 0 /\ remaining_bytes = 0
        /\ dirbuf = Junk
        /\ node = NULL
        /\ dest = <<>> /\ secbuf = Junk
        /\ listed = {}
        /\ HeapInit
        /\ g_kernelSize = NULL  \* .bss as well, and never read before it is set
        /\ result = NULL
        /\ faults = FALSE /\ astray = FALSE

(* iso9660_mount.  A read that fails leaves the root directory that stage 1 *)
(* put at 0x80000, which does not start with a volume descriptor; one that *)
(* stops behind the signature leaves a root record that is not, or only in *)
(* part, the volume's.  init_vfs carries on in every case, after a failed  *)
(* mount with what .bss held.                                              *)
Mounted(how) == IF ~disk.valid \/ how = "none" THEN {iso_fs}
                ELSE IF how = "whole" THEN {disk.root}
                ELSE {iso_fs, disk.root} \cup StaleRoots

Mount(how) ==
  /\ stage = "mount"
  /\ stage' = "probe" /\ op' = "open"
  /\ iso_fs' \in Mounted(how)
  /\ Fault(how)
  /\ UNCHANGED <<disk, tokens, scanVars, dirbuf, node, readVars, listed,
                 heapVars, g_kernelSize, result, astray>>

-----------------------------------------------------------------------------
(* iso9660_open and iso9660_find_in_directory.                             *)

Enter(dir) == /\ current' = dir
              /\ current_sector' = dir.sector
              /\ remaining_bytes' = dir.size

\* Locals that are gone are set to nothing.
Leave == current' = NULL /\ current_sector' = 0 /\ remaining_bytes' = 0

Returns(n) == op' = "opened" /\ node' = n /\ tokens' = <<>> /\ Leave

Open ==
  /\ op = "open"
  /\ \/ /\ Allocate(NodeSize)
        /\ IF Path = <<>> THEN Returns(RootNode)
           ELSE /\ Enter(RootNode) /\ tokens' = Path
                /\ op' = "find" /\ UNCHANGED node
     \/ /\ OutOfMemory(NodeSize)
        /\ Returns(NULL)
  /\ UNCHANGED <<bootVars, stage, dirbuf, readVars, faults, astray>>

\* The records the inner loop reaches.
Reached(recs) == {k \in DOMAIN recs : /\ Offset(recs, k) < SectorSize
                                     /\ Offset(recs, k) < remaining_bytes}

\* Faulty variant: the name is not compared.
MatchesAny(recs) == Reached(recs)

Matches(recs) == {k \in Reached(recs) : FileName(recs[k]) = Head(tokens)}

\* Faulty variants: sectors are skipped; no progress; signed arithmetic.
FindAdvancesTwice == /\ current_sector' = (current_sector + 2) % Word
                     /\ remaining_bytes' = (remaining_bytes - SectorSize) % Word
FindAdvancesNever == UNCHANGED <<current_sector, remaining_bytes>>
FindAdvancesSigned == /\ current_sector' = (current_sector + 1) % Word
                      /\ remaining_bytes' = remaining_bytes - SectorSize

FindAdvances == /\ current_sector' = (current_sector + 1) % Word
                /\ remaining_bytes' = (remaining_bytes - SectorSize) % Word

FindIn(recs) ==
  \/ /\ Matches(recs) = {}
     /\ FindAdvances
     /\ UNCHANGED <<op, tokens, current, node, heapVars>>
  \/ /\ Matches(recs) # {}
     /\ OutOfMemory(NodeSize)
     /\ Returns(NULL)
  \/ /\ Matches(recs) # {}
     /\ Allocate(NodeSize)
     /\ LET child == Node(recs[Min(Matches(recs))]) IN
          IF Tail(tokens) = <<>> THEN Returns(child)
          ELSE IF ~child.is_directory THEN Returns(NULL)
          ELSE Enter(child) /\ tokens' = Tail(tokens) /\ UNCHANGED <<op, node>>

FindInSector(how) ==
  /\ op = "find" /\ remaining_bytes > 0
  /\ dirbuf' = DirSector(ReadSector(current_sector, dirbuf, how))
  /\ Fault(how)
  /\ astray' = (astray \/ dirbuf' = Junk)
  /\ \E recs \in Readings(dirbuf') : FindIn(recs)
  /\ UNCHANGED <<bootVars, stage, readVars>>

FindExhausted == /\ op = "find" /\ remaining_bytes = 0
                 /\ Returns(NULL)
                 /\ UNCHANGED <<bootVars, stage, dirbuf, readVars, heapVars,
                                faults, astray>>

-----------------------------------------------------------------------------
(* What init_vfs and load_kernel do with the node.                         *)

NextStage(s) == stage' = s /\ op' = "open"

NothingRead == dest' = <<>> /\ secbuf' = Junk
StartRead == op' = "read" /\ NothingRead

ProbeOpened ==
  /\ stage = "probe" /\ op = "opened"
  /\ IF node = NULL THEN NextStage("list") /\ UNCHANGED readVars
                    ELSE StartRead /\ UNCHANGED stage
  /\ UNCHANGED <<bootVars, tokens, scanVars, dirbuf, node, heapVars, faults, astray>>

ListOpened ==
  /\ stage = "list" /\ op = "opened"
  /\ IF node # NULL /\ node.is_directory
       THEN op' = "list" /\ Enter(node) /\ UNCHANGED stage
       ELSE NextStage("kernel") /\ UNCHANGED scanVars
  /\ UNCHANGED <<bootVars, tokens, dirbuf, node, readVars, heapVars, faults, astray>>

KernelOpened ==
  /\ stage = "kernel" /\ op = "opened"
  /\ IF node = NULL
       THEN /\ stage' = "done" /\ op' = "none" /\ result' = 0
            /\ UNCHANGED <<g_kernelSize, readVars>>
       ELSE /\ g_kernelSize' = node.size
            /\ StartRead
            /\ UNCHANGED <<stage, result>>
  /\ UNCHANGED <<disk, iso_fs, listed, tokens, scanVars, dirbuf, node,
                 heapVars, faults, astray>>

-----------------------------------------------------------------------------
(* iso9660_read, from offset 0 as both callers ask.                        *)

Smaller(a, b) == IF a <= b THEN a ELSE b

\* The size after clamping to the file.
Wanted == IF stage = "probe" THEN Smaller(ProbeSize, node.size) ELSE node.size

bytes_read == Len(dest)

\* Faulty variant: whole sectors are copied.
ChunkSizeWhole == SectorSize

ChunkSize == Smaller(SectorSize, Wanted - bytes_read)

ReadOneSector(how) ==
  /\ op = "read" /\ bytes_read < Wanted
  /\ secbuf' = ReadSector((node.sector + (bytes_read \div SectorSize)) % Word,
                          secbuf, how)
  /\ dest' = dest \o [k \in 1..ChunkSize |-> <<secbuf', k - 1>>]
  /\ Fault(how)
  /\ UNCHANGED <<bootVars, stage, op, tokens, scanVars, dirbuf, node,
                 heapVars, astray>>

ReadDone == op = "read" /\ bytes_read >= Wanted

\* buffer[bytes] = '\0' and on to the listing.
ProbeRead == /\ stage = "probe" /\ ReadDone
             /\ NextStage("list") /\ NothingRead
             /\ UNCHANGED <<bootVars, tokens, scanVars, dirbuf, node, heapVars,
                            faults, astray>>

KernelRead == /\ stage = "kernel" /\ ReadDone
              /\ result' = IF bytes_read = node.size THEN 1 ELSE 0
              /\ stage' = "done" /\ op' = "none"
              /\ UNCHANGED <<disk, iso_fs, listed, g_kernelSize, tokens,
                             scanVars, dirbuf, node, readVars, heapVars,
                             faults, astray>>

-----------------------------------------------------------------------------
(* iso9660_list.                                                           *)

\* All records of the sector, whatever is left of the directory.
Listed(recs) == {k \in DOMAIN recs : Offset(recs, k) < SectorSize}
Printed(recs) == {FileName(recs[k]) : k \in Listed(recs)}

\* Faulty variant: the list ends with the first sector.
ListRemainingNone == 0

ListRemaining == IF remaining_bytes > SectorSize
                   THEN remaining_bytes - SectorSize ELSE 0

ListSector(how) ==
  /\ op = "list" /\ remaining_bytes > 0
  /\ dirbuf' = DirSector(ReadSector(current_sector, dirbuf, how))
  /\ Fault(how)
  /\ \E recs \in Readings(dirbuf') : listed' = listed \cup Printed(recs)
  /\ current_sector' = (current_sector + 1) % Word
  /\ remaining_bytes' = ListRemaining
  /\ UNCHANGED <<disk, iso_fs, g_kernelSize, result, stage, op, tokens,
                 current, node, readVars, heapVars, astray>>

ListDone == /\ op = "list" /\ remaining_bytes = 0
            /\ NextStage("kernel") /\ Leave
            /\ UNCHANGED <<bootVars, tokens, dirbuf, node, readVars, heapVars,
                           faults, astray>>

-----------------------------------------------------------------------------

(* Memory of the program itself is overwritten: by a node in front of the  *)
(* heap, by a name longer than its buffer (ISO9660FS.c:486), by the        *)
(* terminator of vfs.c:37 behind a full buffer, or by a file so large that *)
(* addresses wrap.  What follows is not modelled; it may also do no harm.  *)
Overwrites ==
  \/ op = "open" /\ heap_offset > HeapSize /\ Fits(NodeSize)
  \/ /\ op = "list" /\ remaining_bytes > 0
     /\ \E how \in Outcomes :
          \E recs \in Readings(ReadSector(current_sector, dirbuf, how)) :
            \E k \in Listed(recs) : recs[k].id \in LongIds
  \/ op = "read" /\ stage = "probe" /\ bytes_read >= ProbeSize
  \/ op = "read" /\ stage = "kernel" /\ bytes_read > Room

Derail == /\ Overwrites
          /\ stage' = "derailed" /\ op' = "none"
          /\ UNCHANGED <<bootVars, tokens, scanVars, dirbuf, node, readVars,
                         heapVars, faults, astray>>

-----------------------------------------------------------------------------

Next == \/ \E how \in Outcomes : \/ Mount(how) \/ FindInSector(how)
                                  \/ ReadOneSector(how) \/ ListSector(how)
        \/ Open \/ FindExhausted
        \/ ProbeOpened \/ ListOpened \/ KernelOpened
        \/ ProbeRead \/ KernelRead \/ ListDone
        \/ Derail

Spec == Init /\ [][Next]_vars

\* Stage 2 is a single thread of control, and a read_sector whose commands
\* the drive accepts returns (EveryReadReturns of AtapiRead).
FairSpec == Spec /\ WF_vars(Next)

-----------------------------------------------------------------------------
(* The medium as a tree, without sectors, buffers or scanning.             *)

\* What the records of some directories of d call by a name.
Called(d, dirs, name) ==
  {Node(rec) : rec \in {r \in UNION {ChildrenOf(d, n) : n \in dirs} : FileName(r) = name}}

DirsIn(nodes) == {n \in nodes : n.is_directory}

VolumeRoot(d) == IF d.valid THEN {RootOf(d)} ELSE {}

\* The nodes a path names: none or one, names being unique in a directory.
NamedOn(d, path) ==
  LET below[k \in 0..Len(path)] ==
        IF k = 0 THEN VolumeRoot(d) ELSE Called(d, DirsIn(below[k - 1]), path[k])
  IN below[Len(path)]

Named(path) == NamedOn(disk, path)

Contents(n, size) ==
  [k \in 1..size |-> <<(n.sector + ((k - 1) \div SectorSize)) % Word,
                        (k - 1) % SectorSize>>]

-----------------------------------------------------------------------------
(* Properties.                                                             *)

TypeOK == /\ stage \in Stages /\ op \in Ops
          /\ iso_fs \in Roots
          /\ current \in Nodes \cup {NULL}
          /\ current_sector \in UnsignedInt /\ remaining_bytes \in UnsignedInt
          /\ node \in Nodes \cup {NULL}
          /\ HeapTypeOK
          /\ g_kernelSize \in UnsignedInt \cup {NULL}
          /\ result \in {NULL, 0, 1}
          /\ faults \in BOOLEAN /\ astray \in BOOLEAN

\* A volume as ISO 9660 has it, and every sector of it that was read came.
Sound == ~faults /\ disk.valid /\ Orderly(disk)

HeapFull == ~Fits(NodeSize)

(* On a sound volume load_kernel returns 1 exactly when the kernel is on   *)
(* it (and the heap lasts), and then the whole file, and nothing else, lies *)
(* at KERNEL_LOAD_START and g_kernelSize is its size, whatever .bss held.  *)
KernelLoaded ==
  result = 1 => \E n \in Named(KernelPath) :
                  dest = Contents(n, n.size) /\ g_kernelSize = n.size
LoadKernelCorrect ==
  Sound /\ stage = "done" =>
    /\ KernelLoaded
    /\ result = 0 => Named(KernelPath) = {} \/ HeapFull

(* On a sound volume iso9660_list prints the names of the directory, all   *)
(* of them and no others.                                                  *)
ListShowsDirectory ==
  Sound /\ stage = "kernel" /\ Named(ListPath) # {} /\ ~HeapFull =>
    listed = {FileName(r) :
                r \in UNION {ChildrenOf(disk, n) : n \in DirsIn(Named(ListPath))}}

(* Whatever the directory is, one of the medium, of stale memory or of a   *)
(* sector read in part, listing it stays on its sectors ("all sectors that *)
(* contain the directory records", ISO9660FS.c:158), and so does searching *)
(* it if it is whole sectors; otherwise remaining_bytes passes zero.       *)
ScanStaysInDirectory ==
  /\ op \in {"find", "list"} /\ remaining_bytes > 0
  /\ op = "list" \/ current.size % SectorSize = 0
  => \E s \in Sectors(current) : current_sector = s % Word

(* A kernel that is accepted has the size of its node, and unless a search *)
(* took other bytes for records, the node is one the medium records under  *)
(* the kernel's name, though perhaps in another directory: silent read     *)
(* errors, a stale root and a medium out of order change nothing of that.  *)
KernelName == KernelPath[Len(KernelPath)]
AcceptedKernelIsRecorded ==
  result = 1 =>
    /\ g_kernelSize = node.size /\ Len(dest) = g_kernelSize
    /\ ~astray => \E s \in DOMAIN disk.dirs : \E r \in Range(disk.dirs[s]) :
                    FileName(r) = KernelName /\ node = Node(r)

(* init_vfs and load_kernel reach their end, or overwrite the program, on  *)
(* every medium, with any silent read errors and whatever .bss held; only  *)
(* the search of a directory that is not whole sectors need not end.       *)
Terminates ==
  \/ <>(stage \in {"done", "derailed"})
  \/ <>[](op = "find" /\ current.size % SectorSize # 0)

(* vfs.c:73 announces "Kernel loaded successfully!" and returns true: the  *)
(* kernel file is then in memory.                                          *)
SuccessMeansLoaded == KernelLoaded
=============================================================================
