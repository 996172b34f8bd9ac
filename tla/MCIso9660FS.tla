---------------------------- MODULE MCIso9660FS -----------------------------
(* Images with a sector of six units.  A file record takes three, a        *)
(* directory or dot record two, so that a sector ends with padding or not  *)
(* and a directory takes one or two sectors.  The root holds up to three   *)
(* of KERNEL (a directory or a file), SAAMPLE and two files, in several    *)
(* orders, after the dot records; the kernel file may be missing, be a     *)
(* directory, and be empty, shorter than, or longer than one or two        *)
(* sectors.  Some media are out of order: a directory that is not whole    *)
(* sectors, the same name twice, a name too long for the buffers.          *)
(* The heap has room for seven nodes of the eight that are opened when the *)
(* probed file is there and the kernel, too, if it starts with nothing.    *)
EXTENDS Iso9660FS, SequencesExt

FileRec(id, s, n) == [id |-> id, length |-> 3, sector |-> s, size |-> n,
                      is_directory |-> FALSE]
DirRec(id, s, n) == [id |-> id, length |-> 2, sector |-> s,
                     size |-> n * SectorSize, is_directory |-> TRUE]

\* Records never straddle a sector: the writer pads the sector with zeros.
Used(recs) == SumFunctionOnSet([j \in DOMAIN recs |-> recs[j].length], DOMAIN recs)
Pack(recs) ==
  FoldLeft(LAMBDA packed, r :
             IF Used(packed[Len(packed)]) + r.length > SectorSize
               THEN Append(packed, <<r>>)
               ELSE [packed EXCEPT ![Len(packed)] = Append(@, r)],
           <<<<>>>>, recs)

RootAt == 4
KernelDirAt == 8
SaampleDirAt == 11

Directory(at, recs) == [k \in at..(at + Len(Pack(recs)) - 1) |-> Pack(recs)[k - at + 1]]
SectorsOf(recs) == Len(Pack(recs))

Dots(at, n, rn) == <<DirRec(<<".">>, at, n), DirRec(<<"..">>, RootAt, rn)>>

\* The number of sectors does not depend on the extents in the records.
WithDots(at, tail, rn) == Dots(at, SectorsOf(Dots(at, 1, 1) \o tail), rn) \o tail

ElfFile(n) == FileRec(<<"KERNEL.ELF", "1">>, 14, n)
Readme     == FileRec(<<"README.TXT", "1">>, 20, 4)

KernelDirs == {<<>>, <<DirRec(<<"KERNEL.ELF">>, SaampleDirAt, 2)>>, <<ElfFile(0)>>,
               <<Readme, ElfFile(13)>>}

RootItem(kind, kn) ==
  CASE kind = "KERNEL dir"  -> DirRec(<<"KERNEL">>, KernelDirAt, kn)
    [] kind = "KERNEL file" -> FileRec(<<"KERNEL">>, 22, 7)
    [] kind = "ELF file"    -> FileRec(<<"KERNEL.ELF", "1">>, 24, 7)
    [] kind = "SAAMPLE dir" -> DirRec(<<"SAAMPLE">>, SaampleDirAt, 2)
    [] kind = "README file" -> Readme

RootLayouts == {<<"KERNEL dir", "SAAMPLE dir", "README file">>,
                <<"README file", "SAAMPLE dir", "KERNEL dir">>,
                <<"KERNEL dir", "ELF file">>, <<"KERNEL file", "ELF file">>}

RandomTxt(n) == FileRec(<<"RANDOM.TXT", "1">>, 18, n)
SaampleDirs(sizes) == {<<>>} \cup {<<RandomTxt(n)>> : n \in sizes}

\* The entries of the root, of the kernel directory and of SAAMPLE.
DiskImage(valid, layout, kdir, sdir) ==
  LET kn    == SectorsOf(Dots(KernelDirAt, 1, 1) \o kdir)
      rtail == [k \in DOMAIN layout |-> RootItem(layout[k], kn)]
      rn    == SectorsOf(Dots(RootAt, 1, 1) \o rtail)
  IN [valid |-> valid,
      root  |-> [root_dir_sector |-> RootAt, root_dir_size |-> rn * SectorSize],
      dirs  |-> Directory(RootAt, WithDots(RootAt, rtail, rn))
                @@ Directory(KernelDirAt, WithDots(KernelDirAt, kdir, rn))
                @@ Directory(SaampleDirAt, WithDots(SaampleDirAt, sdir, rn))]

Images(layouts, kdirs, probes) ==
  {DiskImage(TRUE, layout, kdir, sdir) : layout \in layouts, kdir \in kdirs,
                                         sdir \in SaampleDirs(probes)}

NoVolume == {DiskImage(FALSE, <<"KERNEL dir", "SAAMPLE dir", "README file">>, <<ElfFile(5)>>, <<>>)}

\* Out of order: sizes that are no multiple, a name twice, an overlong one.
Ragged(d) == [d EXCEPT !.dirs[RootAt] =
                [k \in DOMAIN @ |-> IF FileName(@[k]) = "KERNEL"
                                    THEN [@[k] EXCEPT !.size = @ + 2] ELSE @[k]]]
LongName == FileRec(<<"KERNEL.ELF", "1 and so on">>, 24, 7)
BadDisk(kdir) == DiskImage(TRUE, <<"KERNEL dir", "SAAMPLE dir">>, kdir, <<RandomTxt(9)>>)
OutOfOrder == {Ragged(BadDisk(<<Readme>>)),
               BadDisk(<<ElfFile(7), DirRec(<<"KERNEL.ELF">>, SaampleDirAt, 1)>>),
               BadDisk(<<LongName>>)}

MCDisks == Images(RootLayouts, KernelDirs, {9}) \cup NoVolume \cup OutOfOrder
FewDisks == Images({<<"KERNEL dir", "SAAMPLE dir">>}, {<<Readme, ElfFile(7)>>}, {2})

MCLongIds == {LongName.id}
MCStaleRoots == {[root_dir_sector |-> Word - 1, root_dir_size |-> 2 * SectorSize + 3]}
MCGarbage == {<<>>, <<[DirRec(<<"KERNEL">>, Word - 2, 2) EXCEPT !.size = @ - 3],
                      [LongName EXCEPT !.sector = Word - 1, !.size = 21]>>}
NoGarbage == {<<>>}
MCStarts == {0, HeapSize - 10, HeapSize + 2, Word - 4}

MCProbePath  == <<"SAAMPLE", "RANDOM.TXT">>
MCListPath   == <<"KERNEL">>
MCKernelPath == <<"KERNEL", "KERNEL.ELF">>
=============================================================================
