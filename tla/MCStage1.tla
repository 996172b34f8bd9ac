------------------------------ MODULE MCStage1 ------------------------------
(* Small media for Stage1: sectors of 4 bytes, 16-byte segments, so a file  *)
(* of five sectors crosses a segment.                                       *)
EXTENDS Stage1

E(id, len, isDir, lba, size) ==
  [id |-> id, len |-> len, isDir |-> isDir, lba |-> lba, size |-> size]

Self  == E("OTHER", 1, TRUE, 20, 4)
Other == E("OTHER", 2, FALSE, 30, 7)
Boot(name, size) == E(name, 3, FALSE, 40, size)

Sizes == 1..24
SoundVds == {<<"pvd">>, <<"boot", "pvd">>, <<"boot", "boot", "pvd", "terminator">>}

SoundDisks ==
  {[vds |-> v, root |-> r] :
     v \in SoundVds,
     r \in {<<Self, Boot("STAGE2.BIN;1", n)>> : n \in Sizes}
             \cup {<<Self, Other, Boot("STAGE2.BIN", n), Other>> : n \in Sizes}
             \cup {<<Self, E("STAGE2.BIN", 3, TRUE, 50, 4),
                     Boot("STAGE2.BIN;1", n)>> : n \in {1, 20}}}

AnyDisks ==
  {[vds |-> v, root |-> r] :
     v \in SoundVds \cup {<<>>, <<"terminator">>, <<"boot", "terminator">>},
     r \in {<<>>, <<Self>>, <<Self, Other>>, <<Self, Boot("STAGE2.BINX;1", 9)>>,
            <<Self, Other, Boot("STAGE2.BIN;1", 18)>>}}

MCDisks == SoundDisks \cup AnyDisks
OldRoot == {<<>>, <<Self, E("STAGE2.BIN;1", 3, FALSE, 60, 9)>>}
=============================================================================
