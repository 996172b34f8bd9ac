----------------------------- MODULE SectorRead -----------------------------
(***************************************************************************)
(* What read_sector(lba, buffer) promises its callers in ISO9660FS.c.      *)
(* While the call is pending the buffer is overwritten from the front with *)
(* bytes of the requested sector and of no other; the call returns 0       *)
(* whatever happened (ata.c:594-598), so a caller cannot tell a full       *)
(* buffer from one that was left as it was.                                *)
(***************************************************************************)
EXTENDS Naturals

CONSTANTS Lbas,       \* the sectors of the medium
          NoLba,      \* no read is pending
          Junk,       \* buffer contents that come from no sector
          Units       \* pieces of a sector told apart (2048 bytes in the code)

VARIABLES pending,    \* the lba of the read in progress, or NoLba
          buffer      \* for each piece of the buffer, the sector it came from

vars == <<pending, buffer>>

Pieces == 1..Units

Init == /\ pending = NoLba
        /\ buffer = [i \in Pieces |-> Junk]

Request(l) == /\ pending = NoLba
              /\ pending' = l
              /\ UNCHANGED buffer

\* The drive delivers the first n pieces of the requested sector.
Fill(n) == /\ pending # NoLba
           /\ buffer' = [i \in Pieces |-> IF i <= n THEN pending ELSE buffer[i]]
           /\ UNCHANGED pending

Return == /\ pending # NoLba
          /\ pending' = NoLba
          /\ UNCHANGED buffer

Next == \/ \E l \in Lbas : Request(l)
        \/ \E n \in Pieces : Fill(n)
        \/ Return

Spec == Init /\ [][Next]_vars
=============================================================================
