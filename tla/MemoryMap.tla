----------------------------- MODULE MemoryMap ------------------------------
(***************************************************************************)
(* LoadMemoryMap (memory.inc:99-203): the table of memory ranges, fetched  *)
(* entry by entry with int 15h, EAX = E820h, into the page at 0x9000.  The *)
(* BIOS hands out its entries in order; a continuation value of 0 in EBX   *)
(* comes with the last one, or the call after the last one sets CF.        *)
(* Entries of 20 bytes leave the attribute dword of the buffer alone.      *)
(* One page is cleared first; entries beyond it are written over whatever  *)
(* lies between the page and the second stage at 0xCC00.                   *)
(***************************************************************************)
EXTENDS Naturals, Sequences

CONSTANTS Tables,      \* the tables a BIOS may have
          Cleared,     \* entries that fit into the cleared page (128)
          Slots        \* entries that fit below the second stage (480)

\* empty: length 0; bytes: what the BIOS stores; attr: bit 0 of the dword.
Entries == [empty : BOOLEAN, bytes : {0, 20, 24}, attr : {0, 1}]

\* The table ends below the second stage, beyond the cleared page or not, with
\* a slot to spare for the call that finds its end.
ASSUME MapAssumption == /\ Cleared \in Nat \ {0}
                        /\ Slots \in Nat /\ Slots >= Cleared
                        /\ \A t \in Tables : t \in Seq(Entries) /\ Len(t) < Slots

VARIABLES label, table, endsBy,
          next,        \* EBX as the number of the entry the BIOS gives next
          page,        \* entry number and attribute bit of each slot
          cl,          \* bytes stored by the last call
          ebp          \* entries accepted; EDI is slot ebp + 1

mapVars == <<label, table, endsBy, next, page, cl, ebp>>

Zero == [entry |-> 0, attr |-> 0]

MapTypeOK == /\ label \in {"first", "cLoop", "MediasRes", "NoMemoryMap", "Done"}
             /\ table \in Tables
             /\ endsBy \in {"ebx", "carry"}
             /\ next \in 0..(Len(table) + 1)
             /\ page \in [1..Slots -> [entry : 0..Len(table), attr : {0, 1}]]
             /\ cl \in {0, 20, 24}
             /\ ebp \in 0..Slots

MapInit == /\ label = "first"
           /\ table \in Tables
           /\ endsBy \in {"ebx", "carry"}
           /\ next = 1
           /\ \E left \in {0, 1} :
                page = [s \in 1..Slots |->
                         IF s <= Cleared THEN Zero ELSE [Zero EXCEPT !.attr = left]]
           /\ cl = 0
           /\ ebp = 0

-----------------------------------------------------------------------------
(* Faulty variants, one per property.                                      *)

\* The attribute dword is forced for the first entry only.
ForcedFirst(n) == IF n = 1 THEN 1 ELSE 0

\* The bit is tested the other way round.
IgnoredSet(s) == cl > 20 /\ page[s].attr = 1

\* A register is stored instead of the constant 1.
ForcedRegister(n) == n

-----------------------------------------------------------------------------
(* int 15h                                                                 *)

\* mov [es:di + 20], dword 1 before every call, also one that stores nothing.
Forced(n) == 1
Preset == [page EXCEPT ![ebp + 1].attr = Forced(next)]

Stored(n) ==
  [entry |-> n,
   attr |-> IF table[n].bytes = 24 THEN table[n].attr ELSE Forced(n)]

After(n) == IF n < Len(table) \/ endsBy = "carry" THEN n + 1 ELSE 0

Carry == next > Len(table)

\* Room for one more is not tested.
Query == /\ ~Carry
         /\ page' = [page EXCEPT ![ebp + 1] = Stored(next)]
         /\ cl' = table[next].bytes
         /\ next' = After(next)

\* A table of one entry is taken for no table.
FirstCall == /\ label = "first"
             /\ Query
             /\ label' = IF next' = 0 THEN "NoMemoryMap" ELSE "MediasRes"
             /\ UNCHANGED <<table, endsBy, ebp>>

NotSupported == /\ label = "first"
                /\ label' = "NoMemoryMap"
                /\ page' = Preset
                /\ UNCHANGED <<table, endsBy, next, cl, ebp>>

LaterCall == /\ label = "cLoop"
             /\ Query
             /\ label' = "MediasRes"
             /\ UNCHANGED <<table, endsBy, ebp>>

\* CF ends the list; EBP keeps what was accepted.
LastCall == /\ label = "cLoop"
            /\ Carry
            /\ label' = "Done"
            /\ page' = Preset
            /\ UNCHANGED <<table, endsBy, next, cl, ebp>>

-----------------------------------------------------------------------------
(* The entry in slot ebp + 1.                                              *)

Ignored(s) == cl > 20 /\ page[s].attr = 0

Accepts == /\ cl # 0
           /\ ~Ignored(ebp + 1)
           /\ ~table[page[ebp + 1].entry].empty

\* test ebx, ebx: no entry follows.
ListEnded == next = 0

ParseEntry == /\ label = "MediasRes"
              /\ ebp' = IF Accepts THEN ebp + 1 ELSE ebp
              /\ label' = IF ListEnded THEN "Done" ELSE "cLoop"
              /\ UNCHANGED <<table, endsBy, next, page, cl>>

MapNext == FirstCall \/ NotSupported \/ LaterCall \/ LastCall \/ ParseEntry

MapSpec == MapInit /\ [][MapNext]_mapVars

-----------------------------------------------------------------------------
(* Properties.                                                             *)

Usable(n) == /\ table[n].bytes # 0 /\ ~table[n].empty
             /\ table[n].bytes = 24 => table[n].attr = 1

Recorded == [k \in 1..ebp |-> page[k].entry]

\* The usable ones among the first n entries, each once, in their order.
Lists(n) == /\ \A j, k \in 1..ebp : j < k => Recorded[j] < Recorded[k]
            /\ {Recorded[k] : k \in 1..ebp} = {m \in 1..n : Usable(m)}

\* What a reader who follows ACPI 3 takes as valid.
EntriesValid == \A k \in 1..ebp : page[k].attr = 1

(* The kernel is given every range that is not empty and not marked to be  *)
(* ignored, once and in the order of the BIOS, whatever entries were       *)
(* rejected in between and however the BIOS ends its list; each is marked  *)
(* valid, also when the BIOS only knows 20-byte entries.                   *)
MapComplete ==
  label = "Done" => Lists(Len(table)) /\ EntriesValid
=============================================================================
