----------------------------- MODULE MCElfLoad ------------------------------
(* Nine cells of memory with the second stage at 0 and the file at 3..7:   *)
(* header, two program headers, two cells of data.  Every pair of        *)
(* program headers over these cells, safe or not, so that segments fall on *)
(* the header, on the table, on the data, on each other, partly on their   *)
(* own source, on the second stage and on free memory.                     *)
EXTENDS ElfLoad

Phdrs == {p \in [load : BOOLEAN, p_offset : 3..4, p_vaddr : 0..8,
                 p_filesz : 0..2, p_memsz : 0..2] :
            /\ p.p_offset + p.p_filesz <= 5
            /\ p.p_vaddr + p.p_filesz <= 9
            /\ p.p_vaddr + p.p_memsz <= 9
            /\ ~p.load => p.p_vaddr = 0 /\ p.p_memsz = 0 /\ p.p_filesz = 0}

MCFiles == {[magic |-> TRUE, e_phoff |-> 1, e_phdrs |-> <<p, q>>, length |-> 5] :
              p \in Phdrs, q \in Phdrs}
           \cup
           {[magic |-> FALSE, e_phoff |-> 1, e_phdrs |-> <<p>>, length |-> 5] :
              p \in Phdrs}
=============================================================================
