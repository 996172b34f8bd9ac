------------------------------ MODULE ElfLoad -------------------------------
(***************************************************************************)
(* load_elf32 (elf.c:14-64).  The ELF file sits in memory at READ, where   *)
(* load_kernel put it; the loader walks its program headers and copies     *)
(* every PT_LOAD segment to p_vaddr.  Header and program headers are read  *)
(* again from memory in every iteration, the sizes of a segment once more  *)
(* between its copy and its clearing, and nothing keeps a segment from     *)
(* being copied over them, over another segment, over data still to be     *)
(* copied or over the second stage itself.                                 *)
(*                                                                         *)
(* A cell of memory holds 1 + the file offset it was loaded from, 0 after  *)
(* memsetb, Other for what it held before, or Unknown.  The header and     *)
(* each program header take one cell.                                      *)
(***************************************************************************)
EXTENDS Integers, Sequences

CONSTANTS MemTop,     \* addresses are 0..MemTop-1
          READ,       \* KERNEL_ELF_READ, 0x300000 in the code
          Loader,     \* code, stack and variables of the second stage
          Files       \* the files load_kernel may have read

Other == -1
Unknown == -2

Phdr == [load : BOOLEAN, p_offset : Nat, p_vaddr : Nat,
         p_filesz : Nat, p_memsz : Nat]

\* e_phdrs stands for e_phoff, e_phnum, e_phentsize and the table they name.
File == [magic : BOOLEAN, e_phoff : Nat, e_phdrs : Seq(Phdr), length : Nat]

ASSUME ElfAssumption ==
  /\ MemTop \in Nat /\ READ \in Nat
  /\ Loader \subseteq Nat
  /\ Files \subseteq File
  /\ \A f \in Files :
       /\ 1 <= f.e_phoff
       /\ f.e_phoff + Len(f.e_phdrs) <= f.length
       /\ READ + f.length <= MemTop
       /\ Loader \cap (READ..(READ + f.length - 1)) = {}
       /\ \A k \in 1..Len(f.e_phdrs) :
            /\ f.e_phdrs[k].p_offset + f.e_phdrs[k].p_filesz <= f.length
            /\ f.e_phdrs[k].p_vaddr + f.e_phdrs[k].p_filesz <= MemTop
            /\ f.e_phdrs[k].p_vaddr + f.e_phdrs[k].p_memsz <= MemTop

VARIABLES elf,              \* the file at READ
          mem,              \* physical memory
          pc,               \* "check", "loop", or how load_elf32 ended
          i,                \* loop counter
          g_kernelAddress   \* what stage2.asm passes on as the kernel address

vars == <<elf, mem, pc, i, g_kernelAddress>>

Addr    == 0..(MemTop - 1)
Content == {Other, Unknown} \cup Nat

Image(f) == [a \in Addr |-> IF a \in READ..(READ + f.length - 1)
                              THEN a - READ + 1 ELSE Other]

TypeOK == /\ elf \in File
          /\ mem \in [Addr -> Content]
          /\ pc \in {"check", "loop", "done", "failed", "derailed"}
          /\ i \in 0..Len(elf.e_phdrs)
          /\ g_kernelAddress \in Nat \cup {Unknown}

Init == /\ elf \in Files
        /\ mem = Image(elf)
        /\ pc = "check"
        /\ i = 0
        /\ g_kernelAddress = 0

-----------------------------------------------------------------------------
(* Layouts.                                                                *)

Loads(f)  == {k \in 1..Len(f.e_phdrs) : f.e_phdrs[k].load}
Source(p) == (READ + p.p_offset)..(READ + p.p_offset + p.p_filesz - 1)
Copied(p) == p.p_vaddr..(p.p_vaddr + p.p_filesz - 1)
Zeroed(p) == (p.p_vaddr + p.p_filesz)..(p.p_vaddr + p.p_memsz - 1)
Dest(p)   == Copied(p) \cup Zeroed(p)
Tables(f) == {READ} \cup
             ((READ + f.e_phoff)..(READ + f.e_phoff + Len(f.e_phdrs) - 1))

(* The layouts the loader copes with: a segment may overwrite the file     *)
(* image only where nothing is left to be read, and the loader nowhere.    *)
Safe(f) ==
  \A k \in Loads(f) :
    LET p == f.e_phdrs[k] IN
    /\ p.p_filesz <= p.p_memsz
    /\ Dest(p) \cap (Tables(f) \cup Loader) = {}
    /\ Copied(p) \cap Source(p) = {} \/ p.p_vaddr <= READ + p.p_offset
    /\ \A l \in Loads(f) :
         k < l => /\ Dest(p) \cap Source(f.e_phdrs[l]) = {}
                  /\ Dest(p) \cap Dest(f.e_phdrs[l]) = {}

\* Segment p is in memory as the file describes it.
InPlace(p) == /\ \A a \in Copied(p) : mem[a] = p.p_offset + (a - p.p_vaddr) + 1
              /\ \A a \in Zeroed(p) : mem[a] = 0

-----------------------------------------------------------------------------
(* Reads through the header and program header pointers.                   *)

phnum == Len(elf.e_phdrs)
phdr  == elf.e_phdrs[i + 1]

HeaderIntact == mem[READ] = 1
PhdrIntact(k) == mem[READ + elf.e_phoff + k] = elf.e_phoff + k + 1

\* Faulty variant: the segment is taken from the start of the file.
memcpybWrong(m, dst, src, n) ==
  [a \in Addr |-> IF a \in dst..(dst + n - 1) THEN m[READ + (a - dst)] ELSE m[a]]

\* Faulty variant: one byte too many is cleared.
memsetbLong(m, dst, n) == [a \in Addr |-> IF a \in dst..(dst + n) THEN 0 ELSE m[a]]

(* memcpyb copies upwards byte by byte, so a destination that starts       *)
(* inside its own source, above its start, repeats the first bytes.        *)
memcpyb(m, dst, src, n) ==
  [a \in Addr |->
     IF a \in dst..(dst + n - 1)
       THEN IF src < dst THEN m[src + ((a - dst) % (dst - src))]
                         ELSE m[src + (a - dst)]
       ELSE m[a]]

memsetb(m, dst, n) == [a \in Addr |-> IF a \in dst..(dst + n - 1) THEN 0 ELSE m[a]]

-----------------------------------------------------------------------------

CheckMagic == /\ pc = "check"
              /\ pc' = IF elf.magic THEN "loop" ELSE "failed"
              /\ UNCHANGED <<elf, mem, i, g_kernelAddress>>

InLoop == pc = "loop" /\ HeaderIntact /\ i < phnum /\ PhdrIntact(i)

Segment(p) == memcpyb(mem, p.p_vaddr, READ + p.p_offset, p.p_filesz)

(* p_filesz and p_memsz are read a second time for memsetb: they are what  *)
(* they were if the copy spared the program header.                        *)
Survives == /\ phdr.p_filesz <= phdr.p_memsz
            /\ Dest(phdr) \cap Loader = {}
            /\ Segment(phdr)[READ + elf.e_phoff + i] = elf.e_phoff + i + 1

\* Faulty variant: the address is stored relative to the file image.
LoadSegmentRelative ==
  /\ InLoop
  /\ phdr.load
  /\ Survives
  /\ g_kernelAddress' = phdr.p_vaddr - READ
  /\ mem' = memsetb(Segment(phdr), phdr.p_vaddr + phdr.p_filesz,
                    phdr.p_memsz - phdr.p_filesz)
  /\ i' = i + 1
  /\ UNCHANGED <<elf, pc>>

LoadSegment ==
  /\ InLoop
  /\ phdr.load
  /\ Survives
  /\ g_kernelAddress' = phdr.p_vaddr
  /\ mem' = memsetb(Segment(phdr), phdr.p_vaddr + phdr.p_filesz,
                    phdr.p_memsz - phdr.p_filesz)
  /\ i' = i + 1
  /\ UNCHANGED <<elf, pc>>

SkipSegment == /\ InLoop
               /\ ~phdr.load
               /\ i' = i + 1
               /\ UNCHANGED <<elf, mem, pc, g_kernelAddress>>

Finish == /\ pc = "loop"
          /\ HeaderIntact /\ i >= phnum
          /\ pc' = "done"
          /\ UNCHANGED <<elf, mem, i, g_kernelAddress>>

(* The loader reads a header or program header that a segment replaced,    *)
(* calls memsetb with a negative count or with sizes the copy replaced, or *)
(* writes over itself: from here on anything may happen, to all of memory. *)
Derail == /\ pc = "loop"
          /\ \/ ~HeaderIntact
             \/ i < phnum /\ ~PhdrIntact(i)
             \/ InLoop /\ phdr.load /\ ~Survives
          /\ pc' = "derailed"
          /\ mem' = [a \in Addr |-> Unknown]
          /\ g_kernelAddress' = Unknown
          /\ UNCHANGED <<elf, i>>

Next == CheckMagic \/ LoadSegment \/ SkipSegment \/ Finish \/ Derail

Spec == Init /\ [][Next]_vars

-----------------------------------------------------------------------------
(* Properties.                                                             *)

(* When load_elf32 returns 1 every loadable segment of a safe layout is in *)
(* place at once: none was damaged by a later one, none was copied from a  *)
(* source that an earlier one had overwritten.                             *)
SafeFilesLoad ==
  pc = "done" /\ Safe(elf) => \A k \in Loads(elf) : InPlace(elf.e_phdrs[k])

(* The loader never reads its own tables back changed if the layout is     *)
(* safe: the condition on layouts that the boot medium must meet.          *)
SafeNeverDerails == Safe(elf) => pc # "derailed"

(* A load that returns, also of an unsafe layout and also with 0, has      *)
(* written nothing but the segments: no part of the boot loader and no     *)
(* part of a file that is refused.  At the end of a derailed one nothing   *)
(* is known.                                                               *)
OnlySegmentsWritten ==
  pc # "derailed" =>
    \A a \in Addr : mem[a] # Image(elf)[a] =>
      /\ elf.magic /\ a \notin Loader
      /\ \E k \in Loads(elf) : a \in Dest(elf.e_phdrs[k])
=============================================================================
