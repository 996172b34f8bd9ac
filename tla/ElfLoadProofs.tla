--------------------------- MODULE ElfLoadProofs ----------------------------
(***************************************************************************)
(* For every memory size, every load address and every set of ELF files:   *)
(* a file with a safe layout is loaded completely and the loader never     *)
(* reads a header it has overwritten; a load that does not derail writes   *)
(* nothing outside the segments.                                           *)
(***************************************************************************)
EXTENDS ElfLoad, TLAPS

(* A cell that differs from the image belongs to a segment already copied. *)
(* With a safe layout this keeps the tables and every source still needed  *)
(* intact, so it carries the whole argument.                               *)
Written ==
  pc # "derailed" =>
    \A a \in Addr : mem[a] # Image(elf)[a] =>
      /\ elf.magic /\ a \notin Loader
      /\ \E k \in Loads(elf) : k <= i /\ a \in Dest(elf.e_phdrs[k])

Progress == /\ pc \in {"check", "failed"} => i = 0
            /\ pc \in {"loop", "done"} => elf.magic
            /\ pc = "done" => i = Len(elf.e_phdrs)

LoadedSoFar == Safe(elf) => /\ pc # "derailed"
                            /\ \A k \in Loads(elf) :
                                 k <= i => InPlace(elf.e_phdrs[k])

IInv == TypeOK /\ elf \in Files /\ Written /\ Progress /\ LoadedSoFar

(* The parts of a file and where they lie.                                 *)
LEMMA FileFacts ==
  ASSUME NEW f \in Files
  PROVE  /\ f \in File
         /\ Len(f.e_phdrs) \in Nat
         /\ \A k \in 1..Len(f.e_phdrs) : f.e_phdrs[k] \in Phdr
         /\ f.e_phoff \in Nat /\ f.length \in Nat
         /\ READ \in Nat /\ MemTop \in Nat
         /\ READ + f.length <= MemTop
         /\ 1 <= f.e_phoff
         /\ f.e_phoff + Len(f.e_phdrs) <= f.length
         /\ \A k \in 1..Len(f.e_phdrs) :
            /\ f.e_phdrs[k].p_offset + f.e_phdrs[k].p_filesz <= f.length
            /\ f.e_phdrs[k].p_vaddr + f.e_phdrs[k].p_filesz <= MemTop
            /\ f.e_phdrs[k].p_vaddr + f.e_phdrs[k].p_memsz <= MemTop
  BY ElfAssumption DEF ElfAssumption, File

LEMMA PhdrFacts ==
  ASSUME NEW p \in Phdr
  PROVE  /\ p.load \in BOOLEAN
         /\ p.p_offset \in Nat /\ p.p_vaddr \in Nat
         /\ p.p_filesz \in Nat /\ p.p_memsz \in Nat
  BY DEF Phdr

(* The cell of a program header, as the loader computes it.                *)
LEMMA TableCell ==
  ASSUME NEW f \in Files, NEW k \in 0..(Len(f.e_phdrs) - 1)
  PROVE  READ + f.e_phoff + k \in Tables(f) \cap Addr
  <1> DEFINE n == Len(f.e_phdrs)
             o == f.e_phoff
  <1>1. /\ READ \in Nat /\ o \in Nat /\ n \in Nat /\ MemTop \in Nat
        /\ f.length \in Nat /\ o + n <= f.length /\ READ + f.length <= MemTop
    BY FileFacts
  <1>2. k \in 0..(n - 1)
    OBVIOUS
  <1> SUFFICES READ + o + k \in ((READ + o)..(READ + o + n - 1)) \cap (0..(MemTop - 1))
    BY DEF Tables, Addr
  <1> HIDE DEF n, o
  <1> QED
    BY <1>1, <1>2

(* In a safe layout what is still to be read has not been written.         *)
LEMMA TablesIntact ==
  ASSUME IInv, Safe(elf)
  PROVE  /\ HeaderIntact
         /\ \A k \in 0..(Len(elf.e_phdrs) - 1) : PhdrIntact(k)
  <1>1. ASSUME NEW a \in Tables(elf) PROVE a \in Addr /\ mem[a] = a - READ + 1
    <2> DEFINE n == Len(elf.e_phdrs)
    <2>0. /\ READ \in Nat /\ MemTop \in Nat /\ n \in Nat
          /\ elf.e_phoff \in Nat /\ elf.length \in Nat
          /\ 1 <= elf.e_phoff /\ elf.e_phoff + n <= elf.length
          /\ READ + elf.length <= MemTop
      BY FileFacts DEF IInv
    <2>1. a \in Addr /\ a \in READ..(READ + elf.length - 1)
      <3> HIDE DEF n
      <3>1. a = READ \/ a \in (READ + elf.e_phoff)..(READ + elf.e_phoff + n - 1)
        BY DEF Tables, n
      <3> QED
        BY <2>0, <3>1 DEF Addr
    <2>2. mem[a] = Image(elf)[a]
      BY <2>1 DEF IInv, Written, LoadedSoFar, Safe
    <2> QED
      BY <2>1, <2>2 DEF Image
  <1>2. READ \in Tables(elf)
    BY DEF Tables
  <1>3. HeaderIntact
    BY <1>1, <1>2, FileFacts DEF HeaderIntact, IInv
  <1>4. ASSUME NEW k \in 0..(Len(elf.e_phdrs) - 1) PROVE PhdrIntact(k)
    <2> DEFINE a == READ + elf.e_phoff + k
    <2>1. READ \in Nat /\ elf.e_phoff \in Nat
      BY FileFacts DEF IInv
    <2>2. a \in Tables(elf)
      BY TableCell DEF IInv
    <2>3. mem[a] = a - READ + 1
      BY <1>1, <2>2
    <2>4. a - READ + 1 = elf.e_phoff + k + 1
      BY <2>1
    <2> QED
      BY <2>3, <2>4 DEF PhdrIntact
  <1> QED
    BY <1>3, <1>4

LEMMA SourceIntact ==
  ASSUME IInv, Safe(elf), i < Len(elf.e_phdrs), phdr.load,
         NEW a \in Source(phdr)
  PROVE  a \in Addr /\ mem[a] = a - READ + 1
  <1>1. i + 1 \in Loads(elf) /\ i \in Nat
    BY FileFacts DEF IInv, TypeOK, Loads, phdr
  <1>2. phdr \in Phdr /\ phdr.p_offset + phdr.p_filesz <= elf.length
    BY <1>1, FileFacts DEF IInv, phdr, Loads
  <1>3. a \in Addr /\ a \in READ..(READ + elf.length - 1)
    <2>1. /\ READ \in Nat /\ MemTop \in Nat /\ elf.length \in Nat
          /\ READ + elf.length <= MemTop
      BY FileFacts DEF IInv
    <2>2. phdr.p_offset \in Nat /\ phdr.p_filesz \in Nat
      BY <1>2, PhdrFacts
    <2>3. a \in (READ + phdr.p_offset)..(READ + phdr.p_offset + phdr.p_filesz - 1)
      BY DEF Source
    <2> HIDE DEF phdr
    <2> QED
      BY <1>2, <2>1, <2>2, <2>3 DEF Addr
  <1>4. ASSUME NEW k \in Loads(elf), k <= i PROVE a \notin Dest(elf.e_phdrs[k])
    <2>1. k < i + 1
      BY <1>1, <1>4 DEF Loads
    <2>2. Dest(elf.e_phdrs[k]) \cap Source(elf.e_phdrs[i + 1]) = {}
      BY <1>1, <2>1 DEF Safe
    <2> QED
      BY <2>2 DEF phdr
  <1>5. mem[a] = Image(elf)[a]
    BY <1>3, <1>4 DEF IInv, Written, LoadedSoFar
  <1> QED
    BY <1>3, <1>5 DEF Image

(* What one segment's copy and clear do to memory.                         *)
LEMMA CopyFacts ==
  ASSUME NEW m \in [Addr -> Content], NEW p \in Phdr,
         p.p_filesz <= p.p_memsz, READ \in Nat, MemTop \in Nat,
         p.p_vaddr + p.p_memsz <= MemTop,
         NEW M, M = memsetb(memcpyb(m, p.p_vaddr, READ + p.p_offset, p.p_filesz),
                            p.p_vaddr + p.p_filesz, p.p_memsz - p.p_filesz)
  PROVE  /\ \A a \in Addr : a \notin Dest(p) => M[a] = m[a]
         /\ \A a \in Zeroed(p) : M[a] = 0
         /\ (Copied(p) \cap Source(p) = {} \/ p.p_vaddr <= READ + p.p_offset)
              => \A a \in Copied(p) : M[a] = m[READ + p.p_offset + (a - p.p_vaddr)]
  <1> DEFINE dst == p.p_vaddr
             src == READ + p.p_offset
             n == p.p_filesz
  <1>1. dst \in Nat /\ src \in Nat /\ n \in Nat /\ p.p_memsz \in Nat
    BY PhdrFacts
  <1>2. Dest(p) \subseteq Addr /\ Copied(p) \subseteq Addr /\ Zeroed(p) \subseteq Addr
    <2>1. Copied(p) \subseteq Addr
      BY <1>1 DEF Copied, Addr
    <2>2. Zeroed(p) \subseteq Addr
      BY <1>1 DEF Zeroed, Addr
    <2> QED
      BY <2>1, <2>2 DEF Dest
  <1>3. \A a \in Addr : a \notin Dest(p) => M[a] = m[a]
    BY <1>1 DEF Dest, Copied, Zeroed, memsetb, memcpyb
  <1>4. \A a \in Zeroed(p) : M[a] = 0
    BY <1>1, <1>2 DEF Zeroed, memsetb
  <1>5. ASSUME Copied(p) \cap Source(p) = {} \/ dst <= src, NEW a \in Copied(p)
        PROVE  M[a] = m[src + (a - dst)]
    <2>1. a \in Int /\ dst <= a /\ a < dst + n /\ a \in Addr
      BY <1>1, <1>2 DEF Copied
    <2>2. M[a] = memcpyb(m, dst, src, n)[a]
      BY <1>1, <2>1 DEF memsetb
    <2>3. CASE ~(src < dst)
      BY <1>1, <2>1, <2>2, <2>3 DEF memcpyb
    <2>4. CASE src < dst
      <3>1. ~(dst < src + n)
        <4>1. SUFFICES ASSUME dst < src + n PROVE FALSE
          OBVIOUS
        <4>2. dst \in Copied(p) /\ dst \in Source(p)
          BY <1>1, <2>1, <2>4, <4>1 DEF Copied, Source
        <4> QED
          BY <1>1, <1>5, <2>4, <4>2
      <3>2. (a - dst) % (dst - src) = a - dst
        BY <1>1, <2>1, <2>4, <3>1
      <3> QED
        BY <1>1, <2>1, <2>2, <2>4, <3>2 DEF memcpyb
    <2> QED
      BY <2>3, <2>4
  <1> QED
    BY <1>3, <1>4, <1>5

LEMMA CopyType ==
  ASSUME NEW m \in [Addr -> Content], NEW p \in Phdr,
         READ \in Nat, MemTop \in Nat,
         READ + p.p_offset + p.p_filesz <= MemTop,
         p.p_vaddr + p.p_memsz <= MemTop
  PROVE  memsetb(memcpyb(m, p.p_vaddr, READ + p.p_offset, p.p_filesz),
                 p.p_vaddr + p.p_filesz, p.p_memsz - p.p_filesz)
           \in [Addr -> Content]
  <1> DEFINE dst == p.p_vaddr
             src == READ + p.p_offset
             n == p.p_filesz
             c == memcpyb(m, dst, src, n)
  <1>0. src + n <= MemTop /\ MemTop \in Nat
    OBVIOUS
  <1>1. dst \in Nat /\ src \in Nat /\ n \in Nat /\ p.p_memsz \in Nat
    BY PhdrFacts
  <1>2. ASSUME NEW a \in Addr PROVE c[a] \in Content
    <2>1. CASE a \notin dst..(dst + n - 1)
      BY <2>1 DEF memcpyb
    <2>2. CASE a \in dst..(dst + n - 1) /\ ~(src < dst)
      <3>1. src + (a - dst) \in Addr
        <4> HIDE DEF dst, src, n, c
        <4>1. a \in Int /\ dst <= a /\ a < dst + n
          BY <1>1, <2>2
        <4>2. src + (a - dst) \in Nat /\ src + (a - dst) < src + n
          BY <1>1, <4>1
        <4> QED
          BY <1>0, <1>1, <4>2 DEF Addr
      <3> QED
        BY <2>2, <3>1 DEF memcpyb
    <2>3. CASE a \in dst..(dst + n - 1) /\ src < dst
      <3>1. (a - dst) % (dst - src) \in Nat /\ (a - dst) % (dst - src) < dst - src
        BY <1>1, <2>3
      <3>2. src + ((a - dst) % (dst - src)) \in Addr
        <4> DEFINE q == (a - dst) % (dst - src)
        <4>1. q \in Nat /\ q < dst - src
          BY <3>1
        <4>2. dst <= MemTop
          BY <1>0, <1>1
        <4> HIDE DEF dst, src, n, c, q
        <4>3. src + q \in Nat /\ src + q < MemTop
          BY <1>0, <1>1, <4>1, <4>2
        <4>4. src + q \in Addr
          BY <1>0, <4>3 DEF Addr
        <4> QED
          BY <4>4 DEF q
      <3> QED
        BY <2>3, <3>2 DEF memcpyb
    <2> QED
      BY <2>1, <2>2, <2>3
  <1>3. c \in [Addr -> Content]
    BY <1>2 DEF memcpyb
  <1> QED
    BY <1>3 DEF memsetb, Content

(* One segment of a safe layout is put in place, and the segments before   *)
(* it stay in place.                                                       *)
LEMMA LoadKeeps ==
  ASSUME IInv, LoadSegment, Safe(elf)
  PROVE  \A k \in Loads(elf) : k <= i + 1 => InPlace(elf.e_phdrs[k])'
  <1>1. /\ i \in Nat /\ i + 1 \in Loads(elf) /\ phdr \in Phdr
        /\ i < Len(elf.e_phdrs)
        /\ phdr.p_vaddr + phdr.p_memsz <= MemTop
        /\ READ \in Nat /\ MemTop \in Nat
    BY FileFacts DEF IInv, TypeOK, LoadSegment, InLoop, Loads, phdr, phnum
  <1>2. /\ \A a \in Addr : a \notin Dest(phdr) => mem'[a] = mem[a]
        /\ \A a \in Zeroed(phdr) : mem'[a] = 0
        /\ \A a \in Copied(phdr) :
              mem'[a] = mem[READ + phdr.p_offset + (a - phdr.p_vaddr)]
    <2>1. Copied(phdr) \cap Source(phdr) = {} \/ phdr.p_vaddr <= READ + phdr.p_offset
      BY <1>1 DEF Safe, phdr
    <2>2. phdr.p_filesz <= phdr.p_memsz /\ mem \in [Addr -> Content]
      BY DEF LoadSegment, Survives, IInv, TypeOK
    <2>3. mem' = memsetb(memcpyb(mem, phdr.p_vaddr, READ + phdr.p_offset, phdr.p_filesz),
                   phdr.p_vaddr + phdr.p_filesz, phdr.p_memsz - phdr.p_filesz)
      BY DEF LoadSegment, Segment
    <2> HIDE DEF phdr
    <2> QED
      BY <1>1, <2>1, <2>2, <2>3, CopyFacts
  <1>3. ASSUME NEW k \in Loads(elf), k = i + 1 PROVE InPlace(elf.e_phdrs[k])'
    <2>1. ASSUME NEW a \in Copied(phdr)
          PROVE  mem'[a] = phdr.p_offset + (a - phdr.p_vaddr) + 1
      <3> DEFINE b == READ + phdr.p_offset + (a - phdr.p_vaddr)
      <3>1. phdr.p_offset \in Nat /\ phdr.p_vaddr \in Nat /\ phdr.p_filesz \in Nat
        BY <1>1, PhdrFacts
      <3>2. b \in Source(phdr)
        <4>1. a \in phdr.p_vaddr..(phdr.p_vaddr + phdr.p_filesz - 1)
          BY DEF Copied
        <4>2. b \in (READ + phdr.p_offset)..(READ + phdr.p_offset + phdr.p_filesz - 1)
          <5> HIDE DEF phdr
          <5>1. /\ a \in Int /\ READ \in Nat
                /\ phdr.p_vaddr <= a /\ a < phdr.p_vaddr + phdr.p_filesz
            BY <1>1, <3>1, <4>1
          <5>2. /\ b \in Int /\ READ + phdr.p_offset <= b
                /\ b < READ + phdr.p_offset + phdr.p_filesz
            BY <3>1, <5>1
          <5> QED
            BY <3>1, <5>1, <5>2
        <4> QED
          BY <4>2 DEF Source
      <3>3. mem[b] = b - READ + 1
        BY <1>1, <3>2, SourceIntact DEF LoadSegment
      <3>4. mem'[a] = mem[b]
        BY <1>2
      <3>5. a \in Int
        BY <3>1 DEF Copied
      <3>6. b - READ + 1 = phdr.p_offset + (a - phdr.p_vaddr) + 1
        BY <1>1, <3>1, <3>5
      <3> QED
        BY <3>3, <3>4, <3>6
    <2>2. elf'.e_phdrs[k] = phdr
      BY <1>3 DEF phdr, LoadSegment
    <2> QED
      BY <1>2, <2>1, <2>2 DEF InPlace
  <1>4. ASSUME NEW k \in Loads(elf), k <= i PROVE InPlace(elf.e_phdrs[k])'
    <2> DEFINE q == elf.e_phdrs[k]
    <2>1. q \in Phdr /\ q.p_vaddr \in Nat /\ q.p_filesz \in Nat /\ q.p_memsz \in Nat
          /\ q.p_vaddr + q.p_filesz <= MemTop /\ q.p_vaddr + q.p_memsz <= MemTop
      BY FileFacts, PhdrFacts DEF IInv, Loads
    <2>2. k < i + 1
      BY <1>1, <1>4 DEF Loads
    <2>3. Dest(q) \cap Dest(phdr) = {}
      BY <1>1, <2>2 DEF Safe, phdr
    <2>4. Copied(q) \subseteq Addr /\ Zeroed(q) \subseteq Addr
      <3> HIDE DEF q
      <3>1. Copied(q) \subseteq Addr
        BY <1>1, <2>1 DEF Copied, Addr
      <3>2. Zeroed(q) \subseteq Addr
        BY <1>1, <2>1 DEF Zeroed, Addr
      <3> QED
        BY <3>1, <3>2
    <2>5. InPlace(q)
      BY <1>4 DEF IInv, LoadedSoFar
    <2>6. \A a \in Dest(q) : mem'[a] = mem[a]
      BY <1>2, <2>3, <2>4 DEF Dest
    <2>7. elf' = elf
      BY DEF LoadSegment
    <2> HIDE DEF q
    <2>8. (\A a \in Copied(q) : mem'[a] = q.p_offset + (a - q.p_vaddr) + 1)
          /\ (\A a \in Zeroed(q) : mem'[a] = 0)
      BY <2>5, <2>6 DEF InPlace, Dest
    <2> QED
      BY <2>7, <2>8 DEF InPlace, q
  <1>5. ASSUME NEW k \in Loads(elf), k <= i + 1 PROVE k <= i \/ k = i + 1
    BY <1>1, <1>5 DEF Loads
  <1> QED
    BY <1>3, <1>4, <1>5

(* A segment of a safe layout spares the loader and its program header.    *)
LEMMA SafeSurvives ==
  ASSUME IInv, InLoop, Safe(elf), i + 1 \in Loads(elf)
  PROVE  Survives
  <1> DEFINE a == READ + elf.e_phoff + i
  <1>1. /\ i \in Nat /\ i < Len(elf.e_phdrs) /\ Len(elf.e_phdrs) \in Nat
        /\ READ \in Nat /\ elf.e_phoff \in Nat /\ MemTop \in Nat
        /\ elf.e_phoff + Len(elf.e_phdrs) <= elf.length /\ elf.length \in Nat
        /\ READ + elf.length <= MemTop
    BY FileFacts DEF IInv, TypeOK, InLoop, phnum
  <1>2. a \in Addr /\ a \in Tables(elf)
    BY <1>1, TableCell DEF IInv
  <1>3. /\ phdr.p_filesz <= phdr.p_memsz
        /\ Dest(phdr) \cap (Tables(elf) \cup Loader) = {}
    BY DEF Safe, phdr
  <1>4. Segment(phdr)[a] = mem[a]
    <2>1. a \notin Copied(phdr)
      BY <1>2, <1>3 DEF Dest
    <2> HIDE DEF phdr, a
    <2> QED
      BY <1>2, <2>1 DEF Segment, memcpyb, Copied
  <1>5. mem[a] = elf.e_phoff + i + 1
    BY DEF InLoop, PhdrIntact
  <1> QED
    BY <1>3, <1>4, <1>5 DEF Survives

(* Every step of the loader preserves the invariant.                       *)
LEMMA NextIInv == IInv /\ [Next]_vars => IInv'
  <1> SUFFICES ASSUME IInv, [Next]_vars PROVE IInv'
    OBVIOUS
  <1>0. Len(elf.e_phdrs) \in Nat /\ i \in Nat
    BY FileFacts DEF IInv, TypeOK
  <1>1. CASE CheckMagic
    BY <1>0, <1>1 DEF CheckMagic, IInv, TypeOK, Written, Progress, LoadedSoFar,
                InPlace
  <1>2. CASE LoadSegment
    <2>1. /\ elf' = elf /\ pc' = pc /\ i' = i + 1 /\ i < Len(elf.e_phdrs)
          /\ pc = "loop" /\ g_kernelAddress' = phdr.p_vaddr
          /\ i + 1 \in Loads(elf) /\ phdr \in Phdr /\ elf.magic
          /\ READ \in Nat /\ MemTop \in Nat
          /\ phdr.p_vaddr + phdr.p_memsz <= MemTop
          /\ READ + phdr.p_offset + phdr.p_filesz <= MemTop
      <3>1. /\ elf' = elf /\ pc' = pc /\ i' = i + 1 /\ i < Len(elf.e_phdrs)
            /\ pc = "loop" /\ g_kernelAddress' = phdr.p_vaddr /\ phdr.load
        BY <1>2 DEF LoadSegment, InLoop, phnum
      <3>2. i + 1 \in Loads(elf) /\ phdr \in Phdr /\ elf.magic
        BY <1>0, <3>1, FileFacts DEF IInv, Loads, phdr, Progress
      <3>3. /\ READ \in Nat /\ MemTop \in Nat /\ elf.length \in Nat
            /\ READ + elf.length <= MemTop
            /\ phdr.p_vaddr + phdr.p_memsz <= MemTop
            /\ phdr.p_offset + phdr.p_filesz <= elf.length
        BY <1>0, <3>1, FileFacts DEF IInv, phdr
      <3>4. phdr.p_offset \in Nat /\ phdr.p_filesz \in Nat
        BY <3>2, PhdrFacts
      <3>5. READ + phdr.p_offset + phdr.p_filesz <= MemTop
        <4> HIDE DEF phdr
        <4> QED
          BY <3>3, <3>4
      <3> QED
        BY <3>1, <3>2, <3>3, <3>5
    <2>2. mem' \in [Addr -> Content]
      BY <1>2, <2>1, CopyType DEF LoadSegment, Segment, IInv, TypeOK
    <2>3. TypeOK'
      BY <1>0, <2>1, <2>2, PhdrFacts DEF IInv, TypeOK
    <2>4. Written'
      <3> SUFFICES ASSUME NEW a \in Addr, mem'[a] # Image(elf)[a]
                   PROVE  /\ a \notin Loader
                          /\ \E k \in Loads(elf) :
                               k <= i + 1 /\ a \in Dest(elf.e_phdrs[k])
        BY <2>1 DEF Written
      <3>1. CASE a \in Dest(phdr)
        BY <1>0, <1>2, <2>1, <3>1 DEF phdr, LoadSegment, Survives
      <3>2. CASE a \notin Dest(phdr)
        <4>1. phdr.p_filesz <= phdr.p_memsz /\ mem \in [Addr -> Content]
          BY <1>2 DEF LoadSegment, Survives, IInv, TypeOK
        <4>2. mem' = memsetb(memcpyb(mem, phdr.p_vaddr, READ + phdr.p_offset, phdr.p_filesz),
                       phdr.p_vaddr + phdr.p_filesz, phdr.p_memsz - phdr.p_filesz)
          BY <1>2 DEF LoadSegment, Segment
        <4>3. mem'[a] = mem[a]
          <5> HIDE DEF phdr
          <5> QED
            BY <2>1, <3>2, <4>1, <4>2, CopyFacts
        <4>4. PICK k \in Loads(elf) : k <= i /\ a \in Dest(elf.e_phdrs[k])
          BY <2>1, <4>3 DEF IInv, Written
        <4> QED
          BY <1>0, <2>1, <4>3, <4>4 DEF Loads, IInv, Written
      <3> QED
        BY <3>1, <3>2
    <2>5. Progress'
      BY <2>1 DEF Progress, IInv
    <2>6. LoadedSoFar'
      <3>1. Safe(elf)' => Safe(elf)
        BY <2>1 DEF Safe, Loads, Dest, Tables, Copied, Zeroed, Source
      <3>2. Safe(elf) => \A k \in Loads(elf) : k <= i + 1 => InPlace(elf.e_phdrs[k])'
        BY <1>2, LoadKeeps
      <3> QED
        BY <2>1, <3>1, <3>2 DEF LoadedSoFar, Loads
    <2> QED
      BY <2>1, <2>3, <2>4, <2>5, <2>6 DEF IInv
  <1>3. CASE SkipSegment
    <2>1. /\ UNCHANGED <<elf, mem, pc, g_kernelAddress>> /\ i' = i + 1
          /\ i < Len(elf.e_phdrs) /\ pc = "loop" /\ i + 1 \notin Loads(elf)
      BY <1>0, <1>3 DEF SkipSegment, InLoop, phnum, phdr, Loads
    <2>2. \A k \in Loads(elf) : k <= i + 1 => k <= i
      BY <1>0, <2>1 DEF Loads
    <2>3. \A k \in Loads(elf) : k <= i => k <= i + 1
      BY <1>0 DEF Loads
    <2>4. TypeOK' /\ Progress'
      BY <1>0, <2>1 DEF IInv, TypeOK, Progress
    <2>5. Written'
      BY <2>1, <2>3 DEF IInv, Written
    <2>6. LoadedSoFar'
      BY <2>1, <2>2 DEF IInv, LoadedSoFar, InPlace
    <2> QED
      BY <2>1, <2>4, <2>5, <2>6 DEF IInv
  <1>4. CASE Finish
    BY <1>0, <1>4 DEF Finish, phnum, IInv, TypeOK, Written, Progress, LoadedSoFar,
                InPlace
  <1>5. CASE Derail
    <2>1. ~Safe(elf)
      <3> SUFFICES ASSUME Safe(elf) PROVE FALSE
        OBVIOUS
      <3>1. HeaderIntact
        BY TablesIntact
      <3>2. i < phnum => PhdrIntact(i)
        BY <1>0, TablesIntact DEF phnum
      <3>3. InLoop /\ phdr.load => Survives
        <4> SUFFICES ASSUME InLoop, phdr.load PROVE Survives
          OBVIOUS
        <4>1. i + 1 \in Loads(elf)
          BY <1>0, FileFacts DEF InLoop, phnum, phdr, Loads, IInv
        <4> QED
          BY <4>1, SafeSurvives
      <3> QED
        BY <1>5, <3>1, <3>2, <3>3 DEF Derail
    <2>2. mem' \in [Addr -> Content] /\ g_kernelAddress' \in Nat \cup {Unknown}
      BY <1>5 DEF Derail, Content
    <2> QED
      BY <1>0, <1>5, <2>1, <2>2 DEF Derail, IInv, TypeOK, Written, Progress,
                                    LoadedSoFar
  <1>6. CASE UNCHANGED vars
    BY <1>6 DEF vars, IInv, TypeOK, Written, Progress, LoadedSoFar, InPlace
  <1> QED
    BY <1>1, <1>2, <1>3, <1>4, <1>5, <1>6 DEF Next

LEMMA InitIInv == Init => IInv
  <1> SUFFICES ASSUME Init PROVE IInv
    OBVIOUS
  <1>1. elf \in File /\ Len(elf.e_phdrs) \in Nat /\ READ \in Nat
    BY FileFacts DEF Init
  <1>2. \A a \in Addr : Image(elf)[a] \in Content
    BY <1>1 DEF Image, Addr, Content
  <1>3. mem \in [Addr -> Content]
    BY <1>2 DEF Init, Image
  <1>4. \A k \in Loads(elf) : ~(k <= 0)
    BY <1>1 DEF Loads
  <1> QED
    BY <1>1, <1>3, <1>4 DEF Init, IInv, TypeOK, Written, Progress, LoadedSoFar

LEMMA Invariance == Spec => []IInv
  BY InitIInv, NextIInv, PTL DEF Spec

(* The loader's variables keep their types.                                *)
THEOREM TypeCorrect == Spec => []TypeOK
  BY Invariance, PTL DEF IInv

(* A file with a safe layout is in memory when load_elf32 returns 1.       *)
THEOREM SafeFilesAreLoaded == Spec => []SafeFilesLoad
  <1>1. ASSUME IInv PROVE SafeFilesLoad
    <2>1. \A k \in Loads(elf) : k <= Len(elf.e_phdrs)
      BY <1>1, FileFacts DEF IInv, Loads
    <2> QED
      BY <1>1, <2>1 DEF IInv, Progress, LoadedSoFar, SafeFilesLoad
  <1>2. IInv => SafeFilesLoad
    BY <1>1
  <1> QED
    BY <1>2, Invariance, PTL

(* With a safe layout the loader never reads an overwritten table.         *)
THEOREM SafeFilesNeverDerail == Spec => []SafeNeverDerails
  <1>1. IInv => SafeNeverDerails
    BY DEF IInv, LoadedSoFar, SafeNeverDerails
  <1> QED
    BY <1>1, Invariance, PTL

(* While the loader is itself, only the destinations of loadable segments  *)
(* are written and never its own memory (elf.c:32-55, mem.c:43-84).        *)
THEOREM NothingElseWritten == Spec => []OnlySegmentsWritten
  <1>1. IInv => OnlySegmentsWritten
    BY DEF IInv, Written, OnlySegmentsWritten
  <1> QED
    BY <1>1, Invariance, PTL
=============================================================================
