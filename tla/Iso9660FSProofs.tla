-------------------------- MODULE Iso9660FSProofs ---------------------------
(***************************************************************************)
(* First the heap: whatever the counter starts with, for every heap size  *)
(* and every set of requests that stays away from the wrap-around of       *)
(* unsigned int, the nodes stage2_malloc hands out do not overlap, end in  *)
(* the array, and at most the first begins in front of it.  Then the file  *)
(* system, which uses it as that assumes: whatever the medium and the read *)
(* errors, all it does to the heap is to call stage2_malloc.  So Heap is   *)
(* implemented, and what is proved of it holds of the nodes of every boot. *)
(*                                                                         *)
(* Of the file system itself two invariants are proved: IInv, which no     *)
(* silent read error, no stale root and no medium can break, and Right,    *)
(* which holds on a sound volume.  Right says at every step of a search, a *)
(* read or a listing how much of the answer is already there, and the      *)
(* answer is that of the tree (Named, Contents), without sectors and       *)
(* buffers.                                                                *)
(***************************************************************************)
EXTENDS Iso9660FS, WellFoundedInduction, SequenceTheorems, TLAPS

-----------------------------------------------------------------------------
(* The heap.                                                               *)

USE HeapAssumption DEF HeapAssumption

(* All blocks handed out lie below heap_offset, which is what keeps the    *)
(* next one apart from them; after the first the offset is in the array.   *)
HeapIInv == /\ HeapTypeOK
            /\ heap_offset % 4 = start % 4
            /\ blocks = {} => heap_offset = start
            /\ blocks # {} => heap_offset <= HeapSize
            /\ \A b \in blocks : b.base + b.size <= heap_offset
            /\ \A b \in blocks : b.base >= 0 \/ b.base = Place(start)
            /\ BlocksAligned
            /\ BlocksApart

(* Rounding up to a multiple of 4 does not wrap for the sizes asked for.   *)
LEMMA AlignedFacts ==
  ASSUME NEW r \in Requests
  PROVE  /\ Aligned(r) \in Nat
         /\ Aligned(r) % 4 = 0
         /\ r <= Aligned(r)
         /\ Aligned(r) <= r + 3
  <1>1. r \in Nat /\ r + 3 < Word
    OBVIOUS
  <1>2. (r + 3) % Word = r + 3
    BY <1>1
  <1> QED
    BY <1>1, <1>2 DEF Aligned

(* A sum of two unsigned ints wraps at most once.                          *)
LEMMA Wraps ==
  ASSUME NEW w \in Nat \ {0}, NEW x \in Nat, x < 2 * w
  PROVE  x % w = IF x < w THEN x ELSE x - w
  <1>1. CASE x < w
    BY <1>1
  <1>2. CASE x >= w
    <2>1. x - w \in 0..(w - 1)
      BY <1>2
    <2>2. (x - w) % w = x - w
      BY <2>1
    <2>3. x % w = (x - w) % w
      BY <1>2
    <2> QED
      BY <1>2, <2>2, <2>3
  <1> QED
    BY <1>1, <1>2

(* If the sum fits, the counter moves from the place of the new block to   *)
(* behind it.                                                              *)
LEMMA SumFacts ==
  ASSUME NEW r \in Requests, heap_offset \in 0..(Word - 1), Fits(r)
  PROVE  /\ (heap_offset + Aligned(r)) % Word = Place(heap_offset) + Aligned(r)
         /\ Place(heap_offset) + Aligned(r) <= HeapSize
         /\ Place(heap_offset) % 4 = heap_offset % 4
         /\ Place(heap_offset) \in Int
  <1>1. Aligned(r) \in Nat /\ Aligned(r) <= r + 3 /\ r \in Nat /\ HeapSize + r + 3 < Word
    BY AlignedFacts
  <1>2. heap_offset \in Nat /\ heap_offset < Word /\ Word \in Nat \ {0} /\ Word % 4 = 0
        /\ HeapSize \in Nat
    BY <1>1
  <1> DEFINE sum == heap_offset + Aligned(r)
  <1>3. sum \in Nat /\ sum < 2 * Word
    BY <1>1, <1>2
  <1>4. sum % Word = IF sum < Word THEN sum ELSE sum - Word
    <2> HIDE DEF sum
    <2> QED
      BY <1>2, <1>3, Wraps
  <1>5. sum % Word <= HeapSize
    BY DEF Fits
  <1>6. CASE heap_offset <= HeapSize
    BY <1>1, <1>2, <1>4, <1>5, <1>6 DEF Place
  <1>7. CASE heap_offset > HeapSize
    <2>1. sum >= Word
      BY <1>1, <1>2, <1>4, <1>5, <1>7
    <2>2. Place(heap_offset) = heap_offset - Word
      BY <1>7 DEF Place
    <2>3. (heap_offset - Word) % 4 = heap_offset % 4
      BY <1>2
    <2> QED
      BY <1>1, <1>2, <1>4, <1>5, <2>1, <2>2, <2>3
  <1> QED
    BY <1>2, <1>6, <1>7

(* Both outcomes of a call preserve the invariant.                         *)
LEMMA HeapStep == HeapIInv /\ [HeapNext]_heapVars => HeapIInv'
  <1> SUFFICES ASSUME HeapIInv, [HeapNext]_heapVars PROVE HeapIInv'
    OBVIOUS
  <1> USE DEF HeapIInv, HeapTypeOK, BlocksAligned, BlocksApart, Apart
  <1>1. ASSUME NEW r \in Requests, Allocate(r) PROVE HeapIInv'
    <2> DEFINE here == Place(heap_offset)
               new == [base |-> here, size |-> r]
    <2>1. /\ heap_offset \in Nat /\ heap_offset < Word /\ start \in Nat
          /\ heap_offset % 4 = start % 4 /\ Word \in Nat /\ HeapSize \in Nat
          /\ HeapSize < Word
      OBVIOUS
    <2>2. /\ Aligned(r) \in Nat /\ Aligned(r) % 4 = 0
          /\ r \in Nat /\ r <= Aligned(r)
      BY AlignedFacts
    <2>3. /\ heap_offset' = here + Aligned(r)
          /\ here + Aligned(r) <= HeapSize
          /\ here % 4 = start % 4 /\ here \in Int
      BY <1>1, SumFacts DEF Allocate
    <2>4. blocks' = blocks \cup {new} /\ answer' = here /\ start' = start
      BY <1>1 DEF Allocate
    <2>5. /\ here >= 0 \/ here = Place(start)
          /\ here <= heap_offset
          /\ \A b \in blocks : b.base + b.size <= here
      BY <2>1 DEF Place
    <2>6. heap_offset' \in Nat
      BY <1>1, <2>1, <2>2 DEF Allocate
    <2> HIDE DEF here
    <2>7. HeapTypeOK'
      BY <2>1, <2>2, <2>3, <2>4, <2>6
    <2>8. heap_offset' % 4 = start' % 4
      BY <2>1, <2>2, <2>3, <2>4
    <2>9. \A b \in blocks' : b.base + b.size <= heap_offset'
      <3>1. \A b \in blocks : b.base \in Int /\ b.size \in Nat
        OBVIOUS
      <3>2. new.base = here /\ new.size = r
        OBVIOUS
      <3> QED
        BY <2>2, <2>3, <2>4, <2>5, <3>1, <3>2
    <2>10. \A b \in blocks' : b.base >= 0 \/ b.base = Place(start')
      BY <2>4, <2>5
    <2>11. BlocksAligned'
      BY <2>3, <2>4
    <2>12. \A b \in blocks : Apart(b, new) /\ Apart(new, b)
      BY <2>5
    <2>13. BlocksApart'
      BY <2>4, <2>12
    <2>14. blocks' # {} /\ heap_offset' <= HeapSize
      BY <2>3, <2>4
    <2> QED
      BY <2>7, <2>8, <2>9, <2>10, <2>11, <2>13, <2>14 DEF Place
  <1>2. ASSUME NEW r \in Requests, OutOfMemory(r) PROVE HeapIInv'
    BY <1>2 DEF OutOfMemory, Place
  <1>3. CASE UNCHANGED heapVars
    BY <1>3 DEF heapVars, Place
  <1> QED
    BY <1>1, <1>2, <1>3 DEF HeapNext, stage2_malloc

(* The invariant holds in every reachable state.                           *)
LEMMA HeapInvariance == HeapSpec => []HeapIInv
  <1>1. HeapInit => HeapIInv
    BY DEF HeapInit, HeapIInv, HeapTypeOK, BlocksAligned, BlocksApart
  <1> QED
    BY <1>1, HeapStep, PTL DEF HeapSpec

(* Whatever .bss held, the counter and the answers stay numbers of their   *)
(* width.                                                                  *)
THEOREM HeapTypeCorrect == HeapSpec => []HeapTypeOK
  BY HeapInvariance, PTL DEF HeapIInv

(* Every node ends in the array, and only the first can begin in front.    *)
LEMMA NodesInHeap == HeapIInv => BlocksInHeap
  <1>1. ASSUME HeapIInv, NEW b \in blocks
        PROVE  b.base + b.size <= HeapSize /\ (b.base >= 0 \/ b.base = Place(start))
    <2>1. b.base \in Int /\ b.size \in Nat /\ b.base + b.size <= heap_offset
      BY <1>1 DEF HeapIInv, HeapTypeOK
    <2>2. heap_offset \in Nat /\ heap_offset <= HeapSize
      BY <1>1 DEF HeapIInv, HeapTypeOK
    <2> QED
      BY <1>1, <2>1, <2>2 DEF HeapIInv
  <1> QED
    BY <1>1 DEF BlocksInHeap

(* Whatever the counter starts with: no two nodes overlap, all keep its    *)
(* alignment, none reaches behind the array, and at most the first begins  *)
(* in front of it.                                                         *)
THEOREM NodesStayIntact == HeapSpec => []NodesIntact
  <1>1. HeapIInv => NodesIntact
    BY NodesInHeap DEF HeapIInv, NodesIntact
  <1> QED
    BY <1>1, HeapInvariance, PTL

HIDE HeapAssumption DEF HeapAssumption

-----------------------------------------------------------------------------
(* The file system and the heap.                                           *)


(* Each step is one call of stage2_malloc or leaves the heap alone.        *)
LEMMA StepUsesHeap == [Next]_vars => [HeapNext]_heapVars
  <1> SUFFICES ASSUME [Next]_vars PROVE [HeapNext]_heapVars
    OBVIOUS
  <1>1. ASSUME Allocate(NodeSize) \/ OutOfMemory(NodeSize) PROVE HeapNext
    BY <1>1, FSAssumption DEF FSAssumption, HeapNext, stage2_malloc
  <1>2. CASE Open
    BY <1>1, <1>2 DEF Open
  <1>3. ASSUME NEW how \in Outcomes, FindInSector(how) PROVE [HeapNext]_heapVars
    <2>1. PICK recs : FindIn(recs)
      BY <1>3 DEF FindInSector
    <2> QED
      BY <1>1, <2>1 DEF FindIn
  <1>4. ASSUME NEW how \in Outcomes, Mount(how) \/ ReadOneSector(how) \/ ListSector(how)
        PROVE  UNCHANGED heapVars
    BY <1>4 DEF Mount, ReadOneSector, ListSector
  <1>5. CASE FindExhausted \/ ProbeOpened \/ ListOpened \/ KernelOpened
    BY <1>5 DEF FindExhausted, ProbeOpened, ListOpened, KernelOpened
  <1>6. CASE ProbeRead \/ KernelRead \/ ListDone \/ Derail
    BY <1>6 DEF ProbeRead, KernelRead, ListDone, Derail
  <1>7. CASE UNCHANGED vars
    BY <1>7 DEF vars
  <1> QED
    BY <1>2, <1>3, <1>4, <1>5, <1>6, <1>7 DEF Next

(* The file system implements the allocator's specification.               *)
THEOREM ImplementsHeap == Spec => HeapSpec
  <1>1. Init => HeapInit
    BY DEF Init
  <1> QED
    BY <1>1, StepUsesHeap, PTL DEF Spec, HeapSpec

(* The nodes opened by init_vfs and load_kernel never overlap and end in   *)
(* the array, on every medium, with every read error and whatever .bss     *)
(* held.                                                                   *)
THEOREM OpenNodesIntact == Spec => []NodesIntact
  BY ImplementsHeap, NodesStayIntact, PTL

-----------------------------------------------------------------------------
(* The medium.                                                             *)

(* A set of natural numbers has a least one, and Min finds it.             *)
LEMMA LeastNat ==
  ASSUME NEW S \in SUBSET Nat, S # {}
  PROVE  \E x \in S : \A y \in S : x <= y
<1>1. PICK x \in S : \A y \in S : ~ (<<y, x>> \in OpToRel(<, Nat))
  BY NatLessThanWellFounded, WFMin
<1>2. ASSUME NEW y \in S PROVE x <= y
  <2>1. ~ (<<y, x>> \in OpToRel(<, Nat))
    BY <1>1
  <2>2. ~ (y < x)
    BY <2>1 DEF OpToRel
  <2> QED
    BY <2>2
<1> QED
  BY <1>2

(* A size that is a whole number of sectors, or of words.                  *)
LEMMA Multiple ==
  ASSUME NEW len \in Nat, NEW s \in Nat \ {0}, len % s = 0
  PROVE  \E q \in Nat : len = q * s
  OBVIOUS

(* The digits of a position: its sector and the place in it.               *)
LEMMA Quotient ==
  ASSUME NEW q \in Nat, NEW s \in Nat \ {0}, NEW r \in 0..(s - 1)
  PROVE  (q * s + r) \div s = q /\ (q * s + r) % s = r
  OBVIOUS

(* A position in front of the end is in one of the sectors.                *)
LEMMA SectorCount ==
  ASSUME NEW m \in Nat, NEW s \in Nat \ {0}, NEW size \in Nat, m * s < size
  PROVE  m + 1 <= (size + s - 1) \div s
<1> DEFINE q == (size + s - 1) \div s
<1>1. q \in Nat /\ size + s - 1 < (q + 1) * s
  OBVIOUS
<1> HIDE DEF q
<1>2. (m + 1) * s < (q + 1) * s
  BY <1>1
<1>3. m + 1 < q + 1
  <2> SUFFICES ASSUME q + 1 <= m + 1 PROVE FALSE
    BY <1>1
  <2>1. (q + 1) * s <= (m + 1) * s
    BY <1>1
  <2> QED
    BY <1>1, <1>2, <2>1
<1> QED
  BY <1>1, <1>3 DEF q

(* The next number, of those that wrap at w.                               *)
LEMMA WrappedSuccessor ==
  ASSUME NEW w \in Nat \ {0}, NEW a \in Nat
  PROVE  ((a % w) + 1) % w = (a + 1) % w
<1> DEFINE q == a \div w
           r == a % w
<1>1. q \in Nat /\ r \in 0..(w - 1) /\ a = q * w + r
  OBVIOUS
<1> HIDE DEF q, r
<1>2. CASE r + 1 < w
  <2>1. r + 1 \in 0..(w - 1) /\ a + 1 = q * w + (r + 1)
    BY <1>1, <1>2
  <2> DEFINE t == r + 1
  <2>2. t \in 0..(w - 1) /\ a + 1 = q * w + t
    BY <2>1
  <2> HIDE DEF t
  <2>3. (q * w + t) % w = t /\ t % w = t
    BY <1>1, <2>2, Quotient
  <2> QED
    BY <2>2, <2>3 DEF t, r
<1>3. CASE r + 1 = w
  <2>1. a + 1 = (q + 1) * w + 0 /\ q + 1 \in Nat /\ 0 \in 0..(w - 1)
    BY <1>1, <1>3
  <2>2. ((q + 1) * w + 0) % w = 0
    BY <2>1, Quotient
  <2>3. w % w = 0
    OBVIOUS
  <2> QED
    BY <1>3, <2>1, <2>2, <2>3 DEF r
<1> QED
  BY <1>1, <1>2, <1>3

LEMMA WholeSectors ==
  ASSUME NEW m \in Nat, NEW s \in Nat \ {0}
  PROVE  (m * s + s - 1) \div s = m
<1>1. m * s + s - 1 = m * s + (s - 1) /\ s - 1 \in 0..(s - 1)
  OBVIOUS
<1> QED
  BY <1>1, Quotient

LEMMA MinIn ==
  ASSUME NEW S \in SUBSET Nat, S # {}
  PROVE  Min(S) \in S
  BY LeastNat DEF Min

LEMMA EntryFacts ==
  ASSUME NEW recs \in Seq(Entries)
  PROVE  /\ DOMAIN recs \subseteq Nat
         /\ \A k \in DOMAIN recs : recs[k] \in Entries /\ Node(recs[k]) \in Nodes
<1>1. DOMAIN recs = 1..Len(recs) /\ Len(recs) \in Nat
  OBVIOUS
<1>2. \A k \in DOMAIN recs : recs[k] \in Entries
  BY <1>1
<1>3. \A e \in Entries : Node(e) \in Nodes
  BY DEF Node, Nodes, Entries
<1>4. DOMAIN recs \subseteq Nat
  BY <1>1
<1> QED
  BY <1>2, <1>3, <1>4, Zenon

(* What is found in a buffer is records, or bytes that look like some, and *)
(* in a sector of a directory its records.                                 *)
LEMMA ReadingFacts ==
  ASSUME disk \in Disks, NEW buf, NEW recs \in Readings(buf)
  PROVE  /\ recs \in Seq(Entries)
         /\ DOMAIN recs \subseteq Nat
         /\ \A k \in DOMAIN recs : recs[k] \in Entries /\ Node(recs[k]) \in Nodes
         /\ buf \in DOMAIN disk.dirs => recs = disk.dirs[buf] /\ recs = Records(buf)
<1>1. CASE buf \in DOMAIN disk.dirs
  <2>1. recs = disk.dirs[buf] /\ recs = Records(buf)
    BY <1>1 DEF Readings, Records, RecordsOf
  <2>2. recs \in Seq(Entries)
    BY <1>1, <2>1, MediumAssumption DEF MediumAssumption, WellFormed
  <2> QED
    BY <2>1, <2>2, EntryFacts
<1>2. CASE buf \notin DOMAIN disk.dirs
  <2>1. recs \in Seq(Entries)
    BY <1>2, GarbageAssumption DEF GarbageAssumption, Readings
  <2> QED
    BY <1>2, <2>1, EntryFacts
<1> QED
  BY <1>1, <1>2

LEMMA Numbers ==
  /\ Word \in Nat /\ SectorSize \in Nat \ {0} /\ NodeSize \in Nat \ {0}
  /\ HeapSize \in Nat /\ NULL \notin Nat /\ NULL \notin Nodes /\ Word > 0
<1>1. /\ Word \in Nat /\ HeapSize \in Nat /\ NULL \notin Nat /\ Requests \subseteq Nat
      /\ \A r \in Requests : HeapSize + r + 3 < Word
  BY HeapAssumption DEF HeapAssumption
<1>2. Requests = {NodeSize} /\ NodeSize > 0 /\ SectorSize \in Nat \ {0} /\ NULL \notin Nodes
  BY FSAssumption DEF FSAssumption
<1>3. NodeSize \in Nat /\ HeapSize + NodeSize + 3 < Word
  BY <1>1, <1>2
<1> QED
  BY <1>1, <1>2, <1>3

LEMMA NodeFacts ==
  ASSUME NEW n \in Nodes
  PROVE  /\ n.size \in UnsignedInt /\ n.sector \in UnsignedInt /\ n.is_directory \in BOOLEAN
         /\ n.size \in Nat /\ n.sector \in Nat /\ n # NULL
  BY Numbers DEF Nodes, UnsignedInt

-----------------------------------------------------------------------------
(* What holds on every medium, whatever .bss held and however often a read *)
(* fails without anybody being told.                                       *)

Shape == /\ disk \in Disks /\ iso_fs \in Roots
         /\ stage \in Stages /\ op \in Ops
         /\ stage \in {"mount", "done", "derailed"} <=> op = "none"
         /\ op = "list" => stage = "list"
         /\ op = "read" => stage \in {"probe", "kernel"}
         /\ current \in Nodes \cup {NULL} /\ node \in Nodes \cup {NULL}
         /\ current_sector \in UnsignedInt /\ remaining_bytes \in UnsignedInt
         /\ op \in {"find", "list"} => current \in Nodes
         /\ op \in {"read", "list"} => node # NULL
         /\ g_kernelSize \in UnsignedInt \cup {NULL}
         /\ result \in {NULL, 0, 1} /\ (result # NULL => stage = "done")
         /\ faults \in BOOLEAN /\ astray \in BOOLEAN

\* The scan is as many sectors into the directory as it has left behind.
Scan == /\ op = "list" \/ (op = "find" /\ current.size % SectorSize = 0)
        /\ remaining_bytes > 0
        => \E m \in Nat : /\ current_sector = (current.sector + m) % Word
                         /\ remaining_bytes + m * SectorSize = current.size

\* The medium has a record of the node, by the kernel's name.
OnRecord(n) == \E s \in DOMAIN disk.dirs : \E r \in Range(disk.dirs[s]) :
                 FileName(r) = KernelName /\ n = Node(r)

Kernel == /\ op = "find" => /\ tokens \in Seq(STRING) /\ tokens # <<>>
                            /\ tokens[Len(tokens)] = Path[Len(Path)]
          /\ stage = "kernel" /\ op \in {"opened", "read"} /\ node # NULL /\ ~astray =>
               OnRecord(node)
          /\ stage = "kernel" /\ op = "read" => g_kernelSize = node.size
          /\ result = 1 => /\ g_kernelSize = node.size /\ Len(dest) = g_kernelSize
                           /\ ~astray => OnRecord(node)

IInv == Shape /\ Scan /\ Kernel

LEMMA InitIInv == Init => IInv
<1> SUFFICES ASSUME Init PROVE IInv
  OBVIOUS
<1>1. Shape
  <2>1. 0 \in UnsignedInt
    BY Numbers DEF UnsignedInt
  <2>2. faults \in BOOLEAN /\ astray \in BOOLEAN /\ iso_fs \in Roots
    BY FSAssumption DEF Init, FSAssumption
  <2> QED
    BY <2>1, <2>2 DEF Init, Shape, Stages, Ops
<1>2. result # 1
  BY Numbers DEF Init
<1>3. Scan /\ Kernel
  BY <1>2 DEF Init, Scan, Kernel
<1> QED
  BY <1>1, <1>3 DEF IInv

(* The flags of the silent errors.                                         *)
LEMMA Flags ==
  ASSUME IInv, NEW how, Fault(how)
  PROVE  faults' \in BOOLEAN
  BY DEF Fault, IInv, Shape

LEMMA MountKeeps ==
  ASSUME IInv, NEW how \in Outcomes, Mount(how)
  PROVE  IInv'
<1>1. /\ stage = "mount" /\ stage' = "probe" /\ op' = "open" /\ faults' \in BOOLEAN
      /\ op = "none" /\ result = NULL /\ result' = NULL
  BY Flags DEF Mount, IInv, Shape
<1>2. UNCHANGED <<disk, node, current, current_sector, remaining_bytes, g_kernelSize, result,
                  astray>>
  BY DEF Mount, scanVars
<1>3. iso_fs' \in Roots
  <2>1. disk.root \in Roots /\ StaleRoots \subseteq Roots /\ iso_fs \in Roots
    BY MediumAssumption, FSAssumption DEF IInv, Shape, MediumAssumption, WellFormed, FSAssumption
  <2> QED
    BY <2>1 DEF Mount, Mounted
<1>4. Shape'
  BY <1>1, <1>2, <1>3 DEF IInv, Shape, Stages, Ops
<1>5. Scan' /\ Kernel'
  BY <1>1, <1>2, Numbers DEF Scan, Kernel
<1> QED
  BY <1>4, <1>5 DEF IInv

(* iso9660_open has its answer: nothing, or the node of a child that was   *)
(* found, or the root of the empty path.                                   *)
LEMMA ReturnsKeeps ==
  ASSUME IInv, op \in {"open", "find"}, NEW n \in Nodes \cup {NULL}, Returns(n),
         UNCHANGED <<bootVars, stage, readVars>>,
         faults' \in BOOLEAN, astray' \in BOOLEAN,
         stage = "kernel" /\ n # NULL /\ ~astray' => OnRecord(n)
  PROVE  IInv'
<1>1. /\ op' = "opened" /\ node' = n
      /\ current' = NULL /\ current_sector' = 0 /\ remaining_bytes' = 0
      /\ UNCHANGED <<disk, iso_fs, stage, g_kernelSize, result, dest>>
  BY DEF Returns, Leave, bootVars, readVars
<1>2. /\ stage \notin {"mount", "done", "derailed"} /\ result = NULL
  BY DEF IInv, Shape
<1>3. 0 \in UnsignedInt
  BY Numbers DEF UnsignedInt
<1>4. Shape'
  BY <1>1, <1>2, <1>3 DEF IInv, Shape, Ops
<1>5. Scan'
  BY <1>1 DEF Scan
<1>6. Kernel'
  BY <1>1, <1>2, Numbers DEF Kernel, OnRecord
<1> QED
  BY <1>4, <1>5, <1>6 DEF IInv

(* The scan of a directory begins.                                         *)
LEMMA EnterKeeps ==
  ASSUME IInv, NEW dir \in Nodes, Enter(dir),
         op' \in {"find", "list"}, op' = "list" => stage = "list" /\ node # NULL,
         stage \notin {"mount", "done", "derailed"},
         UNCHANGED <<bootVars, stage, node, readVars>>,
         faults' \in BOOLEAN, astray' \in BOOLEAN,
         op' = "find" => /\ tokens' \in Seq(STRING) /\ tokens' # <<>>
                         /\ tokens'[Len(tokens')] = Path[Len(Path)]
  PROVE  IInv'
<1>1. /\ current' = dir /\ current_sector' = dir.sector /\ remaining_bytes' = dir.size
      /\ UNCHANGED <<disk, iso_fs, stage, node, g_kernelSize, result, dest>>
  BY DEF Enter, bootVars, readVars
<1>2. /\ dir.size \in UnsignedInt /\ dir.sector \in UnsignedInt /\ dir # NULL
      /\ dir.size \in Nat /\ dir.sector \in Nat
  BY NodeFacts
<1>3. result = NULL
  BY DEF IInv, Shape
<1>4. Shape'
  BY <1>1, <1>2, <1>3 DEF IInv, Shape, Ops
<1>5. Scan'
  <2>1. dir.sector % Word = dir.sector
    <3> DEFINE x == dir.sector
    <3>1. x \in 0..(Word - 1)
      BY <1>2 DEF UnsignedInt
    <3> HIDE DEF x
    <3>2. x % Word = x
      BY <3>1, Numbers
    <3> QED
      BY <3>2 DEF x
  <2>2. /\ current_sector' = (dir.sector + 0) % Word
        /\ remaining_bytes' + 0 * SectorSize = dir.size /\ 0 \in Nat
    BY <1>1, <1>2, <2>1, Numbers
  <2> QED
    BY <1>1, <2>2 DEF Scan
<1>6. Kernel'
  <2>1. Path' = Path
    BY <1>1 DEF Path
  <2> QED
    BY <1>1, <1>3, <2>1, Numbers DEF Kernel
<1> QED
  BY <1>4, <1>5, <1>6 DEF IInv

LEMMA PathFacts ==
  /\ ProbePath \in Seq(STRING) /\ ListPath \in Seq(STRING) /\ KernelPath \in Seq(STRING)
  /\ stage \in {"probe", "list", "kernel"} => Path \in Seq(STRING)
<1>1. ProbePath \in Seq(STRING) /\ ListPath \in Seq(STRING) /\ KernelPath \in Seq(STRING)
  BY PathAssumption DEF PathAssumption
<1> QED
  BY <1>1 DEF Path

LEMMA OpenKeeps == IInv /\ Open => IInv'
<1> SUFFICES ASSUME IInv, Open PROVE IInv'
  OBVIOUS
<1>1. /\ op = "open" /\ UNCHANGED <<bootVars, stage, readVars>>
      /\ faults' \in BOOLEAN /\ astray' \in BOOLEAN
      /\ stage \in {"probe", "list", "kernel"}
  BY DEF Open, IInv, Shape, Stages
<1>2. RootNode \in Nodes
  BY DEF IInv, Shape, Roots, RootNode, Nodes
<1>3. CASE Returns(NULL)
  BY <1>1, <1>3, ReturnsKeeps
<1>4. CASE Path = <<>> /\ Returns(RootNode)
  <2>1. stage # "kernel"
    BY <1>4, PathAssumption DEF Path, PathAssumption
  <2> QED
    BY <1>1, <1>2, <1>4, <2>1, ReturnsKeeps
<1>5. CASE Path # <<>> /\ Enter(RootNode) /\ tokens' = Path /\ op' = "find" /\ UNCHANGED node
  <2>1. Path \in Seq(STRING)
    BY <1>1, PathFacts
  <2> QED
    BY <1>1, <1>2, <1>5, <2>1, EnterKeeps
<1> QED
  BY <1>3, <1>4, <1>5 DEF Open

LEMMA FindExhaustedKeeps == IInv /\ FindExhausted => IInv'
<1> SUFFICES ASSUME IInv, FindExhausted PROVE IInv'
  OBVIOUS
<1>1. /\ op = "find" /\ Returns(NULL) /\ UNCHANGED <<bootVars, stage, readVars>>
      /\ faults' \in BOOLEAN /\ astray' \in BOOLEAN
  BY DEF FindExhausted, IInv, Shape
<1> QED
  BY <1>1, ReturnsKeeps

(* Where at least a sector of a directory is left, and that is always so   *)
(* in one of whole sectors, the subtraction does not wrap.                 *)
LEMMA Remains ==
  ASSUME IInv, op \in {"find", "list"}, remaining_bytes > 0,
         current.size % SectorSize = 0
  PROVE  remaining_bytes >= SectorSize
<1>1. /\ current.size \in Nat /\ remaining_bytes \in Nat
  BY NodeFacts DEF IInv, Shape, UnsignedInt
<1>2. PICK m \in Nat : remaining_bytes + m * SectorSize = current.size
  BY DEF IInv, Scan
<1>3. PICK q \in Nat : current.size = q * SectorSize
  BY <1>1, Numbers, Multiple
<1>4. m < q
  <2> SUFFICES ASSUME q <= m PROVE FALSE
    BY <1>2, <1>3
  <2>1. q * SectorSize <= m * SectorSize
    BY <1>2, <1>3, Numbers
  <2> QED
    BY <1>1, <1>2, <1>3, <2>1, Numbers
<1> QED
  <2>1. m * SectorSize + SectorSize <= q * SectorSize
    BY <1>4, Numbers
  <2>2. m * SectorSize \in Nat /\ q * SectorSize \in Nat
    BY Numbers
  <2> QED
    BY <1>1, <1>2, <1>3, <2>1, <2>2, Numbers

LEMMA Subtracted ==
  ASSUME remaining_bytes \in UnsignedInt, remaining_bytes >= SectorSize
  PROVE  /\ (remaining_bytes - SectorSize) % Word = remaining_bytes - SectorSize
         /\ remaining_bytes - SectorSize \in UnsignedInt
         /\ ListRemaining = remaining_bytes - SectorSize
<1>1. remaining_bytes \in 0..(Word - 1) /\ remaining_bytes - SectorSize \in 0..(Word - 1)
  BY Numbers DEF UnsignedInt
<1>2. (remaining_bytes - SectorSize) % Word = remaining_bytes - SectorSize
  BY <1>1, Numbers
<1>3. ListRemaining = remaining_bytes - SectorSize
  BY <1>1, Numbers DEF ListRemaining
<1> QED
  BY <1>1, <1>2, <1>3 DEF UnsignedInt

(* One more sector of the directory is left behind.                        *)
LEMMA AdvanceKeeps ==
  ASSUME IInv, op \in {"find", "list"}, remaining_bytes > 0,
         current_sector' = (current_sector + 1) % Word,
         remaining_bytes' \in UnsignedInt,
         /\ op = "list" \/ current.size % SectorSize = 0
         /\ remaining_bytes' > 0
         => remaining_bytes' = remaining_bytes - SectorSize,
         UNCHANGED <<disk, iso_fs, stage, op, tokens, current, node, g_kernelSize, result,
                     dest>>,
         faults' \in BOOLEAN, astray' \in BOOLEAN
  PROVE  IInv'
<1>1. current_sector' \in UnsignedInt
  BY Numbers DEF IInv, Shape, UnsignedInt
<1>2. stage \notin {"mount", "done", "derailed"} /\ result = NULL
  BY DEF IInv, Shape
<1>3. Shape'
  BY <1>1, <1>2 DEF IInv, Shape
<1>4. Scan'
  <2> SUFFICES ASSUME op = "list" \/ (op = "find" /\ current.size % SectorSize = 0),
                      remaining_bytes' > 0
               PROVE  \E m \in Nat : /\ current_sector' = (current.sector + m) % Word
                                     /\ remaining_bytes' + m * SectorSize = current.size
    BY DEF Scan
  <2>1. PICK m \in Nat : /\ current_sector = (current.sector + m) % Word
                         /\ remaining_bytes + m * SectorSize = current.size
    BY DEF IInv, Scan
  <2>2. remaining_bytes' = remaining_bytes - SectorSize
    OBVIOUS
  <2>3. current.sector \in Nat /\ current.size \in Nat /\ remaining_bytes \in Nat
    BY NodeFacts DEF IInv, Shape, UnsignedInt
  <2>4. remaining_bytes' + (m + 1) * SectorSize = current.size
    BY <2>1, <2>2, <2>3, Numbers
  <2>5. current_sector' = (current.sector + (m + 1)) % Word
    <3> DEFINE a == current.sector + m
    <3>1. a \in Nat /\ current.sector + (m + 1) = a + 1
      BY <2>3
    <3>2. current_sector' = ((a % Word) + 1) % Word
      BY <2>1
    <3> HIDE DEF a
    <3>3. ((a % Word) + 1) % Word = (a + 1) % Word
      BY <3>1, Numbers, WrappedSuccessor
    <3> QED
      BY <3>1, <3>2, <3>3
  <2>6. m + 1 \in Nat
    OBVIOUS
  <2> QED
    BY <2>4, <2>5, <2>6
<1>5. Kernel'
  <2>1. Path' = Path
    BY DEF Path
  <2> QED
    BY <1>2, <2>1, Numbers DEF IInv, Kernel
<1> QED
  BY <1>3, <1>4, <1>5 DEF IInv

LEMMA LastOne ==
  ASSUME NEW s \in Seq(STRING), s # <<>>, Tail(s) = <<>>
  PROVE  Len(s) = 1
<1>1. Len(Tail(s)) = Len(s) - 1 /\ Len(s) \in Nat
  OBVIOUS
<1>2. Len(<<>>) = 0
  OBVIOUS
<1>3. Len(Tail(s)) = 0
  BY <1>2, Zenon
<1>4. \A a, b : b \in Nat /\ a = b - 1 /\ a = 0 => b = 1
  OBVIOUS
<1> QED
  BY <1>1, <1>3, <1>4, Zenon

LEMMA TailFacts ==
  ASSUME NEW s \in Seq(STRING), s # <<>>, Tail(s) # <<>>
  PROVE  Tail(s) \in Seq(STRING) /\ Tail(s)[Len(Tail(s))] = s[Len(s)]
<1>1. /\ Tail(s) \in Seq(STRING) /\ Len(Tail(s)) = Len(s) - 1 /\ Len(s) \in Nat
      /\ Len(s) # 1
  <2>1. Tail(s) \in Seq(STRING) /\ Len(Tail(s)) = Len(s) - 1 /\ Len(s) \in Nat
    OBVIOUS
  <2>2. Len(Tail(s)) # 0
    BY <2>1
  <2> QED
    BY <2>1, <2>2
<1>2. Len(s) - 1 \in 1..(Len(s) - 1)
  <2>1. Len(s) # 0
    OBVIOUS
  <2> QED
    BY <1>1, <2>1
<1>3. Tail(s)[Len(s) - 1] = s[(Len(s) - 1) + 1]
  BY <1>1, <1>2
<1> QED
  BY <1>1, <1>3

(* What a match gives: a node, and if the bytes were a directory's, one of *)
(* its records, by the name that is looked for.                            *)
LEMMA ChildFacts ==
  ASSUME IInv, NEW buf, NEW recs \in Readings(buf), Matches(recs) # {}
  PROVE  LET child == Node(recs[Min(Matches(recs))]) IN
           /\ child \in Nodes
           /\ buf \in DOMAIN disk.dirs =>
                \E s \in DOMAIN disk.dirs : \E r \in Range(disk.dirs[s]) :
                  FileName(r) = Head(tokens) /\ child = Node(r)
<1> DEFINE k == Min(Matches(recs))
<1>1. disk \in Disks
  BY DEF IInv, Shape
<1>2. Matches(recs) \in SUBSET Nat /\ Matches(recs) \subseteq DOMAIN recs
  BY <1>1, ReadingFacts DEF Matches, Reached
<1>3. k \in Matches(recs)
  BY <1>2, MinIn
<1> HIDE DEF k
<1>4. k \in DOMAIN recs /\ FileName(recs[k]) = Head(tokens)
  BY <1>2, <1>3 DEF Matches
<1>5. Node(recs[k]) \in Nodes
  BY <1>1, <1>4, ReadingFacts
<1>6. ASSUME buf \in DOMAIN disk.dirs
      PROVE  recs[k] \in Range(disk.dirs[buf])
  <2>1. recs = disk.dirs[buf]
    BY <1>1, <1>6, ReadingFacts
  <2> QED
    BY <1>4, <2>1 DEF Range
<1> QED
  BY <1>4, <1>5, <1>6 DEF k

LEMMA FindInSectorKeeps ==
  ASSUME IInv, NEW how \in Outcomes, FindInSector(how)
  PROVE  IInv'
<1>1. /\ op = "find" /\ remaining_bytes > 0
      /\ faults' \in BOOLEAN /\ astray' \in BOOLEAN
      /\ UNCHANGED <<bootVars, stage, readVars>>
      /\ stage \in {"probe", "list", "kernel"} /\ disk \in Disks
      /\ tokens \in Seq(STRING) /\ tokens # <<>> /\ tokens[Len(tokens)] = Path[Len(Path)]
      /\ remaining_bytes \in UnsignedInt
  BY Flags DEF FindInSector, IInv, Shape, Kernel, Stages
<1>2. ASSUME ~astray' PROVE dirbuf' \in DOMAIN disk.dirs
  <2>1. dirbuf' # Junk
    BY <1>2 DEF FindInSector
  <2> QED
    BY <2>1 DEF FindInSector, DirSector
<1>3. PICK recs \in Readings(dirbuf') : FindIn(recs)
  BY DEF FindInSector
<1> DEFINE child == Node(recs[Min(Matches(recs))])
<1>4. ASSUME Matches(recs) # {}
      PROVE  /\ child \in Nodes
             /\ dirbuf' \in DOMAIN disk.dirs =>
                  \E s \in DOMAIN disk.dirs : \E r \in Range(disk.dirs[s]) :
                    FileName(r) = Head(tokens) /\ child = Node(r)
  BY <1>4, ChildFacts
<1> HIDE DEF child
<1>5. CASE FindAdvances /\ UNCHANGED <<op, tokens, current, node, heapVars>>
  <2>1. remaining_bytes' \in UnsignedInt
    BY <1>1, <1>5, Numbers DEF FindAdvances, UnsignedInt
  <2>2. ASSUME current.size % SectorSize = 0
        PROVE  remaining_bytes' = remaining_bytes - SectorSize
    BY <1>1, <1>5, <2>2, Remains, Subtracted DEF FindAdvances
  <2>3. UNCHANGED <<disk, iso_fs, g_kernelSize, result, dest>>
    BY <1>1 DEF bootVars, readVars
  <2>4. current_sector' = (current_sector + 1) % Word
    BY <1>5 DEF FindAdvances
  <2> QED
    BY <1>1, <1>5, <2>1, <2>2, <2>3, <2>4, AdvanceKeeps
<1>6. CASE Returns(NULL)
  BY <1>1, <1>6, ReturnsKeeps
<1>7. CASE Matches(recs) # {} /\ Tail(tokens) = <<>> /\ Returns(child)
  <2>1. ASSUME stage = "kernel", ~astray' PROVE OnRecord(child)
    <3>1. Head(tokens) = Path[Len(Path)]
      <4>1. Len(tokens) = 1 /\ Head(tokens) = tokens[1]
        BY <1>1, <1>7, LastOne
      <4> QED
        BY <1>1, <4>1
    <3>2. Path[Len(Path)] = KernelName
      BY <2>1 DEF Path, KernelName
    <3> QED
      BY <1>2, <1>4, <1>7, <2>1, <3>1, <3>2 DEF OnRecord
  <2> QED
    BY <1>1, <1>4, <1>7, <2>1, ReturnsKeeps
<1>8. CASE /\ Matches(recs) # {} /\ Tail(tokens) # <<>> /\ Enter(child)
           /\ tokens' = Tail(tokens) /\ UNCHANGED <<op, node>>
  <2>1. Tail(tokens) \in Seq(STRING) /\ Tail(tokens)[Len(Tail(tokens))] = Path[Len(Path)]
    BY <1>1, <1>8, TailFacts
  <2> QED
    BY <1>1, <1>4, <1>8, <2>1, EnterKeeps
<1> QED
  BY <1>3, <1>5, <1>6, <1>7, <1>8 DEF FindIn, child

(* The callers go on to their next step, or to the next of the three paths. *)
LEMMA GoesOn ==
  ASSUME IInv, UNCHANGED <<bootVars, node>>, faults' \in BOOLEAN, astray' = astray,
         \/ UNCHANGED scanVars
         \/ current' = NULL /\ current_sector' = 0 /\ remaining_bytes' = 0,
         \/ /\ stage \in {"probe", "list"} /\ stage' \in {"list", "kernel"}
            /\ op' = "open"
         \/ /\ stage' = stage /\ stage = "probe" /\ op' = "read"
            /\ op = "opened" /\ node # NULL
         \/ /\ op = "read" /\ UNCHANGED <<stage, op>>
  PROVE  IInv'
<1>1. /\ UNCHANGED <<disk, iso_fs, node, g_kernelSize, result>>
      /\ result = NULL /\ stage # "mount" /\ op' \notin {"find", "list"}
  BY DEF IInv, Shape, bootVars
<1>2. 0 \in UnsignedInt
  BY Numbers DEF UnsignedInt
<1>3. /\ current' \in Nodes \cup {NULL}
      /\ current_sector' \in UnsignedInt /\ remaining_bytes' \in UnsignedInt
  BY <1>2 DEF IInv, Shape, scanVars
<1>4. Shape'
  BY <1>1, <1>3 DEF IInv, Shape, Stages, Ops
<1>5. Scan' /\ Kernel'
  BY <1>1, Numbers DEF IInv, Scan, Kernel, OnRecord
<1> QED
  BY <1>4, <1>5 DEF IInv

LEMMA CallersKeep ==
  IInv /\ (ProbeOpened \/ ProbeRead \/ ListDone \/ (\E how \in Outcomes : ReadOneSector(how)))
    => IInv'
<1> SUFFICES ASSUME IInv,
                    ProbeOpened \/ ProbeRead \/ ListDone
                      \/ (\E how \in Outcomes : ReadOneSector(how))
             PROVE  IInv'
  OBVIOUS
<1>1. (op = "list" => stage = "list") /\ faults \in BOOLEAN
  BY DEF IInv, Shape
<1>2. CASE ProbeOpened
  BY <1>1, <1>2, GoesOn DEF ProbeOpened, NextStage, StartRead
<1>3. CASE ProbeRead
  BY <1>1, <1>3, GoesOn DEF ProbeRead, NextStage
<1>4. CASE ListDone
  BY <1>1, <1>4, GoesOn DEF ListDone, NextStage, Leave
<1>5. ASSUME NEW how \in Outcomes, ReadOneSector(how) PROVE IInv'
  <2>1. faults' \in BOOLEAN
    BY <1>5, Flags DEF ReadOneSector
  <2> QED
    BY <1>5, <2>1, GoesOn DEF ReadOneSector
<1> QED
  BY <1>2, <1>3, <1>4, <1>5

LEMMA ListOpenedKeeps == IInv /\ ListOpened => IInv'
<1> SUFFICES ASSUME IInv, ListOpened PROVE IInv'
  OBVIOUS
<1>1. /\ stage = "list" /\ faults' \in BOOLEAN /\ astray' = astray /\ astray' \in BOOLEAN
      /\ (node # NULL => node \in Nodes)
      /\ UNCHANGED <<bootVars, node, readVars>>
  BY DEF ListOpened, IInv, Shape
<1>2. CASE node # NULL /\ node.is_directory /\ op' = "list" /\ Enter(node) /\ UNCHANGED stage
  BY <1>1, <1>2, EnterKeeps
<1>3. CASE NextStage("kernel") /\ UNCHANGED scanVars
  BY <1>1, <1>3, GoesOn DEF NextStage
<1> QED
  BY <1>2, <1>3 DEF ListOpened

LEMMA ListSectorKeeps ==
  ASSUME IInv, NEW how \in Outcomes, ListSector(how)
  PROVE  IInv'
<1>1. /\ op = "list" /\ remaining_bytes > 0 /\ faults' \in BOOLEAN /\ astray' \in BOOLEAN
      /\ current_sector' = (current_sector + 1) % Word
      /\ remaining_bytes' = ListRemaining /\ remaining_bytes \in UnsignedInt
      /\ UNCHANGED <<disk, iso_fs, stage, op, tokens, current, node, g_kernelSize, result, dest>>
  BY Flags DEF ListSector, readVars, IInv, Shape
<1>2. /\ remaining_bytes' \in UnsignedInt
      /\ remaining_bytes' > 0 => remaining_bytes' = remaining_bytes - SectorSize
  BY <1>1, Numbers DEF ListRemaining, UnsignedInt
<1> QED
  BY <1>1, <1>2, AdvanceKeeps

(* load_kernel: the size stored is that of the node, and 1 is returned     *)
(* only for as many bytes.                                                 *)
LEMMA KernelOpenedKeeps == IInv /\ KernelOpened => IInv'
<1> SUFFICES ASSUME IInv, KernelOpened PROVE IInv'
  OBVIOUS
<1>1. /\ UNCHANGED <<disk, iso_fs, node, current, current_sector, remaining_bytes, faults,
                     astray>>
      /\ stage = "kernel" /\ op = "opened" /\ result = NULL
  BY DEF KernelOpened, scanVars, IInv, Shape
<1>2. CASE node = NULL /\ stage' = "done" /\ op' = "none" /\ result' = 0
           /\ UNCHANGED g_kernelSize
  <2>1. Shape' /\ Scan'
    BY <1>1, <1>2 DEF IInv, Shape, Scan, Stages, Ops
  <2>2. Kernel'
    BY <1>2 DEF Kernel
  <2> QED
    BY <2>1, <2>2 DEF IInv
<1>3. CASE node # NULL /\ g_kernelSize' = node.size /\ op' = "read"
           /\ UNCHANGED <<stage, result>>
  <2>1. node.size \in UnsignedInt
    BY <1>3, NodeFacts DEF IInv, Shape
  <2>2. Shape' /\ Scan'
    BY <1>1, <1>3, <2>1 DEF IInv, Shape, Scan, Ops
  <2>3. Kernel'
    BY <1>1, <1>3, Numbers DEF IInv, Kernel, OnRecord
  <2> QED
    BY <2>2, <2>3 DEF IInv
<1> QED
  BY <1>2, <1>3 DEF KernelOpened, StartRead

LEMMA KernelReadKeeps == IInv /\ KernelRead => IInv'
<1> SUFFICES ASSUME IInv, KernelRead PROVE IInv'
  OBVIOUS
<1>1. /\ UNCHANGED <<disk, iso_fs, node, current, current_sector, remaining_bytes, faults,
                     g_kernelSize, dest, astray>>
      /\ stage = "kernel" /\ op = "read" /\ stage' = "done" /\ op' = "none"
      /\ result' = IF bytes_read = node.size THEN 1 ELSE 0
  BY DEF KernelRead, ReadDone, scanVars, readVars
<1>2. Shape' /\ Scan'
  BY <1>1 DEF IInv, Shape, Scan, Stages, Ops
<1>3. Kernel'
  BY <1>1 DEF IInv, Shape, Kernel, bytes_read, OnRecord
<1> QED
  BY <1>2, <1>3 DEF IInv

LEMMA DerailKeeps == IInv /\ Derail => IInv'
<1> SUFFICES ASSUME IInv, Derail PROVE IInv'
  OBVIOUS
<1>1. /\ UNCHANGED <<disk, iso_fs, node, current, current_sector, remaining_bytes, faults,
                     g_kernelSize, result, astray>>
      /\ stage' = "derailed" /\ op' = "none" /\ op # "none"
  BY DEF Derail, Overwrites, bootVars, scanVars
<1>2. result = NULL
  BY <1>1 DEF IInv, Shape
<1>3. Shape' /\ Scan'
  BY <1>1, <1>2 DEF IInv, Shape, Scan, Stages, Ops
<1>4. Kernel'
  BY <1>1, <1>2, Numbers DEF Kernel
<1> QED
  BY <1>3, <1>4 DEF IInv

LEMMA Invariance == Spec => []IInv
<1>1. ASSUME IInv, UNCHANGED vars PROVE IInv'
  <2>1. /\ UNCHANGED <<disk, stage, op, iso_fs, tokens, current, current_sector,
                       remaining_bytes, node, dest, g_kernelSize, result, faults, astray>>
    BY <1>1 DEF vars
  <2>2. Path' = Path
    BY <2>1 DEF Path
  <2>3. Shape'
    BY <1>1, <2>1 DEF IInv, Shape
  <2>4. Scan'
    BY <1>1, <2>1 DEF IInv, Scan
  <2>5. Kernel'
    BY <1>1, <2>1, <2>2 DEF IInv, Kernel, OnRecord
  <2> QED
    BY <2>3, <2>4, <2>5 DEF IInv
<1>2. IInv /\ [Next]_vars => IInv'
  BY <1>1, MountKeeps, OpenKeeps, FindInSectorKeeps, FindExhaustedKeeps, CallersKeep,
     ListOpenedKeeps, ListSectorKeeps, KernelOpenedKeeps, KernelReadKeeps, DerailKeeps DEF Next
<1> QED
  BY InitIInv, <1>2, PTL DEF Spec

(* Every variable of the file system keeps its type: whatever .bss held,   *)
(* on every medium and with any read that fails, the counters stay in      *)
(* their width and all that is ever opened is a node.                      *)
THEOREM TypeCorrect == Spec => []TypeOK
<1>1. ASSUME IInv, HeapTypeOK PROVE TypeOK
  BY <1>1 DEF IInv, Shape, TypeOK
<1> QED
  BY <1>1, Invariance, ImplementsHeap, HeapTypeCorrect, PTL

(* The listing of a directory never leaves the sectors of its record, nor  *)
(* does the search of one that is whole sectors, whatever that record was  *)
(* and however the reads went (ISO9660FS.c:155-217 and 463-508).           *)
THEOREM ScansStayInside == Spec => []ScanStaysInDirectory
<1>1. ASSUME IInv PROVE ScanStaysInDirectory
  <2> SUFFICES ASSUME op \in {"find", "list"}, remaining_bytes > 0,
                      op = "list" \/ current.size % SectorSize = 0
               PROVE  \E s \in Sectors(current) : current_sector = s % Word
    BY DEF ScanStaysInDirectory
  <2>1. PICK m \in Nat : /\ current_sector = (current.sector + m) % Word
                         /\ remaining_bytes + m * SectorSize = current.size
    <3>1. op = "list" \/ (op = "find" /\ current.size % SectorSize = 0)
      OBVIOUS
    <3> QED
      BY <1>1, <3>1 DEF IInv, Scan
  <2>2. current.sector \in Nat /\ current.size \in Nat /\ remaining_bytes \in Nat
    BY <1>1, NodeFacts DEF IInv, Shape, UnsignedInt
  <2>3. m * SectorSize < current.size
    BY <2>1, <2>2, Numbers
  <2>4. m + 1 <= (current.size + SectorSize - 1) \div SectorSize
    BY <2>2, <2>3, Numbers, SectorCount
  <2>5. current.sector + m \in Sectors(current)
    BY <2>2, <2>4, Numbers DEF Sectors
  <2> QED
    BY <2>1, <2>5
<1> QED
  BY <1>1, Invariance, PTL

(* Whatever went wrong on the way, a kernel is accepted with the size of   *)
(* its node, and unless a search took other bytes for records the medium   *)
(* records that node under the kernel's name (vfs.c:50-75).                *)
THEOREM KernelIsRecorded == Spec => []AcceptedKernelIsRecorded
<1>1. IInv => AcceptedKernelIsRecorded
  BY DEF IInv, Kernel, OnRecord, AcceptedKernelIsRecorded
<1> QED
  BY <1>1, Invariance, PTL

-----------------------------------------------------------------------------
(* The nodes a path names, level by level.                                 *)

Below(d, path, f, n) ==
  [k \in 0..n |-> IF k = 0 THEN VolumeRoot(d) ELSE Called(d, DirsIn(f[k - 1]), path[k])]

Levels(d, path) == CHOOSE f : f = Below(d, path, f, Len(path))

LEMMA NamedIsLast ==
  ASSUME NEW d, NEW path
  PROVE  NamedOn(d, path) = Levels(d, path)[Len(path)]
  BY DEF NamedOn, Levels, Below

(* The recursion defines a function: it does so for paths of every length, *)
(* there being no shortest one for which it does not.                      *)
LEMMA LevelsExist ==
  ASSUME NEW d, NEW path, Len(path) \in Nat
  PROVE  \E f : f = Below(d, path, f, Len(path))
<1> USE DEF Below
<1> DEFINE Good(n) == \E f : f = Below(d, path, f, n)
           Bad == {n \in Nat : ~Good(n)}
<1>1. Good(0)
  <2>1. [k \in 0..0 |-> VolumeRoot(d)]
          = [k \in 0..0 |-> IF k = 0 THEN VolumeRoot(d)
               ELSE Called(d, DirsIn([j \in 0..0 |-> VolumeRoot(d)][k - 1]), path[k])]
    OBVIOUS
  <2> QED
    BY <2>1
<1>2. ASSUME NEW n \in Nat, n > 0, Good(n - 1) PROVE Good(n)
  <2>1. PICK f : f = [k \in 0..(n - 1) |-> IF k = 0 THEN VolumeRoot(d)
                        ELSE Called(d, DirsIn(f[k - 1]), path[k])]
    BY <1>2
  <2> DEFINE last == Called(d, DirsIn(f[n - 1]), path[n])
             g == [k \in 0..n |-> IF k = n THEN last ELSE f[k]]
  <2> HIDE DEF last
  <2>2. \A k \in 0..(n - 1) : g[k] = f[k]
    BY <1>2
  <2>3. ASSUME NEW k \in 0..n
        PROVE  g[k] = IF k = 0 THEN VolumeRoot(d) ELSE Called(d, DirsIn(g[k - 1]), path[k])
    <3>1. CASE k = 0
      BY <1>2, <2>1, <3>1
    <3>2. CASE k = n
      <4>1. g[k - 1] = f[n - 1] /\ k # 0
        BY <1>2, <2>2, <3>2
      <4> HIDE DEF g
      <4>2. g[k] = last
        BY <3>2 DEF g
      <4> QED
        BY <3>2, <4>1, <4>2 DEF last
    <3>3. CASE k \in 1..(n - 1)
      <4>1. k - 1 \in 0..(n - 1) /\ k \in 0..(n - 1) /\ k # 0
        BY <1>2, <3>3
      <4>2. g[k - 1] = f[k - 1] /\ g[k] = f[k]
        BY <2>2, <4>1
      <4> HIDE DEF g
      <4>3. f[k] = Called(d, DirsIn(f[k - 1]), path[k])
        BY <2>1, <4>1
      <4> QED
        BY <4>1, <4>2, <4>3
    <3> QED
      BY <1>2, <3>1, <3>2, <3>3
  <2>4. g = [k \in 0..n |-> g[k]]
    OBVIOUS
  <2> HIDE DEF g
  <2>5. g = [k \in 0..n |-> IF k = 0 THEN VolumeRoot(d) ELSE Called(d, DirsIn(g[k - 1]), path[k])]
    BY <2>3, <2>4
  <2> QED
    BY <2>5
<1> HIDE DEF Good
<1>3. Bad = {}
  <2> SUFFICES ASSUME Bad # {} PROVE FALSE
    OBVIOUS
  <2>1. PICK n \in Bad : \A m \in Bad : n <= m
    BY LeastNat
  <2>2. n \in Nat /\ n # 0
    BY <1>1
  <2>3. n - 1 \in Nat /\ n - 1 \notin Bad
    BY <2>1, <2>2
  <2> QED
    BY <1>2, <2>1, <2>2, <2>3
<1> QED
  BY <1>3 DEF Good

LEMMA LevelFacts ==
  ASSUME NEW d, NEW path, Len(path) \in Nat
  PROVE  /\ Levels(d, path)[0] = VolumeRoot(d)
         /\ \A k \in 1..Len(path) :
              Levels(d, path)[k] = Called(d, DirsIn(Levels(d, path)[k - 1]), path[k])
<1> DEFINE L == Levels(d, path)
<1>1. L = Below(d, path, L, Len(path))
  BY LevelsExist DEF Levels
<1> HIDE DEF L
<1>2. L[0] = VolumeRoot(d)
  BY <1>1 DEF Below
<1>3. ASSUME NEW k \in 1..Len(path) PROVE L[k] = Called(d, DirsIn(L[k - 1]), path[k])
  <2>1. k \in 0..Len(path) /\ k # 0
    OBVIOUS
  <2> QED
    BY <1>1, <2>1 DEF Below
<1> QED
  BY <1>2, <1>3 DEF L

(* Where a component is not found, the path names nothing.                 *)
LEMMA EmptyStays ==
  ASSUME NEW d, NEW path, Len(path) \in Nat, NEW i \in 0..Len(path),
         Levels(d, path)[i] = {}
  PROVE  NamedOn(d, path) = {}
<1> DEFINE L == Levels(d, path)
<1>1. \A k \in 1..Len(path) : L[k] = Called(d, DirsIn(L[k - 1]), path[k])
  BY LevelFacts, Zenon
<1>2. L[i] = {}
  OBVIOUS
<1>3. NamedOn(d, path) = L[Len(path)]
  BY NamedIsLast, Zenon
<1> HIDE DEF L
<1> DEFINE Bad == {k \in i..Len(path) : L[k] # {}}
<1>4. Bad = {}
  <2> SUFFICES ASSUME Bad # {} PROVE FALSE
    OBVIOUS
  <2>1. Bad \in SUBSET Nat
    OBVIOUS
  <2>2. PICK n \in Bad : \A m \in Bad : n <= m
    BY <2>1, LeastNat
  <2>3. n - 1 \in i..Len(path) /\ n \in 1..Len(path) /\ ~(n <= n - 1)
    <3>1. n \in i..Len(path) /\ n # i
      BY <1>2, <2>2
    <3> QED
      BY <3>1
  <2>4. L[n - 1] = {}
    <3>1. n - 1 \notin Bad
      BY <2>2, <2>3
    <3> QED
      BY <2>3, <3>1
  <2> HIDE DEF Bad
  <2>5. L[n] = Called(d, DirsIn(L[n - 1]), path[n])
    BY <1>1, <2>3
  <2>6. L[n] = {}
    BY <2>4, <2>5 DEF Called, DirsIn
  <2> QED
    BY <2>2, <2>6 DEF Bad
<1>5. Len(path) \notin Bad
  BY <1>4
<1> QED
  BY <1>3, <1>5

-----------------------------------------------------------------------------
(* What holds on a sound volume.                                           *)

OnMedium(n) == n \in Recorded(disk) \cup {RootOf(disk)}

Volume == stage # "mount" => iso_fs = disk.root

\* The scan has left whole sectors behind, and sector numbers do not wrap.
Directory ==
  op \in {"find", "list"} =>
    /\ OnMedium(current) /\ current.is_directory
    /\ \E m \in Nat : /\ current_sector = current.sector + m
                      /\ remaining_bytes + m * SectorSize = current.size

Opened == node # NULL => OnMedium(node)

\* How many components of the path have been found.
Depth == Len(Path) - Len(tokens)

\* The directories on the way so far are those the path names, and the
\* sectors left behind do not hold the next name.
Searching ==
  op = "find" =>
    /\ tokens \in Seq(STRING) /\ tokens # <<>> /\ Len(tokens) <= Len(Path)
    /\ \A i \in 1..Len(tokens) : tokens[i] = Path[Depth + i]
    /\ Levels(disk, Path)[Depth] = {current}
    /\ \A s \in current.sector..(current_sector - 1) :
         \A r \in Range(Records(s)) : FileName(r) # Head(tokens)

Found == IF node = NULL THEN HeapFull \/ Named(Path) = {}
                        ELSE Named(Path) = {node}

Answered == op \in {"opened", "read", "list"} => Found

Copied ==
  op = "read" =>
    /\ dest = Contents(node, Len(dest)) /\ Len(dest) \in 0..Wanted
    /\ Len(dest) % SectorSize = 0 \/ Len(dest) = Wanted

NamesOf(recs) == {FileName(r) : r \in recs}

Complete == \/ HeapFull \/ Named(ListPath) = {}
            \/ listed = NamesOf(UNION {ChildrenOf(disk, n) : n \in DirsIn(Named(ListPath))})

Shown ==
  /\ stage \in {"mount", "probe", "list"} /\ op # "list" => listed = {}
  /\ op = "list" =>
       /\ current = node
       /\ listed = NamesOf(UNION {Range(Records(s)) : s \in current.sector..(current_sector - 1)})
  /\ stage = "kernel" => Complete

Ended ==
  stage = "done" => KernelLoaded /\ (result = 0 => Named(KernelPath) = {} \/ HeapFull)

Right == /\ Volume /\ Directory /\ Opened /\ Searching /\ Answered
         /\ Copied /\ Shown /\ Ended

OnSoundVolume == Sound => Right

(* What is on an orderly medium.                                           *)
LEMMA OnMediumFacts ==
  ASSUME disk \in Disks, NEW n, OnMedium(n)
  PROVE  n \in Nodes
<1>1. /\ disk.root \in Roots
      /\ \A s \in DOMAIN disk.dirs : disk.dirs[s] \in Seq(Entries)
  BY MediumAssumption DEF MediumAssumption, WellFormed
<1>2. CASE n = RootOf(disk)
  BY <1>1, <1>2 DEF RootOf, Roots, Nodes
<1>3. CASE n \in Recorded(disk)
  <2>1. PICK s \in DOMAIN disk.dirs : \E r \in Range(disk.dirs[s]) : n = Node(r)
    BY <1>3 DEF Recorded
  <2>2. PICK k \in DOMAIN disk.dirs[s] : n = Node(disk.dirs[s][k])
    BY <2>1 DEF Range
  <2>3. disk.dirs[s] \in Seq(Entries)
    BY <1>1
  <2>4. \A j \in DOMAIN disk.dirs[s] : Node(disk.dirs[s][j]) \in Nodes
    BY <2>3, EntryFacts
  <2> QED
    BY <2>2, <2>4
<1> QED
  BY <1>2, <1>3 DEF OnMedium

LEMMA DirectoryFacts ==
  ASSUME disk \in Disks, Orderly(disk), NEW n, OnMedium(n), n.is_directory
  PROVE  /\ n \in Nodes /\ n.size % SectorSize = 0
         /\ Sectors(n) \subseteq DOMAIN disk.dirs
         /\ n.sector + (n.size \div SectorSize) < Word
         /\ \A q, r \in ChildrenOf(disk, n) : FileName(q) = FileName(r) => q = r
<1>1. n \in {RootOf(disk)} \cup Recorded(disk)
  BY DEF OnMedium
<1>2. n \in Nodes
  BY OnMediumFacts
<1> QED
  BY <1>1, <1>2 DEF Orderly

(* A directory of the volume and the sectors of its scan.                  *)
LEMMA ScanFacts ==
  ASSUME IInv, Sound, Directory, op \in {"find", "list"}
  PROVE  /\ OnMedium(current) /\ current.is_directory /\ current \in Nodes
         /\ current.sector \in Nat /\ current_sector \in Nat /\ disk \in Disks
         /\ remaining_bytes \in Nat
         /\ current.sector <= current_sector
         /\ remaining_bytes > 0 =>
              /\ current_sector \in Sectors(current)
              /\ current_sector \in DOMAIN disk.dirs
              /\ remaining_bytes >= SectorSize
              /\ (current_sector + 1) % Word = current_sector + 1
         /\ remaining_bytes = 0 => Sectors(current) = current.sector..(current_sector - 1)
<1>1. PICK m \in Nat : /\ current_sector = current.sector + m
                       /\ remaining_bytes + m * SectorSize = current.size
  BY DEF Directory
<1>2. /\ disk \in Disks /\ Orderly(disk) /\ OnMedium(current) /\ current.is_directory
      /\ remaining_bytes \in Nat /\ current_sector \in Nat
  BY Numbers DEF IInv, Shape, UnsignedInt, Directory, Sound
<1>3. /\ current \in Nodes /\ current.size % SectorSize = 0
      /\ Sectors(current) \subseteq DOMAIN disk.dirs
      /\ current.sector + (current.size \div SectorSize) < Word
  BY <1>2, DirectoryFacts
<1>4. current.sector \in Nat /\ current.size \in Nat
  BY <1>3, NodeFacts
<1>5. ASSUME remaining_bytes > 0
      PROVE  /\ current_sector \in Sectors(current)
             /\ remaining_bytes >= SectorSize
             /\ (current_sector + 1) % Word = current_sector + 1
  <2>1. remaining_bytes >= SectorSize
    BY <1>3, <1>5, Remains
  <2>2. m * SectorSize < current.size
    BY <1>1, <1>2, <1>4, <1>5, Numbers
  <2>3. m + 1 <= (current.size + SectorSize - 1) \div SectorSize
    BY <1>4, <2>2, Numbers, SectorCount
  <2>4. current_sector \in Sectors(current)
    BY <1>1, <1>4, <2>3, Numbers DEF Sectors
  <2>5. PICK q \in Nat : current.size = q * SectorSize
    BY <1>3, <1>4, Numbers, Multiple
  <2>6. (current.size + SectorSize - 1) \div SectorSize = q
    <3>1. (q * SectorSize + SectorSize - 1) \div SectorSize = q
      BY Numbers, WholeSectors
    <3> QED
      BY <2>5, <3>1
  <2>7. current.size \div SectorSize = q
    <3>1. 0 \in 0..(SectorSize - 1)
      BY Numbers
    <3>2. (q * SectorSize + 0) \div SectorSize = q
      BY <3>1, Numbers, Quotient
    <3>3. q * SectorSize + 0 = q * SectorSize
      BY Numbers
    <3> QED
      BY <2>5, <3>2, <3>3
  <2>8. current_sector + 1 \in 0..(Word - 1)
    BY <1>1, <1>3, <1>4, <2>3, <2>6, <2>7, Numbers
  <2>9. (current_sector + 1) % Word = current_sector + 1
    <3> DEFINE x == current_sector + 1
    <3>1. x \in 0..(Word - 1)
      BY <2>8
    <3> HIDE DEF x
    <3>2. x % Word = x
      BY <3>1, Numbers
    <3> QED
      BY <3>2 DEF x
  <2> QED
    BY <2>1, <2>4, <2>9
<1>6. ASSUME remaining_bytes = 0 PROVE Sectors(current) = current.sector..(current_sector - 1)
  <2>1. current.size = m * SectorSize
    BY <1>1, <1>4, <1>6, Numbers
  <2>2. (m * SectorSize + SectorSize - 1) \div SectorSize = m
    BY Numbers, WholeSectors
  <2> QED
    BY <1>1, <1>4, <2>1, <2>2 DEF Sectors
<1>7. remaining_bytes > 0 => current_sector \in DOMAIN disk.dirs
  BY <1>3, <1>5
<1> QED
  BY <1>1, <1>2, <1>3, <1>4, <1>5, <1>6, <1>7

(* A sector of a directory was read: what is found in the buffer is its    *)
(* records, and everything the sector has a record of is looked at.        *)
LEMMA AllReached ==
  ASSUME IInv, Sound, Directory, op \in {"find", "list"}, remaining_bytes > 0,
         NEW recs \in Readings(DirSector(ReadSector(current_sector, dirbuf, "whole")))
  PROVE  /\ recs = Records(current_sector)
         /\ Reached(recs) = DOMAIN recs
         /\ Printed(recs) = NamesOf(Range(recs))
         /\ DOMAIN recs \subseteq Nat
<1>1. /\ current_sector \in DOMAIN disk.dirs /\ remaining_bytes >= SectorSize
      /\ disk \in Disks /\ remaining_bytes \in Nat
  BY ScanFacts
<1>2. DirSector(ReadSector(current_sector, dirbuf, "whole")) = current_sector
  BY <1>1 DEF ReadSector, DirSector
<1>3. /\ recs = Records(current_sector) /\ recs = disk.dirs[current_sector]
      /\ DOMAIN recs \subseteq Nat
  BY <1>1, <1>2, ReadingFacts
<1>4. \A k \in DOMAIN recs : Offset(recs, k) \in 0..(SectorSize - 1)
  BY <1>1, <1>3 DEF Sound, Orderly
<1>5. \A k \in DOMAIN recs : Offset(recs, k) < SectorSize /\ Offset(recs, k) < remaining_bytes
  BY <1>1, <1>4, Numbers
<1>6. Reached(recs) = DOMAIN recs
  BY <1>5 DEF Reached
<1>7. Listed(recs) = DOMAIN recs
  BY <1>5 DEF Listed
<1>8. Printed(recs) = NamesOf(Range(recs))
  BY <1>7 DEF Printed, NamesOf, Range
<1> QED
  BY <1>3, <1>6, <1>8

LEMMA FullStaysFull ==
  ASSUME [HeapNext]_heapVars, HeapFull
  PROVE  HeapFull'
<1>1. \A r \in Requests : r = NodeSize
  BY FSAssumption DEF FSAssumption
<1>2. ASSUME NEW r \in Requests, stage2_malloc(r) PROVE heap_offset' = heap_offset
  BY <1>1, <1>2 DEF stage2_malloc, Allocate, OutOfMemory, HeapFull
<1>3. heap_offset' = heap_offset
  BY <1>2 DEF HeapNext, heapVars
<1> QED
  BY <1>3 DEF HeapFull, Fits

LEMMA NoNodeNoRoom == OutOfMemory(NodeSize) => HeapFull'
  BY DEF OutOfMemory, HeapFull, Fits

(* The directory being searched is the one the path has led to, so what it *)
(* holds under the next name is what the path names one level down.        *)
LEMMA NextLevel ==
  ASSUME IInv, Sound, Right, op = "find"
  PROVE  /\ Depth + 1 \in 1..Len(Path) /\ Len(Path) \in Nat
         /\ Levels(disk, Path)[Depth + 1] =
              {Node(r) : r \in {q \in ChildrenOf(disk, current) : FileName(q) = Head(tokens)}}
<1>1. /\ tokens \in Seq(STRING) /\ tokens # <<>> /\ Len(tokens) <= Len(Path)
      /\ \A i \in 1..Len(tokens) : tokens[i] = Path[Depth + i]
      /\ Levels(disk, Path)[Depth] = {current}
  BY DEF Right, Searching
<1>2. Path \in Seq(STRING)
  BY PathFacts DEF IInv, Shape, Stages
<1>3. Len(Path) \in Nat /\ Len(tokens) \in Nat /\ Len(tokens) > 0 /\ Head(tokens) = tokens[1]
  BY <1>1, <1>2
<1>4. Depth + 1 \in 1..Len(Path) /\ (Depth + 1) - 1 = Depth
  BY <1>1, <1>3 DEF Depth
<1>5. Path[Depth + 1] = Head(tokens)
  BY <1>1, <1>3
<1>6. Levels(disk, Path)[Depth + 1] = Called(disk, DirsIn({current}), Head(tokens))
  <2>1. \A k \in 1..Len(Path) :
          Levels(disk, Path)[k] = Called(disk, DirsIn(Levels(disk, Path)[k - 1]), Path[k])
    BY <1>3, LevelFacts
  <2>2. Levels(disk, Path)[Depth + 1] =
          Called(disk, DirsIn(Levels(disk, Path)[(Depth + 1) - 1]), Path[Depth + 1])
    BY <1>4, <2>1, Zenon
  <2> QED
    BY <1>1, <1>4, <1>5, <2>2, Zenon
<1>7. DirsIn({current}) = {current}
  BY ScanFacts DEF DirsIn, Right
<1>8. UNION {ChildrenOf(disk, n) : n \in {current}} = ChildrenOf(disk, current)
  OBVIOUS
<1> QED
  BY <1>3, <1>4, <1>6, <1>7, <1>8 DEF Called

LEMMA SameNames ==
  ASSUME UNCHANGED <<disk, stage>>
  PROVE  /\ Path' = Path /\ Named(Path)' = Named(Path)
  BY DEF Named, Path

LEMMA SameMedium ==
  ASSUME UNCHANGED disk
  PROVE  /\ \A n : OnMedium(n)' <=> OnMedium(n)
         /\ \A lba : Records(lba)' = Records(lba)
         /\ Named(ListPath)' = Named(ListPath) /\ Named(KernelPath)' = Named(KernelPath)
  BY DEF OnMedium, Records, Named

LEMMA InitRight == Init => Right
  BY DEF Init, Right, Volume, Directory, Opened, Searching, Answered, Copied, Shown, Ended

LEMMA MountRight ==
  ASSUME IInv, Sound, Right, Mount("whole")
  PROVE  Right'
<1>1. /\ iso_fs' = disk.root
      /\ stage' = "probe" /\ op' = "open" /\ stage = "mount" /\ op # "list"
      /\ disk' = disk /\ listed' = listed /\ node' = node
  BY DEF Mount, Mounted, Sound, IInv, Shape
<1>2. listed' = {}
  BY <1>1 DEF Right, Shown
<1>3. Opened'
  BY <1>1, SameMedium DEF Right, Opened
<1> QED
  BY <1>1, <1>2, <1>3 DEF Right, Volume, Directory, Searching, Answered, Copied, Shown, Ended

(* The listing is over in stage "kernel" and in no other before it.        *)
LEMMA ListingStays ==
  ASSUME Right, HeapFull => HeapFull', UNCHANGED <<disk, stage, listed>>,
         op # "list", op' # "list"
  PROVE  Shown'
<1>1. CASE stage # "kernel"
  BY <1>1 DEF Right, Shown
<1>2. CASE stage = "kernel"
  <2>1. Complete
    BY <1>2 DEF Right, Shown
  <2>2. Named(ListPath)' = Named(ListPath)
    BY SameMedium
  <2>3. Complete'
    BY <2>1, <2>2 DEF Complete
  <2> QED
    BY <1>2, <2>3 DEF Shown
<1> QED
  BY <1>1, <1>2

(* The rest of a step that gives the answer of iso9660_open.               *)
LEMMA ReturnsRight ==
  ASSUME IInv, Right, HeapFull => HeapFull', op \in {"open", "find"}, NEW n,
         Returns(n), UNCHANGED <<bootVars, stage, readVars>>, Found',
         n = NULL \/ OnMedium(n)
  PROVE  Right'
<1>1. /\ op' = "opened" /\ UNCHANGED <<disk, iso_fs, stage, listed>> /\ node' = n
      /\ stage \notin {"mount", "done"}
  BY DEF Returns, bootVars, IInv, Shape
<1>2. Volume' /\ Directory' /\ Searching' /\ Answered' /\ Copied' /\ Ended'
  BY <1>1 DEF Right, Volume, Directory, Searching, Answered, Copied, Ended
<1>3. Opened'
  BY <1>1, SameMedium DEF Opened
<1>4. Shown'
  BY <1>1, ListingStays
<1> QED
  BY <1>2, <1>3, <1>4 DEF Right

(* The search enters the next directory.                                   *)
LEMMA EnterRight ==
  ASSUME IInv, Right, HeapFull => HeapFull', op \in {"open", "find"},
         NEW dir \in Nodes, Enter(dir), OnMedium(dir), dir.is_directory, op' = "find",
         UNCHANGED <<bootVars, stage, readVars, node>>,
         tokens' \in Seq(STRING), tokens' # <<>>, Len(tokens') <= Len(Path),
         \A i \in 1..Len(tokens') : tokens'[i] = Path[Len(Path) - Len(tokens') + i],
         Levels(disk, Path)[Len(Path) - Len(tokens')] = {dir}
  PROVE  Right'
<1>1. /\ UNCHANGED <<disk, iso_fs, stage, listed, node>>
      /\ stage \notin {"mount", "done"}
      /\ current' = dir /\ current_sector' = dir.sector /\ remaining_bytes' = dir.size
      /\ dir.sector \in Nat /\ dir.size \in Nat
  BY NodeFacts DEF Enter, bootVars, IInv, Shape
<1>2. Path' = Path /\ Depth' = Len(Path) - Len(tokens')
  BY <1>1 DEF Path, Depth
<1>3. current'.sector..(current_sector' - 1) = {}
  BY <1>1
<1>4. Searching'
  BY <1>1, <1>2, <1>3 DEF Searching
<1>5. Directory'
  <2>1. current_sector' = dir.sector + 0 /\ remaining_bytes' + 0 * SectorSize = dir.size /\ 0 \in Nat
    BY <1>1, Numbers
  <2>2. OnMedium(current)'
    BY <1>1, SameMedium
  <2> QED
    BY <1>1, <2>1, <2>2 DEF Directory
<1>6. Volume' /\ Answered' /\ Copied' /\ Ended'
  BY <1>1 DEF Right, Volume, Answered, Copied, Ended
<1>7. Opened'
  BY <1>1, SameMedium DEF Right, Opened
<1>8. Shown'
  BY <1>1, ListingStays
<1> QED
  BY <1>4, <1>5, <1>6, <1>7, <1>8 DEF Right

LEMMA OpenRight ==
  ASSUME IInv, Sound, Right, HeapFull => HeapFull', Open
  PROVE  Right'
<1>1. /\ op = "open" /\ UNCHANGED <<bootVars, stage, readVars, disk>>
      /\ stage \in {"probe", "list", "kernel"} /\ disk \in Disks
  BY DEF Open, bootVars, IInv, Shape, Stages
<1>2. Path \in Seq(STRING) /\ Path' = Path /\ Named(Path)' = Named(Path)
  BY <1>1, PathFacts DEF Path, Named
<1>3. RootNode = RootOf(disk)
  BY <1>1 DEF Right, Volume, RootNode, RootOf
<1>4. Levels(disk, Path)[0] = {RootNode}
  <2>1. Len(Path) \in Nat
    BY <1>2
  <2>2. Levels(disk, Path)[0] = VolumeRoot(disk)
    BY <2>1, LevelFacts
  <2> QED
    BY <1>3, <2>2 DEF VolumeRoot, Sound
<1>5. OnMedium(RootNode) /\ RootNode \in Nodes /\ RootNode # NULL
  <2>1. OnMedium(RootNode)
    BY <1>3 DEF OnMedium
  <2>2. RootNode \in Nodes
    BY <1>1, <2>1, OnMediumFacts
  <2> QED
    BY <2>1, <2>2, NodeFacts
<1>6. CASE OutOfMemory(NodeSize) /\ Returns(NULL)
  <2>1. Found'
    BY <1>6, NoNodeNoRoom DEF Found, Returns
  <2> QED
    BY <1>1, <1>6, <2>1, ReturnsRight
<1>7. CASE Path = <<>> /\ Returns(RootNode)
  <2>1. Named(Path) = {RootNode}
    BY <1>2, <1>4, <1>7, NamedIsLast DEF Named
  <2>2. Found'
    BY <1>1, <1>2, <1>5, <1>7, <2>1 DEF Found, Returns
  <2> QED
    BY <1>1, <1>5, <1>7, <2>2, ReturnsRight
<1>8. CASE Path # <<>> /\ tokens' = Path /\ Enter(RootNode) /\ op' = "find" /\ UNCHANGED node
  <2>1. Len(Path) - Len(tokens') = 0 /\ Len(tokens') <= Len(Path)
    BY <1>2, <1>8
  <2>2. \A i \in 1..Len(tokens') : tokens'[i] = Path[Len(Path) - Len(tokens') + i]
    BY <1>8, <2>1
  <2>3. RootNode.is_directory
    BY DEF RootNode
  <2> QED
    BY <1>1, <1>2, <1>4, <1>5, <1>8, <2>1, <2>2, <2>3, EnterRight
<1> QED
  BY <1>6, <1>7, <1>8 DEF Open

(* The whole directory has been looked through.                            *)
LEMMA FindExhaustedRight ==
  ASSUME IInv, Sound, Right, HeapFull => HeapFull', FindExhausted
  PROVE  Right'
<1>1. /\ op = "find" /\ remaining_bytes = 0 /\ Returns(NULL) /\ node' = NULL
      /\ UNCHANGED <<bootVars, stage, readVars, disk>>
      /\ stage \in {"probe", "list", "kernel"}
  BY DEF FindExhausted, Returns, bootVars, IInv, Shape, Stages
<1>2. Path \in Seq(STRING) /\ Path' = Path /\ Named(Path)' = Named(Path)
  BY <1>1, PathFacts DEF Path, Named
<1>3. Named(Path) = {}
  <2>1. Sectors(current) = current.sector..(current_sector - 1)
    BY <1>1, ScanFacts DEF Right
  <2>2. \A r \in ChildrenOf(disk, current) : FileName(r) # Head(tokens)
    BY <1>1, <2>1 DEF Right, Searching, ChildrenOf, Records
  <2>3. Levels(disk, Path)[Depth + 1] = {} /\ Depth + 1 \in 0..Len(Path) /\ Len(Path) \in Nat
    BY <1>1, <2>2, NextLevel
  <2> QED
    BY <2>3, EmptyStays DEF Named
<1>4. Found'
  BY <1>1, <1>2, <1>3 DEF Found
<1> QED
  BY <1>1, <1>4, ReturnsRight

(* A directory has one record of a name, so the one that is found first is *)
(* what the path names.                                                    *)
LEMMA MatchIsNext ==
  ASSUME IInv, Sound, Right, op = "find", remaining_bytes > 0,
         NEW recs, recs = Records(current_sector), DOMAIN recs \subseteq Nat,
         Matches(recs) # {}
  PROVE  LET rec == recs[Min(Matches(recs))] IN
           /\ Levels(disk, Path)[Depth + 1] = {Node(rec)}
           /\ OnMedium(Node(rec)) /\ Node(rec) \in Nodes
<1> DEFINE k == Min(Matches(recs))
           rec == recs[k]
<1>1. /\ current_sector \in Sectors(current) /\ OnMedium(current) /\ current.is_directory
      /\ current_sector \in DOMAIN disk.dirs /\ disk \in Disks
  BY ScanFacts DEF Right
<1>2. k \in DOMAIN recs /\ FileName(rec) = Head(tokens)
  <2>1. Matches(recs) \in SUBSET Nat /\ Matches(recs) \subseteq DOMAIN recs
    BY DEF Matches, Reached
  <2>2. k \in Matches(recs)
    BY <2>1, MinIn
  <2> QED
    BY <2>1, <2>2 DEF Matches
<1> HIDE DEF k
<1>3. rec \in Range(Records(current_sector))
  BY <1>2 DEF Range
<1>4. rec \in ChildrenOf(disk, current)
  BY <1>1, <1>3 DEF ChildrenOf, Records
<1>5. \A q, r \in ChildrenOf(disk, current) : FileName(q) = FileName(r) => q = r
  BY <1>1, DirectoryFacts DEF Sound
<1> HIDE DEF rec
<1>6. {q \in ChildrenOf(disk, current) : FileName(q) = Head(tokens)} = {rec}
  BY <1>2, <1>4, <1>5
<1>7. Levels(disk, Path)[Depth + 1] = {Node(rec)}
  BY <1>6, NextLevel
<1>8. OnMedium(Node(rec))
  <2>1. Records(current_sector) = disk.dirs[current_sector]
    BY <1>1 DEF Records, RecordsOf
  <2>2. rec \in UNION {Range(disk.dirs[s]) : s \in DOMAIN disk.dirs}
    BY <1>1, <1>3, <2>1
  <2> QED
    BY <2>2 DEF OnMedium, Recorded
<1>9. Node(rec) \in Nodes
  BY <1>1, <1>8, OnMediumFacts
<1> QED
  BY <1>7, <1>8, <1>9 DEF rec, k

(* One more sector of the directory is left behind.                        *)
LEMMA DirectoryMoves ==
  ASSUME Directory, op \in {"find", "list"}, UNCHANGED <<disk, current>>,
         current \in Nodes, current_sector \in Nat, remaining_bytes \in Nat,
         current_sector' = current_sector + 1,
         remaining_bytes' = remaining_bytes - SectorSize
  PROVE  Directory'
<1>1. PICK m \in Nat : /\ current_sector = current.sector + m
                       /\ remaining_bytes + m * SectorSize = current.size
  BY DEF Directory
<1>2. current.sector \in Nat /\ current.size \in Nat
  BY NodeFacts
<1>3. /\ current_sector' = current'.sector + (m + 1)
      /\ remaining_bytes' + (m + 1) * SectorSize = current'.size
      /\ m + 1 \in Nat
  BY <1>1, <1>2, Numbers
<1>4. OnMedium(current)' /\ current'.is_directory
  BY SameMedium DEF Directory
<1> QED
  BY <1>3, <1>4 DEF Directory

LEMMA FindInSectorRight ==
  ASSUME IInv, Sound, Right, HeapFull => HeapFull', FindInSector("whole")
  PROVE  Right'
<1>1. /\ op = "find" /\ remaining_bytes > 0
      /\ UNCHANGED <<bootVars, stage, readVars, disk, listed, iso_fs>>
      /\ stage \in {"probe", "list", "kernel"} /\ disk \in Disks /\ Directory
  BY DEF FindInSector, bootVars, IInv, Shape, Stages, Right
<1>2. Path \in Seq(STRING) /\ Path' = Path /\ Named(Path)' = Named(Path)
  BY <1>1, PathFacts DEF Path, Named
<1>3. /\ tokens \in Seq(STRING) /\ tokens # <<>> /\ Len(tokens) <= Len(Path)
      /\ \A i \in 1..Len(tokens) : tokens[i] = Path[Depth + i]
  BY <1>1 DEF Right, Searching
<1>4. PICK recs \in Readings(DirSector(ReadSector(current_sector, dirbuf, "whole"))) :
        FindIn(recs)
  BY DEF FindInSector
<1>5. /\ recs = Records(current_sector) /\ Reached(recs) = DOMAIN recs
      /\ DOMAIN recs \subseteq Nat
  BY <1>1, AllReached
<1> DEFINE child == Node(recs[Min(Matches(recs))])
<1>6. Depth + 1 \in 1..Len(Path) /\ Len(Path) \in Nat
  BY <1>1, NextLevel
<1>7. ASSUME Matches(recs) # {}
      PROVE  /\ Levels(disk, Path)[Depth + 1] = {child}
             /\ OnMedium(child) /\ child \in Nodes /\ child # NULL
  <2>1. Levels(disk, Path)[Depth + 1] = {child} /\ OnMedium(child) /\ child \in Nodes
    BY <1>1, <1>5, <1>7, MatchIsNext
  <2> QED
    BY <2>1, NodeFacts
<1>8. \/ Matches(recs) = {} /\ FindAdvances /\ UNCHANGED <<op, tokens, current, node, heapVars>>
      \/ OutOfMemory(NodeSize) /\ Returns(NULL)
      \/ /\ Matches(recs) # {}
         /\ IF Tail(tokens) = <<>> THEN Returns(child)
            ELSE IF ~child.is_directory THEN Returns(NULL)
            ELSE Enter(child) /\ tokens' = Tail(tokens) /\ UNCHANGED <<op, node>>
  BY <1>4 DEF FindIn, child
<1> HIDE DEF child
<1>9. /\ Len(tokens) \in Nat /\ Len(tokens) > 0 /\ Tail(tokens) \in Seq(STRING)
      /\ Len(Tail(tokens)) = Len(tokens) - 1
  BY <1>3
<1>10. CASE Matches(recs) = {} /\ FindAdvances /\ UNCHANGED <<op, tokens, current, node, heapVars>>
  <2>1. \A r \in Range(Records(current_sector)) : FileName(r) # Head(tokens)
    BY <1>5, <1>10 DEF Matches, Range
  <2>2. /\ current_sector' = current_sector + 1 /\ current_sector \in Nat
        /\ current.sector \in Nat /\ current.sector <= current_sector /\ current \in Nodes
        /\ remaining_bytes >= SectorSize /\ remaining_bytes \in Nat
    BY <1>1, <1>10, ScanFacts DEF FindAdvances
  <2>3. \A s \in current.sector..(current_sector' - 1) :
          s = current_sector \/ s \in current.sector..(current_sector - 1)
    BY <2>2
  <2>4. \A s \in current.sector..(current_sector' - 1) :
          \A r \in Range(Records(s)) : FileName(r) # Head(tokens)
    BY <1>1, <2>1, <2>3 DEF Right, Searching
  <2>5. Searching'
    <3>1. Depth' = Depth
      BY <1>2, <1>10 DEF Depth
    <3>2. \A s : Records(s)' = Records(s)
      BY <1>1, SameMedium
    <3> QED
      BY <1>1, <1>2, <1>10, <2>4, <3>1, <3>2 DEF Right, Searching
  <2>6. remaining_bytes' = remaining_bytes - SectorSize
    <3>1. remaining_bytes \in UnsignedInt
      BY DEF IInv, Shape
    <3> QED
      BY <1>10, <2>2, <3>1, Subtracted DEF FindAdvances
  <2>7. Directory'
    BY <1>1, <1>10, <2>2, <2>6, DirectoryMoves
  <2>8. Volume' /\ Answered' /\ Copied' /\ Ended'
    BY <1>1, <1>10 DEF Right, Volume, Answered, Copied, Ended
  <2>9. Opened'
    BY <1>1, <1>10, SameMedium DEF Right, Opened
  <2>10. Shown'
    BY <1>1, <1>10, ListingStays
  <2> QED
    BY <2>5, <2>7, <2>8, <2>9, <2>10 DEF Right
<1>11. CASE OutOfMemory(NodeSize) /\ Returns(NULL)
  <2>1. Found'
    BY <1>11, NoNodeNoRoom DEF Found, Returns
  <2> QED
    BY <1>1, <1>11, <2>1, ReturnsRight
<1>12. CASE Matches(recs) # {} /\ Tail(tokens) = <<>> /\ Returns(child)
  <2>1. Depth + 1 = Len(Path)
    <3>1. Len(tokens) = 1
      BY <1>3, <1>12, LastOne
    <3> QED
      BY <1>6, <3>1 DEF Depth
  <2>2. Named(Path) = {child}
    BY <1>7, <1>12, <2>1, NamedIsLast DEF Named
  <2>3. Found'
    BY <1>2, <1>7, <1>12, <2>2 DEF Found, Returns
  <2> QED
    BY <1>1, <1>7, <1>12, <2>3, ReturnsRight
<1>13. CASE Matches(recs) # {} /\ Tail(tokens) # <<>> /\ ~child.is_directory /\ Returns(NULL)
  <2>1. Depth + 2 \in 1..Len(Path) /\ (Depth + 2) - 1 = Depth + 1
    <3>1. Len(tokens) > 1
      BY <1>9, <1>13
    <3> QED
      BY <1>3, <1>6, <1>9, <3>1 DEF Depth
  <2>2. Levels(disk, Path)[Depth + 2] = Called(disk, DirsIn({child}), Path[Depth + 2])
    <3>1. \A k \in 1..Len(Path) :
            Levels(disk, Path)[k] = Called(disk, DirsIn(Levels(disk, Path)[k - 1]), Path[k])
      BY <1>6, LevelFacts
    <3>2. Levels(disk, Path)[Depth + 2] =
            Called(disk, DirsIn(Levels(disk, Path)[(Depth + 2) - 1]), Path[Depth + 2])
      BY <2>1, <3>1, Zenon
    <3> QED
      BY <1>7, <1>13, <2>1, <3>2
  <2>3. Levels(disk, Path)[Depth + 2] = {}
    BY <1>13, <2>2 DEF DirsIn, Called
  <2>4. Named(Path) = {}
    BY <1>6, <2>1, <2>3, EmptyStays DEF Named
  <2>5. Found'
    BY <1>2, <1>13, <2>4 DEF Found, Returns
  <2> QED
    BY <1>1, <1>13, <2>5, ReturnsRight
<1>14. CASE /\ Matches(recs) # {} /\ Tail(tokens) # <<>> /\ tokens' = Tail(tokens)
            /\ child.is_directory /\ Enter(child) /\ UNCHANGED <<op, node>>
  <2>1. Len(tokens') <= Len(Path) /\ Len(Path) - Len(tokens') = Depth + 1
    BY <1>3, <1>6, <1>9, <1>14 DEF Depth
  <2>2. \A i \in 1..Len(tokens') : tokens'[i] = Path[Len(Path) - Len(tokens') + i]
    <3>1. ASSUME NEW i \in 1..Len(tokens') PROVE tokens'[i] = Path[(Depth + 1) + i]
      <4>1. i + 1 \in 1..Len(tokens) /\ tokens'[i] = tokens[i + 1]
        BY <1>3, <1>9, <1>14
      <4>2. tokens[i + 1] = Path[Depth + (i + 1)]
        BY <1>3, <4>1
      <4>3. Depth + (i + 1) = (Depth + 1) + i
        BY <1>6, <1>9, <1>14 DEF Depth
      <4> QED
        BY <4>1, <4>2, <4>3
    <3> QED
      BY <2>1, <3>1
  <2>3. Levels(disk, Path)[Len(Path) - Len(tokens')] = {child}
    BY <1>7, <1>14, <2>1
  <2>4. tokens' \in Seq(STRING) /\ tokens' # <<>> /\ op' = "find"
    BY <1>1, <1>9, <1>14
  <2> QED
    BY <1>1, <1>7, <1>14, <2>1, <2>2, <2>3, <2>4, EnterRight
<1> QED
  BY <1>8, <1>10, <1>11, <1>12, <1>13, <1>14

(* The read of a file starts with nothing.                                 *)
LEMMA WantedFacts ==
  ASSUME IInv, node # NULL
  PROVE  Wanted \in Nat
<1>1. node.size \in Nat /\ ProbeSize \in Nat
  BY NodeFacts, FSAssumption DEF IInv, Shape, FSAssumption
<1> QED
  BY <1>1 DEF Wanted, Smaller

LEMMA ReadStarts ==
  ASSUME IInv, node # NULL, op' = "read", dest' = <<>>, UNCHANGED <<stage, node>>
  PROVE  Copied'
<1>1. Wanted \in Nat /\ Wanted' = Wanted
  BY WantedFacts DEF Wanted
<1>2. dest' = Contents(node', 0) /\ Len(dest') = 0
  BY DEF Contents
<1> QED
  BY <1>1, <1>2, Numbers DEF Copied

LEMMA ProbeOpenedRight ==
  ASSUME IInv, Right, HeapFull => HeapFull', ProbeOpened
  PROVE  Right'
<1>1. /\ UNCHANGED <<disk, iso_fs, node, listed>> /\ stage = "probe" /\ op = "opened"
      /\ listed = {}
  BY DEF ProbeOpened, bootVars, Right, Shown
<1>2. Opened'
  BY <1>1, SameMedium DEF Right, Opened
<1>3. CASE stage' = "list" /\ op' = "open"
  BY <1>1, <1>2, <1>3
     DEF Right, Volume, Directory, Searching, Answered, Copied, Shown, Ended
<1>4. CASE node # NULL /\ StartRead /\ UNCHANGED stage
  <2>1. Copied'
    BY <1>1, <1>4, ReadStarts DEF StartRead, NothingRead
  <2>2. Found'
    BY <1>1, <1>4, SameNames DEF Right, Answered, Found
  <2> QED
    BY <1>1, <1>2, <1>4, <2>1, <2>2
       DEF Right, Volume, Directory, Searching, Answered, Shown, Ended, StartRead
<1> QED
  BY <1>3, <1>4 DEF ProbeOpened, NextStage

LEMMA ProbeReadRight ==
  ASSUME IInv, Right, ProbeRead
  PROVE  Right'
<1>1. /\ UNCHANGED <<disk, iso_fs, listed, node>> /\ stage' = "list" /\ op' = "open"
      /\ stage = "probe" /\ op # "list" /\ listed = {}
  BY DEF ProbeRead, NextStage, ReadDone, bootVars, Right, Shown
<1>2. Opened'
  BY <1>1, SameMedium DEF Right, Opened
<1> QED
  BY <1>1, <1>2 DEF Right, Volume, Directory, Searching, Answered, Copied, Shown, Ended

(* The nodes of the directory that is listed.                              *)
LEMMA ListedDirectory ==
  ASSUME Found, stage = "list", node # NULL
  PROVE  Named(ListPath) = {node}
  BY DEF Found, Path

LEMMA ListOpenedRight ==
  ASSUME IInv, Right, HeapFull => HeapFull', ListOpened
  PROVE  Right'
<1>1. /\ UNCHANGED <<disk, iso_fs, node, listed>> /\ stage = "list" /\ op = "opened"
      /\ listed = {} /\ Found
  BY DEF ListOpened, bootVars, Right, Shown, Answered
<1>2. Volume' /\ Opened'
  BY <1>1, SameMedium DEF Right, Volume, Opened
<1>3. CASE node # NULL /\ node.is_directory /\ op' = "list" /\ Enter(node) /\ UNCHANGED stage
  <2>1. Found'
    BY <1>1, <1>3, SameNames DEF Found
  <2>2. /\ node.sector \in Nat /\ node.size \in Nat /\ OnMedium(node)
        /\ current' = node /\ current_sector' = node.sector /\ remaining_bytes' = node.size
    BY <1>3, NodeFacts DEF Enter, IInv, Shape, Right, Opened
  <2>3. current' = node' /\ current'.sector..(current_sector' - 1) = {}
    BY <1>1, <2>2
  <2>4. listed' = NamesOf(UNION {Range(Records(s)') : s \in current'.sector..(current_sector' - 1)})
    BY <1>1, <2>3 DEF NamesOf
  <2>5. Shown'
    BY <1>1, <1>3, <2>3, <2>4 DEF Shown, Records
  <2>6. Directory'
    <3>1. current_sector' = node.sector + 0 /\ remaining_bytes' + 0 * SectorSize = node.size /\ 0 \in Nat
      BY <2>2, Numbers
    <3>2. OnMedium(current)'
      BY <1>1, <2>2, SameMedium
    <3> QED
      BY <1>3, <2>2, <3>1, <3>2 DEF Directory
  <2> QED
    BY <1>1, <1>2, <1>3, <2>1, <2>5, <2>6 DEF Right, Searching, Answered, Copied, Ended
<1>4. CASE ~(node # NULL /\ node.is_directory) /\ stage' = "kernel" /\ op' = "open"
  <2>1. Complete'
    <3>1. CASE node = NULL
      BY <1>1, <3>1 DEF Found, Complete, Path, Named
    <3>2. CASE node # NULL
      <4>1. DirsIn(Named(ListPath)') = {}
        BY <1>1, <1>4, <3>2, ListedDirectory DEF DirsIn, Named
      <4> QED
        BY <1>1, <4>1 DEF Complete, NamesOf
    <3> QED
      BY <3>1, <3>2
  <2> QED
    BY <1>2, <1>4, <2>1 DEF Right, Directory, Searching, Answered, Copied, Shown, Ended
<1> QED
  BY <1>3, <1>4 DEF ListOpened, NextStage

LEMMA ListSectorRight ==
  ASSUME IInv, Sound, Right, HeapFull => HeapFull', ListSector("whole")
  PROVE  Right'
<1>1. /\ op = "list" /\ remaining_bytes > 0 /\ stage = "list" /\ Directory
      /\ UNCHANGED <<disk, iso_fs, stage, op, node, current, heap_offset>>
      /\ current_sector' = (current_sector + 1) % Word /\ remaining_bytes' = ListRemaining
  BY DEF ListSector, heapVars, IInv, Shape, Right
<1>2. /\ current.sector \in Nat /\ current_sector \in Nat /\ current.sector <= current_sector
      /\ current_sector' = current_sector + 1 /\ current \in Nodes
      /\ remaining_bytes \in Nat /\ remaining_bytes >= SectorSize
  BY <1>1, ScanFacts
<1>3. PICK recs \in Readings(DirSector(ReadSector(current_sector, dirbuf, "whole"))) :
        listed' = listed \cup Printed(recs)
  BY DEF ListSector
<1>4. recs = Records(current_sector) /\ Printed(recs) = NamesOf(Range(recs))
  BY <1>1, AllReached
<1>5. current.sector..(current_sector' - 1)
        = (current.sector..(current_sector - 1)) \cup {current_sector}
  BY <1>2
<1>6. current = node
      /\ listed = NamesOf(UNION {Range(Records(s)) : s \in current.sector..(current_sector - 1)})
  BY <1>1 DEF Right, Shown
<1>7. listed' = NamesOf(UNION {Range(Records(s)) : s \in current.sector..(current_sector' - 1)})
  <2> DEFINE Seen == UNION {Range(Records(s)) : s \in current.sector..(current_sector - 1)}
             New == Range(Records(current_sector))
  <2>1. UNION {Range(Records(s)) : s \in current.sector..(current_sector' - 1)} = Seen \cup New
    BY <1>5, Zenon
  <2>2. listed' = NamesOf(Seen) \cup NamesOf(New)
    BY <1>3, <1>4, <1>6
  <2> HIDE DEF Seen, New
  <2>3. NamesOf(Seen) \cup NamesOf(New) = NamesOf(Seen \cup New)
    BY DEF NamesOf
  <2> QED
    BY <2>1, <2>2, <2>3
<1>8. Shown'
  <2>1. \A s : Records(s)' = Records(s)
    BY <1>1, SameMedium
  <2>2. current' = current /\ node' = node /\ op' = "list" /\ stage' = "list"
    BY <1>1
  <2>3. listed' = NamesOf(UNION {Range(Records(s)') : s \in current'.sector..(current_sector' - 1)})
    BY <1>7, <2>1, <2>2, Zenon
  <2>4. listed' = NamesOf(UNION {Range(Records(s)) : s \in current.sector..(current_sector - 1)})'
    BY <2>3 DEF NamesOf
  <2> QED
    BY <1>6, <2>2, <2>4, Zenon DEF Shown
<1>9. Found'
  BY <1>1, SameNames DEF Right, Answered, Found, HeapFull, Fits
<1>10. Directory'
  <2>1. remaining_bytes' = remaining_bytes - SectorSize
    <3>1. remaining_bytes \in UnsignedInt
      BY DEF IInv, Shape
    <3> QED
      BY <1>1, <1>2, <3>1, Subtracted
  <2> QED
    BY <1>1, <1>2, <2>1, DirectoryMoves
<1>11. Volume' /\ Opened'
  BY <1>1, SameMedium DEF Right, Volume, Opened
<1> QED
  BY <1>1, <1>8, <1>9, <1>10, <1>11 DEF Right, Searching, Answered, Copied, Ended

LEMMA ListDoneRight ==
  ASSUME IInv, Sound, Right, HeapFull => HeapFull', ListDone
  PROVE  Right'
<1>1. /\ op = "list" /\ remaining_bytes = 0 /\ stage = "list" /\ node # NULL
      /\ stage' = "kernel" /\ op' = "open" /\ UNCHANGED <<disk, iso_fs, listed, node>>
  BY DEF ListDone, NextStage, bootVars, IInv, Shape
<1>2. /\ current = node /\ current.is_directory
      /\ Sectors(current) = current.sector..(current_sector - 1)
  BY <1>1, ScanFacts DEF Right, Shown
<1>3. listed = NamesOf(ChildrenOf(disk, node))
  BY <1>1, <1>2 DEF Right, Shown, ChildrenOf, Records
<1>4. Complete'
  <2>1. DirsIn(Named(ListPath)') = {node}
    BY <1>1, <1>2, ListedDirectory DEF Right, Answered, DirsIn, Named
  <2>2. UNION {ChildrenOf(disk, n) : n \in {node}} = ChildrenOf(disk, node)
    OBVIOUS
  <2>3. listed' = NamesOf(UNION {ChildrenOf(disk', n) : n \in DirsIn(Named(ListPath)')})
    BY <1>1, <1>3, <2>1, <2>2
  <2> QED
    BY <2>3 DEF Complete
<1>5. Opened'
  BY <1>1, SameMedium DEF Right, Opened
<1> QED
  BY <1>1, <1>4, <1>5 DEF Right, Volume, Directory, Searching, Answered, Copied, Shown, Ended

LEMMA Joined ==
  ASSUME NEW f, NEW a \in Nat, NEW b \in Nat
  PROVE  /\ [k \in 1..a |-> f[k]] \o [k \in 1..b |-> f[a + k]] = [k \in 1..(a + b) |-> f[k]]
         /\ Len([k \in 1..(a + b) |-> f[k]]) = a + b
<1> DEFINE S == {f[k] : k \in Nat}
           s == [k \in 1..a |-> f[k]]
           t == [k \in 1..b |-> f[a + k]]
           u == [k \in 1..(a + b) |-> f[k]]
<1>1. s \in Seq(S) /\ t \in Seq(S) /\ u \in Seq(S)
  OBVIOUS
<1>2. Len(s) = a /\ Len(t) = b /\ Len(u) = a + b
  OBVIOUS
<1>3. \A k \in 1..(a + b) : (s \o t)[k] = u[k]
  <2>1. ASSUME NEW k \in 1..a PROVE (s \o t)[k] = u[k]
    <3>1. (s \o t)[k] = s[k]
      BY <1>1, <1>2
    <3> QED
      BY <3>1
  <2>2. ASSUME NEW k \in (a + 1)..(a + b) PROVE (s \o t)[k] = u[k]
    <3>1. (s \o t)[k] = t[k - a]
      BY <1>1, <1>2
    <3>2. k - a \in 1..b /\ a + (k - a) = k
      OBVIOUS
    <3> QED
      BY <3>1, <3>2
  <2> QED
    BY <2>1, <2>2
<1>4. s \o t \in Seq(S) /\ Len(s \o t) = a + b
  BY <1>1, <1>2
<1> HIDE DEF s, t, u
<1>5. s \o t = u
  BY <1>1, <1>2, <1>3, <1>4, SeqEqual
<1> QED
  BY <1>2, <1>5 DEF s, t, u

(* A chunk of the next sector continues the file.                          *)
LEMMA ChunkContinues ==
  ASSUME NEW n, NEW len \in Nat, len % SectorSize = 0, NEW c \in 0..SectorSize
  PROVE  /\ Contents(n, len) \o
              [k \in 1..c |-> <<(n.sector + (len \div SectorSize)) % Word, k - 1>>]
              = Contents(n, len + c)
         /\ Len(Contents(n, len + c)) = len + c
<1> DEFINE lba(q) == (n.sector + q) % Word
           f == [k \in Nat |-> <<lba((k - 1) \div SectorSize), (k - 1) % SectorSize>>]
<1>1. PICK q \in Nat : len = q * SectorSize
  BY Numbers, Multiple
<1>2. \A m \in Nat : Contents(n, m) = [k \in 1..m |-> f[k]]
  BY DEF Contents
<1>3. ASSUME NEW k \in 1..c
      PROVE  f[len + k] = <<lba(len \div SectorSize), k - 1>>
  <2>1. (len + k) - 1 = q * SectorSize + (k - 1) /\ k - 1 \in 0..(SectorSize - 1)
    BY <1>1, Numbers
  <2>2. ((len + k) - 1) \div SectorSize = q /\ ((len + k) - 1) % SectorSize = k - 1
    <3>1. /\ (q * SectorSize + (k - 1)) \div SectorSize = q
          /\ (q * SectorSize + (k - 1)) % SectorSize = k - 1
      <4> DEFINE r == k - 1
      <4>1. r \in 0..(SectorSize - 1)
        BY <2>1
      <4> HIDE DEF r
      <4>2. (q * SectorSize + r) \div SectorSize = q /\ (q * SectorSize + r) % SectorSize = r
        BY <4>1, Numbers, Quotient
      <4> QED
        BY <4>2 DEF r
    <3> QED
      BY <2>1, <3>1
  <2>3. len \div SectorSize = q
    BY <1>1, Numbers
  <2>4. len + k \in Nat
    OBVIOUS
  <2> HIDE DEF lba
  <2>5. f[len + k] = <<lba(((len + k) - 1) \div SectorSize), ((len + k) - 1) % SectorSize>>
    BY <2>4, Zenon
  <2> QED
    BY <2>2, <2>3, <2>5, Zenon
<1>4. c \in Nat /\ len + c \in Nat
  BY Numbers
<1> HIDE DEF f
<1>5. [k \in 1..c |-> <<lba(len \div SectorSize), k - 1>>] = [k \in 1..c |-> f[len + k]]
  BY <1>3, Zenon
<1>6. /\ Contents(n, len) = [k \in 1..len |-> f[k]]
      /\ Contents(n, len + c) = [k \in 1..(len + c) |-> f[k]]
  BY <1>2, <1>4
<1>7. /\ [k \in 1..len |-> f[k]] \o [k \in 1..c |-> f[len + k]] = [k \in 1..(len + c) |-> f[k]]
      /\ Len([k \in 1..(len + c) |-> f[k]]) = len + c
  BY <1>4, Joined
<1> QED
  BY <1>5, <1>6, <1>7, Zenon

LEMMA ReadOneSectorRight ==
  ASSUME IInv, Right, HeapFull => HeapFull', ReadOneSector("whole")
  PROVE  Right'
<1> DEFINE len == Len(dest)
           c   == ChunkSize
           at  == (node.sector + (len \div SectorSize)) % Word
<1>1. /\ op = "read" /\ node # NULL /\ len < Wanted
      /\ UNCHANGED <<disk, iso_fs, listed, stage, op, node, heap_offset>>
      /\ dest' = dest \o [k \in 1..c |-> <<at, k - 1>>]
  BY DEF ReadOneSector, ReadSector, bytes_read, bootVars, heapVars, IInv, Shape
<1>2. /\ dest = Contents(node, len) /\ len \in Nat /\ len % SectorSize = 0
      /\ Wanted \in Nat
  <2>1. Wanted \in Nat
    BY <1>1, WantedFacts
  <2> QED
    BY <1>1, <2>1 DEF Right, Copied
<1>3. c \in 0..SectorSize /\ len + c \in 0..Wanted /\ (c = SectorSize \/ len + c = Wanted)
  BY <1>1, <1>2, Numbers DEF ChunkSize, Smaller, bytes_read
<1> HIDE DEF c
<1>4. dest' = Contents(node, len + c) /\ Len(dest') = len + c
  <2> HIDE DEF len
  <2>1. dest' = Contents(node, len) \o [k \in 1..c |-> <<at, k - 1>>]
    BY <1>1, <1>2
  <2> QED
    BY <1>2, <1>3, <2>1, ChunkContinues
<1> HIDE DEF len, at
<1>5. (len + c) % SectorSize = 0 \/ len + c = Wanted
  <2>1. CASE c = SectorSize
    <3>1. PICK q \in Nat : len = q * SectorSize
      BY <1>2, Numbers, Multiple
    <3>2. len + c = (q + 1) * SectorSize + 0 /\ q + 1 \in Nat /\ 0 \in 0..(SectorSize - 1)
      BY <2>1, <3>1, Numbers
    <3>3. ((q + 1) * SectorSize + 0) % SectorSize = 0
      BY <3>2, Numbers, Quotient
    <3> QED
      BY <3>2, <3>3
  <2> QED
    BY <1>3, <2>1
<1>6. Copied'
  <2>1. Wanted' = Wanted
    BY <1>1 DEF Wanted
  <2> QED
    BY <1>1, <1>3, <1>4, <1>5, <2>1 DEF Copied
<1>7. Found'
  BY <1>1, SameNames DEF Right, Answered, Found, HeapFull, Fits
<1>8. op # "list" /\ op' \notin {"list", "find"} /\ stage' # "done"
  BY <1>1 DEF IInv, Shape
<1>9. Volume' /\ Directory' /\ Searching' /\ Answered' /\ Ended'
  BY <1>1, <1>7, <1>8 DEF Right, Volume, Directory, Searching, Answered, Ended
<1>10. Opened'
  BY <1>1, SameMedium DEF Right, Opened
<1>11. Shown'
  BY <1>1, <1>8, ListingStays
<1> QED
  BY <1>6, <1>9, <1>10, <1>11 DEF Right

(* load_kernel gives up only on a kernel that is not there.                *)
LEMMA KernelOpenedRight ==
  ASSUME IInv, Right, HeapFull => HeapFull', KernelOpened
  PROVE  Right'
<1>1. /\ UNCHANGED <<disk, iso_fs, node, listed>> /\ stage = "kernel" /\ op = "opened"
      /\ op' \notin {"list", "find"} /\ Found
  BY DEF KernelOpened, StartRead, Right, Answered
<1>2. Volume' /\ Directory' /\ Opened' /\ Searching'
  BY <1>1, SameMedium DEF Right, Volume, Directory, Opened, Searching
<1>3. CASE node = NULL /\ stage' = "done" /\ op' = "none" /\ result' = 0
  <2>1. HeapFull' \/ Named(KernelPath)' = {}
    BY <1>1, <1>3 DEF Found, Path, Named
  <2>2. KernelLoaded'
    BY <1>3 DEF KernelLoaded
  <2> QED
    BY <1>2, <1>3, <2>1, <2>2 DEF Right, Answered, Copied, Shown, Ended
<1>4. CASE node # NULL /\ StartRead /\ UNCHANGED <<stage, result>>
  <2>1. Copied'
    BY <1>1, <1>4, ReadStarts DEF StartRead, NothingRead
  <2>2. Found'
    BY <1>1, <1>4, SameNames DEF Found
  <2>3. Shown'
    BY <1>1, <1>4, ListingStays
  <2> QED
    BY <1>1, <1>2, <1>4, <2>1, <2>2, <2>3 DEF Right, Answered, Ended
<1> QED
  BY <1>3, <1>4 DEF KernelOpened

(* and when it has read the file, it has read all of it.                   *)
LEMMA KernelReadRight ==
  ASSUME IInv, Right, KernelRead
  PROVE  Right'
<1>1. /\ UNCHANGED <<disk, iso_fs, node, dest, g_kernelSize>>
      /\ stage = "kernel" /\ op = "read" /\ node # NULL /\ node \in Nodes
      /\ stage' = "done" /\ op' = "none"
      /\ result' = IF Len(dest) = node.size THEN 1 ELSE 0
      /\ Len(dest) >= Wanted /\ Wanted = node.size
  BY DEF KernelRead, ReadDone, readVars, bytes_read, Wanted, IInv, Shape
<1>2. Len(dest) = node.size /\ dest = Contents(node, node.size)
  <2>1. node.size \in Nat
    BY <1>1, NodeFacts
  <2>2. Len(dest) \in 0..node.size /\ dest = Contents(node, Len(dest))
    BY <1>1 DEF Right, Copied
  <2> QED
    BY <1>1, <2>1, <2>2
<1>3. g_kernelSize = node.size
  BY <1>1 DEF IInv, Kernel
<1>4. Named(KernelPath) = {node}
  BY <1>1, <1>3 DEF Right, Answered, Found, Path
<1>5. result' = 1
  BY <1>1, <1>2
<1>6. KernelLoaded'
  BY <1>1, <1>2, <1>3, <1>4 DEF KernelLoaded, Named
<1>7. Ended'
  BY <1>5, <1>6 DEF Ended
<1>8. Opened'
  BY <1>1, SameMedium DEF Right, Opened
<1> QED
  BY <1>1, <1>7, <1>8 DEF Right, Volume, Directory, Searching, Answered, Copied, Shown

LEMMA DerailRight ==
  ASSUME IInv, Right, Derail
  PROVE  Right'
<1>1. /\ UNCHANGED <<disk, iso_fs, node>> /\ stage # "mount"
      /\ stage' = "derailed" /\ op' = "none"
  BY DEF Derail, Overwrites, bootVars, IInv, Shape
<1>2. Opened'
  BY <1>1, SameMedium DEF Right, Opened
<1> QED
  BY <1>1, <1>2 DEF Right, Volume, Directory, Searching, Answered, Copied, Shown, Ended

LEMMA StutterRight ==
  ASSUME Right, UNCHANGED vars
  PROVE  Right'
<1>1. /\ UNCHANGED <<disk, iso_fs, stage, op, tokens, current, current_sector,
                     remaining_bytes, node, dest, listed, heap_offset, g_kernelSize, result>>
  BY DEF vars, heapVars
<1>2. /\ Path' = Path /\ Named(Path)' = Named(Path) /\ Wanted' = Wanted
      /\ HeapFull' = HeapFull
  BY <1>1 DEF Path, Named, Wanted, HeapFull, Fits
<1>3. Volume' /\ Directory' /\ Opened' /\ Copied'
  BY <1>1, <1>2, SameMedium DEF Right, Volume, Directory, Opened, Copied
<1>4. Searching'
  BY <1>1, <1>2 DEF Right, Searching, Depth, Records
<1>5. Answered'
  BY <1>1, <1>2 DEF Right, Answered, Found
<1>6. Shown'
  BY <1>1, <1>2 DEF Right, Shown, Complete, Named, Records
<1>7. Ended'
  BY <1>1, <1>2 DEF Right, Ended, KernelLoaded, Named
<1> QED
  BY <1>3, <1>4, <1>5, <1>6, <1>7 DEF Right

(* One read that fails is enough to lose the rest, so the step that keeps  *)
(* faults FALSE delivered its sector.                                      *)
LEMMA StepRight ==
  ASSUME IInv, OnSoundVolume, [Next]_vars
  PROVE  OnSoundVolume'
<1> SUFFICES ASSUME Sound' PROVE Right'
  BY DEF OnSoundVolume
<1>1. HeapFull => HeapFull'
  BY StepUsesHeap, FullStaysFull
<1>2. faults \in BOOLEAN
  BY DEF IInv, Shape
<1>3. ~faults' /\ disk'.valid /\ Orderly(disk')
  BY DEF Sound
<1>4. ASSUME NEW how \in Outcomes, Fault(how) PROVE ~faults /\ how = "whole"
  BY <1>2, <1>3, <1>4 DEF Fault
<1>5. ASSUME ~faults, disk' = disk PROVE Sound /\ Right
  BY <1>3, <1>5 DEF Sound, OnSoundVolume
<1>6. ASSUME NEW how \in Outcomes,
             Mount(how) \/ FindInSector(how) \/ ReadOneSector(how) \/ ListSector(how)
      PROVE  Right'
  <2>1. Fault(how) /\ disk' = disk
    BY <1>6 DEF Mount, FindInSector, ReadOneSector, ListSector, bootVars
  <2>2. ~faults /\ how = "whole"
    BY <1>4, <2>1
  <2>3. Sound /\ Right
    BY <1>5, <2>1, <2>2
  <2>4. Mount("whole") \/ FindInSector("whole") \/ ReadOneSector("whole") \/ ListSector("whole")
    BY <1>6, <2>2
  <2> QED
    BY <1>1, <2>3, <2>4, MountRight, FindInSectorRight, ReadOneSectorRight, ListSectorRight
<1>7. ASSUME faults' = faults, disk' = disk PROVE Sound /\ Right
  BY <1>3, <1>5, <1>7
<1>8. CASE Open
  <2>1. Sound /\ Right
    BY <1>7, <1>8 DEF Open, bootVars
  <2> QED
    BY <1>1, <1>8, <2>1, OpenRight
<1>9. CASE FindExhausted \/ ProbeOpened \/ ListOpened \/ KernelOpened
  <2>1. Sound /\ Right
    BY <1>7, <1>9 DEF FindExhausted, ProbeOpened, ListOpened, KernelOpened, bootVars
  <2> QED
    BY <1>1, <1>9, <2>1, FindExhaustedRight, ProbeOpenedRight, ListOpenedRight, KernelOpenedRight
<1>10. CASE ProbeRead \/ KernelRead \/ ListDone \/ Derail
  <2>1. Sound /\ Right
    BY <1>7, <1>10 DEF ProbeRead, KernelRead, ListDone, Derail, bootVars
  <2> QED
    BY <1>1, <1>10, <2>1, ProbeReadRight, KernelReadRight, ListDoneRight, DerailRight
<1>11. CASE UNCHANGED vars
  <2>1. Sound /\ Right
    BY <1>7, <1>11 DEF vars
  <2> QED
    BY <1>11, <2>1, StutterRight
<1> QED
  BY <1>6, <1>8, <1>9, <1>10, <1>11 DEF Next

LEMMA SoundInvariance == Spec => []OnSoundVolume
<1>1. Init => OnSoundVolume
  BY InitRight DEF OnSoundVolume
<1>2. IInv /\ OnSoundVolume /\ [Next]_vars => OnSoundVolume'
  BY StepRight
<1> QED
  BY <1>1, <1>2, Invariance, PTL DEF Spec

(* On every sound volume, with paths and directories of any length and     *)
(* whatever .bss held: load_kernel returns 1 exactly if the kernel is      *)
(* there (and the heap lasts), and then KERNEL_LOAD_START holds that file  *)
(* from its first byte to its last (vfs.c:47-75 over ISO9660FS.c).         *)
THEOREM KernelIsLoaded == Spec => []LoadKernelCorrect
<1>1. OnSoundVolume => LoadKernelCorrect
  BY DEF OnSoundVolume, Right, Ended, LoadKernelCorrect
<1> QED
  BY <1>1, SoundInvariance, PTL

(* And iso9660_list has printed every name of its directory and no other   *)
(* (ISO9660FS.c:463-508).                                                  *)
THEOREM ListIsComplete == Spec => []ListShowsDirectory
<1>1. OnSoundVolume => ListShowsDirectory
  BY DEF OnSoundVolume, Right, Shown, Complete, NamesOf, ListShowsDirectory
<1> QED
  BY <1>1, SoundInvariance, PTL
=============================================================================
