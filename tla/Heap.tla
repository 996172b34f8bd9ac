-------------------------------- MODULE Heap --------------------------------
(***************************************************************************)
(* stage2_malloc (mem.c:10-24): a bump allocator over one static array.    *)
(* Nothing is ever freed.  Addresses are offsets from the array; unsigned  *)
(* arithmetic wraps at Word (2^32 in the code).  heap_offset = 0 (mem.c:12) *)
(* puts the counter in .bss, which is in no file and which nobody clears:  *)
(* it starts with whatever memory held.  Iso9660FS extends this module:    *)
(* every node the file system opens is one call.                           *)
(***************************************************************************)
EXTENDS Integers

CONSTANTS HeapSize,     \* HEAP_SIZE, 0x10000 in the code
          Word,         \* number of values of an unsigned int
          Starts,       \* what .bss may hold before the first call
          Requests,     \* the sizes callers ask for
          NULL

\* The only size asked for is sizeof(vfs_node_t), far from the wrap-around.
ASSUME HeapAssumption == /\ HeapSize \in Nat /\ HeapSize % 4 = 0
                         /\ Word \in Nat /\ Word % 4 = 0
                         /\ Starts \subseteq 0..(Word - 1)
                         /\ Requests \subseteq Nat
                         /\ \A r \in Requests : HeapSize + r + 3 < Word
                         /\ NULL \notin Int

VARIABLES heap_offset,  \* the static heap_offset
          start,        \* what it held before the first call
          blocks,       \* every block handed out so far
          answer        \* what the last call returned: an offset, or NULL

heapVars == <<heap_offset, start, blocks, answer>>

\* size = (size + 3) & ~3
Aligned(size) == LET s == (size + 3) % Word IN s - (s % 4)

\* Faulty variant: the test forgets the block about to be handed out.
FitsLate(size) == heap_offset % Word <= HeapSize

Fits(size) == (heap_offset + Aligned(size)) % Word <= HeapSize

\* &heap[offset]: addresses wrap, too, so that an offset just below 2^32 is
\* a place in front of the array.
Place(offset) == IF offset > HeapSize THEN offset - Word ELSE offset

HeapInit == /\ start \in Starts
            /\ heap_offset = start
            /\ blocks = {}
            /\ answer = NULL

Allocate(size) ==
  /\ Fits(size)
  /\ heap_offset' = (heap_offset + Aligned(size)) % Word
  /\ blocks' = blocks \cup {[base |-> Place(heap_offset), size |-> size]}
  /\ answer' = Place(heap_offset)
  /\ UNCHANGED start

OutOfMemory(size) ==
  /\ ~Fits(size)
  /\ answer' = NULL
  /\ UNCHANGED <<heap_offset, start, blocks>>

stage2_malloc(size) == Allocate(size) \/ OutOfMemory(size)

HeapNext == \E size \in Requests : stage2_malloc(size)

HeapSpec == HeapInit /\ [][HeapNext]_heapVars

-----------------------------------------------------------------------------

HeapTypeOK == /\ heap_offset \in 0..(Word - 1) /\ start \in Starts
              /\ blocks \subseteq [base : Int, size : Requests]
              /\ answer \in Int \cup {NULL}

Apart(b, c) == b.base + b.size <= c.base \/ c.base + c.size <= b.base

BlocksApart == \A b, c \in blocks : b # c => Apart(b, c)

BlocksInHeap == \A b \in blocks : /\ b.base + b.size <= HeapSize
                                  /\ b.base >= 0 \/ b.base = Place(start)

BlocksAligned == \A b \in blocks : b.base % 4 = start % 4

(* Whatever heap_offset starts with and however many calls are made, no    *)
(* byte belongs to two nodes, none lies behind the end of the array, and   *)
(* only the first node can begin in front of it, when the sum of mem.c:17  *)
(* wraps; rounding sizes keeps the alignment the offset started with       *)
(* (mem.c:15).                                                             *)
NodesIntact == BlocksApart /\ BlocksInHeap /\ BlocksAligned
=============================================================================
