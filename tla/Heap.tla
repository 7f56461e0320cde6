-------------------------------- MODULE Heap --------------------------------
(***************************************************************************)
(* The kernel heap of mm/slab.c and the files in memory that grow on it    *)
(* (mem_vfs_write in lib/libc/fs/vfs.c).  Memory is counted in cells: a    *)
(* page has SlabCells of them, the first is where a slab keeps its header. *)
(* A block above the largest bucket takes whole pages and has no header:   *)
(* what kfree and krealloc take for slot_size there is its first cell.     *)
(* Running out of frames stops the machine (palloc), so the heap ends the  *)
(* behaviour there.                                                        *)
(***************************************************************************)
EXTENDS Integers, Sequences, SequencesExt, FiniteSetsExt

CONSTANTS
    SlabCells,  \* PAGE_SIZE
    Buckets,    \* bucket_sizes
    MaxPages,   \* bound: pages of the heap
    Sizes,      \* bound: the sizes kmalloc is called with, in cells
    Files,      \* the files in memory
    MaxFile,    \* bound: the largest file, in cells
    Data        \* what a cell may hold; 0 stands for zero bytes

ASSUME HeapAssumption ==
    /\ {SlabCells, MaxPages, MaxFile} \subseteq Nat /\ Sizes \subseteq Nat \ {0}
    /\ Buckets \subseteq 1 .. SlabCells - 1
    /\ 0 \in Data /\ Data \subseteq Nat

VARIABLES
    slabs,   \* page -> its header, for the pages that are slabs
    bucket,  \* size -> the head of its list of slabs, 0 for NULL
    top,     \* heap_virtual_top, as the number of the next page
    mem,     \* what the cells hold
    blocks,  \* the blocks clients hold: address -> size
    node     \* file -> its data pointer, what was written to it, and
             \* whether it grew when its block had no header

heapVars == <<slabs, bucket, top, mem, blocks, node>>

Page(a) == a \div SlabCells
Cells(a, n) == a .. a + n - 1

\* get_bucket_idx: the size of the bucket, 0 when there is none.
BucketFor(n) == Min({b \in Buckets : n <= b} \cup
                    (IF \E b \in Buckets : n <= b THEN {} ELSE {0}))

\* Variant: the first slot is where the header is.
SlabSlotsNoHeader(p, size) ==
    [i \in 1 .. SlabCells \div size |-> p * SlabCells + (i - 1) * size]

\* The slots of a new slab, in the order of its free list.
SlabSlots(p, size) ==
    [i \in 1 .. (SlabCells - 1) \div size |-> p * SlabCells + 1 + (i - 1) * size]

\* The heap as a value, so that krealloc can be written as a sequence of calls.
Heap == [slabs |-> slabs, bucket |-> bucket, top |-> top, mem |-> mem]

\* heap_extend: fresh pages hold zeros.
Extend(h, n) == [h EXCEPT !.top = @ + n]

NewSlab(h, size) ==
    LET p == h.top
        e == Extend(h, 1)
        new == [size |-> size, free |-> SlabSlots(p, size),
                slots_free |-> Len(SlabSlots(p, size))]
    IN  [e EXCEPT !.slabs = [q \in DOMAIN @ \cup {p} |-> IF q = p THEN new ELSE @[q]],
                  !.bucket[size] = p]

\* kmalloc, up to the free list: only the first slab of the list is looked at.
WithSlot(h, size) ==
    IF h.bucket[size] = 0 \/ h.slabs[h.bucket[size]].slots_free = 0
      THEN NewSlab(h, size) ELSE h

Take(h, size) ==
    LET p == h.bucket[size]
    IN  [heap |-> [h EXCEPT !.slabs[p].free = Tail(@), !.slabs[p].slots_free = @ - 1],
         ptr  |-> Head(h.slabs[p].free)]

\* kmalloc.
Kmalloc(h, n) ==
    LET size == BucketFor(n)
    IN  IF size = 0
          THEN [heap |-> Extend(h, (n + SlabCells - 1) \div SlabCells),
                ptr  |-> h.top * SlabCells]
          ELSE Take(WithSlot(h, size), size)

\* What is read as slot_size in the page of an address.
SlotSize(h, a) ==
    IF Page(a) \in DOMAIN h.slabs THEN h.slabs[Page(a)].size
    ELSE h.mem[Page(a) * SlabCells]

\* The same value in n cells.
Fill(h, a, n, v) ==
    [h EXCEPT !.mem = [c \in DOMAIN @ |-> IF c \in Cells(a, n) THEN v ELSE @[c]]]

\* kfree.  What a free slot holds does not matter and is zero here.  In a
\* block without header kfree changes the first cell, or does nothing.
Kfree(h, a) ==
    IF SlotSize(h, a) = 0 THEN h
    ELSE IF Page(a) \in DOMAIN h.slabs
      THEN [Fill(h, a, SlotSize(h, a), 0) EXCEPT
               !.slabs[Page(a)].free = <<a>> \o @,
               !.slabs[Page(a)].slots_free = @ + 1]
    ELSE Fill(h, a, 1, 0)

\* get_allocation_size.
AllocationSize(h, a) ==
    IF SlotSize(h, a) \in 1 .. Max(Buckets) THEN SlotSize(h, a) ELSE SlabCells

\* memcpy of n cells.
Copy(h, to, from, n) ==
    [h EXCEPT !.mem = [c \in DOMAIN @ |->
        IF c \in Cells(to, n) THEN @[c - to + from] ELSE @[c]]]

\* Variant: the old block is freed before it is copied.
KreallocFreesFirst(h, a, n) ==
    LET k == Kmalloc(IF a = 0 THEN h ELSE Kfree(h, a), n)
    IN  IF a = 0 THEN k
        ELSE [heap |-> Copy(k.heap, k.ptr, a, Min({AllocationSize(h, a), n})),
              ptr  |-> k.ptr]

\* krealloc, of NULL too.
Krealloc(h, a, n) ==
    LET k == Kmalloc(h, n)
        copied == Copy(k.heap, k.ptr, a, Min({AllocationSize(k.heap, a), n}))
    IN  IF a = 0 THEN k ELSE [heap |-> Kfree(copied, a), ptr |-> k.ptr]

-----------------------------------------------------------------------------
Become(h) ==
    /\ slabs' = h.slabs
    /\ bucket' = h.bucket
    /\ top' = h.top
    /\ mem' = h.mem

\* Somewhere in the kernel a block is allocated and written, which matters
\* where it has no header ...
Alloc(n, v) ==
    LET k == Kmalloc(Heap, n)
    IN  /\ k.heap.top <= MaxPages + 1
        /\ Become(Fill(k.heap, k.ptr, 1, IF BucketFor(n) = 0 THEN v ELSE 0))
        /\ blocks' = [a \in DOMAIN blocks \cup {k.ptr} |->
                        IF a = k.ptr THEN n ELSE blocks[a]]
        /\ UNCHANGED node

\* ... and freed.
Free(a) ==
    /\ Become(Kfree(Heap, a))
    /\ blocks' = [b \in DOMAIN blocks \ {a} |-> blocks[b]]
    /\ UNCHANGED node

\* mem_vfs_write of n cells at an offset inside the file or at its end.
MemVfsWrite(f, offset, n, v) ==
    LET required == offset + n
        size == Len(node[f].written)
        grows == required > size
        k == Krealloc(Heap, node[f].data, required)
        h == IF grows THEN k.heap ELSE Heap
        data == IF grows THEN k.ptr ELSE node[f].data
    IN  /\ required <= MaxFile
        /\ h.top <= MaxPages + 1
        /\ Become(Fill(h, data + offset, n, v))
        /\ node' = [node EXCEPT ![f] = [data |-> data,
              moved |-> @.moved \/ (grows /\ size > Max(Buckets)),
              written |-> [i \in 1 .. Max({size, required}) |->
                  IF i > offset /\ i <= required THEN v ELSE @.written[i]]]]
        /\ UNCHANGED blocks

\* init_slab, and files without contents.
HeapInit ==
    /\ slabs = <<>>
    /\ bucket = [b \in Buckets |-> 0]
    /\ top = 1
    /\ mem = [c \in SlabCells .. (MaxPages + 1) * SlabCells - 1 |-> 0]
    /\ blocks = <<>>
    /\ node = [f \in Files |-> [data |-> 0, moved |-> FALSE, written |-> <<>>]]

HeapNext ==
    \/ \E n \in Sizes, v \in Data : Alloc(n, v)
    \/ \E a \in DOMAIN blocks : Free(a)
    \/ \E f \in Files, n \in 1 .. MaxFile, v \in Data :
          \E offset \in 0 .. Len(node[f].written) : MemVfsWrite(f, offset, n, v)

HeapSpec == HeapInit /\ [][HeapNext]_heapVars

-----------------------------------------------------------------------------
(* Properties *)

\* The blocks in use: address -> size.
InUse ==
    {[at |-> a, size |-> blocks[a]] : a \in DOMAIN blocks} \cup
    {[at |-> node[f].data, size |-> Len(node[f].written)] :
        f \in {g \in Files : node[g].data # 0}}

\* Two blocks in use never share a cell, and none covers the header of a slab,
\* whatever was freed, reused and grown before.
BlocksDisjoint ==
    /\ \A b, c \in InUse :
          b # c => Cells(b.at, b.size) \cap Cells(c.at, c.size) = {}
    /\ Cardinality(InUse) =
          Cardinality(DOMAIN blocks) + Cardinality({f \in Files : node[f].data # 0})
    /\ \A b \in InUse : \A p \in DOMAIN slabs : p * SlabCells \notin Cells(b.at, b.size)

\* A file in memory reads back what was last written to it, however often its
\* buffer moved and whatever else was allocated and freed, as long as it never
\* grew out of a block above the largest bucket.  Such a block has no header:
\* krealloc copies as many cells as the first cell of the file says, or a page.
FilesKeepContents ==
    \A f \in Files : ~node[f].moved =>
        \A i \in 1 .. Len(node[f].written) :
            mem[node[f].data + i - 1] = node[f].written[i]
=============================================================================
