--------------------------------- MODULE Vm ---------------------------------
(***************************************************************************)
(* Address spaces and the frames they are made of: mm/vmm.c, mm/mappage.c  *)
(* and the system calls that change a user address space.  A space has a   *)
(* root (its PML4), a table frame per region of pages in use (the levels   *)
(* below the PML4 are one level here), and a frame per page.  Frames are   *)
(* alike, so palloc takes the lowest free one; without a free frame it     *)
(* stops the machine, and the behaviour ends.                              *)
(***************************************************************************)
EXTENDS Integers, Sequences, SequencesExt, FiniteSetsExt

CONSTANTS
    Tasks,     \* processes
    NFrames,   \* frames of physical memory
    HeapMax,   \* bound: pages of heap of a process
    MmapMax    \* bound: pages sys_mmap hands out

ASSUME VmAssumption == {NFrames, HeapMax, MmapMax} \subseteq Nat

VARIABLES
    space,     \* process -> its address space, NoSpace for none
    pool,      \* the frames palloc may return
    contents,  \* what the frames hold
    lost,      \* frames nothing refers to and nothing will free
    bump,      \* mmap_bump, the number of pages handed out
    wrote      \* what each process expects in its pages

vmVars == <<space, pool, contents, lost, bump, wrote>>

\* A page is a region and a number in it: segments and heap, what sys_mmap
\* hands out, and the stack, which the page fault handler extends.
HeapPage(i) == <<1, i>>
MmapPage(i) == <<2, i>>
FaultPage == <<2, 0>>
Loaded == <<<<1, 0>>>>

NoSpace == [root |-> 0, tables |-> <<>>, map |-> <<>>, brk |-> 0]
Live == {p \in Tasks : space[p].root # 0}

\* All of memory as a value.
World == [pool |-> pool, contents |-> contents, lost |-> lost]

With(f, x, v) == [y \in DOMAIN f \cup {x} |-> IF y = x THEN v ELSE f[y]]


\* palloc_zero.
PallocZero(w) ==
    [frame |-> Min(w.pool),
     w |-> [w EXCEPT !.pool = @ \ {Min(@)}, !.contents[Min(w.pool)] = 0]]

\* pfree.  The frame is taken to hold something.
Pfree(w, f) == [w EXCEPT !.pool = @ \cup {f}, !.contents[f] = 1]

\* A pair: memory, and the address space that is being changed.
\* map_page, with a new frame: what the page was mapped to before is lost.
MapNew(ws, pg) ==
    LET t == PallocZero(ws.w)
        tables == IF pg[1] \in DOMAIN ws.s.tables THEN ws.s.tables
                  ELSE With(ws.s.tables, pg[1], t.frame)
        w1 == IF pg[1] \in DOMAIN ws.s.tables THEN ws.w ELSE t.w
        n == PallocZero(w1)
        old == IF pg \in DOMAIN ws.s.map THEN {ws.s.map[pg]} ELSE {}
    IN  [w |-> [n.w EXCEPT
                  !.lost = @ \cup old,
                  !.contents = [f \in DOMAIN @ |-> IF f \in old THEN 1 ELSE @[f]]],
         s |-> [ws.s EXCEPT !.tables = tables, !.map = With(@, pg, n.frame)]]

MapAll(ws, pages) == FoldLeft(MapNew, ws, pages)

\* vmm_create_user_pml4.
CreatePml4(w) ==
    LET r == PallocZero(w)
    IN  [w |-> r.w, s |-> [NoSpace EXCEPT !.root = r.frame]]

Sorted(pages) == SetToSortSeq(pages, LAMBDA a, b :
                     a[1] < b[1] \/ (a[1] = b[1] /\ a[2] < b[2]))


\* vmm_clone_pml4: new tables, and a new frame with the same contents for
\* every page.
ClonePml4(w, src) ==
    LET c == MapAll(CreatePml4(w), Sorted(DOMAIN src.map))
    IN  [w |-> [c.w EXCEPT !.contents = [f \in DOMAIN @ |->
                   IF \E pg \in DOMAIN src.map : c.s.map[pg] = f
                     THEN @[src.map[CHOOSE pg \in DOMAIN src.map : c.s.map[pg] = f]]
                     ELSE @[f]]],
         s |-> [c.s EXCEPT !.brk = src.brk]]


\* vmm_free_user_pages: the frames of the pages and the tables, not the root.
FreeUserPages(w, s) ==
    FoldSet(LAMBDA f, v : Pfree(v, f), w, Range(s.map) \cup Range(s.tables))

-----------------------------------------------------------------------------
Enough(n) == Cardinality(pool) >= n

Set(w, p, s) ==
    /\ pool' = w.pool
    /\ contents' = w.contents
    /\ lost' = w.lost
    /\ space' = [space EXCEPT ![p] = s]

Zeros(s) == [pg \in DOMAIN s.map |-> 0]

\* create_process_from_elf: a new space with segments and stack.
VmSpawn(p) ==
    LET ws == MapAll(CreatePml4(World), Loaded)
    IN  /\ p \notin Live /\ Live # {} /\ Enough(3)
        /\ Set(ws.w, p, ws.s)
        /\ wrote' = [wrote EXCEPT ![p] = Zeros(ws.s)]
        /\ UNCHANGED bump

\* A load that fails in elf_load_segments (PT_INTERP), for a new process or
\* in replace_process_with_elf, which puts the old PML4 back: the new one is
\* lost.
LoadFails ==
    LET c == CreatePml4(World)
    IN  /\ Live # {} /\ Enough(1)
        /\ pool' = c.w.pool
        /\ contents' = c.w.contents
        /\ lost' = lost \cup {c.s.root}
        /\ UNCHANGED <<space, bump, wrote>>

\* clone_process.
VmFork(p, c) ==
    LET ws == ClonePml4(World, space[p])
    IN  /\ p \in Live /\ c \notin Live
        /\ Enough(1 + Cardinality(DOMAIN space[p].tables)
                    + Cardinality(DOMAIN space[p].map))
        /\ Set(ws.w, c, ws.s)
        /\ wrote' = [wrote EXCEPT ![c] = wrote[p]]
        /\ UNCHANGED bump

\* replace_process_with_elf: the new space first, then the old one is freed
\* with its root.
VmExec(p) ==
    LET old == space[p]
        ws == MapAll(CreatePml4(World), Loaded)
    IN  /\ p \in Live /\ Enough(3)
        /\ Set(Pfree(FreeUserPages(ws.w, old), old.root), p, ws.s)
        /\ wrote' = [wrote EXCEPT ![p] = Zeros(ws.s)]
        /\ UNCHANGED bump

\* process_destroy, of a process another one reaps: the root is not freed.
VmReap(p) ==
    LET w == FreeUserPages(World, space[p])
    IN  /\ p \in Live /\ Live # {p}
        /\ Set([w EXCEPT !.lost = @ \cup {space[p].root}], p, NoSpace)
        /\ wrote' = [wrote EXCEPT ![p] = <<>>]
        /\ UNCHANGED bump

\* Pages of p mapped to new frames.
Grow(p, pages, brk) ==
    LET ws == MapAll([w |-> World, s |-> space[p]], pages)
    IN  /\ p \in Live /\ Enough(Len(pages) + 1)
        /\ Set(ws.w, p, [ws.s EXCEPT !.brk = brk])
        /\ wrote' = [wrote EXCEPT ![p] = [pg \in DOMAIN ws.s.map |->
              IF pg \in ToSet(pages) THEN 0 ELSE @[pg]]]

\* The pages sys_brk maps when the break moves from old to new.
BrkPages(old, new) == [i \in 1 .. new - old |-> HeapPage(old + i)]

\* sys_brk: pages below the new break are mapped, again if they were mapped
\* before; pages above it stay.
Brk(p, new) ==
    /\ new # space[p].brk
    /\ Grow(p, BrkPages(space[p].brk, new), new)
    /\ UNCHANGED bump

\* sys_mmap with an address, in a page handed out before ...
MmapFixed(p, i) ==
    /\ i <= bump
    /\ Grow(p, <<MmapPage(i)>>, space[p].brk)
    /\ UNCHANGED bump

\* ... or without, at mmap_bump.
Mmap(p) ==
    /\ bump < MmapMax
    /\ bump' = bump + 1
    /\ Grow(p, <<MmapPage(bump + 1)>>, space[p].brk)

\* k_exception_handler, a page fault of ring 3 in the range of the stack.
StackFault(p) ==
    /\ FaultPage \notin DOMAIN space[p].map
    /\ Grow(p, <<FaultPage>>, space[p].brk)
    /\ UNCHANGED bump

\* The process stores to one of its pages.
Store(p, pg) ==
    /\ p \in Live /\ pg \in DOMAIN space[p].map
    /\ contents' = [contents EXCEPT ![space[p].map[pg]] = 1]
    /\ wrote' = [wrote EXCEPT ![p][pg] = 1]
    /\ UNCHANGED <<space, pool, lost, bump>>

\* init is loaded.
VmInit ==
    LET frames == 1 .. NFrames
        first == CHOOSE p \in Tasks : TRUE
        ws == MapAll(CreatePml4([pool |-> frames, contents |-> [f \in frames |-> 0],
                                 lost |-> {}]), Loaded)
    IN  /\ space = [p \in Tasks |-> IF p = first THEN ws.s ELSE NoSpace]
        /\ pool = ws.w.pool
        /\ contents = ws.w.contents
        /\ lost = {}
        /\ bump = 0
        /\ wrote = [p \in Tasks |-> IF p = first THEN Zeros(ws.s) ELSE <<>>]

VmNext ==
    \/ LoadFails
    \/ \E p \in Tasks :
          \/ VmSpawn(p)
          \/ \E c \in Tasks : VmFork(p, c)
          \/ VmExec(p)
          \/ VmReap(p)
          \/ \E n \in 0 .. HeapMax : Brk(p, n)
          \/ \E i \in 1 .. MmapMax : MmapFixed(p, i)
          \/ Mmap(p)
          \/ StackFault(p)
          \/ \E pg \in {HeapPage(0), HeapPage(1)} : Store(p, pg)

VmSpec == VmInit /\ [][VmNext]_vmVars

-----------------------------------------------------------------------------
(* Properties *)

Mapped(p) == Range(space[p].map)
Owned(p) == IF p \in Live THEN Mapped(p) \cup Range(space[p].tables) \cup {space[p].root}
            ELSE {}




=============================================================================
