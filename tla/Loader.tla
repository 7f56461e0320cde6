------------------------------- MODULE Loader -------------------------------
(***************************************************************************)
(* How create_process_from_elf of lib/libc/elf/load.c fills a new address  *)
(* space: segments, thread-local storage, user stack, and on it the        *)
(* arguments.  User and physical memory are counted in cells of 8 bytes.   *)
(* A page has PageCells of them.  palloc hands out frames in ascending     *)
(* order here, and the frames of page tables are left out; nothing is      *)
(* freed while a program is loaded.                                        *)
(***************************************************************************)
EXTENDS Integers, Sequences, SequencesExt, FiniteSetsExt

CONSTANTS
    PageCells,    \* PAGE_SIZE / 8
    STACK_PAGES,
    SegStarts,    \* where a segment may start (p_vaddr), in cells
    SegSizes,     \* p_filesz and p_memsz of a segment, in cells
    MaxStrings,   \* bound: the number of arguments, and of environment strings
    StringCells   \* bound: the cells a string may take

VARIABLES
    stage,   \* what comes next
    prog,    \* the program: segments, TLS and strings
    pt,      \* user page -> its frame
    next,    \* the next frame palloc returns
    phys,    \* what the cells of physical memory hold
    loaded   \* load_base .. max_vaddr, brk_start, TCB, strings, stack pointer

loaderVars == <<stage, prog, pt, next, phys, loaded>>

\* Where the regions of an address space start, in pages.
TlsPage == 8
StackPage == 16

\* What a cell holds: a tag and two numbers.
Zero == <<0, 0, 0>>
Word(v) == <<1, v, 0>>
Text(tag, i, k) == <<tag, i, k>>      \* cell k of item i
FileTag == 2
TlsTag == 3
ArgTag == 4
EnvTag == 5

Image(tag, i, n) == [k \in 1 .. n |-> Text(tag, i, k)]

Up(u) == ((u + PageCells - 1) \div PageCells) * PageCells   \* PAGE_ALIGN_UP
PagesOf(start, end) == start \div PageCells .. Up(end) \div PageCells - 1

\* vmm_virt_to_phys, with the offset in the page; 0 when nothing is mapped.
VirtToPhys(map, u) ==
    IF u \div PageCells \in DOMAIN map
      THEN map[u \div PageCells] * PageCells + (u % PageCells)
      ELSE 0

\* A space while it is being filled: page table, next frame and memory.
Space == [pt |-> pt, next |-> next, phys |-> phys]

\* Pages mapped one by one to frames of zeros (palloc_zero, map_page).
MapPages(s, pages) ==
    LET order == SetToSortSeq(pages, <)
    IN  [s EXCEPT
           !.pt = [p \in DOMAIN @ \cup pages |->
                     IF p \in pages
                       THEN s.next - 1 + CHOOSE i \in DOMAIN order : order[i] = p
                       ELSE @[p]],
           !.next = @ + Cardinality(pages),
           !.phys = [c \in DOMAIN @ |->
                       IF c \div PageCells \in s.next .. s.next + Cardinality(pages) - 1
                         THEN Zero ELSE @[c]]]

\* map_user_range: pages that are mapped already are kept.
MapUserRange(s, start, end) == MapPages(s, PagesOf(start, end) \ DOMAIN s.pt)

RECURSIVE CopyToUser(_, _, _)

\* hhdm_copy_to_user, page by page.  The offset in the page is added to an
\* address that has it already.
CopyToUser(s, u, cells) ==
    LET off == u % PageCells
        chunk == Min({PageCells - off, Len(cells)})
        at == VirtToPhys(s.pt, u) + off
        wrote == [s EXCEPT !.phys = [c \in DOMAIN @ |->
                    IF c \in at .. at + chunk - 1 THEN cells[c - at + 1] ELSE @[c]]]
    IN  IF cells = <<>> THEN s
        ELSE CopyToUser(wrote, u + chunk, SubSeq(cells, chunk + 1, Len(cells)))

\* hhdm_write64.
Write64(s, u, v) == [s EXCEPT !.phys[VirtToPhys(s.pt, u)] = Word(v)]

\* What the program reads at a user address.
ReadUser(u) == phys[VirtToPhys(pt, u)]

-----------------------------------------------------------------------------
Filled(s) == pt' = s.pt /\ next' = s.next /\ phys' = s.phys

\* create_process_from_elf is called, with a program and its strings.
Begin(segs, tls, args, envs) ==
    /\ stage = "idle"
    /\ prog' = [segs |-> segs, tls |-> tls, argv |-> args, envp |-> envs]
    /\ stage' = "segments"
    /\ UNCHANGED <<pt, next, phys, loaded>>

\* elf_load_segments, one PT_LOAD: its pages, its data, the highest address.
LoadSegment ==
    LET i == loaded.segs + 1
        seg == prog.segs[i]
        mapped == MapUserRange(Space, seg.vaddr, seg.vaddr + seg.memsz)
    IN  /\ stage = "segments" /\ i <= Len(prog.segs)
        /\ Filled(CopyToUser(mapped, seg.vaddr, Image(FileTag, i, seg.filesz)))
        /\ loaded' = [loaded EXCEPT
              !.segs = i,
              !.brk_start = Max({@, Up(seg.vaddr + seg.memsz)})]
        /\ UNCHANGED <<stage, prog>>

\* elf_setup_tls: the block, and after it the TCB with its own address.
SetupTls ==
    LET base == TlsPage * PageCells
        tcb == base + prog.tls.memsz
        mapped == MapPages(Space, PagesOf(base, base + prog.tls.memsz + 2))
        copied == CopyToUser(mapped, base, Image(TlsTag, 1, prog.tls.filesz))
    IN  /\ stage = "segments" /\ loaded.segs = Len(prog.segs)
        /\ stage' = "stack"
        /\ IF prog.tls.memsz = 0
             THEN UNCHANGED <<pt, next, phys, loaded>>
             ELSE /\ Filled(Write64(Write64(copied, tcb, tcb), tcb + 1, 0))
                  /\ loaded' = [loaded EXCEPT !.tls_base = tcb]
        /\ UNCHANGED prog

\* alloc_user_stack.
AllocUserStack ==
    /\ stage = "stack"
    /\ Filled(MapPages(Space, StackPage .. StackPage + STACK_PAGES - 1))
    /\ loaded' = [loaded EXCEPT !.sp = (StackPage + STACK_PAGES) * PageCells]
    /\ stage' = "strings"
    /\ UNCHANGED prog

\* elf_build_stack, one string: environment from the last to the first, then
\* the arguments from the last to the first.
PushString ==
    LET env == Len(loaded.uenvp) < Len(prog.envp)
        i == IF env THEN Len(prog.envp) - Len(loaded.uenvp)
             ELSE Len(prog.argv) - Len(loaded.uargv)
        len == IF env THEN prog.envp[i] ELSE prog.argv[i]
        sp == loaded.sp - len
    IN  /\ stage = "strings" /\ i > 0
        /\ Filled(CopyToUser(Space, sp, Image(IF env THEN EnvTag ELSE ArgTag, i, len)))
        /\ loaded' = IF env THEN [loaded EXCEPT !.sp = sp, !.uenvp = <<sp>> \o @]
                     ELSE [loaded EXCEPT !.sp = sp, !.uargv = <<sp>> \o @]
        /\ UNCHANGED <<stage, prog>>

RECURSIVE Push(_, _, _)

\* Words pushed one after the other.
Push(s, sp, words) ==
    IF words = <<>> THEN s
    ELSE Push(Write64(s, sp - 1, Head(words)), sp - 1, Tail(words))

\* The auxiliary vector, AT_NULL first; 17 entries, or 18 with AT_EXECFN.
Auxv(execfn) == [i \in 1 .. 2 * (IF execfn THEN 18 ELSE 17) |-> IF i <= 2 THEN 0 ELSE i]

\* Variant: argv[0] is pushed first.
VectorsForward(uenvp, uargv) ==
    <<0>> \o Reverse(uenvp) \o <<0>> \o uargv \o <<Len(uargv)>>

\* The pointers and argc, in the order they are pushed.
Vectors(uenvp, uargv) ==
    <<0>> \o Reverse(uenvp) \o <<0>> \o Reverse(uargv) \o <<Len(uargv)>>


\* The stack pointer before the auxiliary vector: a pad if the number of
\* slots is odd, then aligned to 16 bytes.
Align(sp, slots) == 2 * ((sp - (slots % 2)) \div 2)

\* elf_build_stack after the strings: execfn, platform, random bytes,
\* alignment, auxiliary vector, pointers, argc.
PushVectors ==
    LET argc == Len(prog.argv)
        envc == Len(prog.envp)
        execfn == argc > 0
        fn == loaded.sp - (IF execfn THEN prog.argv[1] ELSE 0)
        named == CopyToUser(Space, fn, IF execfn THEN Image(ArgTag, 1, prog.argv[1]) ELSE <<>>)
        platform == CopyToUser(named, fn - 1, Image(FileTag, 0, 1))
        random == Push(platform, fn - 1, <<1, 1>>)
        words == Auxv(execfn) \o Vectors(loaded.uenvp, loaded.uargv)
        sp == Align(fn - 3, 14 + (envc + 1) + (argc + 1) + 1)
    IN  /\ stage = "strings"
        /\ Len(loaded.uenvp) = envc /\ Len(loaded.uargv) = argc
        /\ Filled(Push(random, sp, words))
        /\ loaded' = [loaded EXCEPT !.sp = sp - Len(words)]
        /\ stage' = "loaded"
        /\ UNCHANGED prog

LoaderInit ==
    /\ stage = "idle"
    /\ prog = [segs |-> <<>>, tls |-> [filesz |-> 0, memsz |-> 0],
               argv |-> <<>>, envp |-> <<>>]
    /\ pt = <<>>
    /\ next = 1
    /\ phys = [c \in 0 .. 16 * PageCells - 1 |-> Zero]
    /\ loaded = [segs |-> 0, brk_start |-> 0, tls_base |-> 0, sp |-> 0,
                 uenvp |-> <<>>, uargv |-> <<>>]

\* One PT_LOAD or two that do not overlap.
Programs ==
    LET Segs == {[vaddr |-> v, filesz |-> f, memsz |-> m] :
                    v \in SegStarts, f \in SegSizes, m \in SegSizes \ {0}}
        sound == {s \in Segs : s.filesz <= s.memsz}
    IN  {<<s>> : s \in sound} \cup
        {<<s, t>> : <<s, t>> \in {q \in sound \X sound :
                                    q[1].vaddr + q[1].memsz <= q[2].vaddr}}

Strings == UNION {[1 .. n -> StringCells] : n \in 0 .. MaxStrings}

LoaderNext ==
    \/ \E segs \in Programs, args, envs \in Strings, n \in {0, 1} :
          Begin(segs, [filesz |-> n, memsz |-> 2 * n], args, envs)
    \/ LoadSegment
    \/ SetupTls
    \/ AllocUserStack
    \/ PushString
    \/ PushVectors

LoaderSpec == LoaderInit /\ [][LoaderNext]_loaderVars

-----------------------------------------------------------------------------
(* Properties *)

\* The program finds argc, the argument pointers, NULL, the environment
\* pointers, NULL at its stack pointer, and its own address in the TCB, in
\* spite of what was copied to the stack before.
VectorsReadable ==
    stage = "loaded" =>
        LET argc == Len(prog.argv)
            envc == Len(prog.envp)
            At(k) == ReadUser(loaded.sp + k)
        IN  /\ At(0) = Word(argc)
            /\ \A i \in 1 .. argc : At(i) = Word(loaded.uargv[i])
            /\ At(argc + 1) = Word(0)
            /\ \A i \in 1 .. envc : At(argc + 1 + i) = Word(loaded.uenvp[i])
            /\ At(argc + envc + 2) = Word(0)
            /\ loaded.tls_base # 0 => ReadUser(loaded.tls_base) = Word(loaded.tls_base)


\* "Build stack (strings + auxv + pointers + argc)": the program reads its
\* arguments where its argument pointers point.
ArgumentsReadable ==
    stage = "loaded" =>
        \A i \in DOMAIN prog.argv : \A k \in 1 .. prog.argv[i] :
            ReadUser(loaded.uargv[i] + k - 1) = Text(ArgTag, i, k)
=============================================================================
