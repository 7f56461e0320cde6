-------------------------------- MODULE Buddy --------------------------------
(***************************************************************************)
(* The allocator of physical memory: the binary buddy tree of              *)
(* include/buddy.h under mm/pmm.c.  Sizes and offsets are in units of the  *)
(* alignment.  A tree of order o has 2^o - 1 positions, numbered from the  *)
(* root 1; the children of i are 2i and 2i + 1.  What a position holds is  *)
(* the number the code keeps in unary in its bitset: 0 for free, the       *)
(* height of the position for fully used, and in between how much of the   *)
(* top of the subtree is not available in one piece.                       *)
(***************************************************************************)
EXTENDS Integers, FiniteSetsExt

CONSTANTS
    ArenaSize,    \* arena_total_len
    Requests      \* the sizes asked for

ASSUME BuddyAssumption == ArenaSize \in Nat \ {0, 1} /\ Requests \subseteq Nat

VARIABLES
    tree,    \* the buddy tree
    grants   \* the blocks handed out: offset, size and the size asked for

buddyVars == <<tree, grants>>

-----------------------------------------------------------------------------
(* Sizes and positions *)

\* highest_bit_position, for a value below 2^31: the number of bits in it.
highest_bit_position(v) == IF v = 0 THEN 0 ELSE
    CHOOSE b \in 1 .. 31 : 2^(b - 1) <= v /\ v - 2^(b - 1) < 2^(b - 1)

\* ceiling_power_of_two.
ceiling_power_of_two(v) ==
    LET w == IF v = 0 THEN 1 ELSE v
    IN  2^(highest_bit_position(w + w - 1) - 1)

\* buddy_tree_order_for_memory, and the size of the arena with the virtual
\* slots that round it up.
Order == highest_bit_position(ceiling_power_of_two(ArenaSize))
Effective == ceiling_power_of_two(ArenaSize)

Positions == 1 .. 2^Order - 1
Depth == [i \in Positions |-> highest_bit_position(i)]
Height(i) == Order - Depth[i] + 1        \* local_offset
Parent(i) == i \div 2
Sibling(i) == IF i % 2 = 0 THEN i + 1 ELSE i - 1
SizeForDepth(d) == Effective \div 2^(d - 1)

\* Variant: the size is rounded down.
DepthForSizeFloor(n) == Order + 1 - highest_bit_position(Max({n, 1}))

\* depth_for_size.
DepthForSize(n) ==
    Order + 1 - highest_bit_position(ceiling_power_of_two(Max({n, 1})))

\* address_for_position, as an offset in the arena.
AddressForPosition(i) == SizeForDepth(Depth[i]) * (i - 2^(Depth[i] - 1))

-----------------------------------------------------------------------------
(* The tree *)

\* What update_parent_chain stores in the parent of two siblings.
UpdateParent(cur, sib) ==
    IF cur = 0 /\ sib = 0 THEN 0 ELSE Min({cur, sib}) + 1

RECURSIVE UpdateParentChain(_, _)

\* update_parent_chain: up to the root, or to the first parent that already
\* holds the right number.
UpdateParentChain(t, i) ==
    IF i = 1 THEN t
    ELSE LET target == UpdateParent(t[i], t[Sibling(i)])
         IN  IF target = t[Parent(i)] THEN t
             ELSE UpdateParentChain([t EXCEPT ![Parent(i)] = target], Parent(i))

\* buddy_tree_mark.
Mark(t, i) == UpdateParentChain([t EXCEPT ![i] = Height(i)], i)

\* buddy_tree_release: a position used in part is refused.
ReleaseSlot(t, i) ==
    IF t[i] # Height(i) THEN t ELSE UpdateParentChain([t EXCEPT ![i] = 0], i)

\* Variant: whether there is room is not looked at.
DescendBusier(t, i, target) ==
    IF t[2 * i] < t[2 * i + 1] THEN 2 * i + 1 ELSE 2 * i

\* One step down of buddy_tree_find_free, looking for a position that is free
\* target levels below: away from a child without room, then to the busier.
Descend(t, i, target) ==
    LET l == 2 * i
        r == 2 * i + 1
    IN  IF t[l] > target THEN r
        ELSE IF t[r] > target THEN l
        ELSE IF t[r] # 0 /\ t[l] < t[r] THEN r
        ELSE l

RECURSIVE FindBelow(_, _, _)

FindBelow(t, i, target) ==
    IF target = 0 THEN i ELSE FindBelow(t, Descend(t, i, target - 1), target - 1)

\* buddy_tree_find_free: 0 is INVALID_POS.
FindFree(t, d) == IF t[1] > d - 1 THEN 0 ELSE FindBelow(t, 1, d - 1)

RECURSIVE FirstUsed(_, _)

\* The first position with a number in it, from i upwards; 0 above the root.
FirstUsed(t, i) ==
    IF i = 0 THEN 0 ELSE IF t[i] # 0 THEN i ELSE FirstUsed(t, Parent(i))

\* position_for_address: 0 is INVALID_POS.
PositionForAddress(t, a) ==
    LET i == FirstUsed(t, 2^(Order - 1) + a)
    IN  IF i # 0 /\ AddressForPosition(i) = a THEN i ELSE 0

RECURSIVE ToggleVirtual(_, _, _)

\* buddy_toggle_virtual_slots, from position i down: the slots beyond the
\* arena are marked as used.
ToggleVirtual(t, i, delta) ==
    LET size == SizeForDepth(Depth[i])
    IN  IF delta = 0 THEN t
        ELSE IF delta = size THEN Mark(t, i)
        ELSE IF delta <= size \div 2 THEN ToggleVirtual(t, 2 * i + 1, delta)
        ELSE ToggleVirtual(Mark(t, 2 * i + 1), 2 * i, delta - size \div 2)

-----------------------------------------------------------------------------
(* Operations *)

Grant(i, n) == [at   |-> AddressForPosition(i),
                size |-> SizeForDepth(Depth[i]),
                asked |-> Max({n, 1})]

At(a) == {g \in grants : g.at = a}

\* buddy_malloc, as palloc and palloc_contig call it.
Malloc(n) ==
    LET i == FindFree(tree, DepthForSize(n))
    IN  /\ n <= ArenaSize
        /\ i # 0
        /\ tree' = Mark(tree, i)
        /\ grants' = grants \cup {Grant(i, n)}

\* buddy_free, of any address in the arena, one that is not allocated too.
FreeAt(a) ==
    LET i == PositionForAddress(tree, a)
    IN  /\ i # 0
        /\ tree' = ReleaseSlot(tree, i)
        /\ grants' = IF tree[i] = Height(i) THEN grants \ At(a) ELSE grants

\* buddy_safe_free: only with a size that fits the position.
SafeFree(a, n) ==
    LET i == PositionForAddress(tree, a)
        size == SizeForDepth(Depth[i])
    IN  /\ i # 0
        /\ Max({n, 1}) <= size /\ Max({n, 1}) > size \div 2
        /\ FreeAt(a)

\* buddy_realloc of a block: released, searched again, and marked where the
\* search ended, or where it was when there is no room.
ReallocBlock(a, n) ==
    LET i == PositionForAddress(tree, a)
        released == ReleaseSlot(tree, i)
        j == FindFree(released, DepthForSize(n))
    IN  /\ n # 0 /\ n <= ArenaSize
        /\ At(a) # {} /\ i # 0
        /\ tree' = Mark(released, IF j = 0 THEN i ELSE j)
        /\ grants' = IF j = 0 THEN grants ELSE (grants \ At(a)) \cup {Grant(j, n)}

RECURSIVE MarkSlots(_, _, _)

\* buddy_toggle_range_reservation: one slot at a time.
MarkSlots(t, a, n) ==
    IF n = 0 THEN t ELSE MarkSlots(Mark(t, 2^(Order - 1) + a), a + 1, n - 1)

\* buddy_reserve_range, of slots that are free ("Calling mark on a used
\* position is a bug in caller").
Reserve(a, n) ==
    /\ n # 0 /\ a + n <= ArenaSize
    /\ \A g \in grants : g.at + g.size <= a \/ a + n <= g.at
    /\ tree' = MarkSlots(tree, a, n)
    /\ grants' = grants \cup {Grant(2^(Order - 1) + b, 1) : b \in a .. a + n - 1}

\* buddy_init.
BuddyInit ==
    /\ tree = ToggleVirtual([i \in Positions |-> 0], 3, Effective - ArenaSize)
    /\ grants = {}

BuddyNext ==
    \/ \E n \in Requests : Malloc(n)
    \/ \E a \in 0 .. ArenaSize - 1 : FreeAt(a)
    \/ \E a \in 0 .. ArenaSize - 1, n \in Requests :
          SafeFree(a, n) \/ ReallocBlock(a, n) \/ Reserve(a, n)

BuddySpec == BuddyInit /\ [][BuddyNext]_buddyVars

-----------------------------------------------------------------------------
(* Properties *)

Overlap(a, n, b, m) == a < b + m /\ b < a + n

\* The blocks handed out lie in the arena, not in the virtual slots, do not
\* overlap, and each is at least as large as what was asked and less than
\* twice that, after any sequence of buddy_malloc, buddy_free, buddy_realloc
\* and reservations.
GrantsApart ==
    /\ \A g \in grants : g.at + g.size <= ArenaSize /\ g.asked <= g.size
                         /\ g.size < 2 * g.asked
    /\ \A g, h \in grants : g # h => ~ Overlap(g.at, g.size, h.at, h.size)

\* Merging and splitting lose nothing: for every size, the search of
\* buddy_malloc ends at a position that no block overlaps, and it fails only
\* when there is no such position at that depth.
SearchIsExact ==
    \A d \in 1 .. Order :
        LET size == SizeForDepth(d)
            open == {i \in 2^(d - 1) .. 2^d - 1 :
                       LET at == size * (i - 2^(d - 1))
                       IN  /\ at + size <= ArenaSize
                           /\ \A g \in grants : ~ Overlap(at, size, g.at, g.size)}
            i == FindFree(tree, d)
        IN  IF i = 0 THEN open = {} ELSE i \in open

=============================================================================
