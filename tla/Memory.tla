------------------------------- MODULE Memory ------------------------------
(***************************************************************************)
(* Memory, for TLC: frames (Buddy), address spaces (Vm), the heap (Heap)   *)
(* and the program loader (Loader).  What one needs of another is in its   *)
(* own module, at the level it needs: a behaviour is one of the part       *)
(* `memory` names.                                                         *)
(***************************************************************************)
EXTENDS Buddy, Vm, Heap, Loader

VARIABLE memory

memoryVars == <<buddyVars, vmVars, heapVars, loaderVars, memory>>

MemoryInit ==
    /\ BuddyInit /\ VmInit /\ HeapInit /\ LoaderInit
    /\ memory \in {"buddy", "vm", "heap", "loader"}

MemoryNext ==
    \/ memory = "buddy" /\ BuddyNext /\ UNCHANGED <<vmVars, heapVars, loaderVars, memory>>
    \/ memory = "vm" /\ VmNext /\ UNCHANGED <<buddyVars, heapVars, loaderVars, memory>>
    \/ memory = "heap" /\ HeapNext /\ UNCHANGED <<buddyVars, vmVars, loaderVars, memory>>
    \/ memory = "loader" /\ LoaderNext /\ UNCHANGED <<buddyVars, vmVars, heapVars, memory>>

MemorySpec == MemoryInit /\ [][MemoryNext]_memoryVars
=============================================================================
