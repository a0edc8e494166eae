------------------------------ MODULE Allocator ------------------------------
(***************************************************************************)
(* What the heap of a symbolic state promises: a block is handed out once  *)
(* and freed at most once.  (Block numbers are never used again: that is   *)
(* why a stale pointer is found out, see heap_getblock in                  *)
(* src/src/state/heap.c.)                                                  *)
(***************************************************************************)
CONSTANT Numbers   \* the numbers of blocks

VARIABLES
    allocated,  \* the blocks that have been handed out
    freed       \* those that have been freed

Init == allocated = {} /\ freed = {}

Allocate(b) ==
    /\ b \notin allocated
    /\ allocated' = allocated \cup {b}
    /\ freed' = freed

Free(b) ==
    /\ b \in allocated \ freed
    /\ freed' = freed \cup {b}
    /\ allocated' = allocated

(* `*p = malloc(1)' frees nothing and free(malloc(1)) does both at once. *)
AllocateAndFree(b) ==
    /\ b \notin allocated
    /\ allocated' = allocated \cup {b}
    /\ freed' = freed \cup {b}

Next == \E b \in Numbers : Allocate(b) \/ Free(b) \/ AllocateAndFree(b)

Spec == Init /\ [][Next]_<<allocated, freed>>

=============================================================================
