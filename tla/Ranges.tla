------------------------------- MODULE Ranges -------------------------------
(***************************************************************************)
(* An array on the heap and the statements of a function that use it       *)
(* (src/src/state/block.c, src/src/object/object.c, the range functions of *)
(* state.c and location.c, and the loops of src/src/ast/stmt/verify.c and  *)
(* src/src/ast/expr/verify.c).                                             *)
(*                                                                         *)
(* `a' is the function's result and points to heap block 0.  A cell a[k]   *)
(* is looked at by the offset as it is written; a loop over a range is     *)
(* executed as its effect on the block, its bounds having been evaluated.  *)
(* (Its variable is called i: hack_base_object_from_alloc asserts that.)   *)
(***************************************************************************)
EXTENDS Objects

CONSTANTS
    Offsets,        \* the indices of a in single statements
    Bounds,         \* <<lw, up>> of the loops
    MaxHeap,        \* bound on the blocks ever made
    MaxObjects,     \* bound on the objects of a's block
    N               \* the cells a[0] .. a[N-1]

ASSUME RangesAssumption ==
    /\ N \in Nat
    /\ \A k \in Offsets : IsTally(k)
    /\ \A b \in Bounds : IsTally(b[1]) /\ IsTally(b[2])

VARIABLES
    objs,           \* the objects of a's block
    freed,          \* the heap: freed[1] is a's block
    verdict         \* "running", then what the path ends with

vars == <<objs, freed, verdict>>

Array == 0

Init ==
    /\ objs = <<>>
    /\ freed = <<FALSE>>
    /\ verdict = "running"

(* What is in memory after an error or a failed assertion is not used.     *)
Ends(v) == verdict = "running" /\ verdict' = v /\ UNCHANGED <<objs, freed>>

Becomes(new) ==
    /\ verdict = "running"
    /\ Len(new.arr) <= MaxObjects /\ Len(new.freed) <= MaxHeap
    /\ objs' = new.arr /\ freed' = new.freed
    /\ UNCHANGED verdict

ArrayIsFreed == freed[Array + 1]

(* state_deref puts an object at the offset; h is the heap before it.      *)
state_deref(offset, h) == block_observe(objs, offset, h)

ValueAt(b, offset) == b[object_arr_index(b, offset)].value

(* object_assign.  A range free that finds the objects out of order can    *)
(* leave an object in the array twice: it is one object. *)
object_assign(b, index, v) ==
    [i \in DOMAIN b |-> IF b[i] = b[index] THEN [b[i] EXCEPT !.value = v] ELSE b[i]]

(* `a[k] = 0;' and `a[k] = malloc(1);': the value comes first. *)
expr_assign_eval(k, v, h) ==
    IF ArrayIsFreed THEN Ends("error")
    ELSE IF ~block_observe_ok(objs, k, h) THEN Ends("abort")
    ELSE LET new == state_deref(k, h) IN
         Becomes([new EXCEPT !.arr = object_assign(@, object_arr_index(@, k), v)])

assign_number == \E k \in Offsets : expr_assign_eval(k, value_int_create(0), freed)

assign_malloc ==
    \E k \in Offsets :
        expr_assign_eval(k, value_ptr_create(Len(freed)), Append(freed, FALSE))

(* state_dealloc, heap_deallocblock: whether they find a live block. *)
state_dealloc_ok(v, h) == value_islocation(v) /\ ~h[v.loc + 1]

(* `free(a[k]);': binary_deref_eval, then dealloc_process. *)
dealloc_process ==
    \E k \in Offsets :
        IF ArrayIsFreed THEN Ends("error")
        ELSE IF ~block_observe_ok(objs, k, freed) THEN Ends("abort")
        ELSE LET new == state_deref(k, freed)
                 v   == ValueAt(new.arr, k) IN
             IF state_dealloc_ok(v, new.freed)
             THEN Becomes([new EXCEPT !.freed[v.loc + 1] = TRUE])
             ELSE Ends("error")

(* `~ [ @a[k]; ]' and `~ [ !@a[k]; ]': a cell without a pointer fails an   *)
(* assertion, and so does a freed array. *)
expr_isdeallocand_decide ==
    \E k \in Offsets, positive \in BOOLEAN :
        IF ArrayIsFreed \/ ~block_observe_ok(objs, k, freed) THEN Ends("abort")
        ELSE LET new == state_deref(k, freed)
                 v   == ValueAt(new.arr, k) IN
             IF ~value_islocation(v) THEN Ends("abort")
             ELSE IF state_dealloc_ok(v, new.freed) = positive THEN Becomes(new)
             ELSE Ends("error")

(* `free(a);' *)
free_array ==
    IF ArrayIsFreed THEN Ends("error")
    ELSE Becomes([arr |-> objs, freed |-> [freed EXCEPT ![Array + 1] = TRUE]])

-----------------------------------------------------------------------------
(* Loops *)

(* `for (i = lw; i < up; i++) ~ [ a[i] = .malloc(1); ]'.  Bounds that are  *)
(* written alike, and a block that has objects, fail an assertion.         *)
state_range_alloc(lw, up) ==
    IF ArrayIsFreed THEN Ends("error")
    ELSE IF lw = up \/ objs # <<>> THEN Ends("abort")
    ELSE Becomes(block_range_alloc(lw, up, freed))

rangeprocess_alloc == \E b \in Bounds : state_range_alloc(b[1], b[2])

(* `for (i = lw; i < up; i++) ~ [ .free(a[i]); ]'.  The parts outside the *)
(* bounds are appended to the array of the objects that is being read: it  *)
(* may have moved, and reading it is then undefined.                       *)
location_range_dealloc(lw, up) ==
    IF ArrayIsFreed THEN Ends("error")
    ELSE IF ~block_range_aredeallocands(objs, lw, up, freed) THEN Ends("abort")
    ELSE IF ~block_range_dealloc_ok(objs, lw, up, freed) THEN Ends("abort")
    ELSE \/ IF block_range_dealloc_iserror(objs, lw, up, freed) THEN Ends("error")
            ELSE Becomes(block_range_dealloc(objs, lw, up, freed))
         \/ /\ ~hack_first_object_is_exactly_bounds(objs, lw, up, freed)
            /\ Remains(objs, lw, up, freed) # <<>>
            /\ Ends("abort")

rangeprocess_dealloc == \E b \in Bounds : location_range_dealloc(b[1], b[2])

(* The effect of a loop on the memory. *)
iter_absexec == rangeprocess_alloc \/ rangeprocess_dealloc

(* ast_expr_rangedecide takes the operands of a[i], which is a unary       *)
(* expression, and fails an assertion whatever the bounds are.             *)
ast_expr_rangedecide(lw, up) == Ends("abort")

(* The condition of a loop, `i != up', of the initial i. *)
iter_empty(lw, up) == lw = up

(* `~ [ for (i = lw; i != up; i++) @a[i]; ]': nothing to verify if the     *)
(* bounds are equal. *)
stmt_iter_verify ==
    \E b \in Bounds :
        /\ IsNumber(b[1]) /\ IsNumber(b[2])
        /\ ~iter_empty(b[1], b[2])
        /\ ast_expr_rangedecide(b[1], b[2])

-----------------------------------------------------------------------------
(* The blocks that the result refers to: location_references.              *)
Referenced ==
    {Array} \cup IF ArrayIsFreed THEN {} ELSE UNION {Held(objs[i]) : i \in DOMAIN objs}

Live == {a \in 0 .. Len(freed) - 1 : ~freed[a + 1]}

(* heap_referenced: every live block is. *)
state_hasgarbage == \E a \in Live : a \notin Referenced

path_audit == Ends(IF state_hasgarbage THEN "garbage" ELSE "clean")

Next ==
    \/ assign_number \/ assign_malloc \/ dealloc_process \/ expr_isdeallocand_decide
    \/ free_array \/ iter_absexec \/ stmt_iter_verify \/ path_audit

Spec == Init /\ [][Next]_vars

-----------------------------------------------------------------------------
(* What the proofs of some properties assume of the statements' bounds and *)
(* offsets. *)

(* The bounds of a loop that are numbers are not reversed: the code takes  *)
(* reversed ones too.                                                      *)
BoundsInOrder == \A b \in Bounds : IsNumber(b[1]) /\ IsNumber(b[2]) => b[1].num <= b[2].num

(* The cells a[0] .. a[N-1] are all that the statements name by a number.  *)
CellsCovered ==
    /\ \A k \in Offsets : IsNumber(k) => k.num \in 0 .. N - 1
    /\ \A b \in Bounds : /\ IsNumber(b[1]) => 0 <= b[1].num
                         /\ IsNumber(b[2]) => b[2].num <= N

-----------------------------------------------------------------------------
(* Properties *)

(* The types of the variables: every object refers to a block that was     *)
(* made before, never to the array's own.                                  *)
TypeOK ==
    /\ objs \in Seq(UNION {
            [type : {"VALUE"}, offset : {objs[i].offset : i \in DOMAIN objs},
             value : {NoValue, value_int_create(0)} \cup
                     {value_ptr_create(a) : a \in 1 .. Len(freed) - 1}],
            [type : {"DEALLOCAND_RANGE"}, offset : {objs[i].offset : i \in DOMAIN objs},
             size : {object_size(objs[i]) : i \in DOMAIN objs}, loc : 1 .. Len(freed) - 1]})
    /\ freed \in Seq(BOOLEAN) /\ freed # <<>>
    /\ verdict \in {"running", "error", "abort", "clean", "garbage"}

(* The offsets of all objects are numbers. *)
Numeric(b) == \A i \in DOMAIN b : IsNumber(b[i].offset) /\ IsNumber(object_size(b[i]))

(* The objects are in the order of their offsets, none empty and no two on *)
(* a common cell.                                                          *)
LaidOut(b) ==
    /\ Numeric(b)
    /\ \A i \in DOMAIN b : object_size(b[i]).num > 0
    /\ \A i, j \in DOMAIN b : i < j => object_upper(b[i]).num <= b[j].offset.num

(* No two objects refer to the same block, and that of a range is live. *)
Owned(b, heap) ==
    /\ \A i, j \in DOMAIN b : i # j => Held(b[i]) \cap Held(b[j]) = {}
    /\ \A i \in DOMAIN b : ~object_isvalue(b[i]) => ~heap[b[i].loc + 1]

InOrder == LaidOut(objs) /\ Owned(objs, freed)

(* Splitting and freeing ranges keeps one owner for every block, so that   *)
(* none is freed twice for one cell or left to a range that is gone, as    *)
(* long as the statements find the objects in order (block_observe,        *)
(* block_range_dealloc, object_upto, object_from).                         *)
OneOwner == [][InOrder => Owned(objs, freed)']_vars

(* No cell belongs to two objects. *)
Disjoint(b) ==
    \A i, j \in DOMAIN b : i # j =>
        \/ object_upper(b[i]).num <= b[j].offset.num
        \/ object_upper(b[j]).num <= b[i].offset.num

(* No step makes two objects contain the same cell: what is split is not   *)
(* kept, and a cell that an object contains gets no object of its own      *)
(* (block_observe, object_arr_index, object_upto, object_from).  The one   *)
(* exception is a range free that finds the objects out of order: it can   *)
(* put the same object into the array twice.                               *)
NoOverlap ==
    [][Numeric(objs') /\ Disjoint(objs) =>
        \/ Disjoint(objs')
        \/ ~LaidOut(objs) /\ \E i, j \in DOMAIN objs' : i # j /\ objs'[i] = objs'[j]]_vars

(* What a loop has just allocated, a loop with the same bounds can free,   *)
(* and nothing of it is left: whatever the bounds are, so long as the      *)
(* lower one is a number (block_range_alloc, block_range_aredeallocands,   *)
(* block_range_dealloc, math_eq).  With a variable as lower bound it fails:*)
(* the variable does not disappear from lw + (up - lw).                    *)
FreeableAsAllocated ==
    \A b \in Bounds :
        /\ verdict = "running"
        /\ b[1] # b[2] /\ IsNumber(b[1])
        /\ Len(objs) = 1 /\ ~object_isvalue(objs[1]) /\ objs[1].loc \in Live
        /\ objs[1].offset = b[1] /\ objs[1].size = difference(b[2], b[1])
        => /\ block_range_aredeallocands(objs, b[1], b[2], freed)
           /\ block_range_dealloc(objs, b[1], b[2], freed).arr = <<>>

-----------------------------------------------------------------------------
(* The block as an array of cells. *)

(* What a[k] is: what the object that contains it says. *)
CellOf(k) ==
    LET at == {i \in DOMAIN objs :
                  objs[i].offset.num <= k /\ k < objs[i].offset.num + object_size(objs[i]).num}
        held == UNION {Held(objs[i]) : i \in at} IN
    IF ArrayIsFreed \/ at = {} THEN "absent"
    ELSE IF \E i \in at : IsNumberValue(objs[i]) THEN "number"
    ELSE IF held = {} THEN "unset"
    ELSE IF \A a \in held : ~freed[a + 1] THEN "held" ELSE "dangling"

Array_ == INSTANCE Cells WITH
    cell <- [k \in 0 .. N - 1 |-> CellOf(k)],
    lost <- state_hasgarbage

(* A statement that finds the objects laid out in order does to the cells  *)
(* what it says, or is refused; and the audit misses no lost block and     *)
(* reports none that is held.  (Out of order, a range free can be accepted *)
(* and free nothing.)  A loop that frees a part of a range should leave    *)
(* the rests of it as they were, but block_range_dealloc forgets them.     *)
StepsAsCells == Array_!Init /\ [][InOrder /\ Numeric(objs') => Array_!Next]_vars

(* The loop is accepted and frees a part of a range: a rest of the range   *)
(* becomes a range of its own. *)
FreesPart(lw, up) ==
    /\ verdict' = "running"
    /\ location_range_dealloc(lw, up)
    /\ ~hack_first_object_is_exactly_bounds(objs, lw, up, freed)
    /\ \E i \in DOMAIN Remains(objs, lw, up, freed) :
           ~object_isvalue(Remains(objs, lw, up, freed)[i])

FreesSomePart == \E b \in Bounds : FreesPart(b[1], b[2])

(* StepsAsCells of all other steps: of assignments, frees and tests of     *)
(* cells that split a range, of loops that allocate, and of loops that     *)
(* free whatever objects lie between their bounds.                         *)
OtherStepsAsCells ==
    Array_!Init /\ [][InOrder /\ Numeric(objs') => Array_!Next \/ FreesSomePart]_vars

(* The rests that a loop forgets are never passed over: it leaves a live   *)
(* block that nothing refers to, and what nothing refers to stays live and *)
(* is not referred to again by any statement, so that the audit reports it *)
(* (object_upto, object_from, block_range_dealloc, state_hasgarbage).      *)
PartIsReported == [][~state_hasgarbage' => ~state_hasgarbage /\ ~FreesSomePart]_vars

(* A loop `for (i = k; i < k; i++)' does nothing when the function runs:   *)
(* it must free no block (block_range_dealloc has no regard to it).        *)
EmptyLoopFreesNothing ==
    [][\A b \in Bounds : b[1] = b[2] /\ location_range_dealloc(b[1], b[2]) => freed' = freed]_vars

=============================================================================
