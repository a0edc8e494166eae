------------------------------ MODULE Objects ------------------------------
(***************************************************************************)
(* The objects of a block (src/src/object/object.c, src/src/state/block.c) *)
(* when some of them are deallocand ranges: one object that stands for a   *)
(* run of cells, each holding a heap block of its own.  Such a range has   *)
(* one virtual heap block for all of them, and is split when a cell in it  *)
(* is looked at.                                                           *)
(*                                                                         *)
(* A block b is the sequence of its objects, freed the heap: address a is  *)
(* freed if freed[a+1].  A NULL object is the empty sequence.              *)
(***************************************************************************)
EXTENDS Tally, SequencesExt

NoValue == [type |-> "NONE"]
value_int_create(n)   == [type |-> "INT", n |-> n]
value_ptr_create(loc) == [type |-> "PTR", loc |-> loc]
value_islocation(v)   == v.type = "PTR"

object_value_create(offset, v) ==
    [type |-> "VALUE", offset |-> offset, value |-> v]

object_range_create(offset, size, loc) ==
    [type |-> "DEALLOCAND_RANGE", offset |-> offset, size |-> size, loc |-> loc]

object_isvalue(obj) == obj.type = "VALUE"

object_size(obj) == IF object_isvalue(obj) THEN constant(1) ELSE obj.size

object_upper(obj) == sum_tally(obj.offset, object_size(obj))

object_contains(obj, of) ==
    math_le(obj.offset, of) /\ math_lt(of, object_upper(obj))

object_contains_upperincl(obj, of) ==
    math_le(obj.offset, of) /\ math_le(of, object_upper(obj))

object_contig_precedes(before, after) ==
    math_eq(object_upper(before), after.offset)

(* The blocks an object refers to. *)
Held(obj) ==
    IF ~object_isvalue(obj) THEN {obj.loc}
    ELSE IF value_islocation(obj.value) THEN {obj.value.loc} ELSE {}

(* An object that is neither a range nor a pointer: value_as_location      *)
(* asserts that it is not met, unless it has no value.                     *)
IsNumberValue(obj) == object_isvalue(obj) /\ obj.value.type = "INT"

(* object_isdeallocand, range_isdeallocand, state_isdeallocand. *)
object_isdeallocand(obj, freed) ==
    Held(obj) # {} /\ \A a \in Held(obj) : ~freed[a + 1]

(* The first object that contains an offset, 0 if there is none. *)
object_arr_index(b, offset) == SelectInSeq(b, LAMBDA obj : object_contains(obj, offset))

object_arr_index_upperincl(b, offset) ==
    SelectInSeq(b, LAMBDA obj : object_contains_upperincl(obj, offset))

-----------------------------------------------------------------------------
(* Splitting an object.  A part that is a range gets the fresh block a.    *)

(* What object_upto asserts. *)
object_upto_ok(obj, excl_up) ==
    /\ math_le(obj.offset, excl_up)
    /\ \/ math_eq(obj.offset, excl_up)
       \/ math_eq(object_upper(obj), excl_up) => object_isvalue(obj)

(* Mutant: the part is as long as the whole. *)
object_upto_long(obj, excl_up, a) ==
    IF math_eq(obj.offset, excl_up) THEN <<>>
    ELSE IF math_eq(object_upper(obj), excl_up) THEN <<obj>>
    ELSE <<object_range_create(obj.offset, obj.size, a)>>

object_upto(obj, excl_up, a) ==
    IF math_eq(obj.offset, excl_up) THEN <<>>
    ELSE IF math_eq(object_upper(obj), excl_up) THEN <<obj>>
    ELSE <<object_range_create(obj.offset, difference(excl_up, obj.offset), a)>>

object_from_ok(obj, incl_lw) ==
    \/ math_ge(incl_lw, object_upper(obj))
    \/ math_eq(incl_lw, obj.offset) => object_isvalue(obj)

(* Mutant: the part keeps the block of the whole. *)
object_from_shared(obj, incl_lw, a) ==
    IF math_ge(incl_lw, object_upper(obj)) THEN <<>>
    ELSE IF math_eq(incl_lw, obj.offset) THEN <<[obj EXCEPT !.offset = incl_lw]>>
    ELSE <<object_range_create(incl_lw, difference(object_upper(obj), incl_lw), obj.loc)>>

object_from(obj, incl_lw, a) ==
    IF math_ge(incl_lw, object_upper(obj)) THEN <<>>
    ELSE IF math_eq(incl_lw, obj.offset) THEN <<[obj EXCEPT !.offset = incl_lw]>>
    ELSE <<object_range_create(incl_lw, difference(object_upper(obj), incl_lw), a)>>

(* Mutant: the heap is not extended. *)
Grown_not(freed, part) == freed

(* One live block more for every part that is a range. *)
Grown(freed, part) ==
    IF part = <<>> \/ object_isvalue(part[1]) THEN freed ELSE Append(freed, FALSE)

(* object_dealloc of the objects from one index to another, one by one: it *)
(* is an error to free a block that is freed, or one of them twice.        *)
object_dealloc_ok(b, from, to, freed) ==
    /\ \A i \in from .. to : object_isdeallocand(b[i], freed)
    /\ \A i, j \in from .. to : i # j => Held(b[i]) \cap Held(b[j]) = {}

object_dealloc(b, from, to, freed) ==
    LET gone == UNION {Held(b[i]) : i \in from .. to} IN
    [a \in 1 .. Len(freed) |-> freed[a] \/ a - 1 \in gone]

-----------------------------------------------------------------------------
(* block.c.  Each result is the objects and the heap afterwards. *)

(* A range is split around the cell that is looked at: the parts before    *)
(* and after are ranges with blocks of their own, the cell a value that    *)
(* points to a block of its own, and the block of the range is freed.      *)
Split(b, index, offset, freed) ==
    LET upto     == object_upto(b[index], offset, Len(freed))
        h1       == Grown(freed, upto)
        observed == object_value_create(offset, value_ptr_create(Len(h1)))
        h2       == Append(h1, FALSE)
        after    == object_from(b[index], sum_tally(offset, constant(1)), Len(h2)) IN
    [arr   |-> SubSeq(b, 1, index - 1) \o upto \o <<observed>> \o after
               \o SubSeq(b, index + 1, Len(b)),
     freed |-> object_dealloc(b, index, index, Grown(h2, after))]

(* With constructive set: an offset that no object contains gets one.      *)
(* Objects are in the order in which they were made.                       *)
block_observe(b, offset, freed) ==
    LET index == object_arr_index(b, offset) IN
    IF index = 0
    THEN [arr |-> Append(b, object_value_create(offset, NoValue)), freed |-> freed]
    ELSE IF object_isvalue(b[index]) THEN [arr |-> b, freed |-> freed]
    ELSE Split(b, index, offset, freed)

(* What is asserted of a range that is split, its deallocation included.   *)
block_observe_ok(b, offset, freed) ==
    LET index == object_arr_index(b, offset) IN
    index = 0 \/ object_isvalue(b[index])
    \/ /\ object_upto_ok(b[index], offset)
       /\ object_from_ok(b[index], sum_tally(offset, constant(1)))
       /\ object_dealloc_ok(b, index, index, freed)

block_range_alloc(lw, up, freed) ==
    [arr   |-> <<object_range_create(lw, difference(up, lw), Len(freed))>>,
     freed |-> Append(freed, FALSE)]

hack_first_object_is_exactly_bounds(b, lw, up, freed) ==
    /\ b # <<>>
    /\ object_isdeallocand(b[1], freed)
    /\ math_eq(lw, b[1].offset)
    /\ math_eq(up, object_upper(b[1]))

(* Mutant: what lies between the objects is not looked at. *)
block_range_aredeallocands_gaps(b, lw, up, freed) ==
    LET lw_index == object_arr_index(b, lw)
        up_index == object_arr_index_upperincl(b, up) IN
    IF b # <<>> /\ IsNumberValue(b[1]) THEN FALSE
    ELSE \/ hack_first_object_is_exactly_bounds(b, lw, up, freed)
         \/ /\ lw_index # 0 /\ up_index # 0
            /\ \A i \in lw_index .. up_index - 1 : object_isdeallocand(b[i], freed)
            /\ object_isdeallocand(b[up_index], freed)

(* A failed assertion inside is not told from the answer no: the caller    *)
(* that is reached, location_range_dealloc, asserts the answer.  The first *)
(* object is looked at as a pointer wherever the range is.                 *)
block_range_aredeallocands(b, lw, up, freed) ==
    LET lw_index == object_arr_index(b, lw)
        up_index == object_arr_index_upperincl(b, up) IN
    IF b # <<>> /\ IsNumberValue(b[1]) THEN FALSE
    ELSE \/ hack_first_object_is_exactly_bounds(b, lw, up, freed)
         \/ /\ lw_index # 0 /\ up_index # 0
            /\ \A i \in lw_index .. up_index - 1 :
                   object_isdeallocand(b[i], freed) /\ object_contig_precedes(b[i], b[i + 1])
            /\ object_isdeallocand(b[up_index], freed)

(* The parts of the first and the last object outside the bounds, and what *)
(* is asserted of them: an upper bound at the start of a range fails.      *)
block_range_dealloc_ok(b, lw, up, freed) ==
    \/ hack_first_object_is_exactly_bounds(b, lw, up, freed)
    \/ /\ object_upto_ok(b[object_arr_index(b, lw)], lw)
       /\ object_from_ok(b[object_arr_index_upperincl(b, up)], up)

Remains(b, lw, up, freed) ==
    object_upto(b[object_arr_index(b, lw)], lw, Len(freed))
    \o object_from(b[object_arr_index_upperincl(b, up)], up, Len(freed))

(* Objects out of order can stand between the bounds twice.                *)
block_range_dealloc_iserror(b, lw, up, freed) ==
    /\ ~hack_first_object_is_exactly_bounds(b, lw, up, freed)
    /\ ~object_dealloc_ok(b, object_arr_index(b, lw),
                          object_arr_index_upperincl(b, up), freed)

(* Mutant: the parts outside the bounds get no blocks of their own.        *)
block_range_dealloc_unallocated(b, lw, up, freed) ==
    LET lw_index == object_arr_index(b, lw)
        up_index == object_arr_index_upperincl(b, up) IN
    IF hack_first_object_is_exactly_bounds(b, lw, up, freed)
    THEN [arr |-> Tail(b), freed |-> object_dealloc(b, 1, 1, freed)]
    ELSE [arr   |-> SubSeq(b, 1, lw_index - 1) \o SubSeq(b, up_index + 1, Len(b)),
          freed |-> object_dealloc(b, lw_index, up_index, freed)]

(* The parts outside the bounds are appended to the old array, and are     *)
(* lost with it; their fresh blocks stay in the heap.                      *)
block_range_dealloc(b, lw, up, freed) ==
    LET lw_index == object_arr_index(b, lw)
        up_index == object_arr_index_upperincl(b, up)
        upto     == object_upto(b[lw_index], lw, Len(freed))
        h1       == Grown(freed, upto)
        from     == object_from(b[up_index], up, Len(h1))
        h2       == Grown(h1, from) IN
    IF hack_first_object_is_exactly_bounds(b, lw, up, freed)
    THEN [arr |-> Tail(b), freed |-> object_dealloc(b, 1, 1, freed)]
    ELSE [arr   |-> SubSeq(b, 1, lw_index - 1) \o SubSeq(b, up_index + 1, Len(b)),
          freed |-> object_dealloc(b, lw_index, up_index, h2)]

=============================================================================
