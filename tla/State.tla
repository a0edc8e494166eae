------------------------------- MODULE State -------------------------------
(***************************************************************************)
(* The symbolic memory of the verifier (src/src/state): a heap, a clump of *)
(* dereferencable blocks, the pool of string literals, a stack of frames   *)
(* and the symbolic constants.  The operators are the functions of         *)
(* state.c and of the files below it; they take a state s and return the   *)
(* changed state.                                                          *)
(*                                                                         *)
(* Addresses count from 0 as in the code, so block a of a sequence bs is   *)
(* bs[a+1].  Offsets are constants: a block holds one value per offset.    *)
(* (Deallocand ranges, the other kind of object, are not in this module.)  *)
(***************************************************************************)
EXTENDS Integers, Sequences, FiniteSets

-----------------------------------------------------------------------------
(* Locations and values. *)

Location(type, frame, block) ==
    [type |-> type, frame |-> frame, block |-> block, offset |-> 0]

location_create_static(a)         == Location("STATIC", 0, a)
location_create_dereferencable(a) == Location("DEREFERENCABLE", 0, a)
location_create_dynamic(a)        == Location("DYNAMIC", 0, a)
location_create_automatic(f, a)   == Location("AUTOMATIC", f, a)

(* location_equal does not compare the frames of automatic locations. *)
location_equal(l1, l2) ==
    /\ l1.type = l2.type
    /\ l1.block = l2.block
    /\ l1.offset = l2.offset

NoValue == [type |-> "NONE"]            \* a NULL value pointer

value_ptr_create(loc)   == [type |-> "PTR", loc |-> loc]
value_int_create(n)     == [type |-> "INT", n |-> n]
value_literal_create(s) == [type |-> "LITERAL", s |-> s]
value_sync_create(e)    == [type |-> "SYNC", e |-> e]

value_islocation(v) == v.type = "PTR"

value_issync(v) == v.type = "SYNC"

-----------------------------------------------------------------------------
(* Blocks: sequences of objects, each a value at an offset. *)

object_value_create(offset, v) == [offset |-> offset, value |-> v]

object_arr_index(b, offset) == {i \in 1 .. Len(b) : b[i].offset = offset}

(* A variable's block has an uninitialised object at offset 0. *)
variable_block == <<object_value_create(0, NoValue)>>

(* Mutant: the object is created without a look for it. *)
block_observe_again(b, offset, constructive) ==
    IF constructive THEN Append(b, object_value_create(offset, NoValue)) ELSE b

(* block_observe creates the object if it is missing and may be created. *)
block_observe(b, offset, constructive) ==
    IF object_arr_index(b, offset) = {} /\ constructive
    THEN Append(b, object_value_create(offset, NoValue))
    ELSE b

-----------------------------------------------------------------------------
(* Frames.  Address 0 of a frame holds the result; the id of a frame is    *)
(* its distance from the bottom of the stack.                              *)

program_counter_state_init(block) ==
    IF block.decls # <<>> THEN "DECLS"
    ELSE IF block.stmts # <<>> THEN "STMTS"
    ELSE "ATEND"

stack_create(block, abstract) ==
    [code |-> block, abstract |-> abstract,
     pc |-> program_counter_state_init(block), index |-> 0,
     frame |-> <<variable_block>>, varmap |-> <<>>]

Top(s) == s.stack[Len(s.stack)]

WithTop(s, f) == [s EXCEPT !.stack[Len(s.stack)] = f]

state_pushframe(s, block, abstract) ==
    [s EXCEPT !.stack = Append(s.stack, stack_create(block, abstract))]

state_popframe(s) == [s EXCEPT !.stack = SubSeq(s.stack, 1, Len(s.stack) - 1)]

Declared(f) == {f.varmap[i].name : i \in 1 .. Len(f.varmap)}

(* state_declare: a new block of the top frame.  (The code asserts that    *)
(* the name is new.)                                                       *)
state_declare(s, id, isparam) ==
    LET f == Top(s) IN
    WithTop(s, [f EXCEPT
        !.frame  = Append(f.frame, variable_block),
        !.varmap = Append(f.varmap, [name |-> id, isparam |-> isparam,
                                     address |-> Len(f.frame)])])

(* The location of a variable of the top frame, or of its result. *)
stack_getvariable(s, id) ==
    location_create_automatic(
        Len(s.stack) - 1,
        IF id = "return" THEN 0
        ELSE LET i == CHOOSE i \in 1 .. Len(Top(s).varmap) : Top(s).varmap[i].name = id
             IN Top(s).varmap[i].address)

-----------------------------------------------------------------------------
(* States. *)

state_create(block, abstract) ==
    [vconst |-> <<>>, static |-> <<>>, pool |-> <<>>, clump |-> <<>>,
     heap |-> <<>>, freed |-> <<>>, stack |-> <<stack_create(block, abstract)>>]

(* Mutant: the constants that are not persistent get the number of the     *)
(* persistent ones.                                                        *)
vconst_id_persistent(vconst, persist) ==
    <<IF persist THEN "$" ELSE "#", Cardinality({i \in 1 .. Len(vconst) : vconst[i].persist})>>

(* vconst_id: persistent constants are named $0, $1, ..., the others #0,   *)
(* #1, ...; each counts the ones of its own kind.                          *)
vconst_id(vconst, persist) ==
    LET count_true == Cardinality({i \in 1 .. Len(vconst) : vconst[i].persist}) IN
    IF persist THEN <<"$", count_true>> ELSE <<"#", Len(vconst) - count_true>>

vconst_declare(s, comment, persist) ==
    [s EXCEPT !.vconst = Append(s.vconst,
        [id |-> vconst_id(s.vconst, persist), comment |-> comment, persist |-> persist])]

(* Mutant: the array of flags is not extended. *)
heap_newblock_unflagged(s) == [s EXCEPT !.heap = Append(s.heap, <<>>)]

(* Mutant: the block is not added to the heap. *)
heap_newblock_not(s) == s

(* Mutant: the first freed block is used again. *)
heap_newblock_reuse(s) ==
    IF \A a \in 1 .. Len(s.heap) : ~s.freed[a]
    THEN [s EXCEPT !.heap = Append(s.heap, <<>>), !.freed = Append(s.freed, FALSE)]
    ELSE LET a == CHOOSE a \in 1 .. Len(s.heap) : s.freed[a]
         IN [s EXCEPT !.heap[a] = <<>>, !.freed[a] = FALSE]

heap_newblock(s) ==
    [s EXCEPT !.heap = Append(s.heap, <<>>), !.freed = Append(s.freed, FALSE)]

clump_newblock(s) == [s EXCEPT !.clump = Append(s.clump, <<>>)]

(* The literals in the pool: static address i-1 holds pool[i]. *)
static_memory_checkpool(s, lit) == {i \in 1 .. Len(s.pool) : s.pool[i] = lit}

(* Mutant: the pool is not searched. *)
state_static_init_again(s, lit) ==
    [s EXCEPT
        !.static = Append(s.static, <<object_value_create(0, value_literal_create(lit))>>),
        !.pool   = Append(s.pool, lit)]

state_static_init(s, lit) ==
    IF static_memory_checkpool(s, lit) # {} THEN s
    ELSE [s EXCEPT
            !.static = Append(s.static, <<object_value_create(0, value_literal_create(lit))>>),
            !.pool   = Append(s.pool, lit)]

static_location(s, lit) ==
    location_create_static((CHOOSE i \in static_memory_checkpool(s, lit) : TRUE) - 1)

-----------------------------------------------------------------------------
(* Reaching a block through a location. *)

Arena(s, loc) ==
    CASE loc.type = "STATIC"         -> s.static
      [] loc.type = "DYNAMIC"        -> s.heap
      [] loc.type = "DEREFERENCABLE" -> s.clump
      [] loc.type = "AUTOMATIC"      -> s.stack[loc.frame+1].frame

(* Mutant: heap_getblock does not look whether the block is freed. *)
location_getblock_freed(s, loc) ==
    IF loc.type = "AUTOMATIC" /\ loc.frame >= Len(s.stack) THEN "error"
    ELSE IF loc.block < Len(Arena(s, loc)) THEN "ok"
    ELSE IF loc.type = "AUTOMATIC" THEN "abort" ELSE "none"

(* location_getblock: "ok", "none" (a NULL block), "error" (the frame does *)
(* not exist) or "abort" (stack_getblock asserts that the block exists).   *)
location_getblock(s, loc) ==
    IF loc.type = "AUTOMATIC" /\ loc.frame >= Len(s.stack) THEN "error"
    ELSE IF loc.block < Len(Arena(s, loc))
         THEN IF loc.type = "DYNAMIC" /\ s.freed[loc.block+1] THEN "none" ELSE "ok"
         ELSE IF loc.type = "AUTOMATIC" THEN "abort" ELSE "none"

Block(s, loc) == Arena(s, loc)[loc.block+1]

WithBlock(s, loc, b) ==
    LET a == loc.block + 1 IN
    CASE loc.type = "STATIC"         -> [s EXCEPT !.static[a] = b]
      [] loc.type = "DYNAMIC"        -> [s EXCEPT !.heap[a] = b]
      [] loc.type = "DEREFERENCABLE" -> [s EXCEPT !.clump[a] = b]
      [] loc.type = "AUTOMATIC"      -> [s EXCEPT !.stack[loc.frame+1].frame[a] = b]

(* state_get with constructive set, where the block exists: the object is  *)
(* put there.                                                              *)
state_get(s, loc) == WithBlock(s, loc, block_observe(Block(s, loc), loc.offset, TRUE))

HasObject(s, loc) ==
    /\ location_getblock(s, loc) = "ok"
    /\ object_arr_index(Block(s, loc), loc.offset) # {}

(* object_as_value and object_assign of the object at a location. *)
object_as_value(s, loc) ==
    LET b == Block(s, loc) IN
    b[CHOOSE i \in object_arr_index(b, loc.offset) : TRUE].value

object_assign(s, loc, v) ==
    LET b == Block(s, loc)
        i == CHOOSE j \in object_arr_index(b, loc.offset) : TRUE IN
    WithBlock(s, loc, [b EXCEPT ![i].value = v])

(* state_dealloc: only a live heap block can be freed; a second free of it *)
(* is an error.                                                            *)
state_dealloc_ok(s, v) ==
    /\ value_islocation(v)
    /\ v.loc.type = "DYNAMIC"
    /\ ~s.freed[v.loc.block+1]

state_dealloc(s, v) == [s EXCEPT !.freed[v.loc.block+1] = TRUE]

-----------------------------------------------------------------------------
(* location_tostack looks into the top frame whatever the location's type  *)
(* and frame, and stack_getblock asserts that this frame has such a block. *)
location_tostack_aborts(s, loc) == loc.block >= Len(Top(s).frame)

(* state_islval and state_isalloc, after the object was put there.  A      *)
(* dangling automatic location fails an assertion.                         *)
state_islval(s, loc) ==
    LET got == location_getblock(s, loc) IN
    IF got \in {"error", "abort"} THEN "abort"
    ELSE IF got = "ok" /\ loc.type \in {"STATIC", "DYNAMIC"} THEN "yes"
    ELSE IF location_tostack_aborts(s, loc) THEN "abort"
    ELSE IF got = "ok" THEN "yes" ELSE "no"

state_isalloc(s, loc) == loc.type = "DYNAMIC" /\ location_getblock(s, loc) = "ok"

=============================================================================
