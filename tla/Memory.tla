------------------------------- MODULE Memory -------------------------------
(***************************************************************************)
(* The symbolic memory as a state machine: the operations of module State  *)
(* in any order in which statements of one function and of the functions   *)
(* it calls may ask for them, and nothing of what the statements are.      *)
(* Exec is one way to drive these operations; what holds of this module    *)
(* holds of the memory of every program.                                   *)
(*                                                                         *)
(* A statement evaluates an expression (Evaluated: the new state and the   *)
(* value), then finds the object it assigns to (Lvalues: the new state,    *)
(* since reading creates objects, and the location), then assigns.         *)
(***************************************************************************)
EXTENDS State

CONSTANTS
    Names,          \* variables
    Literals,       \* strings
    Offsets,        \* subscripts, 0 for `*'
    MaxNew,         \* bound: blocks, literals and symbolic constants, all together
    MaxDepth        \* bound: frames

ASSUME NamesAssumption == "return" \notin Names

ASSUME OffsetsAssumption == 0 \in Offsets /\ Offsets \subseteq Nat

ASSUME BoundAssumption == MaxNew \in Nat

VARIABLE s          \* the symbolic state

(* The frames here have no code of their own. *)
NoCode == [decls |-> <<>>, stmts |-> <<>>]

(* Nor do their constants say what they stand for. *)
NoComment == "none"

Init == s = state_create(NoCode, FALSE)

-----------------------------------------------------------------------------
(* What expressions do to the memory. *)

Variable(x, id) == [s |-> x, loc |-> stack_getvariable(x, id)]

(* ast_expr_lvalue of an identifier. *)
Variables(x) == {Variable(x, id) : id \in Declared(Top(x))}

(* The pointers that objects hold. *)
Held(x, ls) == {v.loc : v \in {v \in {object_as_value(x, l) : l \in ls} : value_islocation(v)}}

(* The pointers of a variable x and of *x.  (A third star is one more      *)
(* statement, which puts **x into a variable.)                             *)
Pointers(x) ==
    LET held == Held(x, {l.loc : l \in Variables(x)})
    IN held \cup Held(x, {l \in held : HasObject(x, l)})

(* ast_expr_lvalue of *p and p[i]: state_deref finds the block and puts an *)
(* object there.                                                           *)
Dereferenced(x) ==
    {[s |-> state_get(x, l), loc |-> l] :
        l \in {l \in {[p EXCEPT !.offset = i] : p \in Pointers(x), i \in Offsets} :
                    location_getblock(x, l) = "ok"}}

Lvalues(x) == Variables(x) \cup Dereferenced(x)

(* A `return' assigns to the result. *)
Targets(x) == Lvalues(x) \cup {Variable(x, "return")}

New(x) == Len(x.static) + Len(x.clump) + Len(x.heap) + Len(x.vconst)

(* ast_expr_eval and ast_expr_abseval: the value of an object, `&x', a     *)
(* literal, a symbolic constant, an allocation.  (Numbers are one more     *)
(* kind of value that is not a pointer, as symbolic constants are.)        *)
Evaluated(x) ==
    {r \in {[s |-> l.s, v |-> object_as_value(l.s, l.loc)] : l \in Lvalues(x)} : r.v # NoValue}
    \cup {[s |-> x, v |-> value_ptr_create(l.loc)] : l \in Variables(x)}
    \cup {r \in
            {[s |-> state_static_init(x, t),
              v |-> value_ptr_create(static_location(state_static_init(x, t), t))] : t \in Literals}
            \cup {[s |-> vconst_declare(x, NoComment, persist),
                   v |-> value_sync_create(vconst_id(x.vconst, persist))] : persist \in BOOLEAN}
            \cup {[s |-> heap_newblock(x),
                   v |-> value_ptr_create(location_create_dynamic(Len(x.heap)))],
                  [s |-> clump_newblock(x),
                   v |-> value_ptr_create(location_create_dereferencable(Len(x.clump)))]} :
          New(r.s) <= MaxNew}

-----------------------------------------------------------------------------
(* The operations. *)

(* A declaration of the running function. *)
Declare ==
    \E id \in Names \ Declared(Top(s)) : s' = state_declare(s, id, FALSE)

(* An expression statement whose value is dropped. *)
Evaluate == \E r \in Evaluated(s) : s' = r.s

(* expr_assign_eval: the right side first. *)
Assign ==
    \E r \in Evaluated(s) : \E l \in Targets(r.s) : s' = object_assign(l.s, l.loc, r.v)

(* dealloc_process, without an error. *)
Dealloc ==
    \E r \in Evaluated(s) :
        /\ state_dealloc_ok(r.s, r.v)
        /\ s' = state_dealloc(r.s, r.v)

(* expr_call_eval: a frame for the callee, whose parameter gets the value. *)
(* (Callees have one parameter.)                                           *)
Call ==
    /\ Len(s.stack) < MaxDepth
    /\ \E r \in Evaluated(s), id \in Names :
          LET x == state_declare(state_pushframe(r.s, NoCode, TRUE), id, TRUE)
          IN s' = object_assign(x, stack_getvariable(x, id), r.v)

(* The callee's result is read, its frame is popped, and the result is     *)
(* assigned or dropped.                                                    *)
Return ==
    /\ Len(s.stack) > 1
    /\ LET v == object_as_value(s, stack_getvariable(s, "return"))
           x == state_popframe(s) IN
       \/ s' = x
       \/ /\ v # NoValue
          /\ \E l \in Targets(x) : s' = object_assign(l.s, l.loc, v)

Next == Declare \/ Evaluate \/ Assign \/ Dealloc \/ Call \/ Return

Spec == Init /\ [][Next]_s

-----------------------------------------------------------------------------
(* Properties. *)

LocationType == {"STATIC", "DEREFERENCABLE", "DYNAMIC", "AUTOMATIC"}

Value == {NoValue}
    \cup [type : {"PTR"}, loc : [type : LocationType, frame : Nat, block : Nat, offset : {0}]]
    \cup [type : {"LITERAL"}, s : Literals]
    \cup [type : {"SYNC"}, e : {"$", "#"} \X Nat]

Blocks == Seq([offset : Nat, value : Value])

Frame == [code : {NoCode}, abstract : BOOLEAN, pc : {"ATEND"}, index : {0},
          frame : Seq(Blocks), varmap : Seq([name : Names, isparam : BOOLEAN, address : Nat])]

SymbolicState ==
    [vconst : Seq([id : {"$", "#"} \X Nat, comment : {NoComment}, persist : BOOLEAN]),
     static : Seq(Blocks), pool : Seq(Literals), clump : Seq(Blocks),
     heap : Seq(Blocks), freed : Seq(BOOLEAN), stack : Seq(Frame)]

TypeOK ==
    /\ s \in SymbolicState
    /\ Len(s.freed) = Len(s.heap)
    /\ s.stack # <<>>

(* All blocks of a state. *)
AllBlocks(x) ==
    {x.static[a] : a \in 1 .. Len(x.static)}
    \cup {x.clump[a] : a \in 1 .. Len(x.clump)}
    \cup {x.heap[a] : a \in 1 .. Len(x.heap)}
    \cup UNION {{x.stack[f].frame[a] : a \in 1 .. Len(x.stack[f].frame)} : f \in 1 .. Len(x.stack)}

Values(x) == UNION {{b[i].value : i \in 1 .. Len(b)} : b \in AllBlocks(x)}

(* No pointer names a block that was never allocated: the code indexes its *)
(* array of flags with the block of a pointer and checks no bound          *)
(* (heap_blockisfreed, heap_deallocblock).  Pointers into frames may       *)
(* dangle.                                                                 *)
NoWildPointer ==
    \A v \in Values(s) :
        value_islocation(v) /\ v.loc.type # "AUTOMATIC" => v.loc.block < Len(Arena(s, v.loc))

(* An offset of a block names one object (object_arr_index takes the       *)
(* first).                                                                 *)
OneObjectPerOffset ==
    \A b \in AllBlocks(s) : \A i, j \in 1 .. Len(b) : b[i].offset = b[j].offset => i = j

(* Two symbolic constants never have one name: conditions are compared by  *)
(* name, so a path would take the one to be assumed for the other.         *)
ConstantsAreDistinct ==
    \A i, j \in 1 .. Len(s.vconst) : s.vconst[i].id = s.vconst[j].id => i = j

(* Equal literals are one block (the comment on static_memory_stringpool:  *)
(* `to avoid infinite loops in splitting logic').                          *)
PooledOnce ==
    /\ Len(s.pool) = Len(s.static)
    /\ \A i, j \in 1 .. Len(s.pool) : s.pool[i] = s.pool[j] => i = j

(* A freed block stays freed and is never written again, whatever is       *)
(* allocated, assigned or called after it.                                 *)
FreedForGood ==
    [][\A a \in 1 .. Len(s.heap) :
            s.freed[a] => a <= Len(s'.heap) /\ s'.freed[a] /\ s'.heap[a] = s.heap[a]]_s

(* The variables that some object points to: the frame and the address of  *)
(* each.                                                                   *)
PointedTo(x) ==
    {<<v.loc.frame, v.loc.block>> :
        v \in {v \in Values(x) : value_islocation(v) /\ v.loc.type = "AUTOMATIC"}}

(* A variable of a waiting function that no object points to is neither    *)
(* written nor pointed to by what the functions above it do (the frames    *)
(* that wait before a step and still wait after it).  expr_call_eval       *)
(* relies on it: when the callee's frame is popped, the caller goes on     *)
(* with the variables it left.                                             *)
PrivateStaysPrivate ==
    [][\A f \in 1 .. Len(s.stack) - 1 :
            f < Len(s'.stack) =>
                /\ s'.stack[f].varmap = s.stack[f].varmap
                /\ Len(s'.stack[f].frame) = Len(s.stack[f].frame)
                /\ \A a \in 1 .. Len(s.stack[f].frame) :
                      <<f - 1, a - 1>> \notin PointedTo(s) =>
                          /\ s'.stack[f].frame[a] = s.stack[f].frame[a]
                          /\ <<f - 1, a - 1>> \notin PointedTo(s')]_s

(* The heap implements the abstract allocator: numbers are never reused    *)
(* and blocks never come back.                                             *)
Heap == INSTANCE Allocator WITH
    Numbers   <- 1 .. MaxNew,
    allocated <- 1 .. Len(s.heap),
    freed     <- {a \in 1 .. Len(s.heap) : s.freed[a]}

HeapIsAllocator == Heap!Spec

=============================================================================
