------------------------------- MODULE Audit -------------------------------
(***************************************************************************)
(* The two questions path_audit asks of the final states: does the heap    *)
(* hold a block that nothing refers to (state_hasgarbage), and do the body *)
(* and the abstract leave the same memory behind (state_equal).  Both      *)
(* follow pointers from object to object; the circuit breaker cb holds the *)
(* objects that a search has entered.                                      *)
(*                                                                         *)
(* Every answer is "yes", "no", or "abort" for a failed assertion: a       *)
(* pointer into a frame or to a variable that no longer exists.            *)
(***************************************************************************)
EXTENDS State, SequencesExt, FiniteSets

(* One object: the i-th of the block at a location. *)
ObjectAt(loc, i) == <<loc.type, loc.frame, loc.block, i>>

-----------------------------------------------------------------------------
(* state_references *)

(* location_references, block_references, object_references and            *)
(* value_references: is loc reached from l?  The objects of a block share  *)
(* the circuit breaker; what an object points to gets a copy.              *)
RECURSIVE location_references(_, _, _, _)
location_references(l, loc, x, cb) ==
    IF location_equal(l, loc) THEN "yes" ELSE
    LET got == location_getblock(x, l)
        b   == Block(x, l)
        visit(acc, i) ==
            IF acc.ans # "no" \/ ObjectAt(l, i) \in acc.cb THEN acc ELSE
            LET seen == acc.cb \cup {ObjectAt(l, i)} IN
            [cb  |-> seen,
             ans |-> IF value_islocation(b[i].value)
                     THEN location_references(b[i].value.loc, loc, x, seen)
                     ELSE "no"] IN
    CASE got \in {"error", "abort"} -> "abort"
      [] got = "none" -> "no"
      [] got = "ok"   -> FoldLeft(visit, [cb |-> cb, ans |-> "no"],
                                  [i \in 1 .. Len(b) |-> i]).ans

(* The variables an audit keeps: the result and the parameters. *)
Kept(f) == <<[name |-> "return", address |-> 0]>>
           \o FoldLeft(LAMBDA acc, v : IF v.isparam
                                       THEN Append(acc, [name |-> v.name, address |-> v.address])
                                       ELSE acc,
                       <<>>, f.varmap)

VariableLocation(x, v) == location_create_automatic(Len(x.stack) - 1, v.address)

(* state_references, stack_references: from the variables of the top frame. *)
state_references(x, loc) ==
    FoldLeft(LAMBDA ans, v : IF ans # "no" THEN ans
                             ELSE location_references(VariableLocation(x, v), loc, x, {}),
             "no", Kept(Top(x)))

(* heap_referenced: the first live block that is not referenced, or whose  *)
(* search fails, settles it.                                               *)
state_hasgarbage(x) ==
    FoldLeft(LAMBDA ans, a : IF ans # "no" \/ x.freed[a] THEN ans
                             ELSE LET ref == state_references(x, location_create_dynamic(a - 1))
                                  IN CASE ref = "yes" -> "no"
                                       [] ref = "no"  -> "yes"
                                       [] OTHER       -> ref,
             "no", [a \in 1 .. Len(x.heap) |-> a])

-----------------------------------------------------------------------------
(* state_equal *)

(* location_referencesheap, object_referencesheap, value_referencesheap. *)
RECURSIVE value_referencesheap(_, _, _)
value_referencesheap(v, x, cb) ==
    IF ~value_islocation(v) THEN "no"
    ELSE IF v.loc.type = "DYNAMIC" THEN IF x.freed[v.loc.block+1] THEN "no" ELSE "yes"
    ELSE IF location_getblock(x, v.loc) \in {"error", "abort"} THEN "abort"
    ELSE IF ~HasObject(x, v.loc) THEN "no"
    ELSE LET o == ObjectAt(v.loc, CHOOSE i \in object_arr_index(Block(x, v.loc), v.loc.offset) : TRUE) IN
         IF o \in cb THEN "no"
         ELSE value_referencesheap(object_as_value(x, v.loc), x, cb \cup {o})

(* value_abstractcopy: only what leads to the heap is kept. *)
value_abstractcopy(v, x) ==
    IF value_referencesheap(v, x, {}) = "yes" THEN v ELSE NoValue

(* All values that the comparison follows. *)
HeapValues(x) ==
    UNION {{x.heap[a][i].value : i \in 1 .. Len(x.heap[a])} :
            a \in {a \in 1 .. Len(x.heap) : ~x.freed[a]}}

KeptValues(x) == {object_as_value(x, VariableLocation(x, Kept(Top(x))[i])) :
                    i \in 1 .. Len(Kept(Top(x)))}

(* Mutant: the heap is not compared. *)
Undeclared_noheap(x) ==
    [vconst |-> SelectSeq(x.vconst, LAMBDA c : c.persist),
     clump  |-> x.clump,
     vars   |-> [i \in 1 .. Len(Kept(Top(x))) |->
                    <<Kept(Top(x))[i], value_abstractcopy(
                        object_as_value(x, VariableLocation(x, Kept(Top(x))[i])), x)>>]]

(* state_undeclareliterals, state_undeclarevars and state_popprops leave   *)
(* the persistent constants, the clump, the objects of live heap blocks    *)
(* that lead to the heap, and the result and parameters.                   *)
Undeclared(x) ==
    LET kept == Kept(Top(x)) IN
    [vconst |-> SelectSeq(x.vconst, LAMBDA c : c.persist),
     clump  |-> x.clump,
     heap   |-> [a \in {a \in 1 .. Len(x.heap) : ~x.freed[a]} |->
                    SelectSeq(x.heap[a],
                              LAMBDA o : value_referencesheap(o.value, x, {}) = "yes")],
     vars   |-> [i \in 1 .. Len(kept) |->
                    <<kept[i], value_abstractcopy(
                        object_as_value(x, VariableLocation(x, kept[i])), x)>>]]

undeclare_aborts(x) ==
    \E v \in HeapValues(x) \cup KeptValues(x) : value_referencesheap(v, x, {}) = "abort"

(* The two are printed and the strings compared. *)
state_equal(x, y) ==
    IF undeclare_aborts(x) \/ undeclare_aborts(y) THEN "abort"
    ELSE IF Undeclared(x) = Undeclared(y) THEN "yes" ELSE "no"

=============================================================================
