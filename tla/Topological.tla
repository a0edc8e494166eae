---------------------------- MODULE Topological ----------------------------
(***************************************************************************)
(* The order in which the functions under a given one are verified: the    *)
(* graph of calls (ast_function_buildgraph in                              *)
(* src/src/ast/function/function.c) and its topological sort               *)
(* (src/src/ast/topological.c).                                            *)
(*                                                                         *)
(* Each iteration of a loop is a step; so is each call of                  *)
(* recurse_buildgraph, with the stack of its frames in a variable.         *)
(***************************************************************************)
EXTENDS Linking

CONSTANTS
    GetFuncs(_),        \* ast_stmt_getfuncs, see module Calls
    AssertionFails      \* stands in its result where an assertion fails

ASSUME GetFuncsAssumption ==
    /\ AssertionFails \notin Names
    /\ \A s \in Statements : GetFuncs(s) \in Seq(Names \cup {AssertionFails})

VARIABLES
    sortfunc,   \* the function under which things are sorted
    dedup,      \* functions that recurse_buildgraph has entered
    frames,     \* its frames, the innermost last
    keys,       \* the keys of the map g, in their order
    deps,       \* its values: whom a function calls, axioms left out
    ikeys,      \* the keys of the map indegrees, in their order
    inner,      \* the index of the inner loop that fills it, or 0
    count,      \* its values
    zero,       \* the queue indegree_zero
    curr,       \* the function taken from it, or NONE
    order       \* the result

graph    == <<keys, deps>>
degrees  == <<ikeys, inner, count>>
queue    == <<zero, curr, order>>

graph_vars == <<sortfunc, dedup, frames, graph, degrees, queue>>

NewFrame(n, body) ==
    [name |-> n, stmts |-> body, funcs |-> <<>>, local_dedup |-> {}, val |-> <<>>]

GraphInit ==
    /\ dedup = {} /\ frames = <<>>
    /\ keys = <<>> /\ deps = [n \in Names |-> <<>>]
    /\ ikeys = <<>> /\ inner = 0 /\ count = [n \in Names |-> 0]
    /\ zero = <<>> /\ curr = NONE /\ order = <<>>

-----------------------------------------------------------------------------
(* recurse_buildgraph *)

(* Mutant: bodies without statements pass. *)
NoStatements_null(f) == f.body = NONE

(* A body that is missing (assert(f->body)), or without statements         *)
(* (assert(stmt)).                                                         *)
NoStatements(f) == f.body \in {NONE, <<>>}

ast_function_buildgraph ==
    /\ status = "graph" /\ dedup = {}
    /\ dedup' = {sortfunc}
    /\ LET f == externals_getfunc(sortfunc) IN
       \/ f = NONE /\ status' = "undeclared" /\ UNCHANGED <<frames, i>>
       \/ f # NONE /\ f.axiom /\ status' = "indegrees" /\ i' = 1 /\ UNCHANGED frames
       \/ /\ f # NONE /\ ~f.axiom /\ NoStatements(f)
          /\ status' = "crash" /\ UNCHANGED <<frames, i>>
       \/ /\ f # NONE /\ ~f.axiom /\ ~NoStatements(f)
          /\ frames' = <<NewFrame(sortfunc, f.body)>>
          /\ UNCHANGED <<status, i>>
    /\ UNCHANGED <<root, ext, sortfunc, graph, degrees, queue>>

InFrame == status = "graph" /\ frames # <<>>

Top == frames[Len(frames)]

WithTop(frame) == [frames EXCEPT ![Len(frames)] = frame]

(* The functions of the next statement. *)
NextStatement ==
    /\ InFrame
    /\ Top.funcs = <<>> /\ Top.stmts # <<>>
    /\ LET fs == GetFuncs(Head(Top.stmts)) IN
       \/ /\ AssertionFails \in ToSet(fs)
          /\ status' = "crash" /\ UNCHANGED frames
       \/ /\ AssertionFails \notin ToSet(fs)
          /\ frames' = WithTop([Top EXCEPT !.stmts = Tail(@), !.funcs = fs])
          /\ UNCHANGED status
    /\ UNCHANGED <<root, ext, i, sortfunc, dedup, graph, degrees, queue>>

(* A function that this one has called before. *)
SkipDuplicate ==
    /\ InFrame
    /\ Top.funcs # <<>> /\ Head(Top.funcs) \in Top.local_dedup
    /\ frames' = WithTop([Top EXCEPT !.funcs = Tail(@)])
    /\ UNCHANGED <<root, ext, i, status, sortfunc, dedup, graph, degrees, queue>>

(* f->isaxiom is read before f is known to be declared. *)
CalleeUndeclared ==
    /\ InFrame
    /\ Top.funcs # <<>> /\ Head(Top.funcs) \notin Top.local_dedup
    /\ externals_getfunc(Head(Top.funcs)) = NONE
    /\ status' = "crash"
    /\ UNCHANGED <<root, ext, i, graph_vars>>

(* Mutant: each call is noted, also of a function called before. *)
Noted_again(c) ==
    [Top EXCEPT !.funcs = Tail(@),
                !.val = IF externals_getfunc(c).axiom THEN @ ELSE Append(@, c)]

(* Mutant: a called axiom is listed with the other functions. *)
Noted_axioms(c) ==
    [Top EXCEPT !.funcs = Tail(@), !.local_dedup = @ \cup {c}, !.val = Append(@, c)]

(* The frame after a call of c is noted. *)
Noted(c) ==
    [Top EXCEPT !.funcs = Tail(@),
                !.local_dedup = @ \cup {c},
                !.val = IF externals_getfunc(c).axiom THEN @ ELSE Append(@, c)]

(* ... and the callee is entered, unless it was before or has no code. *)
Callee ==
    /\ InFrame
    /\ Top.funcs # <<>> /\ Head(Top.funcs) \notin Top.local_dedup
    /\ externals_getfunc(Head(Top.funcs)) # NONE
    /\ dedup' = dedup \cup {Head(Top.funcs)}
    /\ LET c == Head(Top.funcs)
           f == externals_getfunc(c) IN
       \/ /\ c \in dedup \/ f.axiom
          /\ frames' = WithTop(Noted(c))
          /\ UNCHANGED status
       \/ /\ c \notin dedup /\ ~f.axiom /\ NoStatements(f)
          /\ status' = "crash"
          /\ UNCHANGED frames
       \/ /\ c \notin dedup /\ ~f.axiom /\ ~NoStatements(f)
          /\ frames' = Append(WithTop(Noted(c)), NewFrame(c, f.body))
          /\ UNCHANGED status
    /\ UNCHANGED <<root, ext, i, sortfunc, graph, degrees, queue>>

(* The end of a frame: map_set(g, fname, val). *)
Return ==
    /\ InFrame
    /\ Top.funcs = <<>> /\ Top.stmts = <<>>
    /\ keys' = Append(keys, Top.name)
    /\ deps' = [deps EXCEPT ![Top.name] = Top.val]
    /\ frames' = SubSeq(frames, 1, Len(frames) - 1)
    /\ IF Len(frames) = 1
       THEN status' = "indegrees" /\ i' = 1
       ELSE UNCHANGED <<status, i>>
    /\ UNCHANGED <<root, ext, sortfunc, dedup, degrees, queue>>

recurse_buildgraph ==
    NextStatement \/ SkipDuplicate \/ CalleeUndeclared \/ Callee \/ Return

-----------------------------------------------------------------------------
(* The loops of calculate_indegrees and build_indegree_zero.  A loop that  *)
(* is through gives way to the next one.                                   *)

LoopEnds(here, n, next) ==
    /\ status = here /\ i > n
    /\ status' = next
    /\ i' = 1
    /\ UNCHANGED <<root, ext, graph_vars>>

(* A key that is there already is passed over, with all its dependencies.  *)
InitIndegree ==
    /\ status = "indegrees" /\ inner = 0 /\ i <= Len(keys)
    /\ \/ /\ keys[i] \in ToSet(ikeys)
          /\ i' = i + 1
          /\ UNCHANGED <<ikeys, inner>>
       \/ /\ keys[i] \notin ToSet(ikeys)
          /\ ikeys' = Append(ikeys, keys[i])
          /\ inner' = 1
          /\ UNCHANGED i
    /\ UNCHANGED <<root, ext, status, sortfunc, dedup, frames, graph, count, queue>>

InitDependency ==
    /\ status = "indegrees" /\ inner > 0
    /\ \/ /\ inner <= Len(deps[keys[i]])
          /\ ikeys' = IF deps[keys[i]][inner] \in ToSet(ikeys) THEN ikeys
                      ELSE Append(ikeys, deps[keys[i]][inner])
          /\ inner' = inner + 1
          /\ UNCHANGED i
       \/ /\ inner > Len(deps[keys[i]])
          /\ inner' = 0
          /\ i' = i + 1
          /\ UNCHANGED ikeys
    /\ UNCHANGED <<root, ext, status, sortfunc, dedup, frames, graph, count, queue>>

(* Mutant: a function waits for one of those it calls. *)
CountIndegree_once ==
    /\ status = "count" /\ i <= Len(ikeys)
    /\ count' = [count EXCEPT ![ikeys[i]] = IF deps[ikeys[i]] = <<>> THEN 0 ELSE 1]
    /\ i' = i + 1
    /\ UNCHANGED <<root, ext, status, sortfunc, dedup, frames, graph, ikeys, queue, inner>>

CountIndegree ==
    /\ status = "count" /\ i <= Len(ikeys)
    /\ count' = [count EXCEPT ![ikeys[i]] = @ + Len(deps[ikeys[i]])]
    /\ i' = i + 1
    /\ UNCHANGED <<root, ext, status, sortfunc, dedup, frames, graph, ikeys, queue, inner>>

build_indegree_zero ==
    /\ status = "zero" /\ i <= Len(ikeys)
    /\ zero' = IF count[ikeys[i]] = 0 THEN Append(zero, ikeys[i]) ELSE zero
    /\ i' = i + 1
    /\ UNCHANGED <<root, ext, status, sortfunc, dedup, frames, graph, degrees, curr, order>>

-----------------------------------------------------------------------------
(* The loop of topological_order. *)

Dequeue ==
    /\ status = "order" /\ curr = NONE /\ zero # <<>>
    /\ curr' = Head(zero)
    /\ zero' = Tail(zero)
    /\ order' = Append(order, Head(zero))
    /\ i' = 1
    /\ UNCHANGED <<root, ext, status, sortfunc, dedup, frames, graph, degrees>>

(* An entry of g with and without curr among its dependencies. *)
Scan ==
    /\ status = "order" /\ curr # NONE /\ i <= Len(keys)
    /\ i' = i + 1
    /\ IF curr \in ToSet(deps[keys[i]])
       THEN /\ count' = [count EXCEPT ![keys[i]] = @ - 1]
            /\ zero' = IF count'[keys[i]] = 0 THEN Append(zero, keys[i]) ELSE zero
       ELSE UNCHANGED <<count, zero>>
    /\ UNCHANGED <<root, ext, status, sortfunc, dedup, frames, graph, ikeys, curr, order, inner>>

ScanEnds ==
    /\ status = "order" /\ curr # NONE /\ i > Len(keys)
    /\ curr' = NONE
    /\ UNCHANGED <<root, ext, i, status, sortfunc, dedup, frames, graph, degrees, zero, order>>

CycleDetected ==
    /\ status = "order" /\ curr = NONE /\ zero = <<>>
    /\ Len(order) # Len(ikeys)
    /\ status' = "cycle"
    /\ UNCHANGED <<root, ext, i, graph_vars>>

OrderIsComplete == status = "order" /\ curr = NONE /\ zero = <<>> /\ Len(order) = Len(ikeys)

topological_order ==
    \/ ast_function_buildgraph
    \/ recurse_buildgraph
    \/ LoopEnds("indegrees", Len(keys), "count") \/ InitIndegree \/ InitDependency
    \/ LoopEnds("count", Len(ikeys), "zero")     \/ CountIndegree
    \/ LoopEnds("zero", Len(ikeys), "order")     \/ build_indegree_zero
    \/ Dequeue \/ Scan \/ ScanEnds
    \/ CycleDetected

-----------------------------------------------------------------------------
(* Whatever is in the order stands there once, behind all the functions it *)
(* calls, while the order is built and when it is returned                 *)
(* (topological_order).                                                    *)
DependenciesFirst ==
    \A k \in DOMAIN order :
        /\ \A d \in ToSet(deps[order[k]]) : \E j \in 1 .. k - 1 : order[j] = d
        /\ \A j \in 1 .. k - 1 : order[j] # order[k]
=============================================================================
