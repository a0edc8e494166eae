------------------------------ MODULE Concrete ------------------------------
(***************************************************************************)
(* What a program of module Exec's syntax does when it runs: the reference *)
(* for what `verified' should mean.  Nothing here models the verifier.     *)
(*                                                                         *)
(* A run c holds the frames of all functions entered so far, which of them *)
(* is running (top), the heap, whether something undefined has happened    *)
(* (fault), whether the running function has returned (done) and what      *)
(* (ret), and the value v of the last expression.                          *)
(***************************************************************************)
EXTENDS Naturals, Sequences, SequencesExt, FiniteSets

CONSTANT Program

Undef       == [t |-> "undef"]
Num(n)      == [t |-> "int", n |-> n]
Ptr(a)      == [t |-> "ptr", a |-> a]
Local(f, x) == [t |-> "local", frame |-> f, id |-> x]

Fault(c) == [c EXCEPT !.fault = TRUE, !.v = Undef]

(* A pointer to a block that is not freed, or to a variable whose function *)
(* has not returned.                                                       *)
IsBlock(c, v) == v.t = "ptr" /\ c.heap[v.a].live

IsLive(c, v) == IsBlock(c, v) \/ (v.t = "local" /\ c.frames[v.frame].live)

Cell(c, p) == IF p.t = "ptr" THEN c.heap[p.a].cell ELSE c.frames[p.frame].vars[p.id]

Store(c, p, v) ==
    IF p.t = "ptr" THEN [c EXCEPT !.heap[p.a].cell = v, !.v = v]
    ELSE [c EXCEPT !.frames[p.frame].vars[p.id] = v, !.v = v]

Truth(v) == v.t \in {"ptr", "local"} \/ (v.t = "int" /\ v.n # 0)

Allocate(c) ==
    [c EXCEPT !.heap = Append(c.heap, [live |-> TRUE, cell |-> Undef]),
              !.v = Ptr(Len(c.heap) + 1)]

(* The operators below take the run in which their operand has been        *)
(* evaluated.                                                              *)
Free(c) == IF IsBlock(c, c.v) THEN [c EXCEPT !.heap[c.v.a].live = FALSE] ELSE Fault(c)

Not(c) == [c EXCEPT !.v = Num(IF Truth(c.v) THEN 0 ELSE 1)]

Load(c) ==
    IF ~IsLive(c, c.v) \/ Cell(c, c.v) = Undef THEN Fault(c) ELSE [c EXCEPT !.v = Cell(c, c.v)]

StoreThrough(v, c) == IF ~IsLive(c, c.v) THEN Fault(c) ELSE Store(c, c.v, v)

Returned(c) == [c EXCEPT !.done = TRUE, !.ret = c.v]

Variables(f, args) ==
    [x \in Range(f.params) \cup Range(f.body.decls) |->
        IF \E i \in 1 .. Len(f.params) : f.params[i] = x
        THEN args[CHOOSE i \in 1 .. Len(f.params) : f.params[i] = x]
        ELSE Undef]

NewFrame(c, vars) ==
    [c EXCEPT !.frames = Append(c.frames, [live |-> TRUE, vars |-> vars]),
              !.top = Len(c.frames) + 1]

RECURSIVE Eval(_, _)
RECURSIVE Exec(_, _)

Run(stmts, c) == FoldLeft(LAMBDA d, st : Exec(st, d), c, stmts)

(* A call: the arguments, then the body in a frame of its own. *)
Argument(acc, c) == [c |-> c, vs |-> Append(acc.vs, c.v)]

Leave(caller, c) ==
    [c EXCEPT !.frames[c.top].live = FALSE, !.top = caller.top,
              !.done = FALSE, !.v = c.ret, !.ret = caller.ret]

Enters(f, args) ==
    IF args.c.fault THEN args.c
    ELSE Leave(args.c, Run(f.body.stmts, NewFrame(args.c, Variables(f, args.vs))))

Call(e, c) ==
    Enters(Program[e.f],
           FoldLeft(LAMBDA acc, a : Argument(acc, Eval(a, acc.c)), [c |-> c, vs |-> <<>>], e.args))

Assign(l, c) ==
    IF c.fault THEN c
    ELSE IF l.k = "id" THEN Store(c, Local(c.top, l.id), c.v)
    ELSE StoreThrough(c.v, Eval(l.e, c))

Eval(e, c) ==
    IF c.fault THEN c ELSE
    CASE e.k = "const" -> [c EXCEPT !.v = Num(e.n)]
      [] e.k = "id"    -> LET v == c.frames[c.top].vars[e.id]
                          IN IF v = Undef THEN Fault(c) ELSE [c EXCEPT !.v = v]
      [] e.k = "addr"  -> [c EXCEPT !.v = Local(c.top, e.id)]
      [] e.k = "not"    -> Not(Eval(e.e, c))
      [] e.k = "deref"  -> Load(Eval(e.e, c))
      [] e.k = "assign" -> Assign(e.l, Eval(e.r, c))
      [] e.k \in {"alloc", "clump"} -> Allocate(c)
      [] e.k = "dealloc" -> Free(Eval(e.e, c))
      [] e.k = "call"    -> CASE e.f = <<"malloc">> -> Allocate(c)
                              [] e.f = <<"free">>   -> Free(Eval(e.args[1], c))
                              [] OTHER              -> Call(e, c)

Select(st, c) ==
    IF c.fault THEN c ELSE Exec(IF Truth(c.v) THEN st.body ELSE st.nest, c)

Exec(st, c) ==
    IF c.fault \/ c.done THEN c ELSE
    CASE st.k \in {"nop", "setup"} -> c
      [] st.k = "expr" -> Eval(st.e, c)
      [] st.k = "comp" -> Run(st.stmts, c)
      [] st.k = "sel"  -> Select(st, Eval(st.cond, c))
      [] st.k = "return" -> Returned(Eval(st.e, c))

-----------------------------------------------------------------------------
(* A function entered with numbers for arguments; where its abstract has a *)
(* `setup' the caller has arranged what it says.                           *)
Enter(f, args) ==
    LET c == [frames |-> <<[live |-> TRUE, vars |-> Variables(f, args)]>>, top |-> 1,
              heap |-> <<>>, fault |-> FALSE, done |-> FALSE, ret |-> Undef, v |-> Undef] IN
    FoldLeft(LAMBDA d, st : IF st.k = "setup" THEN Exec(st.s, d) ELSE d, c, f.abstract.stmts)

Arguments(f) == [1 .. Len(f.params) -> {Num(0), Num(1)}]

(* P of every run of the body, the run of the abstract from the same       *)
(* arguments, and the number of blocks that the caller has arranged.       *)
EveryRun(f, P(_, _, _)) ==
    \A args \in Arguments(f) :
        P(Run(f.body.stmts, Enter(f, args)),
          Run(f.abstract.stmts, Enter(f, args)),
          Len(Enter(f, args).heap))

(* What can be reached: nothing, or a live block and what its cell leads   *)
(* to.                                                                     *)
RECURSIVE Shape(_, _, _)
Shape(v, c, depth) ==
    IF ~IsBlock(c, v) \/ depth = 0 THEN <<>>
    ELSE <<Shape(c.heap[v.a].cell, c, depth - 1)>>

RECURSIVE Reached(_, _, _)
Reached(v, c, depth) ==
    IF ~IsBlock(c, v) \/ depth = 0 THEN {}
    ELSE {v.a} \cup Reached(c.heap[v.a].cell, c, depth - 1)

(* The result, and the caller's n blocks as the function leaves them. *)
Leaves(c, n) ==
    [result |-> Shape(c.ret, c, Len(c.heap)),
     blocks |-> [a \in 1 .. n |-> Shape(Ptr(a), c, Len(c.heap))]]

(* A live block that neither the result nor the caller leads to. *)
Leaks(c, n) ==
    \E a \in 1 .. Len(c.heap) :
        /\ c.heap[a].live
        /\ \A b \in 1 .. n : a \notin Reached(Ptr(b), c, Len(c.heap))
        /\ a \notin Reached(c.ret, c, Len(c.heap))

(* The live blocks by number, in the order of their allocation. *)
Numbered(c) ==
    LET pointer(v) == IF IsBlock(c, v) THEN v ELSE Undef IN
    [result |-> pointer(c.ret),
     heap   |-> [a \in {a \in 1 .. Len(c.heap) : c.heap[a].live} |-> pointer(c.heap[a].cell)]]

SafeRun(c, abs, n) == ~c.fault

(* A run that faults is no matter of the abstract. *)
ConformingRun(c, abs, n) == ~c.fault => ~Leaks(c, n) /\ Leaves(c, n) = Leaves(abs, n)

(* The body leaves the blocks that its abstract leaves, number by number.  *)
SameNumbersRun(c, abs, n) == Numbered(c) = Numbered(abs)

RightRun(c, abs, n) ==
    /\ SafeRun(c, abs, n)
    /\ ConformingRun(c, abs, n)
    /\ SameNumbersRun(c, abs, n)

NoFault(f)  == EveryRun(f, SafeRun)
Conforms(f) == EveryRun(f, ConformingRun)
Right(f)    == EveryRun(f, RightRun)

=============================================================================
