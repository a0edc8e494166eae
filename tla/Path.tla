-------------------------------- MODULE Path --------------------------------
(***************************************************************************)
(* The tree of paths along which one function is verified                  *)
(* (src/src/path/path.c, and the loop of ast_function_verify in            *)
(* src/src/ast/function/function.c).                                       *)
(*                                                                         *)
(* A path first executes the function's abstract, then its body, and then  *)
(* audits the two final states.  When the execution meets a condition that *)
(* the propositions of the state do not decide, the path splits in two     *)
(* copies: one assumes the condition, the other its inversion.             *)
(*                                                                         *)
(* The symbolic executor is a parameter: a value x of its own, and the     *)
(* operators below.  Module Exec supplies it.  A path is identified by its *)
(* name, the sequence of conditions it was split on ("f | x | !y" in the   *)
(* code, see split_name).                                                  *)
(***************************************************************************)
EXTENDS Props, Sequences, FiniteSets

CONSTANTS
    Functions,              \* the functions that may be verified
    XState,                 \* the executor's states, without propositions
    state_init(_),          \* state_create + ast_function_initparams, abstract
    state_init_actual(_, _),\* the same for the body, + setupabsexec
    state_step(_, _),       \* state_step in a state with these propositions
    state_atend(_),
    state_hasgarbage(_),
    state_equal(_, _),
    NoState                 \* a NULL state pointer

(* What an operation of the executor returns in its field kind:            *)
(*   "ok"         no error;                                                *)
(*   "undecided"  an undecidable condition is among the nested errors;     *)
(*   "error"      any other error;                                         *)
(*   "abort"      an assertion of the executor failed.                     *)
(* In the first two cases x is the state as the operation left it.  The    *)
(* two questions of the audit answer "yes" or "no", or abort.              *)
IsResult(r) ==
    /\ r.kind \in {"ok", "undecided", "error", "abort"}
    /\ r.kind \in {"ok", "undecided"} => r.x \in XState
    /\ r.kind = "undecided" => r.cond \in Cond

ASSUME ExecutorAssumption ==
    /\ \A f \in Functions : IsResult(state_init(f))
    /\ \A f \in Functions, P \in SUBSET Literal : IsResult(state_init_actual(f, P))
    /\ \A x \in XState, P \in SUBSET Literal : IsResult(state_step(x, P))

ASSUME NoStateAssumption == NoState \notin [x : XState, props : SUBSET Literal]

VARIABLES
    fn,         \* the function that is verified
    tree,       \* the paths: name -> node
    turn,       \* leaves that the current call of path_step has yet to reach
    verdict     \* what ast_function_verify has returned, if it has

vars == <<fn, tree, turn, verdict>>

-----------------------------------------------------------------------------
(* The structures. *)

SymState == [x : XState, props : SUBSET Literal]

PathState == {"UNINIT", "ABSTRACT", "HALFWAY", "ACTUAL", "AUDIT", "SPLIT", "ATEND"}

Node == [path_state : PathState,
         abstract   : SymState \cup {NoState},
         actual     : SymState \cup {NoState}]

Leaves == {n \in DOMAIN tree : tree[n].path_state # "SPLIT"}

Unfinished == {n \in Leaves : tree[n].path_state # "ATEND"}

(* Mutant: one finished path is enough (|| for &&). *)
path_atend_any == Unfinished # Leaves

(* Mutant: a split path is not at its end whatever its copies are. *)
path_atend_nosplit == \A n \in DOMAIN tree : tree[n].path_state = "ATEND"

(* path_atend of the root: every path below it is at its end. *)
path_atend == Unfinished = {}

(* path_step_split visits p_true before p_false.  Two leaves differ first  *)
(* at the split of their last common ancestor.                             *)
Before(m, n) ==
    \E i \in 1 .. Len(m) :
        /\ i <= Len(n)
        /\ \A j \in 1 .. i-1 : m[j] = n[j]
        /\ m[i].bangs < n[i].bangs

(* The leaf that the current sweep of path_step reaches next. *)
Reaches(n) ==
    /\ verdict = "running"
    /\ n \in turn
    /\ \A m \in turn \ {n} : Before(n, m)

(* path_create: a copy of the function, no states. *)
path_create == [path_state |-> "UNINIT", abstract |-> NoState, actual |-> NoState]

(* The state that a path is executing: its abstract, then its actual one. *)
Executing(node) ==
    IF node.path_state = "ABSTRACT" THEN node.abstract ELSE node.actual

WithExecuting(node, s) ==
    IF node.path_state = "ABSTRACT" THEN [node EXCEPT !.abstract = s]
                                    ELSE [node EXCEPT !.actual = s]

-----------------------------------------------------------------------------
(* path_split *)

(* state_assume: the condition is installed unless it is a contradiction. *)
state_assume(s, c) ==
    LET p == reduce_assume(c) IN
    IF props_contradicts(s.props, p) THEN s
    ELSE [s EXCEPT !.props = props_install(s.props, p)]

contradicts(s, c) == props_contradicts(s.props, reduce_assume(c))

(* Mutant: the copy assumes cond in the abstract, whatever is executed.    *)
path_copywithcond_abstract(node, cond) ==
    LET c == [node EXCEPT !.abstract = state_assume(@, cond)] IN
    IF contradicts(node.abstract, cond) THEN [c EXCEPT !.path_state = "ATEND"] ELSE c

(* path_copywithcond: the copy assumes cond in the state that is being     *)
(* executed; a contradiction ends the copy.                                *)
path_copywithcond(node, cond) ==
    LET s == Executing(node)
        c == WithExecuting(node, state_assume(s, cond)) IN
    IF contradicts(s, cond) THEN [c EXCEPT !.path_state = "ATEND"] ELSE c

(* Mutant: the second copy is inverted twice. *)
path_split_twice(n, node, cond) ==
    LET yes == Append(n, cond)
        no  == Append(n, ast_expr_inverted_copy(ast_expr_inverted_copy(cond))) IN
    [m \in DOMAIN tree \cup {yes, no} |->
        CASE m \in {yes, no} -> path_copywithcond(node, m[Len(m)])
          [] m = n   -> [path_state |-> "SPLIT", abstract |-> NoState, actual |-> NoState]
          [] OTHER   -> tree[m]]

(* path_split: two copies of the path as the failed step left it. *)
path_split(n, node, cond) ==
    LET yes == Append(n, cond)
        no  == Append(n, ast_expr_inverted_copy(cond)) IN
    [m \in DOMAIN tree \cup {yes, no} |->
        CASE m = yes -> path_copywithcond(node, cond)
          [] m = no  -> path_copywithcond(node, ast_expr_inverted_copy(cond))
          [] m = n   -> [path_state |-> "SPLIT", abstract |-> NoState, actual |-> NoState]
          [] OTHER   -> tree[m]]

-----------------------------------------------------------------------------
(* The steps of one path.  Each is one call of path_step on a leaf. *)

Init ==
    /\ fn \in Functions
    /\ tree = [n \in {<<>>} |-> path_create]
    /\ turn = {}
    /\ verdict = "running"

(* The while loop of ast_function_verify calls path_step on the root. *)
BeginSweep ==
    /\ verdict = "running"
    /\ turn = {}
    /\ ~path_atend
    /\ turn' = Unfinished
    /\ UNCHANGED <<fn, tree, verdict>>

(* The loop ends: the function is verified. *)
Verified ==
    /\ verdict = "running"
    /\ turn = {}
    /\ path_atend
    /\ verdict' = "verified"
    /\ UNCHANGED <<fn, tree, turn>>

(* An error ends the verification at once, an assertion the process: the   *)
(* tree is not looked at again.                                            *)
Fail(kind) ==
    /\ verdict' = kind
    /\ UNCHANGED <<fn, tree, turn>>

(* Mutant: path_step_split does not ask whether a path is at its end. *)
Continue_again(n, node) ==
    /\ tree' = [tree EXCEPT ![n] = node]
    /\ UNCHANGED <<fn, turn, verdict>>

(* A step of leaf n that replaces its node. *)
Continue(n, node) ==
    /\ tree' = [tree EXCEPT ![n] = node]
    /\ turn' = turn \ {n}
    /\ UNCHANGED <<fn, verdict>>

(* path_init_abstract: an undecidable condition is an error like any other. *)
path_init_abstract(n) ==
    /\ Reaches(n)
    /\ tree[n].path_state = "UNINIT"
    /\ \E r \in {state_init(fn)} :
       \/ /\ r.kind = "ok"
          /\ Continue(n, [tree[n] EXCEPT
                            !.path_state = "ABSTRACT",
                            !.abstract = [x |-> r.x, props |-> {}]])
       \/ /\ r.kind \in {"error", "undecided"}
          /\ Fail("error")
       \/ /\ r.kind = "abort"
          /\ Fail("abort")

(* state_step of the state under execution, abstract or actual.  A step    *)
(* that fails on an undecidable condition splits the path as the step left *)
(* it.                                                                     *)
step(n) ==
    \E r \in {state_step(Executing(tree[n]).x, Executing(tree[n]).props)} :
    LET s == Executing(tree[n]) IN
    \/ /\ r.kind = "ok"
       /\ Continue(n, WithExecuting(tree[n], [s EXCEPT !.x = r.x]))
    \/ /\ r.kind = "undecided"
       /\ tree' = path_split(n, WithExecuting(tree[n], [s EXCEPT !.x = r.x]), r.cond)
       /\ turn' = turn \ {n}
       /\ UNCHANGED <<fn, verdict>>
    \/ /\ r.kind \in {"error", "abort"}
       /\ Fail(r.kind)

path_step_abstract(n) ==
    /\ Reaches(n)
    /\ tree[n].path_state = "ABSTRACT"
    /\ ~state_atend(tree[n].abstract.x)
    /\ step(n)

(* Mutant: the body starts without the assumptions of the abstract.        *)
path_init_actual_forgets(n) ==
    /\ Reaches(n)
    /\ tree[n].path_state = "ABSTRACT"
    /\ state_atend(tree[n].abstract.x)
    /\ \E r \in {state_init_actual(fn, {})} :
       \/ /\ r.kind = "ok"
          /\ Continue(n, [tree[n] EXCEPT
                            !.path_state = "ACTUAL",
                            !.actual = [x |-> r.x, props |-> {}]])
       \/ /\ r.kind \in {"error", "undecided"}
          /\ Fail("error")
       \/ /\ r.kind = "abort"
          /\ Fail("abort")

(* path_step_abstract at the end of the abstract goes on with              *)
(* path_init_actual in the same call: the new state starts with the        *)
(* propositions of the abstract one.                                       *)
path_init_actual(n) ==
    LET props == tree[n].abstract.props IN
    /\ Reaches(n)
    /\ tree[n].path_state = "ABSTRACT"
    /\ state_atend(tree[n].abstract.x)
    /\ \E r \in {state_init_actual(fn, props)} :
       \/ /\ r.kind = "ok"
          /\ Continue(n, [tree[n] EXCEPT
                            !.path_state = "ACTUAL",
                            !.actual = [x |-> r.x, props |-> props]])
       \/ /\ r.kind \in {"error", "undecided"}
          /\ Fail("error")
       \/ /\ r.kind = "abort"
          /\ Fail("abort")

path_step_actual(n) ==
    /\ Reaches(n)
    /\ tree[n].path_state = "ACTUAL"
    /\ ~state_atend(tree[n].actual.x)
    /\ step(n)

(* path_step_actual at the end of the body goes on with path_audit. *)
path_audit(n) ==
    /\ Reaches(n)
    /\ tree[n].path_state = "ACTUAL"
    /\ state_atend(tree[n].actual.x)
    /\ \E garbage \in {state_hasgarbage(tree[n].actual.x)},
          same \in {state_equal(tree[n].actual.x, tree[n].abstract.x)} :
       \/ /\ garbage = "no" /\ same = "yes"
          /\ Continue(n, [tree[n] EXCEPT !.path_state = "ATEND"])
       \/ /\ garbage = "yes" \/ (garbage = "no" /\ same = "no")
          /\ Fail("error")
       \/ /\ garbage = "abort" \/ (garbage = "no" /\ same = "abort")
          /\ Fail("abort")

path_step(n) ==
    \/ path_init_abstract(n)
    \/ path_step_abstract(n)
    \/ path_init_actual(n)
    \/ path_step_actual(n)
    \/ path_audit(n)

(* The verifier has returned. *)
Done ==
    /\ verdict # "running"
    /\ UNCHANGED vars

Next ==
    \/ BeginSweep
    \/ Verified
    \/ \E n \in turn : path_step(n)
    \/ Done

Spec == Init /\ [][Next]_vars

(* ast_function_verify is a plain loop: it always takes its next step. *)
FairSpec == Spec /\ WF_vars(Next)

-----------------------------------------------------------------------------
(* Properties. *)

TypeOK ==
    /\ fn \in Functions
    /\ DOMAIN tree \subseteq Seq(Cond)
    /\ tree \in [DOMAIN tree -> Node]
    /\ turn \subseteq Unfinished
    /\ verdict \in {"running", "verified", "error", "abort"}

(* The conditions in the name of path n hold under v: the paths that the   *)
(* function takes when its conditions have these truth values.             *)
Selects(v, n) == \A i \in 1 .. Len(n) : Holds(v, n[i])

States(node) == {node.abstract, node.actual} \ {NoState}

(* path_audit has found the two final states of a path in order. *)
Audited(node) ==
    /\ node.abstract # NoState /\ node.actual # NoState
    /\ state_atend(node.abstract.x)
    /\ state_atend(node.actual.x)
    /\ state_hasgarbage(node.actual.x) = "no"
    /\ state_equal(node.actual.x, node.abstract.x) = "yes"

(* The splits of path_split neither lose nor duplicate a case: whatever    *)
(* the truth values of the conditions are, exactly one leaf of the tree    *)
(* stands for them.                                                        *)
ExactlyOnePath ==
    \A v \in Valuation :
        /\ \E n \in Leaves : Selects(v, n)
        /\ \A m, n \in Leaves : Selects(v, m) /\ Selects(v, n) => m = n

(* A state never assumes more than the conditions its path was split on    *)
(* (state_assume, state_create_withprops): what a path is told about the   *)
(* program is true in every case that the path stands for.                 *)
PropsFollowName ==
    \A n \in DOMAIN tree : \A s \in States(tree[n]) : \A v \in Valuation :
        Selects(v, n) => Satisfies(v, s.props)

(* ... and what a path is executed under holds in no other case: nothing   *)
(* of its name is forgotten on the way from the abstract to the body       *)
(* (path_init_actual, state_create_withprops).                             *)
NameFollowsProps ==
    \A n \in Unfinished : tree[n].path_state # "UNINIT" =>
        \A v \in Valuation :
            Satisfies(v, Executing(tree[n]).props) => Selects(v, n)

(* Whatever a path was split on, the two lookups of the code (props_get,   *)
(* props_contradicts) answer the way it was assumed, for the condition and *)
(* for its inversion, in the abstract and in the body.  An executor that   *)
(* looks a condition up before it gives up does not split a path on it     *)
(* again.                                                                  *)
SplitsAreDecided ==
    \A n \in Unfinished : tree[n].path_state # "UNINIT" =>
        \A i \in 1 .. Len(n) :
            LET P     == Executing(tree[n]).props
                plain == Positive(n[i].atom) IN
            \A c \in {plain, ast_expr_inverted_copy(plain)} :
                LET assumed == c = reduce_assume(n[i]) IN
                /\ props_get(P, c) <=> assumed
                /\ props_contradicts(P, c) <=> ~assumed

(* Only possible paths are executed: some truth values satisfy what an     *)
(* unfinished path has assumed, so that an error is never reported because *)
(* of a path that cannot be taken (the contradiction check in              *)
(* path_copywithcond).                                                     *)
UnfinishedPathsArePossible ==
    \A n \in Unfinished : \A s \in States(tree[n]) :
        \E v \in Valuation : Satisfies(v, s.props)

(* What `verified' means: for all truth values of the conditions there is  *)
(* a path that stands for them, that has been executed to the end of the   *)
(* abstract and of the body under assumptions that these values satisfy,   *)
(* and whose audit found no garbage and equal states.  A path that was     *)
(* dropped as a contradiction stands for no values.                        *)
VerifiedMeansAudited ==
    verdict = "verified" =>
        \A v \in Valuation : \E n \in Leaves :
            /\ Selects(v, n)
            /\ Audited(tree[n])
            /\ Satisfies(v, tree[n].actual.props)

(* A path is not split again on a condition it was split on: the executor  *)
(* decides it from the propositions (props_get, props_contradicts).  The   *)
(* code has no other protection against splitting for ever.                *)
NoRepeatedSplit ==
    \A n \in DOMAIN tree : \A i, j \in 1 .. Len(n) :
        n[i].atom = n[j].atom => i = j

(* ast_function_verify returns. *)
Termination == <>(verdict # "running")

=============================================================================
