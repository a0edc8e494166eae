------------------------------ MODULE OneCase ------------------------------
(***************************************************************************)
(* What verifying a function means in one case: the truth values of the    *)
(* conditions are given, the abstract is executed, then the body, then the *)
(* two are audited.  There is no tree, no copy and no sweep here, and an   *)
(* undecidable condition is assumed in the form that is true.              *)
(*                                                                         *)
(* Module EachCase says how the tree of module Path implements this for    *)
(* all cases at once.  The executor is the one of module Path.             *)
(***************************************************************************)
EXTENDS Props

CONSTANTS
    truth,                  \* the case, a valuation of the conditions
    Functions,
    state_init(_),
    state_init_actual(_, _),
    state_step(_, _),
    state_atend(_),
    state_hasgarbage(_),
    state_equal(_, _),
    NoState

VARIABLES
    fn,         \* the function that is verified
    path_state, \* what is under execution, or "ATEND"
    abstract,   \* the state of the abstract
    actual      \* the state of the body

vars == <<fn, path_state, abstract, actual>>

(* The form of condition c that holds in this case. *)
TrueForm(c) == IF Holds(truth, c) THEN c ELSE ast_expr_inverted_copy(c)

(* State s once it has made a step with result r. *)
Stepped(s, r) ==
    [x     |-> r.x,
     props |-> IF r.kind = "undecided"
               THEN props_install(s.props, reduce_assume(TrueForm(r.cond)))
               ELSE s.props]

AtAudit == path_state = "ACTUAL" /\ state_atend(actual.x)

Passes == /\ state_hasgarbage(actual.x) = "no"
          /\ state_equal(actual.x, abstract.x) = "yes"

-----------------------------------------------------------------------------

Init ==
    /\ fn \in Functions
    /\ path_state = "UNINIT"
    /\ abstract = NoState
    /\ actual = NoState

BeginAbstract ==
    /\ path_state = "UNINIT"
    /\ state_init(fn).kind = "ok"
    /\ path_state' = "ABSTRACT"
    /\ abstract' = [x |-> state_init(fn).x, props |-> {}]
    /\ UNCHANGED <<fn, actual>>

StepAbstract ==
    LET r == state_step(abstract.x, abstract.props) IN
    /\ path_state = "ABSTRACT"
    /\ ~state_atend(abstract.x)
    /\ r.kind \in {"ok", "undecided"}
    /\ abstract' = Stepped(abstract, r)
    /\ UNCHANGED <<fn, path_state, actual>>

BeginActual ==
    LET r == state_init_actual(fn, abstract.props) IN
    /\ path_state = "ABSTRACT"
    /\ state_atend(abstract.x)
    /\ r.kind = "ok"
    /\ path_state' = "ACTUAL"
    /\ actual' = [x |-> r.x, props |-> abstract.props]
    /\ UNCHANGED <<fn, abstract>>

StepActual ==
    LET r == state_step(actual.x, actual.props) IN
    /\ path_state = "ACTUAL"
    /\ ~state_atend(actual.x)
    /\ r.kind \in {"ok", "undecided"}
    /\ actual' = Stepped(actual, r)
    /\ UNCHANGED <<fn, path_state, abstract>>

Accept ==
    /\ AtAudit
    /\ Passes
    /\ path_state' = "ATEND"
    /\ UNCHANGED <<fn, abstract, actual>>

Next == BeginAbstract \/ StepAbstract \/ BeginActual \/ StepActual \/ Accept

Spec == Init /\ [][Next]_vars

-----------------------------------------------------------------------------
(* The verification of this case ends here with an error, or an assertion  *)
(* of the executor fails.  There is no split while a state is initialised. *)

Kind(r) == IF r.kind = "undecided" THEN "error" ELSE r.kind

(* state_equal is asked only when there is no garbage. *)
AuditFinds(garbage, same) ==
    \/ state_hasgarbage(actual.x) = garbage
    \/ state_hasgarbage(actual.x) = "no" /\ state_equal(actual.x, abstract.x) = same

Fails(kind) ==
    \/ path_state = "UNINIT" /\ Kind(state_init(fn)) = kind
    \/ /\ path_state = "ABSTRACT" /\ ~state_atend(abstract.x)
       /\ state_step(abstract.x, abstract.props).kind = kind
    \/ /\ path_state = "ABSTRACT" /\ state_atend(abstract.x)
       /\ Kind(state_init_actual(fn, abstract.props)) = kind
    \/ /\ path_state = "ACTUAL" /\ ~state_atend(actual.x)
       /\ state_step(actual.x, actual.props).kind = kind
    \/ AtAudit /\ kind = "error" /\ AuditFinds("yes", "no")
    \/ AtAudit /\ kind = "abort" /\ AuditFinds("abort", "abort")

=============================================================================
