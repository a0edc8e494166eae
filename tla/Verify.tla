------------------------------- MODULE Verify -------------------------------
(***************************************************************************)
(* ast_function_verify with the real executor: module Path over module     *)
(* Exec.  The functions are the ones of Program; Functions are the names   *)
(* of those that are verified.                                             *)
(***************************************************************************)
EXTENDS Exec

CONSTANTS
    Functions,
    XState,     \* the type of a state of Exec, which nothing here enumerates
    NoState

VARIABLES fn, tree, turn, verdict

Paths == INSTANCE Path

Spec == Paths!Spec

-----------------------------------------------------------------------------
(* Properties. *)

Runs == INSTANCE Concrete

(* A verified function is safe: whatever its arguments, running its body   *)
(* never frees, reads or writes a block that is not live and never uses a  *)
(* variable or cell that has no value (README.md: `guarantee the safety of *)
(* C programs ... use-after-frees, double frees, ... uses of uninitialised *)
(* memory').                                                               *)
VerifiedIsSafe == verdict = "verified" => Runs!NoFault(Program[fn])

(* A verified function keeps its abstract: it leaks nothing, and leaves    *)
(* its result and its caller's blocks as the abstract says (path_audit:    *)
(* `garbage on heap', `actual and abstract states differ').                *)
VerifiedConforms == verdict = "verified" => Runs!Conforms(Program[fn])

(* No false alarm but one: a function that is reported has a run that      *)
(* faults, leaks or departs from its abstract, or one that allocates its   *)
(* blocks in another order than its abstract does (state_equal compares    *)
(* the blocks number by number, freed ones counted).                       *)
ReportedIsWrong ==
    verdict = "error" => ~Runs!Right(Program[fn])

(* A statement of f stores through a pointer that no statement before it   *)
(* has assigned. *)
StoresThroughUnset(f) ==
    LET assigns(st, l) == st.k = "expr" /\ st.e.k = "assign" /\ st.e.l = l
        id(x)          == [k |-> "id", id |-> x] IN
    \E x \in Range(f.body.decls), i \in DOMAIN f.body.stmts :
        /\ assigns(f.body.stmts[i], [k |-> "deref", e |-> id(x)])
        /\ \A j \in 1 .. i - 1 : ~assigns(f.body.stmts[j], id(x))

(* The verifier's own assertions hold, whatever it is given, but for       *)
(* assert(root_val) in expr_unary_lvalue when a body stores through a      *)
(* pointer it has not assigned.                                            *)
NoAbort == verdict = "abort" => StoresThroughUnset(Program[fn])

(* A path is not split twice on one condition: the executor decides what   *)
(* it has assumed (props_get), or the verification would not end.          *)
NoRepeatedSplit == Paths!NoRepeatedSplit

=============================================================================
