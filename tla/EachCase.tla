------------------------------ MODULE EachCase ------------------------------
(***************************************************************************)
(* What the tree of module Path does for each case: the leaf that stands   *)
(* for some truth values of the conditions is where the verification of    *)
(* this case alone (module OneCase) would be.                              *)
(***************************************************************************)
EXTENDS Path

(* The path that stands for the case v. *)
PathOf(v) == tree[CHOOSE n \in Leaves : Selects(v, n)]

Alone(v) == INSTANCE OneCase WITH
                truth      <- v,
                path_state <- PathOf(v).path_state,
                abstract   <- PathOf(v).abstract,
                actual     <- PathOf(v).actual

-----------------------------------------------------------------------------
(* Properties. *)

(* The tree implements the verification of every case on its own:          *)
(* whichever conditions are met and in whatever order the leaves are       *)
(* swept, the splits, the copies and the dropped copies neither skip nor   *)
(* repeat nor change a step of a case (path_split, path_copywithcond,      *)
(* path_step_split).                                                       *)
EachCaseAlone ==
    /\ \A v \in Valuation : Alone(v)!Init
    /\ [][\A v \in Valuation : Alone(v)!Next \/ UNCHANGED Alone(v)!vars]_vars

(* An error or a failed assertion is reported only of a function for which *)
(* the verification of some case alone ends so: never of a copy that       *)
(* stands for no case, nor by one path of what another has assumed.        *)
ReportedIsSomeCase ==
    verdict \in {"error", "abort"} => \E v \in Valuation : Alone(v)!Fails(verdict)

=============================================================================
