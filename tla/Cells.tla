------------------------------- MODULE Cells -------------------------------
(***************************************************************************)
(* What a block promises the functions that are verified with it: an array *)
(* of cells, each of which may hold a heap block.  A statement is accepted *)
(* only if it is defined for the cells as they are, and the audit is       *)
(* "clean" only if every block that was made was freed or is still held.   *)
(*                                                                         *)
(* cell[k]: "absent" (never looked at), "unset", "number", "held" (holds a *)
(* live block) or "dangling".  lost: a live block is held by no cell.      *)
(***************************************************************************)
EXTENDS Integers

CONSTANT N          \* cells 0 .. N-1

VARIABLES cell, lost, verdict

Index == 0 .. N - 1

Init ==
    /\ cell = [k \in Index |-> "absent"]
    /\ lost = FALSE
    /\ verdict = "running"

With(ks, c) == [k \in Index |-> IF k \in ks THEN c ELSE cell[k]]

(* `a[k] = x;': a block that only this cell held is lost. *)
Assign ==
    /\ UNCHANGED verdict
    /\ \E k \in Index, c \in {"number", "held"} :
           /\ lost' = (lost \/ cell[k] = "held")
           /\ cell' = With({k}, c)

(* `free(a[k]);' *)
Free ==
    \E k \in Index :
        /\ cell[k] = "held"
        /\ cell' = With({k}, "dangling")
        /\ UNCHANGED <<lost, verdict>>

(* `~ [ @a[k]; ]' *)
Check ==
    \E k \in Index :
        /\ cell[k] \in {"held", "dangling"}
        /\ UNCHANGED <<cell, lost, verdict>>

(* A loop `a[i] = malloc(1);' over cells lw .. up-1 of an array not used   *)
(* before. *)
AllocRange ==
    \E lw \in 0 .. N, up \in 0 .. N :
        /\ lw < up /\ \A k \in Index : cell[k] = "absent"
        /\ cell' = With(lw .. up - 1, "held")
        /\ UNCHANGED <<lost, verdict>>

(* A loop `free(a[i]);' over cells that all hold a block: the other cells  *)
(* are as they were.  Which cells the bounds of the statement name is not  *)
(* said here: see EmptyLoopFreesNothing in module Ranges.                  *)
FreeRange ==
    \E lw \in 0 .. N, up \in 0 .. N :
        /\ lw < up /\ \A k \in lw .. up - 1 : cell[k] = "held"
        /\ cell' = With(lw .. up - 1, "absent")
        /\ UNCHANGED <<lost, verdict>>

(* `free(a);' *)
FreeArray ==
    /\ cell' = [k \in Index |-> "absent"]
    /\ lost' = (lost \/ \E k \in Index : cell[k] = "held")
    /\ UNCHANGED verdict

Audit ==
    /\ verdict' = IF lost THEN "garbage" ELSE "clean"
    /\ UNCHANGED <<cell, lost>>

(* A statement may always be refused. *)
Refuse ==
    /\ verdict' \in {"error", "abort"}
    /\ UNCHANGED <<cell, lost>>

Next ==
    /\ verdict = "running"
    /\ \/ Refuse \/ Audit \/ Check \/ FreeArray \/ Assign \/ Free
       \/ AllocRange \/ FreeRange

=============================================================================
