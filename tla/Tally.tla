------------------------------- MODULE Tally -------------------------------
(***************************************************************************)
(* Linear arithmetic (src/src/math/math.c, and ast_expr_matheval in        *)
(* src/src/ast/expr/expr.c): how offsets and bounds are compared.          *)
(*                                                                         *)
(* Every comparison tallies both sides: the coefficient of each variable   *)
(* and a number.  An expression is here its tally, and the constructors    *)
(* are what tally() computes for them.  (The tally of e1 - e2 is that of   *)
(* e1 + -e2, as in binary_e2.)  Numbers do not overflow: they come from    *)
(* small constants of the program.                                         *)
(***************************************************************************)
EXTENDS Integers, FiniteSets

(* A linear expression: integer coefficients of finitely many variables,   *)
(* and a number. *)
IsTally(e) ==
    /\ e = [map |-> e.map, num |-> e.num]
    /\ e.num \in Int
    /\ e.map \in [DOMAIN e.map -> Int]
    /\ IsFiniteSet(DOMAIN e.map)

map_get(m, v) == IF v \in DOMAIN m THEN m[v] ELSE 0

(* Mutant: the variables of the second map are forgotten. *)
map_sum_first(m1, m2) == [v \in DOMAIN m1 |-> map_get(m1, v) + map_get(m2, v)]

(* A variable that cancels out stays in the map, with coefficient 0. *)
map_sum(m1, m2) ==
    [v \in DOMAIN m1 \cup DOMAIN m2 |-> map_get(m1, v) + map_get(m2, v)]

constant(n)   == [map |-> [v \in {} |-> 0], num |-> n]
identifier(x) == [map |-> [v \in {x} |-> 1], num |-> 0]

sum_tally(e1, e2) == [map |-> map_sum(e1.map, e2.map), num |-> e1.num + e2.num]

neg_tally(e) == [map |-> [v \in DOMAIN e.map |-> -e.map[v]], num |-> -e.num]

difference(e1, e2) == sum_tally(e1, neg_tally(e2))

(* The loop over the variables has no effect: the result is overwritten    *)
(* with the comparison of how many variables there are.  So n equals m,    *)
(* and 0 does not equal n - n.                                             *)
variable_tally_eq(m1, m2) == Cardinality(DOMAIN m1) = Cardinality(DOMAIN m2)

math_le(e1, e2) == variable_tally_eq(e1.map, e2.map) /\ e1.num <= e2.num
math_eq(e1, e2) == math_le(e1, e2) /\ math_le(e2, e1)
math_lt(e1, e2) == math_le(e1, e2) /\ ~math_eq(e1, e2)
math_gt(e1, e2) == math_lt(e2, e1)
math_ge(e1, e2) == math_le(e2, e1)

-----------------------------------------------------------------------------
(* What the comparisons should mean. *)

IsNumber(e) == DOMAIN e.map = {}

(* Both sides have the same variables with the same coefficients. *)
SameVariables(e1, e2) == e1.map = e2.map

=============================================================================
