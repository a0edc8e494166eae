------------------------------- MODULE Props -------------------------------
(***************************************************************************)
(* The propositions a symbolic state has assumed (src/src/props/props.c).  *)
(*                                                                         *)
(* A proposition is an irreducible expression under some number of `!'.    *)
(* ast_expr_inverted_copy always puts one more `!' in front and never      *)
(* cancels two of them, so the number of bangs is kept as it is: x and !!x *)
(* are different propositions to this code.  The irreducible expression    *)
(* itself (a symbolic constant, a call of symbolic arguments, ...) is only *)
(* ever compared for equality: it is an element of Atoms.                  *)
(*                                                                         *)
(* The array of propositions is a set here: the code never looks at the    *)
(* order of the array or at a duplicate in it.                             *)
(***************************************************************************)
EXTENDS Naturals

CONSTANT Atoms      \* irreducible expressions, compared by ast_expr_equal

(* An expression: `bangs' many `!' in front of an irreducible one. *)
Cond == [atom : Atoms, bangs : Nat]

(* What reduce_assume installs: it strips the bangs and keeps the parity. *)
Literal == [atom : Atoms, bangs : {0, 1}]

Positive(a) == [atom |-> a, bangs |-> 0]

ast_expr_isnot(c) == c.bangs > 0

ast_expr_inverted_copy(c) == [c EXCEPT !.bangs = c.bangs + 1]

(* Mutant: the bangs are stripped and forgotten. *)
reduce_assume_unsigned(c) == Positive(c.atom)

(* ast_expr_assume / reduce_assume: an even number of bangs assumes the    *)
(* expression, an odd number assumes its negation.                         *)
reduce_assume(c) == [c EXCEPT !.bangs = c.bangs % 2]

(* Mutant: only the new proposition is looked at for a `!'. *)
props_contradicts_oneway(P, c) == \E p \in P : c = ast_expr_inverted_copy(p)

(* props_contradicts: one of the two is literally `!' of the other. *)
props_contradicts(P, c) ==
    \E p \in P : \/ c = ast_expr_inverted_copy(p)
                 \/ ast_expr_inverted_copy(c) = p

(* props_get: a negated expression counts as known as soon as nothing      *)
(* contradicts it; any other one must be in the array.                     *)
props_get(P, c) ==
    IF ast_expr_isnot(c) THEN ~props_contradicts(P, c) ELSE c \in P

(* Mutant: the last proposition is overwritten. *)
props_install_overwrite(P, c) == {c}

props_install(P, c) == P \cup {c}

-----------------------------------------------------------------------------
(* The meaning of propositions, for the properties only. *)

Valuation == [Atoms -> BOOLEAN]

Holds(v, c) == v[c.atom] <=> c.bangs % 2 = 0

Satisfies(v, P) == \A p \in P : Holds(v, p)

=============================================================================
