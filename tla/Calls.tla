------------------------------- MODULE Calls -------------------------------
(***************************************************************************)
(* The functions that a statement calls, in the order in which the graph   *)
(* of calls meets them: ast_stmt_getfuncs (src/src/ast/stmt/stmt.c) and    *)
(* ast_expr_getfuncs (src/src/ast/expr/expr.c).                            *)
(*                                                                         *)
(* A tree is a record of its kind and its parts; what a name or an         *)
(* operator is does not matter here.                                       *)
(***************************************************************************)
EXTENDS Sequences, SequencesExt

(* Stands in a list where an assertion fails. *)
SearchFails == "assert(false)"

(* Expressions.  A leaf is an identifier, a constant, a string, or one of  *)
(* the specifications ($, @) that getfuncs does not look into.             *)
Leaf           == [kind |-> "leaf"]
CallOf(f, arg) == [kind |-> "call", name |-> f, sub |-> arg]
Wrapped(e)     == [kind |-> "wrapped", sub |-> <<e>>]   \* bracketed, unary, incdec
Paired(e1, e2) == [kind |-> "paired", sub |-> <<e1, e2>>] \* assignment, binary
Member(e)      == [kind |-> "member", sub |-> <<e>>]    \* e->field
Allocation(e)  == [kind |-> "allocation", sub |-> <<e>>]

(* Statements. *)
Nop              == [kind |-> "nop"]
Labelled(s)      == [kind |-> "labelled", sub |-> <<s>>]
Compound(ss)     == [kind |-> "compound", sub |-> ss]
Expression(e)    == [kind |-> "expression", sub |-> <<e>>]
Jump(e)          == [kind |-> "jump", sub |-> <<e>>]
Selection(e, ss) == [kind |-> "selection", sub |-> <<e>> \o ss] \* ss: body, else
Iteration(init, cond, iter, body) ==
    [kind |-> "iteration", init |-> init, cond |-> cond, iter |-> iter, body |-> body,
     sub |-> <<init, cond, iter, body>>]

-----------------------------------------------------------------------------

RECURSIVE ast_expr_getfuncs(_)
RECURSIVE ast_stmt_getfuncs(_)

InExprs(es) == FlattenSeq([k \in DOMAIN es |-> ast_expr_getfuncs(es[k])])

InStmts(ss) == FlattenSeq([k \in DOMAIN ss |-> ast_stmt_getfuncs(ss[k])])

ast_expr_call_getfuncs(e) == <<e.name>> \o InExprs(e.sub)

ast_expr_getfuncs(e) ==
    CASE e.kind \in {"leaf", "member"}    -> <<>>
      [] e.kind = "call"                  -> ast_expr_call_getfuncs(e)
      [] e.kind \in {"wrapped", "paired"} -> InExprs(e.sub)
      [] e.kind = "allocation"            -> <<SearchFails>>

(* The functions of a loop's step come after those of its body. *)
ast_stmt_iteration_getfuncs(s) ==
    InStmts(<<s.init, s.cond, s.body>>) \o ast_expr_getfuncs(s.iter)

ast_stmt_getfuncs(s) ==
    CASE s.kind = "nop"                      -> <<>>
      [] s.kind \in {"labelled", "compound"} -> InStmts(s.sub)
      [] s.kind \in {"expression", "jump"}   -> ast_expr_getfuncs(s.sub[1])
      [] s.kind = "selection"                ->
            ast_expr_getfuncs(s.sub[1]) \o InStmts(Tail(s.sub))
      [] s.kind = "iteration"                -> ast_stmt_iteration_getfuncs(s)

-----------------------------------------------------------------------------
(* The reference: all trees inside a tree, without those under a member    *)
(* access, which the code does not search (`f(x)->field' calls f unseen).  *)

RECURSIVE Visible(_)
Visible(t) ==
    {t} \cup IF t.kind \in {"leaf", "nop", "member"} THEN {}
             ELSE UNION {Visible(t.sub[i]) : i \in DOMAIN t.sub}

(* The functions that a statement names. *)
MentionsOf(s) == {t.name : t \in {u \in Visible(s) : u.kind = "call"}}

(* A statement on which getfuncs fails. *)
IsUnsearchable(s) == \E t \in Visible(s) : t.kind = "allocation"
=============================================================================
