-------------------------------- MODULE Exec --------------------------------
(***************************************************************************)
(* The symbolic executor: statements (src/src/ast/stmt/verify.c),          *)
(* expressions (src/src/ast/expr/verify.c), calls and the set-up of a      *)
(* function (src/src/ast/function/function.c), the stepping of a frame     *)
(* (program_counter in src/src/state/stack.c) and the two questions of the *)
(* audit (state_hasgarbage, state_equal).                                  *)
(*                                                                         *)
(* Programs are syntax trees: records with a field k, the kind.  A state x *)
(* is a state of module State; P are its propositions.  Every operator     *)
(* returns a result: the state as the operation left it, and               *)
(*   "ok"         with a value v (NoValue for a NULL value),               *)
(*   "error"      an error that is reported to the user,                   *)
(*   "undecided"  an error that holds an undecidable condition,            *)
(*   "abort"      a failed assertion (or the use of a NULL pointer).       *)
(*                                                                         *)
(* Left out: struct values, ++ and --, loops and their deallocand ranges,  *)
(* verification blocks (~ [ ... ] statements), offsets that are not        *)
(* constants, and the types of variables, expressions and results.  An     *)
(* `else' with an empty statement is not told apart from no `else'.  The   *)
(* value of `!e' as an argument is the literal "hack", as in the code; a   *)
(* condition over such a call is outside the model.                        *)
(***************************************************************************)
EXTENDS Props, Audit

CONSTANT Program    \* the externals: name -> function

Ok(x, v)        == [kind |-> "ok", x |-> x, v |-> v]
Error(x)        == [kind |-> "error", x |-> x]
Undecided(x, c) == [kind |-> "undecided", x |-> x, cond |-> c]
Abort           == [kind |-> "abort"]

Then(r, F(_, _)) == IF r.kind = "ok" THEN F(r.x, r.v) ELSE r

-----------------------------------------------------------------------------
(* Expressions that are values: what value_to_expr writes.  Symbolic       *)
(* constants, pointers, numbers, literals, calls and binary expressions    *)
(* are irreducible; only `!' has an inside that matters.                   *)

value_to_expr(v) ==
    CASE v.type = "SYNC"    -> v.e
      [] v.type = "PTR"     -> Positive(<<"ptr", v.loc>>)
      [] v.type = "INT"     -> Positive(<<"int", v.n>>)
      [] v.type = "LITERAL" -> Positive(<<"lit", v.s>>)

state_vconst(x, comment, persist) ==
    Ok(vconst_declare(x, comment, persist),
       value_sync_create(Positive(vconst_id(x.vconst, persist))))

-----------------------------------------------------------------------------
(* Reading and naming objects.  A place is the location of an object. *)

(* state_deref: the place of *(v+offset), or NoValue for a NULL object. *)
state_deref(x, v, offset) ==
    IF value_issync(v) THEN Ok(x, NoValue)
    ELSE IF ~value_islocation(v) \/ v.loc.offset # 0 THEN Abort
    ELSE LET loc == [v.loc EXCEPT !.offset = offset]
             got == location_getblock(x, loc) IN
         CASE got = "ok"    -> Ok(state_get(x, loc), loc)
           [] got = "none"  -> Ok(x, NoValue)
           [] got = "error" -> Error(x)
           [] got = "abort" -> Abort

(* ast_expr_lvalue.  Behind `p[i]' an error is dropped and a NULL lvalue   *)
(* is used; behind `*p' it is reported.                                    *)
RECURSIVE ast_expr_lvalue(_, _)
ast_expr_lvalue(e, x) ==
    CASE e.k = "id" ->
            IF e.id = "return" \/ e.id \in Declared(Top(x))
            THEN Ok(x, stack_getvariable(x, e.id))
            ELSE Error(x)
      [] e.k \in {"deref", "index"} ->
            IF e.k = "deref" /\ e.e.k # "id" THEN Abort ELSE
            Then(ast_expr_lvalue(e.e, x), LAMBDA x1, root :
                IF root = NoValue \/ object_as_value(x1, root) = NoValue THEN Abort
                ELSE LET r == state_deref(x1, object_as_value(x1, root),
                                          IF e.k = "index" THEN e.off ELSE 0) IN
                     IF e.k = "index" /\ r.kind = "error" THEN Abort ELSE r)
      [] OTHER -> Abort

(* An identifier that has a value. *)
expr_identifier_eval(id, x) ==
    Then(ast_expr_lvalue([k |-> "id", id |-> id], x), LAMBDA x1, place :
        IF object_as_value(x1, place) = NoValue THEN Error(x1)
        ELSE Ok(x1, object_as_value(x1, place)))

assign(x, l, v) ==
    IF v = NoValue THEN Abort ELSE
    Then(ast_expr_lvalue(l, x), LAMBDA x1, place :
        IF place = NoValue THEN Error(x1)
        ELSE Ok(object_assign(x1, place, v), v))

-----------------------------------------------------------------------------
(* Conditions. *)

(* ast_expr_pf_reduce: a call is not executed, it stays as an expression.  *)
(* Below `!' there must be a symbolic value.                               *)
RECURSIVE ast_expr_pf_reduce(_, _)
ast_expr_pf_reduce(e, x) ==
    CASE e.k = "const" -> Ok(x, value_int_create(e.n))
      [] e.k = "id"    -> expr_identifier_eval(e.id, x)
      [] e.k = "lit"   -> LET x1 == state_static_init(x, e.s)
                          IN Ok(x1, value_ptr_create(static_location(x1, e.s)))
      [] e.k = "not"   ->
            Then(ast_expr_pf_reduce(e.e, x), LAMBDA x1, v :
                IF ~value_issync(v) THEN Abort
                ELSE Ok(x1, value_sync_create(ast_expr_inverted_copy(v.e))))
      [] e.k = "bin"   ->
            Then(ast_expr_pf_reduce(e.e1, x), LAMBDA x1, v1 :
            Then(ast_expr_pf_reduce(e.e2, x1), LAMBDA x2, v2 :
                Ok(x2, value_sync_create(
                        Positive(<<"bin", e.op, value_to_expr(v1), value_to_expr(v2)>>)))))
      [] e.k = "call"  ->
            LET args == FoldLeft(
                    LAMBDA r, a : Then(r, LAMBDA x1, vs :
                        Then(ast_expr_pf_reduce(a, x1), LAMBDA x2, v :
                            Ok(x2, Append(vs, value_to_expr(v))))),
                    Ok(x, <<>>), e.args) IN
            Then(args, LAMBDA x1, vs :
                Ok(x1, value_sync_create(Positive(<<"call", e.f, vs>>))))
      [] OTHER -> Abort

(* sel_decide: "ok" with v TRUE or FALSE, or undecided. *)
sel_decide(cond, x, P) ==
    Then(ast_expr_pf_reduce(cond, x), LAMBDA x1, v :
        CASE value_issync(v) /\ props_get(P, v.e) -> Ok(x1, TRUE)
          [] value_issync(v) /\ ~props_get(P, v.e) /\ props_contradicts(P, v.e) -> Ok(x1, FALSE)
          [] v.type = "INT" -> Ok(x1, v.n # 0)
          [] v.type = "LITERAL" -> Abort      \* the split cannot assume a literal
          [] OTHER -> Undecided(x1, value_to_expr(v)))

(* ast_stmt_isterminal: the condition of a selection is decided once more  *)
(* in the state after it was executed, and its else branch is not looked   *)
(* at.                                                                     *)
RECURSIVE ast_stmt_isterminal(_, _, _)
ast_stmt_isterminal(st, x, P) ==
    CASE st.k = "return" -> Ok(x, TRUE)
      [] st.k = "comp"   ->
            FoldLeft(LAMBDA r, t : Then(r, LAMBDA x1, done :
                        IF done THEN r ELSE ast_stmt_isterminal(t, x1, P)),
                     Ok(x, FALSE), st.stmts)
      [] st.k = "sel"    ->
            LET dec == sel_decide(st.cond, x, P) IN
            IF dec.kind # "ok" THEN Abort
            ELSE IF dec.v THEN ast_stmt_isterminal(st.body, dec.x, P)
            ELSE Ok(dec.x, FALSE)
      [] OTHER -> Ok(x, FALSE)

-----------------------------------------------------------------------------
(* Evaluation, execution of a body, and execution of an abstract call each *)
(* other: a call executes the abstract of the callee.                      *)

RECURSIVE ast_expr_eval(_, _, _)
RECURSIVE ast_expr_abseval(_, _, _)
RECURSIVE ast_stmt_absexec(_, _, _, _)
RECURSIVE verify_paramspec(_, _, _, _)

NeedValue(r) == IF r.kind = "ok" /\ r.v = NoValue THEN Abort ELSE r

(* Arguments are all evaluated before the first error among them counts. *)
prepare_arguments(args, x, P) ==
    FoldLeft(LAMBDA acc, a :
                IF acc.last.kind = "abort" THEN acc
                ELSE LET r == ast_expr_eval(a, acc.last.x, P)
                     IN [last |-> r, res |-> Append(acc.res, r)],
             [last |-> Ok(x, NoValue), res |-> <<>>], args)

(* expr_binary_eval: both sides have been evaluated. *)
expr_binary(op, args) ==
    IF args.last.kind = "abort" THEN Abort
    ELSE IF args.res[1].kind # "ok" THEN [args.res[1] EXCEPT !.x = args.last.x]
    ELSE Then(args.last, LAMBDA x1, v2 :
            Ok(x1, value_sync_create(Positive(
                <<"bin", op, value_to_expr(args.res[1].v), value_to_expr(v2)>>))))

(* The callee's parameters are declared one by one; the frame stays on the *)
(* stack when one of them fails.                                           *)
prepare_parameters(params, res, x) ==
    FoldLeft(LAMBDA r, i : Then(r, LAMBDA x1, v :
                LET x2 == state_declare(x1, params[i], TRUE) IN
                CASE res[i].kind = "undecided" -> Undecided(x2, res[i].cond)
                  [] res[i].kind = "error"     -> Error(x2)
                  [] res[i].kind = "ok"        ->
                        IF res[i].v = NoValue THEN Error(x2)
                        ELSE Ok(object_assign(x2, stack_getvariable(x2, params[i]), res[i].v),
                                NoValue)),
             Ok(x, NoValue), [i \in 1 .. Len(params) |-> i])

(* verify_paramspec follows a parameter that the callee's setup points     *)
(* somewhere, and the argument with it.                                    *)
verify_paramspec(param, arg, px, ax) ==
    LET plval == IF value_islocation(param) THEN state_islval(px, param.loc) ELSE "no"
        alval == IF value_islocation(arg) THEN state_islval(ax, arg.loc) ELSE "no" IN
    CASE plval = "abort" -> "abort"
      [] plval = "no"    -> "ok"
      [] plval = "yes"   ->
        CASE alval = "abort" -> "abort"
          [] alval = "no"    -> "error"
          [] alval = "yes"   ->
            LET pv == object_as_value(state_get(px, param.loc), param.loc)
                av == object_as_value(state_get(ax, arg.loc), arg.loc) IN
            IF state_isalloc(px, param.loc) /\ ~state_isalloc(ax, arg.loc) THEN "error"
            ELSE IF pv = NoValue THEN "ok"
            ELSE IF av = NoValue THEN "error"
            ELSE verify_paramspec(pv, av, state_get(px, param.loc), state_get(ax, arg.loc))

(* ast_block_preconds: the `setup' statements of an abstract, of which the *)
(* first is validated and executed.  It may not hold a selection.          *)
ast_block_preconds(block) == SelectSeq(block.stmts, LAMBDA st : st.k = "setup")

RECURSIVE ast_stmt_preconds_validate(_, _)
ast_stmt_preconds_validate(st, x) ==
    CASE st.k = "expr" -> Ok(x, NoValue)
      [] st.k = "sel"  -> Error(x)
      [] st.k = "comp" ->
            FoldLeft(LAMBDA r, t : Then(r, LAMBDA y, v : ast_stmt_preconds_validate(t, y)),
                     Ok(x, NoValue), st.stmts)
      [] OTHER -> Abort

ast_function_precondsinit(f, x, P) ==
    LET pre == ast_block_preconds(f.abstract) IN
    IF pre = <<>> THEN Ok(x, NoValue)
    ELSE Then(ast_stmt_preconds_validate(pre[1].s, x), LAMBDA y, v :
            ast_stmt_absexec(pre[1].s, y, P, TRUE))

(* Parameters the setup says nothing of are symbolic constants. *)
inititalise_param(x, id) ==
    LET place == stack_getvariable(x, id)
        r     == state_vconst(x, id, TRUE) IN
    IF object_as_value(x, place) # NoValue THEN Ok(x, NoValue)
    ELSE Ok(object_assign(r.x, place, r.v), NoValue)

ast_function_initparams(f, x, P) ==
    LET declared == FoldLeft(LAMBDA y, id : state_declare(y, id, TRUE), x, f.params) IN
    Then(ast_function_precondsinit(f, declared, P), LAMBDA x1, v :
        FoldLeft(LAMBDA r, id : Then(r, LAMBDA y, w : inititalise_param(y, id)),
                 Ok(x1, NoValue), f.params))

(* Mutant: what the callee requires is not verified. *)
call_setupverify_not(f, x) == Ok(x, NoValue)

(* call_setupverify runs on a copy: only its verdict is kept. *)
OnCopy(x, r) == IF r.kind = "abort" THEN r ELSE [r EXCEPT !.x = x]

Answer(x, ans) ==
    CASE ans = "ok"    -> Ok(x, NoValue)
      [] ans = "error" -> Error(x)
      [] ans = "abort" -> Abort

call_setupverify(f, x) ==
    LET param(y, id) == value_ptr_create(stack_getvariable(y, id)) IN
    OnCopy(x, Then(ast_function_initparams(f, state_create(f.abstract, TRUE), {}), LAMBDA init, v :
        FoldLeft(LAMBDA r, id : Then(r, LAMBDA y, w :
                    Answer(init, verify_paramspec(param(init, id), param(x, id), init, x))),
                 Ok(init, NoValue), f.params)))

(* call_absexec: every statement of the abstract, then the result; a call  *)
(* without a result is an irreducible expression of its parameters.        *)
call_to_computed_value(f, x) ==
    LET param(i) == expr_identifier_eval(f.params[i], x) IN
    IF \E i \in 1 .. Len(f.params) : param(i).kind # "ok" THEN Error(x)
    ELSE Ok(x, value_sync_create(Positive(<<"call", f.name,
                [i \in 1 .. Len(f.params) |-> value_to_expr(param(i).v)]>>)))

(* Mutant: the callee's setup is executed as well. *)
call_absexec_setup(f, x, P) ==
    LET ran == FoldLeft(LAMBDA r, st : Then(r, LAMBDA y, v : ast_stmt_absexec(st, y, P, TRUE)),
                        Ok(x, NoValue), f.abstract.stmts) IN
    Then(ran, LAMBDA x1, v : Ok(x1, object_as_value(x1, stack_getvariable(x1, "return"))))

(* Mutant: the result is lost. *)
call_absexec_noresult(f, x, P) ==
    FoldLeft(LAMBDA r, st : Then(r, LAMBDA y, v : Then(ast_stmt_absexec(st, y, P, FALSE),
                                                       LAMBDA z, w : Ok(z, NoValue))),
             Ok(x, NoValue), f.abstract.stmts)

call_absexec(f, x, P) ==
    LET declared == FoldLeft(LAMBDA y, id : state_declare(y, id, FALSE), x, f.abstract.decls)
        ran == FoldLeft(LAMBDA r, st : Then(r, LAMBDA y, v : ast_stmt_absexec(st, y, P, FALSE)),
                        Ok(declared, NoValue), f.abstract.stmts) IN
    Then(ran, LAMBDA x1, v :
        LET result == object_as_value(x1, stack_getvariable(x1, "return")) IN
        IF result # NoValue THEN Ok(x1, result) ELSE call_to_computed_value(f, x1))

(* A call with its arguments evaluated.  On an error the callee's frame is *)
(* not popped.                                                             *)
expr_call(f, args, P) ==
    IF args.last.kind = "abort" THEN Abort ELSE
    Then(prepare_parameters(f.params, args.res, state_pushframe(args.last.x, f.abstract, TRUE)),
        LAMBDA x1, v1 :
    Then(call_setupverify(f, x1), LAMBDA x2, v2 :
    Then(call_absexec(f, x2, P), LAMBDA x3, v3 :
        Ok(state_popframe(x3), v3))))

expr_call_eval(e, x, P) ==
    LET f == Program[e.f] IN
    IF e.f \notin DOMAIN Program \/ Len(e.args) # Len(f.params) THEN Error(x)
    ELSE expr_call(f, prepare_arguments(e.args, x, P), P)

ast_expr_eval(e, x, P) ==
    CASE e.k \in {"const", "lit"} -> ast_expr_pf_reduce(e, x)
      [] e.k = "id"   -> expr_identifier_eval(e.id, x)
      [] e.k = "not"  -> Ok(x, value_literal_create("hack"))
      [] e.k = "addr" -> IF e.id \in Declared(Top(x))
                         THEN Ok(x, value_ptr_create(stack_getvariable(x, e.id)))
                         ELSE Abort
      [] e.k \in {"deref", "index"} ->
            Then(ast_expr_eval(e.e, x, P), LAMBDA x1, v :
            Then(state_deref(x1, v, IF e.k = "index" THEN e.off ELSE 0), LAMBDA x2, place :
                IF place = NoValue THEN Error(x2)
                ELSE IF object_as_value(x2, place) = NoValue THEN Error(x2)
                ELSE Ok(x2, object_as_value(x2, place))))
      [] e.k = "call"   -> expr_call_eval(e, x, P)
      [] e.k = "assign" -> Then(NeedValue(ast_expr_eval(e.r, x, P)),
                                LAMBDA x1, v : assign(x1, e.l, v))
      [] e.k = "bin"    -> expr_binary(e.op, prepare_arguments(<<e.e1, e.e2>>, x, P))
      [] e.k = "arb"    -> state_vconst(x, "", FALSE)
      [] OTHER          -> Abort

(* alloc_absexec, dealloc_process *)
alloc_absexec(e, x, P) ==
    CASE e.k = "alloc"   -> Ok(heap_newblock(x), value_ptr_create(location_create_dynamic(Len(x.heap))))
      [] e.k = "clump"   -> Ok(clump_newblock(x),
                               value_ptr_create(location_create_dereferencable(Len(x.clump))))
      [] e.k = "dealloc" -> Then(ast_expr_eval(e.e, x, P), LAMBDA x1, v :
                                IF state_dealloc_ok(x1, v) THEN Ok(state_dealloc(x1, v), NoValue)
                                ELSE Error(x1))

ast_expr_abseval(e, x, P) ==
    CASE e.k = "assign" -> Then(NeedValue(ast_expr_abseval(e.r, x, P)),
                                LAMBDA x1, v : assign(x1, e.l, v))
      [] e.k \in {"alloc", "dealloc", "clump"} -> alloc_absexec(e, x, P)
      [] e.k \in {"lit", "bin"} -> Abort
      [] OTHER -> ast_expr_eval(e, x, P)

(* What expr_absexec and jump_absexec evaluate.                             *)
absexec_expr(st) ==
    IF st.k = "expr" THEN st.e
    ELSE [k |-> "assign", l |-> [k |-> "id", id |-> "return"], r |-> st.e]

(* ast_stmt_absexec: a statement of an abstract.  A `return' does not end  *)
(* a compound statement.                                                   *)
ast_stmt_absexec(st, x, P, should_setup) ==
    CASE st.k = "nop"    -> Ok(x, NoValue)
      [] st.k = "setup"  -> IF should_setup THEN ast_stmt_absexec(st.s, x, P, should_setup)
                            ELSE Ok(x, NoValue)
      [] st.k \in {"expr", "return"} -> ast_expr_abseval(absexec_expr(st), x, P)
      [] st.k = "sel"    ->
            Then(sel_decide(st.cond, x, P), LAMBDA x1, dec :
                IF dec THEN ast_stmt_absexec(st.body, x1, P, should_setup)
                ELSE ast_stmt_absexec(st.nest, x1, P, should_setup))
      [] st.k = "comp"   ->
            FoldLeft(LAMBDA r, t : Then(r, LAMBDA y, v : ast_stmt_absexec(t, y, P, should_setup)),
                     Ok(x, NoValue), st.stmts)

(* ast_stmt_exec: a statement of a body. *)
RECURSIVE ast_stmt_exec(_, _, _)
ast_stmt_exec(st, x, P) ==
    CASE st.k = "nop"    -> Ok(x, NoValue)
      [] st.k = "setup"  -> ast_stmt_exec(st.s, x, P)
      [] st.k = "expr"   -> ast_expr_eval(st.e, x, P)
      [] st.k = "sel"    ->
            Then(sel_decide(st.cond, x, P), LAMBDA x1, dec :
                IF dec THEN ast_stmt_exec(st.body, x1, P) ELSE ast_stmt_exec(st.nest, x1, P))
      [] st.k = "comp"   ->
            FoldLeft(LAMBDA r, t : Then(r, LAMBDA y, done :
                        IF done THEN r
                        ELSE Then(ast_stmt_exec(t, y, P), LAMBDA z, v :
                                ast_stmt_isterminal(t, z, P))),
                     Ok(x, FALSE), st.stmts)
      [] st.k = "return" ->
            Then(ast_expr_eval(st.e, x, P), LAMBDA x1, v :
                IF v = NoValue THEN Ok(x1, NoValue)
                ELSE Ok(object_assign(x1, stack_getvariable(x1, "return"), v), NoValue))

-----------------------------------------------------------------------------
(* The program counter. *)

state_atend(x) == Len(x.stack) = 1 /\ Top(x).pc = "ATEND"

program_counter_nextdecl(f) ==
    IF f.index + 1 < Len(f.code.decls) THEN [f EXCEPT !.index = f.index + 1]
    ELSE [f EXCEPT !.index = 0,
                   !.pc = IF f.code.stmts # <<>> THEN "STMTS" ELSE "ATEND"]

program_counter_nextstmt(f, terminal) ==
    IF terminal THEN [f EXCEPT !.pc = "ATEND"]
    ELSE IF f.index + 1 < Len(f.code.stmts) THEN [f EXCEPT !.index = f.index + 1]
    ELSE [f EXCEPT !.index = f.index + 1, !.pc = "ATEND"]

program_counter_stmt_process(st, abstract, x, P) ==
    IF ~abstract THEN ast_stmt_exec(st, x, P)
    ELSE IF st.k = "setup" THEN Ok(x, NoValue)
    ELSE ast_stmt_absexec(st, x, P, TRUE)

(* state_step: one declaration or one statement of the top frame. *)
state_step(x, P) ==
    LET f == Top(x) IN
    CASE f.pc = "DECLS" ->
            LET id == f.code.decls[f.index+1]
                x1 == state_declare(x, id, FALSE) IN
            IF id \in Declared(f) THEN Abort
            ELSE Ok(WithTop(x1, program_counter_nextdecl(Top(x1))), NoValue)
      [] f.pc = "STMTS" ->
            LET st == f.code.stmts[f.index+1] IN
            Then(program_counter_stmt_process(st, f.abstract, x, P), LAMBDA x1, v :
            Then(ast_stmt_isterminal(st, x1, P), LAMBDA x2, terminal :
                Ok(WithTop(x2, program_counter_nextstmt(Top(x2), terminal)), NoValue)))
      [] f.pc = "ATEND" -> Abort

-----------------------------------------------------------------------------
(* path_init_abstract and path_init_actual. *)

(* stmt_setupabsexec: the setups inside the selections of the abstract. *)
RECURSIVE stmt_setupabsexec(_, _, _)
stmt_setupabsexec(st, x, P) ==
    CASE st.k \in {"expr", "return"} -> Ok(x, NoValue)
      [] st.k = "setup" -> ast_stmt_absexec(st, x, P, TRUE)
      [] st.k = "sel"   ->
            Then(sel_decide(st.cond, x, P), LAMBDA x1, dec :
                IF dec THEN stmt_setupabsexec(st.body, x1, P)
                ELSE IF st.nest.k = "nop" THEN Ok(x1, NoValue)
                ELSE stmt_setupabsexec(st.nest, x1, P))
      [] st.k = "comp"  ->
            FoldLeft(LAMBDA r, t : Then(r, LAMBDA y, v : stmt_setupabsexec(t, y, P)),
                     Ok(x, NoValue), SelectSeq(st.stmts, LAMBDA t : t.k = "setup"))
      [] OTHER -> Abort

ast_function_setupabsexec(f, x, P) ==
    FoldLeft(LAMBDA r, st : Then(r, LAMBDA y, v : stmt_setupabsexec(st, y, P)),
             Ok(x, NoValue), SelectSeq(f.abstract.stmts, LAMBDA st : st.k = "sel"))

state_init(f) ==
    ast_function_initparams(Program[f], state_create(Program[f].abstract, TRUE), {})

state_init_actual(f, P) ==
    Then(ast_function_initparams(Program[f], state_create(Program[f].body, FALSE), P),
         LAMBDA x, v : ast_function_setupabsexec(Program[f], x, P))

=============================================================================
