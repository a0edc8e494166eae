------------------------------- MODULE MCPath -------------------------------
(***************************************************************************)
(* Path with a small executor in place of Exec.  A piece of code is a      *)
(* sequence of guarded effects, `if (test) effect;', and a state is the    *)
(* code that is left and the outcome so far.  All pairs of an abstract and *)
(* a body of at most MaxLen statements are verified.  Tests are decided    *)
(* from the propositions as sel_decide does.  A `return' leaves the rest   *)
(* of the code out, so that paths differ in length.                        *)
(***************************************************************************)
EXTENDS EachCase

CONSTANTS
    MaxLen,     \* statements in a piece of code
    Always      \* the test of an unguarded effect

Tests == {Always} \cup {Positive(a) : a \in Atoms}
         \cup {ast_expr_inverted_copy(Positive(a)) : a \in Atoms}

Effects == {"return", "leak", "dangling", "error"}

Codes == UNION {[1 .. n -> [test : Tests, effect : Effects]] : n \in 0 .. MaxLen}

MCXState == [code : Codes, outcome : {"none", "return", "leak", "dangling"}]

Starts == {"ok", "undecided", "error", "abort"}

(* An abstract has no leaks and no failing statements. *)
AbstractCodes == {c \in Codes : \A i \in 1 .. Len(c) : c[i].effect = "return"}

(* A function that does not start is not varied in its code. *)
MCFunctions ==
    [start : {"ok"}, start_actual : {"ok"}, abstract : AbstractCodes, body : Codes]
    \cup [start : Starts, start_actual : Starts, abstract : {<<>>}, body : {<<>>}]

Started(kind, code) ==
    LET x == [code |-> code, outcome |-> "none"] IN
    IF kind = "undecided" THEN [kind |-> kind, x |-> x, cond |-> Positive(CHOOSE a \in Atoms : TRUE)]
    ELSE [kind |-> kind, x |-> x]

MCstate_init(f) == Started(f.start, f.abstract)

MCstate_init_actual(f, P) == Started(f.start_actual, f.body)

MCstate_atend(x) == x.code = <<>>

MCstate_step(x, P) ==
    IF x.code = <<>> THEN [kind |-> "abort"] ELSE
    LET s    == Head(x.code)
        skip == [x EXCEPT !.code = Tail(x.code)] IN
    IF s.test = Always \/ props_get(P, s.test)
    THEN IF s.effect = "error" THEN [kind |-> "error"]
         ELSE [kind |-> "ok",
               x    |-> [code    |-> IF s.effect = "return" THEN <<>> ELSE skip.code,
                         outcome |-> s.effect]]
    ELSE IF props_contradicts(P, s.test) THEN [kind |-> "ok", x |-> skip]
    ELSE [kind |-> "undecided", x |-> x, cond |-> s.test]

MCstate_hasgarbage(x) ==
    CASE x.outcome = "leak"     -> "yes"
      [] x.outcome = "dangling" -> "abort"
      [] OTHER                  -> "no"

MCstate_equal(x, y) == IF x.outcome = y.outcome THEN "yes" ELSE "no"

=============================================================================
