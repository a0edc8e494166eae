----------------------------- MODULE MCFindings -----------------------------
(***************************************************************************)
(* Single functions on which the verifier does not do what its             *)
(* documentation, comments or assertions say.  Each run of this module     *)
(* verifies one of them, with the properties of Verify.                    *)
(***************************************************************************)
EXTENDS MCVerify

Not(x)      == [k |-> "not", e |-> Id(x)]
Literal1    == [k |-> "lit", s |-> "a"]
IfCond(c, s) == [k |-> "sel", cond |-> c, body |-> s, nest |-> Nop]

Addr(x)     == [k |-> "addr", id |-> x]

Findings == {"not", "else", "dangling", "reassigned", "literal"}

Finding(name) ==
    LET fun(decls, stmts) == Function(<<name>>, <<"x">>, <<>>, decls, stmts) IN
    CASE
      (* if (!x) p = malloc(1); free(p);                                   *)
         name = "not" ->
            fun(<<"p">>, <<IfCond(Not("x"), Malloc("p")), Free("p")>>)
      (* p = malloc(1); if (x) 1; else return x; free(p);                  *)
      [] name = "else" ->
            fun(<<"p">>, <<Malloc("p"), IfElse("x", Stmt(One), Return(Id("x"))), Free("p")>>)
      (* p = address(x); write(p);  with p a dangling pointer: the frame   *)
      (* of write has the number that the frame of address had.            *)
      [] name = "dangling" ->
            fun(<<"p">>, <<Set(Id("p"), CallOf("address", Id("x"))), Stmt(CallOf("write", Id("p")))>>)
      (* if (x) x = y;                                                     *)
      [] name = "reassigned" ->
            [fun(<<>>, <<If("x", Set(Id("x"), Id("y")))>>) EXCEPT !.params = <<"x", "y">>]
      (* if ("a") 1;                                                       *)
      [] name = "literal" ->
            fun(<<>>, <<IfCond(Literal1, Stmt(One))>>)

(* Callees:   int *address(int c) ~ [ return &c; ] { return &c; }          *)
(*            void write(int *c) ~ [ setup: c = .clump(1); ] { *c = 1; }   *)
FindingAll ==
    With([n \in {<<f>> : f \in Findings \cup {"address", "write"}} |->
        CASE n[1] = "address" -> Function(n, <<"c">>, <<Return(Addr("c"))>>, <<>>, <<Return(Addr("c"))>>)
          [] n[1] = "write"   -> Function(n, <<"c">>,
                                    <<Setup(Set(Id("c"), [k |-> "clump"]))>>,
                                    <<>>, <<Set(Star("c"), One)>>)
          [] OTHER -> Finding(n[1])])

NotFunctions        == {<<"not">>}
DanglingFunctions   == {<<"dangling">>}
ElseFunctions       == {<<"else">>}
ReassignedFunctions == {<<"reassigned">>}
LiteralFunctions    == {<<"literal">>}

=============================================================================
