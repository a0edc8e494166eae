------------------------------ MODULE MCVerify ------------------------------
(***************************************************************************)
(* Verify on families of small functions.  A function of a family is named *)
(* by its place in it: its abstract and its statements.  The name of any   *)
(* other function is a tuple of one string.                                *)
(***************************************************************************)
EXTENDS Verify

CONSTANTS
    MaxLen,     \* statements in a body of one family
    MaxMixed    \* statements in a body of all families

-----------------------------------------------------------------------------
(* Syntax. *)

Id(x)        == [k |-> "id", id |-> x]
Star(x)      == [k |-> "deref", e |-> Id(x)]
CallOf(f, a) == [k |-> "call", f |-> <<f>>, args |-> <<a>>]
Stmt(e)      == [k |-> "expr", e |-> e]
Set(l, r)    == Stmt([k |-> "assign", l |-> l, r |-> r])
Return(e)    == [k |-> "return", e |-> e]
Setup(s)     == [k |-> "setup", s |-> s]
Nop          == [k |-> "nop"]
IfElse(x, s, t) == [k |-> "sel", cond |-> Id(x), body |-> s, nest |-> t]
If(x, s)     == IfElse(x, s, Nop)
Compound(ss) == [k |-> "comp", stmts |-> ss]
Alloc        == [k |-> "alloc"]
Dealloc(x)   == Stmt([k |-> "dealloc", e |-> Id(x)])
One          == [k |-> "const", n |-> 1]
Malloc(x)    == Set(Id(x), CallOf("malloc", One))
Free(x)      == Stmt(CallOf("free", Id(x)))

Function(name, params, abstract, decls, stmts) ==
    [name |-> name, params |-> params,
     abstract |-> [decls |-> <<>>, stmts |-> abstract],
     body |-> [decls |-> decls, stmts |-> stmts]]

(* The axioms of libx/stdlib.h. *)
Library ==
    [f \in {<<"malloc">>, <<"free">>} |->
        IF f = <<"malloc">> THEN Function(f, <<"size">>, <<Return(Alloc)>>, <<>>, <<>>)
        ELSE Function(f, <<"ptr">>, <<Dealloc("ptr")>>, <<>>, <<>>)]

-----------------------------------------------------------------------------
(* Families: abstracts and the statements of bodies.  All bodies of one    *)
(* family of statements, and shorter ones of all families mixed.           *)

Abstracts == {<<>>, <<Return(Alloc)>>, <<If("x", Return(Alloc))>>}

Bodies(S, len) == UNION {[1 .. n -> S] : n \in 0 .. len}

(* Branches: one pointer, under a condition. *)
BranchStatements ==
    {Malloc("p"), Free("p"), Return(Id("p")),
     If("x", Malloc("p")), If("x", Free("p")), If("x", Return(Id("p"))),
     If("x", Compound(<<Free("p"), Malloc("p")>>)),
     IfElse("x", Malloc("p"), Free("p"))}

(* Blocks: two pointers, one of which may be kept in the block of the      *)
(* other.                                                                  *)
BlockStatements ==
    {Malloc("p"), Malloc("q"), Set(Star("p"), Id("q")), Set(Id("q"), Star("p")),
     Set(Star("p"), One), Free("p"), Free("q"), Return(Id("p"))}

(* Calls: functions that stand behind their abstracts, and callers. *)
Callees ==
    [f \in {<<"make">>, <<"destroy">>, <<"touch">>, <<"same">>, <<"maybe">>} |->
        CASE f = <<"make">>    -> Function(f, <<"c">>, <<Return(Alloc)>>, <<>>,
                                       <<Return(CallOf("malloc", One))>>)
          [] f = <<"destroy">> -> Function(f, <<"c">>, <<Setup(Set(Id("c"), Alloc)), Dealloc("c")>>,
                                       <<>>, <<Free("c")>>)
          [] f = <<"touch">>   -> Function(f, <<"c">>, <<Setup(Set(Id("c"), Alloc))>>, <<>>,
                                       <<Set(Star("c"), One)>>)
          [] f = <<"same">>    -> Function(f, <<"c">>, <<Return(Id("c"))>>, <<>>, <<Return(Id("c"))>>)
          [] f = <<"maybe">>   -> Function(f, <<"c">>, <<If("c", Return(Alloc))>>, <<"r">>,
                                       <<If("c", Return(CallOf("malloc", One)))>>)]

CallStatements ==
    {Malloc("p"), Set(Id("p"), CallOf("make", Id("x"))), Stmt(CallOf("destroy", Id("p"))),
     Stmt(CallOf("touch", Id("p"))),
     Free("p"), Set(Id("p"), CallOf("same", Id("p"))), If("x", Stmt(CallOf("destroy", Id("p")))),
     Return(Id("p"))}

Family ==
    Bodies(BranchStatements, MaxLen) \cup Bodies(BlockStatements, MaxLen)
    \cup Bodies(CallStatements, MaxLen)
    \cup Bodies(BranchStatements \cup BlockStatements \cup CallStatements, MaxMixed)

With(family) ==
    [n \in DOMAIN Library \cup DOMAIN Callees \cup DOMAIN family |->
        CASE n \in DOMAIN Library -> Library[n]
          [] n \in DOMAIN Callees -> Callees[n]
          [] OTHER -> family[n]]

MCAll ==
    With([n \in Abstracts \X Family |-> Function(n, <<"x">>, n[1], <<"p", "q">>, n[2])])

MCFunctions == (Abstracts \X Family) \cup DOMAIN Callees

=============================================================================
