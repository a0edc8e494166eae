----------------------------- MODULE MCProgram -----------------------------
(***************************************************************************)
(* Files and command lines for Program: all graphs of calls of three       *)
(* functions and an axiom, all short files of declarations of two names,   *)
(* statements of every kind, and all short texts to strip.                 *)
(***************************************************************************)
EXTENDS Program, Calls

CONSTANTS
    MaxDecls,   \* declarations in a file
    MaxChars    \* characters in a text

Function(n, axiom, abstract, body) ==
    [kind |-> "function", name |-> n, axiom |-> axiom, abstract |-> abstract, body |-> body]

Other(kind, n) ==
    [kind |-> kind, name |-> n, axiom |-> FALSE, abstract |-> EMPTY, body |-> NONE]

CallTo(n) == Expression(CallOf(n, <<>>))

Returns == <<Jump(Leaf)>>

(* A body that calls these functions, in some order. *)
Calling(S) == IF S = {} THEN Returns ELSE [k \in 1 .. Cardinality(S) |-> CallTo(SetToSeq(S)[k])]

(* Files of one axiom and three functions, with any calls between them. *)
Graphs ==
    {<<Function("a", TRUE, "A", NONE),
       Function("f", FALSE, EMPTY, Calling(F)),
       Function("g", FALSE, EMPTY, Calling(G)),
       Function("h", FALSE, EMPTY, Calling(H))>> :
        F \in SUBSET {"a", "f", "g", "h"}, G, H \in SUBSET {"f", "g", "h"}}

(* Files of declarations of f and g in any order and number. *)
Decls ==
    {Function("f", axiom, abstract, body) : axiom \in BOOLEAN, abstract \in Abstracts,
                                           body \in {NONE, <<CallTo("g")>>}}
    \cup {Function("g", FALSE, abstract, body) : abstract \in {EMPTY, "A"},
                                                body \in {NONE, <<>>, Returns}}
    \cup {Other("variable", "f")}

Files == UNION {[1 .. n -> Decls] : n \in 1 .. MaxDecls}

(* Statements of every kind. *)
Samples ==
    LET f == CallOf("f", <<>>)  g == CallOf("g", <<>>)  h == CallOf("h", <<>>) IN
    {<<Expression(CallOf("g", <<h, Leaf>>))>>,
     <<Expression(CallOf("g", <<CallOf("h", <<f>>)>>))>>,
     <<Expression(Paired(g, h)), Expression(Paired(h, g))>>,
     <<Expression(Wrapped(CallOf("h", <<CallOf("a", <<g>>)>>)))>>,
     <<Expression(Member(g)), Jump(h)>>,
     <<Selection(g, <<Expression(h)>>), Nop>>,
     <<Selection(Leaf, <<Expression(h), Compound(<<Nop, Expression(g)>>)>>)>>,
     <<Iteration(Expression(g), Expression(Leaf), h, Compound(<<Labelled(Expression(CallOf("a", <<>>)))>>))>>,
     <<Iteration(Nop, Expression(h), Leaf, Jump(f))>>,
     <<Expression(Allocation(Leaf))>>,
     <<Compound(<<>>), Jump(CallOf("u", <<>>))>>}

Searches ==
    {<<Function("a", TRUE, EMPTY, Returns), Function("f", FALSE, EMPTY, s),
       Function("g", FALSE, EMPTY, Returns), Function("h", FALSE, EMPTY, t)>> :
        s \in Samples, t \in Samples \cup {Returns}}

Texts == UNION {[1 .. n -> Characters] : n \in 0 .. MaxChars}

MCConfigs ==
    [mode : {"verify"}, root : Graphs, sortfunc : {"f"}, file : {<<>>}]
    \cup [mode : {"none", "verify"}, root : Files, sortfunc : {"f"}, file : {<<>>}]
    \cup [mode : {"sort"}, root : Searches, sortfunc : {"f", "a", "u"}, file : {<<>>}]
    \cup [mode : {"strip"}, root : {<<>>}, sortfunc : {"f"}, file : Texts]

MCStatements ==
    {CallTo(n) : n \in Names} \cup ToSet(Returns) \cup UNION {ToSet(t) : t \in Samples}
=============================================================================
