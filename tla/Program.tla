------------------------------ MODULE Program ------------------------------
(***************************************************************************)
(* The program as a whole (main, verify, pass1, pass_inorder in            *)
(* src/src/main.c): what is declared is linked, then all functions are     *)
(* verified in the order of the file, or those under one function in the   *)
(* order of their calls; or a file is stripped.                            *)
(*                                                                         *)
(* Verification of one function is modelled by Path and Verify: here it    *)
(* succeeds or fails.                                                      *)
(***************************************************************************)
EXTENDS Topological, Strip

CONSTANTS
    Configs,            \* command lines, with what the parser makes of the file
    Mentions(_),        \* the functions that a statement calls, by its tree
    Unsearchable(_)     \* whether it holds what ast_expr_getfuncs asserts not to

(* mode: "none" (neither -t nor -x), "sort" (-t), "verify" (-x), "strip".  *)
ASSUME ConfigAssumption ==
    \A c \in Configs :
        /\ c.mode \in {"none", "sort", "verify", "strip"}
        /\ c.root \in Seq(Declaration)
        /\ c.sortfunc \in Names
        /\ c.file \in Seq(Characters) /\ Len(c.file) <= MaxOut

(* ast_stmt_getfuncs finds what the tree of a statement names, or fails    *)
(* (module Calls computes it).                                             *)
ASSUME SearchAssumption ==
    \A s \in Statements :
        /\ Unsearchable(s) <=> AssertionFails \in ToSet(GetFuncs(s))
        /\ ~Unsearchable(s) => Mentions(s) = ToSet(GetFuncs(s))

VARIABLES
    mode,
    qed         \* the verified functions, with the abstract each was held to

vars == <<linking_vars, graph_vars, strip_vars, mode, qed>>

Init ==
    \E c \in Configs :
        /\ mode = c.mode
        /\ root = c.root /\ ext = externals_create /\ i = 1
        /\ status = IF c.mode = "strip" THEN "strip" ELSE "pass0"
        /\ sortfunc = c.sortfunc /\ GraphInit
        /\ file = (IF c.mode = "strip" THEN c.file ELSE <<>>) /\ pos = 0 /\ depth = -1 /\ out = <<>>
        /\ copying = (c.mode = "strip")
        /\ qed = <<>>

Pass0Ends ==
    /\ status = "pass0" /\ i > Len(root)
    /\ status' = IF mode = "none" THEN "pass1" ELSE "graph"
    /\ i' = 1
    /\ UNCHANGED <<root, ext, graph_vars, qed>>

(* ast_function_verify. *)
Verify(f) ==
    \/ /\ qed' = Append(qed, [name |-> f.name, abstract |-> f.abstract])
       /\ i' = i + 1
       /\ UNCHANGED status
    \/ /\ status' = "unproved"
       /\ UNCHANGED <<qed, i>>

(* Mutant: a definition that was not linked to a declaration is skipped. *)
pass1_unlinked ==
    /\ status = "pass1" /\ i <= Len(root)
    /\ IF IsDefinition(root[i]) /\ root[i] = externals_getfunc(root[i].name)
       THEN Verify(root[i])
       ELSE i' = i + 1 /\ UNCHANGED <<status, qed>>
    /\ UNCHANGED <<root, ext, graph_vars>>

pass1 ==
    /\ status = "pass1" /\ i <= Len(root)
    /\ IF IsDefinition(root[i])
       THEN Verify(root[i])
       ELSE i' = i + 1 /\ UNCHANGED <<status, qed>>
    /\ UNCHANGED <<root, ext, graph_vars>>

(* The order is known: it is printed, or followed. *)
Ordered ==
    /\ OrderIsComplete
    /\ status' = IF mode = "sort" THEN "done" ELSE "inorder"
    /\ i' = 1
    /\ UNCHANGED <<root, ext, graph_vars, qed>>

pass_inorder ==
    /\ status = "inorder" /\ i <= Len(order)
    /\ LET f == externals_getfunc(order[i]) IN
       IF IsDefinition(f) THEN Verify(f) ELSE i' = i + 1 /\ UNCHANGED <<status, qed>>
    /\ UNCHANGED <<root, ext, graph_vars>>

verify_ends ==
    /\ \/ status = "pass1" /\ i > Len(root)
       \/ status = "inorder" /\ i > Len(order)
    /\ status' = "done"
    /\ UNCHANGED <<root, ext, i, graph_vars, qed>>

verify ==
    \/ pass0 /\ UNCHANGED <<graph_vars, qed>>
    \/ Pass0Ends
    \/ pass1
    \/ topological_order /\ UNCHANGED qed
    \/ Ordered
    \/ pass_inorder
    \/ verify_ends

Ended == {"done", "missing", "multiple", "mismatch", "undeclared", "cycle", "unproved", "crash"}

(* The process has exited. *)
Exited ==
    /\ status \in Ended \/ (status = "strip" /\ ~copying)
    /\ UNCHANGED vars

Next ==
    \/ verify /\ UNCHANGED <<strip_vars, mode>>
    \/ strip /\ UNCHANGED <<linking_vars, graph_vars, mode, qed>>
    \/ Exited

Spec == Init /\ [][Next]_vars

(* One thread, which goes on until it exits. *)
FairSpec == Spec /\ WF_vars(Next)

-----------------------------------------------------------------------------

Phases == {"strip", "pass0", "pass1", "graph", "indegrees", "count", "zero", "order", "inorder"}

(* The declarations keep their number and kinds while abstracts are taken  *)
(* over; a name in a table is the name of its entry; the indices stay      *)
(* within what the loops run over (main.c, ext.c).                         *)
TypeOK ==
    /\ status \in Phases \cup Ended
    /\ root \in Seq(Declaration)
    /\ \A k \in Kinds, n \in Names :
          ext[k][n] # NONE => ext[k][n] \in Declaration /\ ext[k][n].name = n
    /\ dedup \cup ToSet(keys) \cup ToSet(ikeys) \cup ToSet(zero) \cup ToSet(order) \subseteq Names
    /\ \A n \in Names : count[n] >= 0 /\ ToSet(deps[n]) \subseteq Names
    /\ \A k \in DOMAIN frames : frames[k].name \in dedup \ ToSet(keys)
    /\ pos \in 0 .. Len(file) /\ depth >= -1 /\ Len(out) <= MaxOut

-----------------------------------------------------------------------------
(* Linking. *)

(* An axiom of n replaces an earlier declaration of it. *)
ReplacedByAxiom(n) ==
    \E k, j \in DOMAIN root :
        /\ k < j /\ root[k].name = n /\ root[j].name = n
        /\ ast_externdecl_isfunction(root[k])
        /\ ast_externdecl_isfunction(root[j]) /\ root[j].axiom

(* A prototype of n stands behind a definition of it. *)
PrototypeBehind(n) ==
    \E k, j \in DOMAIN root :
        /\ k < j /\ root[k].name = n /\ root[j].name = n
        /\ IsDefinition(root[k]) /\ IsProtoAt(j)

(* The last prototype of n in the file. *)
LastPrototype(n, k) ==
    /\ root[k].name = n /\ IsProtoAt(k)
    /\ \A j \in k + 1 .. Len(root) : ~(root[j].name = n /\ IsProtoAt(j))

(* What a function was verified against is what its callers assume of it,  *)
(* and what the last prototype of it states.  The exceptions are the two   *)
(* that the code lets through: behind a definition without an abstract a   *)
(* prototype may state any, and an axiom replaces whatever was declared    *)
(* (pass0, verifyproto, ast_function_protostitch).                         *)
VerifiedAsAssumed ==
    \A q \in ToSet(qed) :
        \/ /\ externals_getfunc(q.name).abstract = q.abstract
           /\ \A k \in DOMAIN root :
                 LastPrototype(q.name, k) => root[k].abstract = q.abstract
        \/ ReplacedByAxiom(q.name)
        \/ PrototypeBehind(q.name) /\ q.abstract = EMPTY

DefinitionsBefore(k) == {j \in DOMAIN root : j < k /\ IsDefinition(root[j])}

(* A program is accepted when, in its order, each definition of the file   *)
(* was verified once, or each function under the given one that is no      *)
(* axiom (pass1 and pass_inorder in main.c).                               *)
AcceptedIsVerified ==
    status = "done" /\ mode # "sort" =>
        IF mode = "verify" THEN [k \in DOMAIN qed |-> qed[k].name] = order
        ELSE /\ Len(qed) = Cardinality(DefinitionsBefore(Len(root) + 1))
             /\ \A k \in DefinitionsBefore(Len(root) + 1) :
                   qed[Cardinality(DefinitionsBefore(k)) + 1].name = root[k].name

-----------------------------------------------------------------------------
(* The graph of calls.  The reference follows the trees of the bodies.     *)

Declared(n) == externals_getfunc(n) # NONE
Axiom(n)    == Declared(n) /\ externals_getfunc(n).axiom
Code(n)     == IF ~Declared(n) \/ Axiom(n) \/ externals_getfunc(n).body = NONE THEN {}
               ELSE ToSet(externals_getfunc(n).body)

CallsOf(n) == UNION {Mentions(s) : s \in Code(n)}

(* The least set with these names and all functions that its members call. *)
Under(S) ==
    {n \in Names : \A T \in SUBSET Names :
        S \subseteq T /\ (\A m \in T : CallsOf(m) \subseteq T) => n \in T}

(* The functions that have to be sorted. *)
ToSort == {n \in Under({sortfunc}) : ~Axiom(n)}

(* The graph is complete; the loops that follow do not change it.          *)
GraphBuilt == status = "indegrees"

(* The graph has all functions under the given one, axioms left out, and   *)
(* lists once whom each calls (ast_function_buildgraph).                   *)
GraphExact ==
    GraphBuilt =>
        /\ ToSet(keys) = ToSort
        /\ \A n \in ToSort :
              /\ ToSet(deps[n]) = CallsOf(n) \cap ToSort
              /\ Len(deps[n]) = Cardinality(ToSet(deps[n]))

(* The order has all functions that have to be sorted, and a cycle is      *)
(* reported only where there is one (topological_order).                   *)
OrderComplete ==
    /\ status = "inorder" \/ (status = "done" /\ mode # "none") => ToSet(order) = ToSort
    /\ status = "cycle" => \E n \in ToSort : n \in Under(CallsOf(n))

(* Building the graph crashes exactly on a function that is called and not *)
(* declared, is left without a body or has no statement, or holds what is  *)
(* not searched (recurse_buildgraph).                                      *)
Uncallable(n) ==
    \/ ~Declared(n)
    \/ ~Axiom(n) /\ externals_getfunc(n).body \in {NONE, <<>>}
    \/ \E s \in Code(n) : Unsearchable(s)

CrashExact ==
    /\ status = "crash" => \E n \in Under({sortfunc}) : Uncallable(n)
    /\ GraphBuilt => \A n \in Under({sortfunc}) : ~Uncallable(n)

(* What the order is for.  Let M say which functions really meet which     *)
(* abstracts.  If the axioms meet theirs, and the verification of one      *)
(* function is right as far as the functions that it calls meet what the   *)
(* tables say of them, then a program that is accepted in the order of its *)
(* calls meets its abstracts from the given function down: assuming what   *)
(* callees promise is no circular argument (pass_inorder; ast_function_-   *)
(* absexec executes the callee's abstract in place of its body).           *)
AcceptedMeets ==
    status = "done" /\ mode = "verify" =>
        \A M \in SUBSET (Names \X Abstracts) :
            LET Meets(n) == <<n, externals_getfunc(n).abstract>> \in M IN
            /\ \A n \in Under({sortfunc}) : Axiom(n) => Meets(n)
            /\ \A q \in ToSet(qed) :
                  (\A c \in CallsOf(q.name) : Meets(c)) => <<q.name, q.abstract>> \in M
            => \A n \in Under({sortfunc}) : Meets(n)

-----------------------------------------------------------------------------
(* Progress *)

(* The iterations that a loop to n has left at k. *)
Left(k, n) == IF k <= n THEN n + 1 - k ELSE 0

(* Functions that recurse_buildgraph can still enter. *)
Unentered == {n \in Names : Declared(n)} \ dedup

(* What is left to do: the phases, most significant, then what is left of  *)
(* the loops of the phase, outer ones first.                               *)
Work ==
    CASE status = "pass0"     -> <<8, Left(i, Len(root)), 0, 0, 0>>
      [] status = "graph"     -> <<7, Cardinality(Unentered), Len(frames),
                                   IF frames = <<>> THEN 0 ELSE Len(Top.stmts),
                                   IF frames = <<>> THEN 0 ELSE Len(Top.funcs)>>
      [] status = "indegrees" -> <<6, Left(i, Len(keys)),
                                   IF i > Len(keys) THEN 0 ELSE Left(inner, Len(deps[keys[i]])),
                                   0, 0>>
      [] status = "count"     -> <<5, Left(i, Len(ikeys)), 0, 0, 0>>
      [] status = "zero"      -> <<4, Left(i, Len(ikeys)), 0, 0, 0>>
      [] status = "order"     -> <<3, Len(keys) - Len(order), IF curr = NONE THEN 0 ELSE 1,
                                   Left(i, Len(keys)), 0>>
      [] status = "inorder"   -> <<2, Left(i, Len(order)), 0, 0, 0>>
      [] status = "pass1"     -> <<2, Left(i, Len(root)), 0, 0, 0>>
      [] status = "strip"     -> <<IF copying THEN 1 ELSE 0, Len(file) - pos, 0, 0, 0>>
      [] OTHER                -> <<0, 0, 0, 0, 0>>

Amounts == Nat \X Nat \X Nat \X Nat \X Nat

LexLess(s, t) == \E k \in 1 .. 5 : s[k] < t[k] /\ \A j \in 1 .. k - 1 : s[j] = t[j]

(* No loop runs for ever: each step leaves less to do.  The recursion over *)
(* the graph of calls has what is not entered yet, the sort what is not in *)
(* the order yet, and stripping what is not read yet of a well-formed file *)
(* (pass0, recurse_buildgraph, calculate_indegrees, topological_order,     *)
(* pass_inorder, strip).                                                   *)
Progress ==
    mode # "strip" \/ WellFormed =>
        /\ Work \in Amounts
        /\ LexLess(Work', Work)

-----------------------------------------------------------------------------
(* Verifying and sorting end, whatever the calls are; stripping ends on a  *)
(* well-formed file.  It does not on a block that is not closed, nor on a  *)
(* file that ends in `~' (main.c, topological.c).                          *)
Terminates ==
    mode # "strip" \/ WellFormed => <>(status \in Ended \/ (mode = "strip" /\ ~copying))
=============================================================================
