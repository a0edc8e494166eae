------------------------------ MODULE Linking ------------------------------
(***************************************************************************)
(* The tables of what a file declares (src/src/ext/ext.c,                  *)
(* src/src/ast/externdecl.c) and the pass that fills them (pass0 in        *)
(* src/src/main.c): prototypes are matched with definitions, and a         *)
(* definition takes over the abstract of an earlier declaration.           *)
(*                                                                         *)
(* A declaration of a function has an abstract, EMPTY where the file gives *)
(* none, and a body: NONE, or its statements.                              *)
(***************************************************************************)
EXTENDS Naturals, Sequences, SequencesExt, FiniteSets

CONSTANTS
    Names,
    Abstracts,
    EMPTY,          \* the abstract ~ []
    Statements,
    NONE            \* a NULL pointer

Kinds == {"function", "variable", "typedef", "struct"}

Declaration ==
    [kind : Kinds, name : Names, axiom : BOOLEAN, abstract : Abstracts,
     body : Seq(Statements) \cup {NONE}]

ASSUME LinkingAssumption ==
    /\ EMPTY \in Abstracts
    /\ NONE \notin Seq(Statements) \cup Names \cup Declaration

VARIABLES
    root,       \* the declarations of the file, in their order
    ext,        \* kind -> name -> what is declared, or NONE
    i,          \* the index of the loop that is running
    status      \* the phase of the program, or how it has ended

linking_vars == <<root, ext, i, status>>

externals_create == [k \in Kinds |-> [n \in Names |-> NONE]]

(* map_set: a later declaration replaces an earlier one. *)
ast_externdecl_install(d) == [ext EXCEPT ![d.kind][d.name] = d]

externals_getfunc(n) == ext["function"][n]

ast_externdecl_isfunction(d) == d.kind = "function"
ast_function_isproto(d)      == d.body = NONE
ast_function_absisempty(d)   == d.abstract = EMPTY

(* A function to be verified. *)
IsDefinition(d) == ast_externdecl_isfunction(d) /\ ~d.axiom /\ ~ast_function_isproto(d)

-----------------------------------------------------------------------------

(* Mutant: a definition may have an abstract of its own. *)
proto_defisvalid_always(proto, def) == TRUE

proto_defisvalid(proto, def) ==
    \/ proto.abstract = def.abstract
    \/ ast_function_absisempty(def)

(* The definitions that a prototype could be of. *)
Definitions(n) == {k \in DOMAIN root : IsDefinition(root[k]) /\ root[k].name = n}

(* What verifyproto prints, or "ok". *)
verifyproto(proto) ==
    CASE Definitions(proto.name) = {} -> "missing"
      [] Cardinality(Definitions(proto.name)) > 1 -> "multiple"
      [] \E k \in Definitions(proto.name) :
            Definitions(proto.name) = {k} /\ ~proto_defisvalid(proto, root[k]) -> "mismatch"
      [] OTHER -> "ok"

(* Whatever function of that name is declared so far, its abstract is      *)
(* taken: a prototype's, an axiom's, or that of another definition.        *)
ast_function_protostitch(f) ==
    LET proto == externals_getfunc(f.name) IN
    IF proto # NONE THEN [f EXCEPT !.abstract = proto.abstract] ELSE f

Installed(d) ==
    /\ ext' = ast_externdecl_install(d)
    /\ i' = i + 1
    /\ UNCHANGED status

(* Variables, types and axioms are only declared. *)
InstallPlain ==
    /\ status = "pass0" /\ i <= Len(root)
    /\ ~ast_externdecl_isfunction(root[i]) \/ root[i].axiom
    /\ Installed(root[i])
    /\ UNCHANGED root

IsProtoAt(k) ==
    ast_externdecl_isfunction(root[k]) /\ ~root[k].axiom /\ ast_function_isproto(root[k])

InstallProto ==
    /\ status = "pass0" /\ i <= Len(root)
    /\ IsProtoAt(i)
    /\ verifyproto(root[i]) = "ok"
    /\ Installed(root[i])
    /\ UNCHANGED root

RejectProto ==
    /\ status = "pass0" /\ i <= Len(root)
    /\ IsProtoAt(i)
    /\ verifyproto(root[i]) # "ok"
    /\ status' = verifyproto(root[i])
    /\ UNCHANGED <<root, ext, i>>

(* The declaration in the file is changed; a copy of it is installed. *)
InstallDefinition ==
    /\ status = "pass0" /\ i <= Len(root)
    /\ IsDefinition(root[i])
    /\ root' = [root EXCEPT ![i] = ast_function_protostitch(root[i])]
    /\ Installed(ast_function_protostitch(root[i]))

pass0 == InstallPlain \/ InstallProto \/ RejectProto \/ InstallDefinition
=============================================================================
