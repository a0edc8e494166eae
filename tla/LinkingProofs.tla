--------------------------- MODULE LinkingProofs ---------------------------
(***************************************************************************)
(* Proofs that prototypes, definitions and verification fit together, for  *)
(* all files: what a function is verified against is what its callers      *)
(* assume, but for the two ways that the code leaves open.                 *)
(***************************************************************************)
EXTENDS ProgramProofs

-----------------------------------------------------------------------------
(* The inductive invariant *)

(* The phases in which no declaration was rejected. *)
Live == {"pass0", "pass1", "graph", "indegrees", "count", "zero", "order", "inorder"}

(* The declarations that pass0 has installed. *)
Processed(k) == k \in DOMAIN root /\ (status = "pass0" => k < i)

FunctionAt(n, k) == ast_externdecl_isfunction(root[k]) /\ root[k].name = n

LastDeclared(n, k) ==
    /\ Processed(k) /\ FunctionAt(n, k)
    /\ \A j \in DOMAIN root : Processed(j) /\ FunctionAt(n, j) => j <= k

(* The table of functions has the last declaration of each. *)
Tables ==
    status \in Live =>
        /\ \A k \in DOMAIN root :
              Processed(k) /\ ast_externdecl_isfunction(root[k]) => Declared(root[k].name)
        /\ \A n \in Names :
              Declared(n) => \E k \in DOMAIN root : LastDeclared(n, k) /\ externals_getfunc(n) = root[k]

(* A function with a prototype has one definition in the file. *)
OneDefinition ==
    status \in Live =>
        \A j \in DOMAIN root : Processed(j) /\ IsProtoAt(j) =>
            \A k1, k2 \in Definitions(root[j].name) : k1 = k2

LastProtoSoFar(n, j) ==
    /\ Processed(j) /\ IsProtoAt(j) /\ root[j].name = n
    /\ \A m \in DOMAIN root : Processed(m) /\ IsProtoAt(m) /\ root[m].name = n => m <= j

(* What a function's callers, and its prototypes so far, say of it. *)
Agrees(n, a) ==
    \/ /\ externals_getfunc(n).abstract = a
       /\ \A j \in DOMAIN root : LastProtoSoFar(n, j) => root[j].abstract = a
    \/ ReplacedByAxiom(n)
    \/ PrototypeBehind(n) /\ a = EMPTY

Agreed ==
    status \in Live =>
        \A k \in DOMAIN root :
            Processed(k) /\ IsDefinition(root[k]) => Agrees(root[k].name, root[k].abstract)

(* What is sorted is declared. *)
Known ==
    /\ status = "pass0" =>
          frames = <<>> /\ keys = <<>> /\ ikeys = <<>> /\ zero = <<>> /\ order = <<>>
          /\ \A n \in Names : deps[n] = <<>>
    /\ \A n \in ToSet(keys) \cup ToSet(ikeys) \cup ToSet(zero) \cup ToSet(order) : Declared(n)
    /\ \A n \in Names : \A d \in ToSet(deps[n]) : Declared(d)
    /\ \A k \in DOMAIN frames :
          Declared(frames[k].name) /\ \A d \in ToSet(frames[k].val) : Declared(d)

-----------------------------------------------------------------------------
(* Facts about declarations *)

(* The declarations keep all but their abstracts. *)
SameShape ==
    /\ DOMAIN root' = DOMAIN root
    /\ \A k \in DOMAIN root :
          /\ root'[k].kind = root[k].kind /\ root'[k].name = root[k].name
          /\ root'[k].axiom = root[k].axiom /\ root'[k].body = root[k].body

LEMMA ShapeKept ==
    ASSUME SameShape
    PROVE  /\ \A k \in DOMAIN root :
                 /\ ast_externdecl_isfunction(root'[k]) <=> ast_externdecl_isfunction(root[k])
                 /\ IsDefinition(root'[k]) <=> IsDefinition(root[k])
                 /\ IsProtoAt(k)' <=> IsProtoAt(k)
           /\ \A n : /\ Definitions(n)' = Definitions(n)
                     /\ ReplacedByAxiom(n)' <=> ReplacedByAxiom(n)
                     /\ PrototypeBehind(n)' <=> PrototypeBehind(n)
<1>1. \A k \in DOMAIN root :
         /\ ast_externdecl_isfunction(root'[k]) <=> ast_externdecl_isfunction(root[k])
         /\ IsDefinition(root'[k]) <=> IsDefinition(root[k])
         /\ IsProtoAt(k)' <=> IsProtoAt(k)
  BY DEF SameShape, ast_externdecl_isfunction, IsDefinition, ast_function_isproto, IsProtoAt
<1>2. \A n : Definitions(n)' = Definitions(n)
  BY <1>1 DEF SameShape, Definitions
<1>3. \A n : ReplacedByAxiom(n)' <=> ReplacedByAxiom(n)
  BY <1>1 DEF SameShape, ReplacedByAxiom
<1>4. \A n : PrototypeBehind(n)' <=> PrototypeBehind(n)
  BY <1>1 DEF SameShape, PrototypeBehind
<1> QED BY <1>1, <1>2, <1>3, <1>4

(* A prototype is accepted when it has exactly one definition, which it    *)
(* fits.                                                                   *)
LEMMA ProtoAccepted ==
    ASSUME Linked, NEW p, verifyproto(p) = "ok"
    PROVE  \E k \in Definitions(p.name) :
              Definitions(p.name) = {k} /\ proto_defisvalid(p, root[k])
<1> DEFINE D == Definitions(p.name)
<1>1. D # {} /\ ~(Cardinality(D) > 1) /\ \A k \in D : D = {k} => proto_defisvalid(p, root[k])
  BY DEF verifyproto
<1>2. IsFiniteSet(D)
  <2>1. IsFiniteSet(DOMAIN root)
    BY IndicesCounted DEF Linked
  <2> QED BY <2>1, FS_Subset DEF Definitions
<1>3. PICK k : k \in D
  BY <1>1
<1>4. ASSUME NEW j \in D PROVE j = k
  <2> SUFFICES ASSUME j # k PROVE FALSE
    OBVIOUS
  <2>1. IsFiniteSet(D \ {k}) /\ Cardinality(D \ {k}) = Cardinality(D) - 1
    BY <1>2, <1>3, FS_RemoveElement
  <2>2. Cardinality(D \ {k}) # 0 /\ Cardinality(D \ {k}) \in Nat /\ Cardinality(D) \in Nat
    BY <1>2, <2>1, FS_EmptySet, FS_CardinalityType
  <2> QED BY <1>1, <2>1, <2>2
<1>5. D = {k}
  BY <1>3, <1>4
<1> QED BY <1>1, <1>3, <1>5

-----------------------------------------------------------------------------
(* A declaration is installed. *)

Installing(d) ==
    /\ status = "pass0" /\ status' = "pass0"
    /\ i <= Len(root) /\ i' = i + 1
    /\ root' = [root EXCEPT ![i] = d]
    /\ ext' = ast_externdecl_install(d)
    /\ d \in Declaration
    /\ d.kind = root[i].kind /\ d.name = root[i].name
    /\ d.axiom = root[i].axiom /\ d.body = root[i].body
    /\ IF IsDefinition(root[i]) THEN d = ast_function_protostitch(root[i]) ELSE d = root[i]
    /\ IsProtoAt(i) => verifyproto(root[i]) = "ok"

LEMMA Pass0Cases ==
    ASSUME Linked, pass0
    PROVE  RejectProto \/ \E d \in Declaration : Installing(d)
<1>1. i <= Len(root) => i \in DOMAIN root /\ root[i] \in Declaration
  BY IndexFacts DEF Linked
<1>2. i <= Len(root) => root = [root EXCEPT ![i] = root[i]]
  BY <1>1 DEF Linked
<1>3. CASE InstallPlain
  <2>1. ~IsDefinition(root[i]) /\ ~IsProtoAt(i)
    BY <1>3 DEF InstallPlain, IsDefinition, IsProtoAt
  <2>2. Installing(root[i])
    BY <1>1, <1>2, <1>3, <2>1 DEF InstallPlain, Installed, Installing
  <2> QED BY <1>1, <1>3, <2>2 DEF InstallPlain
<1>4. CASE InstallProto
  <2>1. ~IsDefinition(root[i])
    BY <1>4 DEF InstallProto, IsDefinition, IsProtoAt
  <2>2. Installing(root[i])
    BY <1>1, <1>2, <1>4, <2>1 DEF InstallProto, Installed, Installing
  <2> QED BY <1>1, <1>4, <2>2 DEF InstallProto
<1>5. CASE InstallDefinition
  <2>1. PICK d \in Declaration : d = ast_function_protostitch(root[i])
    BY <1>1, <1>5, StitchedIsDeclaration DEF InstallDefinition
  <2>2. /\ d.kind = root[i].kind /\ d.name = root[i].name
        /\ d.axiom = root[i].axiom /\ d.body = root[i].body
    BY <1>1, <1>5, <2>1 DEF InstallDefinition, ast_function_protostitch, Declaration
  <2>3. ~IsProtoAt(i)
    BY <1>5 DEF InstallDefinition, IsDefinition, IsProtoAt
  <2>4. Installing(d)
    BY <1>5, <2>1, <2>2, <2>3 DEF InstallDefinition, Installed, Installing
  <2> QED BY <2>4
<1> QED BY <1>3, <1>4, <1>5 DEF pass0

(* What it changes. *)
LEMMA InstallingFacts ==
    ASSUME Linked, NEW d, Installing(d)
    PROVE  /\ SameShape
           /\ i \in DOMAIN root /\ root[i] \in Declaration /\ root'[i] = d
           /\ \A k \in DOMAIN root : k # i => root'[k] = root[k]
           /\ ~Processed(i)
           /\ \A k \in DOMAIN root : Processed(k)' <=> Processed(k) \/ k = i
           /\ \A k \in DOMAIN root : Processed(k) => k < i
           /\ ast_externdecl_isfunction(root[i]) => externals_getfunc(d.name)' = d
           /\ \A n \in Names : ~FunctionAt(n, i) => externals_getfunc(n)' = externals_getfunc(n)
<1>1. /\ i \in DOMAIN root /\ root[i] \in Declaration
      /\ \A k \in DOMAIN root : (k < i + 1 <=> k < i \/ k = i) /\ (k = i => ~(k < i))
  BY IndexFacts DEF Linked, Installing
<1>2. /\ DOMAIN root' = DOMAIN root /\ root'[i] = d
      /\ \A k \in DOMAIN root : k # i => root'[k] = root[k]
  BY <1>1 DEF Installing, Linked
<1>3. SameShape
  BY <1>1, <1>2 DEF Installing, SameShape
<1>4. ~Processed(i) /\ \A k \in DOMAIN root : Processed(k)' <=> Processed(k) \/ k = i
  BY <1>1, <1>2 DEF Processed, Installing
<1>5. \A k \in DOMAIN root : Processed(k) => k < i
  BY DEF Processed, Installing
<1>6. ast_externdecl_isfunction(root[i]) => externals_getfunc(d.name)' = d
  BY DEF Installing, Linked, ast_externdecl_install, ast_externdecl_isfunction, externals_getfunc,
         Declaration
<1>7. \A n \in Names : ~FunctionAt(n, i) => externals_getfunc(n)' = externals_getfunc(n)
  BY DEF Installing, Linked, ast_externdecl_install, FunctionAt, ast_externdecl_isfunction,
         externals_getfunc, Declaration, Kinds
<1> QED BY <1>1, <1>2, <1>3, <1>4, <1>5, <1>6, <1>7

LEMMA TablesInstall ==
    ASSUME Linked, Tables, NEW d, Installing(d)
    PROVE  Tables'
<1>1. /\ SameShape
      /\ i \in DOMAIN root /\ root[i] \in Declaration /\ root'[i] = d
      /\ \A k \in DOMAIN root : k # i => root'[k] = root[k]
      /\ \A k \in DOMAIN root : Processed(k)' <=> Processed(k) \/ k = i
      /\ \A k \in DOMAIN root : Processed(k) => k < i
      /\ ast_externdecl_isfunction(root[i]) => externals_getfunc(d.name)' = d
      /\ \A n \in Names : ~FunctionAt(n, i) => externals_getfunc(n)' = externals_getfunc(n)
  BY InstallingFacts
<1>2. d.name = root[i].name /\ d.name \in Names /\ d # NONE /\ status = "pass0" /\ status' = "pass0"
  BY LinkingAssumption DEF Installing, Declaration
<1>3. \A k \in DOMAIN root : \A n : FunctionAt(n, k)' <=> FunctionAt(n, k)
  BY <1>1 DEF FunctionAt, SameShape, ast_externdecl_isfunction
<1>4. DOMAIN root' = DOMAIN root
  BY <1>1 DEF SameShape
<1>l. PICK l : l = i
  OBVIOUS
<1>5. ASSUME NEW n \in Names, FunctionAt(n, l)
      PROVE  Declared(n)' /\ LastDeclared(n, l)' /\ externals_getfunc(n)' = root'[l]
  <2>1. n = d.name /\ externals_getfunc(n)' = d
    BY <1>1, <1>2, <1>5, <1>l DEF FunctionAt, ast_externdecl_isfunction
  <2>2. \A j \in DOMAIN root : Processed(j)' => j <= l
    BY <1>1, <1>l DEF Linked
  <2>3. LastDeclared(n, l)'
    BY <1>1, <1>3, <1>4, <1>5, <1>l, <2>2 DEF LastDeclared
  <2>4. Declared(n)'
    BY <1>2, <2>1 DEF Declared
  <2> QED BY <1>1, <1>l, <2>1, <2>3, <2>4
<1>6. ASSUME NEW k \in DOMAIN root', Processed(k)', ast_externdecl_isfunction(root[k])'
      PROVE  Declared(root[k].name)'
  <2>1. root'[k].name = root[k].name /\ root[k].name \in Names /\ ast_externdecl_isfunction(root[k])
    <3>1. root[k] \in Declaration /\ k \in DOMAIN root
      BY <1>4 DEF Linked
    <3> QED BY <1>1, <1>6, <3>1, ShapeKept DEF SameShape, Declaration
  <2>2. CASE FunctionAt(root[k].name, i)
    <3>1. PICK n \in Names : n = root[k].name
      BY <2>1
    <3> QED BY <1>5, <1>l, <2>1, <2>2, <3>1
  <2>3. CASE ~FunctionAt(root[k].name, i)
    <3>1. k # i
      BY <2>1, <2>3 DEF FunctionAt
    <3>2. Declared(root[k].name)
      BY <1>1, <1>2, <1>4, <1>6, <2>1, <3>1 DEF Tables, Live
    <3> QED BY <1>1, <2>1, <2>3, <3>2 DEF Declared
  <2> QED BY <2>2, <2>3
<1>7. ASSUME NEW n \in Names, Declared(n)'
      PROVE  \E k \in DOMAIN root' : LastDeclared(n, k)' /\ externals_getfunc(n)' = root'[k]
  <2>1. CASE FunctionAt(n, i)
    BY <1>1, <1>4, <1>5, <1>l, <2>1
  <2>2. CASE ~FunctionAt(n, i)
    <3>1. externals_getfunc(n)' = externals_getfunc(n) /\ Declared(n)
      BY <1>1, <1>7, <2>2 DEF Declared
    <3>2. PICK k \in DOMAIN root : LastDeclared(n, k) /\ externals_getfunc(n) = root[k]
      BY <1>2, <3>1 DEF Tables, Live
    <3>3. k # i
      BY <2>2, <3>2 DEF LastDeclared
    <3>4. LastDeclared(n, k)'
      BY <1>1, <1>3, <1>4, <2>2, <3>2, <3>3 DEF LastDeclared
    <3> QED BY <1>1, <1>4, <3>1, <3>2, <3>3, <3>4
  <2> QED BY <2>1, <2>2
<1> QED BY <1>6, <1>7 DEF Tables

LEMMA OneDefinitionInstall ==
    ASSUME Linked, OneDefinition, NEW d, Installing(d)
    PROVE  OneDefinition'
<1>1. /\ SameShape /\ DOMAIN root' = DOMAIN root
      /\ \A k \in DOMAIN root : Processed(k)' <=> Processed(k) \/ k = i
      /\ \A k \in DOMAIN root : root'[k].name = root[k].name
  BY InstallingFacts DEF SameShape
<1>2. status = "pass0" /\ (IsProtoAt(i) => verifyproto(root[i]) = "ok")
  BY DEF Installing
<1> SUFFICES ASSUME NEW j \in DOMAIN root, Processed(j)', IsProtoAt(j)'
             PROVE  \A k1, k2 \in Definitions(root[j].name)' : k1 = k2
  BY <1>1 DEF OneDefinition
<1>3. Definitions(root[j].name)' = Definitions(root[j].name) /\ IsProtoAt(j)
  <2>1. Definitions(root[j].name)' = {k \in DOMAIN root' : IsDefinition(root'[k]) /\ root'[k].name = root'[j].name}
    BY DEF Definitions
  <2>2. Definitions(root[j].name) = {k \in DOMAIN root : IsDefinition(root[k]) /\ root[k].name = root[j].name}
    BY DEF Definitions
  <2> QED BY <1>1, <2>1, <2>2, ShapeKept
<1>4. CASE j = i
  BY <1>2, <1>3, <1>4, ProtoAccepted
<1>5. CASE j # i
  BY <1>1, <1>2, <1>3, <1>5 DEF OneDefinition, Live
<1> QED BY <1>4, <1>5

(* The prototypes of n, in the file and among those installed. *)
LEMMA AgreesInstall ==
    ASSUME Linked, Tables, OneDefinition, Agreed, NEW d, Installing(d),
           NEW k \in DOMAIN root, Processed(k)', IsDefinition(root[k])',
           NEW n, n = root[k].name
    PROVE  Agrees(n, root[k].abstract)'
<1>1. /\ SameShape
      /\ i \in DOMAIN root /\ root[i] \in Declaration /\ root'[i] = d
      /\ \A j \in DOMAIN root : j # i => root'[j] = root[j]
      /\ ~Processed(i)
      /\ \A j \in DOMAIN root : Processed(j)' <=> Processed(j) \/ j = i
      /\ \A j \in DOMAIN root : Processed(j) => j < i
      /\ ast_externdecl_isfunction(root[i]) => externals_getfunc(d.name)' = d
      /\ \A m \in Names : ~FunctionAt(m, i) => externals_getfunc(m)' = externals_getfunc(m)
  BY InstallingFacts
<1>2. /\ status = "pass0" /\ d.name = root[i].name
      /\ IF IsDefinition(root[i]) THEN d = ast_function_protostitch(root[i]) ELSE d = root[i]
      /\ IsProtoAt(i) => verifyproto(root[i]) = "ok"
  BY DEF Installing
<1>3. /\ DOMAIN root' = DOMAIN root
      /\ \A j \in DOMAIN root : root'[j].name = root[j].name /\ (IsProtoAt(j)' <=> IsProtoAt(j))
      /\ IsDefinition(root[k])
      /\ ReplacedByAxiom(n)' <=> ReplacedByAxiom(n)
      /\ PrototypeBehind(n)' <=> PrototypeBehind(n)
  BY <1>1, ShapeKept DEF SameShape
<1>4. n \in Names /\ FunctionAt(n, k)
  <2>1. root[k] \in Declaration
    BY DEF Linked
  <2> QED BY <1>3, <2>1 DEF Declaration, FunctionAt, IsDefinition
<1>5. k # i => Processed(k) /\ root'[k] = root[k] /\ k < i /\ Agrees(n, root[k].abstract)
  BY <1>1, <1>2, <1>3 DEF Agreed, Live
<1>6. ASSUME NEW j \in DOMAIN root, ~(IsProtoAt(i) /\ root[i].name = n)
      PROVE  LastProtoSoFar(n, j)' <=> LastProtoSoFar(n, j)
  <2>1. \A m \in DOMAIN root :
           Processed(m)' /\ IsProtoAt(m)' /\ root'[m].name = n
           <=> Processed(m) /\ IsProtoAt(m) /\ root[m].name = n
    BY <1>1, <1>3, <1>6
  <2> QED BY <1>3, <2>1 DEF LastProtoSoFar
<1>7. CASE ~FunctionAt(n, i)
  <2>1. k # i /\ externals_getfunc(n)' = externals_getfunc(n) /\ ~(IsProtoAt(i) /\ root[i].name = n)
    BY <1>1, <1>4, <1>7 DEF FunctionAt, IsProtoAt
  <2>2. \A j \in DOMAIN root : LastProtoSoFar(n, j) => root'[j].abstract = root[j].abstract
    BY <1>1 DEF LastProtoSoFar
  <2> QED BY <1>3, <1>5, <1>6, <2>1, <2>2 DEF Agrees
<1>8. CASE FunctionAt(n, i) /\ root[i].axiom
  <2>1. k # i
    BY <1>3, <1>8 DEF IsDefinition
  <2>2. ReplacedByAxiom(n)
    BY <1>1, <1>4, <1>5, <1>8, <2>1 DEF ReplacedByAxiom, FunctionAt
  <2> QED BY <1>3, <2>2 DEF Agrees
<1>9. CASE FunctionAt(n, i) /\ IsProtoAt(i)
  <2>1. k # i
    BY <1>3, <1>9 DEF IsDefinition, IsProtoAt
  <2>2. PICK l \in Definitions(n) : Definitions(n) = {l} /\ proto_defisvalid(root[i], root[l])
    BY <1>2, <1>9, ProtoAccepted DEF FunctionAt
  <2>3. k \in Definitions(n)
    BY <1>3 DEF Definitions
  <2>4. proto_defisvalid(root[i], root[k])
    BY <2>2, <2>3
  <2>5. ~IsDefinition(root[i]) /\ d = root[i]
    BY <1>2, <1>9 DEF IsDefinition, IsProtoAt
  <2>6. CASE root[k].abstract = EMPTY
    <3>1. PrototypeBehind(n)
      BY <1>1, <1>3, <1>4, <1>5, <1>9, <2>1 DEF PrototypeBehind, FunctionAt
    <3> QED BY <1>3, <1>5, <2>1, <2>6, <3>1 DEF Agrees
  <2>7. CASE root[i].abstract = root[k].abstract
    <3>1. externals_getfunc(n)' = root[i]
      BY <1>1, <1>2, <1>9, <2>5 DEF FunctionAt
    <3>2. ASSUME NEW j \in DOMAIN root, LastProtoSoFar(n, j)'
          PROVE  j = i
      <4>1. i <= j
        BY <1>1, <1>3, <1>9, <3>2 DEF LastProtoSoFar, FunctionAt
      <4>2. j = i \/ j < i
        BY <1>1, <3>2 DEF LastProtoSoFar
      <4> QED BY <4>1, <4>2 DEF Linked
    <3>3. \A j \in DOMAIN root : LastProtoSoFar(n, j)' => root'[j].abstract = root[k].abstract
      BY <1>1, <2>5, <2>7, <3>2
    <3> QED BY <1>3, <1>5, <2>1, <2>7, <3>1, <3>3 DEF Agrees
  <2> QED BY <2>4, <2>6, <2>7 DEF proto_defisvalid, ast_function_absisempty
<1>10. CASE FunctionAt(n, i) /\ IsDefinition(root[i])
  <2>1. /\ externals_getfunc(n)' = d /\ d = ast_function_protostitch(root[i])
        /\ ~(IsProtoAt(i) /\ root[i].name = n)
    BY <1>1, <1>2, <1>10 DEF FunctionAt, IsDefinition, IsProtoAt
  <2>2. Declared(n) => d.abstract = externals_getfunc(n).abstract
    <3>1. Declared(n) => d = [root[i] EXCEPT !.abstract = externals_getfunc(n).abstract]
      BY <1>10, <2>1 DEF ast_function_protostitch, FunctionAt, Declared
    <3> QED BY <1>1, <3>1 DEF Declaration
  <2>3. CASE k # i
    <3>1. Declared(n)
      BY <1>2, <1>4, <1>5, <2>3 DEF Tables, Live, FunctionAt
    <3>2. \A j \in DOMAIN root : LastProtoSoFar(n, j) => root'[j] = root[j]
      BY <1>1 DEF LastProtoSoFar
    <3>3. externals_getfunc(n).abstract = root[k].abstract => d.abstract = root[k].abstract
      BY <2>2, <3>1
    <3>4. \/ /\ externals_getfunc(n).abstract = root[k].abstract
             /\ \A j \in DOMAIN root : LastProtoSoFar(n, j) => root[j].abstract = root[k].abstract
          \/ ReplacedByAxiom(n)
          \/ PrototypeBehind(n) /\ root[k].abstract = EMPTY
      BY <1>5, <2>3 DEF Agrees
    <3>5. \A j \in DOMAIN root' : LastProtoSoFar(n, j)' => LastProtoSoFar(n, j)
      BY <1>3, <1>6, <2>1
    <3> QED BY <1>3, <1>5, <2>1, <2>3, <3>2, <3>3, <3>4, <3>5 DEF Agrees
  <2>4. CASE k = i
    <3>1. ASSUME NEW j \in DOMAIN root, LastProtoSoFar(n, j)', ~ReplacedByAxiom(n)
          PROVE  root'[j].abstract = d.abstract
      <4>1. LastProtoSoFar(n, j)
        BY <1>6, <2>1, <3>1
      <4>2. Processed(j) /\ IsProtoAt(j) /\ FunctionAt(n, j) /\ root'[j] = root[j]
        BY <1>1, <4>1 DEF LastProtoSoFar, IsProtoAt, FunctionAt
      <4>3. Declared(n)
        BY <1>2, <4>2 DEF Tables, Live, FunctionAt
      <4>4. PICK m \in DOMAIN root : LastDeclared(n, m) /\ externals_getfunc(n) = root[m]
        BY <1>2, <1>4, <4>3 DEF Tables, Live
      <4>5. Processed(m) /\ FunctionAt(n, m) /\ m # i /\ j <= m
        BY <1>1, <4>2, <4>4 DEF LastDeclared
      <4>6. CASE m = j
        BY <2>2, <4>2, <4>3, <4>4, <4>6
      <4>7. CASE m # j
        <5>1. j < m
          BY <4>5, <4>7 DEF Linked
        <5>2. ~root[m].axiom
          BY <3>1, <4>2, <4>5, <5>1 DEF ReplacedByAxiom, FunctionAt
        <5>3. ~IsProtoAt(m)
          BY <4>1, <4>5, <5>1 DEF LastProtoSoFar, FunctionAt, Linked
        <5>4. IsDefinition(root[m])
          BY <4>5, <5>2, <5>3 DEF FunctionAt, IsProtoAt, IsDefinition
        <5>5. m \in Definitions(n) /\ i \in Definitions(n)
          BY <1>1, <1>10, <4>5, <5>4 DEF Definitions, FunctionAt
        <5>6. m = i
          BY <1>2, <4>2, <5>5 DEF OneDefinition, Live, FunctionAt
        <5> QED BY <4>5, <5>6
      <4> QED BY <4>6, <4>7
    <3>2. root'[k] = d
      BY <1>1, <2>4
    <3> QED BY <1>3, <2>1, <3>1, <3>2 DEF Agrees
  <2> QED BY <2>3, <2>4
<1> QED
  BY <1>7, <1>8, <1>9, <1>10 DEF FunctionAt, IsProtoAt, IsDefinition

-----------------------------------------------------------------------------
(* The other steps *)

(* After pass0 all declarations are installed, and stay as they are.       *)
LEMMA DeclarationsStay ==
    ASSUME Linked, [Next]_vars, ~pass0
    PROVE  /\ UNCHANGED <<root, ext>>
           /\ status' = "pass0" => status = "pass0" /\ UNCHANGED <<graph_vars, qed>>
           /\ status' \in Live => status \in Live /\ \A k \in DOMAIN root : Processed(k)' <=> Processed(k)
<1>1. UNCHANGED <<root, ext>>
  BY DeclarationsKept
<1>2. CASE Pass0Ends
  <2>1. \A k \in DOMAIN root : k < i
    BY <1>2 DEF Pass0Ends, Linked
  <2>2. status = "pass0" /\ status' # "pass0"
    BY <1>2 DEF Pass0Ends
  <2> QED BY <1>1, <2>1, <2>2 DEF Processed, Live
<1>3. CASE UNCHANGED <<linking_vars, graph_vars, qed>>
  BY <1>1, <1>3 DEF Processed, linking_vars, Live
<1>4. CASE status \in Live \ {"pass0"} /\ status' # "pass0"
  BY <1>1, <1>4 DEF Processed
<1>5. pass1 \/ Ordered \/ pass_inorder \/ verify_ends => status \in Live \ {"pass0"} /\ status' # "pass0"
  BY DEF pass1, Ordered, OrderIsComplete, pass_inorder, verify_ends, Verify, Live
<1>6. topological_order => status \in Live \ {"pass0"} /\ status' # "pass0"
  BY DEF topological_order, ast_function_buildgraph, recurse_buildgraph, NextStatement,
      SkipDuplicate, CalleeUndeclared, Callee, Return, InFrame, LoopEnds, InitIndegree,
      InitDependency, CountIndegree, build_indegree_zero, Dequeue, Scan, ScanEnds,
      CycleDetected, Live
<1> QED BY <1>2, <1>3, <1>4, <1>5, <1>6 DEF Next, verify, Exited, vars

LEMMA TablesStep ==
    ASSUME Linked, Tables, OneDefinition, Agreed, [Next]_vars
    PROVE  Tables' /\ OneDefinition' /\ Agreed'
<1>1. CASE pass0
  <2>1. CASE RejectProto
    <3>1. status' \notin Live
      BY <2>1, VerifyprotoResult DEF RejectProto, Live
    <3> QED BY <3>1 DEF Tables, OneDefinition, Agreed
  <2>2. ASSUME NEW d \in Declaration, Installing(d)
        PROVE  Agreed'
    <3> SUFFICES ASSUME NEW k \in DOMAIN root', Processed(k)', IsDefinition(root[k])'
                 PROVE  Agrees(root[k].name, root[k].abstract)'
      BY DEF Agreed
    <3>1. PICK n : n = root[k].name
      OBVIOUS
    <3>2. k \in DOMAIN root /\ root'[k].name = n
      BY <2>2, <3>1, InstallingFacts DEF SameShape
    <3>3. Agrees(n, root[k].abstract)'
      BY <2>2, <3>1, <3>2, AgreesInstall
    <3> QED BY <3>2, <3>3
  <2>3. ASSUME NEW d \in Declaration, Installing(d)
        PROVE  Tables' /\ OneDefinition'
    BY <2>3, TablesInstall, OneDefinitionInstall
  <2> QED BY <1>1, <2>1, <2>2, <2>3, Pass0Cases
<1>2. CASE ~pass0
  <2>1. CASE status' \notin Live
    BY <2>1 DEF Tables, OneDefinition, Agreed
  <2>2. CASE status' \in Live
    <3>1. /\ UNCHANGED <<root, ext>> /\ status \in Live
          /\ \A k \in DOMAIN root : Processed(k)' <=> Processed(k)
      BY <1>2, <2>2, DeclarationsStay
    <3>2. /\ \A n : externals_getfunc(n)' = externals_getfunc(n) /\ (Declared(n)' <=> Declared(n))
          /\ \A k : IsProtoAt(k)' <=> IsProtoAt(k)
          /\ \A n, k : FunctionAt(n, k)' <=> FunctionAt(n, k)
          /\ \A n : Definitions(n)' = Definitions(n)
          /\ \A n : ReplacedByAxiom(n)' <=> ReplacedByAxiom(n)
          /\ \A n : PrototypeBehind(n)' <=> PrototypeBehind(n)
      BY <3>1 DEF externals_getfunc, Declared, IsProtoAt, FunctionAt, Definitions,
                  ReplacedByAxiom, PrototypeBehind
    <3>3. \A n, k : LastDeclared(n, k)' <=> LastDeclared(n, k)
      <4>1. \A k : Processed(k)' <=> Processed(k)
        BY <3>1 DEF Processed
      <4> QED BY <3>1, <3>2, <4>1 DEF LastDeclared
    <3>4. \A n, k : LastProtoSoFar(n, k)' <=> LastProtoSoFar(n, k)
      <4>1. \A k : Processed(k)' <=> Processed(k)
        BY <3>1 DEF Processed
      <4> QED BY <3>1, <3>2, <4>1 DEF LastProtoSoFar
    <3>5. \A n, a : Agrees(n, a)' <=> Agrees(n, a)
      BY <3>1, <3>2, <3>4 DEF Agrees
    <3>6. Tables'
      BY <3>1, <3>2, <3>3 DEF Tables
    <3>7. OneDefinition'
      BY <3>1, <3>2 DEF OneDefinition
    <3>8. Agreed'
      BY <3>1, <3>5 DEF Agreed
    <3> QED BY <3>6, <3>7, <3>8
  <2> QED BY <2>1, <2>2
<1> QED BY <1>1, <1>2

-----------------------------------------------------------------------------
(* What is sorted is declared. *)

KnownSeq(s) == \A n \in ToSet(s) : Declared(n)

LEMMA KnownAppend ==
    ASSUME NEW s \in Seq(Names), KnownSeq(s), NEW n \in Names, Declared(n)
    PROVE  KnownSeq(Append(s, n))
BY AppendFacts DEF KnownSeq

(* The frames after the innermost is replaced by one of the same name.     *)
LEMMA KnownTop ==
    ASSUME Typed, Known, InFrame, NEW f \in Frame, f.name = Top.name, KnownSeq(f.val),
           frames' = WithTop(f)
    PROVE  \A k \in DOMAIN frames' : Declared(frames'[k].name) /\ KnownSeq(frames'[k].val)
<1>1. /\ DOMAIN frames' = DOMAIN frames /\ Len(frames) \in DOMAIN frames
      /\ frames'[Len(frames)] = f
      /\ \A k \in DOMAIN frames : k # Len(frames) => frames'[k] = frames[k]
  BY TopFacts
<1>3. Declared(f.name)
  BY <1>1 DEF Known, Top
<1> TAKE k \in DOMAIN frames'
<1>4. CASE k = Len(frames)
  BY <1>1, <1>3, <1>4
<1>5. CASE k # Len(frames)
  BY <1>1, <1>5 DEF Known, KnownSeq
<1> QED BY <1>4, <1>5

LEMMA TopKnown ==
    ASSUME Typed, Known, InFrame
    PROVE  Top \in Frame /\ Declared(Top.name) /\ KnownSeq(Top.val)
BY TopFacts DEF Known, Top, KnownSeq

(* The parts of the invariant that the graph, and the sort, may disturb.   *)
KnownFrames ==
    \A k \in DOMAIN frames :
        Declared(frames[k].name) /\ \A d \in ToSet(frames[k].val) : Declared(d)

KnownGraph == KnownSeq(keys) /\ \A n \in Names : KnownSeq(deps[n])

KnownQueues == KnownSeq(ikeys) /\ KnownSeq(zero) /\ KnownSeq(order)

LEMMA KnownParts ==
    ASSUME status # "pass0"
    PROVE  Known <=> KnownFrames /\ KnownGraph /\ KnownQueues
BY DEF Known, KnownFrames, KnownGraph, KnownQueues, KnownSeq

LEMMA KnownBuilding ==
    ASSUME Linked, Typed, Known, Building, UNCHANGED ext
    PROVE  KnownFrames' /\ KnownGraph' /\ KnownQueues'
<1>1. \A n : Declared(n)' <=> Declared(n)
  BY DEF Declared, externals_getfunc
<1>2. status = "graph" /\ UNCHANGED <<degrees, queue>>
  BY BuildingFacts
<1>3. KnownFrames /\ KnownGraph /\ KnownQueues
  BY <1>2 DEF Known, KnownFrames, KnownGraph, KnownQueues, KnownSeq
<1>4. KnownQueues'
  <2>1. UNCHANGED <<ikeys, zero, order>>
    BY <1>2 DEF degrees, queue
  <2> QED BY <1>1, <1>3, <2>1 DEF KnownQueues, KnownSeq
<1>5. UNCHANGED graph => KnownGraph'
  BY <1>1, <1>3 DEF KnownGraph, KnownSeq, graph
<1>6. UNCHANGED frames => KnownFrames'
  BY <1>1, <1>3 DEF KnownFrames
<1>7. ASSUME InFrame, NEW f \in Frame, f.name = Top.name, KnownSeq(f.val), frames' = WithTop(f)
      PROVE  KnownFrames'
  BY <1>1, <1>7, KnownTop DEF KnownFrames, KnownSeq
<1>8. CASE ast_function_buildgraph
  <2>1. UNCHANGED graph
    BY <1>8 DEF ast_function_buildgraph
  <2>2. CASE /\ externals_getfunc(sortfunc) # NONE
             /\ frames' = <<NewFrame(sortfunc, externals_getfunc(sortfunc).body)>>
    <3>1. /\ DOMAIN frames' = {1} /\ frames'[1].name = sortfunc /\ ToSet(frames'[1].val) = {}
      BY <2>2 DEF NewFrame, ToSet
    <3> QED BY <1>1, <1>4, <1>5, <2>1, <2>2, <3>1 DEF KnownFrames, Declared
  <2> QED BY <1>4, <1>5, <1>6, <1>8, <2>1, <2>2 DEF ast_function_buildgraph
<1>9. CASE NextStatement
  <2>1. UNCHANGED graph /\ InFrame /\ Top.stmts # <<>>
    BY <1>9 DEF NextStatement
  <2>2. CASE /\ AssertionFails \notin ToSet(GetFuncs(Head(Top.stmts)))
             /\ frames' = WithTop([Top EXCEPT !.stmts = Tail(@), !.funcs = GetFuncs(Head(Top.stmts))])
    <3>1. Top \in Frame /\ Head(Top.stmts) \in Statements /\ Tail(Top.stmts) \in Seq(Statements)
      BY <2>1, TopFacts, TailFacts DEF Frame
    <3>2. GetFuncs(Head(Top.stmts)) \in Seq(Names)
      BY <2>2, <3>1, FuncsAreNames
    <3>3. PICK f \in Frame : f = [Top EXCEPT !.stmts = Tail(@), !.funcs = GetFuncs(Head(Top.stmts))]
      BY <3>1, <3>2 DEF Frame
    <3>4. f.name = Top.name /\ f.val = Top.val
      BY <3>1, <3>3 DEF Frame
    <3> QED BY <1>4, <1>5, <1>7, <2>1, <2>2, <3>3, <3>4, TopKnown
  <2> QED BY <1>4, <1>5, <1>6, <1>9, <2>1, <2>2 DEF NextStatement
<1>10. CASE SkipDuplicate
  <2>1. UNCHANGED graph /\ InFrame /\ Top.funcs # <<>>
    BY <1>10 DEF SkipDuplicate
  <2>2. PICK f \in Frame : f = [Top EXCEPT !.funcs = Tail(@)]
    BY <2>1, TopFacts, TailFacts DEF Frame
  <2>3. f.name = Top.name /\ f.val = Top.val /\ frames' = WithTop(f)
    BY <1>10, <2>1, <2>2, TopFacts DEF SkipDuplicate, Frame
  <2> QED BY <1>4, <1>5, <1>7, <2>1, <2>3, TopKnown
<1>11. CASE Callee
  <2> DEFINE c == Head(Top.funcs)
  <2>1. UNCHANGED graph /\ InFrame /\ Top.funcs # <<>> /\ Declared(c)
    BY <1>11 DEF Callee, Declared
  <2>2. c \in Names /\ Top \in Frame /\ KnownSeq(Top.val)
    BY <2>1, NotedIsFrame, TopKnown
  <2>3. PICK f \in Frame : f = Noted(c)
    BY <2>1, NotedIsFrame
  <2>4. f.name = Top.name /\ f.val \in {Top.val, Append(Top.val, c)} /\ Top.val \in Seq(Names)
    BY <2>2, <2>3 DEF Noted, Frame
  <2>5. KnownSeq(Append(Top.val, c))
    BY <2>1, <2>2, <2>4, KnownAppend
  <2>6. KnownSeq(f.val)
    BY <2>2, <2>4, <2>5
  <2>7. CASE frames' = WithTop(f)
    BY <1>4, <1>5, <1>7, <2>1, <2>4, <2>6, <2>7
  <2>8. CASE /\ ~NoStatements(externals_getfunc(c))
             /\ frames' = Append(WithTop(f), NewFrame(c, externals_getfunc(c).body))
    <3>1. PICK g \in Frame : g = NewFrame(c, externals_getfunc(c).body)
      BY <2>1, <2>2, <2>8, DeclaredBody, NewFrameIsFrame DEF Declared
    <3>2. g.name = c /\ ToSet(g.val) = {}
      BY <3>1 DEF NewFrame, ToSet
    <3>3. /\ WithTop(f) \in Seq(Frame)
          /\ DOMAIN WithTop(f) = DOMAIN frames /\ Len(WithTop(f)) = Len(frames)
          /\ WithTop(f)[Len(frames)] = f
          /\ \A k \in DOMAIN frames : k # Len(frames) => WithTop(f)[k] = frames[k]
      BY <2>1, TopFacts
    <3>4. /\ DOMAIN frames' = DOMAIN frames \cup {Len(frames) + 1}
          /\ frames'[Len(frames) + 1] = g
          /\ \A k \in DOMAIN frames : frames'[k] = WithTop(f)[k]
      BY <2>8, <3>1, <3>3, AppendFacts
    <3>5. Declared(f.name)
      BY <2>1, <2>4, TopKnown
    <3>6. ASSUME NEW k \in DOMAIN frames'
          PROVE  Declared(frames'[k].name) /\ KnownSeq(frames'[k].val)
      <4>1. CASE k = Len(frames) + 1
        BY <2>1, <3>2, <3>4, <4>1 DEF KnownSeq
      <4>2. CASE k \in DOMAIN frames /\ k = Len(frames)
        BY <2>6, <3>3, <3>4, <3>5, <4>2
      <4>3. CASE k \in DOMAIN frames /\ k # Len(frames)
        BY <1>3, <3>3, <3>4, <4>3 DEF KnownFrames, KnownSeq
      <4> QED BY <3>4, <4>1, <4>2, <4>3
    <3> QED BY <1>1, <1>4, <1>5, <2>1, <3>6 DEF KnownFrames, KnownSeq
  <2> QED BY <1>4, <1>5, <1>6, <1>11, <2>1, <2>3, <2>7, <2>8 DEF Callee
<1>12. CASE Return
  <2>1. InFrame /\ Len(frames) \in Nat \ {0} /\ frames \in Seq(Frame)
    BY <1>12, TopFacts DEF Return, Typed
  <2>2. /\ keys' = Append(keys, Top.name) /\ deps' = [deps EXCEPT ![Top.name] = Top.val]
        /\ frames' = SubSeq(frames, 1, Len(frames) - 1)
    BY <1>12 DEF Return
  <2>3. Top.name \in Names /\ Declared(Top.name) /\ KnownSeq(Top.val)
    BY <2>1, TopKnown DEF Frame
  <2>4. KnownSeq(keys')
    BY <1>3, <2>2, <2>3, KnownAppend DEF KnownGraph, Typed
  <2>5. \A n \in Names : KnownSeq(deps'[n])
    BY <1>3, <2>2, <2>3 DEF KnownGraph, Typed
  <2>6. KnownGraph'
    BY <1>1, <2>4, <2>5 DEF KnownGraph, KnownSeq
  <2>7. \A k \in DOMAIN frames' : k \in DOMAIN frames /\ frames'[k] = frames[k]
    BY <2>1, <2>2
  <2>8. KnownFrames'
    BY <1>1, <1>3, <2>7 DEF KnownFrames
  <2> QED BY <1>4, <2>6, <2>8
<1> QED BY <1>8, <1>9, <1>10, <1>11, <1>12 DEF Building

LEMMA KnownSorting ==
    ASSUME Linked, Typed, Collected, Known, UNCHANGED <<ext, graph, frames>>,
           InitIndegree \/ InitDependency \/ CountIndegree \/ build_indegree_zero
           \/ Dequeue \/ Scan \/ ScanEnds
    PROVE  KnownFrames' /\ KnownGraph' /\ KnownQueues'
<1>1. \A n : Declared(n)' <=> Declared(n)
  BY DEF Declared, externals_getfunc
<1>2. KnownFrames /\ KnownGraph /\ KnownQueues
  BY DEF Known, KnownFrames, KnownGraph, KnownQueues, KnownSeq
<1>3. KnownFrames' /\ KnownGraph'
  BY <1>1, <1>2 DEF KnownFrames, KnownGraph, KnownSeq, graph
<1>4. ikeys \in Seq(Names) /\ zero \in Seq(Names) /\ order \in Seq(Names)
      /\ KnownSeq(ikeys) /\ KnownSeq(zero) /\ KnownSeq(order)
  BY <1>2 DEF Typed, KnownQueues
<1>5. KnownSeq(ikeys')
  <2>1. CASE UNCHANGED ikeys
    BY <1>4, <2>1
  <2>2. CASE InitIndegree /\ ikeys' = Append(ikeys, keys[i])
    <3>1. i \in DOMAIN keys /\ keys[i] \in Names
      BY <2>2, IndexFacts DEF InitIndegree, Typed
    <3>2. Declared(keys[i])
      BY <1>2, <3>1 DEF KnownGraph, KnownSeq, ToSet
    <3> QED BY <1>4, <2>2, <3>1, <3>2, KnownAppend
  <2>3. CASE InitDependency /\ ikeys' # ikeys
    <3>1. i <= Len(keys) /\ inner \in Nat \ {0}
      BY <2>3 DEF InitDependency, Collected, Typed
    <3>2. keys[i] \in Names /\ deps[keys[i]] \in Seq(Names)
      BY <3>1, IndexFacts DEF Typed
    <3>3. inner <= Len(deps[keys[i]]) /\ ikeys' = Append(ikeys, deps[keys[i]][inner])
      BY <2>3 DEF InitDependency
    <3>4. inner \in DOMAIN deps[keys[i]] /\ deps[keys[i]][inner] \in Names
      BY <3>1, <3>2, <3>3
    <3>5. Declared(deps[keys[i]][inner])
      BY <1>2, <3>2, <3>4 DEF KnownGraph, KnownSeq, ToSet
    <3> QED BY <1>4, <3>3, <3>4, <3>5, KnownAppend
  <2> QED
    BY <2>1, <2>2, <2>3
    DEF InitIndegree, CountIndegree, build_indegree_zero, Dequeue, Scan, ScanEnds, degrees
<1>6. KnownSeq(zero') /\ KnownSeq(order')
  <2>1. CASE UNCHANGED <<zero, order>>
    BY <1>4, <2>1
  <2>2. CASE build_indegree_zero
    <3>1. ikeys[i] \in Names /\ i \in DOMAIN ikeys
      BY <1>4, <2>2, IndexFacts DEF build_indegree_zero
    <3>2. Declared(ikeys[i])
      BY <1>4, <3>1 DEF KnownSeq, ToSet
    <3>3. order' = order /\ zero' \in {zero, Append(zero, ikeys[i])}
      BY <2>2 DEF build_indegree_zero
    <3>4. KnownSeq(Append(zero, ikeys[i]))
      BY <1>4, <3>1, <3>2, KnownAppend
    <3> QED BY <1>4, <3>3, <3>4
  <2>3. CASE Dequeue
    <3>1. zero # <<>> /\ zero' = Tail(zero) /\ order' = Append(order, Head(zero))
      BY <2>3 DEF Dequeue
    <3>2. Head(zero) \in Names /\ Head(zero) \in ToSet(zero) /\ ToSet(Tail(zero)) \subseteq ToSet(zero)
      BY <1>4, <3>1, TailFacts
    <3>3. Declared(Head(zero)) /\ KnownSeq(Tail(zero))
      BY <1>4, <3>2 DEF KnownSeq
    <3>4. KnownSeq(Append(order, Head(zero)))
      BY <1>4, <3>2, <3>3, KnownAppend
    <3> QED BY <3>1, <3>3, <3>4
  <2>4. CASE Scan
    <3>1. keys[i] \in Names /\ i \in DOMAIN keys
      BY <2>4, IndexFacts DEF Scan, Typed
    <3>2. Declared(keys[i])
      BY <1>2, <3>1 DEF KnownGraph, KnownSeq, ToSet
    <3>3. order' = order /\ zero' \in {zero, Append(zero, keys[i])}
      BY <2>4 DEF Scan
    <3>4. KnownSeq(Append(zero, keys[i]))
      BY <1>4, <3>1, <3>2, KnownAppend
    <3> QED BY <1>4, <3>3, <3>4
  <2> QED
    BY <2>1, <2>2, <2>3, <2>4
    DEF InitIndegree, InitDependency, CountIndegree, ScanEnds, queue
<1>7. KnownQueues'
  BY <1>1, <1>5, <1>6 DEF KnownQueues, KnownSeq
<1> QED BY <1>3, <1>7

LEMMA KnownStep ==
    ASSUME Linked, Typed, Collected, Known, [Next]_vars
    PROVE  Known'
<1>1. CASE pass0
  <2>2. status = "pass0"
    BY <1>1 DEF pass0, InstallPlain, InstallProto, RejectProto, InstallDefinition
  <2>3. UNCHANGED graph_vars
    BY <2>2
    DEF Next, verify, Pass0Ends, pass1, Ordered, OrderIsComplete, pass_inorder, verify_ends,
        topological_order, ast_function_buildgraph, recurse_buildgraph, NextStatement,
        SkipDuplicate, CalleeUndeclared, Callee, Return, InFrame, LoopEnds, InitIndegree,
        InitDependency, CountIndegree, build_indegree_zero, Dequeue, Scan, ScanEnds,
        CycleDetected, Exited, vars
  <2>4. ToSet(<<>>) = {} /\ DOMAIN <<>> = {}
    BY DEF ToSet
  <2>5. /\ frames = <<>> /\ keys = <<>> /\ ikeys = <<>> /\ zero = <<>> /\ order = <<>>
        /\ \A n \in Names : deps[n] = <<>>
    BY <2>2 DEF Known
  <2>6. UNCHANGED <<frames, keys, deps, ikeys, zero, order>>
    BY <2>3 DEF graph_vars, graph, degrees, queue
  <2> QED BY <2>4, <2>5, <2>6 DEF Known
<1>2. CASE ~pass0
  <2>1. /\ UNCHANGED <<root, ext>>
        /\ status' = "pass0" => status = "pass0" /\ UNCHANGED <<graph_vars, qed>>
    BY <1>2, DeclarationsStay
  <2>2. CASE UNCHANGED graph_vars
    <3>1. UNCHANGED <<frames, keys, deps, ikeys, zero, order>>
      BY <2>2 DEF graph_vars, graph, degrees, queue
    <3>2. \A n : Declared(n)' <=> Declared(n)
      BY <2>1 DEF Declared, externals_getfunc
    <3> QED BY <2>1, <3>1, <3>2 DEF Known
  <2>3. CASE ~UNCHANGED graph_vars
    <3>1. status' # "pass0"
      BY <2>1, <2>3
    <3>2. KnownFrames' /\ KnownGraph' /\ KnownQueues'
      <4>1. CASE Building
        BY <2>1, <4>1, KnownBuilding
      <4>2. CASE InitIndegree \/ InitDependency \/ CountIndegree \/ build_indegree_zero
                 \/ Dequeue \/ Scan \/ ScanEnds
        <5>1. UNCHANGED <<graph, frames>>
          BY <4>2
          DEF InitIndegree, InitDependency, CountIndegree, build_indegree_zero, Dequeue, Scan,
              ScanEnds
        <5> QED BY <2>1, <4>2, <5>1, KnownSorting
      <4> QED BY <2>3, <4>1, <4>2, StepCases DEF Building, LoopEnds, Quiet
    <3>3. Known' <=> KnownFrames' /\ KnownGraph' /\ KnownQueues'
      BY <3>1 DEF Known, KnownFrames, KnownGraph, KnownQueues, KnownSeq
    <3> QED BY <3>2, <3>3
  <2> QED BY <2>2, <2>3
<1> QED BY <1>1, <1>2

-----------------------------------------------------------------------------
(* What is verified agrees with what is declared. *)

Verified ==
    /\ status = "pass0" => qed = <<>>
    /\ qed \in Seq([name : Names, abstract : Abstracts])
    /\ VerifiedAsAssumed

(* When all declarations are installed. *)
LEMMA AgreesMeansAssumed ==
    ASSUME Linked, NEW n \in Names, NEW a, Agrees(n, a), status # "pass0"
    PROVE  \/ /\ externals_getfunc(n).abstract = a
              /\ \A k \in DOMAIN root : LastPrototype(n, k) => root[k].abstract = a
           \/ ReplacedByAxiom(n)
           \/ PrototypeBehind(n) /\ a = EMPTY
<1>1. ASSUME NEW k \in DOMAIN root, LastPrototype(n, k)
      PROVE  LastProtoSoFar(n, k)
  <2>1. \A j \in DOMAIN root : j > k => j \in k + 1 .. Len(root)
    BY DEF Linked
  <2> QED BY <1>1, <2>1 DEF LastPrototype, LastProtoSoFar, Processed, Linked
<1> QED BY <1>1 DEF Agrees

LEMMA VerifiedStep ==
    ASSUME Linked, Typed, Tables, Agreed, Known, Verified, [Next]_vars
    PROVE  Verified'
<1>1. CASE pass0
  <2>1. status = "pass0"
    BY <1>1 DEF pass0, InstallPlain, InstallProto, RejectProto, InstallDefinition
  <2>2. UNCHANGED qed
    BY <2>1
    DEF Next, verify, Pass0Ends, pass1, Ordered, OrderIsComplete, pass_inorder, verify_ends, Exited, vars
  <2>3. qed' = <<>> /\ ToSet(qed') = {}
    BY <2>1, <2>2 DEF Verified, ToSet
  <2> QED BY <2>3 DEF Verified, VerifiedAsAssumed
<1>2. CASE ~pass0 /\ UNCHANGED qed
  <2>1. UNCHANGED <<root, ext>> /\ (status' = "pass0" => status = "pass0")
    BY <1>2, DeclarationsStay
  <2>2. VerifiedAsAssumed'
    BY <1>2, <2>1
    DEF Verified, VerifiedAsAssumed, externals_getfunc, LastPrototype, IsProtoAt, ReplacedByAxiom,
        PrototypeBehind
  <2> QED BY <1>2, <2>1, <2>2 DEF Verified
<1>3. ASSUME status \in Live \ {"pass0"}, status' # "pass0", NEW f \in Declaration,
             Agrees(f.name, f.abstract), UNCHANGED <<root, ext>>,
             qed' = Append(qed, [name |-> f.name, abstract |-> f.abstract])
      PROVE  Verified'
  <2> DEFINE S == [name : Names, abstract : Abstracts]
  <2>1. PICK q \in S : q = [name |-> f.name, abstract |-> f.abstract]
    BY DEF Declaration
  <2>2. qed \in Seq(S) /\ qed' = Append(qed, q)
    BY <1>3, <2>1 DEF Verified
  <2>3. qed' \in Seq(S) /\ ToSet(qed') = ToSet(qed) \cup {q}
    <3> HIDE DEF S
    <3> QED BY <2>1, <2>2, AppendFacts
  <2>4. q.name = f.name /\ q.abstract = f.abstract /\ q.name \in Names
    BY <2>1
  <2>5. \/ /\ externals_getfunc(q.name).abstract = q.abstract
           /\ \A k \in DOMAIN root : LastPrototype(q.name, k) => root[k].abstract = q.abstract
        \/ ReplacedByAxiom(q.name)
        \/ PrototypeBehind(q.name) /\ q.abstract = EMPTY
    BY <1>3, <2>4, AgreesMeansAssumed
  <2>6. \A p \in ToSet(qed') :
           \/ /\ externals_getfunc(p.name).abstract = p.abstract
              /\ \A k \in DOMAIN root : LastPrototype(p.name, k) => root[k].abstract = p.abstract
           \/ ReplacedByAxiom(p.name)
           \/ PrototypeBehind(p.name) /\ p.abstract = EMPTY
    BY <2>3, <2>5 DEF Verified, VerifiedAsAssumed
  <2>7. VerifiedAsAssumed'
    BY <1>3, <2>6
    DEF VerifiedAsAssumed, externals_getfunc, LastPrototype, IsProtoAt, ReplacedByAxiom, PrototypeBehind
  <2> QED BY <1>3, <2>3, <2>7 DEF Verified
<1>4. CASE pass1 /\ ~UNCHANGED qed
  <2>1. /\ status = "pass1" /\ status' = "pass1" /\ i <= Len(root) /\ IsDefinition(root[i])
        /\ qed' = Append(qed, [name |-> root[i].name, abstract |-> root[i].abstract])
        /\ UNCHANGED <<root, ext>>
    BY <1>4 DEF pass1, Verify
  <2>2. i \in DOMAIN root /\ root[i] \in Declaration
    BY <2>1, IndexFacts DEF Linked
  <2>3. Agrees(root[i].name, root[i].abstract)
    BY <2>1, <2>2 DEF Agreed, Processed, Live
  <2>4. PICK f \in Declaration : f = root[i]
    BY <2>2
  <2> QED BY <1>3, <2>1, <2>3, <2>4 DEF Live
<1>5. CASE pass_inorder /\ ~UNCHANGED qed
  <2>1. PICK f : f = externals_getfunc(order[i])
    OBVIOUS
  <2>2. /\ status = "inorder" /\ status' = "inorder" /\ i <= Len(order) /\ IsDefinition(f)
        /\ qed' = Append(qed, [name |-> f.name, abstract |-> f.abstract])
        /\ UNCHANGED <<root, ext>>
    BY <1>5, <2>1 DEF pass_inorder, Verify
  <2>3. order[i] \in Names /\ order[i] \in ToSet(order)
    BY <2>2, IndexFacts DEF Typed, ToSet
  <2>4. Declared(order[i])
    BY <2>3 DEF Known
  <2>5. PICK k \in DOMAIN root : LastDeclared(order[i], k) /\ f = root[k]
    BY <2>1, <2>2, <2>3, <2>4 DEF Tables, Live
  <2>6. f \in Declaration
    BY <2>5 DEF Linked
  <2>7. Agrees(f.name, f.abstract)
    BY <2>2, <2>5 DEF Agreed, Processed, Live
  <2> QED BY <1>3, <2>2, <2>6, <2>7 DEF Live
<1>6. pass1 \/ pass_inorder \/ UNCHANGED qed
  BY DEF Next, verify, Pass0Ends, Ordered, verify_ends, Exited, vars
<1> QED BY <1>1, <1>2, <1>4, <1>5, <1>6, Zenon

-----------------------------------------------------------------------------

LEMMA InitLInv ==
    Init => Tables /\ OneDefinition /\ Agreed /\ Known /\ Verified
<1> SUFFICES ASSUME Init PROVE Tables /\ OneDefinition /\ Agreed /\ Known /\ Verified
  OBVIOUS
<1>1. PICK c \in Configs :
         /\ root = c.root
         /\ status = IF c.mode = "strip" THEN "strip" ELSE "pass0"
  BY DEF Init
<1>2. ext = externals_create /\ i = 1 /\ GraphInit /\ qed = <<>>
  BY DEF Init
<1>3. root \in Seq(Declaration) /\ status \in {"strip", "pass0"}
  BY <1>1, ConfigAssumption
<1>4. status \in Live => \A k \in DOMAIN root : ~Processed(k)
  BY <1>2, <1>3 DEF Processed, Live
<1>5. \A n \in Names : ~Declared(n)
  BY <1>2 DEF Declared, externals_getfunc, externals_create, Kinds
<1>6. Tables /\ OneDefinition /\ Agreed
  BY <1>4, <1>5 DEF Tables, OneDefinition, Agreed
<1>7. ToSet(<<>>) = {} /\ DOMAIN <<>> = {}
  BY DEF ToSet
<1>8. Known
  BY <1>2, <1>7 DEF Known, GraphInit
<1>9. Verified
  BY <1>2, <1>7 DEF Verified, VerifiedAsAssumed
<1> QED BY <1>6, <1>8, <1>9

(* The tables hold the last declaration of each function, a prototype's    *)
(* definition is the only one, all that is sorted is declared, and what is *)
(* installed agrees (pass0, ast_function_buildgraph).                      *)
THEOREM LinkingInvariant ==
    Spec => [](Tables /\ OneDefinition /\ Agreed /\ Known /\ Verified)
<1> DEFINE LInv == Tables /\ OneDefinition /\ Agreed /\ Known /\ Verified
<1>1. Init => LInv
  BY InitLInv
<1>2. IInv /\ LInv /\ [Next]_vars => LInv'
  BY TablesStep, KnownStep, VerifiedStep DEF IInv
<1> HIDE DEF LInv
<1>3. Spec => []LInv
  BY <1>1, <1>2, ProgramInvariant, PTL DEF Spec
<1> QED BY <1>3 DEF LInv

(* In all files that are linked, whatever is declared in whatever order,   *)
(* a function is verified against the abstract that its callers assume and *)
(* its last prototype states, unless an axiom replaced a declaration of it *)
(* or a prototype stands behind it (verifyproto, ast_function_protostitch).*)
THEOREM ProgramVerifiedAsAssumed == Spec => []VerifiedAsAssumed
<1>1. Tables /\ OneDefinition /\ Agreed /\ Known /\ Verified => VerifiedAsAssumed
  BY DEF Verified
<1> QED BY <1>1, LinkingInvariant, PTL
=============================================================================
