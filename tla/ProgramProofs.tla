--------------------------- MODULE ProgramProofs ---------------------------
(***************************************************************************)
(* Proofs about the program as a whole, for all files, all graphs of calls *)
(* and all names.                                                          *)
(***************************************************************************)
EXTENDS Program, FiniteSetTheorems, SequenceTheorems, WellFoundedInduction, TLAPS

-----------------------------------------------------------------------------
(* The inductive invariant *)

Frame ==
    [name : Names, stmts : Seq(Statements), funcs : Seq(Names),
     local_dedup : SUBSET Names, val : Seq(Names)]

Linked ==
    /\ root \in Seq(Declaration)
    /\ ext \in [Kinds -> [Names -> Declaration \cup {NONE}]]
    /\ i \in Nat \ {0}

Typed ==
    /\ sortfunc \in Names
    /\ dedup \subseteq Names
    /\ frames \in Seq(Frame)
    /\ keys \in Seq(Names)
    /\ deps \in [Names -> Seq(Names)]
    /\ ikeys \in Seq(Names)
    /\ inner \in Nat
    /\ count \in [Names -> Int]
    /\ zero \in Seq(Names)
    /\ curr \in Names \cup {NONE}
    /\ order \in Seq(Names)

Injective(s) == \A j, k \in DOMAIN s : s[j] = s[k] => j = k

(* The functions with a frame and those in the graph are different ones    *)
(* and have been entered; a function is listed once among those that       *)
(* another calls.                                                          *)
Entered ==
    /\ Injective(keys) /\ ToSet(keys) \subseteq dedup
    /\ \A k \in DOMAIN frames :
          /\ frames[k].name \in dedup /\ frames[k].name \notin ToSet(keys)
          /\ Injective(frames[k].val) /\ ToSet(frames[k].val) \subseteq frames[k].local_dedup
          /\ \A j \in DOMAIN frames : frames[j].name = frames[k].name => j = k
    /\ \A n \in Names : Injective(deps[n]) /\ (deps[n] # <<>> => n \in ToSet(keys))

(* The phases before the loops of the sort, and the loops. *)
Early == {"strip", "pass0", "pass1", "graph"}
Loops == {"indegrees", "count", "zero", "order"}

Collected ==
    /\ Injective(ikeys)
    /\ status \in Early => inner = 0
    /\ status = "indegrees" =>
          /\ inner > 0 => i <= Len(keys)
          /\ \A j \in DOMAIN keys : j < i \/ (inner > 0 /\ j = i) => keys[j] \in ToSet(ikeys)
    /\ status \in {"count", "zero", "order"} => ToSet(keys) \subseteq ToSet(ikeys)

Counted ==
    /\ status \in Early \cup {"indegrees"} => \A n \in Names : count[n] = 0
    /\ status = "count" =>
          \A j \in DOMAIN ikeys :
              count[ikeys[j]] = IF j < i THEN Len(deps[ikeys[j]]) ELSE 0
    /\ status = "zero" => \A j \in DOMAIN ikeys : count[ikeys[j]] = Len(deps[ikeys[j]])

Queued ==
    /\ status \in Early \cup {"indegrees", "count"} => zero = <<>>
    /\ status \in Early \cup {"indegrees", "count", "zero"} => order = <<>> /\ curr = NONE
    /\ status = "zero" =>
          /\ Injective(zero)
          /\ \A n \in ToSet(zero) :
                count[n] = 0 /\ \E j \in DOMAIN ikeys : j < i /\ ikeys[j] = n

(* The functions that n calls and that are not yet known to be in the      *)
(* order: curr is, but the scan may not have come to n.                    *)
Scanned(n) == \E j \in DOMAIN keys : j < i /\ keys[j] = n

Waiting(n) ==
    {k \in DOMAIN deps[n] :
        deps[n][k] \notin ToSet(order) \/ (deps[n][k] = curr /\ ~Scanned(n))}

Sorted ==
    status = "order" =>
        /\ \A n \in ToSet(keys) : count[n] = Cardinality(Waiting(n))
        /\ \A n \in ToSet(keys) \cap (ToSet(zero) \cup ToSet(order)) : count[n] = 0
        /\ Injective(zero) /\ Injective(order)
        /\ ToSet(zero) \cap ToSet(order) = {}
        /\ curr # NONE => curr \in ToSet(order)

First ==
    \A k \in DOMAIN order :
        /\ \A c \in DOMAIN deps[order[k]] : \E j \in 1 .. k - 1 : order[j] = deps[order[k]][c]
        /\ \A j \in 1 .. k - 1 : order[j] # order[k]

IInv == Linked /\ Typed /\ Entered /\ Collected /\ Counted /\ Queued /\ Sorted /\ First

-----------------------------------------------------------------------------
(* Sequences *)

(* What an element that is appended adds. *)
LEMMA AppendFacts ==
    ASSUME NEW S, NEW s \in Seq(S), NEW e \in S
    PROVE  /\ Append(s, e) \in Seq(S)
           /\ Append(s, e) # <<>>
           /\ Len(Append(s, e)) = Len(s) + 1
           /\ DOMAIN Append(s, e) = DOMAIN s \cup {Len(s) + 1}
           /\ Append(s, e)[Len(s) + 1] = e
           /\ \A k \in DOMAIN s : Append(s, e)[k] = s[k]
           /\ ToSet(Append(s, e)) = ToSet(s) \cup {e}
           /\ Injective(s) /\ e \notin ToSet(s) => Injective(Append(s, e))
<1>1. /\ Append(s, e) \in Seq(S)
      /\ Append(s, e) # <<>>
      /\ Len(Append(s, e)) = Len(s) + 1
      /\ Append(s, e)[Len(s) + 1] = e
      /\ \A k \in DOMAIN s : Append(s, e)[k] = s[k]
  BY AppendProperties
<1>2. DOMAIN Append(s, e) = DOMAIN s \cup {Len(s) + 1}
  BY <1>1
<1>3. ToSet(Append(s, e)) = ToSet(s) \cup {e}
  BY <1>1, <1>2 DEF ToSet
<1>4. Injective(s) /\ e \notin ToSet(s) => Injective(Append(s, e))
  <2> SUFFICES ASSUME Injective(s), e \notin ToSet(s),
                      NEW j \in DOMAIN Append(s, e), NEW k \in DOMAIN Append(s, e),
                      Append(s, e)[j] = Append(s, e)[k]
               PROVE  j = k
    BY DEF Injective
  <2>1. CASE j \in DOMAIN s /\ k \in DOMAIN s
    BY <1>1, <2>1 DEF Injective
  <2>2. CASE j = Len(s) + 1 /\ k \in DOMAIN s
    BY <1>1, <2>2 DEF ToSet
  <2>3. CASE j \in DOMAIN s /\ k = Len(s) + 1
    BY <1>1, <2>3 DEF ToSet
  <2> QED BY <1>2, <2>1, <2>2, <2>3
<1> QED BY <1>1, <1>2, <1>3, <1>4

(* What is left when the head is taken. *)
LEMMA TailFacts ==
    ASSUME NEW S, NEW s \in Seq(S), s # <<>>
    PROVE  /\ Head(s) \in S /\ Head(s) \in ToSet(s)
           /\ Tail(s) \in Seq(S)
           /\ ToSet(Tail(s)) \subseteq ToSet(s)
           /\ Injective(s) => Injective(Tail(s)) /\ Head(s) \notin ToSet(Tail(s))
<1>1. /\ Head(s) \in S /\ Tail(s) \in Seq(S)
      /\ Len(Tail(s)) = Len(s) - 1 /\ Len(s) > 0
      /\ Head(s) = s[1]
      /\ \A k \in 1 .. Len(s) - 1 : Tail(s)[k] = s[k + 1]
  BY HeadTailProperties, EmptySeq
<1>2. DOMAIN s = 1 .. Len(s) /\ DOMAIN Tail(s) = 1 .. Len(s) - 1
  BY <1>1
<1> QED BY <1>1, <1>2 DEF ToSet, Injective

(* A sequence of other elements does not hold one of these. *)
LEMMA SeqWithout ==
    ASSUME NEW S, NEW e, NEW s \in Seq(S \cup {e}), e \notin ToSet(s)
    PROVE  s \in Seq(S)
<1>1. \A k \in 1 .. Len(s) : s[k] \in S
  BY DEF ToSet
<1> QED BY <1>1, SeqDef

(* As many dependencies as indices. *)
LEMMA IndicesCounted ==
    ASSUME NEW S, NEW s \in Seq(S)
    PROVE  IsFiniteSet(DOMAIN s) /\ Cardinality(DOMAIN s) = Len(s)
<1>1. DOMAIN s = 1 .. Len(s) /\ Len(s) \in Nat
  OBVIOUS
<1> QED BY <1>1, FS_Interval

-----------------------------------------------------------------------------
(* The steps *)

(* A step outside of the sort. *)
Quiet ==
    /\ UNCHANGED graph_vars
    /\ \/ UNCHANGED <<status, i>>
       \/ status \in Early /\ status' \in Early
       \/ status' \notin Early \cup Loops

LEMMA VerifyprotoResult ==
    ASSUME NEW d
    PROVE  verifyproto(d) \in {"ok", "missing", "multiple", "mismatch"}
BY DEF verifyproto

(* Every step is one outside of the sort, or one of the sort's. *)
LEMMA StepCases ==
    ASSUME [Next]_vars
    PROVE  \/ Quiet
           \/ ast_function_buildgraph
           \/ NextStatement \/ SkipDuplicate \/ Callee \/ Return
           \/ LoopEnds("indegrees", Len(keys), "count") \/ InitIndegree \/ InitDependency
           \/ LoopEnds("count", Len(ikeys), "zero") \/ CountIndegree
           \/ LoopEnds("zero", Len(ikeys), "order") \/ build_indegree_zero
           \/ Dequeue \/ Scan \/ ScanEnds
<1>1. CASE pass0 /\ UNCHANGED <<graph_vars, qed>>
  <2>1. InstallPlain \/ InstallProto \/ InstallDefinition => status = "pass0" /\ status' = status
    BY DEF InstallPlain, InstallProto, InstallDefinition, Installed
  <2>2. RejectProto => status' \in {"missing", "multiple", "mismatch"}
    BY VerifyprotoResult DEF RejectProto
  <2> QED BY <1>1, <2>1, <2>2 DEF pass0, Quiet, Early, Loops
<1>2. CASE Pass0Ends
  BY <1>2 DEF Pass0Ends, Quiet, Early, Loops
<1>3. CASE pass1
  BY <1>3 DEF pass1, Verify, Quiet, Early, Loops
<1>4. CASE Ordered
  BY <1>4 DEF Ordered, Quiet, Early, Loops
<1>5. CASE pass_inorder
  BY <1>5 DEF pass_inorder, Verify, Quiet, Early, Loops
<1>6. CASE verify_ends
  BY <1>6 DEF verify_ends, Quiet, Early, Loops
<1>7. CASE strip /\ UNCHANGED <<linking_vars, graph_vars, mode, qed>>
  BY <1>7 DEF Quiet, linking_vars
<1>8. CASE Exited \/ UNCHANGED vars
  BY <1>8 DEF Exited, vars, Quiet, linking_vars
<1>9. CASE CalleeUndeclared \/ CycleDetected
  BY <1>9 DEF CalleeUndeclared, CycleDetected, Quiet, Early, Loops
<1> QED
  BY <1>1, <1>2, <1>3, <1>4, <1>5, <1>6, <1>7, <1>8, <1>9
  DEF Next, verify, topological_order, recurse_buildgraph

(* The index of a loop is kept, set back, or incremented. *)
LEMMA IndexStep ==
    ASSUME [Next]_vars
    PROVE  i' \in {i, 1, i + 1}
<1>1. CASE pass0
  BY <1>1 DEF pass0, InstallPlain, InstallProto, InstallDefinition, RejectProto, Installed
<1>2. CASE Pass0Ends \/ pass1 \/ Ordered \/ pass_inorder \/ verify_ends
  BY <1>2 DEF Pass0Ends, pass1, Ordered, pass_inorder, verify_ends, Verify
<1>3. CASE topological_order
  BY <1>3
  DEF topological_order, ast_function_buildgraph, recurse_buildgraph, NextStatement,
      SkipDuplicate, CalleeUndeclared, Callee, Return, LoopEnds, InitIndegree, InitDependency,
      CountIndegree, build_indegree_zero, Dequeue, Scan, ScanEnds, CycleDetected
<1>4. CASE UNCHANGED linking_vars
  BY <1>4 DEF linking_vars
<1> QED BY <1>1, <1>2, <1>3, <1>4 DEF Next, verify, Exited, vars

(* Only the pass over the declarations changes what is declared. *)
LEMMA DeclarationsKept ==
    ASSUME [Next]_vars
    PROVE  pass0 \/ UNCHANGED <<root, ext>>
<1>1. CASE Pass0Ends \/ pass1 \/ Ordered \/ pass_inorder \/ verify_ends
  BY <1>1 DEF Pass0Ends, pass1, Ordered, pass_inorder, verify_ends
<1>2. CASE topological_order
  BY <1>2
  DEF topological_order, ast_function_buildgraph, recurse_buildgraph, NextStatement,
      SkipDuplicate, CalleeUndeclared, Callee, Return, LoopEnds, InitIndegree, InitDependency,
      CountIndegree, build_indegree_zero, Dequeue, Scan, ScanEnds, CycleDetected
<1>3. CASE UNCHANGED linking_vars
  BY <1>3 DEF linking_vars
<1> QED BY <1>1, <1>2, <1>3 DEF Next, verify, Exited, vars

(* What a definition becomes, as it takes over an abstract. *)
LEMMA StitchedIsDeclaration ==
    ASSUME Linked, NEW d \in Declaration
    PROVE  ast_function_protostitch(d) \in Declaration
<1>1. externals_getfunc(d.name) \in Declaration \cup {NONE}
  BY DEF Linked, externals_getfunc, Kinds, Declaration
<1> QED BY <1>1 DEF ast_function_protostitch, Declaration

(* A declaration is installed in one of the tables. *)
LEMMA InstallFacts ==
    ASSUME Linked, NEW d \in Declaration
    PROVE  ast_externdecl_install(d) \in [Kinds -> [Names -> Declaration \cup {NONE}]]
BY DEF Linked, ast_externdecl_install, Declaration

LEMMA LinkedStep ==
    ASSUME Linked, [Next]_vars
    PROVE  Linked'
<1>1. i' \in Nat \ {0}
  BY IndexStep DEF Linked
<1>2. CASE UNCHANGED <<root, ext>>
  BY <1>1, <1>2 DEF Linked
<1>3. CASE pass0
  <2>1. i <= Len(root) /\ root[i] \in Declaration
    BY <1>3 DEF pass0, InstallPlain, InstallProto, InstallDefinition, RejectProto, Linked
  <2>2. CASE InstallPlain \/ InstallProto
    BY <1>1, <2>1, <2>2, InstallFacts
    DEF InstallPlain, InstallProto, Installed, Linked
  <2>3. CASE RejectProto
    BY <1>1, <2>3 DEF RejectProto, Linked
  <2>4. CASE InstallDefinition
    <3>1. ast_function_protostitch(root[i]) \in Declaration
      BY <2>1, StitchedIsDeclaration
    <3>2. root' \in Seq(Declaration)
      BY <2>1, <2>4, <3>1, ExceptSeq DEF InstallDefinition, Linked
    <3> QED BY <1>1, <2>4, <3>1, <3>2, InstallFacts DEF InstallDefinition, Installed, Linked
  <2> QED BY <1>3, <2>2, <2>3, <2>4 DEF pass0
<1> QED BY <1>2, <1>3, DeclarationsKept

-----------------------------------------------------------------------------
(* Types *)

(* The innermost frame, and the frames when it is replaced. *)
LEMMA TopFacts ==
    ASSUME Typed, InFrame
    PROVE  /\ Top \in Frame /\ Len(frames) \in DOMAIN frames
           /\ Len(frames) \in Nat \ {0} /\ DOMAIN frames = 1 .. Len(frames)
           /\ \A f \in Frame :
                 /\ WithTop(f) \in Seq(Frame)
                 /\ DOMAIN WithTop(f) = DOMAIN frames
                 /\ Len(WithTop(f)) = Len(frames)
                 /\ WithTop(f)[Len(frames)] = f
                 /\ \A k \in DOMAIN frames : k # Len(frames) => WithTop(f)[k] = frames[k]
<1>1. frames \in Seq(Frame) /\ frames # <<>>
  BY DEF Typed, InFrame
<1>2. Len(frames) \in Nat \ {0} /\ DOMAIN frames = 1 .. Len(frames)
  BY <1>1, EmptySeq
<1>3. ASSUME NEW f \in Frame
      PROVE  WithTop(f) \in Seq(Frame) /\ Len(WithTop(f)) = Len(frames)
  BY <1>1, <1>2, <1>3, ExceptSeq DEF WithTop
<1> QED BY <1>1, <1>2, <1>3 DEF Top, WithTop

(* What a statement calls are names, unless an assertion fails. *)
LEMMA FuncsAreNames ==
    ASSUME NEW s \in Statements, AssertionFails \notin ToSet(GetFuncs(s))
    PROVE  GetFuncs(s) \in Seq(Names)
BY GetFuncsAssumption, SeqWithout

LEMMA NewFrameIsFrame ==
    ASSUME NEW n \in Names, NEW body \in Seq(Statements)
    PROVE  NewFrame(n, body) \in Frame
BY DEF NewFrame, Frame

LEMMA DeclaredBody ==
    ASSUME Linked, NEW n \in Names, externals_getfunc(n) # NONE,
           ~NoStatements(externals_getfunc(n))
    PROVE  externals_getfunc(n).body \in Seq(Statements)
BY DEF Linked, externals_getfunc, Kinds, Declaration, NoStatements

LEMMA NotedIsFrame ==
    ASSUME Typed, InFrame, Top.funcs # <<>>
    PROVE  Head(Top.funcs) \in Names /\ Noted(Head(Top.funcs)) \in Frame
<1>1. Top \in Frame
  BY TopFacts
<1>2. Head(Top.funcs) \in Names /\ Tail(Top.funcs) \in Seq(Names)
  BY <1>1, TailFacts DEF Frame
<1>3. Append(Top.val, Head(Top.funcs)) \in Seq(Names)
  BY <1>1, <1>2, AppendFacts DEF Frame
<1> QED BY <1>1, <1>2, <1>3 DEF Noted, Frame

LEMMA TypedStep ==
    ASSUME Linked, Typed, Collected, [Next]_vars
    PROVE  Typed'
<1>1. CASE Quiet
  BY <1>1 DEF Quiet, Typed, graph_vars, graph, degrees, queue
<1>2. CASE ast_function_buildgraph
  <2>1. sortfunc \in Names
    BY DEF Typed
  <2>2. frames' \in Seq(Frame)
    <3>1. CASE UNCHANGED frames
      BY <3>1 DEF Typed
    <3>2. CASE externals_getfunc(sortfunc) # NONE /\ ~NoStatements(externals_getfunc(sortfunc))
               /\ frames' = <<NewFrame(sortfunc, externals_getfunc(sortfunc).body)>>
      <4>1. NewFrame(sortfunc, externals_getfunc(sortfunc).body) \in Frame
        BY <2>1, <3>2, DeclaredBody, NewFrameIsFrame
      <4> QED BY <3>2, <4>1
    <3> QED BY <1>2, <3>1, <3>2 DEF ast_function_buildgraph
  <2> QED
    BY <1>2, <2>1, <2>2 DEF ast_function_buildgraph, Typed, graph, degrees, queue
<1>3. CASE NextStatement
  <2>1. frames' \in Seq(Frame)
    <3>1. InFrame /\ Top \in Frame /\ Top.stmts # <<>> /\ \A f \in Frame : WithTop(f) \in Seq(Frame)
      BY <1>3, TopFacts DEF NextStatement
    <3>2. Head(Top.stmts) \in Statements /\ Tail(Top.stmts) \in Seq(Statements)
      BY <3>1, TailFacts DEF Frame
    <3>3. CASE UNCHANGED frames
      BY <3>3 DEF Typed
    <3>4. CASE AssertionFails \notin ToSet(GetFuncs(Head(Top.stmts)))
               /\ frames' = WithTop([Top EXCEPT !.stmts = Tail(@), !.funcs = GetFuncs(Head(Top.stmts))])
      <4>1. GetFuncs(Head(Top.stmts)) \in Seq(Names)
        BY <3>2, <3>4, FuncsAreNames
      <4>2. [Top EXCEPT !.stmts = Tail(@), !.funcs = GetFuncs(Head(Top.stmts))] \in Frame
        BY <3>1, <3>2, <4>1 DEF Frame
      <4> QED BY <3>1, <3>4, <4>2
    <3> QED BY <1>3, <3>3, <3>4 DEF NextStatement
  <2> QED BY <1>3, <2>1 DEF NextStatement, Typed, graph, degrees, queue
<1>4. CASE SkipDuplicate
  <2>1. InFrame /\ Top \in Frame /\ Top.funcs # <<>> /\ \A f \in Frame : WithTop(f) \in Seq(Frame)
    BY <1>4, TopFacts DEF SkipDuplicate
  <2>2. [Top EXCEPT !.funcs = Tail(@)] \in Frame
    BY <2>1, TailFacts DEF Frame
  <2> QED BY <1>4, <2>1, <2>2 DEF SkipDuplicate, Typed, graph, degrees, queue
<1>5. CASE Callee
  <2>1. InFrame /\ Top.funcs # <<>> /\ \A f \in Frame : WithTop(f) \in Seq(Frame)
    BY <1>5, TopFacts DEF Callee
  <2>2. Head(Top.funcs) \in Names /\ Noted(Head(Top.funcs)) \in Frame
    BY <2>1, NotedIsFrame
  <2>3. frames' \in Seq(Frame)
    <3>1. CASE UNCHANGED frames \/ frames' = WithTop(Noted(Head(Top.funcs)))
      BY <2>1, <2>2, <3>1 DEF Typed
    <3>2. CASE /\ ~NoStatements(externals_getfunc(Head(Top.funcs)))
               /\ frames' = Append(WithTop(Noted(Head(Top.funcs))),
                                   NewFrame(Head(Top.funcs),
                                            externals_getfunc(Head(Top.funcs)).body))
      <4>1. NewFrame(Head(Top.funcs), externals_getfunc(Head(Top.funcs)).body) \in Frame
        BY <1>5, <2>2, <3>2, DeclaredBody, NewFrameIsFrame DEF Callee
      <4> QED BY <2>1, <2>2, <3>2, <4>1, AppendFacts
    <3> QED BY <1>5, <3>1, <3>2 DEF Callee
  <2> QED BY <1>5, <2>2, <2>3 DEF Callee, Typed, graph, degrees, queue
<1>6. CASE Return
  <2>1. InFrame /\ Top \in Frame /\ Len(frames) \in Nat \ {0}
    BY <1>6, TopFacts DEF Return
  <2>2. Top.name \in Names /\ Top.val \in Seq(Names)
    BY <2>1 DEF Frame
  <2>3. SubSeq(frames, 1, Len(frames) - 1) \in Seq(Frame)
    BY <2>1 DEF Typed
  <2> QED BY <1>6, <2>2, <2>3, AppendFacts DEF Return, Typed, degrees, queue
<1>7. CASE \/ LoopEnds("indegrees", Len(keys), "count") \/ LoopEnds("count", Len(ikeys), "zero")
           \/ LoopEnds("zero", Len(ikeys), "order")
  BY <1>7 DEF LoopEnds, Typed, graph_vars, graph, degrees, queue
<1>8. CASE InitIndegree
  <2>1. keys[i] \in Names
    BY <1>8 DEF InitIndegree, Linked, Typed
  <2>2. Append(ikeys, keys[i]) \in Seq(Names)
    BY <2>1, AppendFacts DEF Typed
  <2>3. ikeys' \in {ikeys, Append(ikeys, keys[i])} /\ inner' \in {inner, 1}
    BY <1>8 DEF InitIndegree
  <2>4. ikeys' \in Seq(Names) /\ inner' \in Nat
    <3>1. ikeys \in Seq(Names) /\ inner \in Nat
      BY DEF Typed
    <3> QED BY <2>2, <2>3, <3>1
  <2> QED BY <1>8, <2>4 DEF InitIndegree, Typed, graph, queue
<1>9. CASE InitDependency
  <2>1. inner' \in Nat
    <3>1. inner' \in {inner + 1, 0}
      BY <1>9 DEF InitDependency
    <3>2. inner \in Nat
      BY DEF Typed
    <3> QED BY ONLY <3>1, <3>2
  <2>2. ikeys' \in Seq(Names)
    <3>1. CASE inner <= Len(deps[keys[i]]) /\ deps[keys[i]][inner] \notin ToSet(ikeys)
      <4>1. i \in DOMAIN keys /\ keys[i] \in Names
        BY <1>9 DEF InitDependency, Linked, Typed, Collected
      <4>2. deps[keys[i]] \in Seq(Names) /\ inner \in DOMAIN deps[keys[i]]
        BY <1>9, <3>1, <4>1 DEF InitDependency, Typed
      <4>3. Append(ikeys, deps[keys[i]][inner]) \in Seq(Names)
        BY <4>2, AppendFacts DEF Typed
      <4> QED BY <1>9, <3>1, <4>3 DEF InitDependency
    <3>2. CASE ikeys' = ikeys
      BY <3>2 DEF Typed
    <3> QED BY <1>9, <3>1, <3>2 DEF InitDependency
  <2> QED BY <1>9, <2>1, <2>2 DEF InitDependency, Typed, graph, queue
<1>10. CASE CountIndegree
  <2>1. ikeys[i] \in Names /\ Len(deps[ikeys[i]]) \in Nat
    <3>1. i \in Nat \ {0} /\ i <= Len(ikeys)
      BY <1>10 DEF CountIndegree, Linked
    <3>2. ikeys \in Seq(Names) /\ deps \in [Names -> Seq(Names)]
      BY DEF Typed
    <3> QED BY ONLY <3>1, <3>2
  <2>2. count' \in [Names -> Int]
    <3>1. count \in [Names -> Int]
      BY DEF Typed
    <3>2. count' = [count EXCEPT ![ikeys[i]] = @ + Len(deps[ikeys[i]])]
      BY <1>10 DEF CountIndegree
    <3> QED BY ONLY <2>1, <3>1, <3>2
  <2> QED BY <1>10, <2>2 DEF CountIndegree, Typed, graph, queue
<1>11. CASE build_indegree_zero
  <2>1. ikeys[i] \in Names
    BY <1>11 DEF build_indegree_zero, Linked, Typed
  <2> QED BY <1>11, <2>1, AppendFacts DEF build_indegree_zero, Typed, graph, degrees
<1>12. CASE Dequeue
  <2>1. Head(zero) \in Names /\ Tail(zero) \in Seq(Names)
    BY <1>12, TailFacts DEF Dequeue, Typed
  <2> QED BY <1>12, <2>1, AppendFacts DEF Dequeue, Typed, graph, degrees
<1>13. CASE Scan
  <2>1. keys[i] \in Names
    BY <1>13 DEF Scan, Linked, Typed
  <2>2. count' \in [Names -> Int]
    <3>1. count \in [Names -> Int] /\ count[keys[i]] - 1 \in Int
      <4>1. count \in [Names -> Int]
        BY DEF Typed
      <4> QED BY ONLY <2>1, <4>1
    <3>2. count' \in {count, [count EXCEPT ![keys[i]] = @ - 1]}
      BY <1>13 DEF Scan
    <3> QED BY <2>1, <3>1, <3>2
  <2>3. Append(zero, keys[i]) \in Seq(Names)
    BY <2>1, AppendFacts DEF Typed
  <2>4. zero' \in Seq(Names)
    BY <1>13, <2>3 DEF Scan, Typed
  <2> QED BY <1>13, <2>2, <2>4 DEF Scan, Typed, graph
<1>14. CASE ScanEnds
  BY <1>14 DEF ScanEnds, Typed, graph, degrees
<1> QED
  BY <1>1, <1>2, <1>3, <1>4, <1>5, <1>6, <1>7, <1>8, <1>9, <1>10, <1>11, <1>12, <1>13,
     <1>14, StepCases

-----------------------------------------------------------------------------
(* Building the graph enters each function once. *)

LEMMA EnteredStep ==
    ASSUME Linked, Typed, Entered, [Next]_vars
    PROVE  Entered'
<1>1. CASE UNCHANGED <<dedup, frames, graph>>
  BY <1>1 DEF Entered, graph
<1>2. CASE ast_function_buildgraph
  <2>1. DOMAIN frames = {} /\ ToSet(keys) = {} /\ dedup' = {sortfunc} /\ UNCHANGED <<keys, deps>>
    BY <1>2 DEF ast_function_buildgraph, Entered, graph
  <2>2. CASE UNCHANGED frames
    BY <2>1, <2>2 DEF Entered
  <2>3. CASE frames' = <<NewFrame(sortfunc, externals_getfunc(sortfunc).body)>>
    <3>1. DOMAIN frames' = {1} /\ frames'[1] = NewFrame(sortfunc, externals_getfunc(sortfunc).body)
      BY <2>3
    <3>2. /\ frames'[1].name = sortfunc /\ Injective(frames'[1].val)
          /\ ToSet(frames'[1].val) \subseteq frames'[1].local_dedup
      BY <3>1 DEF NewFrame, Injective, ToSet
    <3> QED BY <2>1, <3>1, <3>2 DEF Entered
  <2> QED BY <1>2, <2>2, <2>3 DEF ast_function_buildgraph
<1>3. ASSUME InFrame, UNCHANGED graph, dedup \subseteq dedup', NEW f \in Frame,
             frames' = WithTop(f),
             f.name = Top.name, Injective(f.val), ToSet(f.val) \subseteq f.local_dedup
      PROVE  Entered'
  <2>1. /\ DOMAIN frames' = DOMAIN frames
        /\ frames'[Len(frames)] = f
        /\ \A k \in DOMAIN frames : k # Len(frames) => frames'[k] = frames[k]
        /\ Len(frames) \in DOMAIN frames
    BY <1>3, TopFacts
  <2>2. \A k \in DOMAIN frames : frames'[k].name = frames[k].name
    BY <1>3, <2>1 DEF Top
  <2>3. \A k \in DOMAIN frames :
           /\ Injective(frames'[k].val)
           /\ ToSet(frames'[k].val) \subseteq frames'[k].local_dedup
    BY <1>3, <2>1 DEF Entered
  <2> QED BY <1>3, <2>1, <2>2, <2>3 DEF Entered, graph
<1>4. ASSUME InFrame
      PROVE  /\ Top \in Frame /\ Injective(Top.val) /\ ToSet(Top.val) \subseteq Top.local_dedup
  BY <1>4, TopFacts DEF Top, Entered
<1>5. CASE NextStatement
  <2>1. CASE UNCHANGED frames
    BY <1>1, <1>5, <2>1 DEF NextStatement
  <2>2. CASE /\ AssertionFails \notin ToSet(GetFuncs(Head(Top.stmts)))
             /\ frames' = WithTop([Top EXCEPT !.stmts = Tail(@), !.funcs = GetFuncs(Head(Top.stmts))])
    <3>1. InFrame /\ Top \in Frame /\ Top.stmts # <<>>
      BY <1>4, <1>5 DEF NextStatement
    <3>2. Head(Top.stmts) \in Statements /\ Tail(Top.stmts) \in Seq(Statements)
      BY <3>1, TailFacts DEF Frame
    <3>3. GetFuncs(Head(Top.stmts)) \in Seq(Names)
      BY <2>2, <3>2, FuncsAreNames
    <3>4. PICK f \in Frame : f = [Top EXCEPT !.stmts = Tail(@), !.funcs = GetFuncs(Head(Top.stmts))]
      BY <3>1, <3>2, <3>3 DEF Frame
    <3>5. f.name = Top.name /\ Injective(f.val) /\ ToSet(f.val) \subseteq f.local_dedup
      BY <1>4, <3>1, <3>4 DEF Frame
    <3>6. UNCHANGED <<graph, dedup>>
      BY <1>5 DEF NextStatement
    <3> QED BY <1>3, <2>2, <3>1, <3>4, <3>5, <3>6
  <2> QED BY <1>5, <2>1, <2>2 DEF NextStatement
<1>6. CASE SkipDuplicate
  <2>1. InFrame /\ Top \in Frame /\ Top.funcs # <<>>
    BY <1>4, <1>6 DEF SkipDuplicate
  <2>2. PICK f \in Frame : f = [Top EXCEPT !.funcs = Tail(@)]
    BY <2>1, TailFacts DEF Frame
  <2>3. f.name = Top.name /\ Injective(f.val) /\ ToSet(f.val) \subseteq f.local_dedup
    BY <1>4, <2>1, <2>2 DEF Frame
  <2>4. UNCHANGED <<graph, dedup>> /\ frames' = WithTop(f)
    BY <1>6, <2>2 DEF SkipDuplicate
  <2> QED BY <1>3, <2>1, <2>3, <2>4
<1>7. CASE Callee
  <2> DEFINE c == Head(Top.funcs)
  <2>1. InFrame /\ Top \in Frame /\ Top.funcs # <<>> /\ c \notin Top.local_dedup
    BY <1>4, <1>7 DEF Callee
  <2>2. c \in Names /\ Noted(c) \in Frame
    BY <2>1, NotedIsFrame
  <2>3. Noted(c).name = Top.name /\ Noted(c).local_dedup = Top.local_dedup \cup {c}
        /\ Noted(c).val \in {Top.val, Append(Top.val, c)}
    BY <2>1 DEF Noted, Frame
  <2>4. Top.val \in Seq(Names) /\ c \notin ToSet(Top.val)
    BY <1>4, <2>1 DEF Frame
  <2>5. Injective(Noted(c).val) /\ ToSet(Noted(c).val) \subseteq Noted(c).local_dedup
    <3>1. Injective(Append(Top.val, c)) /\ ToSet(Append(Top.val, c)) = ToSet(Top.val) \cup {c}
      BY <1>4, <2>1, <2>2, <2>4, AppendFacts
    <3>2. Injective(Top.val) /\ ToSet(Top.val) \subseteq Top.local_dedup
      BY <1>4, <2>1
    <3>3. CASE Noted(c).val = Top.val
      BY <2>3, <3>2, <3>3
    <3>4. CASE Noted(c).val = Append(Top.val, c)
      BY <2>3, <3>1, <3>2, <3>4
    <3> QED BY <2>3, <3>3, <3>4
  <2>6. UNCHANGED graph /\ dedup' = dedup \cup {c}
    BY <1>7 DEF Callee
  <2>7. CASE UNCHANGED frames
    BY <2>6, <2>7 DEF Entered, graph
  <2>8. CASE frames' = WithTop(Noted(c))
    BY <1>3, <2>1, <2>2, <2>3, <2>5, <2>6, <2>8
  <2>9. CASE /\ c \notin dedup /\ ~NoStatements(externals_getfunc(c))
             /\ frames' = Append(WithTop(Noted(c)), NewFrame(c, externals_getfunc(c).body))
    <3>1. PICK g \in Frame : g = NewFrame(c, externals_getfunc(c).body)
      BY <1>7, <2>2, <2>9, DeclaredBody, NewFrameIsFrame DEF Callee
    <3>2. g.name = c /\ Injective(g.val) /\ ToSet(g.val) \subseteq g.local_dedup
      BY <3>1 DEF NewFrame, Injective, ToSet
    <3>3. /\ WithTop(Noted(c)) \in Seq(Frame)
          /\ DOMAIN WithTop(Noted(c)) = DOMAIN frames /\ Len(WithTop(Noted(c))) = Len(frames)
          /\ WithTop(Noted(c))[Len(frames)] = Noted(c)
          /\ \A k \in DOMAIN frames : k # Len(frames) => WithTop(Noted(c))[k] = frames[k]
          /\ Len(frames) + 1 \notin DOMAIN frames
          /\ Len(frames) \in DOMAIN frames
      BY <2>1, <2>2, TopFacts
    <3>4. /\ DOMAIN frames' = DOMAIN frames \cup {Len(frames) + 1}
          /\ frames'[Len(frames) + 1] = g
          /\ \A k \in DOMAIN frames : frames'[k] = WithTop(Noted(c))[k]
      <4>1. frames' = Append(WithTop(Noted(c)), g)
        BY <2>9, <3>1
      <4> HIDE DEF c
      <4> QED BY ONLY <3>1, <3>3, <4>1, AppendFacts
    <3>5. \A k \in DOMAIN frames : frames'[k].name = frames[k].name
      BY <2>3, <3>3, <3>4 DEF Top
    <3>6. \A k \in DOMAIN frames :
             /\ Injective(frames'[k].val)
             /\ ToSet(frames'[k].val) \subseteq frames'[k].local_dedup
      BY <2>5, <3>3, <3>4 DEF Entered
    <3>7. \A k \in DOMAIN frames' :
             /\ frames'[k].name \in dedup' /\ frames'[k].name \notin ToSet(keys)
             /\ Injective(frames'[k].val)
             /\ ToSet(frames'[k].val) \subseteq frames'[k].local_dedup
      BY <2>6, <2>9, <3>2, <3>4, <3>5, <3>6 DEF Entered
    <3>8. \A j, k \in DOMAIN frames' : frames'[j].name = frames'[k].name => j = k
      <4>1. /\ \A k \in DOMAIN frames : frames[k].name \in dedup
            /\ \A j, k \in DOMAIN frames : frames[j].name = frames[k].name => j = k
        BY DEF Entered
      <4>2. c \notin dedup
        BY <2>9
      <4> HIDE DEF c
      <4> QED BY ONLY <3>2, <3>4, <3>5, <4>1, <4>2
    <3> QED BY <2>6, <3>7, <3>8 DEF Entered, graph
  <2> QED BY <1>7, <2>7, <2>8, <2>9 DEF Callee
<1>8. CASE Return
  <2> DEFINE m == Len(frames)
  <2>1. InFrame /\ Top \in Frame /\ m \in Nat \ {0} /\ DOMAIN frames = 1 .. m
    BY <1>8, TopFacts DEF Return
  <2>2. Top.name \in Names /\ Top.val \in Seq(Names) /\ Injective(Top.val)
    BY <1>4, <2>1 DEF Frame
  <2>3. /\ keys' = Append(keys, Top.name) /\ deps' = [deps EXCEPT ![Top.name] = Top.val]
        /\ frames' = SubSeq(frames, 1, m - 1) /\ UNCHANGED dedup
    BY <1>8 DEF Return
  <2>4. DOMAIN frames' = 1 .. m - 1 /\ \A k \in 1 .. m - 1 : frames'[k] = frames[k]
    BY <2>1, <2>3 DEF Typed
  <2>5. Top.name \in dedup /\ Top.name \notin ToSet(keys)
        /\ \A k \in 1 .. m - 1 : frames[k].name # Top.name
    <3>1. \A l \in Nat \ {0} : l \in 1 .. l /\ \A k \in 1 .. l - 1 : k \in 1 .. l /\ k # l
      OBVIOUS
    <3>2. m \in DOMAIN frames /\ \A k \in 1 .. m - 1 : k \in DOMAIN frames /\ k # m
      BY <2>1, <3>1, Zenon
    <3> QED BY <3>2 DEF Entered, Top
  <2>6. Injective(keys') /\ ToSet(keys') = ToSet(keys) \cup {Top.name}
    <3>1. keys \in Seq(Names) /\ Injective(keys)
      BY DEF Typed, Entered
    <3> QED BY ONLY <2>2, <2>3, <2>5, <3>1, AppendFacts
  <2>7. \A n \in Names : Injective(deps'[n]) /\ (deps'[n] # <<>> => n \in ToSet(keys'))
    BY <2>2, <2>3, <2>6 DEF Typed, Entered
  <2>8. \A k \in DOMAIN frames' : k \in DOMAIN frames
    BY <2>1, <2>4
  <2>9. ToSet(keys') \subseteq dedup'
    BY <2>3, <2>5, <2>6 DEF Entered
  <2>10. \A k \in DOMAIN frames' :
           /\ frames'[k].name \in dedup' /\ frames'[k].name \notin ToSet(keys')
           /\ Injective(frames'[k].val)
           /\ ToSet(frames'[k].val) \subseteq frames'[k].local_dedup
    <3> TAKE k \in DOMAIN frames'
    <3>1. k \in DOMAIN frames /\ frames'[k] = frames[k] /\ frames[k].name # Top.name
      BY <2>4, <2>5, <2>8
    <3>2. /\ frames[k].name \in dedup /\ frames[k].name \notin ToSet(keys)
          /\ Injective(frames[k].val) /\ ToSet(frames[k].val) \subseteq frames[k].local_dedup
      BY <3>1 DEF Entered
    <3> QED BY ONLY <2>3, <2>6, <3>1, <3>2
  <2>11. \A j, k \in DOMAIN frames' : frames'[j].name = frames'[k].name => j = k
    BY <2>4, <2>8 DEF Entered
  <2> QED BY <2>6, <2>7, <2>9, <2>10, <2>11 DEF Entered
<1>9. CASE \/ LoopEnds("indegrees", Len(keys), "count") \/ LoopEnds("count", Len(ikeys), "zero")
           \/ LoopEnds("zero", Len(ikeys), "order") \/ Quiet
  BY <1>1, <1>9 DEF LoopEnds, Quiet, graph_vars
<1>10. CASE InitIndegree \/ InitDependency \/ CountIndegree \/ build_indegree_zero
            \/ Dequeue \/ Scan \/ ScanEnds
  BY <1>1, <1>10
  DEF InitIndegree, InitDependency, CountIndegree, build_indegree_zero, Dequeue, Scan, ScanEnds
<1> QED
  BY <1>2, <1>5, <1>6, <1>7, <1>8, <1>9, <1>10, StepCases

-----------------------------------------------------------------------------
(* The loops that find the in-degrees *)

(* The index of a loop over a sequence. *)
LEMMA IndexFacts ==
    ASSUME Linked, NEW S, NEW s \in Seq(S)
    PROVE  /\ i <= Len(s) => i \in DOMAIN s /\ s[i] \in S
           /\ \A j \in DOMAIN s : s[j] \in S /\ (j < i + 1 <=> j < i \/ j = i) /\ ~(j < 1)
           /\ \A j \in DOMAIN s : j = i => ~(j < i)
<1>1. i \in Nat \ {0} /\ DOMAIN s = 1 .. Len(s) /\ \A j \in 1 .. Len(s) : s[j] \in S
  BY DEF Linked
<1> QED BY <1>1

(* The steps before the loops. *)
Building == ast_function_buildgraph \/ NextStatement \/ SkipDuplicate \/ Callee \/ Return

LEMMA BuildingFacts ==
    ASSUME Building
    PROVE  /\ status = "graph"
           /\ status' \in {"graph", "undeclared", "crash"} \/ (status' = "indegrees" /\ i' = 1)
           /\ UNCHANGED <<degrees, queue>>
<1>1. CASE ast_function_buildgraph
  BY <1>1 DEF ast_function_buildgraph
<1>2. CASE NextStatement
  BY <1>2 DEF NextStatement, InFrame
<1>3. CASE SkipDuplicate
  BY <1>3 DEF SkipDuplicate, InFrame
<1>4. CASE Callee
  BY <1>4 DEF Callee, InFrame
<1>5. CASE Return
  BY <1>5 DEF Return, InFrame
<1> QED BY <1>1, <1>2, <1>3, <1>4, <1>5 DEF Building

LEMMA CollectedStep ==
    ASSUME Linked, Typed, Collected, [Next]_vars
    PROVE  Collected'
<1>1. CASE Quiet
  BY <1>1 DEF Quiet, Collected, Early, Loops, graph_vars, graph, degrees
<1>2. CASE Building
  <2>1. inner' = 0 /\ ikeys' = ikeys
    BY <1>2, BuildingFacts DEF Collected, Early, degrees
  <2>2. ASSUME status' = "indegrees"
        PROVE  \A j \in DOMAIN keys' : ~(j < i' \/ (inner' > 0 /\ j = i'))
    <3>1. i' = 1 /\ inner' = 0
      BY <1>2, <2>1, <2>2, BuildingFacts
    <3>2. keys' \in Seq(Names)
      BY TypedStep DEF Typed
    <3> QED BY <3>1, <3>2
  <2> QED BY <1>2, <2>1, <2>2, BuildingFacts DEF Collected, Early
<1>3. CASE LoopEnds("indegrees", Len(keys), "count")
  <2>1. \A j \in DOMAIN keys : j < i
    BY <1>3 DEF LoopEnds, Linked, Typed
  <2>2. ToSet(keys) \subseteq ToSet(ikeys)
    BY <1>3, <2>1 DEF LoopEnds, Collected, ToSet
  <2> QED BY <1>3, <2>2 DEF LoopEnds, Collected, Early, graph_vars, graph, degrees
<1>4. CASE LoopEnds("count", Len(ikeys), "zero") \/ LoopEnds("zero", Len(ikeys), "order")
  BY <1>4 DEF LoopEnds, Collected, Early, graph_vars, graph, degrees
<1>5. CASE InitIndegree
  <2>1. i \in DOMAIN keys /\ keys[i] \in Names /\ \A j \in DOMAIN keys : j < i + 1 => j < i \/ j = i
    BY <1>5, IndexFacts DEF InitIndegree, Typed
  <2>2. CASE keys[i] \in ToSet(ikeys) /\ i' = i + 1 /\ UNCHANGED <<ikeys, inner>>
    <3>1. \A j \in DOMAIN keys : j < i + 1 => keys[j] \in ToSet(ikeys)
      BY <1>5, <2>1, <2>2 DEF InitIndegree, Collected
    <3> QED BY <1>5, <2>2, <3>1 DEF InitIndegree, Collected, Early, graph
  <2>3. CASE /\ keys[i] \notin ToSet(ikeys) /\ ikeys' = Append(ikeys, keys[i])
             /\ inner' = 1 /\ i' = i
    <3>1. Injective(ikeys') /\ ToSet(ikeys') = ToSet(ikeys) \cup {keys[i]}
      BY <2>1, <2>3, AppendFacts DEF Typed, Collected
    <3>2. \A j \in DOMAIN keys : j < i \/ j = i => keys[j] \in ToSet(ikeys')
      BY <1>5, <2>1, <2>3, <3>1 DEF InitIndegree, Collected
    <3> QED BY <1>5, <2>3, <3>1, <3>2 DEF InitIndegree, Collected, Early, graph
  <2> QED BY <1>5, <2>2, <2>3 DEF InitIndegree
<1>6. CASE InitDependency
  <2>1. /\ status = "indegrees" /\ status' = "indegrees" /\ inner > 0 /\ i <= Len(keys)
        /\ UNCHANGED graph /\ i \in DOMAIN keys /\ keys[i] \in Names
        /\ \A j \in DOMAIN keys : j < i + 1 => j < i \/ j = i
    <3>1. /\ status = "indegrees" /\ status' = "indegrees" /\ inner > 0 /\ i <= Len(keys)
          /\ UNCHANGED graph
      BY <1>6 DEF InitDependency, Collected
    <3> QED BY <3>1, IndexFacts DEF Typed
  <2>2. CASE inner <= Len(deps[keys[i]])
    <3>1. i' = i /\ ToSet(ikeys) \subseteq ToSet(ikeys') /\ Injective(ikeys')
      <4>1. deps[keys[i]] \in Seq(Names) /\ inner \in Nat
        BY <2>1 DEF Typed
      <4>2. deps[keys[i]][inner] \in Names
        BY <2>1, <2>2, <4>1
      <4>3. CASE deps[keys[i]][inner] \notin ToSet(ikeys)
        <5>1. i' = i /\ ikeys' = Append(ikeys, deps[keys[i]][inner])
          BY <1>6, <2>2, <4>1, <4>3 DEF InitDependency
        <5>2. ikeys \in Seq(Names) /\ Injective(ikeys)
          BY DEF Typed, Collected
        <5>3. ToSet(ikeys') = ToSet(ikeys) \cup {deps[keys[i]][inner]} /\ Injective(ikeys')
          BY ONLY <4>2, <4>3, <5>1, <5>2, AppendFacts
        <5> QED BY <5>1, <5>3
      <4>4. CASE deps[keys[i]][inner] \in ToSet(ikeys)
        BY <1>6, <2>2, <4>1, <4>4 DEF InitDependency, Collected
      <4> QED BY <4>3, <4>4
    <3> QED BY <2>1, <3>1 DEF Collected, Early, graph
  <2>3. CASE inner > Len(deps[keys[i]])
    <3>1. i' = i + 1 /\ inner' = 0 /\ ikeys' = ikeys
      <4>1. Len(deps[keys[i]]) \in Nat /\ inner \in Nat
        BY <2>1 DEF Typed
      <4> QED BY <1>6, <2>3, <4>1 DEF InitDependency
    <3> QED BY <2>1, <3>1 DEF Collected, Early, graph
  <2> QED BY <1>6, <2>2, <2>3 DEF InitDependency
<1>7. CASE CountIndegree \/ build_indegree_zero \/ Dequeue \/ Scan \/ ScanEnds
  <2>1. status \in {"count", "zero", "order"} /\ status' = status /\ UNCHANGED <<graph, ikeys>>
    BY <1>7 DEF CountIndegree, build_indegree_zero, Dequeue, Scan, ScanEnds, degrees
  <2> QED BY <2>1 DEF Collected, Early, graph
<1> QED BY <1>1, <1>2, <1>3, <1>4, <1>5, <1>6, <1>7, StepCases DEF Building

LEMMA CountedStep ==
    ASSUME Linked, Typed, Collected, Counted, [Next]_vars
    PROVE  Counted'
<1>1. CASE Quiet
  BY <1>1 DEF Quiet, Counted, Early, Loops, graph_vars, graph, degrees
<1>2. CASE Building
  BY <1>2, BuildingFacts DEF Counted, Early, degrees
<1>3. CASE LoopEnds("indegrees", Len(keys), "count")
  <2>1. \A j \in DOMAIN ikeys : ikeys[j] \in Names /\ ~(j < 1)
    BY DEF Typed
  <2> QED BY <1>3, <2>1 DEF LoopEnds, Counted, Early, graph_vars, graph, degrees
<1>4. CASE LoopEnds("count", Len(ikeys), "zero")
  <2>1. \A j \in DOMAIN ikeys : j < i
    BY <1>4 DEF LoopEnds, Linked, Typed
  <2> QED BY <1>4, <2>1 DEF LoopEnds, Counted, Early, graph_vars, graph, degrees
<1>5. CASE InitIndegree \/ InitDependency
  BY <1>5 DEF InitIndegree, InitDependency, Counted, Early
<1>6. CASE CountIndegree
  <2>1. i \in DOMAIN ikeys /\ \A j \in DOMAIN ikeys : ikeys[j] \in Names /\ (j < i + 1 <=> j < i \/ j = i)
    BY <1>6, IndexFacts DEF CountIndegree, Typed
  <2>2. count[ikeys[i]] = 0
    BY <1>6, <2>1 DEF CountIndegree, Counted, Linked
  <2>3. /\ count'[ikeys[i]] = Len(deps[ikeys[i]])
        /\ \A n \in Names : n # ikeys[i] => count'[n] = count[n]
    <3>1. Len(deps[ikeys[i]]) \in Nat
      BY <2>1 DEF Typed
    <3> QED BY <1>6, <2>1, <2>2, <3>1 DEF CountIndegree, Typed
  <2>4. \A j \in DOMAIN ikeys : j # i => ikeys[j] # ikeys[i]
    BY <2>1 DEF Collected, Injective
  <2>5. \A j \in DOMAIN ikeys : count'[ikeys[j]] = IF j < i + 1 THEN Len(deps[ikeys[j]]) ELSE 0
    <3> TAKE j \in DOMAIN ikeys
    <3>1. CASE j = i
      BY <2>1, <2>3, <3>1
    <3>2. CASE j # i
      BY <1>6, <2>1, <2>3, <2>4, <3>2 DEF CountIndegree, Counted
    <3> QED BY <3>1, <3>2
  <2> QED BY <1>6, <2>5 DEF CountIndegree, Counted, Early, graph
<1>7. CASE build_indegree_zero
  BY <1>7 DEF build_indegree_zero, Counted, Early, graph, degrees
<1>8. CASE LoopEnds("zero", Len(ikeys), "order") \/ Dequeue \/ Scan \/ ScanEnds
  <2>1. status' = "order"
    BY <1>8 DEF LoopEnds, Dequeue, Scan, ScanEnds
  <2> QED BY <2>1 DEF Counted, Early
<1> QED BY <1>1, <1>2, <1>3, <1>4, <1>5, <1>6, <1>7, <1>8, StepCases DEF Building

LEMMA QueuedStep ==
    ASSUME Linked, Typed, Collected, Counted, Queued, [Next]_vars
    PROVE  Queued'
<1>1. CASE Quiet
  BY <1>1 DEF Quiet, Queued, Early, Loops, graph_vars, graph, degrees, queue
<1>2. CASE Building
  BY <1>2, BuildingFacts DEF Queued, Early, queue
<1>3. CASE LoopEnds("indegrees", Len(keys), "count") \/ InitIndegree \/ InitDependency \/ CountIndegree
  <2>1. /\ status \in {"indegrees", "count"} /\ status' \in {"indegrees", "count"}
        /\ UNCHANGED queue
    BY <1>3 DEF LoopEnds, InitIndegree, InitDependency, CountIndegree, graph_vars
  <2> QED BY <2>1 DEF Queued, Early, queue
<1>4. CASE LoopEnds("count", Len(ikeys), "zero")
  <2>1. Injective(<<>>) /\ ToSet(<<>>) = {}
    BY DEF Injective, ToSet
  <2> QED BY <1>4, <2>1 DEF LoopEnds, Queued, Early, graph_vars, queue
<1>5. CASE build_indegree_zero
  <2>1. i \in DOMAIN ikeys /\ ikeys[i] \in Names
    BY <1>5 DEF build_indegree_zero, Linked, Typed
  <2>2. /\ status = "zero" /\ status' = "zero" /\ UNCHANGED <<ikeys, count, order, curr>> /\ i' = i + 1
        /\ zero' = IF count[ikeys[i]] = 0 THEN Append(zero, ikeys[i]) ELSE zero
    BY <1>5 DEF build_indegree_zero, degrees
  <2>3. /\ Injective(zero)
        /\ \A n \in ToSet(zero) : count[n] = 0 /\ \E j \in DOMAIN ikeys : j < i /\ ikeys[j] = n
    BY <2>2 DEF Queued
  <2>4. ikeys[i] \notin ToSet(zero)
    <3>1. \A j \in DOMAIN ikeys : j < i => ikeys[j] # ikeys[i]
      BY <2>1 DEF Collected, Injective, Linked
    <3> QED BY <2>3, <3>1
  <2>5. \A j \in DOMAIN ikeys : j < i => j < i + 1
    BY DEF Linked, Typed
  <2>6. Injective(zero') /\ \A n \in ToSet(zero') : count[n] = 0 /\ \E j \in DOMAIN ikeys : j < i + 1 /\ ikeys[j] = n
    <3>1. CASE count[ikeys[i]] = 0
      <4>1. Injective(zero') /\ ToSet(zero') = ToSet(zero) \cup {ikeys[i]}
        <5>1. zero \in Seq(Names) /\ zero' = Append(zero, ikeys[i])
          BY <2>2, <3>1 DEF Typed
        <5> QED BY <2>1, <2>3, <2>4, <5>1, AppendFacts
      <4>2. i < i + 1
        BY DEF Linked
      <4> QED BY <2>1, <2>3, <2>5, <3>1, <4>1, <4>2
    <3>2. CASE count[ikeys[i]] # 0
      BY <2>2, <2>3, <2>5, <3>2
    <3> QED BY <3>1, <3>2
  <2> QED BY <2>2, <2>6 DEF Queued, Early
<1>6. CASE LoopEnds("zero", Len(ikeys), "order") \/ Dequeue \/ Scan \/ ScanEnds
  <2>1. status' = "order"
    BY <1>6 DEF LoopEnds, Dequeue, Scan, ScanEnds
  <2> QED BY <2>1 DEF Queued, Early
<1> QED BY <1>1, <1>2, <1>3, <1>4, <1>5, <1>6, StepCases DEF Building

-----------------------------------------------------------------------------
(* The loop of the sort *)

LEMMA WaitingFinite ==
    ASSUME Typed, NEW n \in Names
    PROVE  IsFiniteSet(Waiting(n))
<1>1. IsFiniteSet(DOMAIN deps[n])
  BY IndicesCounted DEF Typed
<1> QED BY <1>1, FS_Subset DEF Waiting

LEMMA KeysAreNames ==
    ASSUME Typed
    PROVE  ToSet(keys) \subseteq Names /\ ToSet(ikeys) \subseteq Names
           /\ ToSet(zero) \subseteq Names /\ ToSet(order) \subseteq Names
BY DEF Typed, ToSet

(* A function that waits for none has all that it calls in the order.      *)
LEMMA NoneAwaited ==
    ASSUME Typed, NEW n \in Names, Cardinality(Waiting(n)) = 0
    PROVE  \A c \in DOMAIN deps[n] : deps[n][c] \in ToSet(order)
<1>1. Waiting(n) = {}
  BY WaitingFinite, FS_EmptySet
<1> QED BY <1>1 DEF Waiting

LEMMA SortBegins ==
    ASSUME Linked, Typed, Collected, Counted, Queued,
           LoopEnds("zero", Len(ikeys), "order")
    PROVE  Sorted'
<1>1. /\ status = "zero" /\ status' = "order" /\ order = <<>> /\ curr = NONE
      /\ UNCHANGED <<graph, degrees, queue>>
  BY DEF LoopEnds, Queued, graph_vars
<1>2. ASSUME NEW n \in ToSet(keys)
      PROVE  count[n] = Cardinality(Waiting(n)')
  <2>1. n \in Names /\ n \in ToSet(ikeys)
    BY <1>1, KeysAreNames DEF Collected
  <2>2. count[n] = Len(deps[n])
    BY <1>1, <2>1 DEF Counted, ToSet
  <2>3. Waiting(n)' = DOMAIN deps[n]
    BY <1>1, <2>1 DEF Waiting, ToSet, graph, queue
  <2> QED BY <2>1, <2>2, <2>3, IndicesCounted DEF Typed
<1>3. Injective(order) /\ ToSet(order) = {}
  BY <1>1 DEF Injective, ToSet
<1>4. Injective(zero) /\ \A n \in ToSet(zero) : count[n] = 0
  BY <1>1 DEF Queued
<1>5. UNCHANGED <<keys, count, zero, order, curr>>
  BY <1>1 DEF graph, degrees, queue
<1> QED BY <1>1, <1>2, <1>3, <1>4, <1>5 DEF Sorted

LEMMA DequeueSorted ==
    ASSUME Linked, Typed, Sorted, Dequeue
    PROVE  Sorted'
<1> DEFINE z == Head(zero)
<1>1. /\ status = "order" /\ status' = "order" /\ curr = NONE /\ zero # <<>>
      /\ curr' = z /\ zero' = Tail(zero) /\ order' = Append(order, z) /\ i' = 1
      /\ UNCHANGED <<keys, deps, count>>
  BY DEF Dequeue, graph, degrees
<1>2. z \in Names /\ z \in ToSet(zero) /\ ToSet(Tail(zero)) \subseteq ToSet(zero)
      /\ (Injective(zero) => Injective(Tail(zero)) /\ z \notin ToSet(Tail(zero)))
  BY <1>1, TailFacts DEF Typed
<1>3. z \notin ToSet(order)
  BY <1>1, <1>2 DEF Sorted
<1>4. ToSet(order') = ToSet(order) \cup {z} /\ Injective(order')
  <2>1. order \in Seq(Names) /\ Injective(order)
    BY <1>1 DEF Typed, Sorted
  <2>2. order' = Append(order, z) /\ z \in Names
    BY <1>1, <1>2
  <2> HIDE DEF z
  <2> QED BY ONLY <1>3, <2>1, <2>2, AppendFacts
<1>5. ASSUME NEW n \in ToSet(keys)
      PROVE  Waiting(n)' = Waiting(n)
  <2>1. n \in Names
    BY KeysAreNames
  <2>2. \A c \in DOMAIN deps[n] : deps[n][c] # NONE
    BY <2>1, LinkingAssumption DEF Typed
  <2>3. ~(\E j \in DOMAIN keys : j < 1 /\ keys[j] = n)
    BY DEF Typed
  <2>4. Scanned(n)' = FALSE
    BY <1>1, <2>3 DEF Scanned
  <2> QED BY <1>1, <1>3, <1>4, <2>2, <2>4 DEF Waiting
<1>6. \A n \in ToSet(keys) : count[n] = Cardinality(Waiting(n)')
  BY <1>1, <1>5 DEF Sorted
<1>7. ToSet(zero') \cap ToSet(order') = {} /\ Injective(zero')
  BY <1>1, <1>2, <1>4 DEF Sorted
<1>8. \A n \in ToSet(keys) \cap (ToSet(zero') \cup ToSet(order')) : count[n] = 0
  BY <1>1, <1>2, <1>4 DEF Sorted
<1> QED BY <1>1, <1>4, <1>6, <1>7, <1>8 DEF Sorted

LEMMA ScanSorted ==
    ASSUME Linked, Typed, Entered, Sorted, Scan
    PROVE  Sorted'
<1>1. /\ status = "order" /\ status' = "order" /\ curr # NONE /\ i <= Len(keys) /\ i' = i + 1
      /\ UNCHANGED <<keys, deps, order, curr>>
  BY DEF Scan, graph
<1>n. PICK n : n = keys[i]
  OBVIOUS
<1>2. /\ i \in DOMAIN keys /\ n \in Names /\ n \in ToSet(keys)
      /\ \A j \in DOMAIN keys : (j < i + 1 <=> j < i \/ j = i) /\ (j = i => ~(j < i))
  BY <1>1, <1>n, IndexFacts DEF Typed, ToSet
<1>3. /\ ~Scanned(n) /\ Scanned(n)'
      /\ \A m \in Names : m # n => Scanned(m)' = Scanned(m)
  <2>1. \A j \in DOMAIN keys : keys[j] = n => j = i
    BY <1>2, <1>n DEF Entered, Injective
  <2>2. \A m : Scanned(m)' <=> \E j \in DOMAIN keys : j < i + 1 /\ keys[j] = m
    BY <1>1 DEF Scanned
  <2>3. ~Scanned(n)
    BY <1>2, <2>1 DEF Scanned
  <2>4. Scanned(n)'
    BY <1>2, <1>n, <2>2
  <2>5. \A m \in Names : m # n => Scanned(m)' = Scanned(m)
    BY <1>2, <1>n, <2>2 DEF Scanned
  <2> QED BY <2>3, <2>4, <2>5
<1>4. curr \in ToSet(order)
  BY <1>1 DEF Sorted
<1>5. \A m \in Names : m # n => Waiting(m)' = Waiting(m)
  BY <1>1, <1>3 DEF Waiting
<1>6. CASE curr \in ToSet(deps[n])
  <2>1. PICK k \in DOMAIN deps[n] : deps[n][k] = curr
    BY <1>6 DEF ToSet
  <2>2. \A c \in DOMAIN deps[n] : deps[n][c] = curr => c = k
    BY <1>2, <2>1 DEF Entered, Injective
  <2>3. k \in Waiting(n) /\ Waiting(n)' = Waiting(n) \ {k}
    BY <1>1, <1>3, <1>4, <2>1, <2>2 DEF Waiting
  <2>4. IsFiniteSet(Waiting(n)) /\ Cardinality(Waiting(n)) \in Nat
    BY <1>2, WaitingFinite, FS_CardinalityType
  <2>5. Cardinality(Waiting(n)') = Cardinality(Waiting(n)) - 1
    BY <2>3, <2>4, FS_RemoveElement
  <2>6. Cardinality(Waiting(n)) # 0
    BY <2>3, <2>4, FS_EmptySet
  <2>7. count[n] = Cardinality(Waiting(n)) /\ n \notin ToSet(zero) /\ n \notin ToSet(order)
    BY <1>1, <1>2, <2>6 DEF Sorted
  <2>8. /\ count' = [count EXCEPT ![n] = @ - 1]
        /\ zero' = IF count'[n] = 0 THEN Append(zero, n) ELSE zero
    BY <1>6, <1>n DEF Scan
  <2>9. count'[n] = Cardinality(Waiting(n)') /\ \A m \in Names : m # n => count'[m] = count[m]
    BY <1>2, <2>5, <2>7, <2>8 DEF Typed
  <2>10. \A m \in ToSet(keys) : count'[m] = Cardinality(Waiting(m)')
    <3> TAKE m \in ToSet(keys)
    <3>1. m \in Names
      BY KeysAreNames
    <3>2. CASE m = n
      BY <2>9, <3>2
    <3>3. CASE m # n
      BY <1>1, <1>5, <2>9, <3>1, <3>3 DEF Sorted
    <3> QED BY <3>2, <3>3
  <2>11. /\ Injective(zero') /\ ToSet(zero') \cap ToSet(order) = {}
         /\ \A m \in ToSet(keys) \cap (ToSet(zero') \cup ToSet(order)) : count'[m] = 0
    <3>1. /\ Injective(zero) /\ ToSet(zero) \cap ToSet(order) = {}
          /\ \A m \in ToSet(keys) \cap (ToSet(zero) \cup ToSet(order)) : count'[m] = 0
      BY <1>1, <2>7, <2>9, KeysAreNames DEF Sorted
    <3>2. CASE count'[n] = 0
      <4>1. zero' = Append(zero, n) /\ zero \in Seq(Names)
        BY <2>8, <3>2 DEF Typed
      <4>2. Injective(zero') /\ ToSet(zero') = ToSet(zero) \cup {n}
        BY <1>2, <2>7, <3>1, <4>1, AppendFacts
      <4> QED BY <2>7, <3>1, <3>2, <4>2
    <3>3. CASE count'[n] # 0
      BY <2>8, <3>1, <3>3
    <3> QED BY <3>2, <3>3
  <2> QED BY <1>1, <1>4, <2>10, <2>11 DEF Sorted
<1>7. CASE curr \notin ToSet(deps[n])
  <2>1. UNCHANGED <<count, zero>>
    BY <1>7, <1>n DEF Scan
  <2>2. Waiting(n)' = Waiting(n)
    BY <1>1, <1>7 DEF Waiting, ToSet
  <2>3. \A m \in ToSet(keys) : Waiting(m)' = Waiting(m)
    BY <1>5, <2>2, KeysAreNames
  <2> QED BY <1>1, <2>1, <2>3 DEF Sorted
<1> QED BY <1>6, <1>7

LEMMA ScanEndsSorted ==
    ASSUME Linked, Typed, Sorted, ScanEnds
    PROVE  Sorted'
<1>1. /\ status = "order" /\ status' = "order" /\ i > Len(keys) /\ curr' = NONE
      /\ UNCHANGED <<i, keys, deps, count, zero, order>>
  BY DEF ScanEnds, graph, degrees
<1>2. ASSUME NEW n \in ToSet(keys)
      PROVE  Waiting(n)' = Waiting(n)
  <2>1. n \in Names
    BY KeysAreNames
  <2>2. \A c \in DOMAIN deps[n] : deps[n][c] # NONE
    BY <2>1, LinkingAssumption DEF Typed
  <2>3. Scanned(n)
    <3>1. \A j \in DOMAIN keys : j < i
      BY <1>1 DEF Linked, Typed
    <3> QED BY <3>1 DEF Scanned, ToSet
  <2> QED BY <1>1, <2>2, <2>3 DEF Waiting
<1> QED BY <1>1, <1>2 DEF Sorted

LEMMA SortedStep ==
    ASSUME Linked, Typed, Entered, Collected, Counted, Queued, Sorted, [Next]_vars
    PROVE  Sorted'
<1>1. CASE Quiet
  <2>1. CASE UNCHANGED <<status, i>>
    <3>1. UNCHANGED <<status, i, keys, deps, count, zero, curr, order>>
      BY <1>1, <2>1 DEF Quiet, graph_vars, graph, degrees, queue
    <3>2. \A n : Waiting(n)' = Waiting(n)
      BY <3>1 DEF Waiting, Scanned
    <3> QED BY <3>1, <3>2 DEF Sorted
  <2>2. CASE status' # "order"
    BY <2>2 DEF Sorted
  <2> QED BY <1>1, <2>1, <2>2 DEF Quiet, Early, Loops
<1>2. CASE Building
  BY <1>2, BuildingFacts DEF Sorted
<1>3. CASE \/ LoopEnds("indegrees", Len(keys), "count") \/ LoopEnds("count", Len(ikeys), "zero")
           \/ InitIndegree \/ InitDependency \/ CountIndegree \/ build_indegree_zero
  <2>1. status' # "order"
    BY <1>3 DEF LoopEnds, InitIndegree, InitDependency, CountIndegree, build_indegree_zero
  <2> QED BY <2>1 DEF Sorted
<1> QED
  BY <1>1, <1>2, <1>3, StepCases, SortBegins, DequeueSorted, ScanSorted, ScanEndsSorted
  DEF Building

LEMMA FirstStep ==
    ASSUME Linked, Typed, Entered, Queued, Sorted, First, [Next]_vars
    PROVE  First'
<1>1. CASE UNCHANGED <<deps, order>>
  BY <1>1 DEF First
<1>2. CASE Building
  <2>1. order' = <<>>
    BY <1>2, BuildingFacts DEF Queued, Early, queue
  <2> QED BY <2>1 DEF First
<1>3. CASE Dequeue
  <2> DEFINE z == Head(zero)  l == Len(order) + 1
  <2>1. /\ status = "order" /\ zero # <<>> /\ order' = Append(order, z) /\ UNCHANGED deps
    BY <1>3 DEF Dequeue, graph
  <2>2. z \in Names /\ z \in ToSet(zero)
    BY <2>1, TailFacts DEF Typed
  <2>3. z \notin ToSet(order)
    BY <2>1, <2>2 DEF Sorted
  <2>4. \A c \in DOMAIN deps[z] : deps[z][c] \in ToSet(order)
    <3>1. CASE z \in ToSet(keys)
      BY <2>1, <2>2, <3>1, NoneAwaited DEF Sorted
    <3>2. CASE z \notin ToSet(keys)
      <4>1. deps[z] = <<>>
        BY <2>2, <3>2 DEF Entered
      <4> QED BY <4>1
    <3> QED BY <3>1, <3>2
  <2>5. /\ DOMAIN order' = DOMAIN order \cup {l} /\ order'[l] = z
        /\ \A k \in DOMAIN order : order'[k] = order[k]
    <3>1. order \in Seq(Names)
      BY DEF Typed
    <3> QED BY <2>1, <2>2, <3>1, AppendFacts
  <2>6. /\ DOMAIN order = 1 .. l - 1
        /\ \A k \in DOMAIN order : 1 .. k - 1 \subseteq DOMAIN order
    BY DEF Typed
  <2>7. ASSUME NEW k \in DOMAIN order
        PROVE  /\ \A c \in DOMAIN deps[order'[k]] :
                     \E j \in 1 .. k - 1 : order'[j] = deps[order'[k]][c]
               /\ \A j \in 1 .. k - 1 : order'[j] # order'[k]
    <3>1. /\ \A c \in DOMAIN deps[order[k]] : \E j \in 1 .. k - 1 : order[j] = deps[order[k]][c]
          /\ \A j \in 1 .. k - 1 : order[j] # order[k]
      BY DEF First
    <3>2. \A j \in 1 .. k - 1 : order'[j] = order[j]
      BY <2>5, <2>6
    <3> QED BY <2>5, <3>1, <3>2
  <2>8. /\ \A c \in DOMAIN deps[order'[l]] :
              \E j \in 1 .. l - 1 : order'[j] = deps[order'[l]][c]
        /\ \A j \in 1 .. l - 1 : order'[j] # order'[l]
    <3>1. \A j \in 1 .. l - 1 : order'[j] = order[j] /\ order[j] \in ToSet(order)
      BY <2>5, <2>6 DEF ToSet
    <3>2. \A d \in ToSet(order) : \E j \in 1 .. l - 1 : order[j] = d
      BY <2>6 DEF ToSet
    <3> QED BY <2>3, <2>4, <2>5, <3>1, <3>2
  <2> QED BY <2>1, <2>5, <2>7, <2>8 DEF First
<1>4. CASE \/ LoopEnds("indegrees", Len(keys), "count") \/ LoopEnds("count", Len(ikeys), "zero")
           \/ LoopEnds("zero", Len(ikeys), "order") \/ Quiet
  BY <1>1, <1>4 DEF LoopEnds, Quiet, graph_vars, graph, queue
<1>5. CASE InitIndegree \/ InitDependency \/ CountIndegree \/ build_indegree_zero
           \/ Scan \/ ScanEnds
  BY <1>1, <1>5
  DEF InitIndegree, InitDependency, CountIndegree, build_indegree_zero, Scan, ScanEnds,
      graph, queue
<1> QED BY <1>2, <1>3, <1>4, <1>5, StepCases DEF Building

-----------------------------------------------------------------------------

LEMMA InitIInv == Init => IInv
<1> SUFFICES ASSUME Init PROVE IInv
  OBVIOUS
<1>1. PICK c \in Configs :
         /\ root = c.root /\ sortfunc = c.sortfunc
         /\ status = IF c.mode = "strip" THEN "strip" ELSE "pass0"
  BY DEF Init
<1>2. ext = externals_create /\ i = 1 /\ GraphInit
  BY DEF Init
<1>3. status \in {"strip", "pass0"}
  BY <1>1
<1>4. Linked
  BY <1>1, <1>2, ConfigAssumption DEF Linked, externals_create
<1>5. /\ <<>> \in Seq(Names) /\ <<>> \in Seq(Frame) /\ DOMAIN <<>> = {}
      /\ Injective(<<>>) /\ ToSet(<<>>) = {}
  BY DEF Injective, ToSet
<1>6. /\ frames = <<>> /\ keys = <<>> /\ ikeys = <<>> /\ zero = <<>> /\ order = <<>>
      /\ deps = [n \in Names |-> <<>>] /\ count = [n \in Names |-> 0]
      /\ dedup = {} /\ inner = 0 /\ curr = NONE
  BY <1>2 DEF GraphInit
<1>7. Typed
  <2>1. deps \in [Names -> Seq(Names)] /\ count \in [Names -> Int]
    BY <1>5, <1>6
  <2> QED BY <1>1, <1>5, <1>6, <2>1, ConfigAssumption DEF Typed
<1>8. Entered
  BY <1>5, <1>6 DEF Entered
<1>9. Collected /\ Counted /\ Queued /\ Sorted /\ First
  BY <1>3, <1>5, <1>6 DEF Collected, Counted, Queued, Sorted, First, Early
<1> QED BY <1>4, <1>7, <1>8, <1>9 DEF IInv

LEMMA IInvStep == IInv /\ [Next]_vars => IInv'
BY LinkedStep, TypedStep, EnteredStep, CollectedStep, CountedStep, QueuedStep, SortedStep, FirstStep
DEF IInv

(* The sort keeps, for each function, the number of those it calls that    *)
(* are not in the order; in the queue are functions for which it is zero   *)
(* (topological_order in src/src/ast/topological.c).                       *)
THEOREM ProgramInvariant == Spec => []IInv
<1>1. Init => IInv
  BY InitIInv
<1>2. IInv /\ [Next]_vars => IInv'
  BY IInvStep
<1> QED BY <1>1, <1>2, PTL DEF Spec

(* Whatever calls whatever, cycles included: each function in the order    *)
(* stands there once, behind all that it calls (topological_order).        *)
THEOREM ProgramDependenciesFirst == Spec => []DependenciesFirst
<1>1. IInv => DependenciesFirst
  BY DEF IInv, First, DependenciesFirst, ToSet
<1> QED BY <1>1, ProgramInvariant, PTL

-----------------------------------------------------------------------------
(* Types and bounds *)

Tabled ==
    \A k \in Kinds, n \in Names : ext[k][n] # NONE => ext[k][n].name = n

LEMMA TabledStep ==
    ASSUME Linked, Tabled, [Next]_vars
    PROVE  Tabled'
<1>1. CASE UNCHANGED ext
  BY <1>1 DEF Tabled
<1>2. ASSUME NEW d \in Declaration, ext' = ast_externdecl_install(d)
      PROVE  Tabled'
  BY <1>2 DEF Linked, Tabled, ast_externdecl_install, Declaration
<1>3. CASE pass0
  <2>1. i <= Len(root) => root[i] \in Declaration
    BY IndexFacts DEF Linked
  <2>2. CASE InstallPlain \/ InstallProto
    <3>1. PICK d \in Declaration : d = root[i]
      BY <2>1, <2>2 DEF InstallPlain, InstallProto
    <3> QED BY <1>2, <2>2, <3>1 DEF InstallPlain, InstallProto, Installed
  <2>3. CASE InstallDefinition
    <3>1. PICK d \in Declaration : d = ast_function_protostitch(root[i])
      BY <2>1, <2>3, StitchedIsDeclaration DEF InstallDefinition
    <3> QED BY <1>2, <2>3, <3>1 DEF InstallDefinition, Installed
  <2>4. CASE RejectProto
    BY <1>1, <2>4 DEF RejectProto
  <2> QED BY <1>3, <2>2, <2>3, <2>4 DEF pass0
<1> QED BY <1>1, <1>3, DeclarationsKept

(* No in-degree falls below zero. *)
Natural == \A n \in Names : count[n] \in Nat

LEMMA NaturalStep ==
    ASSUME IInv, Natural, [Next]_vars
    PROVE  Natural'
<1>1. CASE UNCHANGED count
  BY <1>1 DEF Natural
<1>2. CASE CountIndegree
  <2>1. ikeys[i] \in Names
    BY <1>2, IndexFacts DEF CountIndegree, IInv, Typed
  <2>2. Len(deps[ikeys[i]]) \in Nat
    BY <2>1 DEF IInv, Typed
  <2>3. count' = [count EXCEPT ![ikeys[i]] = @ + Len(deps[ikeys[i]])] /\ count \in [Names -> Int]
    BY <1>2 DEF CountIndegree, IInv, Typed
  <2>4. count[ikeys[i]] + Len(deps[ikeys[i]]) \in Nat
    BY <2>1, <2>2 DEF Natural
  <2> QED BY <2>1, <2>3, <2>4 DEF Natural
<1>3. CASE Scan
  <2>1. PICK n : n = keys[i]
    OBVIOUS
  <2>2. n \in Names /\ n \in ToSet(keys) /\ keys' = keys /\ deps' = deps /\ status' = "order"
    BY <1>3, <2>1, IndexFacts DEF Scan, IInv, Typed, ToSet, graph
  <2>3. count'[n] = Cardinality(Waiting(n)')
    BY <2>2, IInvStep DEF IInv, Sorted
  <2>4. IsFiniteSet(DOMAIN deps[n]) /\ Waiting(n)' \subseteq DOMAIN deps[n]
    BY <2>2, IndicesCounted DEF IInv, Typed, Waiting
  <2>5. count'[n] \in Nat
    BY <2>3, <2>4, FS_Subset, FS_CardinalityType
  <2>6. \A m \in Names : m # n => count'[m] = count[m]
    BY <1>3, <2>1 DEF Scan, IInv, Typed
  <2> QED BY <2>5, <2>6 DEF Natural
<1>4. CASE Building \/ Quiet
  BY <1>1, <1>4, BuildingFacts DEF Quiet, graph_vars, degrees
<1>5. CASE \/ LoopEnds("indegrees", Len(keys), "count") \/ LoopEnds("count", Len(ikeys), "zero")
           \/ LoopEnds("zero", Len(ikeys), "order")
           \/ InitIndegree \/ InitDependency \/ build_indegree_zero \/ Dequeue \/ ScanEnds
  BY <1>1, <1>5
  DEF LoopEnds, InitIndegree, InitDependency, build_indegree_zero, Dequeue, ScanEnds,
      graph_vars, degrees
<1> QED BY <1>2, <1>3, <1>4, <1>5, StepCases DEF Building

(* A set of numbers that is not empty has a least one. *)
LEMMA LeastNumber ==
    ASSUME NEW T \in SUBSET Nat, T # {}
    PROVE  \E m \in T : \A n \in T : m <= n
<1>1. PICK m \in T : \A n \in T : <<n, m>> \notin OpToRel(<, Nat)
  BY NatLessThanWellFounded, WFMin
<1>2. \A n \in T : ~(n < m)
  BY <1>1 DEF OpToRel
<1> QED BY <1>2

(* White space is skipped, and nothing else, to a position within the file. *)
LEMMA SkipwsFacts ==
    ASSUME file \in Seq(Characters), NEW p \in 0 .. Len(file)
    PROVE  /\ skipws(p) \in p .. Len(file)
           /\ skipws(p) = Len(file) \/ file[skipws(p) + 1] # "ws"
           /\ \A r \in p .. skipws(p) - 1 : file[r + 1] = "ws"
<1> DEFINE T == {q \in p .. Len(file) : q = Len(file) \/ file[q + 1] # "ws"}
<1>1. Len(file) \in T /\ T \in SUBSET Nat
  OBVIOUS
<1>2. PICK m \in T : \A n \in T : m <= n
  BY <1>1, LeastNumber
<1>3. \A r \in p .. m - 1 : file[r + 1] = "ws"
  <2> TAKE r \in p .. m - 1
  <2>1. r \in p .. Len(file) /\ r # Len(file) /\ r < m /\ r \in Nat /\ m \in Nat
    BY <1>1, <1>2
  <2> QED BY <1>2, <2>1
<1>4. \E q \in p .. Len(file) :
         /\ q = Len(file) \/ file[q + 1] # "ws"
         /\ \A r \in p .. q - 1 : file[r + 1] = "ws"
  BY <1>2, <1>3
<1> QED BY <1>4 DEF skipws

Stripped ==
    /\ file \in Seq(Characters) /\ pos \in 0 .. Len(file)
    /\ depth \in Int /\ depth >= -1
    /\ out \in Seq(Characters) /\ Len(out) <= MaxOut

LEMMA StrippedStep ==
    ASSUME Stripped, [Next]_vars
    PROVE  Stripped'
<1>1. CASE UNCHANGED strip_vars
  BY <1>1 DEF Stripped, strip_vars
<1>2. Len(file) \in Nat /\ pos \in Nat /\ pos <= Len(file)
  BY DEF Stripped
<1>3. \A p \in 0 .. Len(file) : After(p) \in 0 .. Len(file) /\ CharAt(p) \in Characters
  BY DEF Stripped, After, CharAt, Characters
<1>4. ASSUME NEW c \in Characters, Emit(c)
      PROVE  out' \in Seq(Characters) /\ Len(out') <= MaxOut
  <2>1. CASE Len(out) < MaxOut
    <3>1. out \in Seq(Characters) /\ out' = Append(out, c)
      BY <1>4, <2>1 DEF Emit, Stripped
    <3>2. PICK l : l = Len(out)
      OBVIOUS
    <3>3. out' \in Seq(Characters) /\ Len(out') = l + 1 /\ l \in Nat
      BY <3>1, <3>2, AppendFacts
    <3> QED BY <2>1, <3>2, <3>3, StripAssumption
  <2>2. CASE ~(Len(out) < MaxOut)
    BY <1>4, <2>2 DEF Emit, Stripped
  <2> QED BY <2>1, <2>2
<1>5. CASE strip_char
  <2>1. PICK c \in Characters : c = CharAt(pos)
    BY <1>2, <1>3
  <2>2. Emit(c) /\ pos' = After(pos) /\ UNCHANGED <<file, depth>>
    BY <1>5, <2>1 DEF strip_char
  <2> QED BY <1>2, <1>3, <1>4, <2>2 DEF Stripped
<1>6. CASE isvblock
  <2>1. pos < Len(file)
    BY <1>6 DEF isvblock, CharAt, EOF
  <2>2. pos + 1 \in 0 .. Len(file)
    BY <1>2, <2>1
  <2>3. skipws(pos + 1) \in pos + 1 .. Len(file)
    BY <2>2, SkipwsFacts DEF Stripped
  <2>4. skipws(pos + 1) \in Nat /\ skipws(pos + 1) <= Len(file) /\ skipws(pos + 1) > 0
    BY <1>2, <2>3
  <2>5. CASE CharAt(skipws(pos + 1)) = "["
    <3>1. skipws(pos + 1) < Len(file)
      BY <2>5 DEF CharAt, EOF
    <3>2. pos' = skipws(pos + 1) + 1 /\ depth' = 0 /\ UNCHANGED <<file, out>>
      BY <1>6, <2>5 DEF isvblock
    <3> QED BY <1>2, <2>4, <3>1, <3>2 DEF Stripped
  <2>6. CASE CharAt(skipws(pos + 1)) # "["
    <3>1. pos' = NoBlockAt(pos + 1) /\ Emit("~") /\ UNCHANGED <<file, depth>>
      BY <1>6, <2>6 DEF isvblock
    <3>2. NoBlockAt(pos + 1) \in 0 .. Len(file)
      BY <1>2, <2>2, <2>4 DEF NoBlockAt, After
    <3>3. "~" \in Characters
      BY DEF Characters
    <3> QED BY <1>4, <3>1, <3>2, <3>3 DEF Stripped
  <2> QED BY <2>5, <2>6
<1>7. CASE skipvblock
  <2>1. depth \in Int /\ depth >= 0
    BY <1>7 DEF skipvblock, Stripped
  <2>2. depth' \in Int /\ depth' >= -1
    BY <1>7, <2>1 DEF skipvblock, Depth
  <2> QED BY <1>2, <1>3, <1>7, <2>2 DEF skipvblock, Stripped
<1>8. CASE strip_ends
  BY <1>8 DEF strip_ends, Stripped
<1> QED BY <1>1, <1>5, <1>6, <1>7, <1>8 DEF Next, strip, Exited, vars

LEMMA StatusStep ==
    ASSUME status \in Phases \cup Ended, [Next]_vars
    PROVE  status' \in Phases \cup Ended
<1>1. CASE pass0
  BY <1>1, VerifyprotoResult
  DEF pass0, InstallPlain, InstallProto, RejectProto, InstallDefinition, Installed, Phases, Ended
<1>2. CASE Pass0Ends \/ pass1 \/ Ordered \/ pass_inorder \/ verify_ends
  BY <1>2 DEF Pass0Ends, pass1, Ordered, pass_inorder, verify_ends, Verify, Phases, Ended
<1>3. CASE topological_order
  BY <1>3
  DEF topological_order, ast_function_buildgraph, recurse_buildgraph, NextStatement,
      SkipDuplicate, CalleeUndeclared, Callee, Return, LoopEnds, InitIndegree, InitDependency,
      CountIndegree, build_indegree_zero, Dequeue, Scan, ScanEnds, CycleDetected, Phases, Ended
<1>4. CASE UNCHANGED status
  BY <1>4
<1> QED BY <1>1, <1>2, <1>3, <1>4 DEF Next, verify, Exited, vars, linking_vars

LEMMA InitBounds == Init => Tabled /\ Natural /\ Stripped /\ status \in Phases \cup Ended
<1> SUFFICES ASSUME Init PROVE Tabled /\ Natural /\ Stripped /\ status \in Phases \cup Ended
  OBVIOUS
<1>1. PICK c \in Configs :
         /\ file = (IF c.mode = "strip" THEN c.file ELSE <<>>)
         /\ status = IF c.mode = "strip" THEN "strip" ELSE "pass0"
  BY DEF Init
<1>2. ext = externals_create /\ GraphInit /\ pos = 0 /\ depth = -1 /\ out = <<>>
  BY DEF Init
<1>3. Stripped
  <2>1. c.file \in Seq(Characters) /\ <<>> \in Seq(Characters)
    BY ConfigAssumption
  <2>2. file \in Seq(Characters) /\ Len(file) \in Nat
    BY <1>1, <2>1
  <2> QED BY <1>2, <2>2, StripAssumption DEF Stripped
<1> QED BY <1>1, <1>2, <1>3 DEF Tabled, externals_create, Natural, GraphInit, Phases

(* The indices of all loops stay within what they run over, no in-degree   *)
(* falls below zero, and stripping stays within the file, for all files    *)
(* (main.c, ext.c, topological.c).                                         *)
THEOREM ProgramTypeOK == Spec => []TypeOK
<1> DEFINE Bounds == Tabled /\ Natural /\ Stripped /\ status \in Phases \cup Ended
<1>1. Init => Bounds
  BY InitBounds
<1>2. IInv /\ Bounds /\ [Next]_vars => Bounds'
  BY TabledStep, NaturalStep, StrippedStep, StatusStep DEF IInv
<1>3. IInv /\ Bounds => TypeOK
  <2> SUFFICES ASSUME IInv, Bounds PROVE TypeOK
    OBVIOUS
  <2>1. \A k \in Kinds, n \in Names :
           ext[k][n] # NONE => ext[k][n] \in Declaration /\ ext[k][n].name = n
    BY DEF IInv, Linked, Tabled
  <2>2. dedup \cup ToSet(keys) \cup ToSet(ikeys) \cup ToSet(zero) \cup ToSet(order) \subseteq Names
    BY KeysAreNames DEF IInv, Typed
  <2>3. \A n \in Names : count[n] >= 0 /\ ToSet(deps[n]) \subseteq Names
    BY DEF IInv, Typed, Natural, ToSet
  <2>4. \A k \in DOMAIN frames : frames[k].name \in dedup \ ToSet(keys)
    BY DEF IInv, Entered
  <2>5. pos \in 0 .. Len(file) /\ depth >= -1 /\ Len(out) <= MaxOut
    BY DEF Stripped
  <2>6. root \in Seq(Declaration)
    BY DEF IInv, Linked
  <2> QED BY <2>1, <2>2, <2>3, <2>4, <2>5, <2>6 DEF TypeOK
<1> HIDE DEF Bounds
<1> QED BY <1>1, <1>2, <1>3, ProgramInvariant, PTL DEF Spec

=============================================================================
