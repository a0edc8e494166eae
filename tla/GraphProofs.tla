---------------------------- MODULE GraphProofs ----------------------------
(***************************************************************************)
(* Proofs about the order of verification, for all files and all graphs of *)
(* calls: the graph is exact, the order has every function that has to be  *)
(* verified, a cycle or a crash is reported only where there is a reason,  *)
(* and what is accepted was verified.                                      *)
(***************************************************************************)
EXTENDS LinkingProofs

-----------------------------------------------------------------------------
(* The inductive invariant *)

(* The graph is complete. *)
HasGraph ==
    \/ status \in Loops \cup {"cycle", "inorder"}
    \/ status \in {"done", "unproved"} /\ mode # "none"

Modes ==
    /\ mode \in {"none", "sort", "verify", "strip"}
    /\ mode = "none" =>
          status \in {"pass0", "pass1", "done", "unproved", "missing", "multiple", "mismatch"}
    /\ status = "pass1" => mode = "none"
    /\ status = "strip" <=> mode = "strip"
    /\ status = "inorder" => mode = "verify"

Fresh ==
    /\ status \in {"strip", "pass0", "pass1"} => dedup = {} /\ frames = <<>> /\ keys = <<>>
    /\ status \in Early => ikeys = <<>>

(* The calls that a frame has met. *)
Searched(f) == f.local_dedup \cup ToSet(f.funcs)

(* A frame has met what the statements before its next one call; D has     *)
(* been entered.                                                           *)
Follows(f, D) ==
    /\ Declared(f.name) /\ ~Axiom(f.name)
    /\ externals_getfunc(f.name).body \notin {NONE, <<>>}
    /\ ToSet(f.stmts) \subseteq Code(f.name)
    /\ \A s \in Code(f.name) :
          s \in ToSet(f.stmts) \/ (~Unsearchable(s) /\ Mentions(s) \subseteq Searched(f))
    /\ Searched(f) \subseteq CallsOf(f.name)
    /\ f.local_dedup \subseteq D
    /\ ToSet(f.val) = {c \in f.local_dedup : ~Axiom(c)}

(* A function of the graph, with ds for those it depends on. *)
Complete(n, ds, D) ==
    /\ ~Axiom(n) /\ ~Uncallable(n)
    /\ CallsOf(n) \subseteq D
    /\ ToSet(ds) = {c \in CallsOf(n) : ~Axiom(c)}

FollowedBy(D, fs, ks, ds) ==
    /\ D # {} => sortfunc \in D
    /\ \A n \in D :
          /\ Declared(n) /\ n \in Under({sortfunc})
          /\ Axiom(n) \/ n \in ToSet(ks) \/ \E k \in DOMAIN fs : fs[k].name = n
    /\ \A k \in DOMAIN fs : Follows(fs[k], D)
    /\ \A n \in ToSet(ks) : Complete(n, ds[n], D)

Followed ==
    /\ status = "graph" \/ HasGraph => FollowedBy(dedup, frames, keys, deps)
    /\ status = "graph" /\ dedup # {} => frames # <<>>
    /\ HasGraph => dedup # {} /\ frames = <<>>

Crashed == status = "crash" => \E n \in Under({sortfunc}) : Uncallable(n)

Ranked ==
    HasGraph =>
        /\ ToSet(ikeys) \cup ToSet(zero) \cup ToSet(order) \subseteq ToSet(keys)
        /\ status \in {"inorder", "done", "unproved"} => ToSet(order) = ToSet(keys)

(* Who waits for none is in the queue or has left it. *)
Stuck ==
    /\ status = "zero" =>
          \A j \in DOMAIN ikeys : j < i /\ count[ikeys[j]] = 0 => ikeys[j] \in ToSet(zero)
    /\ status = "order" =>
          \A n \in ToSet(keys) : count[n] = 0 => n \in ToSet(zero) \cup ToSet(order)

Cyclic == status = "cycle" => \E n \in ToSort : n \in Under(CallsOf(n))

(* What was verified so far. *)
Accepting ==
    /\ status \in Loops \cup {"pass0", "graph"} => qed = <<>>
    /\ status = "inorder" =>
          Len(qed) = i - 1 /\ i <= Len(order) + 1 /\ \A k \in DOMAIN qed : qed[k].name = order[k]
    /\ status = "done" /\ mode = "verify" =>
          Len(qed) = Len(order) /\ \A k \in DOMAIN qed : qed[k].name = order[k]
    /\ status = "pass1" =>
          /\ Len(qed) = Cardinality(DefinitionsBefore(i))
          /\ \A k \in DefinitionsBefore(i) :
                qed[Cardinality(DefinitionsBefore(k)) + 1].name = root[k].name
    /\ status = "done" /\ mode = "none" =>
          /\ Len(qed) = Cardinality(DefinitionsBefore(Len(root) + 1))
          /\ \A k \in DefinitionsBefore(Len(root) + 1) :
                qed[Cardinality(DefinitionsBefore(k)) + 1].name = root[k].name

GInv == Modes /\ Fresh /\ Followed /\ Crashed /\ Ranked /\ Stuck /\ Cyclic

-----------------------------------------------------------------------------
(* The functions under others *)

LEMMA UnderFacts ==
    ASSUME NEW S \in SUBSET Names
    PROVE  /\ S \subseteq Under(S) /\ Under(S) \subseteq Names
           /\ \A n \in Under(S) : \A c \in CallsOf(n) : c \in Names => c \in Under(S)
<1>1. S \subseteq Under(S) /\ Under(S) \subseteq Names
  BY DEF Under
<1>2. ASSUME NEW n \in Under(S), NEW c \in CallsOf(n), c \in Names
      PROVE  c \in Under(S)
  <2> SUFFICES ASSUME NEW T \in SUBSET Names, S \subseteq T, \A m \in T : CallsOf(m) \subseteq T
               PROVE  c \in T
    BY <1>2 DEF Under
  <2>1. n \in T
    BY DEF Under
  <2> QED BY <2>1
<1> QED BY <1>1, <1>2

LEMMA UnderLeast ==
    ASSUME NEW S, NEW T \in SUBSET Names, S \subseteq T, \A m \in T : CallsOf(m) \subseteq T
    PROVE  Under(S) \subseteq T
BY DEF Under

-----------------------------------------------------------------------------
(* Statements and frames *)

LEMMA HeadAndTail ==
    ASSUME NEW S, NEW s \in Seq(S), s # <<>>
    PROVE  ToSet(s) = {Head(s)} \cup ToSet(Tail(s))
<1>1. /\ Tail(s) \in Seq(S)
      /\ Len(Tail(s)) = Len(s) - 1 /\ Len(s) > 0
      /\ Head(s) = s[1]
      /\ \A k \in 1 .. Len(s) - 1 : Tail(s)[k] = s[k + 1]
  BY HeadTailProperties, EmptySeq
<1>2. DOMAIN s = 1 .. Len(s) /\ DOMAIN Tail(s) = 1 .. Len(s) - 1
  BY <1>1
<1>3. \A k \in DOMAIN s : k = 1 \/ (k - 1 \in DOMAIN Tail(s) /\ Tail(s)[k - 1] = s[k])
  BY <1>1, <1>2
<1>4. \A k \in DOMAIN Tail(s) : k + 1 \in DOMAIN s /\ s[k + 1] = Tail(s)[k]
  BY <1>1, <1>2
<1>5. 1 \in DOMAIN s
  BY <1>1, <1>2
<1>6. \A k \in DOMAIN s : s[k] \in {Head(s)} \cup ToSet(Tail(s))
  BY <1>1, <1>3 DEF ToSet
<1>7. Head(s) \in ToSet(s) /\ \A k \in DOMAIN Tail(s) : Tail(s)[k] \in ToSet(s)
  BY <1>1, <1>4, <1>5 DEF ToSet
<1>8. ToSet(s) \subseteq {Head(s)} \cup ToSet(Tail(s))
  BY <1>6 DEF ToSet
<1>9. ToSet(Tail(s)) \subseteq ToSet(s)
  BY <1>7 DEF ToSet
<1> QED BY <1>7, <1>8, <1>9

LEMMA CodeFacts ==
    ASSUME Linked, NEW n \in Names
    PROVE  /\ Code(n) \subseteq Statements
           /\ \A s \in Code(n) : Mentions(s) \subseteq CallsOf(n)
           /\ ~Uncallable(n) => CallsOf(n) \subseteq Names
<1>1. externals_getfunc(n) \in Declaration \cup {NONE}
  BY DEF Linked, externals_getfunc, Kinds
<1>2. Code(n) \subseteq Statements
  BY <1>1 DEF Code, Declared, Declaration, ToSet
<1>3. ASSUME NEW s \in Statements, ~Unsearchable(s)
      PROVE  Mentions(s) \subseteq Names
  <2>1. GetFuncs(s) \in Seq(Names) /\ Mentions(s) = ToSet(GetFuncs(s))
    BY <1>3, FuncsAreNames, SearchAssumption
  <2> QED BY <2>1 DEF ToSet
<1> QED BY <1>2, <1>3 DEF CallsOf, Uncallable

(* More functions have been entered. *)
LEMMA FollowsMore ==
    ASSUME NEW D, NEW E, D \subseteq E
    PROVE  /\ \A f : Follows(f, D) => Follows(f, E)
           /\ \A n, ds : Complete(n, ds, D) => Complete(n, ds, E)
BY DEF Follows, Complete

(* The invariant after a step that keeps the declarations. *)
LEMMA SameDeclarations ==
    ASSUME UNCHANGED <<ext, sortfunc>>
    PROVE  /\ FollowedBy(dedup, frames, keys, deps)' <=> FollowedBy(dedup', frames', keys', deps')
           /\ Crashed' <=> (status' = "crash" => \E n \in Under({sortfunc}) : Uncallable(n))
           /\ Cyclic' <=> (status' = "cycle" => \E n \in ToSort : n \in Under(CallsOf(n)))
<1>1. ext' = ext /\ sortfunc' = sortfunc
  OBVIOUS
<1>2. FollowedBy(dedup, frames, keys, deps)' <=> FollowedBy(dedup', frames', keys', deps')
  BY <1>1
  DEF FollowedBy, Follows, Complete, Searched, Under, Uncallable, CallsOf, Code, Axiom, Declared,
      externals_getfunc
<1>3. Crashed' <=> (status' = "crash" => \E n \in Under({sortfunc}) : Uncallable(n))
  BY <1>1
  DEF Crashed, Under, Uncallable, CallsOf, Code, Axiom, Declared, externals_getfunc
<1>4. Cyclic' <=> (status' = "cycle" => \E n \in ToSort : n \in Under(CallsOf(n)))
  BY <1>1
  DEF Cyclic, ToSort, Under, CallsOf, Code, Axiom, Declared, externals_getfunc
<1> QED BY <1>2, <1>3, <1>4

-----------------------------------------------------------------------------
(* The graph is built *)

(* The innermost frame, in a graph that is being built. *)
LEMMA TopFollows ==
    ASSUME Linked, Typed, Entered, Followed, InFrame
    PROVE  /\ Top \in Frame /\ Len(frames) \in DOMAIN frames
           /\ FollowedBy(dedup, frames, keys, deps) /\ Follows(Top, dedup)
           /\ Top.name \in dedup /\ Top.name \in Under({sortfunc}) /\ Top.name \notin ToSet(keys)
           /\ Code(Top.name) \subseteq Statements
           /\ \A s \in Code(Top.name) : Mentions(s) \subseteq CallsOf(Top.name)
<1>1. Top \in Frame /\ Len(frames) \in DOMAIN frames
  BY TopFacts
<1>2. FollowedBy(dedup, frames, keys, deps)
  BY DEF Followed, InFrame
<1>3. Top.name \in dedup /\ Top.name \notin ToSet(keys)
  BY <1>1 DEF Entered, Top
<1>4. Follows(Top, dedup) /\ Top.name \in Under({sortfunc})
  BY <1>1, <1>2, <1>3 DEF FollowedBy, Top
<1>5. Top.name \in Names
  BY <1>1 DEF Frame
<1> QED BY <1>1, <1>2, <1>3, <1>4, <1>5, CodeFacts

(* The innermost frame goes on, or notes a callee c. *)
LEMMA FollowedTop ==
    ASSUME Linked, Typed, Entered, Followed, InFrame,
           NEW E, dedup \subseteq E, sortfunc \in dedup,
           \A n \in E \ dedup : Declared(n) /\ n \in Under({sortfunc}) /\ Axiom(n),
           NEW f \in Frame, f.name = Top.name, Follows(f, E)
    PROVE  FollowedBy(E, WithTop(f), keys, deps)
<1>1. /\ DOMAIN WithTop(f) = DOMAIN frames /\ Len(frames) \in DOMAIN frames
      /\ WithTop(f)[Len(frames)] = f
      /\ \A k \in DOMAIN frames : k # Len(frames) => WithTop(f)[k] = frames[k]
  BY TopFacts
<1>2. FollowedBy(dedup, frames, keys, deps)
  BY TopFollows
<1>3. \A k \in DOMAIN frames : WithTop(f)[k].name = frames[k].name
  BY <1>1 DEF Top
<1>4. \A n \in dedup :
         Declared(n) /\ n \in Under({sortfunc})
         /\ (Axiom(n) \/ n \in ToSet(keys) \/ \E k \in DOMAIN WithTop(f) : WithTop(f)[k].name = n)
  BY <1>1, <1>2, <1>3 DEF FollowedBy
<1>5. \A k \in DOMAIN WithTop(f) : Follows(WithTop(f)[k], E)
  BY <1>1, <1>2, FollowsMore DEF FollowedBy
<1>6. \A n \in ToSet(keys) : Complete(n, deps[n], E)
  BY <1>2, FollowsMore DEF FollowedBy
<1> QED BY <1>4, <1>5, <1>6 DEF FollowedBy

LEMMA NextStatementFollowed ==
    ASSUME Linked, Typed, Entered, Followed, NextStatement
    PROVE  /\ status' = "graph" => FollowedBy(dedup', frames', keys', deps') /\ frames' # <<>>
           /\ status' = "crash" => \E n \in Under({sortfunc}) : Uncallable(n)
<1> DEFINE s == Head(Top.stmts)
           fs == GetFuncs(s)
           f  == [Top EXCEPT !.stmts = Tail(@), !.funcs = fs]
<1>1. InFrame /\ Top.funcs = <<>> /\ Top.stmts # <<>> /\ UNCHANGED <<dedup, keys, deps>>
  BY DEF NextStatement, graph
<1>2. /\ Top \in Frame /\ Follows(Top, dedup) /\ sortfunc \in dedup
      /\ Top.name \in dedup /\ Top.name \in Under({sortfunc})
      /\ Code(Top.name) \subseteq Statements
      /\ \A t \in Code(Top.name) : Mentions(t) \subseteq CallsOf(Top.name)
  BY <1>1, TopFollows DEF FollowedBy
<1>3. ToSet(Top.stmts) = {s} \cup ToSet(Tail(Top.stmts)) /\ Tail(Top.stmts) \in Seq(Statements)
  BY <1>1, <1>2, HeadAndTail, TailFacts DEF Frame
<1>4. s \in Code(Top.name) /\ s \in Statements
  BY <1>2, <1>3 DEF Follows
<1>5. CASE AssertionFails \in ToSet(fs)
  <2>1. Uncallable(Top.name)
    BY <1>4, <1>5, SearchAssumption DEF Uncallable
  <2>2. status' = "crash"
    BY <1>5 DEF NextStatement
  <2> QED BY <1>2, <2>1, <2>2
<1>6. CASE AssertionFails \notin ToSet(fs)
  <2>1. status' = "graph" /\ frames' = WithTop(f)
    BY <1>1, <1>6 DEF NextStatement, InFrame
  <2>2. fs \in Seq(Names) /\ ~Unsearchable(s) /\ Mentions(s) = ToSet(fs)
    BY <1>4, <1>6, FuncsAreNames, SearchAssumption
  <2> HIDE DEF fs, s
  <2>3. /\ f \in Frame /\ f.name = Top.name /\ f.stmts = Tail(Top.stmts) /\ f.funcs = fs
        /\ f.local_dedup = Top.local_dedup /\ f.val = Top.val
    BY <1>2, <1>3, <2>2 DEF Frame
  <2> HIDE DEF f
  <2>4. Searched(f) = Top.local_dedup \cup Mentions(s) /\ Searched(Top) = Top.local_dedup
    BY <1>1, <2>2, <2>3 DEF Searched, ToSet
  <2>5. Follows(f, dedup)
    <3>1. \A t \in Code(f.name) :
             t \in ToSet(f.stmts) \/ (~Unsearchable(t) /\ Mentions(t) \subseteq Searched(f))
      <4> TAKE t \in Code(f.name)
      <4>1. t \in ToSet(Top.stmts) \/ (~Unsearchable(t) /\ Mentions(t) \subseteq Searched(Top))
        BY <1>2, <2>3 DEF Follows
      <4> QED BY <1>3, <2>2, <2>3, <2>4, <4>1
    <3>2. Searched(f) \subseteq CallsOf(f.name)
      BY <1>2, <1>4, <2>3, <2>4 DEF Follows
    <3>3. ToSet(f.stmts) \subseteq Code(f.name)
      BY <1>2, <1>3, <2>3 DEF Follows
    <3> QED BY <1>2, <2>3, <3>1, <3>2, <3>3 DEF Follows
  <2>6. FollowedBy(dedup, frames', keys, deps)
    BY <1>1, <1>2, <2>1, <2>3, <2>5, FollowedTop
  <2>7. frames' # <<>>
    <3>1. DOMAIN frames' = DOMAIN frames /\ Len(frames) \in DOMAIN frames
      BY <1>1, <2>1, <2>3, TopFacts
    <3> QED BY <3>1
  <2> QED BY <1>1, <2>1, <2>6, <2>7
<1> QED BY <1>5, <1>6

LEMMA SkipDuplicateFollowed ==
    ASSUME Linked, Typed, Entered, Followed, SkipDuplicate
    PROVE  FollowedBy(dedup', frames', keys', deps') /\ frames' # <<>>
<1> DEFINE f == [Top EXCEPT !.funcs = Tail(@)]
<1>1. /\ InFrame /\ Top.funcs # <<>> /\ Head(Top.funcs) \in Top.local_dedup
      /\ frames' = WithTop(f) /\ UNCHANGED <<dedup, keys, deps>>
  BY DEF SkipDuplicate, graph
<1>2. Top \in Frame /\ Follows(Top, dedup) /\ sortfunc \in dedup
  BY <1>1, TopFollows DEF FollowedBy
<1>3. ToSet(Top.funcs) = {Head(Top.funcs)} \cup ToSet(Tail(Top.funcs)) /\ Tail(Top.funcs) \in Seq(Names)
  BY <1>1, <1>2, HeadAndTail, TailFacts DEF Frame
<1>4. /\ f \in Frame /\ f.name = Top.name /\ f.stmts = Top.stmts /\ f.funcs = Tail(Top.funcs)
      /\ f.local_dedup = Top.local_dedup /\ f.val = Top.val
  BY <1>2, <1>3 DEF Frame
<1> HIDE DEF f
<1>5. Searched(f) = Searched(Top)
  BY <1>1, <1>3, <1>4 DEF Searched
<1>6. Follows(f, dedup)
  BY <1>2, <1>4, <1>5 DEF Follows
<1>7. FollowedBy(dedup, frames', keys, deps)
  BY <1>1, <1>2, <1>4, <1>6, FollowedTop
<1>8. DOMAIN frames' = DOMAIN frames /\ Len(frames) \in DOMAIN frames
  BY <1>1, <1>4, TopFacts
<1> QED BY <1>1, <1>7, <1>8

(* The next function that the innermost frame calls. *)
LEMMA CalleeUnder ==
    ASSUME Linked, Typed, Entered, Followed, InFrame, Top.funcs # <<>>
    PROVE  /\ Head(Top.funcs) \in Names /\ Head(Top.funcs) \in Under({sortfunc})
           /\ Head(Top.funcs) \in CallsOf(Top.name)
<1>1. Top \in Frame /\ Follows(Top, dedup) /\ Top.name \in Under({sortfunc})
  BY TopFollows
<1>2. Head(Top.funcs) \in ToSet(Top.funcs) /\ Head(Top.funcs) \in Names
  BY <1>1, TailFacts DEF Frame
<1>3. Head(Top.funcs) \in CallsOf(Top.name)
  BY <1>1, <1>2 DEF Follows, Searched
<1>4. sortfunc \in Names
  BY DEF Typed
<1> QED BY <1>1, <1>2, <1>3, <1>4, UnderFacts

LEMMA NotedFollows ==
    ASSUME Linked, Typed, Entered, Followed, InFrame, Top.funcs # <<>>,
           Declared(Head(Top.funcs))
    PROVE  /\ Noted(Head(Top.funcs)) \in Frame /\ Noted(Head(Top.funcs)).name = Top.name
           /\ Follows(Noted(Head(Top.funcs)), dedup \cup {Head(Top.funcs)})
<1> DEFINE c == Head(Top.funcs)
           f == Noted(c)
<1>1. Top \in Frame /\ Follows(Top, dedup)
  BY TopFollows
<1>2. /\ ToSet(Top.funcs) = {c} \cup ToSet(Tail(Top.funcs))
      /\ Tail(Top.funcs) \in Seq(Names) /\ c \in Names /\ f \in Frame
  BY <1>1, HeadAndTail, TailFacts, NotedIsFrame DEF Frame
<1>3. /\ f.name = Top.name /\ f.stmts = Top.stmts /\ f.funcs = Tail(Top.funcs)
      /\ f.local_dedup = Top.local_dedup \cup {c}
      /\ f.val = IF externals_getfunc(c).axiom THEN Top.val ELSE Append(Top.val, c)
  BY <1>1 DEF Noted, Frame
<1>4. Axiom(c) <=> externals_getfunc(c).axiom
  BY DEF Axiom
<1>5. Top.val \in Seq(Names)
  BY <1>1 DEF Frame
<1> HIDE DEF f, c
<1>6. Searched(f) = Searched(Top)
  BY <1>2, <1>3 DEF Searched
<1>7. ToSet(f.val) = {d \in f.local_dedup : ~Axiom(d)}
  <2>1. ToSet(Append(Top.val, c)) = ToSet(Top.val) \cup {c}
    BY <1>2, <1>5, AppendFacts
  <2>2. ToSet(Top.val) = {d \in Top.local_dedup : ~Axiom(d)}
    BY <1>1 DEF Follows
  <2> QED BY <1>3, <1>4, <2>1, <2>2
<1>8. Follows(f, dedup \cup {c})
  BY <1>1, <1>3, <1>6, <1>7 DEF Follows
<1> QED BY <1>2, <1>3, <1>8 DEF f, c

(* A function's own frame, before its first statement. *)
LEMMA NewFrameFollows ==
    ASSUME NEW n, Declared(n), ~Axiom(n), ~NoStatements(externals_getfunc(n)), NEW D
    PROVE  /\ NewFrame(n, externals_getfunc(n).body).name = n
           /\ Follows(NewFrame(n, externals_getfunc(n).body), D)
<1> DEFINE f == NewFrame(n, externals_getfunc(n).body)
<1>1. /\ f.name = n /\ f.stmts = externals_getfunc(n).body /\ f.funcs = <<>>
      /\ f.local_dedup = {} /\ f.val = <<>>
  BY DEF NewFrame
<1>2. ToSet(<<>>) = {}
  BY DEF ToSet
<1> HIDE DEF f
<1>3. externals_getfunc(n).body \notin {NONE, <<>>}
  BY DEF NoStatements
<1>4. ToSet(f.stmts) = Code(n)
  BY <1>1, <1>3 DEF Code
<1>5. Searched(f) = {}
  BY <1>1, <1>2 DEF Searched
<1>6. Follows(f, D)
  BY <1>1, <1>2, <1>3, <1>4, <1>5 DEF Follows
<1> QED BY <1>1, <1>6 DEF f

LEMMA CalleeFollowed ==
    ASSUME Linked, Typed, Entered, Followed, Callee
    PROVE  /\ status' = "graph" => FollowedBy(dedup', frames', keys', deps') /\ frames' # <<>>
           /\ status' = "crash" => \E n \in Under({sortfunc}) : Uncallable(n)
<1> DEFINE c == Head(Top.funcs)
           f == externals_getfunc(c)
           D == dedup \cup {c}
<1>1. /\ InFrame /\ Top.funcs # <<>> /\ Declared(c) /\ dedup' = D /\ UNCHANGED <<keys, deps>>
  BY DEF Callee, graph, Declared
<1>2. /\ FollowedBy(dedup, frames, keys, deps) /\ sortfunc \in dedup
      /\ c \in Names /\ c \in Under({sortfunc})
      /\ Noted(c) \in Frame /\ Noted(c).name = Top.name /\ Follows(Noted(c), D)
  BY <1>1, TopFollows, CalleeUnder, NotedFollows DEF FollowedBy
<1>3. Axiom(c) <=> f.axiom
  BY <1>1 DEF Axiom
<1>4. DOMAIN WithTop(Noted(c)) = DOMAIN frames /\ Len(frames) \in DOMAIN frames
      /\ WithTop(Noted(c)) \in Seq(Frame)
  BY <1>1, <1>2, TopFacts
<1>5. CASE c \in dedup \/ f.axiom
  <2>1. status' = status /\ frames' = WithTop(Noted(c))
    BY <1>5 DEF Callee
  <2>2. \A n \in D \ dedup : Declared(n) /\ n \in Under({sortfunc}) /\ Axiom(n)
    BY <1>1, <1>2, <1>3, <1>5
  <2> HIDE DEF c, f, D
  <2>3. dedup \subseteq D
    BY DEF D
  <2>4. FollowedBy(D, WithTop(Noted(c)), keys, deps)
    BY <1>1, <1>2, <2>2, <2>3, FollowedTop
  <2>5. frames' # <<>> /\ status' # "crash"
    BY <1>1, <1>4, <2>1 DEF InFrame
  <2> QED BY <1>1, <2>1, <2>4, <2>5
<1>6. CASE c \notin dedup /\ ~f.axiom /\ NoStatements(f)
  <2>1. Uncallable(c)
    BY <1>3, <1>6 DEF Uncallable, NoStatements
  <2>2. status' = "crash"
    BY <1>6 DEF Callee
  <2> QED BY <1>2, <2>1, <2>2
<1>7. CASE c \notin dedup /\ ~f.axiom /\ ~NoStatements(f)
  <2> DEFINE g  == NewFrame(c, f.body)
             fs == WithTop(Noted(c))
  <2>1. status' = status /\ frames' = Append(fs, g)
    BY <1>7 DEF Callee
  <2>2. g.name = c /\ Follows(g, D)
    BY <1>1, <1>3, <1>7, NewFrameFollows
  <2>3. /\ DOMAIN fs = DOMAIN frames /\ Len(frames) \in DOMAIN frames
        /\ fs[Len(frames)] = Noted(c)
        /\ \A k \in DOMAIN frames : k # Len(frames) => fs[k] = frames[k]
    BY <1>1, <1>2, TopFacts
  <2>4. g \in Frame
    BY <1>1, <1>2, <1>7, DeclaredBody, NewFrameIsFrame DEF Declared
  <2> HIDE DEF c, f, g, fs, D
  <2>5. /\ DOMAIN frames' = DOMAIN fs \cup {Len(fs) + 1}
        /\ frames'[Len(fs) + 1] = g /\ \A k \in DOMAIN fs : frames'[k] = fs[k]
        /\ frames' # <<>>
    BY <1>4, <2>1, <2>4, AppendFacts DEF fs
  <2>6. \A k \in DOMAIN frames : fs[k].name = frames[k].name
    BY <1>2, <2>3 DEF Top
  <2>7. \A n \in D :
           /\ Declared(n) /\ n \in Under({sortfunc})
           /\ Axiom(n) \/ n \in ToSet(keys) \/ \E k \in DOMAIN frames' : frames'[k].name = n
    <3> TAKE n \in D
    <3>1. CASE n = c
      BY <1>1, <1>2, <2>2, <2>5, <3>1
    <3>2. CASE n \in dedup
      <4>1. /\ Declared(n) /\ n \in Under({sortfunc})
            /\ Axiom(n) \/ n \in ToSet(keys) \/ \E k \in DOMAIN frames : frames[k].name = n
        BY <1>2, <3>2 DEF FollowedBy
      <4>2. \A k \in DOMAIN frames : k \in DOMAIN frames' /\ frames'[k].name = frames[k].name
        BY <2>3, <2>5, <2>6
      <4> QED BY <4>1, <4>2
    <3> QED BY <3>1, <3>2 DEF D
  <2>8. dedup \subseteq D
    BY DEF D
  <2>9. \A k \in DOMAIN frames' : Follows(frames'[k], D)
    <3>1. \A k \in DOMAIN frames : Follows(fs[k], D)
      BY <1>2, <2>3, <2>8, FollowsMore DEF FollowedBy
    <3> QED BY <2>2, <2>3, <2>5, <3>1
  <2>10. \A n \in ToSet(keys) : Complete(n, deps[n], D)
    BY <1>2, <2>8, FollowsMore DEF FollowedBy
  <2>11. FollowedBy(D, frames', keys, deps)
    BY <1>2, <2>7, <2>8, <2>9, <2>10 DEF FollowedBy
  <2> QED BY <1>1, <2>1, <2>5, <2>11 DEF InFrame
<1> QED BY <1>5, <1>6, <1>7

LEMMA CalleeUndeclaredFollowed ==
    ASSUME Linked, Typed, Entered, Followed, CalleeUndeclared
    PROVE  status' = "crash" /\ \E n \in Under({sortfunc}) : Uncallable(n)
<1>1. InFrame /\ Top.funcs # <<>> /\ ~Declared(Head(Top.funcs)) /\ status' = "crash"
  BY DEF CalleeUndeclared, Declared
<1> QED BY <1>1, CalleeUnder DEF Uncallable

(* A frame ends: all that its function calls has been noted. *)
LEMMA FrameComplete ==
    ASSUME NEW f, NEW D, Follows(f, D), f.stmts = <<>>, f.funcs = <<>>
    PROVE  Complete(f.name, f.val, D)
<1>1. ToSet(<<>>) = {}
  BY DEF ToSet
<1>2. \A s \in Code(f.name) : ~Unsearchable(s) /\ Mentions(s) \subseteq f.local_dedup
  BY <1>1 DEF Follows, Searched
<1>3. CallsOf(f.name) = f.local_dedup
  BY <1>1, <1>2 DEF CallsOf, Follows, Searched
<1>4. ~Uncallable(f.name)
  BY <1>2 DEF Follows, Uncallable
<1> QED BY <1>3, <1>4 DEF Follows, Complete

LEMMA ReturnFollowed ==
    ASSUME Linked, Typed, Entered, Followed, Return
    PROVE  /\ FollowedBy(dedup', frames', keys', deps') /\ dedup' # {}
           /\ \/ status' = "indegrees" /\ frames' = <<>>
              \/ status' = "graph" /\ frames' # <<>>
<1>1. /\ InFrame /\ Top.funcs = <<>> /\ Top.stmts = <<>> /\ dedup' = dedup
      /\ keys' = Append(keys, Top.name) /\ deps' = [deps EXCEPT ![Top.name] = Top.val]
      /\ frames' = SubSeq(frames, 1, Len(frames) - 1)
  BY DEF Return
<1>2. /\ Top \in Frame /\ FollowedBy(dedup, frames, keys, deps) /\ Follows(Top, dedup)
      /\ Top.name \in dedup /\ Top.name \notin ToSet(keys)
  BY <1>1, TopFollows
<1>3. frames \in Seq(Frame) /\ Len(frames) \in Nat \ {0} /\ DOMAIN frames = 1 .. Len(frames)
  BY <1>1, TopFacts DEF Typed
<1>4. /\ Len(frames') = Len(frames) - 1 /\ DOMAIN frames' = 1 .. Len(frames) - 1
      /\ \A k \in 1 .. Len(frames) - 1 : frames'[k] = frames[k]
  BY <1>1, <1>3
<1>5. ToSet(keys') = ToSet(keys) \cup {Top.name}
  BY <1>1, <1>2, AppendFacts DEF Typed, Frame
<1>6. /\ deps'[Top.name] = Top.val
      /\ \A n \in ToSet(keys) : deps'[n] = deps[n]
  <2>1. Top.name \in Names /\ ToSet(keys) \subseteq Names /\ deps \in [Names -> Seq(Names)]
    BY <1>2, KeysAreNames DEF Typed, Frame
  <2> QED BY <1>1, <1>2, <2>1
<1>7. \A n \in dedup :
         /\ Declared(n) /\ n \in Under({sortfunc})
         /\ Axiom(n) \/ n \in ToSet(keys') \/ \E k \in DOMAIN frames' : frames'[k].name = n
  <2> TAKE n \in dedup
  <2>1. /\ Declared(n) /\ n \in Under({sortfunc})
        /\ Axiom(n) \/ n \in ToSet(keys) \/ \E k \in DOMAIN frames : frames[k].name = n
    BY <1>2 DEF FollowedBy
  <2>2. ASSUME NEW k \in DOMAIN frames, frames[k].name = n
        PROVE  n \in ToSet(keys') \/ \E j \in DOMAIN frames' : frames'[j].name = n
    <3>1. CASE k = Len(frames)
      BY <1>5, <2>2, <3>1 DEF Top
    <3>2. CASE k # Len(frames)
      <4>1. k \in 1 .. Len(frames) - 1
        BY <1>3, <3>2
      <4> QED BY <1>4, <2>2, <4>1
    <3> QED BY <3>1, <3>2
  <2> QED BY <1>5, <2>1, <2>2
<1>8. \A k \in DOMAIN frames' : Follows(frames'[k], dedup)
  BY <1>2, <1>3, <1>4 DEF FollowedBy
<1>9. \A n \in ToSet(keys') : Complete(n, deps'[n], dedup)
  <2>1. Complete(Top.name, Top.val, dedup)
    BY <1>1, <1>2, FrameComplete
  <2> QED BY <1>2, <1>5, <1>6, <2>1 DEF FollowedBy
<1>10. FollowedBy(dedup', frames', keys', deps')
  BY <1>1, <1>2, <1>7, <1>8, <1>9 DEF FollowedBy
<1>11. dedup' # {}
  BY <1>1, <1>2
<1>12. CASE Len(frames) = 1
  <2>1. status' = "indegrees"
    BY <1>12 DEF Return
  <2>2. Len(frames') = 0 /\ frames' \in Seq(Frame)
    <3>1. Len(frames') = 0
      BY <1>4, <1>12
    <3>2. frames' \in Seq(Frame)
      BY <1>1, <1>3
    <3> QED BY <3>1, <3>2
  <2>3. frames' = <<>>
    BY <2>2, EmptySeq
  <2> QED BY <1>10, <1>11, <2>1, <2>3
<1>13. CASE Len(frames) # 1
  <2>1. status' = "graph"
    BY <1>1, <1>13 DEF Return, InFrame
  <2>2. 1 \in DOMAIN frames'
    BY <1>3, <1>4, <1>13
  <2> QED BY <1>10, <1>11, <2>1, <2>2
<1> QED BY <1>12, <1>13

LEMMA BuildgraphFollowed ==
    ASSUME Linked, Typed, Entered, ast_function_buildgraph
    PROVE  /\ status' \in {"graph", "indegrees"} => FollowedBy(dedup', frames', keys', deps')
           /\ status' = "graph" => frames' # <<>>
           /\ status' = "indegrees" => frames' = <<>> /\ dedup' # {}
           /\ status' = "crash" => \E n \in Under({sortfunc}) : Uncallable(n)
<1> DEFINE f == externals_getfunc(sortfunc)
<1>1. /\ status = "graph" /\ dedup = {} /\ dedup' = {sortfunc} /\ UNCHANGED <<keys, deps>>
      /\ ToSet(keys) = {} /\ DOMAIN frames = {}
  BY DEF ast_function_buildgraph, graph, Entered
<1>2. sortfunc \in Under({sortfunc}) /\ sortfunc \in Names
  BY UnderFacts DEF Typed
<1>3. frames = <<>>
  BY <1>1, EmptySeq DEF Typed
<1>4. CASE f = NONE
  <2>1. status' = "undeclared"
    BY <1>4, LinkingAssumption DEF ast_function_buildgraph
  <2> QED BY <2>1
<1>5. CASE f # NONE /\ f.axiom
  <2>1. status' = "indegrees" /\ UNCHANGED frames
    BY <1>5 DEF ast_function_buildgraph
  <2>2. Declared(sortfunc) /\ Axiom(sortfunc)
    BY <1>5 DEF Declared, Axiom
  <2>3. FollowedBy({sortfunc}, frames, keys, deps)
    BY <1>1, <1>2, <2>2 DEF FollowedBy
  <2> QED BY <1>1, <1>3, <2>1, <2>3
<1>6. CASE f # NONE /\ ~f.axiom /\ NoStatements(f)
  <2>1. status' = "crash" /\ Uncallable(sortfunc)
    BY <1>6 DEF ast_function_buildgraph, Uncallable, Axiom, NoStatements
  <2> QED BY <1>2, <2>1
<1>7. CASE f # NONE /\ ~f.axiom /\ ~NoStatements(f)
  <2> DEFINE g == NewFrame(sortfunc, f.body)
  <2>1. frames' = <<g>> /\ UNCHANGED status
    BY <1>7 DEF ast_function_buildgraph
  <2>2. DOMAIN frames' = {1} /\ frames'[1] = g
    BY <2>1
  <2>3. Declared(sortfunc) /\ ~Axiom(sortfunc)
    BY <1>7 DEF Declared, Axiom
  <2>4. g.name = sortfunc /\ Follows(g, {sortfunc})
    BY <1>7, <2>3, NewFrameFollows
  <2> HIDE DEF g
  <2>5. FollowedBy({sortfunc}, frames', keys, deps)
    BY <1>1, <1>2, <2>2, <2>3, <2>4 DEF FollowedBy
  <2>6. frames' # <<>>
    BY <2>2
  <2> QED BY <1>1, <2>1, <2>5, <2>6
<1> QED BY <1>4, <1>5, <1>6, <1>7

-----------------------------------------------------------------------------
(* What the other steps leave alone *)

(* The phases, and what they have to do with the mode. *)
LEMMA ModesStep ==
    ASSUME Modes, [Next]_vars
    PROVE  Modes'
<1>1. CASE pass0 /\ UNCHANGED mode
  <2>1. status = "pass0" /\ status' \in {"pass0", "missing", "multiple", "mismatch"}
    BY <1>1, VerifyprotoResult
    DEF pass0, InstallPlain, InstallProto, RejectProto, InstallDefinition, Installed
  <2> QED BY <1>1, <2>1 DEF Modes
<1>2. CASE (Pass0Ends \/ pass1 \/ Ordered \/ pass_inorder \/ verify_ends) /\ UNCHANGED mode
  BY <1>2 DEF Pass0Ends, pass1, Ordered, OrderIsComplete, pass_inorder, verify_ends, Verify, Modes
<1>3. CASE topological_order /\ UNCHANGED mode
  <2>1. status \in Loops \cup {"graph"} /\ status' \notin {"strip", "pass0", "pass1", "inorder"}
    BY <1>3
    DEF topological_order, ast_function_buildgraph, recurse_buildgraph, NextStatement, InFrame,
        SkipDuplicate, CalleeUndeclared, Callee, Return, LoopEnds, InitIndegree, InitDependency,
        CountIndegree, build_indegree_zero, Dequeue, Scan, ScanEnds, CycleDetected, Loops
  <2> QED BY <1>3, <2>1 DEF Modes, Loops
<1>4. CASE UNCHANGED <<status, mode>>
  BY <1>4 DEF Modes
<1> QED BY <1>1, <1>2, <1>3, <1>4 DEF Next, verify, Exited, vars, linking_vars

(* Every step builds the graph, works on one that is built, or comes       *)
(* before.                                                                 *)
LEMMA GraphCases ==
    ASSUME Modes, [Next]_vars
    PROVE  \/ Building \/ CalleeUndeclared
           \/ /\ UNCHANGED <<dedup, frames, graph>>
              /\ status' \notin {"graph", "crash"} \/ status' = status \/ (status = "pass0" /\ status' = "graph")
              /\ HasGraph' => HasGraph
              /\ status' \in {"strip", "pass0", "pass1"} => status \in {"strip", "pass0", "pass1"}
<1>0. mode' = mode
  BY DEF Next, Exited, vars
<1>1. CASE pass0 /\ UNCHANGED graph_vars
  <2>1. status = "pass0" /\ status' \in {"pass0", "missing", "multiple", "mismatch"}
    BY <1>1, VerifyprotoResult
    DEF pass0, InstallPlain, InstallProto, RejectProto, InstallDefinition, Installed
  <2> QED BY <1>1, <2>1 DEF HasGraph, graph_vars, Loops
<1>2. CASE Pass0Ends \/ pass1 \/ Ordered \/ pass_inorder \/ verify_ends
  BY <1>0, <1>2
  DEF Pass0Ends, pass1, Ordered, OrderIsComplete, pass_inorder, verify_ends, Verify, Modes, HasGraph,
      graph_vars, Loops
<1>3. CASE \/ LoopEnds("indegrees", Len(keys), "count") \/ InitIndegree \/ InitDependency
           \/ LoopEnds("count", Len(ikeys), "zero") \/ CountIndegree
           \/ LoopEnds("zero", Len(ikeys), "order") \/ build_indegree_zero
           \/ Dequeue \/ Scan \/ ScanEnds \/ CycleDetected
  BY <1>3
  DEF LoopEnds, InitIndegree, InitDependency, CountIndegree, build_indegree_zero, Dequeue, Scan,
      ScanEnds, CycleDetected, graph_vars, HasGraph, Loops
<1>4. CASE UNCHANGED <<status, mode, graph_vars>>
  BY <1>4 DEF HasGraph, graph_vars
<1> QED
  BY <1>1, <1>2, <1>3, <1>4
  DEF Next, verify, topological_order, recurse_buildgraph, Building, Exited, vars, linking_vars

LEMMA SortfuncKept ==
    ASSUME [Next]_vars
    PROVE  UNCHANGED sortfunc
<1>1. CASE topological_order
  BY <1>1
  DEF topological_order, ast_function_buildgraph, recurse_buildgraph, NextStatement,
      SkipDuplicate, CalleeUndeclared, Callee, Return, LoopEnds, InitIndegree, InitDependency,
      CountIndegree, build_indegree_zero, Dequeue, Scan, ScanEnds, CycleDetected, graph_vars
<1>2. CASE Pass0Ends \/ pass1 \/ Ordered \/ pass_inorder \/ verify_ends \/ UNCHANGED graph_vars
  BY <1>2 DEF Pass0Ends, pass1, Ordered, pass_inorder, verify_ends, graph_vars
<1> QED BY <1>1, <1>2 DEF Next, verify, Exited, vars

LEMMA FreshStep ==
    ASSUME Modes, Fresh, [Next]_vars
    PROVE  Fresh'
<1>1. status' \in {"strip", "pass0", "pass1"} => dedup' = {} /\ frames' = <<>> /\ keys' = <<>>
  <2>1. CASE Building
    BY <2>1, BuildingFacts
  <2>2. CASE CalleeUndeclared
    BY <2>2 DEF CalleeUndeclared
  <2> QED BY <2>1, <2>2, GraphCases DEF Fresh, graph
<1>2. status' \in Early => ikeys' = <<>>
  <2>1. CASE Quiet
    BY <2>1 DEF Quiet, Fresh, Early, Loops, graph_vars, degrees
  <2>2. CASE Building
    BY <2>2, BuildingFacts DEF Fresh, Early, degrees
  <2>3. ~Quiet /\ ~Building => status' \in Loops
    BY StepCases
    DEF Building, LoopEnds, InitIndegree, InitDependency, CountIndegree, build_indegree_zero,
        Dequeue, Scan, ScanEnds, Loops
  <2> QED BY <2>1, <2>2, <2>3 DEF Early, Loops
<1> QED BY <1>1, <1>2 DEF Fresh

LEMMA Pass0Keeps ==
    ASSUME [Next]_vars, pass0
    PROVE  UNCHANGED <<graph_vars, mode, qed>>
<1>1. status = "pass0"
  BY DEF pass0, InstallPlain, InstallProto, RejectProto, InstallDefinition
<1> QED
  BY <1>1
  DEF Next, verify, Pass0Ends, pass1, Ordered, OrderIsComplete, pass_inorder, verify_ends,
      topological_order, ast_function_buildgraph, recurse_buildgraph, InFrame, NextStatement,
      SkipDuplicate, CalleeUndeclared, Callee, Return, LoopEnds, InitIndegree, InitDependency,
      CountIndegree, build_indegree_zero, Dequeue, Scan, ScanEnds, CycleDetected,
      strip, Exited, Ended, vars

LEMMA FollowedStep ==
    ASSUME Linked, Typed, Entered, Modes, Fresh, Followed, Crashed, [Next]_vars
    PROVE  Followed' /\ Crashed'
<1>1. CASE pass0 /\ UNCHANGED <<graph_vars, mode>>
  <2>1. status' \in {"pass0", "missing", "multiple", "mismatch"}
    BY <1>1, VerifyprotoResult
    DEF pass0, InstallPlain, InstallProto, RejectProto, InstallDefinition, Installed
  <2> QED BY <2>1 DEF Followed, Crashed, HasGraph, Loops
<1>2. CASE UNCHANGED <<root, ext>>
  <2>0. UNCHANGED <<ext, sortfunc>>
    BY <1>2, SortfuncKept
  <2>1. ASSUME /\ status' = "graph" \/ HasGraph' => FollowedBy(dedup', frames', keys', deps')
               /\ status' = "graph" /\ dedup' # {} => frames' # <<>>
               /\ HasGraph' => dedup' # {} /\ frames' = <<>>
               /\ status' = "crash" => \E n \in Under({sortfunc}) : Uncallable(n)
        PROVE  Followed' /\ Crashed'
    BY <2>0, <2>1, SameDeclarations DEF Followed
  <2>2. CASE ast_function_buildgraph
    <3>1. status' \in {"graph", "undeclared", "crash", "indegrees"}
      BY <2>2, BuildingFacts DEF Building
    <3> QED BY <2>1, <2>2, <3>1, BuildgraphFollowed DEF HasGraph, Loops
  <2>3. CASE NextStatement \/ Callee
    <3>1. status' \in {"graph", "crash"}
      BY <2>3 DEF NextStatement, Callee, InFrame
    <3> QED BY <2>1, <2>3, <3>1, NextStatementFollowed, CalleeFollowed DEF HasGraph, Loops
  <2>4. CASE SkipDuplicate
    <3>1. status' = "graph"
      BY <2>4 DEF SkipDuplicate, InFrame
    <3> QED BY <2>1, <2>4, <3>1, SkipDuplicateFollowed DEF HasGraph, Loops
  <2>5. CASE Return
    BY <2>1, <2>5, ReturnFollowed DEF HasGraph, Loops
  <2>6. CASE CalleeUndeclared
    <3>1. status' = "crash" /\ \E n \in Under({sortfunc}) : Uncallable(n)
      BY <2>6, CalleeUndeclaredFollowed
    <3> QED BY <2>1, <3>1 DEF HasGraph, Loops
  <2>7. CASE /\ UNCHANGED <<dedup, frames, graph>>
             /\ status' \notin {"graph", "crash"} \/ status' = status \/ (status = "pass0" /\ status' = "graph")
             /\ HasGraph' => HasGraph
    <3>1. UNCHANGED <<dedup, frames, keys, deps>>
      BY <2>7 DEF graph
    <3>2. CASE status = "pass0"
      <4>1. dedup = {} /\ frames = <<>> /\ keys = <<>> /\ DOMAIN frames = {} /\ ToSet(keys) = {}
        BY <3>2 DEF Fresh, ToSet
      <4>2. FollowedBy(dedup, frames, keys, deps)
        BY <4>1 DEF FollowedBy
      <4>3. ~HasGraph' /\ status' # "crash"
        BY <2>7, <3>2 DEF HasGraph, Loops
      <4> QED BY <2>1, <2>7, <3>1, <4>1, <4>2, <4>3
    <3>3. CASE status # "pass0"
      BY <2>1, <2>7, <3>1, <3>3 DEF Followed, Crashed
    <3> QED BY <3>2, <3>3
  <2> QED BY <2>2, <2>3, <2>4, <2>5, <2>6, <2>7, GraphCases DEF Building
<1> QED
  BY <1>1, <1>2, DeclarationsKept, Pass0Keeps

-----------------------------------------------------------------------------
(* The graph that was built *)

LEMMA GraphClosed ==
    ASSUME Linked, Typed, Entered, Followed, HasGraph
    PROVE  /\ dedup = Under({sortfunc}) /\ ToSet(keys) = ToSort
           /\ \A n \in dedup : ~Uncallable(n) /\ CallsOf(n) \subseteq dedup
           /\ \A n \in ToSort : ToSet(deps[n]) = CallsOf(n) \cap ToSort
<1>1. /\ FollowedBy(dedup, frames, keys, deps) /\ DOMAIN frames = {}
      /\ sortfunc \in dedup /\ sortfunc \in Names /\ dedup \subseteq Names
  <2>1. FollowedBy(dedup, frames, keys, deps) /\ dedup # {} /\ frames = <<>>
    BY DEF Followed
  <2>2. DOMAIN <<>> = {}
    OBVIOUS
  <2>3. sortfunc \in dedup
    BY <2>1 DEF FollowedBy
  <2>4. sortfunc \in Names /\ dedup \subseteq Names
    BY DEF Typed
  <2> QED BY <2>1, <2>2, <2>3, <2>4
<1>2. \A n \in dedup : Declared(n) /\ n \in Under({sortfunc}) /\ (Axiom(n) \/ n \in ToSet(keys))
  BY <1>1 DEF FollowedBy
<1>3. \A n \in ToSet(keys) : Complete(n, deps[n], dedup)
  BY <1>1 DEF FollowedBy
<1>4. ASSUME NEW n \in dedup
      PROVE  ~Uncallable(n) /\ CallsOf(n) \subseteq dedup
  <2>1. CASE Axiom(n)
    <3>1. Code(n) = {}
      BY <2>1 DEF Code
    <3>2. CallsOf(n) = {}
      BY <3>1 DEF CallsOf
    <3> QED BY <1>2, <2>1, <3>1, <3>2 DEF Uncallable
  <2>2. CASE n \in ToSet(keys)
    BY <1>3, <2>2 DEF Complete
  <2> QED BY <1>2, <2>1, <2>2
<1>5. dedup = Under({sortfunc})
  <2>1. dedup \subseteq Under({sortfunc})
    BY <1>2
  <2>2. {sortfunc} \subseteq dedup /\ dedup \in SUBSET Names
    BY <1>1
  <2>3. Under({sortfunc}) \subseteq dedup
    BY ONLY <1>4, <2>2, UnderLeast
  <2> QED BY <2>1, <2>3
<1>6. ToSet(keys) = ToSort
  BY <1>2, <1>3, <1>5 DEF Entered, ToSort, Complete
<1>7. ASSUME NEW n \in ToSort
      PROVE  ToSet(deps[n]) = CallsOf(n) \cap ToSort
  <2>1. Complete(n, deps[n], dedup)
    BY <1>3, <1>6
  <2> QED BY <1>5, <2>1 DEF Complete, ToSort
<1> QED BY <1>4, <1>5, <1>6, <1>7

(* A function that waits for others in a finite set in which all do calls  *)
(* itself, or one of them does, over others.                               *)
LEMMA CycleExists ==
    ASSUME NEW W \in SUBSET Names, IsFiniteSet(W), W # {},
           \A n \in W : \E m \in W : m \in CallsOf(n)
    PROVE  \E n \in W : n \in Under(CallsOf(n))
<1> SUFFICES ASSUME \A n \in W : n \notin Under(CallsOf(n)) PROVE FALSE
  OBVIOUS
<1> DEFINE R(n) == Under(CallsOf(n)) \cap W
           T    == {R(n) : n \in W}
<1>1. \A n, m \in W : m \in CallsOf(n) => m \in Under(CallsOf(n)) /\ R(m) \subseteq R(n)
  BY DEF Under
<1>2. T # {} /\ T \subseteq FiniteSubsetsOf(W)
  <2>1. \A n \in W : R(n) \subseteq W /\ IsFiniteSet(R(n))
    BY FS_Subset
  <2> QED BY <2>1 DEF FiniteSubsetsOf
<1>3. PICK r \in T : \A q \in T : <<q, r>> \notin StrictSubsetOrdering(W)
  <2> HIDE DEF T
  <2> QED BY <1>2, FS_StrictSubsetOrderingWellFounded, WFMin
<1>4. PICK n \in W : r = R(n)
  BY <1>3
<1>5. PICK m \in W : m \in CallsOf(n)
  OBVIOUS
<1>6. R(m) \subseteq R(n) /\ m \in R(n) /\ m \notin R(m)
  BY <1>1, <1>5
<1>7. R(m) \in T /\ R(m) \in SUBSET W /\ R(n) \in SUBSET W
  OBVIOUS
<1> HIDE DEF R, T
<1>8. <<R(m), R(n)>> \in StrictSubsetOrdering(W)
  BY <1>6, <1>7 DEF StrictSubsetOrdering
<1> QED BY <1>3, <1>4, <1>7, <1>8

LEMMA InjectiveCount ==
    ASSUME NEW S, NEW s \in Seq(S), Injective(s)
    PROVE  IsFiniteSet(ToSet(s)) /\ Cardinality(ToSet(s)) = Len(s)
<1>1. IsFiniteSet(DOMAIN s) /\ Cardinality(DOMAIN s) = Len(s)
  BY IndicesCounted
<1> DEFINE f == [k \in DOMAIN s |-> s[k]]
<1>2. f \in Bijection(DOMAIN s, ToSet(s))
  BY DEF Bijection, Injection, Surjection, IsInjective, ToSet, Injective
<1>3. ExistsBijection(DOMAIN s, ToSet(s))
  BY <1>2 DEF ExistsBijection
<1> QED BY <1>1, <1>3, FS_Bijection

(* All functions of the graph are in ikeys.                                *)
LEMMA OrderedAll ==
    ASSUME Typed, Collected, Sorted, status = "order",
           ToSet(ikeys) \cup ToSet(order) \subseteq ToSet(keys)
    PROVE  (Len(order) = Len(ikeys)) <=> (ToSet(order) = ToSet(keys))
<1>1. ToSet(ikeys) = ToSet(keys) /\ ToSet(order) \subseteq ToSet(ikeys)
  BY DEF Collected
<1>2. /\ IsFiniteSet(ToSet(ikeys)) /\ Cardinality(ToSet(ikeys)) = Len(ikeys)
      /\ IsFiniteSet(ToSet(order)) /\ Cardinality(ToSet(order)) = Len(order)
  BY InjectiveCount DEF Typed, Collected, Sorted
<1>3. Len(order) = Len(ikeys) => ToSet(order) = ToSet(ikeys)
  BY <1>1, <1>2, FS_Subset
<1> QED BY <1>1, <1>2, <1>3

-----------------------------------------------------------------------------
(* The sort *)

(* A function is appended to one of the sequences of the sort. *)
LEMMA QueuesAppend ==
    ASSUME Typed, NEW n \in Names
    PROVE  /\ ToSet(Append(ikeys, n)) = ToSet(ikeys) \cup {n}
           /\ ToSet(Append(zero, n)) = ToSet(zero) \cup {n}
           /\ ToSet(Append(order, n)) = ToSet(order) \cup {n}
BY AppendFacts DEF Typed

LEMMA RankedStep ==
    ASSUME IInv, Modes, Fresh, Followed, Ranked, [Next]_vars
    PROVE  Ranked'
<1> USE DEF IInv
<1>1. CASE Building
  <2>1. status = "graph" /\ UNCHANGED <<ikeys, zero, order>>
        /\ (HasGraph' => status' \notin {"inorder", "done", "unproved"})
    BY <1>1, BuildingFacts DEF degrees, queue
  <2>2. ikeys = <<>> /\ zero = <<>> /\ order = <<>> /\ ToSet(<<>>) = {}
    BY <2>1 DEF Fresh, Queued, Early, ToSet
  <2> QED BY <2>1, <2>2 DEF Ranked
<1>2. CASE CalleeUndeclared
  BY <1>2 DEF CalleeUndeclared, Ranked, HasGraph, Loops
<1>3. CASE ~Building /\ ~CalleeUndeclared /\ HasGraph'
  <2>1. HasGraph /\ UNCHANGED <<dedup, frames, keys, deps>>
    BY <1>3, GraphCases DEF graph
  <2>2. ToSet(ikeys) \cup ToSet(zero) \cup ToSet(order) \subseteq ToSet(keys)
    BY <2>1 DEF Ranked
  <2>3. CASE Ordered
    <3>1. status = "order" /\ Len(order) = Len(ikeys) /\ UNCHANGED <<ikeys, zero, order>>
      BY <2>3 DEF Ordered, OrderIsComplete, graph_vars, degrees, queue
    <3>2. ToSet(order) = ToSet(keys)
      BY <2>2, <3>1, OrderedAll
    <3> QED BY <2>1, <2>2, <3>1, <3>2 DEF Ranked
  <2>4. CASE UNCHANGED <<ikeys, zero, order>> /\ ~Ordered
    <3>1. status' \in {"inorder", "done", "unproved"} => status \in {"inorder", "done", "unproved"}
      <4>1. CASE topological_order
        BY <1>3, <4>1
        DEF topological_order, recurse_buildgraph, Building, LoopEnds, InitIndegree,
            InitDependency, CountIndegree, build_indegree_zero, Dequeue, Scan, ScanEnds,
            CycleDetected
      <4>2. CASE Pass0Ends \/ pass1 \/ pass_inorder \/ verify_ends
        BY <2>1, <4>2 DEF Pass0Ends, pass1, pass_inorder, verify_ends, Verify, HasGraph, Loops
      <4>3. CASE pass0
        BY <2>1, <4>3 DEF pass0, InstallPlain, InstallProto, RejectProto, InstallDefinition, HasGraph, Loops
      <4>4. CASE UNCHANGED status
        BY <4>4
      <4> QED
        BY <2>4, <4>1, <4>2, <4>3, <4>4 DEF Next, verify, Exited, vars, linking_vars
    <3> QED BY <2>1, <2>2, <2>4, <3>1 DEF Ranked
  <2>5. CASE InitIndegree \/ InitDependency \/ build_indegree_zero \/ Dequeue \/ Scan
    <3>1. status' = status /\ status \in Loops
      BY <2>5 DEF InitIndegree, InitDependency, build_indegree_zero, Dequeue, Scan, Loops
    <3>2. ASSUME NEW x \in ToSet(ikeys') \cup ToSet(zero') \cup ToSet(order')
          PROVE  x \in ToSet(keys)
      <4>1. CASE InitIndegree
        <5>1. keys[i] \in Names /\ keys[i] \in ToSet(keys)
          BY <4>1, IndexFacts DEF InitIndegree, Typed, ToSet
        <5>2. ToSet(Append(ikeys, keys[i])) = ToSet(ikeys) \cup {keys[i]}
          BY <5>1, QueuesAppend
        <5>3. UNCHANGED <<zero, order>> /\ ikeys' \in {ikeys, Append(ikeys, keys[i])}
          BY <4>1 DEF InitIndegree, queue
        <5> QED BY <2>2, <3>2, <5>1, <5>2, <5>3
      <4>2. CASE InitDependency
        <5> DEFINE d == deps[keys[i]][inner]
        <5>1. i <= Len(keys)
          BY <4>2 DEF InitDependency, Collected
        <5>2. keys[i] \in Names /\ keys[i] \in ToSet(keys)
          BY <5>1, IndexFacts DEF Typed, ToSet
        <5>3. PICK n : n = keys[i]
          OBVIOUS
        <5>4. deps[n] \in Seq(Names) /\ inner \in Nat /\ inner > 0
          BY <4>2, <5>2, <5>3 DEF InitDependency, Typed
        <5>5. UNCHANGED <<zero, order>>
              /\ (ikeys' = ikeys \/ (inner <= Len(deps[n]) /\ ikeys' = Append(ikeys, d)))
          BY <4>2, <5>3 DEF InitDependency, queue
        <5>6. ToSet(deps[n]) \subseteq ToSet(keys)
          BY <2>1, <5>2, <5>3, GraphClosed
        <5>7. inner <= Len(deps[n]) => d \in Names /\ d \in ToSet(keys)
          <6>1. ASSUME inner <= Len(deps[n]) PROVE inner \in DOMAIN deps[n] /\ deps[n][inner] \in Names
            BY <5>4, <6>1
          <6> QED BY <5>3, <5>6, <6>1 DEF ToSet
        <5> HIDE DEF d
        <5>8. d \in Names => ToSet(Append(ikeys, d)) = ToSet(ikeys) \cup {d}
          BY QueuesAppend
        <5> QED BY <2>2, <3>2, <5>5, <5>7, <5>8
      <4>3. CASE build_indegree_zero
        <5>1. ikeys[i] \in Names /\ ikeys[i] \in ToSet(ikeys)
          BY <4>3, IndexFacts DEF build_indegree_zero, Typed, ToSet
        <5>2. ToSet(Append(zero, ikeys[i])) = ToSet(zero) \cup {ikeys[i]}
          BY <5>1, QueuesAppend
        <5>3. UNCHANGED <<ikeys, order>> /\ zero' \in {zero, Append(zero, ikeys[i])}
          BY <4>3 DEF build_indegree_zero, degrees
        <5> QED BY <2>2, <3>2, <5>1, <5>2, <5>3
      <4>4. CASE Dequeue
        <5>1. zero # <<>> /\ zero' = Tail(zero) /\ order' = Append(order, Head(zero)) /\ ikeys' = ikeys
          BY <4>4 DEF Dequeue, degrees
        <5>2. Head(zero) \in Names /\ Head(zero) \in ToSet(zero) /\ ToSet(Tail(zero)) \subseteq ToSet(zero)
          BY <5>1, TailFacts DEF Typed
        <5>3. ToSet(Append(order, Head(zero))) = ToSet(order) \cup {Head(zero)}
          BY <5>2, QueuesAppend
        <5> QED BY <2>2, <3>2, <5>1, <5>2, <5>3
      <4>5. CASE Scan
        <5>1. keys[i] \in Names /\ keys[i] \in ToSet(keys)
          BY <4>5, IndexFacts DEF Scan, Typed, ToSet
        <5>2. ToSet(Append(zero, keys[i])) = ToSet(zero) \cup {keys[i]}
          BY <5>1, QueuesAppend
        <5>3. UNCHANGED <<ikeys, order>> /\ zero' \in {zero, Append(zero, keys[i])}
          BY <4>5 DEF Scan
        <5> QED BY <2>2, <3>2, <5>1, <5>2, <5>3
      <4> QED BY <2>5, <4>1, <4>2, <4>3, <4>4, <4>5
    <3> QED BY <2>1, <3>1, <3>2 DEF Ranked, Loops
  <2>6. \/ Ordered \/ UNCHANGED <<ikeys, zero, order>>
        \/ InitIndegree \/ InitDependency \/ build_indegree_zero \/ Dequeue \/ Scan
    <3>1. CASE Quiet
      BY <3>1 DEF Quiet, graph_vars, degrees, queue
    <3>2. CASE \/ LoopEnds("indegrees", Len(keys), "count") \/ LoopEnds("count", Len(ikeys), "zero")
               \/ LoopEnds("zero", Len(ikeys), "order") \/ CountIndegree \/ ScanEnds
      BY <3>2 DEF LoopEnds, CountIndegree, ScanEnds, graph_vars, degrees, queue
    <3> QED BY <1>3, <3>1, <3>2, StepCases DEF Building
  <2> QED BY <2>3, <2>4, <2>5, <2>6
<1> QED BY <1>1, <1>2, <1>3 DEF Ranked

LEMMA StuckStep ==
    ASSUME IInv, Modes, Followed, Ranked, Stuck, [Next]_vars
    PROVE  Stuck'
<1> USE DEF IInv
<1>1. CASE Quiet
  <2>1. CASE UNCHANGED <<status, i>>
    <3>1. UNCHANGED <<status, i, keys, ikeys, count, zero, order>>
      BY <1>1, <2>1 DEF Quiet, graph_vars, graph, degrees, queue
    <3> QED BY <3>1 DEF Stuck
  <2>2. CASE status' \notin Loops
    BY <2>2 DEF Stuck, Loops
  <2> QED BY <1>1, <2>1, <2>2 DEF Quiet, Early, Loops
<1>2. CASE Building
  BY <1>2, BuildingFacts DEF Stuck
<1>3. CASE \/ LoopEnds("indegrees", Len(keys), "count") \/ InitIndegree \/ InitDependency
           \/ CountIndegree
  <2>1. status' \notin {"zero", "order"}
    BY <1>3 DEF LoopEnds, InitIndegree, InitDependency, CountIndegree
  <2> QED BY <2>1 DEF Stuck
<1>4. CASE LoopEnds("count", Len(ikeys), "zero")
  <2>1. status' = "zero" /\ i' = 1 /\ UNCHANGED ikeys
    BY <1>4 DEF LoopEnds, graph_vars, degrees
  <2>2. \A j \in DOMAIN ikeys : ~(j < 1)
    BY DEF Typed
  <2> QED BY <2>1, <2>2 DEF Stuck
<1>5. CASE LoopEnds("zero", Len(ikeys), "order")
  <2>1. status = "zero" /\ status' = "order" /\ i > Len(ikeys)
        /\ UNCHANGED <<keys, ikeys, count, zero, order>>
    BY <1>5 DEF LoopEnds, graph_vars, graph, degrees, queue
  <2>2. \A j \in DOMAIN ikeys : j < i
    BY <2>1 DEF Typed, Linked
  <2>3. ASSUME NEW n \in ToSet(keys), count[n] = 0 PROVE n \in ToSet(zero)
    <3>1. PICK j \in DOMAIN ikeys : ikeys[j] = n
      BY <2>1 DEF Collected, ToSet
    <3> QED BY <2>1, <2>2, <2>3, <3>1 DEF Stuck
  <2> QED BY <2>1, <2>3 DEF Stuck
<1>6. CASE build_indegree_zero
  <2>1. /\ status = "zero" /\ status' = "zero" /\ i <= Len(ikeys) /\ i' = i + 1
        /\ UNCHANGED <<ikeys, count>>
        /\ zero' = IF count[ikeys[i]] = 0 THEN Append(zero, ikeys[i]) ELSE zero
    BY <1>6 DEF build_indegree_zero, degrees
  <2>2. /\ ikeys[i] \in Names
        /\ \A j \in DOMAIN ikeys : j < i + 1 <=> j < i \/ j = i
    BY <2>1, IndexFacts DEF Typed
  <2>3. ToSet(Append(zero, ikeys[i])) = ToSet(zero) \cup {ikeys[i]}
    BY <2>2, QueuesAppend
  <2>4. \A j \in DOMAIN ikeys : j < i + 1 /\ count[ikeys[j]] = 0 => ikeys[j] \in ToSet(zero')
    BY <2>1, <2>2, <2>3 DEF Stuck
  <2> QED BY <2>1, <2>4 DEF Stuck
<1>7. CASE Dequeue
  <2>1. /\ status = "order" /\ status' = "order" /\ zero # <<>> /\ zero' = Tail(zero)
        /\ order' = Append(order, Head(zero)) /\ UNCHANGED <<keys, count>>
    BY <1>7 DEF Dequeue, graph, degrees
  <2>2. ToSet(zero) = {Head(zero)} \cup ToSet(Tail(zero)) /\ Head(zero) \in Names
    BY <2>1, HeadAndTail, TailFacts DEF Typed
  <2>3. ToSet(Append(order, Head(zero))) = ToSet(order) \cup {Head(zero)}
    BY <2>2, QueuesAppend
  <2> QED BY <2>1, <2>2, <2>3 DEF Stuck
<1>8. CASE Scan
  <2>1. /\ status = "order" /\ status' = "order" /\ i <= Len(keys) /\ UNCHANGED <<keys, order>>
        /\ \/ UNCHANGED <<count, zero>>
           \/ /\ count' = [count EXCEPT ![keys[i]] = @ - 1]
              /\ zero' = IF count'[keys[i]] = 0 THEN Append(zero, keys[i]) ELSE zero
    BY <1>8 DEF Scan, graph
  <2>2. keys[i] \in Names
    BY <2>1, IndexFacts DEF Typed
  <2>3. PICK n \in Names : n = keys[i]
    BY <2>2
  <2>4. ToSet(Append(zero, n)) = ToSet(zero) \cup {n}
    BY QueuesAppend
  <2>5. CASE UNCHANGED <<count, zero>>
    BY <2>1, <2>5 DEF Stuck
  <2>6. CASE /\ count' = [count EXCEPT ![n] = @ - 1]
             /\ zero' = IF count'[n] = 0 THEN Append(zero, n) ELSE zero
    <3>1. \A m \in ToSet(keys) : m # n => count'[m] = count[m]
      BY <2>6, KeysAreNames DEF Typed
    <3>2. ToSet(zero) \subseteq ToSet(zero') /\ (count'[n] = 0 => n \in ToSet(zero'))
      BY <2>4, <2>6
    <3> QED BY <2>1, <3>1, <3>2 DEF Stuck
  <2> QED BY <2>1, <2>3, <2>5, <2>6
<1>9. CASE ScanEnds
  BY <1>9 DEF ScanEnds, Stuck, graph, degrees
<1> QED
  BY <1>1, <1>2, <1>3, <1>4, <1>5, <1>6, <1>7, <1>8, <1>9, StepCases DEF Building

(* When the queue runs empty too early, those that are left wait for each  *)
(* other.                                                                  *)
LEMMA CycleIsOne ==
    ASSUME IInv, Followed, Ranked, Stuck, CycleDetected
    PROVE  \E n \in ToSort : n \in Under(CallsOf(n))
<1> USE DEF IInv
<1> DEFINE W == ToSet(keys) \ ToSet(order)
<1>1. status = "order" /\ curr = NONE /\ zero = <<>> /\ Len(order) # Len(ikeys) /\ HasGraph
  BY DEF CycleDetected, HasGraph, Loops
<1>2. ToSet(ikeys) \cup ToSet(order) \subseteq ToSet(keys)
  BY <1>1 DEF Ranked
<1>3. W # {}
  BY <1>1, <1>2, OrderedAll
<1>4. W \in SUBSET Names /\ IsFiniteSet(W)
  <2>1. IsFiniteSet(ToSet(keys))
    BY InjectiveCount DEF Typed, Entered
  <2> QED BY <2>1, KeysAreNames, FS_Subset
<1>5. ASSUME NEW n \in W PROVE \E m \in W : m \in CallsOf(n)
  <2>1. n \in Names /\ n \in ToSet(keys) /\ ToSet(deps[n]) = CallsOf(n) \cap ToSet(keys)
    BY <1>1, KeysAreNames, GraphClosed
  <2>2. count[n] # 0
    <3>1. ToSet(zero) = {}
      BY <1>1 DEF ToSet
    <3> QED BY <1>1, <2>1, <3>1 DEF Stuck
  <2>3. Waiting(n) # {}
    <3>1. count[n] = Cardinality(Waiting(n))
      BY <1>1, <2>1 DEF Sorted
    <3> QED BY <2>2, <3>1, FS_EmptySet
  <2>4. PICK k \in DOMAIN deps[n] : deps[n][k] \notin ToSet(order) \/ deps[n][k] = NONE
    BY <1>1, <2>3 DEF Waiting
  <2>5. deps[n][k] \in ToSet(deps[n]) /\ deps[n][k] # NONE
    <3>1. deps[n] \in Seq(Names)
      BY <2>1 DEF Typed
    <3>2. deps[n][k] \in Names
      BY <3>1
    <3> QED BY <3>2, LinkingAssumption DEF ToSet
  <2> QED BY <2>1, <2>4, <2>5
<1> HIDE DEF W
<1>6. \E n \in W : n \in Under(CallsOf(n))
  BY <1>3, <1>4, <1>5, CycleExists
<1> QED BY <1>1, <1>6, GraphClosed DEF W

LEMMA CyclicStep ==
    ASSUME IInv, Modes, Followed, Ranked, Stuck, Cyclic, [Next]_vars
    PROVE  Cyclic'
<1>1. CASE pass0
  <2>1. status' # "cycle"
    BY <1>1, VerifyprotoResult
    DEF pass0, InstallPlain, InstallProto, RejectProto, InstallDefinition, Installed
  <2> QED BY <2>1 DEF Cyclic
<1>2. CASE UNCHANGED <<ext, sortfunc>>
  <2>1. CASE CycleDetected
    BY <1>2, <2>1, CycleIsOne, SameDeclarations
  <2>2. CASE UNCHANGED status
    BY <1>2, <2>2, SameDeclarations DEF Cyclic
  <2>3. CASE ~CycleDetected /\ ~UNCHANGED status
    <3>1. status' # "cycle"
      <4>1. CASE topological_order
        BY <2>3, <4>1
        DEF topological_order, ast_function_buildgraph, recurse_buildgraph, NextStatement, InFrame,
            SkipDuplicate, CalleeUndeclared, Callee, Return, LoopEnds, InitIndegree, InitDependency,
            CountIndegree, build_indegree_zero, Dequeue, Scan, ScanEnds
      <4>2. CASE Pass0Ends \/ pass1 \/ Ordered \/ pass_inorder \/ verify_ends
        BY <2>3, <4>2 DEF Pass0Ends, pass1, Ordered, pass_inorder, verify_ends, Verify
      <4>3. CASE pass0
        BY <1>1, <4>3, VerifyprotoResult
        DEF pass0, InstallPlain, InstallProto, RejectProto, InstallDefinition, Installed
      <4> QED BY <2>3, <4>1, <4>2, <4>3 DEF Next, verify, Exited, vars, linking_vars
    <3> QED BY <3>1 DEF Cyclic
  <2> QED BY <2>1, <2>2, <2>3
<1> QED BY <1>1, <1>2, DeclarationsKept, SortfuncKept

-----------------------------------------------------------------------------
(* The graph and the order *)

LEMMA InitGInv == Init => GInv
<1> SUFFICES ASSUME Init PROVE GInv
  OBVIOUS
<1>1. PICK c \in Configs :
         mode = c.mode /\ status = IF c.mode = "strip" THEN "strip" ELSE "pass0"
  BY DEF Init
<1>2. GraphInit /\ ToSet(<<>>) = {} /\ DOMAIN <<>> = {}
  BY DEF Init, ToSet
<1>3. mode \in {"none", "sort", "verify", "strip"} /\ (status = "strip" <=> mode = "strip")
      /\ status \in {"strip", "pass0"}
  BY <1>1, ConfigAssumption
<1>4. ~HasGraph
  BY <1>3 DEF HasGraph, Loops
<1>5. Modes /\ Fresh
  BY <1>2, <1>3 DEF Modes, Fresh, GraphInit
<1> QED BY <1>3, <1>4, <1>5 DEF GInv, Followed, Crashed, Ranked, Stuck, Cyclic

(* While the graph is built, each frame has noted what the statements      *)
(* before its next one call, and what was entered is a frame, a key or an  *)
(* axiom; while it is sorted, who waits for none is in the queue or has    *)
(* left it (recurse_buildgraph, topological_order).                        *)
THEOREM GraphInvariant == Spec => []GInv
<1>1. Init => GInv
  BY InitGInv
<1>2. IInv /\ GInv /\ [Next]_vars => GInv'
  <2> SUFFICES ASSUME IInv, GInv, [Next]_vars PROVE GInv'
    OBVIOUS
  <2>1. Modes' /\ Fresh'
    BY ModesStep, FreshStep DEF GInv
  <2>2. Followed' /\ Crashed'
    BY FollowedStep DEF IInv, GInv
  <2>3. Ranked' /\ Stuck' /\ Cyclic'
    BY RankedStep, StuckStep, CyclicStep DEF GInv
  <2> QED BY <2>1, <2>2, <2>3 DEF GInv
<1> QED BY <1>1, <1>2, ProgramInvariant, PTL DEF Spec

(* For all files and functions, the graph has exactly the functions under  *)
(* the given one that are no axioms, and lists once each one they call     *)
(* (ast_function_buildgraph).                                              *)
THEOREM ProgramGraphExact == Spec => []GraphExact
<1>1. IInv /\ GInv => GraphExact
  <2> SUFFICES ASSUME IInv, GInv, status = "indegrees" PROVE GraphExact
    BY DEF GraphExact, GraphBuilt
  <2>1. HasGraph
    BY DEF HasGraph, Loops
  <2>2. ToSet(keys) = ToSort /\ \A n \in ToSort : ToSet(deps[n]) = CallsOf(n) \cap ToSort
    BY <2>1, GraphClosed DEF IInv, GInv
  <2>3. ASSUME NEW n \in ToSort PROVE Len(deps[n]) = Cardinality(ToSet(deps[n]))
    <3>1. deps[n] \in Seq(Names) /\ Injective(deps[n])
      BY <2>2, KeysAreNames DEF IInv, Typed, Entered
    <3> QED BY <3>1, InjectiveCount
  <2> QED BY <2>2, <2>3 DEF GraphExact
<1> QED BY <1>1, ProgramInvariant, GraphInvariant, PTL

(* For all files, building the graph crashes only where a function under   *)
(* the given one is undeclared, has no body or no statement, or holds what *)
(* is not searched, and does not get past such a one (recurse_buildgraph). *)
THEOREM ProgramCrashExact == Spec => []CrashExact
<1>1. IInv /\ GInv => CrashExact
  <2> SUFFICES ASSUME IInv, GInv PROVE CrashExact
    OBVIOUS
  <2>1. status = "indegrees" => \A n \in Under({sortfunc}) : ~Uncallable(n)
    <3>1. status = "indegrees" => HasGraph
      BY DEF HasGraph, Loops
    <3> QED BY <3>1, GraphClosed DEF IInv, GInv
  <2> QED BY <2>1 DEF CrashExact, GraphBuilt, GInv, Crashed
<1> QED BY <1>1, ProgramInvariant, GraphInvariant, PTL

(* For all files, the order has every function that has to be sorted, and  *)
(* a cycle is reported only where a function is under itself               *)
(* (topological_order).                                                    *)
THEOREM ProgramOrderComplete == Spec => []OrderComplete
<1>1. IInv /\ GInv => OrderComplete
  <2> SUFFICES ASSUME IInv, GInv PROVE OrderComplete
    OBVIOUS
  <2>1. status = "inorder" \/ (status = "done" /\ mode # "none") => ToSet(order) = ToSort
    <3>1. status = "inorder" \/ (status = "done" /\ mode # "none") => HasGraph
      BY DEF HasGraph
    <3> QED BY <3>1, GraphClosed DEF IInv, GInv, Ranked
  <2> QED BY <2>1 DEF OrderComplete, GInv, Cyclic
<1> QED BY <1>1, ProgramInvariant, GraphInvariant, PTL

-----------------------------------------------------------------------------
(* What is accepted *)

(* A longer prefix has one definition more, or none. *)
LEMMA DefinitionsCounted ==
    ASSUME Linked, NEW k \in Nat \ {0}
    PROVE  /\ IsFiniteSet(DefinitionsBefore(k)) /\ Cardinality(DefinitionsBefore(k)) \in Nat
           /\ k \in DOMAIN root /\ IsDefinition(root[k]) =>
                 /\ DefinitionsBefore(k + 1) = DefinitionsBefore(k) \cup {k}
                 /\ Cardinality(DefinitionsBefore(k + 1)) = Cardinality(DefinitionsBefore(k)) + 1
           /\ ~(k \in DOMAIN root /\ IsDefinition(root[k])) =>
                 DefinitionsBefore(k + 1) = DefinitionsBefore(k)
           /\ \A j \in DefinitionsBefore(k) :
                 Cardinality(DefinitionsBefore(j)) < Cardinality(DefinitionsBefore(k))
<1>1. \A j \in Nat : IsFiniteSet(DefinitionsBefore(j)) /\ Cardinality(DefinitionsBefore(j)) \in Nat
  <2> TAKE j \in Nat
  <2>1. DefinitionsBefore(j) \subseteq DOMAIN root /\ IsFiniteSet(DOMAIN root)
    BY IndicesCounted DEF Linked, DefinitionsBefore
  <2> QED BY <2>1, FS_Subset, FS_CardinalityType
<1>2. \A j \in DOMAIN root : j \in Nat /\ (j < k + 1 <=> j < k \/ j = k) /\ ~(j < j)
  BY DEF Linked
<1>3. k \notin DefinitionsBefore(k)
  BY DEF DefinitionsBefore
<1>4. ASSUME k \in DOMAIN root, IsDefinition(root[k])
      PROVE  /\ DefinitionsBefore(k + 1) = DefinitionsBefore(k) \cup {k}
             /\ Cardinality(DefinitionsBefore(k + 1)) = Cardinality(DefinitionsBefore(k)) + 1
  <2>1. DefinitionsBefore(k + 1) = DefinitionsBefore(k) \cup {k}
    BY <1>2, <1>4 DEF DefinitionsBefore
  <2> QED BY <1>1, <1>3, <2>1, FS_AddElement
<1>5. ASSUME ~(k \in DOMAIN root /\ IsDefinition(root[k]))
      PROVE  DefinitionsBefore(k + 1) = DefinitionsBefore(k)
  BY <1>2, <1>5 DEF DefinitionsBefore
<1>6. ASSUME NEW j \in DefinitionsBefore(k)
      PROVE  Cardinality(DefinitionsBefore(j)) < Cardinality(DefinitionsBefore(k))
  <2>1. j \in DOMAIN root /\ j \in Nat /\ j < k
    BY <1>2 DEF DefinitionsBefore
  <2>2. DefinitionsBefore(j) \cup {j} \subseteq DefinitionsBefore(k) /\ j \notin DefinitionsBefore(j)
    <3>1. \A m \in DOMAIN root : m < j => m < k
      BY <1>2, <2>1
    <3> QED BY <1>2, <2>1, <3>1 DEF DefinitionsBefore
  <2>3. Cardinality(DefinitionsBefore(j) \cup {j}) = Cardinality(DefinitionsBefore(j)) + 1
    BY <1>1, <2>1, <2>2, FS_AddElement
  <2>4. Cardinality(DefinitionsBefore(j) \cup {j}) <= Cardinality(DefinitionsBefore(k))
    BY <1>1, <2>2, FS_Subset
  <2> QED BY <1>1, <2>1, <2>3, <2>4
<1> QED BY <1>1, <1>4, <1>5, <1>6

(* One more function is verified. *)
LEMMA QedAppend ==
    ASSUME Verified, NEW f \in Declaration,
           qed' = Append(qed, [name |-> f.name, abstract |-> f.abstract])
    PROVE  /\ Len(qed') = Len(qed) + 1 /\ Len(qed) \in Nat
           /\ DOMAIN qed = 1 .. Len(qed) /\ DOMAIN qed' = 1 .. Len(qed) + 1
           /\ qed'[Len(qed) + 1].name = f.name
           /\ \A k \in 1 .. Len(qed) : qed'[k] = qed[k]
<1> DEFINE S == [name : Names, abstract : Abstracts]
<1>1. PICK q \in S : q = [name |-> f.name, abstract |-> f.abstract]
  BY DEF Declaration
<1>2. qed \in Seq(S) /\ qed' = Append(qed, q) /\ q.name = f.name
  BY <1>1 DEF Verified
<1> HIDE DEF S
<1> QED BY <1>1, <1>2, AppendFacts

(* What is in the order is a definition of that name. *)
LEMMA OrderedIsDefinition ==
    ASSUME IInv, GInv, Tables, status = "inorder", NEW n \in ToSet(order)
    PROVE  /\ externals_getfunc(n) \in Declaration /\ IsDefinition(externals_getfunc(n))
           /\ externals_getfunc(n).name = n
<1>1. HasGraph /\ ToSet(order) = ToSet(keys) /\ n \in Names
  BY KeysAreNames DEF HasGraph, GInv, Ranked, IInv
<1>2. n \in ToSort /\ n \in dedup /\ ~Uncallable(n)
  BY <1>1, GraphClosed DEF IInv, GInv, Entered
<1>3. Declared(n) /\ ~Axiom(n) /\ externals_getfunc(n).body # NONE
  BY <1>2 DEF Uncallable, ToSort
<1>4. PICK k \in DOMAIN root : LastDeclared(n, k) /\ externals_getfunc(n) = root[k]
  BY <1>1, <1>3 DEF Tables, Live
<1>5. root[k] \in Declaration
  BY DEF IInv, Linked
<1> QED
  BY <1>3, <1>4, <1>5
  DEF LastDeclared, FunctionAt, IsDefinition, Axiom, ast_function_isproto

LEMMA Pass1Accepting ==
    ASSUME IInv, Verified, Accepting, pass1, UNCHANGED mode
    PROVE  Accepting'
<1> DEFINE f == root[i]
<1>1. /\ status = "pass1" /\ i \in Nat \ {0} /\ i \in DOMAIN root /\ f \in Declaration
      /\ UNCHANGED <<root, ext>>
  BY IndexFacts DEF pass1, IInv, Linked
<1>2. /\ Len(qed) = Cardinality(DefinitionsBefore(i))
      /\ \A k \in DefinitionsBefore(i) :
            qed[Cardinality(DefinitionsBefore(k)) + 1].name = root[k].name
  BY <1>1 DEF Accepting
<1>3. \A k : DefinitionsBefore(k)' = DefinitionsBefore(k)
  BY <1>1 DEF DefinitionsBefore
<1>4. CASE status' = "unproved"
  BY <1>4 DEF Accepting, Loops
<1>5. CASE IsDefinition(f) /\ status' # "unproved"
  <2>1. /\ qed' = Append(qed, [name |-> f.name, abstract |-> f.abstract])
        /\ i' = i + 1 /\ status' = "pass1"
    BY <1>1, <1>5 DEF pass1, Verify
  <2>2. PICK g \in Declaration : g = f
    BY <1>1
  <2>3. /\ Len(qed') = Len(qed) + 1 /\ qed'[Len(qed) + 1].name = f.name
        /\ \A k \in 1 .. Len(qed) : qed'[k] = qed[k]
    BY <2>1, <2>2, QedAppend
  <2>4. /\ DefinitionsBefore(i + 1) = DefinitionsBefore(i) \cup {i}
        /\ Cardinality(DefinitionsBefore(i + 1)) = Cardinality(DefinitionsBefore(i)) + 1
        /\ Cardinality(DefinitionsBefore(i)) \in Nat
        /\ \A j \in DefinitionsBefore(i) :
              Cardinality(DefinitionsBefore(j)) < Cardinality(DefinitionsBefore(i))
    BY <1>1, <1>5, DefinitionsCounted DEF IInv
  <2>5. ASSUME NEW k \in DefinitionsBefore(i + 1)
        PROVE  qed'[Cardinality(DefinitionsBefore(k)) + 1].name = root[k].name
    <3>1. CASE k = i
      BY <1>2, <2>3, <3>1
    <3>2. CASE k \in DefinitionsBefore(i)
      <4>1. k \in Nat \ {0}
        BY <3>2 DEF DefinitionsBefore, IInv, Linked
      <4>2. Cardinality(DefinitionsBefore(k)) \in Nat
        BY <4>1, DefinitionsCounted DEF IInv
      <4>3. Cardinality(DefinitionsBefore(k)) + 1 \in 1 .. Len(qed)
        BY <1>2, <2>4, <3>2, <4>2
      <4> QED BY <1>2, <2>3, <3>2, <4>3
    <3> QED BY <2>4, <2>5, <3>1, <3>2
  <2> HIDE DEF f
  <2> QED BY <1>1, <1>2, <1>3, <2>1, <2>3, <2>4, <2>5 DEF Accepting, Loops
<1>6. CASE ~IsDefinition(f) /\ status' # "unproved"
  <2>1. i' = i + 1 /\ status' = "pass1" /\ qed' = qed
    BY <1>1, <1>6 DEF pass1
  <2>2. DefinitionsBefore(i + 1) = DefinitionsBefore(i)
    BY <1>1, <1>6, DefinitionsCounted DEF IInv
  <2> QED BY <1>1, <1>2, <1>3, <2>1, <2>2 DEF Accepting, Loops
<1> QED BY <1>4, <1>5, <1>6

LEMMA InorderAccepting ==
    ASSUME IInv, GInv, Tables, Verified, Accepting, pass_inorder, UNCHANGED mode
    PROVE  Accepting'
<1> DEFINE f == externals_getfunc(order[i])
<1>1. /\ status = "inorder" /\ i \in Nat \ {0} /\ i <= Len(order) /\ order \in Seq(Names)
      /\ UNCHANGED <<root, ext, order>>
  BY DEF pass_inorder, IInv, Linked, Typed, graph_vars, queue
<1>2. order[i] \in ToSet(order)
  BY <1>1 DEF ToSet
<1>3. f \in Declaration /\ IsDefinition(f) /\ f.name = order[i]
  BY <1>1, <1>2, OrderedIsDefinition
<1>4. Len(qed) = i - 1 /\ \A k \in DOMAIN qed : qed[k].name = order[k]
  BY <1>1 DEF Accepting
<1>5. CASE status' = "unproved"
  BY <1>5 DEF Accepting, Loops
<1>6. CASE status' # "unproved"
  <2>1. /\ qed' = Append(qed, [name |-> f.name, abstract |-> f.abstract])
        /\ i' = i + 1 /\ status' = "inorder"
    BY <1>1, <1>3, <1>6 DEF pass_inorder, Verify
  <2>2. PICK g \in Declaration : g = f
    BY <1>3
  <2>3. /\ Len(qed') = Len(qed) + 1 /\ Len(qed) \in Nat
        /\ DOMAIN qed = 1 .. Len(qed) /\ DOMAIN qed' = 1 .. Len(qed) + 1
        /\ qed'[Len(qed) + 1].name = f.name
        /\ \A k \in 1 .. Len(qed) : qed'[k] = qed[k]
    BY <2>1, <2>2, QedAppend
  <2> HIDE DEF f
  <2>4. ASSUME NEW k \in DOMAIN qed' PROVE qed'[k].name = order[k]
    <3>1. CASE k = Len(qed) + 1
      BY <1>1, <1>3, <1>4, <2>3, <3>1
    <3>2. CASE k # Len(qed) + 1
      <4>1. k \in 1 .. Len(qed)
        BY <2>3, <3>2
      <4> QED BY <1>4, <2>3, <4>1
    <3> QED BY <3>1, <3>2
  <2>5. Len(qed') = i' - 1 /\ i' <= Len(order) + 1
    BY <1>1, <1>4, <2>1, <2>3
  <2> QED BY <1>1, <2>1, <2>4, <2>5 DEF Accepting, Loops
<1> QED BY <1>5, <1>6

LEMMA AcceptingStep ==
    ASSUME IInv, GInv, Tables, Verified, Accepting, [Next]_vars
    PROVE  Accepting'
<1>0. mode' = mode
  BY DEF Next, Exited, vars
<1>1. CASE pass0
  <2>1. status = "pass0" /\ status' \in {"pass0", "missing", "multiple", "mismatch"}
    BY <1>1, VerifyprotoResult
    DEF pass0, InstallPlain, InstallProto, RejectProto, InstallDefinition, Installed
  <2> QED BY <1>1, <2>1, Pass0Keeps DEF Accepting, Loops
<1>2. CASE Pass0Ends
  <2>1. status = "pass0" /\ status' \in {"pass1", "graph"} /\ i' = 1 /\ UNCHANGED <<root, qed>>
    BY <1>2 DEF Pass0Ends
  <2>2. qed = <<>>
    BY <2>1 DEF Accepting
  <2>3. DefinitionsBefore(1)' = {}
    BY <2>1 DEF DefinitionsBefore, IInv, Linked
  <2>4. Len(qed) = Cardinality({})
    BY <2>2, FS_EmptySet
  <2> QED BY <2>1, <2>2, <2>3, <2>4 DEF Accepting, Loops
<1>3. CASE topological_order /\ UNCHANGED qed
  <2>1. status \in Loops \cup {"graph"}
        /\ status' \in Loops \cup {"graph", "undeclared", "crash", "cycle"}
    BY <1>3
    DEF topological_order, ast_function_buildgraph, recurse_buildgraph, NextStatement, InFrame,
        SkipDuplicate, CalleeUndeclared, Callee, Return, LoopEnds, InitIndegree, InitDependency,
        CountIndegree, build_indegree_zero, Dequeue, Scan, ScanEnds, CycleDetected, Loops
  <2> QED BY <1>3, <2>1 DEF Accepting, Loops
<1>4. CASE Ordered
  <2>1. /\ status = "order" /\ i' = 1 /\ UNCHANGED <<order, qed>>
        /\ status' = IF mode = "sort" THEN "done" ELSE "inorder"
    BY <1>4 DEF Ordered, OrderIsComplete, graph_vars, queue
  <2>2. qed = <<>> /\ Len(order) \in Nat
    BY <2>1 DEF Accepting, Loops, IInv, Typed
  <2>3. Len(qed) = 1 - 1 /\ 1 <= Len(order) + 1 /\ DOMAIN qed = {}
    BY <2>2
  <2> QED BY <1>0, <2>1, <2>3 DEF Accepting, Loops
<1>5. CASE pass1
  BY <1>0, <1>5, Pass1Accepting
<1>6. CASE pass_inorder
  BY <1>0, <1>6, InorderAccepting
<1>7. CASE verify_ends
  <2>1. status' = "done" /\ UNCHANGED <<root, order, qed>>
    BY <1>7 DEF verify_ends, graph_vars, queue
  <2>2. CASE status = "pass1" /\ i > Len(root)
    <3>1. mode = "none"
      BY <2>2 DEF GInv, Modes
    <3>2. DefinitionsBefore(Len(root) + 1) = DefinitionsBefore(i)
      BY <2>2 DEF DefinitionsBefore, IInv, Linked
    <3>3. /\ Len(qed) = Cardinality(DefinitionsBefore(Len(root) + 1))
          /\ \A k \in DefinitionsBefore(Len(root) + 1) :
                qed[Cardinality(DefinitionsBefore(k)) + 1].name = root[k].name
      BY <2>2, <3>2 DEF Accepting
    <3> QED BY <1>0, <2>1, <3>1, <3>3 DEF Accepting, Loops, DefinitionsBefore
  <2>3. CASE status = "inorder" /\ i > Len(order)
    <3>1. mode = "verify"
      BY <2>3 DEF GInv, Modes
    <3>2. Len(qed) = Len(order) /\ \A k \in DOMAIN qed : qed[k].name = order[k]
      BY <2>3 DEF Accepting, IInv, Typed, Linked
    <3> QED BY <1>0, <2>1, <3>1, <3>2 DEF Accepting, Loops
  <2> QED BY <1>7, <2>2, <2>3 DEF verify_ends
<1>8. CASE UNCHANGED <<linking_vars, graph_vars, mode, qed>>
  BY <1>8 DEF Accepting, linking_vars, graph_vars, queue, DefinitionsBefore
<1> QED
  BY <1>1, <1>2, <1>3, <1>4, <1>5, <1>6, <1>7, <1>8 DEF Next, verify, Exited, vars

(* For all files, a program is accepted when each of its definitions was   *)
(* verified once in their order in the file, or each function under the    *)
(* given one that is no axiom, in the order of the sort (pass1,            *)
(* pass_inorder).                                                          *)
THEOREM ProgramAcceptedIsVerified == Spec => []AcceptedIsVerified
<1> DEFINE TInv == Tables /\ OneDefinition /\ Agreed /\ Known /\ Verified
<1>1. Init => Accepting
  <2> SUFFICES ASSUME Init PROVE Accepting
    OBVIOUS
  <2>1. qed = <<>> /\ status \in {"strip", "pass0"}
    BY DEF Init
  <2> QED BY <2>1 DEF Accepting
<1>2. IInv /\ GInv /\ TInv /\ Accepting /\ [Next]_vars => Accepting'
  BY AcceptingStep
<1>3. IInv /\ GInv /\ TInv /\ Accepting => AcceptedIsVerified
  <2> SUFFICES ASSUME IInv, GInv, TInv, Accepting, status = "done", mode # "sort"
               PROVE  AcceptedIsVerified
    BY DEF AcceptedIsVerified
  <2>1. mode \in {"none", "verify"}
    BY DEF GInv, Modes
  <2>2. CASE mode = "none"
    BY <2>2 DEF Accepting, AcceptedIsVerified
  <2>3. CASE mode = "verify"
    <3>1. Len(qed) = Len(order) /\ \A k \in DOMAIN qed : qed[k].name = order[k]
      BY <2>3 DEF Accepting
    <3>2. order \in Seq(Names) /\ qed \in Seq([name : Names, abstract : Abstracts])
      BY DEF IInv, Typed, Verified
    <3>3. DOMAIN qed = DOMAIN order
      BY <3>1, <3>2
    <3>4. order = [k \in DOMAIN order |-> order[k]]
      BY <3>2
    <3>5. [k \in DOMAIN qed |-> qed[k].name] = order
      BY <3>1, <3>3, <3>4
    <3> QED BY <2>3, <3>5 DEF AcceptedIsVerified
  <2> QED BY <2>1, <2>2, <2>3
<1>4. Spec => []TInv
  BY LinkingInvariant
<1> HIDE DEF TInv
<1> QED BY <1>1, <1>2, <1>3, <1>4, ProgramInvariant, GraphInvariant, PTL DEF Spec

-----------------------------------------------------------------------------
(* What the order is for *)

(* In the order of the calls, a function is held to the abstract that the  *)
(* tables have of it.                                                      *)
HeldTo ==
    mode = "verify" =>
        \A k \in DOMAIN qed : qed[k].abstract = externals_getfunc(qed[k].name).abstract

LEMMA HeldToStep ==
    ASSUME IInv, GInv, Tables, Verified, Accepting, HeldTo, [Next]_vars
    PROVE  HeldTo'
<1>0. mode' = mode
  BY DEF Next, Exited, vars
<1>1. CASE pass0
  <2>1. status = "pass0"
    BY <1>1 DEF pass0, InstallPlain, InstallProto, RejectProto, InstallDefinition
  <2>2. CASE qed' = qed
    <3>1. DOMAIN qed' = {}
      BY <2>1, <2>2 DEF Accepting
    <3> QED BY <3>1 DEF HeldTo
  <2> QED BY <1>1, <2>1, <2>2 DEF Next, verify, pass0, InstallPlain, InstallProto, RejectProto,
        InstallDefinition, Pass0Ends, pass1, topological_order, Ordered, pass_inorder,
        verify_ends, Exited, vars, strip
<1>2. CASE UNCHANGED <<ext, qed>>
  BY <1>0, <1>2 DEF HeldTo, externals_getfunc
<1>3. CASE pass1
  <2>1. mode = "none"
    BY <1>3 DEF pass1, GInv, Modes
  <2> QED BY <1>0, <2>1 DEF HeldTo
<1>4. CASE pass_inorder
  <2> DEFINE f == externals_getfunc(order[i])
  <2>1. /\ status = "inorder" /\ i \in Nat \ {0} /\ i <= Len(order) /\ order \in Seq(Names)
        /\ ext' = ext
    BY <1>4 DEF pass_inorder, IInv, Linked, Typed
  <2>2. order[i] \in ToSet(order)
    BY <2>1 DEF ToSet
  <2>3. f \in Declaration /\ IsDefinition(f) /\ f.name = order[i]
    BY <2>1, <2>2, OrderedIsDefinition
  <2>4. CASE qed' = qed
    BY <1>0, <2>1, <2>4 DEF HeldTo, externals_getfunc
  <2>5. CASE qed' = Append(qed, [name |-> f.name, abstract |-> f.abstract])
    <3>1. PICK g \in Declaration : g = f
      BY <2>3
    <3>2. PICK q : q = [name |-> g.name, abstract |-> g.abstract]
      OBVIOUS
    <3>3. q \in [name : Names, abstract : Abstracts]
      BY <3>2 DEF Declaration
    <3>4. /\ DOMAIN qed' = DOMAIN qed \cup {Len(qed) + 1}
          /\ qed'[Len(qed) + 1] = q
          /\ \A k \in DOMAIN qed : qed'[k] = qed[k]
      BY <2>5, <3>1, <3>2, <3>3, AppendFacts DEF Verified
    <3>5. q.abstract = externals_getfunc(q.name).abstract
      BY <2>3, <3>1, <3>2
    <3> HIDE DEF f
    <3> QED BY <1>0, <2>1, <3>4, <3>5 DEF HeldTo, externals_getfunc
  <2> QED BY <1>4, <2>3, <2>4, <2>5 DEF pass_inorder, Verify
<1> QED
  BY <1>1, <1>2, <1>3, <1>4
  DEF Next, verify, Pass0Ends, topological_order, ast_function_buildgraph, recurse_buildgraph,
      NextStatement, SkipDuplicate, CalleeUndeclared, Callee, Return, LoopEnds, InitIndegree,
      InitDependency, CountIndegree, build_indegree_zero, Dequeue, Scan, ScanEnds, CycleDetected,
      Ordered, verify_ends, Exited, vars, linking_vars

(* A program that is accepted in the order of its calls meets its          *)
(* abstracts from the given function down, if its axioms do and if each    *)
(* single verification is right as far as the callees meet theirs: the     *)
(* order makes modular verification well-founded (topological_order,       *)
(* pass_inorder).                                                          *)
THEOREM ProgramAcceptedMeets == Spec => []AcceptedMeets
<1> DEFINE TInv == Tables /\ OneDefinition /\ Agreed /\ Known /\ Verified
<1>1. Init => HeldTo /\ Accepting
  <2> SUFFICES ASSUME Init PROVE HeldTo /\ Accepting
    OBVIOUS
  <2>1. qed = <<>> /\ status \in {"strip", "pass0"}
    BY DEF Init
  <2> QED BY <2>1 DEF HeldTo, Accepting
<1>2. IInv /\ GInv /\ TInv /\ Accepting /\ HeldTo /\ [Next]_vars => Accepting' /\ HeldTo'
  BY AcceptingStep, HeldToStep
<1>3. IInv /\ GInv /\ TInv /\ Accepting /\ HeldTo => AcceptedMeets
  <2> SUFFICES ASSUME IInv, GInv, TInv, Accepting, HeldTo, status = "done", mode = "verify",
                      NEW M \in SUBSET (Names \X Abstracts),
                      \A n \in Under({sortfunc}) :
                          Axiom(n) => <<n, externals_getfunc(n).abstract>> \in M,
                      \A q \in ToSet(qed) :
                          (\A c \in CallsOf(q.name) : <<c, externals_getfunc(c).abstract>> \in M)
                              => <<q.name, q.abstract>> \in M
               PROVE  \A n \in Under({sortfunc}) : <<n, externals_getfunc(n).abstract>> \in M
    BY DEF AcceptedMeets
  <2> DEFINE Meets(n) == <<n, externals_getfunc(n).abstract>> \in M
  <2>1. HasGraph
    BY DEF HasGraph
  <2>2. /\ dedup = Under({sortfunc}) /\ ToSet(keys) = ToSort
        /\ \A n \in dedup : CallsOf(n) \subseteq dedup
        /\ \A n \in ToSort : ToSet(deps[n]) = CallsOf(n) \cap ToSort
    BY <2>1, GraphClosed DEF GInv, IInv
  <2>3. ToSet(order) = ToSort
    BY <2>1, <2>2 DEF GInv, Ranked
  <2>4. Len(qed) = Len(order) /\ \A k \in DOMAIN qed : qed[k].name = order[k]
    BY DEF Accepting
  <2>5. /\ order \in Seq(Names) /\ qed \in Seq([name : Names, abstract : Abstracts])
        /\ DOMAIN order = 1 .. Len(order) /\ DOMAIN qed = DOMAIN order
    BY <2>4 DEF IInv, Typed, Verified
  <2>6. ASSUME NEW k \in DOMAIN order, \A j \in DOMAIN order : j < k => Meets(order[j])
        PROVE  Meets(order[k])
    <3>1. order[k] \in ToSort /\ order[k] \in dedup
      BY <2>2, <2>3 DEF ToSet, ToSort
    <3>2. ASSUME NEW c \in CallsOf(order[k]) PROVE Meets(c)
      <4>1. c \in Under({sortfunc})
        BY <2>2, <3>1
      <4>2. CASE Axiom(c)
        BY <4>1, <4>2
      <4>3. CASE ~Axiom(c)
        <5>1. c \in ToSet(deps[order[k]])
          BY <2>2, <3>1, <4>1, <4>3 DEF ToSort
        <5>2. PICK d \in DOMAIN deps[order[k]] : deps[order[k]][d] = c
          BY <5>1 DEF ToSet
        <5>3. PICK j \in 1 .. k - 1 : order[j] = c
          BY <5>2 DEF IInv, First
        <5>4. j \in DOMAIN order /\ j < k
          BY <2>5, <5>3
        <5> QED BY <2>6, <5>3, <5>4
      <4> QED BY <4>2, <4>3
    <3>3. qed[k] \in ToSet(qed) /\ qed[k].name = order[k]
          /\ qed[k].abstract = externals_getfunc(order[k]).abstract
      BY <2>4, <2>5 DEF ToSet, HeldTo
    <3> QED BY <3>2, <3>3
  <2>7. \A k \in DOMAIN order : Meets(order[k])
    <3> HIDE DEF Meets
    <3>1. PICK Bad : Bad = {k \in DOMAIN order : ~Meets(order[k])}
      OBVIOUS
    <3>2. Bad \in SUBSET Nat
      BY <2>5, <3>1
    <3>3. ASSUME NEW k \in Bad, \A j \in Bad : k <= j PROVE FALSE
      <4>1. k \in DOMAIN order /\ ~Meets(order[k])
        BY ONLY <3>1, <3>3
      <4>2. \A j \in DOMAIN order : j < k => Meets(order[j])
        BY ONLY <2>5, <3>1, <3>3
      <4> QED BY <2>6, <4>1, <4>2
    <3>4. Bad = {}
      BY ONLY <3>2, <3>3, LeastNumber
    <3> QED BY ONLY <3>1, <3>4
  <2>8. ASSUME NEW n \in Under({sortfunc}) PROVE Meets(n)
    <3>1. CASE Axiom(n)
      BY <3>1
    <3>2. CASE ~Axiom(n)
      <4>1. n \in ToSet(order)
        BY <2>3, <3>2 DEF ToSort, Under
      <4>2. PICK k \in DOMAIN order : order[k] = n
        BY <4>1 DEF ToSet
      <4> QED BY <2>7, <4>2
    <3> QED BY <3>1, <3>2
  <2> QED BY <2>8
<1>4. Spec => []TInv
  BY LinkingInvariant
<1> HIDE DEF TInv
<1> QED BY <1>1, <1>2, <1>3, <1>4, ProgramInvariant, GraphInvariant, PTL DEF Spec

-----------------------------------------------------------------------------
(* Progress *)

LEMMA LessAt ==
    ASSUME NEW s, NEW t
    PROVE  /\ s[1] < t[1] => LexLess(s, t)
           /\ s[1] = t[1] /\ s[2] < t[2] => LexLess(s, t)
           /\ s[1] = t[1] /\ s[2] = t[2] /\ s[3] < t[3] => LexLess(s, t)
           /\ s[1] = t[1] /\ s[2] = t[2] /\ s[3] = t[3] /\ s[4] < t[4] => LexLess(s, t)
           /\ s[1] = t[1] /\ s[2] = t[2] /\ s[3] = t[3] /\ s[4] = t[4] /\ s[5] < t[5]
              => LexLess(s, t)
<1>1. /\ 1 .. 1 - 1 = {} /\ 1 .. 2 - 1 = {1} /\ 1 .. 3 - 1 = {1, 2} /\ 1 .. 4 - 1 = {1, 2, 3}
      /\ 1 .. 5 - 1 = {1, 2, 3, 4} /\ 1 .. 5 = {1, 2, 3, 4, 5}
  OBVIOUS
<1>2. ASSUME s[1] < t[1] PROVE LexLess(s, t)
  BY <1>1, <1>2 DEF LexLess
<1>3. ASSUME s[1] = t[1], s[2] < t[2] PROVE LexLess(s, t)
  BY <1>1, <1>3 DEF LexLess
<1>4. ASSUME s[1] = t[1], s[2] = t[2], s[3] < t[3] PROVE LexLess(s, t)
  BY <1>1, <1>4 DEF LexLess
<1>5. ASSUME s[1] = t[1], s[2] = t[2], s[3] = t[3], s[4] < t[4] PROVE LexLess(s, t)
  BY <1>1, <1>5 DEF LexLess
<1>6. ASSUME s[1] = t[1], s[2] = t[2], s[3] = t[3], s[4] = t[4], s[5] < t[5] PROVE LexLess(s, t)
  BY <1>1, <1>6 DEF LexLess
<1> QED BY <1>2, <1>3, <1>4, <1>5, <1>6

(* No amount of work can grow less for ever: of any amounts, one is least. *)
LEMMA WorkIsWellFounded ==
    \A T \in SUBSET Amounts : T # {} => \E t \in T : \A s \in T : ~LexLess(s, t)
<1> SUFFICES ASSUME NEW T \in SUBSET Amounts, T # {}
             PROVE  \E t \in T : \A s \in T : ~LexLess(s, t)
  OBVIOUS
<1>t. \A t \in T : t[1] \in Nat /\ t[2] \in Nat /\ t[3] \in Nat /\ t[4] \in Nat /\ t[5] \in Nat
  BY DEF Amounts
<1>1. PICK a \in {t[1] : t \in T} : \A n \in {t[1] : t \in T} : a <= n
  <2>1. {t[1] : t \in T} \in SUBSET Nat /\ {t[1] : t \in T} # {}
    BY <1>t
  <2> QED BY <2>1, LeastNumber
<1> DEFINE T1 == {t \in T : t[1] = a}
<1>2. PICK b \in {t[2] : t \in T1} : \A n \in {t[2] : t \in T1} : b <= n
  <2>1. {t[2] : t \in T1} \in SUBSET Nat /\ {t[2] : t \in T1} # {}
    BY <1>t, <1>1
  <2> QED BY <2>1, LeastNumber
<1> DEFINE T2 == {t \in T1 : t[2] = b}
<1>3. PICK c \in {t[3] : t \in T2} : \A n \in {t[3] : t \in T2} : c <= n
  <2>1. {t[3] : t \in T2} \in SUBSET Nat /\ {t[3] : t \in T2} # {}
    BY <1>t, <1>2
  <2> QED BY <2>1, LeastNumber
<1> DEFINE T3 == {t \in T2 : t[3] = c}
<1>4. PICK d \in {t[4] : t \in T3} : \A n \in {t[4] : t \in T3} : d <= n
  <2>1. {t[4] : t \in T3} \in SUBSET Nat /\ {t[4] : t \in T3} # {}
    BY <1>t, <1>3
  <2> QED BY <2>1, LeastNumber
<1> DEFINE T4 == {t \in T3 : t[4] = d}
<1>5. PICK e \in {t[5] : t \in T4} : \A n \in {t[5] : t \in T4} : e <= n
  <2>1. {t[5] : t \in T4} \in SUBSET Nat /\ {t[5] : t \in T4} # {}
    BY <1>t, <1>4
  <2> QED BY <2>1, LeastNumber
<1>6. PICK t \in T4 : t[5] = e
  BY <1>5
<1>7. ASSUME NEW s \in T, NEW k \in 1 .. 5, s[k] < t[k], \A j \in 1 .. k - 1 : s[j] = t[j]
      PROVE  FALSE
  <2>1. /\ a \in Nat /\ b \in Nat /\ c \in Nat /\ d \in Nat /\ e \in Nat
        /\ t[1] = a /\ t[2] = b /\ t[3] = c /\ t[4] = d
    BY <1>t, <1>1, <1>2, <1>3, <1>4, <1>5, <1>6
  <2>2. s[1] \in Nat /\ s[2] \in Nat /\ s[3] \in Nat /\ s[4] \in Nat /\ s[5] \in Nat
    BY <1>t
  <2>3. CASE k = 1
    <3>1. s[1] < t[1] /\ a <= s[1]
      BY <1>1, <1>7, <2>3
    <3> QED BY <2>1, <2>2, <3>1
  <2>4. CASE k = 2
    <3>1. s[1] = t[1]
      BY <1>7, <2>4
    <3> QED BY <1>2, <1>7, <2>1, <2>2, <2>4, <3>1
  <2>5. CASE k = 3
    <3>1. s[1] = t[1] /\ s[2] = t[2]
      BY <1>7, <2>5
    <3> QED BY <1>3, <1>7, <2>1, <2>2, <2>5, <3>1
  <2>6. CASE k = 4
    <3>1. s[1] = t[1] /\ s[2] = t[2] /\ s[3] = t[3]
      BY <1>7, <2>6
    <3> QED BY <1>4, <1>7, <2>1, <2>2, <2>6, <3>1
  <2>7. CASE k = 5
    <3>1. s[1] = t[1] /\ s[2] = t[2] /\ s[3] = t[3] /\ s[4] = t[4]
      BY <1>7, <2>7
    <3> QED BY <1>5, <1>6, <1>7, <2>1, <2>2, <2>7, <3>1
  <2> QED BY <2>3, <2>4, <2>5, <2>6, <2>7
<1> QED BY <1>6, <1>7 DEF LexLess

(* A file declares finitely many functions. *)
DeclaredFinitely == IsFiniteSet({n \in Names : Declared(n)})

LEMMA DeclaredFinitelyInit == Init => DeclaredFinitely
<1> SUFFICES ASSUME Init PROVE DeclaredFinitely
  OBVIOUS
<1>1. {n \in Names : Declared(n)} = {}
  BY DEF Init, externals_create, Declared, externals_getfunc, Kinds
<1> QED BY <1>1, FS_EmptySet DEF DeclaredFinitely

LEMMA DeclaredFinitelyStep ==
    ASSUME Linked, DeclaredFinitely, [Next]_vars
    PROVE  DeclaredFinitely'
<1> DEFINE D == {n \in Names : Declared(n)}
<1>1. CASE UNCHANGED ext
  BY <1>1 DEF DeclaredFinitely, Declared, externals_getfunc
<1>2. ASSUME NEW d \in Declaration, ext' = ast_externdecl_install(d)
      PROVE  DeclaredFinitely'
  <2>1. PICK E : E = D \cup {d.name}
    OBVIOUS
  <2>2. IsFiniteSet(E)
    BY <2>1, FS_AddElement DEF DeclaredFinitely
  <2>3. D' \in SUBSET E
    BY <1>2, <2>1
    DEF Linked, ast_externdecl_install, Declared, externals_getfunc, Declaration, Kinds
  <2> QED BY <2>2, <2>3, FS_Subset DEF DeclaredFinitely
<1>3. CASE pass0
  <2>1. i <= Len(root) => root[i] \in Declaration
    BY IndexFacts DEF Linked
  <2>2. CASE InstallPlain \/ InstallProto
    <3>1. PICK d \in Declaration : d = root[i]
      BY <2>1, <2>2 DEF InstallPlain, InstallProto
    <3> QED BY <1>2, <2>2, <3>1 DEF InstallPlain, InstallProto, Installed
  <2>3. CASE InstallDefinition
    <3>1. PICK d \in Declaration : d = ast_function_protostitch(root[i])
      BY <2>1, <2>3, StitchedIsDeclaration DEF InstallDefinition
    <3> QED BY <1>2, <2>3, <3>1 DEF InstallDefinition, Installed
  <2> QED BY <1>1, <1>3, <2>2, <2>3 DEF pass0, RejectProto
<1> QED BY <1>1, <1>3, DeclarationsKept

LEMMA UnenteredCounted ==
    ASSUME DeclaredFinitely
    PROVE  IsFiniteSet(Unentered) /\ Cardinality(Unentered) \in Nat
<1>1. Unentered \in SUBSET {n \in Names : Declared(n)}
  BY DEF Unentered
<1> QED BY <1>1, FS_Subset, FS_CardinalityType DEF DeclaredFinitely

(* A function is entered that was not before. *)
LEMMA UnenteredLess ==
    ASSUME DeclaredFinitely, NEW c \in Names, Declared(c), c \notin dedup,
           dedup' = dedup \cup {c}, ext' = ext
    PROVE  Cardinality(Unentered') < Cardinality(Unentered)
<1>1. Unentered' = Unentered \ {c} /\ c \in Unentered
  BY DEF Unentered, Declared, externals_getfunc
<1>2. IsFiniteSet(Unentered) /\ Cardinality(Unentered) \in Nat
  BY UnenteredCounted
<1>3. Cardinality(Unentered \ {c}) = Cardinality(Unentered) - 1
  BY <1>1, <1>2, FS_RemoveElement
<1> QED BY <1>1, <1>2, <1>3

(* The steps of recurse_buildgraph. *)
LEMMA BuildingProgress ==
    ASSUME Linked, Typed, Entered, DeclaredFinitely, Building \/ CalleeUndeclared
    PROVE  LexLess(Work', Work)
<1>0. status = "graph" /\ ext' = ext
  BY BuildingFacts
  DEF Building, ast_function_buildgraph, NextStatement, SkipDuplicate, CalleeUndeclared, Callee, Return, InFrame
<1>1. Work = <<7, Cardinality(Unentered), Len(frames),
               IF frames = <<>> THEN 0 ELSE Len(Top.stmts),
               IF frames = <<>> THEN 0 ELSE Len(Top.funcs)>>
  BY <1>0 DEF Work
<1>2. status' = "graph" =>
        Work' = <<7, Cardinality(Unentered'), Len(frames'),
                  IF frames' = <<>> THEN 0 ELSE Len(Top'.stmts),
                  IF frames' = <<>> THEN 0 ELSE Len(Top'.funcs)>>
  BY DEF Work
<1>3. CASE status' # "graph"
  <2>1. status' \in {"undeclared", "crash", "indegrees"}
    BY <1>3, BuildingFacts DEF CalleeUndeclared
  <2>2. Work'[1] < 7
    BY <2>1 DEF Work
  <2> QED BY <1>1, <2>2, LessAt
<1>4. CASE status' = "graph" /\ ast_function_buildgraph
  <2>1. dedup = {} /\ dedup' = dedup \cup {sortfunc} /\ Declared(sortfunc)
    BY <1>4 DEF ast_function_buildgraph, Declared
  <2>2. Cardinality(Unentered') < Cardinality(Unentered)
    BY <1>0, <2>1, UnenteredLess DEF Typed
  <2> QED BY <1>1, <1>2, <1>4, <2>2, LessAt
<1>5. CASE status' = "graph" /\ NextStatement
  <2>1. /\ InFrame /\ Top.stmts # <<>> /\ UNCHANGED dedup
        /\ frames' = WithTop([Top EXCEPT !.stmts = Tail(@), !.funcs = GetFuncs(Head(Top.stmts))])
    BY <1>0, <1>5 DEF NextStatement
  <2>2. Top \in Frame /\ Top.stmts \in Seq(Statements)
    BY <2>1, TopFacts DEF Frame
  <2>3. Len(Tail(Top.stmts)) < Len(Top.stmts)
    BY <2>1, <2>2
  <2>4. PICK f : f = [Top EXCEPT !.stmts = Tail(@), !.funcs = GetFuncs(Head(Top.stmts))]
    OBVIOUS
  <2>5. f \in Frame /\ f.stmts = Tail(Top.stmts)
    <3>1. Head(Top.stmts) \in Statements /\ Tail(Top.stmts) \in Seq(Statements)
      BY <2>1, <2>2, TailFacts
    <3>2. AssertionFails \notin ToSet(GetFuncs(Head(Top.stmts)))
      BY <1>0, <1>5 DEF NextStatement
    <3>3. GetFuncs(Head(Top.stmts)) \in Seq(Names)
      BY <3>1, <3>2, FuncsAreNames
    <3> QED BY <2>2, <2>4, <3>1, <3>3 DEF Frame
  <2>6. Len(frames') = Len(frames) /\ Top' = f /\ frames # <<>> /\ frames' # <<>>
    <3>1. frames' = WithTop(f)
      BY <2>1, <2>4
    <3> QED BY <2>1, <2>5, <3>1, TopFacts DEF Top, InFrame
  <2>7. Unentered' = Unentered
    BY <1>0, <2>1 DEF Unentered, Declared, externals_getfunc
  <2>8. Work = <<7, Cardinality(Unentered), Len(frames), Len(Top.stmts), Len(Top.funcs)>>
    BY <1>1, <2>6
  <2>9. Work' = <<7, Cardinality(Unentered), Len(frames), Len(Tail(Top.stmts)), Len(f.funcs)>>
    BY <1>2, <1>5, <2>5, <2>6, <2>7
  <2> QED BY <2>3, <2>8, <2>9, LessAt
<1>6. CASE status' = "graph" /\ SkipDuplicate
  <2>1. /\ InFrame /\ Top.funcs # <<>> /\ UNCHANGED dedup
        /\ frames' = WithTop([Top EXCEPT !.funcs = Tail(@)])
    BY <1>6 DEF SkipDuplicate
  <2>2. Top \in Frame /\ Top.funcs \in Seq(Names)
    BY <2>1, TopFacts DEF Frame
  <2>3. Tail(Top.funcs) \in Seq(Names) /\ Len(Tail(Top.funcs)) < Len(Top.funcs)
    BY <2>1, <2>2
  <2>4. PICK f : f = [Top EXCEPT !.funcs = Tail(@)]
    OBVIOUS
  <2>5. f \in Frame /\ f.stmts = Top.stmts /\ f.funcs = Tail(Top.funcs)
    BY <2>2, <2>3, <2>4 DEF Frame
  <2>6. Len(frames') = Len(frames) /\ Top' = f /\ frames # <<>> /\ frames' # <<>>
    <3>1. frames' = WithTop(f)
      BY <2>1, <2>4
    <3> QED BY <2>1, <2>5, <3>1, TopFacts DEF Top, InFrame
  <2>7. Unentered' = Unentered
    BY <1>0, <2>1 DEF Unentered, Declared, externals_getfunc
  <2>8. Work = <<7, Cardinality(Unentered), Len(frames), Len(Top.stmts), Len(Top.funcs)>>
    BY <1>1, <2>6
  <2>9. Work' = <<7, Cardinality(Unentered), Len(frames), Len(Top.stmts), Len(Tail(Top.funcs))>>
    BY <1>2, <1>6, <2>5, <2>6, <2>7
  <2> QED BY <2>3, <2>8, <2>9, LessAt
<1>7. CASE status' = "graph" /\ Callee
  <2>1. PICK c : c = Head(Top.funcs)
    OBVIOUS
  <2>2. /\ InFrame /\ Top.funcs # <<>> /\ Declared(c) /\ dedup' = dedup \cup {c}
    BY <1>7, <2>1 DEF Callee, Declared
  <2>3. Top \in Frame /\ Top.funcs \in Seq(Names) /\ c \in Names /\ Noted(c) \in Frame
    BY <2>1, <2>2, TopFacts, NotedIsFrame DEF Frame
  <2>4. CASE c \notin dedup
    <3>1. Cardinality(Unentered') < Cardinality(Unentered)
      BY <1>0, <2>2, <2>3, <2>4, UnenteredLess
    <3> QED BY <1>1, <1>2, <1>7, <3>1, LessAt
  <2>5. CASE c \in dedup
    <3>1. dedup' = dedup /\ frames' = WithTop(Noted(c))
      BY <1>7, <2>1, <2>2, <2>5 DEF Callee
    <3>2. Noted(c).stmts = Top.stmts /\ Noted(c).funcs = Tail(Top.funcs)
      BY <2>3 DEF Noted, Frame
    <3>3. Len(Tail(Top.funcs)) < Len(Top.funcs)
      BY <2>2, <2>3
    <3>4. Len(frames') = Len(frames) /\ Top' = Noted(c) /\ frames # <<>> /\ frames' # <<>>
      BY <2>2, <2>3, <3>1, TopFacts DEF Top, InFrame
    <3>5. Unentered' = Unentered
      BY <1>0, <3>1 DEF Unentered, Declared, externals_getfunc
    <3>6. Work = <<7, Cardinality(Unentered), Len(frames), Len(Top.stmts), Len(Top.funcs)>>
      BY <1>1, <3>4
    <3>7. Work' = <<7, Cardinality(Unentered), Len(frames), Len(Top.stmts), Len(Tail(Top.funcs))>>
      BY <1>2, <1>7, <3>2, <3>4, <3>5
    <3> QED BY <3>3, <3>6, <3>7, LessAt
  <2> QED BY <2>4, <2>5
<1>8. CASE status' = "graph" /\ Return
  <2>1. InFrame /\ dedup' = dedup /\ frames' = SubSeq(frames, 1, Len(frames) - 1)
    BY <1>8 DEF Return
  <2>2. frames \in Seq(Frame) /\ Len(frames) \in Nat \ {0}
    BY <2>1, TopFacts DEF Typed
  <2>3. Len(frames') < Len(frames)
    BY <2>1, <2>2
  <2>4. Unentered' = Unentered
    BY <1>0, <2>1 DEF Unentered, Declared, externals_getfunc
  <2> QED BY <1>1, <1>2, <1>8, <2>3, <2>4, LessAt
<1> QED BY <1>3, <1>4, <1>5, <1>6, <1>7, <1>8 DEF Building, CalleeUndeclared

LEMMA LeftFacts ==
    ASSUME NEW k \in Nat, NEW n \in Nat
    PROVE  Left(k, n) \in Nat /\ (k <= n => Left(k + 1, n) < Left(k, n))
BY DEF Left

(* The steps of the loops of the sort. *)
LEMMA SortProgress ==
    ASSUME Linked, Typed, Collected,
           \/ LoopEnds("indegrees", Len(keys), "count") \/ InitIndegree \/ InitDependency
           \/ LoopEnds("count", Len(ikeys), "zero") \/ CountIndegree
           \/ LoopEnds("zero", Len(ikeys), "order") \/ build_indegree_zero
           \/ Dequeue \/ Scan \/ ScanEnds \/ CycleDetected
    PROVE  LexLess(Work', Work)
<1>0. i \in Nat /\ Len(keys) \in Nat /\ Len(ikeys) \in Nat /\ Len(order) \in Nat /\ inner \in Nat
  BY DEF Linked, Typed
<1>1. CASE \/ LoopEnds("indegrees", Len(keys), "count") \/ LoopEnds("count", Len(ikeys), "zero")
           \/ LoopEnds("zero", Len(ikeys), "order") \/ CycleDetected
  <2>1. \/ status = "indegrees" /\ status' = "count"
        \/ status = "count" /\ status' = "zero"
        \/ status = "zero" /\ status' = "order"
        \/ status = "order" /\ status' = "cycle"
    BY <1>1 DEF LoopEnds, CycleDetected
  <2>2. Work'[1] < Work[1]
    BY <2>1 DEF Work
  <2> QED BY <2>2, LessAt
<1>2. CASE InitIndegree \/ InitDependency
  <2>1. /\ status = "indegrees" /\ status' = "indegrees" /\ UNCHANGED <<keys, deps>>
        /\ inner = 0 => i <= Len(keys)
    BY <1>2 DEF InitIndegree, InitDependency, graph
  <2>2. /\ Work[1] = 6 /\ Work[2] = Left(i, Len(keys))
        /\ i <= Len(keys) => Work[3] = Left(inner, Len(deps[keys[i]]))
    BY <1>0, <2>1 DEF Work
  <2>3. /\ Work'[1] = 6 /\ Work'[2] = Left(i', Len(keys))
        /\ i' = i /\ i <= Len(keys) => Work'[3] = Left(inner', Len(deps[keys[i]]))
    BY <1>0, <2>1 DEF Work
  <2>4. i <= Len(keys) => Len(deps[keys[i]]) \in Nat
    BY IndexFacts DEF Typed
  <2>5. i <= Len(keys)
    BY <1>2 DEF InitIndegree, InitDependency, Collected
  <2>6. CASE i' = i + 1
    BY <1>0, <2>2, <2>3, <2>5, <2>6, LeftFacts, LessAt
  <2>7. CASE i' = i /\ inner' = inner + 1 /\ inner <= Len(deps[keys[i]])
    <3>1. Left(inner', Len(deps[keys[i]])) < Left(inner, Len(deps[keys[i]]))
      BY <1>0, <2>4, <2>5, <2>7, LeftFacts
    <3> QED BY <2>2, <2>3, <2>5, <2>7, <3>1, LessAt
  <2>8. i' = i + 1 \/ (i' = i /\ inner' = inner + 1 /\ inner <= Len(deps[keys[i]]))
    BY <1>0, <1>2, <2>4, <2>5 DEF InitIndegree, InitDependency
  <2> QED BY <2>6, <2>7, <2>8
<1>3. CASE CountIndegree \/ build_indegree_zero
  <2>1. /\ status \in {"count", "zero"} /\ UNCHANGED <<status, ikeys>>
        /\ i <= Len(ikeys) /\ i' = i + 1
    BY <1>3 DEF CountIndegree, build_indegree_zero, degrees
  <2>2. Work[1] = Work'[1] /\ Work[2] = Left(i, Len(ikeys)) /\ Work'[2] = Left(i + 1, Len(ikeys))
    BY <2>1 DEF Work
  <2> QED BY <1>0, <2>1, <2>2, LeftFacts, LessAt
<1>4. CASE Dequeue \/ Scan \/ ScanEnds
  <2>1. status = "order" /\ status' = "order" /\ keys' = keys
    BY <1>4 DEF Dequeue, Scan, ScanEnds, graph
  <2>2. Work = <<3, Len(keys) - Len(order), IF curr = NONE THEN 0 ELSE 1, Left(i, Len(keys)), 0>>
    BY <2>1 DEF Work
  <2>3. Work' = <<3, Len(keys) - Len(order'), IF curr' = NONE THEN 0 ELSE 1, Left(i', Len(keys)), 0>>
    BY <2>1 DEF Work
  <2>4. CASE Dequeue
    <3>1. zero # <<>> /\ order' = Append(order, Head(zero))
      BY <2>4 DEF Dequeue
    <3>2. Len(order') = Len(order) + 1
      BY <3>1, TailFacts, AppendFacts DEF Typed
    <3> QED BY <1>0, <2>2, <2>3, <3>2, LessAt
  <2>5. CASE Scan
    <3>1. i <= Len(keys) /\ i' = i + 1 /\ UNCHANGED <<curr, order>>
      BY <2>5 DEF Scan
    <3>2. Left(i', Len(keys)) < Left(i, Len(keys))
      BY <1>0, <3>1, LeftFacts
    <3> QED BY <2>2, <2>3, <3>1, <3>2, LessAt
  <2>6. CASE ScanEnds
    <3>1. curr # NONE /\ curr' = NONE /\ order' = order
      BY <2>6 DEF ScanEnds
    <3> QED BY <2>2, <2>3, <3>1, LessAt
  <2> QED BY <1>4, <2>4, <2>5, <2>6
<1> QED BY <1>1, <1>2, <1>3, <1>4

(* The steps of the program's own loops. *)
LEMMA LoopProgress ==
    ASSUME Linked, Typed, pass0 \/ Pass0Ends \/ pass1 \/ Ordered \/ pass_inorder \/ verify_ends
    PROVE  LexLess(Work', Work)
<1>0. i \in Nat /\ Len(root) \in Nat /\ Len(order) \in Nat
  BY DEF Linked, Typed
<1>1. CASE UNCHANGED status
  <2>1. /\ i' = i + 1
        /\ \/ status \in {"pass0", "pass1"} /\ i <= Len(root) /\ Len(root') = Len(root)
           \/ status = "inorder" /\ i <= Len(order) /\ order' = order
    <3>1. CASE pass0
      <4>1. ~RejectProto
        BY <1>1, VerifyprotoResult DEF RejectProto
      <4>2. i <= Len(root) /\ status = "pass0" /\ i' = i + 1
        BY <3>1, <4>1 DEF pass0, InstallPlain, InstallProto, InstallDefinition, Installed
      <4>3. root' = root \/ root' = [root EXCEPT ![i] = ast_function_protostitch(root[i])]
        BY <3>1, <4>1 DEF pass0, InstallPlain, InstallProto, InstallDefinition
      <4>4. Len(root') = Len(root)
        BY <4>3 DEF Linked
      <4> QED BY <4>2, <4>4
    <3>2. CASE pass1
      BY <1>1, <3>2 DEF pass1, Verify
    <3>3. CASE pass_inorder
      BY <1>1, <3>3 DEF pass_inorder, Verify, graph_vars, queue
    <3>4. CASE Pass0Ends \/ Ordered \/ verify_ends
      BY <1>1, <3>4 DEF Pass0Ends, Ordered, OrderIsComplete, verify_ends
    <3> QED BY <3>1, <3>2, <3>3, <3>4
  <2>2. CASE status \in {"pass0", "pass1"}
    <3>1. Work[1] = Work'[1] /\ Work[2] = Left(i, Len(root)) /\ Work'[2] = Left(i + 1, Len(root))
      BY <1>1, <2>1, <2>2 DEF Work
    <3> QED BY <1>0, <2>1, <2>2, <3>1, LeftFacts, LessAt
  <2>3. CASE status = "inorder"
    <3>1. Work[1] = Work'[1] /\ Work[2] = Left(i, Len(order)) /\ Work'[2] = Left(i + 1, Len(order))
      BY <1>1, <2>1, <2>3 DEF Work
    <3> QED BY <1>0, <2>1, <2>3, <3>1, LeftFacts, LessAt
  <2> QED BY <2>1, <2>2, <2>3
<1>2. CASE status' # status
  <2>1. \/ status = "pass0" /\ status' \in {"missing", "multiple", "mismatch", "pass1", "graph"}
        \/ status = "order" /\ status' \in {"done", "inorder"}
        \/ status \in {"pass1", "inorder"} /\ status' \in {"unproved", "done"}
    BY <1>2, VerifyprotoResult
    DEF pass0, InstallPlain, InstallProto, RejectProto, InstallDefinition, Installed,
        Pass0Ends, pass1, Ordered, OrderIsComplete, pass_inorder, verify_ends, Verify
  <2>2. Work'[1] < Work[1]
    BY <2>1 DEF Work
  <2> QED BY <2>2, LessAt
<1> QED BY <1>1, <1>2

(* What is left is counted by numbers. *)
LEMMA WorkCounted ==
    ASSUME IInv, Ranked, DeclaredFinitely, status = "strip" => Stripped
    PROVE  Work \in Amounts
<1>0. i \in Nat /\ Len(root) \in Nat /\ Len(keys) \in Nat /\ Len(ikeys) \in Nat
      /\ Len(order) \in Nat /\ inner \in Nat /\ Cardinality(Unentered) \in Nat
  BY UnenteredCounted DEF IInv, Linked, Typed
<1>1. Left(i, Len(root)) \in Nat /\ Left(i, Len(keys)) \in Nat /\ Left(i, Len(ikeys)) \in Nat
      /\ Left(i, Len(order)) \in Nat
  BY <1>0, LeftFacts
<1>2. ASSUME status = "graph" PROVE Work \in Amounts
  <2>1. Len(frames) \in Nat
    BY DEF IInv, Typed
  <2>2. frames # <<>> => Top \in Frame
    BY <1>2, TopFacts DEF IInv, InFrame
  <2>3. frames # <<>> => Len(Top.stmts) \in Nat /\ Len(Top.funcs) \in Nat
    BY <2>2 DEF Frame
  <2> QED BY <1>0, <1>2, <2>1, <2>3 DEF Work, Amounts
<1>3. ASSUME status = "indegrees" PROVE Work \in Amounts
  <2>1. i <= Len(keys) => Left(inner, Len(deps[keys[i]])) \in Nat
    <3>1. ASSUME i <= Len(keys) PROVE Len(deps[keys[i]]) \in Nat
      BY <3>1, IndexFacts DEF IInv, Typed
    <3> QED BY <1>0, <3>1, LeftFacts
  <2> QED BY <1>0, <1>1, <1>3, <2>1 DEF Work, Amounts
<1>4. ASSUME status = "order" PROVE Work \in Amounts
  <2>1. ToSet(order) \subseteq ToSet(keys) /\ Injective(order) /\ Injective(keys)
    BY <1>4 DEF Ranked, HasGraph, Loops, IInv, Sorted, Entered
  <2>2. Len(order) <= Len(keys)
    <3>1. /\ IsFiniteSet(ToSet(keys)) /\ Cardinality(ToSet(keys)) = Len(keys)
          /\ Cardinality(ToSet(order)) = Len(order)
      BY <2>1, InjectiveCount DEF IInv, Typed
    <3> QED BY <2>1, <3>1, FS_Subset
  <2>3. Len(keys) - Len(order) \in Nat
    BY <1>0, <2>2
  <2> QED BY <1>1, <1>4, <2>3 DEF Work, Amounts
<1>5. ASSUME status = "strip" PROVE Work \in Amounts
  <2>1. Len(file) - pos \in Nat
    BY <1>5 DEF Stripped
  <2> QED BY <1>5, <2>1 DEF Work, Amounts
<1>6. ASSUME status \notin {"graph", "indegrees", "order", "strip"} PROVE Work \in Amounts
  BY <1>1, <1>6 DEF Work, Amounts
<1> QED BY <1>2, <1>3, <1>4, <1>5, <1>6
=============================================================================
