----------------------------- MODULE PathProofs -----------------------------
(***************************************************************************)
(* Proofs about modules Path and EachCase, for every set of conditions and *)
(* for every executor.                                                     *)
(***************************************************************************)
EXTENDS EachCase, TLAPS

-----------------------------------------------------------------------------
(* The inductive invariant. *)

Consistent(P) == \A p \in P : ast_expr_inverted_copy(p) \notin P

(* What is known of the path named n. *)
NodeOK(n, node) ==
    /\ node \in Node
    /\ node.path_state \notin {"HALFWAY", "AUDIT"}
    /\ node.path_state = "ABSTRACT" => node.abstract # NoState
    /\ node.path_state = "ACTUAL" =>
            /\ node.abstract # NoState
            /\ node.actual # NoState
            /\ state_atend(node.abstract.x)
    /\ \A s \in States(node) :
            /\ Consistent(s.props)
            /\ \A v \in Valuation : Selects(v, n) => Satisfies(v, s.props)
    /\ node.path_state = "ATEND" =>
            Audited(node) \/ \A v \in Valuation : ~Selects(v, n)

(* Only a path that was split has paths below it. *)
ParentsAreSplit ==
    \A n \in Seq(Cond), c \in Cond :
        Append(n, c) \in DOMAIN tree =>
            n \in DOMAIN tree /\ tree[n].path_state = "SPLIT"

VerifiedAtEnd == verdict = "verified" => path_atend

PathInv ==
    /\ TypeOK
    /\ \A n \in DOMAIN tree : NodeOK(n, tree[n])
    /\ ParentsAreSplit
    /\ ExactlyOnePath
    /\ VerifiedAtEnd

-----------------------------------------------------------------------------
(* Propositions. *)

(* The inversion of a condition is a condition (ast_expr_inverted_copy)    *)
(* that holds exactly when the condition does not.                         *)
LEMMA InvertedHolds ==
    ASSUME NEW v \in Valuation, NEW c \in Cond
    PROVE  /\ ast_expr_inverted_copy(c) \in Cond
           /\ Holds(v, ast_expr_inverted_copy(c)) <=> ~Holds(v, c)
<1> DEFINE i == ast_expr_inverted_copy(c)
<1>1. i \in Cond /\ i.atom = c.atom /\ i.bangs = c.bangs + 1
  BY DEF Cond, ast_expr_inverted_copy
<1>2. (i.bangs % 2 = 0) <=> ~(c.bangs % 2 = 0)
  BY <1>1 DEF Cond
<1>3. v[c.atom] \in BOOLEAN
  BY DEF Valuation, Cond
<1> HIDE DEF i
<1>4. Holds(v, i) <=> ~Holds(v, c)
  BY <1>1, <1>2, <1>3 DEF Holds
<1> QED
  BY <1>1, <1>4 DEF i

(* What is installed for a condition (reduce_assume) is a literal that     *)
(* holds exactly when the condition does.                                  *)
LEMMA ReducedHolds ==
    ASSUME NEW v \in Valuation, NEW c \in Cond
    PROVE  /\ reduce_assume(c) \in Literal
           /\ Holds(v, reduce_assume(c)) <=> Holds(v, c)
<1> DEFINE r == reduce_assume(c)
<1>1. r \in Literal /\ r.atom = c.atom /\ r.bangs = c.bangs % 2
  BY DEF Cond, Literal, reduce_assume
<1>2. r.bangs % 2 = c.bangs % 2
  BY <1>1 DEF Cond
<1> HIDE DEF r
<1>3. Holds(v, r) <=> Holds(v, c)
  BY <1>1, <1>2 DEF Holds
<1> QED
  BY <1>1, <1>3 DEF r

LEMMA LiteralIsCond == Literal \subseteq Cond
  BY DEF Literal, Cond

(* A condition that contradicts true propositions is false.                *)
LEMMA ContradictionFails ==
    ASSUME NEW v \in Valuation, NEW P \in SUBSET Literal, NEW c \in Cond,
           Satisfies(v, P), props_contradicts(P, c)
    PROVE  ~Holds(v, c)
<1>1. PICK p \in P : c = ast_expr_inverted_copy(p) \/ ast_expr_inverted_copy(c) = p
  BY DEF props_contradicts
<1>2. p \in Cond /\ Holds(v, p)
  BY <1>1, LiteralIsCond DEF Satisfies
<1>3. CASE c = ast_expr_inverted_copy(p)
  BY <1>2, <1>3, InvertedHolds
<1>4. CASE ast_expr_inverted_copy(c) = p
  BY <1>2, <1>4, InvertedHolds
<1> QED
  BY <1>1, <1>3, <1>4

(* Consistent literals are true together for some truth values.            *)
LEMMA ConsistentSatisfiable ==
    ASSUME NEW P \in SUBSET Literal, Consistent(P)
    PROVE  \E v \in Valuation : Satisfies(v, P)
<1> DEFINE w == [a \in Atoms |-> Positive(a) \in P]
<1>1. w \in Valuation
  BY DEF Valuation
<1>2. ASSUME NEW p \in P PROVE Holds(w, p)
  <2>1. p \in Literal
    OBVIOUS
  <2>2. CASE p.bangs = 0
    <3>1. p = Positive(p.atom)
      BY <2>1, <2>2 DEF Literal, Positive
    <3>2. w[p.atom]
      BY <3>1, <2>1 DEF Literal
    <3> HIDE DEF w
    <3> QED
      BY <3>2, <2>2 DEF Holds
  <2>3. CASE p.bangs = 1
    <3>1. p = ast_expr_inverted_copy(Positive(p.atom))
      BY <2>1, <2>3 DEF Literal, Positive, ast_expr_inverted_copy
    <3>2. Positive(p.atom) \notin P
      BY <3>1 DEF Consistent
    <3>3. ~w[p.atom]
      BY <3>2, <2>1 DEF Literal
    <3> HIDE DEF w
    <3> QED
      BY <3>3, <2>3 DEF Holds
  <2> QED
    BY <2>1, <2>2, <2>3 DEF Literal
<1> QED
  BY <1>1, <1>2 DEF Satisfies

-----------------------------------------------------------------------------
(* Names of paths. *)

(* The name of a path that is split further selects fewer truth values.    *)
LEMMA SelectsAppend ==
    ASSUME NEW v \in Valuation, NEW n \in Seq(Cond), NEW c \in Cond
    PROVE  Selects(v, Append(n, c)) <=> Selects(v, n) /\ Holds(v, c)
<1> DEFINE m == Append(n, c)
<1>1. Len(m) = Len(n) + 1 /\ m[Len(n) + 1] = c /\ Len(n) \in Nat
  OBVIOUS
<1>2. \A i \in 1 .. Len(n) : m[i] = n[i]
  OBVIOUS
<1> HIDE DEF m
<1>3. Selects(v, m) <=> (\A i \in 1 .. Len(n) : Holds(v, m[i])) /\ Holds(v, m[Len(n) + 1])
  BY <1>1 DEF Selects
<1>4. (\A i \in 1 .. Len(n) : Holds(v, m[i])) <=> Selects(v, n)
  BY <1>2 DEF Selects
<1>5. Selects(v, m) <=> Selects(v, n) /\ Holds(v, c)
  BY <1>1, <1>3, <1>4
<1> QED
  BY <1>5 DEF m

-----------------------------------------------------------------------------
(* What happens to one path. *)

(* Assuming a condition that contradicts nothing keeps a state consistent, *)
(* and true where the old assumptions and the condition are.               *)
LEMMA AssumeKeeps ==
    ASSUME NEW s \in SymState, NEW c \in Cond, Consistent(s.props)
    PROVE  /\ state_assume(s, c) \in SymState
           /\ state_assume(s, c).x = s.x
           /\ Consistent(state_assume(s, c).props)
           /\ \A v \in Valuation :
                Satisfies(v, s.props) /\ Holds(v, c) => Satisfies(v, state_assume(s, c).props)
<1> DEFINE p == reduce_assume(c)
           t == state_assume(s, c)
<1>1. p \in Literal
  BY DEF Cond, Literal, reduce_assume
<1>2. CASE contradicts(s, c)
  BY <1>2 DEF state_assume, contradicts
<1>3. CASE ~contradicts(s, c)
  <2>1. t = [s EXCEPT !.props = s.props \cup {p}]
    BY <1>3 DEF state_assume, contradicts, props_install
  <2>2. t \in SymState /\ t.x = s.x /\ t.props = s.props \cup {p}
    BY <2>1, <1>1 DEF SymState
  <2>3. \A q \in s.props : q # ast_expr_inverted_copy(p) /\ p # ast_expr_inverted_copy(q)
    BY <1>3 DEF contradicts, props_contradicts
  <2>4. p # ast_expr_inverted_copy(p)
    BY <1>1 DEF Literal, ast_expr_inverted_copy
  <2>5. Consistent(t.props)
    BY <2>2, <2>3, <2>4 DEF Consistent
  <2>6. ASSUME NEW v \in Valuation, Satisfies(v, s.props), Holds(v, c)
        PROVE  Satisfies(v, t.props)
    BY <2>2, <2>6, ReducedHolds DEF Satisfies
  <2> QED
    BY <2>2, <2>5, <2>6
<1> QED
  BY <1>2, <1>3

(* Each copy made by a split is in order for its own name: a contradiction *)
(* ends it, and then its name stands for no truth values.                  *)
LEMMA CopyKeeps ==
    ASSUME NEW n \in Seq(Cond), NEW node, NEW c \in Cond,
           NodeOK(n, node), node.path_state \in {"ABSTRACT", "ACTUAL"}
    PROVE  /\ NodeOK(Append(n, c), path_copywithcond(node, c))
           /\ path_copywithcond(node, c).path_state # "SPLIT"
<1> DEFINE s == Executing(node)
           t == state_assume(s, c)
           m == Append(n, c)
           copy == path_copywithcond(node, c)
<1>1. node \in Node /\ s \in States(node) /\ s \in SymState
  BY DEF NodeOK, Node, Executing, States
<1>2. /\ Consistent(s.props)
      /\ \A v \in Valuation : Selects(v, n) => Satisfies(v, s.props)
  BY <1>1 DEF NodeOK
<1>3. /\ t \in SymState /\ t.x = s.x /\ Consistent(t.props)
      /\ \A v \in Valuation :
            Satisfies(v, s.props) /\ Holds(v, c) => Satisfies(v, t.props)
  BY <1>1, <1>2, AssumeKeeps
<1>4. \A v \in Valuation : Selects(v, m) => Selects(v, n) /\ Holds(v, c)
  BY SelectsAppend
<1>5. \A v \in Valuation : Selects(v, m) => Satisfies(v, t.props)
  BY <1>2, <1>3, <1>4
<1>6. t # NoState
  BY <1>3, NoStateAssumption DEF SymState
<1>7. /\ copy \in Node
      /\ copy.path_state = IF contradicts(s, c) THEN "ATEND" ELSE node.path_state
      /\ copy.abstract = IF node.path_state = "ABSTRACT" THEN t ELSE node.abstract
      /\ copy.actual = IF node.path_state = "ABSTRACT" THEN node.actual ELSE t
  BY <1>1, <1>3 DEF path_copywithcond, WithExecuting, Node, PathState
<1>8. \A u \in States(copy) : u = t \/ u \in States(node)
  BY <1>7 DEF States
<1>9. \A u \in States(copy) :
        /\ Consistent(u.props)
        /\ \A v \in Valuation : Selects(v, m) => Satisfies(v, u.props)
  BY <1>3, <1>4, <1>5, <1>8 DEF NodeOK
<1>10. contradicts(s, c) => \A v \in Valuation : ~Selects(v, m)
  <2> SUFFICES ASSUME contradicts(s, c), NEW v \in Valuation, Selects(v, m)
               PROVE  FALSE
    OBVIOUS
  <2>1. Satisfies(v, s.props) /\ Holds(v, c)
    BY <1>2, <1>4
  <2>2. reduce_assume(c) \in Cond /\ Holds(v, reduce_assume(c))
    BY <2>1, ReducedHolds, LiteralIsCond
  <2>3. s.props \in SUBSET Literal
    BY <1>1 DEF SymState
  <2> QED
    BY <2>1, <2>2, <2>3, ContradictionFails DEF contradicts
<1>11. /\ copy.path_state = "ABSTRACT" => copy.abstract # NoState
       /\ copy.path_state = "ACTUAL" =>
            /\ copy.abstract # NoState
            /\ copy.actual # NoState
            /\ state_atend(copy.abstract.x)
  BY <1>6, <1>7 DEF NodeOK
<1>12. copy.path_state \in {"ABSTRACT", "ACTUAL", "ATEND"}
  BY <1>7
<1> HIDE DEF copy, m, s, t
<1>13. copy.path_state = "ATEND" => \A v \in Valuation : ~Selects(v, m)
  BY <1>7, <1>10
<1>14. NodeOK(m, copy) /\ copy.path_state # "SPLIT"
  BY <1>7, <1>9, <1>11, <1>12, <1>13 DEF NodeOK
<1> QED
  BY <1>14 DEF copy, m

-----------------------------------------------------------------------------
(* What happens to the tree. *)

(* Replacing the node of a leaf by another that is in order, and not split,*)
(* preserves the invariant.                                                *)
LEMMA ContinueKeeps ==
    ASSUME PathInv, verdict = "running", NEW n \in turn, NEW node,
           NodeOK(n, node), node.path_state # "SPLIT", Continue(n, node)
    PROVE  PathInv'
<1>1. n \in DOMAIN tree /\ tree[n].path_state # "SPLIT" /\ turn \subseteq Unfinished
  BY DEF PathInv, TypeOK, Unfinished, Leaves
<1>2. /\ tree' = [tree EXCEPT ![n] = node]
      /\ turn' = turn \ {n} /\ fn' = fn /\ verdict' = verdict
  BY DEF Continue
<1>3. /\ DOMAIN tree' = DOMAIN tree
      /\ tree'[n] = node
      /\ \A m \in DOMAIN tree \ {n} : tree'[m] = tree[m]
  BY <1>1, <1>2 DEF PathInv, TypeOK
<1>4. Leaves' = Leaves
  BY <1>1, <1>3 DEF Leaves
<1>5. turn' \subseteq Unfinished'
  BY <1>1, <1>2, <1>3, <1>4 DEF Unfinished, Leaves
<1>6. \A m \in (DOMAIN tree)' : NodeOK(m, tree[m])'
  BY <1>3 DEF PathInv, NodeOK
<1>7. TypeOK'
  BY <1>2, <1>3, <1>5, <1>1 DEF PathInv, TypeOK, NodeOK
<1>8. ParentsAreSplit'
  BY <1>1, <1>3 DEF PathInv, ParentsAreSplit
<1>9. ExactlyOnePath'
  BY <1>4 DEF PathInv, ExactlyOnePath
<1>10. VerifiedAtEnd'
  BY <1>2 DEF VerifiedAtEnd
<1> QED
  BY <1>6, <1>7, <1>8, <1>9, <1>10 DEF PathInv

(* path_split replaces a leaf by two.                                      *)
LEMMA SplitKeeps ==
    ASSUME PathInv, verdict = "running", NEW n \in turn, NEW node, NEW c \in Cond,
           NodeOK(n, node), node.path_state \in {"ABSTRACT", "ACTUAL"},
           tree' = path_split(n, node, c), turn' = turn \ {n},
           UNCHANGED <<fn, verdict>>
    PROVE  PathInv'
<1> DEFINE no   == ast_expr_inverted_copy(c)
           yesn == Append(n, c)
           non  == Append(n, no)
<1>1. /\ n \in DOMAIN tree /\ tree[n].path_state # "SPLIT"
      /\ turn \subseteq Unfinished /\ n \in Seq(Cond) /\ n \in Leaves
  BY DEF PathInv, TypeOK, Unfinished, Leaves
<1>2. no \in Cond /\ no # c
  BY DEF ast_expr_inverted_copy, Cond
<1>3. yesn \in Seq(Cond) /\ non \in Seq(Cond) /\ yesn # non /\ yesn # n /\ non # n
  <2>1. Len(yesn) = Len(n) + 1 /\ Len(non) = Len(n) + 1 /\ Len(n) \in Nat
    BY <1>1
  <2>2. yesn[Len(n) + 1] = c /\ non[Len(n) + 1] = no
    BY <1>1, <1>2
  <2> QED
    BY <1>1, <1>2, <2>1, <2>2
<1>4. yesn \notin DOMAIN tree /\ non \notin DOMAIN tree
  BY <1>1, <1>2 DEF PathInv, ParentsAreSplit
<1>5. /\ DOMAIN tree' = DOMAIN tree \cup {yesn, non}
      /\ tree'[yesn] = path_copywithcond(node, c)
      /\ tree'[non] = path_copywithcond(node, no)
      /\ tree'[n] = [path_state |-> "SPLIT", abstract |-> NoState, actual |-> NoState]
      /\ \A m \in DOMAIN tree \ {n} : tree'[m] = tree[m]
      /\ tree' \in [DOMAIN tree' -> {tree'[m] : m \in DOMAIN tree'}]
  BY <1>1, <1>3, <1>4 DEF path_split
<1> HIDE DEF no, yesn, non
<1>6. /\ NodeOK(yesn, tree'[yesn]) /\ tree'[yesn].path_state # "SPLIT"
      /\ NodeOK(non, tree'[non]) /\ tree'[non].path_state # "SPLIT"
  BY <1>1, <1>2, <1>5, CopyKeeps DEF yesn, non
<1>7. NodeOK(n, tree'[n])
  BY <1>5 DEF NodeOK, Node, PathState, States
<1>8. \A m \in DOMAIN tree' : NodeOK(m, tree'[m])
  BY <1>5, <1>6, <1>7 DEF PathInv
<1>9. \A m \in (DOMAIN tree)' : NodeOK(m, tree[m])'
  BY <1>8 DEF NodeOK
<1>10. Leaves' = (Leaves \ {n}) \cup {yesn, non}
  BY <1>1, <1>3, <1>4, <1>5, <1>6 DEF Leaves
<1>11. turn' \subseteq Unfinished'
  BY <1>1, <1>3, <1>4, <1>5, <1>10 DEF Unfinished, Leaves
<1>12. TypeOK'
  <2>1. \A m \in DOMAIN tree' : tree'[m] \in Node
    BY <1>8 DEF NodeOK
  <2>2. tree' \in [DOMAIN tree' -> Node]
    BY <1>5, <2>1
  <2>3. DOMAIN tree' \subseteq Seq(Cond)
    BY <1>3, <1>5 DEF PathInv, TypeOK
  <2> QED
    BY <1>11, <2>2, <2>3 DEF PathInv, TypeOK
<1>13. ParentsAreSplit'
  <2> SUFFICES ASSUME NEW k \in Seq(Cond), NEW d \in Cond, Append(k, d) \in DOMAIN tree'
               PROVE  k \in DOMAIN tree' /\ tree'[k].path_state = "SPLIT"
    BY DEF ParentsAreSplit
  <2>1. CASE Append(k, d) \in DOMAIN tree
    <3>1. k \in DOMAIN tree /\ tree[k].path_state = "SPLIT"
      BY <2>1 DEF PathInv, ParentsAreSplit
    <3> QED
      BY <3>1, <1>1, <1>5
  <2>2. CASE Append(k, d) \in {yesn, non}
    <3>1. PICK e \in Cond : Append(k, d) = Append(n, e)
      BY <2>2, <1>2 DEF yesn, non
    <3>2. k = n
      <4>1. Len(k) = Len(n)
        BY <3>1, <1>1
      <4>2. \A i \in 1 .. Len(k) : k[i] = Append(k, d)[i]
        OBVIOUS
      <4>3. \A i \in 1 .. Len(n) : n[i] = Append(n, e)[i]
        BY <1>1
      <4> QED
        BY <3>1, <4>1, <4>2, <4>3, <1>1
    <3> QED
      BY <3>2, <1>1, <1>5
  <2> QED
    BY <2>1, <2>2, <1>5
<1>14. \A v \in Valuation :
        /\ Selects(v, yesn) <=> Selects(v, n) /\ Holds(v, c)
        /\ Selects(v, non) <=> Selects(v, n) /\ ~Holds(v, c)
  BY <1>1, <1>2, SelectsAppend, InvertedHolds DEF yesn, non, no
<1>15. ExactlyOnePath'
  <2> SUFFICES ASSUME NEW v \in Valuation
               PROVE  /\ \E m \in Leaves' : Selects(v, m)
                      /\ \A m, k \in Leaves' : Selects(v, m) /\ Selects(v, k) => m = k
    BY DEF ExactlyOnePath, Selects
  <2>1. /\ \E m \in Leaves : Selects(v, m)
        /\ \A m, k \in Leaves : Selects(v, m) /\ Selects(v, k) => m = k
    BY DEF PathInv, ExactlyOnePath
  <2>2. \E m \in Leaves' : Selects(v, m)
    BY <2>1, <1>10, <1>14
  <2>3. \A m, k \in Leaves' : Selects(v, m) /\ Selects(v, k) => m = k
    BY <2>1, <1>1, <1>10, <1>14
  <2> QED
    BY <2>2, <2>3
<1>16. VerifiedAtEnd'
  BY DEF VerifiedAtEnd
<1> QED
  BY <1>9, <1>12, <1>13, <1>15, <1>16 DEF PathInv

(* An error or a failed assertion leaves the tree as it is.                *)
LEMMA FailKeeps ==
    ASSUME PathInv, NEW kind \in {"error", "abort"}, Fail(kind)
    PROVE  PathInv'
<1>1. /\ tree' = tree /\ turn' = turn /\ fn' = fn /\ verdict' = kind
  BY DEF Fail
<1>2. TypeOK'
  BY <1>1 DEF PathInv, TypeOK, Unfinished, Leaves
<1>3. \A m \in (DOMAIN tree)' : NodeOK(m, tree[m])'
  BY <1>1 DEF PathInv, NodeOK
<1>4. ParentsAreSplit' /\ ExactlyOnePath' /\ VerifiedAtEnd'
  BY <1>1 DEF PathInv, ParentsAreSplit, ExactlyOnePath, VerifiedAtEnd, Leaves
<1> QED
  BY <1>2, <1>3, <1>4 DEF PathInv

(* A step of the executor changes the state but not its propositions.      *)
LEMMA ExecutingKeeps ==
    ASSUME NEW n, NEW node, NEW x \in XState,
           NodeOK(n, node), node.path_state \in {"ABSTRACT", "ACTUAL"}
    PROVE  LET next == WithExecuting(node, [Executing(node) EXCEPT !.x = x])
           IN  NodeOK(n, next) /\ next.path_state = node.path_state
<1> DEFINE s == Executing(node)
           t == [s EXCEPT !.x = x]
           next == WithExecuting(node, t)
<1>1. node \in Node /\ s \in States(node) /\ s \in SymState
  BY DEF NodeOK, Node, Executing, States
<1>2. t \in SymState /\ t.props = s.props /\ t # NoState
  BY <1>1, NoStateAssumption DEF SymState
<1> HIDE DEF s, t
<1>3. /\ next \in Node
      /\ next.path_state = node.path_state
      /\ next.abstract = IF node.path_state = "ABSTRACT" THEN t ELSE node.abstract
      /\ next.actual = IF node.path_state = "ABSTRACT" THEN node.actual ELSE t
  BY <1>1, <1>2 DEF WithExecuting, Node, PathState
<1> HIDE DEF next
<1>4. \A u \in States(next) : u = t \/ u \in States(node)
  BY <1>3 DEF States
<1>5. NodeOK(n, next)
  BY <1>1, <1>2, <1>3, <1>4 DEF NodeOK
<1> QED
  BY <1>3, <1>5 DEF next, t, s

(* step: the state under execution takes a step, or the path splits as the *)
(* failed step left it, or the verification ends.                          *)
LEMMA StepKeeps ==
    ASSUME PathInv, verdict = "running", NEW n \in turn,
           tree[n].path_state \in {"ABSTRACT", "ACTUAL"}, step(n)
    PROVE  PathInv'
<1> DEFINE s == Executing(tree[n])
           r == state_step(s.x, s.props)
           next == WithExecuting(tree[n], [s EXCEPT !.x = r.x])
<1>1. NodeOK(n, tree[n])
  BY DEF PathInv, TypeOK, Unfinished, Leaves
<1>2. s \in SymState
  BY <1>1 DEF NodeOK, Node, Executing, States
<1>3. IsResult(r)
  BY <1>2, ExecutorAssumption DEF SymState
<1>4. r.kind \in {"ok", "undecided"} =>
        NodeOK(n, next) /\ next.path_state = tree[n].path_state
  BY <1>1, <1>3, ExecutingKeeps DEF IsResult
<1>5. CASE r.kind = "ok" /\ Continue(n, next)
  <2>1. next.path_state # "SPLIT"
    BY <1>4, <1>5
  <2> QED
    BY <1>4, <1>5, <2>1, ContinueKeeps
<1>6. CASE /\ r.kind = "undecided"
           /\ tree' = path_split(n, next, r.cond)
           /\ turn' = turn \ {n}
           /\ UNCHANGED <<fn, verdict>>
  <2>1. r.cond \in Cond
    BY <1>3, <1>6 DEF IsResult
  <2>2. NodeOK(n, next) /\ next.path_state \in {"ABSTRACT", "ACTUAL"}
    BY <1>4, <1>6
  <2> HIDE DEF next, r
  <2> QED
    BY <1>6, <2>1, <2>2, SplitKeeps
<1>7. CASE r.kind \in {"error", "abort"} /\ Fail(r.kind)
  BY <1>7, FailKeeps
<1> QED
  BY <1>5, <1>6, <1>7 DEF step

-----------------------------------------------------------------------------
(* The invariant holds of every behaviour. *)

LEMMA InitInv == Init => PathInv
<1> SUFFICES ASSUME Init PROVE PathInv
  OBVIOUS
<1>1. /\ DOMAIN tree = {<<>>}
      /\ tree[<<>>] = path_create
      /\ tree \in [{<<>>} -> {path_create}]
  BY DEF Init
<1>2. path_create \in Node /\ path_create.path_state = "UNINIT"
  BY DEF path_create, Node, PathState
<1>3. States(path_create) = {}
  BY DEF States, path_create
<1>4. Leaves = {<<>>}
  BY <1>1, <1>2 DEF Leaves
<1>5. TypeOK
  BY <1>1, <1>2 DEF Init, TypeOK
<1>6. \A n \in DOMAIN tree : NodeOK(n, tree[n])
  BY <1>1, <1>2, <1>3 DEF NodeOK
<1>7. ParentsAreSplit
  <2>1. \A n \in Seq(Cond), c \in Cond : Append(n, c) # <<>>
    <3> SUFFICES ASSUME NEW n \in Seq(Cond), NEW c \in Cond PROVE Append(n, c) # <<>>
      OBVIOUS
    <3>1. Len(Append(n, c)) = Len(n) + 1 /\ Len(n) \in Nat
      OBVIOUS
    <3> QED
      BY <3>1
  <2> QED
    BY <1>1, <2>1 DEF ParentsAreSplit
<1>8. ExactlyOnePath
  BY <1>4 DEF ExactlyOnePath, Selects
<1>9. VerifiedAtEnd
  BY DEF Init, VerifiedAtEnd
<1> QED
  BY <1>5, <1>6, <1>7, <1>8, <1>9 DEF PathInv

LEMMA NextInv == PathInv /\ [Next]_vars => PathInv'
<1> SUFFICES ASSUME PathInv, [Next]_vars PROVE PathInv'
  OBVIOUS
<1> USE ExecutorAssumption
<1>0. \A n \in turn : n \in DOMAIN tree /\ NodeOK(n, tree[n])
  BY DEF PathInv, TypeOK, Unfinished, Leaves
<1>1. CASE BeginSweep
  <2>1. TypeOK' /\ ParentsAreSplit'
    BY <1>1 DEF BeginSweep, PathInv, TypeOK, ParentsAreSplit, Unfinished, Leaves
  <2>2. \A m \in (DOMAIN tree)' : NodeOK(m, tree[m])'
    BY <1>1 DEF BeginSweep, PathInv, NodeOK
  <2>3. ExactlyOnePath' /\ VerifiedAtEnd'
    BY <1>1 DEF BeginSweep, PathInv, ExactlyOnePath, VerifiedAtEnd, Leaves
  <2> QED
    BY <2>1, <2>2, <2>3 DEF PathInv
<1>2. CASE Verified
  <2>1. TypeOK' /\ ParentsAreSplit'
    BY <1>2 DEF Verified, PathInv, TypeOK, ParentsAreSplit, Unfinished, Leaves
  <2>2. \A m \in (DOMAIN tree)' : NodeOK(m, tree[m])'
    BY <1>2 DEF Verified, PathInv, NodeOK
  <2>3. ExactlyOnePath'
    BY <1>2 DEF Verified, PathInv, ExactlyOnePath, Leaves
  <2>4. VerifiedAtEnd'
    BY <1>2 DEF Verified, VerifiedAtEnd, path_atend, Unfinished, Leaves
  <2> QED
    BY <2>1, <2>2, <2>3, <2>4 DEF PathInv
<1>3. ASSUME NEW n \in turn, path_init_abstract(n) PROVE PathInv'
  <2> DEFINE r == state_init(fn)
             s == [x |-> r.x, props |-> {}]
             node == [tree[n] EXCEPT !.path_state = "ABSTRACT", !.abstract = s]
  <2>1. verdict = "running" /\ tree[n].path_state = "UNINIT"
    BY <1>3 DEF path_init_abstract, Reaches
  <2>2. CASE r.kind = "ok" /\ Continue(n, node)
    <3>1. s \in SymState /\ s.props = {} /\ s # NoState
      BY <2>2, NoStateAssumption DEF IsResult, SymState, PathInv, TypeOK
    <3> HIDE DEF s
    <3>2. /\ node \in Node /\ node.path_state = "ABSTRACT"
          /\ node.abstract = s /\ node.actual = tree[n].actual
      BY <1>0, <3>1 DEF NodeOK, Node, PathState
    <3> HIDE DEF node
    <3>3. \A u \in States(node) : u = s \/ u \in States(tree[n])
      BY <3>2 DEF States
    <3>4. NodeOK(n, node)
      BY <1>0, <3>1, <3>2, <3>3 DEF NodeOK, Consistent, Satisfies
    <3> QED
      BY <2>1, <2>2, <3>2, <3>4, ContinueKeeps
  <2>3. CASE Fail("error") \/ Fail("abort")
    BY <2>3, FailKeeps
  <2> QED
    BY <1>3, <2>2, <2>3 DEF path_init_abstract
<1>4. ASSUME NEW n \in turn, path_step_abstract(n) PROVE PathInv'
  BY <1>4, StepKeeps DEF path_step_abstract, Reaches
<1>5. ASSUME NEW n \in turn, path_init_actual(n) PROVE PathInv'
  <2> DEFINE a == tree[n].abstract
             r == state_init_actual(fn, a.props)
             s == [x |-> r.x, props |-> a.props]
             node == [tree[n] EXCEPT !.path_state = "ACTUAL", !.actual = s]
  <2>1. /\ verdict = "running" /\ tree[n].path_state = "ABSTRACT"
        /\ state_atend(a.x)
    BY <1>5 DEF path_init_actual, Reaches
  <2>2. a \in States(tree[n]) /\ a \in SymState /\ a # NoState
    BY <1>0, <2>1 DEF NodeOK, Node, States
  <2>3. CASE r.kind = "ok" /\ Continue(n, node)
    <3>1. IsResult(r)
      BY <2>2 DEF SymState, PathInv, TypeOK
    <3>2. s \in SymState /\ s.props = a.props /\ s # NoState
      BY <2>2, <2>3, <3>1, NoStateAssumption DEF IsResult, SymState
    <3> HIDE DEF s
    <3>3. /\ node \in Node /\ node.path_state = "ACTUAL"
          /\ node.abstract = a /\ node.actual = s
      BY <1>0, <3>2 DEF NodeOK, Node, PathState
    <3> HIDE DEF node, a
    <3>4. \A u \in States(node) : u = s \/ u = a
      BY <3>3 DEF States
    <3>5. NodeOK(n, node)
      BY <1>0, <2>1, <2>2, <3>2, <3>3, <3>4 DEF NodeOK
    <3> QED
      BY <2>1, <2>3, <3>3, <3>5, ContinueKeeps
  <2>4. CASE Fail("error") \/ Fail("abort")
    BY <2>4, FailKeeps
  <2> QED
    BY <1>5, <2>3, <2>4 DEF path_init_actual
<1>6. ASSUME NEW n \in turn, path_step_actual(n) PROVE PathInv'
  BY <1>6, StepKeeps DEF path_step_actual, Reaches
<1>7. ASSUME NEW n \in turn, path_audit(n) PROVE PathInv'
  <2> DEFINE node == [tree[n] EXCEPT !.path_state = "ATEND"]
  <2>1. /\ verdict = "running" /\ tree[n].path_state = "ACTUAL"
        /\ state_atend(tree[n].actual.x)
    BY <1>7 DEF path_audit, Reaches
  <2>2. CASE /\ state_hasgarbage(tree[n].actual.x) = "no"
             /\ state_equal(tree[n].actual.x, tree[n].abstract.x) = "yes"
             /\ Continue(n, node)
    <3>1. /\ node \in Node /\ node.path_state = "ATEND"
          /\ node.abstract = tree[n].abstract /\ node.actual = tree[n].actual
      BY <1>0 DEF NodeOK, Node, PathState
    <3> HIDE DEF node
    <3>2. States(node) = States(tree[n])
      BY <3>1 DEF States
    <3>3. Audited(node)
      BY <1>0, <2>1, <2>2, <3>1 DEF NodeOK, Audited
    <3>4. NodeOK(n, node)
      BY <1>0, <3>1, <3>2, <3>3 DEF NodeOK
    <3> QED
      BY <2>1, <2>2, <3>1, <3>4, ContinueKeeps
  <2>3. CASE Fail("error") \/ Fail("abort")
    BY <2>3, FailKeeps
  <2> QED
    BY <1>7, <2>2, <2>3 DEF path_audit
<1>8. CASE UNCHANGED vars
  <2>1. TypeOK' /\ ParentsAreSplit' /\ VerifiedAtEnd'
    BY <1>8 DEF vars, PathInv, TypeOK, ParentsAreSplit, VerifiedAtEnd, path_atend,
                Unfinished, Leaves
  <2>2. \A m \in (DOMAIN tree)' : NodeOK(m, tree[m])'
    BY <1>8 DEF vars, PathInv, NodeOK
  <2>3. ExactlyOnePath'
    BY <1>8 DEF vars, PathInv, ExactlyOnePath, Leaves
  <2> QED
    BY <2>1, <2>2, <2>3 DEF PathInv
<1> QED
  BY <1>1, <1>2, <1>3, <1>4, <1>5, <1>6, <1>7, <1>8 DEF Next, path_step, Done

LEMMA Invariance == Spec => []PathInv
  BY InitInv, NextInv, PTL DEF Spec

-----------------------------------------------------------------------------
(* Theorems. *)

(* The tree of paths, its nodes and the current sweep keep their types.    *)
THEOREM TypeCorrect == Spec => []TypeOK
<1>1. PathInv => TypeOK
  BY DEF PathInv
<1> QED
  BY <1>1, Invariance, PTL

(* Splitting neither loses nor duplicates a case, whatever the executor    *)
(* splits on and in whatever order (path_split).                           *)
THEOREM SplitsPartition == Spec => []ExactlyOnePath
<1>1. PathInv => ExactlyOnePath
  BY DEF PathInv
<1> QED
  BY <1>1, Invariance, PTL

(* A path assumes nothing but what its name says (state_assume).           *)
THEOREM AssumptionsAreTrue == Spec => []PropsFollowName
<1>1. PathInv => PropsFollowName
  BY DEF PathInv, NodeOK, PropsFollowName
<1> QED
  BY <1>1, Invariance, PTL

(* No path is executed under assumptions that contradict each other        *)
(* (path_copywithcond).                                                    *)
THEOREM NoImpossiblePath == Spec => []UnfinishedPathsArePossible
<1>1. PathInv => UnfinishedPathsArePossible
  <2> SUFFICES ASSUME PathInv, NEW n \in Unfinished, NEW s \in States(tree[n])
               PROVE  \E v \in Valuation : Satisfies(v, s.props)
    BY DEF UnfinishedPathsArePossible
  <2>1. NodeOK(n, tree[n])
    BY DEF PathInv, Unfinished, Leaves
  <2>2. Consistent(s.props) /\ s.props \in SUBSET Literal
    BY <2>1 DEF NodeOK, Node, States, SymState
  <2> QED
    BY <2>2, ConsistentSatisfiable
<1> QED
  BY <1>1, Invariance, PTL

(* `verified' is only reported when the paths that were audited stand for  *)
(* all truth values of the conditions (path_atend, path_audit).            *)
THEOREM VerifiedCoversEveryCase == Spec => []VerifiedMeansAudited
<1>1. PathInv => VerifiedMeansAudited
  <2> SUFFICES ASSUME PathInv, verdict = "verified", NEW v \in Valuation
               PROVE  \E n \in Leaves : /\ Selects(v, n)
                                        /\ Audited(tree[n])
                                        /\ Satisfies(v, tree[n].actual.props)
    BY DEF VerifiedMeansAudited
  <2>1. PICK n \in Leaves : Selects(v, n)
    BY DEF PathInv, ExactlyOnePath
  <2>2. NodeOK(n, tree[n]) /\ tree[n].path_state = "ATEND"
    BY DEF PathInv, VerifiedAtEnd, path_atend, Unfinished, Leaves
  <2>3. Audited(tree[n])
    BY <2>1, <2>2 DEF NodeOK
  <2>4. tree[n].actual \in States(tree[n])
    BY <2>3 DEF Audited, States
  <2> QED
    BY <2>1, <2>2, <2>3, <2>4 DEF NodeOK
<1> QED
  BY <1>1, Invariance, PTL

-----------------------------------------------------------------------------
(* Exact assumptions. *)

(* What the path named n is executed under holds only in its cases.        *)
Knows(n, node) ==
    /\ node.path_state = "UNINIT" => n = <<>>
    /\ node.path_state \in {"ABSTRACT", "ACTUAL"} =>
            \A v \in Valuation : Satisfies(v, Executing(node).props) => Selects(v, n)

NamesInv == \A n \in DOMAIN tree : Knows(n, tree[n])

LEMMA ContinueKnows ==
    ASSUME PathInv, NamesInv, NEW n \in turn, NEW node, Knows(n, node), Continue(n, node)
    PROVE  NamesInv'
<1>1. n \in DOMAIN tree
  BY DEF PathInv, TypeOK, Unfinished, Leaves
<1>2. /\ DOMAIN tree' = DOMAIN tree /\ tree'[n] = node
      /\ \A m \in DOMAIN tree \ {n} : tree'[m] = tree[m]
  BY <1>1 DEF Continue, PathInv, TypeOK
<1>3. \A m \in DOMAIN tree' : Knows(m, tree'[m])
  BY <1>1, <1>2 DEF NamesInv
<1>4. \A m \in (DOMAIN tree)' : Knows(m, tree[m])'
  BY <1>3 DEF Knows, Executing
<1> QED
  BY <1>4 DEF NamesInv

(* A copy that goes on has installed the condition that was added to its   *)
(* name.                                                                   *)
LEMMA CopyKnows ==
    ASSUME NEW n \in Seq(Cond), NEW node, NEW c \in Cond,
           NodeOK(n, node), node.path_state \in {"ABSTRACT", "ACTUAL"}, Knows(n, node)
    PROVE  Knows(Append(n, c), path_copywithcond(node, c))
<1>1. PICK s : s = Executing(node)
  OBVIOUS
<1>2. PICK t : t = state_assume(s, c)
  OBVIOUS
<1>3. PICK copy : copy = path_copywithcond(node, c)
  OBVIOUS
<1>4. node \in Node /\ s \in SymState /\ Consistent(s.props)
  BY <1>1 DEF NodeOK, Node, Executing, States
<1>5. t \in SymState
  BY <1>2, <1>4, AssumeKeeps
<1>6. /\ copy.path_state = IF contradicts(s, c) THEN "ATEND" ELSE node.path_state
      /\ copy.path_state # "ATEND" => Executing(copy) = t
  BY <1>1, <1>2, <1>3, <1>4, <1>5
  DEF path_copywithcond, WithExecuting, Executing, Node, PathState
<1>7. ASSUME ~contradicts(s, c), NEW v \in Valuation, Satisfies(v, t.props)
      PROVE  Selects(v, Append(n, c))
  <2>1. t.props = s.props \cup {reduce_assume(c)}
    BY <1>2, <1>4, <1>7 DEF state_assume, contradicts, props_install, SymState
  <2>2. Satisfies(v, s.props) /\ Holds(v, reduce_assume(c))
    BY <1>7, <2>1 DEF Satisfies
  <2>3. Selects(v, n) /\ Holds(v, c)
    BY <1>1, <2>2, ReducedHolds DEF Knows
  <2> QED
    BY <2>3, SelectsAppend
<1>8. copy.path_state # "UNINIT"
  BY <1>6
<1>9. copy.path_state \in {"ABSTRACT", "ACTUAL"} => ~contradicts(s, c) /\ Executing(copy) = t
  BY <1>6
<1>10. Knows(Append(n, c), copy)
  BY <1>7, <1>8, <1>9 DEF Knows
<1> QED
  BY <1>3, <1>10

LEMMA SplitKnows ==
    ASSUME PathInv, NamesInv, NEW n \in turn, NEW node, NEW c \in Cond,
           NodeOK(n, node), node.path_state \in {"ABSTRACT", "ACTUAL"}, Knows(n, node),
           tree' = path_split(n, node, c)
    PROVE  NamesInv'
<1>1. n \in DOMAIN tree /\ n \in Seq(Cond)
  BY DEF PathInv, TypeOK, Unfinished, Leaves
<1>2. PICK no : no = ast_expr_inverted_copy(c)
  OBVIOUS
<1>3. no \in Cond
  BY <1>2 DEF ast_expr_inverted_copy, Cond
<1>4. /\ Knows(Append(n, c), path_copywithcond(node, c))
      /\ Knows(Append(n, no), path_copywithcond(node, no))
  BY <1>1, <1>3, CopyKnows
<1>5. Knows(n, [path_state |-> "SPLIT", abstract |-> NoState, actual |-> NoState])
  BY DEF Knows
<1>6. \A m \in DOMAIN tree' :
        \/ m = Append(n, c) /\ tree'[m] = path_copywithcond(node, c)
        \/ m = Append(n, no) /\ tree'[m] = path_copywithcond(node, no)
        \/ m = n /\ tree'[m] = [path_state |-> "SPLIT", abstract |-> NoState, actual |-> NoState]
        \/ m \in DOMAIN tree /\ tree'[m] = tree[m]
  BY <1>2 DEF path_split
<1>7. \A m \in DOMAIN tree' : Knows(m, tree'[m])
  BY <1>4, <1>5, <1>6 DEF NamesInv
<1>8. \A m \in (DOMAIN tree)' : Knows(m, tree[m])'
  BY <1>7 DEF Knows, Executing
<1> QED
  BY <1>8 DEF NamesInv

LEMMA StepKnows ==
    ASSUME PathInv, NamesInv, NEW n \in turn,
           tree[n].path_state \in {"ABSTRACT", "ACTUAL"}, step(n)
    PROVE  NamesInv'
<1>1. PICK s : s = Executing(tree[n])
  OBVIOUS
<1>2. PICK r : r = state_step(s.x, s.props)
  OBVIOUS
<1>3. PICK t : t = [s EXCEPT !.x = r.x]
  OBVIOUS
<1>4. PICK next : next = WithExecuting(tree[n], t)
  OBVIOUS
<1>5. NodeOK(n, tree[n]) /\ Knows(n, tree[n]) /\ tree[n] \in Node
  BY DEF PathInv, NamesInv, TypeOK, Unfinished, Leaves, NodeOK
<1>6. s \in SymState
  BY <1>1, <1>5 DEF NodeOK, Node, Executing, States
<1>7. IsResult(r)
  BY <1>2, <1>6, ExecutorAssumption DEF SymState
<1>8. r.kind \in {"ok", "undecided"} =>
        NodeOK(n, next) /\ next.path_state = tree[n].path_state
  BY <1>1, <1>3, <1>4, <1>5, <1>7, ExecutingKeeps DEF IsResult
<1>9. t.props = s.props
  BY <1>3, <1>6 DEF SymState
<1>10. Executing(next) = t
  BY ONLY <1>4, <1>5, tree[n].path_state \in {"ABSTRACT", "ACTUAL"}
  DEF Executing, WithExecuting, Node
<1>11. r.kind \in {"ok", "undecided"} => Knows(n, next)
  BY <1>1, <1>5, <1>8, <1>9, <1>10 DEF Knows
<1>12. CASE r.kind = "ok" /\ Continue(n, next)
  BY <1>11, <1>12, ContinueKnows
<1>13. CASE r.kind = "undecided" /\ tree' = path_split(n, next, r.cond)
  <2>1. r.cond \in Cond
    BY <1>7, <1>13 DEF IsResult
  <2> QED
    BY <1>8, <1>11, <1>13, <2>1, SplitKnows
<1>14. CASE Fail(r.kind)
  BY <1>14 DEF Fail, NamesInv, Knows, Executing
<1> QED
  BY <1>1, <1>2, <1>3, <1>4, <1>12, <1>13, <1>14 DEF step

LEMMA NamesNext ==
    ASSUME PathInv, NamesInv, [Next]_vars
    PROVE  NamesInv'
<1>1. \A n \in turn : n \in DOMAIN tree /\ NodeOK(n, tree[n]) /\ Knows(n, tree[n])
  BY DEF PathInv, NamesInv, TypeOK, Unfinished, Leaves
<1>2. CASE UNCHANGED tree
  BY <1>2 DEF NamesInv, Knows, Executing
<1>3. ASSUME NEW n \in turn, path_init_abstract(n) PROVE NamesInv'
  <2>1. PICK node : node = [tree[n] EXCEPT !.path_state = "ABSTRACT",
                                !.abstract = [x |-> state_init(fn).x, props |-> {}]]
    OBVIOUS
  <2>2. n = <<>>
    BY <1>1, <1>3 DEF path_init_abstract, Knows
  <2>3. CASE Continue(n, node)
    <3>1. node.path_state = "ABSTRACT"
      BY <1>1, <2>1 DEF NodeOK, Node
    <3>2. \A v \in Valuation : Selects(v, n)
      BY <2>2 DEF Selects
    <3>3. Knows(n, node)
      BY <3>1, <3>2 DEF Knows
    <3> QED
      BY <2>3, <3>3, ContinueKnows
  <2> QED
    BY <1>2, <1>3, <2>1, <2>3 DEF path_init_abstract, Fail
<1>4. ASSUME NEW n \in turn, path_step_abstract(n) PROVE NamesInv'
  BY <1>4, StepKnows DEF path_step_abstract
<1>5. ASSUME NEW n \in turn, path_init_actual(n) PROVE NamesInv'
  <2>1. PICK P : P = tree[n].abstract.props
    OBVIOUS
  <2>2. PICK node : node = [tree[n] EXCEPT !.path_state = "ACTUAL",
                                !.actual = [x |-> state_init_actual(fn, P).x, props |-> P]]
    OBVIOUS
  <2>3. CASE Continue(n, node)
    <3>1. node.path_state = "ACTUAL" /\ Executing(node).props = P
      BY <1>1, <2>2 DEF NodeOK, Node, Executing
    <3>2. Executing(tree[n]).props = P /\ tree[n].path_state = "ABSTRACT"
      BY <1>5, <2>1 DEF path_init_actual, Executing
    <3>3. Knows(n, node)
      BY <1>1, <3>1, <3>2 DEF Knows
    <3> QED
      BY <2>3, <3>3, ContinueKnows
  <2> QED
    BY <1>2, <1>5, <2>1, <2>2, <2>3 DEF path_init_actual, Fail
<1>6. ASSUME NEW n \in turn, path_step_actual(n) PROVE NamesInv'
  BY <1>6, StepKnows DEF path_step_actual
<1>7. ASSUME NEW n \in turn, path_audit(n) PROVE NamesInv'
  <2>1. PICK node : node = [tree[n] EXCEPT !.path_state = "ATEND"]
    OBVIOUS
  <2>2. CASE Continue(n, node)
    <3>1. node.path_state = "ATEND"
      BY <1>1, <2>1 DEF NodeOK, Node
    <3>2. Knows(n, node)
      BY <3>1 DEF Knows
    <3> QED
      BY <2>2, <3>2, ContinueKnows
  <2> QED
    BY <1>2, <1>7, <2>1, <2>2 DEF path_audit, Fail
<1> QED
  BY <1>2, <1>3, <1>4, <1>5, <1>6, <1>7 DEF Next, path_step, BeginSweep, Verified, Done, vars

LEMMA NamesHold == Spec => []NamesInv
<1>1. Init => NamesInv
  <2> SUFFICES ASSUME Init PROVE NamesInv
    OBVIOUS
  <2>1. \A n \in DOMAIN tree : n = <<>> /\ tree[n] = path_create
    BY DEF Init
  <2>2. path_create.path_state = "UNINIT"
    BY DEF path_create
  <2> QED
    BY <2>1, <2>2 DEF NamesInv, Knows
<1>2. PathInv /\ NamesInv /\ [Next]_vars => NamesInv'
  BY NamesNext
<1> QED
  BY <1>1, <1>2, Invariance, PTL DEF Spec

LEMMA NamesFollow == PathInv /\ NamesInv => NameFollowsProps
<1> SUFFICES ASSUME PathInv, NamesInv, NEW n \in Unfinished, tree[n].path_state # "UNINIT"
             PROVE  \A v \in Valuation :
                      Satisfies(v, Executing(tree[n]).props) => Selects(v, n)
  BY DEF NameFollowsProps
<1>1. n \in DOMAIN tree /\ NodeOK(n, tree[n])
  BY DEF PathInv, Unfinished, Leaves
<1>2. tree[n].path_state \in {"ABSTRACT", "ACTUAL"}
  BY <1>1 DEF NodeOK, Node, PathState, Unfinished, Leaves
<1> QED
  BY <1>1, <1>2 DEF NamesInv, Knows

(* What a path is executed under holds in the cases that its name stands   *)
(* for and, with AssumptionsAreTrue, in no others, in the abstract and in  *)
(* the body (path_copywithcond, path_init_actual).                         *)
THEOREM AssumptionsAreExact == Spec => []NameFollowsProps
  BY NamesFollow, NamesHold, Invariance, PTL

-----------------------------------------------------------------------------
(* Decisions. *)

(* Consistent literals that are true only where literal c is have it.      *)
LEMMA EntailedIsMember ==
    ASSUME NEW P \in SUBSET Literal, Consistent(P), NEW c \in Literal,
           \A v \in Valuation : Satisfies(v, P) => Holds(v, c)
    PROVE  c \in P
<1> SUFFICES ASSUME c \notin P PROVE FALSE
  OBVIOUS
<1>1. PICK d \in Literal : d.atom = c.atom /\ d.bangs = 1 - c.bangs
  <2>1. [atom |-> c.atom, bangs |-> 1 - c.bangs] \in Literal
    BY DEF Literal
  <2> QED
    BY <2>1
<1>2. PICK Q : Q = P \cup {d}
  OBVIOUS
<1>3. \A p \in P : ast_expr_inverted_copy(p) # d /\ ast_expr_inverted_copy(d) # p
  <2> TAKE p \in P
  <2>1. p \in Literal /\ p # c
    OBVIOUS
  <2>2. ast_expr_inverted_copy(p) = [atom |-> p.atom, bangs |-> p.bangs + 1]
        /\ ast_expr_inverted_copy(d) = [atom |-> d.atom, bangs |-> d.bangs + 1]
    BY <2>1 DEF ast_expr_inverted_copy, Literal
  <2>3. p.atom # c.atom \/ p.bangs # c.bangs
    BY <2>1 DEF Literal
  <2> QED
    BY <1>1, <2>1, <2>2, <2>3 DEF Literal
<1>4. ast_expr_inverted_copy(d) # d
  BY <1>1 DEF ast_expr_inverted_copy, Literal
<1>5. Consistent(Q) /\ Q \in SUBSET Literal
  BY <1>2, <1>3, <1>4 DEF Consistent
<1>6. PICK v \in Valuation : Satisfies(v, Q)
  BY <1>5, ConsistentSatisfiable
<1>7. Satisfies(v, P) /\ Holds(v, d)
  BY <1>2, <1>6 DEF Satisfies
<1>8. Holds(v, c)
  BY <1>7
<1>9. (c.bangs % 2 = 0) <=> ~(d.bangs % 2 = 0)
  BY <1>1 DEF Literal
<1> QED
  BY <1>1, <1>7, <1>8, <1>9 DEF Holds, Valuation, Literal

(* What the lookups answer for the two forms of a condition of which the   *)
(* propositions have one.                                                  *)
LEMMA LookupsDecide ==
    ASSUME NEW P \in SUBSET Literal, Consistent(P), NEW d \in P,
           NEW c \in Literal, c.atom = d.atom
    PROVE  /\ props_get(P, c) <=> c = d
           /\ props_contradicts(P, c) <=> c # d
<1>1. d \in Literal
  OBVIOUS
<1>2. \A p \in P : p.atom = d.atom => p = d
  <2> SUFFICES ASSUME NEW p \in P, p.atom = d.atom, p # d PROVE FALSE
    OBVIOUS
  <2>1. p \in Literal
    OBVIOUS
  <2>2. ast_expr_inverted_copy(p) = [atom |-> p.atom, bangs |-> p.bangs + 1]
        /\ ast_expr_inverted_copy(d) = [atom |-> d.atom, bangs |-> d.bangs + 1]
    BY <1>1, <2>1 DEF ast_expr_inverted_copy, Literal
  <2>3. ast_expr_inverted_copy(p) = d \/ ast_expr_inverted_copy(d) = p
    BY <1>1, <2>1, <2>2 DEF Literal
  <2> QED
    BY <2>3 DEF Consistent
<1>3. c \in P <=> c = d
  BY <1>2
<1>4. \A p \in P : p \in Literal
      /\ ast_expr_inverted_copy(p) = [atom |-> p.atom, bangs |-> p.bangs + 1]
  BY DEF ast_expr_inverted_copy, Literal
<1>5. ast_expr_inverted_copy(c) = [atom |-> c.atom, bangs |-> c.bangs + 1]
  BY DEF ast_expr_inverted_copy, Literal
<1>6. props_contradicts(P, c) => c # d
  <2> SUFFICES ASSUME NEW p \in P,
                      c = ast_expr_inverted_copy(p) \/ ast_expr_inverted_copy(c) = p
               PROVE  c # d
    BY DEF props_contradicts
  <2>1. p.atom = c.atom /\ p.bangs # c.bangs
    BY <1>4, <1>5 DEF Literal
  <2> QED
    BY <1>2, <2>1
<1>7. c # d => props_contradicts(P, c)
  <2> SUFFICES ASSUME c # d PROVE props_contradicts(P, c)
    OBVIOUS
  <2>1. c = ast_expr_inverted_copy(d) \/ ast_expr_inverted_copy(c) = d
    BY <1>1, <1>4, <1>5 DEF Literal
  <2> QED
    BY <2>1 DEF props_contradicts
<1> QED
  BY <1>3, <1>6, <1>7 DEF props_get
(* Whatever a path was split on, the propositions of the state that it     *)
(* executes decide it, and the way it was assumed: the tree hands down     *)
(* enough for an executor that looks conditions up never to split twice on *)
(* one (state_assume, props_get, props_contradicts, path_init_actual).     *)
THEOREM DecisionsAreRemembered == Spec => []SplitsAreDecided
<1>1. PathInv /\ NamesInv => SplitsAreDecided
  <2> SUFFICES ASSUME PathInv, NamesInv,
                      NEW n \in Unfinished, tree[n].path_state # "UNINIT",
                      NEW i \in 1 .. Len(n), NEW P, P = Executing(tree[n]).props,
                      NEW plain, plain = Positive(n[i].atom),
                      NEW c \in {plain, ast_expr_inverted_copy(plain)}
               PROVE  /\ props_get(P, c) <=> c = reduce_assume(n[i])
                      /\ props_contradicts(P, c) <=> ~(c = reduce_assume(n[i]))
    BY DEF SplitsAreDecided
  <2>1. n \in Seq(Cond) /\ n[i] \in Cond /\ NodeOK(n, tree[n])
    BY DEF PathInv, TypeOK, Unfinished, Leaves
  <2>2. tree[n].path_state \in {"ABSTRACT", "ACTUAL"}
    BY <2>1 DEF NodeOK, Node, PathState, Unfinished, Leaves
  <2>3. P \in SUBSET Literal /\ Consistent(P)
    BY <2>1, <2>2 DEF NodeOK, Node, Executing, States, SymState
  <2>4. PICK d \in Literal : d = reduce_assume(n[i]) /\ d.atom = n[i].atom
    <3>1. reduce_assume(n[i]) = [atom |-> n[i].atom, bangs |-> n[i].bangs % 2]
      BY <2>1 DEF reduce_assume, Cond
    <3>2. reduce_assume(n[i]) \in Literal
      BY <2>1, <3>1 DEF Cond, Literal
    <3> QED
      BY <3>1, <3>2
  <2>5. \A v \in Valuation : Satisfies(v, P) => Holds(v, d)
    BY <2>1, <2>2, <2>4, NamesFollow, ReducedHolds DEF NameFollowsProps, Selects
  <2>6. d \in P
    BY <2>3, <2>5, EntailedIsMember
  <2>7. c \in Literal /\ c.atom = d.atom
    BY <2>1, <2>4 DEF Positive, ast_expr_inverted_copy, Literal, Cond
  <2> QED
    BY <2>3, <2>4, <2>6, <2>7, LookupsDecide
<1> QED
  BY <1>1, NamesHold, Invariance, PTL

-----------------------------------------------------------------------------
(* Each case alone. *)

(* There is one path for each case.                                        *)
LEMMA PathOfLeaf ==
    ASSUME PathInv, NEW v \in Valuation, NEW n \in Leaves, Selects(v, n)
    PROVE  PathOf(v) = tree[n]
<1>1. \A m \in Leaves : Selects(v, m) => m = n
  BY DEF PathInv, ExactlyOnePath
<1> QED
  BY <1>1 DEF PathOf

LEMMA PathOfLeafNext ==
    ASSUME PathInv', NEW v \in Valuation, NEW n \in Leaves', Selects(v, n)
    PROVE  PathOf(v)' = tree'[n]
<1>1. \A m \in Leaves' : Selects(v, m) => m = n
  BY DEF PathInv, ExactlyOnePath, Selects
<1>2. PathOf(v)' = tree'[CHOOSE m \in Leaves' : Selects(v, m)]
  BY DEF PathOf, Selects
<1> QED
  BY <1>1, <1>2

(* A step of leaf n that replaces its node is one of the cases of n.       *)
LEMMA ContinuePathOf ==
    ASSUME PathInv, PathInv', NEW n \in turn, NEW node, node.path_state # "SPLIT",
           Continue(n, node), NEW v \in Valuation
    PROVE  IF Selects(v, n) THEN PathOf(v) = tree[n] /\ PathOf(v)' = node
                            ELSE PathOf(v)' = PathOf(v)
<1>1. n \in Leaves
  BY DEF PathInv, TypeOK, Unfinished
<1>2. /\ DOMAIN tree' = DOMAIN tree /\ tree'[n] = node
      /\ \A m \in DOMAIN tree \ {n} : tree'[m] = tree[m]
  BY <1>1 DEF Continue, PathInv, TypeOK, Leaves
<1>3. Leaves' = Leaves
  BY <1>1, <1>2 DEF Leaves
<1>4. CASE Selects(v, n)
  BY <1>1, <1>2, <1>3, <1>4, PathOfLeaf, PathOfLeafNext
<1>5. CASE ~Selects(v, n)
  <2>1. PICK m \in Leaves : Selects(v, m)
    BY DEF PathInv, ExactlyOnePath
  <2>2. m \in DOMAIN tree \ {n}
    BY <1>5, <2>1 DEF Leaves
  <2> QED
    BY <1>2, <1>3, <1>5, <2>1, <2>2, PathOfLeaf, PathOfLeafNext
<1> QED
  BY <1>4, <1>5

LEMMA TrueFormIs ==
    ASSUME NEW v \in Valuation, NEW c \in Cond
    PROVE  Alone(v)!TrueForm(c) = IF Holds(v, c) THEN c ELSE ast_expr_inverted_copy(c)
  BY DEF Alone!TrueForm, Alone!Holds, Holds, Alone!ast_expr_inverted_copy, ast_expr_inverted_copy

(* A split is a step of the cases of n: each is in the copy that assumes   *)
(* the condition in the form that is true, and this copy is not dropped.   *)
LEMMA SplitPathOf ==
    ASSUME PathInv, PathInv', NEW n \in turn, NEW node, NEW c \in Cond,
           NodeOK(n, node), node.path_state \in {"ABSTRACT", "ACTUAL"},
           tree' = path_split(n, node, c), NEW v \in Valuation
    PROVE  IF Selects(v, n)
           THEN /\ PathOf(v) = tree[n]
                /\ PathOf(v)' = WithExecuting(node, [Executing(node) EXCEPT !.props =
                        props_install(@, reduce_assume(Alone(v)!TrueForm(c)))])
           ELSE PathOf(v)' = PathOf(v)
<1>1. n \in Leaves /\ n \in Seq(Cond)
  BY DEF PathInv, TypeOK, Unfinished, Leaves
<1>2. PICK no \in Cond : no = ast_expr_inverted_copy(c)
  BY InvertedHolds
<1>3. Append(n, no) # Append(n, c) /\ Append(n, c) # n /\ Append(n, no) # n
  <2>1. no # c
    BY <1>2 DEF ast_expr_inverted_copy, Cond
  <2>2. /\ Append(n, no)[Len(n) + 1] = no /\ Append(n, c)[Len(n) + 1] = c
        /\ Len(Append(n, no)) = Len(n) + 1 /\ Len(Append(n, c)) = Len(n) + 1
        /\ Len(n) \in Nat
    BY <1>1
  <2> QED
    BY <2>1, <2>2
<1>4. /\ DOMAIN tree' = DOMAIN tree \cup {Append(n, c), Append(n, no)}
      /\ \A m \in DOMAIN tree' : m \notin {n, Append(n, c), Append(n, no)} => tree'[m] = tree[m]
      /\ tree'[Append(n, c)] = path_copywithcond(node, c)
      /\ tree'[Append(n, no)] = path_copywithcond(node, no)
  BY <1>2, <1>3 DEF path_split
<1>5. CASE Selects(v, n)
  <2>1. PICK d \in Cond : d = Alone(v)!TrueForm(c) /\ Holds(v, d) /\ d \in {c, no}
    BY <1>2, InvertedHolds, TrueFormIs
  <2>2. PICK s : s = Executing(node)
    OBVIOUS
  <2>3. s \in SymState /\ Satisfies(v, s.props) /\ node \in Node
    BY <1>5, <2>2, NoStateAssumption DEF NodeOK, Node, Executing, States, SymState
  <2>4. ~contradicts(s, d)
    <3>1. s.props \in SUBSET Literal
      BY <2>3 DEF SymState
    <3>2. reduce_assume(d) \in Cond /\ Holds(v, reduce_assume(d))
      BY <2>1, ReducedHolds, LiteralIsCond
    <3> QED
      BY <2>3, <3>1, <3>2, ContradictionFails DEF contradicts
  <2>5. PICK copy : copy = WithExecuting(node, [s EXCEPT !.props =
                                props_install(s.props, reduce_assume(d))])
    OBVIOUS
  <2>6. path_copywithcond(node, d) = copy
    BY <2>2, <2>4, <2>5 DEF path_copywithcond, state_assume, contradicts
  <2>7. copy.path_state # "SPLIT"
    BY <2>3, <2>5 DEF WithExecuting, Node
  <2>8. Append(n, d) \in DOMAIN tree' /\ tree'[Append(n, d)] = copy
    BY <1>4, <2>1, <2>6
  <2>9. Append(n, d) \in Leaves' /\ Selects(v, Append(n, d))
    BY <1>1, <1>5, <2>1, <2>7, <2>8, SelectsAppend DEF Leaves
  <2>10. PathOf(v)' = copy
    BY <2>8, <2>9, PathOfLeafNext
  <2>11. [s EXCEPT !.props = props_install(s.props, reduce_assume(d))]
         = [Executing(node) EXCEPT !.props =
                props_install(@, reduce_assume(Alone(v)!TrueForm(c)))]
    BY <2>1, <2>2
  <2> QED
    BY <1>1, <1>5, <2>5, <2>10, <2>11, PathOfLeaf
<1>6. CASE ~Selects(v, n)
  <2>1. PICK m \in Leaves : Selects(v, m)
    BY DEF PathInv, ExactlyOnePath
  <2>2. m # n /\ m \in DOMAIN tree'
    BY <1>4, <1>6, <2>1 DEF Leaves
  <2>3. ~Selects(v, Append(n, c)) /\ ~Selects(v, Append(n, no))
    BY <1>1, <1>6, SelectsAppend
  <2>4. tree'[m] = tree[m]
    BY <1>4, <2>1, <2>2, <2>3
  <2>5. m \in Leaves'
    BY <2>1, <2>2, <2>4 DEF Leaves
  <2> QED
    BY <1>6, <2>1, <2>4, <2>5, PathOfLeaf, PathOfLeafNext
<1> QED
  BY <1>5, <1>6

(* A step of the executor is a step of the case alone, or of another case. *)
LEMMA StepAlone ==
    ASSUME PathInv, PathInv', NEW n \in turn, tree[n].path_state \in {"ABSTRACT", "ACTUAL"},
           ~state_atend(Executing(tree[n]).x), step(n), NEW v \in Valuation
    PROVE  Alone(v)!Next \/ UNCHANGED Alone(v)!vars
<1>1. PICK s : s = Executing(tree[n])
  OBVIOUS
<1>2. PICK r : r = state_step(s.x, s.props)
  OBVIOUS
<1>3. PICK t : t = [s EXCEPT !.x = r.x]
  OBVIOUS
<1>4. PICK next : next = WithExecuting(tree[n], t)
  OBVIOUS
<1>5. NodeOK(n, tree[n]) /\ tree[n] \in Node
  BY DEF PathInv, TypeOK, Unfinished, Leaves, NodeOK
<1>6. s \in SymState /\ s # NoState
  BY <1>1, <1>5, NoStateAssumption DEF NodeOK, Node, Executing, States, SymState
<1>7. IsResult(r)
  BY <1>2, <1>6, ExecutorAssumption DEF SymState
<1>8. r.kind \in {"ok", "undecided"} =>
        NodeOK(n, next) /\ next.path_state = tree[n].path_state
  BY <1>1, <1>3, <1>4, <1>5, <1>7, ExecutingKeeps DEF IsResult
<1>9. t = [x |-> r.x, props |-> s.props]
  BY <1>3, <1>6 DEF SymState
(* What the step of the case alone amounts to. *)
<1>10. ASSUME PathOf(v) = tree[n], fn' = fn, r.kind \in {"ok", "undecided"},
              PathOf(v)' = WithExecuting(tree[n], Alone(v)!Stepped(s, r))
       PROVE  Alone(v)!Next
  <2>1. PICK u : u = Alone(v)!Stepped(s, r)
    OBVIOUS
  <2>2. CASE tree[n].path_state = "ABSTRACT"
    <3>1. s = tree[n].abstract
      BY <1>1, <2>2 DEF Executing
    <3>2. /\ PathOf(v)'.path_state = "ABSTRACT"
          /\ PathOf(v)'.abstract = u
          /\ PathOf(v)'.actual = tree[n].actual
      BY <1>5, <1>10, <2>1, <2>2 DEF WithExecuting, Node
    <3>3. Alone(v)!StepAbstract
      BY <1>1, <1>2, <1>10, <2>1, <2>2, <3>1, <3>2 DEF Alone!StepAbstract
    <3> QED
      BY <3>3 DEF Alone!Next
  <2>3. CASE tree[n].path_state = "ACTUAL"
    <3>1. s = tree[n].actual
      BY <1>1, <2>3 DEF Executing
    <3>2. /\ PathOf(v)'.path_state = "ACTUAL"
          /\ PathOf(v)'.abstract = tree[n].abstract
          /\ PathOf(v)'.actual = u
      BY <1>5, <1>10, <2>1, <2>3 DEF WithExecuting, Node
    <3>3. Alone(v)!StepActual
      BY <1>1, <1>2, <1>10, <2>1, <2>3, <3>1, <3>2 DEF Alone!StepActual
    <3> QED
      BY <3>3 DEF Alone!Next
  <2> QED
    BY <2>2, <2>3
<1>11. CASE r.kind = "ok" /\ Continue(n, next)
  <2>1. Alone(v)!Stepped(s, r) = t
    BY <1>9, <1>11 DEF Alone!Stepped
  <2>2. next.path_state # "SPLIT" /\ fn' = fn
    BY <1>8, <1>11 DEF Continue
  <2>3. CASE Selects(v, n)
    BY <1>4, <1>10, <1>11, <2>1, <2>2, <2>3, ContinuePathOf
  <2>4. CASE ~Selects(v, n)
    <3>1. PathOf(v)' = PathOf(v)
      BY <1>11, <2>2, <2>4, ContinuePathOf
    <3> QED
      BY <2>2, <3>1 DEF Alone!vars
  <2> QED
    BY <2>3, <2>4
<1>12. CASE r.kind = "undecided" /\ tree' = path_split(n, next, r.cond) /\ fn' = fn
  <2>1. r.cond \in Cond
    BY <1>7, <1>12 DEF IsResult
  <2>2. NodeOK(n, next) /\ next.path_state \in {"ABSTRACT", "ACTUAL"}
    BY <1>8, <1>12
  <2>3. PICK u : u = [x |-> r.x,
                      props |-> props_install(s.props, reduce_assume(Alone(v)!TrueForm(r.cond)))]
    OBVIOUS
  <2>4. Alone(v)!Stepped(s, r) = u
    BY <1>12, <2>3 DEF Alone!Stepped, Alone!props_install, props_install,
                       Alone!reduce_assume, reduce_assume
  <2>5. Executing(next) = t
    BY <1>4, <1>5 DEF Executing, WithExecuting, Node
  <2>6. [Executing(next) EXCEPT !.props =
            props_install(@, reduce_assume(Alone(v)!TrueForm(r.cond)))] = u
    BY <1>9, <2>3, <2>5
  <2>7. WithExecuting(next, u) = WithExecuting(tree[n], u)
    BY <1>4, <1>5 DEF WithExecuting, Node
  <2>8. CASE Selects(v, n)
    <3>1. PathOf(v) = tree[n] /\ PathOf(v)' = WithExecuting(next, u)
      BY <1>12, <2>1, <2>2, <2>6, <2>8, SplitPathOf
    <3> QED
      BY <1>10, <1>12, <2>4, <2>7, <3>1
  <2>9. CASE ~Selects(v, n)
    <3>1. PathOf(v)' = PathOf(v)
      BY <1>12, <2>1, <2>2, <2>9, SplitPathOf
    <3> QED
      BY <1>12, <3>1 DEF Alone!vars
  <2> QED
    BY <2>8, <2>9
<1>13. CASE UNCHANGED <<fn, tree>>
  BY <1>13 DEF Alone!vars, PathOf, Leaves, Selects
<1> QED
  BY <1>1, <1>2, <1>3, <1>4, <1>11, <1>12, <1>13 DEF step, Fail

LEMMA AloneNext ==
    ASSUME PathInv, PathInv', [Next]_vars, NEW v \in Valuation
    PROVE  Alone(v)!Next \/ UNCHANGED Alone(v)!vars
<1>1. \A n \in turn : n \in DOMAIN tree /\ NodeOK(n, tree[n]) /\ tree[n] \in Node
  BY DEF PathInv, TypeOK, Unfinished, Leaves, NodeOK
<1>2. CASE UNCHANGED <<fn, tree>>
  BY <1>2 DEF Alone!vars, PathOf, Leaves, Selects
(* The other steps replace a leaf: of some cases, and nothing of the rest. *)
<1>3. ASSUME NEW n \in turn, NEW node, node.path_state # "SPLIT", Continue(n, node),
             PathOf(v) = tree[n] /\ PathOf(v)' = node => Alone(v)!Next
      PROVE  Alone(v)!Next \/ UNCHANGED Alone(v)!vars
  <2>1. CASE Selects(v, n)
    BY <1>3, <2>1, ContinuePathOf
  <2>2. CASE ~Selects(v, n)
    <3>1. PathOf(v)' = PathOf(v) /\ fn' = fn
      BY <1>3, <2>2, ContinuePathOf DEF Continue
    <3> QED
      BY <3>1 DEF Alone!vars
  <2> QED
    BY <2>1, <2>2
<1>4. ASSUME NEW n \in turn, path_init_abstract(n)
      PROVE  Alone(v)!Next \/ UNCHANGED Alone(v)!vars
  <2>1. PICK node : node = [tree[n] EXCEPT !.path_state = "ABSTRACT",
                                !.abstract = [x |-> state_init(fn).x, props |-> {}]]
    OBVIOUS
  <2>2. CASE state_init(fn).kind = "ok" /\ Continue(n, node)
    <3>1. /\ node.path_state = "ABSTRACT" /\ node.actual = tree[n].actual
          /\ node.abstract = [x |-> state_init(fn).x, props |-> {}]
      BY <1>1, <2>1 DEF Node
    <3>2. PathOf(v) = tree[n] /\ PathOf(v)' = node => Alone(v)!BeginAbstract
      BY <1>4, <2>2, <3>1 DEF path_init_abstract, Continue, Alone!BeginAbstract
    <3> QED
      BY <1>3, <2>2, <3>1, <3>2 DEF Alone!Next
  <2> QED
    BY <1>2, <1>4, <2>1, <2>2 DEF path_init_abstract, Fail
<1>5. ASSUME NEW n \in turn, path_step_abstract(n)
      PROVE  Alone(v)!Next \/ UNCHANGED Alone(v)!vars
  BY <1>5, StepAlone DEF path_step_abstract, Executing
<1>6. ASSUME NEW n \in turn, path_init_actual(n)
      PROVE  Alone(v)!Next \/ UNCHANGED Alone(v)!vars
  <2>1. PICK r : r = state_init_actual(fn, tree[n].abstract.props)
    OBVIOUS
  <2>2. PICK node : node = [tree[n] EXCEPT !.path_state = "ACTUAL",
                                !.actual = [x |-> r.x, props |-> tree[n].abstract.props]]
    OBVIOUS
  <2>3. CASE r.kind = "ok" /\ Continue(n, node)
    <3>1. /\ node.path_state = "ACTUAL" /\ node.abstract = tree[n].abstract
          /\ node.actual = [x |-> r.x, props |-> tree[n].abstract.props]
      BY <1>1, <2>2 DEF Node
    <3>2. PathOf(v) = tree[n] /\ PathOf(v)' = node => Alone(v)!BeginActual
      BY <1>6, <2>1, <2>3, <3>1 DEF path_init_actual, Continue, Alone!BeginActual
    <3> QED
      BY <1>3, <2>3, <3>1, <3>2 DEF Alone!Next
  <2> QED
    BY <1>2, <1>6, <2>1, <2>2, <2>3 DEF path_init_actual, Fail
<1>7. ASSUME NEW n \in turn, path_step_actual(n)
      PROVE  Alone(v)!Next \/ UNCHANGED Alone(v)!vars
  BY <1>7, StepAlone DEF path_step_actual, Executing
<1>8. ASSUME NEW n \in turn, path_audit(n)
      PROVE  Alone(v)!Next \/ UNCHANGED Alone(v)!vars
  <2>1. PICK node : node = [tree[n] EXCEPT !.path_state = "ATEND"]
    OBVIOUS
  <2>2. CASE /\ state_hasgarbage(tree[n].actual.x) = "no"
             /\ state_equal(tree[n].actual.x, tree[n].abstract.x) = "yes"
             /\ Continue(n, node)
    <3>1. /\ node.path_state = "ATEND" /\ node.abstract = tree[n].abstract
          /\ node.actual = tree[n].actual
      BY <1>1, <2>1 DEF Node
    <3>2. PathOf(v) = tree[n] /\ PathOf(v)' = node => Alone(v)!Accept
      BY <1>8, <2>2, <3>1
      DEF path_audit, Continue, Alone!Accept, Alone!AtAudit, Alone!Passes
    <3> QED
      BY <1>3, <2>2, <3>1, <3>2 DEF Alone!Next
  <2> QED
    BY <1>2, <1>8, <2>1, <2>2 DEF path_audit, Fail
<1> QED
  BY <1>2, <1>4, <1>5, <1>6, <1>7, <1>8 DEF Next, path_step, BeginSweep, Verified, Done, vars

(* The tree of paths implements the verification of each case alone, for   *)
(* every executor and whatever conditions it meets: no split, no copy, no  *)
(* dropped copy and no order of the sweep skips, repeats or changes a step *)
(* of a case (path_split, path_copywithcond, path_step_split).             *)
THEOREM TreeImplementsEachCase == Spec => EachCaseAlone
<1>1. Init /\ PathInv => \A v \in Valuation : Alone(v)!Init
  <2> SUFFICES ASSUME Init, PathInv, NEW v \in Valuation PROVE Alone(v)!Init
    OBVIOUS
  <2>1. PICK n \in Leaves : Selects(v, n)
    BY DEF PathInv, ExactlyOnePath
  <2>2. PathOf(v) = path_create
    BY <2>1, PathOfLeaf DEF Init, Leaves
  <2> QED
    BY <2>2 DEF Init, path_create, Alone!Init
<1>2. PathInv /\ PathInv' /\ [Next]_vars =>
        [\A v \in Valuation : Alone(v)!Next \/ UNCHANGED Alone(v)!vars]_vars
  BY AloneNext
<1> QED
  BY <1>1, <1>2, Invariance, PTL DEF Spec, EachCaseAlone

-----------------------------------------------------------------------------
(* Reports. *)

(* The path that is stepped stands for some case.                          *)
LEMMA SteppedIsSomeCase ==
    ASSUME PathInv, NamesInv, NEW n \in turn
    PROVE  \E v \in Valuation : PathOf(v) = tree[n]
<1>1. n \in Leaves /\ n \in Unfinished /\ NodeOK(n, tree[n]) /\ Knows(n, tree[n])
  BY DEF PathInv, NamesInv, TypeOK, Unfinished, Leaves
<1>2. tree[n].path_state \in {"UNINIT", "ABSTRACT", "ACTUAL"}
  BY <1>1 DEF NodeOK, Node, PathState, Unfinished, Leaves
<1>3. PICK P \in SUBSET Literal :
        Consistent(P) /\ \A v \in Valuation : Satisfies(v, P) => Selects(v, n)
  <2>1. CASE tree[n].path_state = "UNINIT"
    <3>1. n = <<>> /\ Consistent({})
      BY <1>1, <2>1 DEF Knows, Consistent
    <3>2. \A v \in Valuation : Selects(v, n)
      BY <3>1 DEF Selects
    <3> QED
      BY <3>1, <3>2
  <2>2. CASE tree[n].path_state \in {"ABSTRACT", "ACTUAL"}
    <3>1. Executing(tree[n]).props \in SUBSET Literal /\ Consistent(Executing(tree[n]).props)
      BY <1>1, <2>2 DEF NodeOK, Node, Executing, States, SymState
    <3> QED
      BY <1>1, <2>2, <3>1 DEF Knows
  <2> QED
    BY <1>2, <2>1, <2>2
<1>4. PICK v \in Valuation : Selects(v, n)
  BY <1>3, ConsistentSatisfiable
<1> QED
  BY <1>1, <1>4, PathOfLeaf

LEMMA FailIsSomeCase ==
    ASSUME NEW kind \in {"error", "abort"}, Fail(kind),
           NEW v \in Valuation, Alone(v)!Fails(kind)
    PROVE  ReportedIsSomeCase'
<1>1. PathOf(v)' = PathOf(v) /\ fn' = fn /\ verdict' = kind
  BY DEF Fail, PathOf, Leaves, Selects
<1>2. Alone(v)!Fails(verdict)'
  BY <1>1 DEF Alone!Fails, Alone!Kind, Alone!AtAudit, Alone!AuditFinds
<1> QED
  BY <1>2 DEF ReportedIsSomeCase, Valuation

LEMMA ReportNext ==
    ASSUME PathInv, NamesInv, ReportedIsSomeCase, [Next]_vars
    PROVE  ReportedIsSomeCase'
<1>1. ASSUME verdict' \notin {"error", "abort"} PROVE ReportedIsSomeCase'
  BY <1>1 DEF ReportedIsSomeCase
<1>2. CASE UNCHANGED vars
  <2>1. \A v \in Valuation : PathOf(v)' = PathOf(v)
    BY <1>2 DEF vars, PathOf, Leaves, Selects
  <2> QED
    BY <1>2, <2>1 DEF vars, ReportedIsSomeCase, Valuation,
                      Alone!Fails, Alone!Kind, Alone!AtAudit, Alone!AuditFinds
<1>3. ASSUME NEW n \in turn, path_init_abstract(n) PROVE ReportedIsSomeCase'
  <2>1. PICK v \in Valuation : PathOf(v) = tree[n]
    BY SteppedIsSomeCase
  <2>2. PICK r : r = state_init(fn)
    OBVIOUS
  <2>3. CASE r.kind \in {"error", "undecided"} /\ Fail("error")
    <3>1. Alone(v)!Fails("error")
      BY <1>3, <2>1, <2>2, <2>3 DEF path_init_abstract, Alone!Fails, Alone!Kind
    <3> QED
      BY <2>3, <3>1, FailIsSomeCase
  <2>4. CASE r.kind = "abort" /\ Fail("abort")
    <3>1. Alone(v)!Fails("abort")
      BY <1>3, <2>1, <2>2, <2>4 DEF path_init_abstract, Alone!Fails, Alone!Kind
    <3> QED
      BY <2>4, <3>1, FailIsSomeCase
  <2>5. CASE verdict' = verdict
    BY <1>1, <1>3, <2>5 DEF path_init_abstract, Reaches
  <2> QED
    BY <1>3, <2>2, <2>3, <2>4, <2>5 DEF path_init_abstract, Continue
<1>4. ASSUME NEW n \in turn, tree[n].path_state \in {"ABSTRACT", "ACTUAL"},
             ~state_atend(Executing(tree[n]).x), step(n), verdict = "running"
      PROVE  ReportedIsSomeCase'
  <2>1. PICK v \in Valuation : PathOf(v) = tree[n]
    BY SteppedIsSomeCase
  <2>2. PICK r : r = state_step(Executing(tree[n]).x, Executing(tree[n]).props)
    OBVIOUS
  <2>3. CASE r.kind \in {"error", "abort"} /\ Fail(r.kind)
    <3>1. Alone(v)!Fails(r.kind)
      BY <1>4, <2>1, <2>2 DEF Executing, Alone!Fails
    <3> QED
      BY <2>3, <3>1, FailIsSomeCase
  <2>4. CASE verdict' = verdict
    BY <1>1, <1>4, <2>4
  <2> QED
    BY <1>4, <2>2, <2>3, <2>4 DEF step, Continue
<1>5. ASSUME NEW n \in turn, path_init_actual(n) PROVE ReportedIsSomeCase'
  <2>1. PICK v \in Valuation : PathOf(v) = tree[n]
    BY SteppedIsSomeCase
  <2>2. PICK r : r = state_init_actual(fn, tree[n].abstract.props)
    OBVIOUS
  <2>3. CASE r.kind \in {"error", "undecided"} /\ Fail("error")
    <3>1. Alone(v)!Fails("error")
      BY <1>5, <2>1, <2>2, <2>3 DEF path_init_actual, Alone!Fails, Alone!Kind
    <3> QED
      BY <2>3, <3>1, FailIsSomeCase
  <2>4. CASE r.kind = "abort" /\ Fail("abort")
    <3>1. Alone(v)!Fails("abort")
      BY <1>5, <2>1, <2>2, <2>4 DEF path_init_actual, Alone!Fails, Alone!Kind
    <3> QED
      BY <2>4, <3>1, FailIsSomeCase
  <2>5. CASE verdict' = verdict
    BY <1>1, <1>5, <2>5 DEF path_init_actual, Reaches
  <2> QED
    BY <1>5, <2>2, <2>3, <2>4, <2>5 DEF path_init_actual, Continue
<1>6. ASSUME NEW n \in turn, path_audit(n) PROVE ReportedIsSomeCase'
  <2>1. PICK v \in Valuation : PathOf(v) = tree[n]
    BY SteppedIsSomeCase
  <2>2. PICK garbage : garbage = state_hasgarbage(tree[n].actual.x)
    OBVIOUS
  <2>3. PICK same : same = state_equal(tree[n].actual.x, tree[n].abstract.x)
    OBVIOUS
  <2>4. Alone(v)!AtAudit
    BY <1>6, <2>1 DEF path_audit, Alone!AtAudit
  <2>5. CASE (garbage = "yes" \/ (garbage = "no" /\ same = "no")) /\ Fail("error")
    <3>1. Alone(v)!Fails("error")
      BY <2>1, <2>2, <2>3, <2>4, <2>5 DEF Alone!Fails, Alone!AuditFinds
    <3> QED
      BY <2>5, <3>1, FailIsSomeCase
  <2>6. CASE (garbage = "abort" \/ (garbage = "no" /\ same = "abort")) /\ Fail("abort")
    <3>1. Alone(v)!Fails("abort")
      BY <2>1, <2>2, <2>3, <2>4, <2>6 DEF Alone!Fails, Alone!AuditFinds
    <3> QED
      BY <2>6, <3>1, FailIsSomeCase
  <2>7. CASE verdict' = verdict
    BY <1>1, <1>6, <2>7 DEF path_audit, Reaches
  <2> QED
    BY <1>6, <2>2, <2>3, <2>5, <2>6, <2>7 DEF path_audit, Continue
<1>7. CASE BeginSweep \/ Verified
  BY <1>1, <1>7 DEF BeginSweep, Verified
<1> QED
  BY <1>2, <1>3, <1>4, <1>5, <1>6, <1>7
  DEF Next, path_step, path_step_abstract, path_step_actual, Reaches, Executing, Done

(* An error or a failed assertion comes from a case: the verification of   *)
(* it alone ends so, for every executor (path_step, path_split and the     *)
(* contradiction check of path_copywithcond).                              *)
THEOREM ReportsAreCases == Spec => []ReportedIsSomeCase
<1>1. Init => ReportedIsSomeCase
  BY DEF Init, ReportedIsSomeCase
<1>2. PathInv /\ NamesInv /\ ReportedIsSomeCase /\ [Next]_vars => ReportedIsSomeCase'
  BY ReportNext
<1> QED
  BY <1>1, <1>2, Invariance, NamesHold, PTL DEF Spec

=============================================================================
