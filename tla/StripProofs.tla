---------------------------- MODULE StripProofs ----------------------------
(***************************************************************************)
(* Proofs about stripping, for all files: the output is what stands        *)
(* outside of the verification blocks.  And about the whole program: it    *)
(* makes progress until it exits.                                          *)
(***************************************************************************)
EXTENDS GraphProofs

-----------------------------------------------------------------------------
(* The inductive invariant *)

KeptUpTo(p) == {k \in Kept : k <= p}

(* What is kept of the first p characters is in the output o, and no block *)
(* reaches over p.                                                         *)
Copied(o, p) ==
    /\ Len(o) = Cardinality(KeptUpTo(p))
    /\ \A k \in KeptUpTo(p) : o[Before(k) + 1] = file[k]
    /\ \A b \in Blocks : b[2] <= p \/ b[1] > p

(* The block that begins at a, with its bracket at o, has not been closed  *)
(* up to p, where d + 1 brackets are open.                                 *)
Inside(a, o, p, d) ==
    /\ Opens(a, o) /\ o <= p
    /\ \A j \in o .. p : Brackets("[", o, j) > Brackets("]", o, j)
    /\ d = Brackets("[", o, p) - Brackets("]", o, p) - 1

Fits == Len(file) <= MaxOut

Stripping ==
    WellFormed =>
        /\ depth = -1 => Copied(out, pos)
        /\ depth >= 0 => \E a, o \in Positions : Copied(out, a - 1) /\ Inside(a, o, pos, depth)
        /\ ~copying => depth = -1 /\ pos = Len(file)

-----------------------------------------------------------------------------
(* Brackets *)

LEMMA BracketsStep ==
    ASSUME NEW c, NEW o \in Nat, NEW k \in Nat, o <= k + 1
    PROVE  /\ Brackets(c, o, k) \in Nat
           /\ Brackets(c, o, k + 1) =
                 IF file[k + 1] = c THEN Brackets(c, o, k) + 1 ELSE Brackets(c, o, k)
<1> DEFINE S == {j \in o .. k : file[j] = c}
           T == {j \in o .. k + 1 : file[j] = c}
<1>1. IsFiniteSet(S) /\ Cardinality(S) \in Nat
  <2>1. IsFiniteSet(o .. k) /\ S \in SUBSET (o .. k)
    BY FS_Interval
  <2> QED BY <2>1, FS_Subset, FS_CardinalityType
<1>2. o .. k + 1 = (o .. k) \cup {k + 1} /\ k + 1 \notin o .. k
  OBVIOUS
<1>3. CASE file[k + 1] = c
  <2>1. T = S \cup {k + 1} /\ k + 1 \notin S
    BY <1>2, <1>3
  <2> QED BY <1>1, <1>3, <2>1, FS_AddElement DEF Brackets
<1>4. CASE file[k + 1] # c
  <2>1. T = S
    BY <1>2, <1>4
  <2> QED BY <1>1, <1>4, <2>1 DEF Brackets
<1> QED BY <1>3, <1>4

LEMMA BracketsSplit ==
    ASSUME NEW c, NEW o \in Nat, NEW j \in Nat, NEW k \in Nat, o < j, j <= k
    PROVE  /\ Brackets(c, o, k) = Brackets(c, o, j - 1) + Brackets(c, j, k)
           /\ Brackets(c, o, k) \in Nat /\ Brackets(c, o, j - 1) \in Nat
           /\ Brackets(c, j, k) \in Nat
<1> DEFINE S == {i_ \in o .. j - 1 : file[i_] = c}
           T == {i_ \in j .. k : file[i_] = c}
           U == {i_ \in o .. k : file[i_] = c}
<1>1. IsFiniteSet(S) /\ Cardinality(S) \in Nat /\ IsFiniteSet(T) /\ Cardinality(T) \in Nat
  <2>1. IsFiniteSet(o .. j - 1) /\ S \in SUBSET (o .. j - 1)
    BY FS_Interval
  <2>2. IsFiniteSet(j .. k) /\ T \in SUBSET (j .. k)
    BY FS_Interval
  <2> QED BY <2>1, <2>2, FS_Subset, FS_CardinalityType
<1>2. U = S \cup T /\ S \cap T = {}
  <2>1. o .. k = (o .. j - 1) \cup (j .. k) /\ (o .. j - 1) \cap (j .. k) = {}
    OBVIOUS
  <2> QED BY <2>1
<1> HIDE DEF S, T, U
<1>3. Cardinality(U) = Cardinality(S) + Cardinality(T)
  <2>1. Cardinality(S \cup T) = Cardinality(S) + Cardinality(T) - Cardinality(S \cap T)
    BY <1>1, FS_Union
  <2> QED BY <1>1, <1>2, <2>1, FS_EmptySet
<1> QED BY <1>1, <1>3 DEF Brackets, S, T, U

(* The count begins at one. *)
LEMMA BracketsBegin ==
    ASSUME NEW o \in Nat \ {0}, file[o] = "["
    PROVE  Brackets("[", o, o) = 1 /\ Brackets("]", o, o) = 0
<1>1. \A c : Brackets(c, o, o - 1) = 0
  <2>1. o .. o - 1 = {}
    OBVIOUS
  <2> QED BY <2>1, FS_EmptySet DEF Brackets
<1>2. o - 1 \in Nat /\ (o - 1) + 1 = o /\ o <= (o - 1) + 1
  OBVIOUS
<1>3. Brackets("[", o, (o - 1) + 1) = 1 /\ Brackets("]", o, (o - 1) + 1) = 0
  BY ONLY <1>1, <1>2, file[o] = "[", BracketsStep
<1> QED BY <1>2, <1>3

(* Where as many brackets were closed as were opened, or more, the first   *)
(* one is closed.                                                          *)
LEMMA Crossing ==
    ASSUME NEW o \in Nat \ {0}, file[o] = "[", NEW k \in Nat, k > o,
           Brackets("[", o, k) <= Brackets("]", o, k)
    PROVE  \E m \in o + 1 .. k : Closes(o, m)
<1> DEFINE D(j) == Brackets("[", o, j) - Brackets("]", o, j)
           T    == {j \in o + 1 .. k : D(j) <= 0}
<1>1. \A j \in Nat : j >= o => Brackets("[", o, j) \in Nat /\ Brackets("]", o, j) \in Nat
  BY BracketsStep
<1>2. k \in T
  BY <1>1
<1>3. PICK m \in T : \A j \in T : m <= j
  <2>1. T \in SUBSET Nat /\ T # {}
    BY <1>2
  <2> HIDE DEF T
  <2> QED BY <2>1, LeastNumber
<1>4. \A j \in o .. m - 1 : D(j) > 0
  <2> TAKE j \in o .. m - 1
  <2>1. CASE j = o
    BY <2>1, BracketsBegin
  <2>2. CASE j # o
    <3>1. j \in o + 1 .. k /\ j < m /\ j \in Nat /\ j >= o /\ m \in Nat
      BY <1>3, <2>2
    <3>2. D(j) \in Int
      BY <1>1, <3>1
    <3>3. j \notin T
      <4> HIDE DEF T
      <4> QED BY <1>3, <3>1
    <3> QED BY <3>1, <3>2, <3>3
  <2> QED BY <2>1, <2>2
<1>5. D(m) >= 0
  <2>1. m - 1 \in Nat /\ (m - 1) + 1 = m /\ o <= (m - 1) + 1 /\ m - 1 \in o .. m - 1 /\ m - 1 >= o
    BY <1>3
  <2>2. \A c : /\ Brackets(c, o, m - 1) \in Nat
               /\ Brackets(c, o, m) = IF file[m] = c THEN Brackets(c, o, m - 1) + 1
                                                   ELSE Brackets(c, o, m - 1)
    BY ONLY <2>1, o \in Nat \ {0}, BracketsStep
  <2>3. D(m - 1) > 0
    BY <1>4, <2>1
  <2> QED BY <2>2, <2>3
<1>6. m \in o + 1 .. k /\ m > o /\ D(m) <= 0
  BY <1>3
<1>7. Brackets("[", o, m) = Brackets("]", o, m)
  BY <1>1, <1>5, <1>6
<1>8. \A j \in o .. m - 1 : Brackets("[", o, j) # Brackets("]", o, j)
  BY <1>1, <1>4
<1> QED BY <1>6, <1>7, <1>8 DEF Closes

LEMMA ClosesOnce ==
    ASSUME NEW o \in Nat, NEW k \in Nat, NEW m \in Nat, Closes(o, k), Closes(o, m)
    PROVE  k = m
<1>1. ~(k < m)
  <2> SUFFICES ASSUME k < m PROVE FALSE
    OBVIOUS
  <2>1. k \in o .. m - 1
    BY DEF Closes
  <2> QED BY <2>1 DEF Closes
<1>2. ~(m < k)
  <2> SUFFICES ASSUME m < k PROVE FALSE
    OBVIOUS
  <2>1. m \in o .. k - 1
    BY DEF Closes
  <2> QED BY <2>1 DEF Closes
<1> QED BY <1>1, <1>2

(* A block that begins with its bracket at o, with nothing but white space *)
(* before it, has no other. *)
LEMMA OpensOnce ==
    ASSUME NEW a \in Nat, NEW o \in Nat, NEW m \in Nat, Opens(a, o), Opens(a, m)
    PROVE  o = m
<1>1. ~(o < m)
  <2> SUFFICES ASSUME o < m PROVE FALSE
    OBVIOUS
  <2>1. o \in a + 1 .. m - 1
    BY DEF Opens
  <2> QED BY <2>1 DEF Opens
<1>2. ~(m < o)
  <2> SUFFICES ASSUME m < o PROVE FALSE
    OBVIOUS
  <2>1. m \in a + 1 .. o - 1
    BY DEF Opens
  <2> QED BY <2>1 DEF Opens
<1> QED BY <1>1, <1>2

-----------------------------------------------------------------------------
(* What is kept *)

LEMMA BlockFacts ==
    ASSUME file \in Seq(Characters), NEW b \in Blocks
    PROVE  /\ b[1] \in Nat \ {0} /\ b[2] \in Nat \ {0} /\ b[1] <= b[2]
           /\ \E o \in Nat \ {0} : /\ Opens(b[1], o) /\ Closes(o, b[2])
                                   /\ b[1] < o /\ o < b[2]
<1>1. b \in Positions \X Positions /\ Positions = 1 .. Len(file)
  BY DEF Blocks, Positions
<1>2. PICK o \in b[1] .. b[2] : Opens(b[1], o) /\ Closes(o, b[2])
  BY DEF Blocks
<1>3. b[1] \in Nat \ {0} /\ b[2] \in Nat \ {0}
  BY <1>1
<1>4. o > b[1] /\ b[2] > o
  BY <1>2 DEF Opens, Closes
<1> QED BY <1>2, <1>3, <1>4

LEMMA KeptNat ==
    ASSUME file \in Seq(Characters)
    PROVE  /\ \A j \in Kept : j \in Nat
           /\ \A j, p : j \in KeptUpTo(p) <=> j \in Kept /\ j <= p
BY DEF Kept, KeptUpTo, Positions

LEMMA KeptFinite ==
    ASSUME file \in Seq(Characters), NEW p \in Nat
    PROVE  /\ IsFiniteSet(KeptUpTo(p)) /\ Cardinality(KeptUpTo(p)) \in Nat
           /\ Cardinality(KeptUpTo(p)) <= p
<1>1. KeptUpTo(p) \in SUBSET (1 .. p)
  BY DEF KeptUpTo, Kept, Positions
<1>2. IsFiniteSet(1 .. p) /\ Cardinality(1 .. p) = p
  BY FS_Interval
<1> QED BY <1>1, <1>2, FS_Subset, FS_CardinalityType

(* What is kept stands behind what is kept before it. *)
LEMMA BeforeFacts ==
    ASSUME file \in Seq(Characters), NEW p \in Nat, NEW k \in KeptUpTo(p)
    PROVE  Before(k) \in Nat /\ Before(k) < Cardinality(KeptUpTo(p))
<1> DEFINE S == {j \in Kept : j < k}
           K == KeptUpTo(p)
<1>1. k \in K /\ k \notin S /\ S \subseteq K
  <2>1. k \in Nat /\ k <= p /\ \A j \in Kept : j \in Nat
    BY KeptNat
  <2>2. \A j \in S : j \in Kept /\ j < k
    OBVIOUS
  <2>3. \A j \in S : j \in K
    BY <2>1, <2>2, KeptNat
  <2> QED BY <2>1, <2>3
<1>2. IsFiniteSet(K) /\ Cardinality(K) \in Nat
  BY KeptFinite
<1>3. S \in SUBSET (K \ {k})
  BY <1>1
<1> HIDE DEF S, K
<1>4. IsFiniteSet(K \ {k}) /\ Cardinality(K \ {k}) = Cardinality(K) - 1
  BY <1>1, <1>2, FS_RemoveElement
<1>5. IsFiniteSet(S) /\ Cardinality(S) <= Cardinality(K) - 1
  BY <1>3, <1>4, FS_Subset
<1>6. Cardinality(S) \in Nat
  BY <1>5, FS_CardinalityType
<1> QED BY <1>2, <1>5, <1>6 DEF Before, S, K

(* A character at which no block begins, and over which none reaches. *)
LEMMA KeptAt ==
    ASSUME file \in Seq(Characters), NEW w, NEW p \in Nat, p < Len(file), Copied(w, p),
           \A o \in Nat : ~Opens(p + 1, o)
    PROVE  p + 1 \in Kept
<1>1. p + 1 \in Positions
  BY DEF Positions
<1>2. ASSUME NEW b \in Blocks, p + 1 \in b[1] .. b[2]
      PROVE  FALSE
  <2>1. PICK o \in Nat \ {0} : Opens(b[1], o)
    BY BlockFacts
  <2>2. b[1] \in Nat /\ b[2] \in Nat
    BY BlockFacts
  <2>3. b[1] = p + 1
    BY <1>2, <2>2 DEF Copied
  <2> QED BY <2>1, <2>3
<1> QED BY <1>1, <1>2 DEF Kept

LEMMA CopiesKept ==
    ASSUME file \in Seq(Characters), Fits, NEW w \in Seq(Characters),
           NEW p \in Nat, p < Len(file), Copied(w, p), p + 1 \in Kept
    PROVE  Len(w) < MaxOut /\ Copied(Append(w, file[p + 1]), p + 1)
<1> DEFINE x == Append(w, file[p + 1])
           K == KeptUpTo(p)
<1>1. Len(w) = Cardinality(K) /\ IsFiniteSet(K) /\ Cardinality(K) \in Nat /\ Cardinality(K) <= p
  BY KeptFinite DEF Copied
<1>2. Len(w) < MaxOut
  BY <1>1, StripAssumption DEF Fits
<1>3. KeptUpTo(p + 1) = K \cup {p + 1} /\ p + 1 \notin K
  <2>1. \A j : j \in KeptUpTo(p + 1) <=> j \in K \/ j = p + 1
    BY KeptNat
  <2> QED BY <2>1, KeptNat
<1>4. Before(p + 1) = Cardinality(K)
  <2>1. {j \in Kept : j < p + 1} = {k \in Kept : k <= p}
    <3>1. \A j \in Kept : j < p + 1 <=> j <= p
      BY KeptNat
    <3> QED BY <3>1
  <2> QED BY <2>1 DEF Before, KeptUpTo
<1>5. file[p + 1] \in Characters
  OBVIOUS
<1>6. /\ Len(x) = Len(w) + 1
      /\ x[Len(w) + 1] = file[p + 1]
      /\ \A k \in 1 .. Len(w) : x[k] = w[k]
  BY <1>5, AppendProperties
<1>7. \A k \in K : Before(k) + 1 \in 1 .. Len(w) /\ w[Before(k) + 1] = file[k]
  <2> TAKE k \in K
  <2>1. Before(k) \in Nat /\ Before(k) < Cardinality(K)
    BY BeforeFacts
  <2>2. w[Before(k) + 1] = file[k]
    BY DEF Copied
  <2>3. Before(k) + 1 \in 1 .. Cardinality(K)
    BY <1>1, <2>1
  <2> QED BY <1>1, <2>2, <2>3
<1>8. \A b \in Blocks : b[2] <= p + 1 \/ b[1] > p + 1
  <2> TAKE b \in Blocks
  <2>1. b[1] \in Nat /\ b[2] \in Nat
    BY BlockFacts
  <2>2. p + 1 \notin b[1] .. b[2]
    BY DEF Kept
  <2> QED BY <2>1, <2>2
<1> HIDE DEF x, K
<1>9. Cardinality(KeptUpTo(p + 1)) = Cardinality(K) + 1
  BY <1>1, <1>3, FS_AddElement
<1>10. Len(x) = Cardinality(KeptUpTo(p + 1))
  BY <1>1, <1>6, <1>9
<1>11. \A k \in KeptUpTo(p + 1) : x[Before(k) + 1] = file[k]
  BY <1>1, <1>3, <1>4, <1>6, <1>7
<1> QED BY <1>2, <1>8, <1>10, <1>11 DEF Copied, x

(* A block is left out, as it begins where nothing is missing and no other *)
(* one reaches over its end.                                               *)
LEMMA LeavesOut ==
    ASSUME file \in Seq(Characters), NEW w, NEW a \in Nat \ {0}, NEW k \in Nat,
           <<a, k>> \in Blocks, Copied(w, a - 1),
           \A b \in Blocks : b[2] <= k \/ b[1] > k
    PROVE  Copied(w, k)
<1>1. KeptUpTo(k) = KeptUpTo(a - 1)
  <2>1. a <= k /\ \A j \in Kept : j \in Nat
    BY KeptNat, BlockFacts
  <2>2. \A m \in Kept : ~(a <= m /\ m <= k)
    <3>1. \A m \in Kept : m \notin a .. k
      BY DEF Kept
    <3> QED BY <2>1, <3>1
  <2>3. \A j : j \in KeptUpTo(k) <=> j \in KeptUpTo(a - 1)
    BY <2>1, <2>2, KeptNat
  <2> QED BY <2>3
<1> QED BY <1>1 DEF Copied

(* No block reaches over the end of the one that begins at a. *)
LEMMA BlockEnds ==
    ASSUME file \in Seq(Characters), NEW w, NEW a \in Positions, NEW o \in Positions,
           NEW p \in Nat, p < Len(file), Copied(w, a - 1), Inside(a, o, p, 0),
           file[p + 1] = "]"
    PROVE  Copied(w, p + 1)
<1> DEFINE k == p + 1
<1>1. a \in Nat \ {0} /\ o \in Nat \ {0} /\ a < o /\ o <= p /\ Opens(a, o)
      /\ file[a] = "~" /\ file[o] = "[" /\ Positions = 1 .. Len(file)
  BY DEF Positions, Inside, Opens
<1>2. \A j \in o .. p : Brackets("[", o, j) > Brackets("]", o, j)
  BY DEF Inside
<1>3. \A j \in Nat : o <= j + 1 => Brackets("[", o, j) \in Nat /\ Brackets("]", o, j) \in Nat
  BY <1>1, BracketsStep
<1>4. Brackets("[", o, k) = Brackets("]", o, k)
  <2>1. o \in Nat /\ o <= p + 1
    BY <1>1
  <2>2. /\ Brackets("[", o, p + 1) = Brackets("[", o, p)
        /\ Brackets("]", o, p + 1) = Brackets("]", o, p) + 1
    <3>1. "[" # "]"
      OBVIOUS
    <3> QED BY ONLY <2>1, <3>1, p \in Nat, file[p + 1] = "]", BracketsStep
  <2>3. 0 = Brackets("[", o, p) - Brackets("]", o, p) - 1
    BY DEF Inside
  <2> QED BY <1>3, <2>1, <2>2, <2>3
<1>5. Closes(o, k)
  <2>1. \A j \in o .. k - 1 : Brackets("[", o, j) # Brackets("]", o, j)
    <3> TAKE j \in o .. k - 1
    <3>1. j \in o .. p /\ j \in Nat /\ o <= j + 1
      BY <1>1
    <3> QED BY <1>2, <1>3, <3>1
  <2> QED BY <1>1, <1>4, <2>1 DEF Closes
<1>6. <<a, k>> \in Blocks
  <2>1. k \in Positions /\ o \in a .. k
    BY <1>1
  <2> QED BY <1>1, <1>5, <2>1 DEF Blocks
<1>7. ASSUME NEW b \in Blocks, ~(b[2] <= k \/ b[1] > k)
      PROVE  FALSE
  <2>1. PICK m \in Nat \ {0} : Opens(b[1], m) /\ Closes(m, b[2]) /\ b[1] < m /\ m < b[2]
    BY BlockFacts
  <2>2. b[1] \in Nat /\ b[2] \in Nat /\ b[1] <= k /\ b[2] > k /\ k \in Nat
    BY <1>7, BlockFacts
  <2>3. CASE b[1] < a
    BY <1>1, <2>2, <2>3 DEF Copied
  <2>4. CASE b[1] = a
    <3>1. m = o
      BY <1>1, <2>1, <2>4, OpensOnce
    <3>2. b[2] = k
      BY <1>1, <1>5, <2>1, <2>2, <3>1, ClosesOnce
    <3> QED BY <2>2, <3>2
  <2>5. CASE b[1] > a
    <3>1. file[b[1]] = "~" /\ file[m] = "["
      BY <2>1 DEF Opens
    <3>2. b[1] > o
      <4>1. b[1] # o
        BY <1>1, <3>1
      <4>2. b[1] \notin a + 1 .. o - 1
        BY <1>1, <3>1 DEF Opens
      <4> QED BY <1>1, <2>2, <2>5, <4>1, <4>2
    <3>3. m < k
      <4>1. m # k /\ b[1] # k
        BY <3>1
      <4>2. k \notin b[1] + 1 .. m - 1
        BY <2>1 DEF Opens
      <4> QED BY <2>1, <2>2, <4>1, <4>2
    <3>4. o < m /\ m <= k /\ o \in Nat /\ m \in Nat /\ k \in Nat
      BY <1>1, <2>1, <2>2, <3>2, <3>3
    <3>5. \A c : /\ Brackets(c, o, k) = Brackets(c, o, m - 1) + Brackets(c, m, k)
                 /\ Brackets(c, o, m - 1) \in Nat /\ Brackets(c, m, k) \in Nat
      BY ONLY <3>4, BracketsSplit
    <3>6. Brackets("[", o, m - 1) > Brackets("]", o, m - 1)
      <4>1. m - 1 \in o .. p
        BY <1>1, <3>3, <3>4
      <4> QED BY <1>2, <4>1
    <3>7. Brackets("[", m, k) <= Brackets("]", m, k)
      BY <1>4, <3>5, <3>6
    <3>8. PICK n \in m + 1 .. k : Closes(m, n)
      BY <2>1, <2>2, <3>1, <3>3, <3>7, Crossing
    <3>9. n = b[2]
      BY <2>1, <2>2, <3>4, <3>8, ClosesOnce
    <3> QED BY <2>2, <3>4, <3>8, <3>9
  <2> QED BY <1>1, <2>2, <2>3, <2>4, <2>5
<1>8. k \in Nat
  OBVIOUS
<1> HIDE DEF k
<1>9. \A b \in Blocks : b[2] <= k \/ b[1] > k
  BY <1>7
<1>10. Copied(w, k)
  BY <1>1, <1>6, <1>8, <1>9, LeavesOut
<1> QED BY <1>10 DEF k

-----------------------------------------------------------------------------
(* The steps of strip *)

LEMMA SameFile ==
    ASSUME file' = file
    PROVE  /\ Kept' = Kept /\ Blocks' = Blocks /\ Positions' = Positions
           /\ WellFormed' = WellFormed
           /\ \A k : Before(k)' = Before(k)
           /\ \A a, o : Opens(a, o)' = Opens(a, o)
           /\ \A c, o, k : Brackets(c, o, k)' = Brackets(c, o, k)
<1>1. Positions' = Positions
  BY DEF Positions
<1>2. \A a, o : Opens(a, o)' = Opens(a, o)
  BY DEF Opens
<1>3. \A c, o, k : Brackets(c, o, k)' = Brackets(c, o, k)
  BY DEF Brackets
<1>4. \A o, k : Closes(o, k)' = Closes(o, k)
  BY <1>3 DEF Closes
<1>5. Blocks' = Blocks
  BY <1>1, <1>2, <1>4 DEF Blocks
<1>6. Kept' = Kept
  BY <1>1, <1>5 DEF Kept
<1>7. \A k : Before(k)' = Before(k)
  BY <1>6 DEF Before
<1>8. WellFormed' = WellFormed
  BY <1>1, <1>2, <1>4 DEF WellFormed
<1> QED BY <1>1, <1>2, <1>3, <1>5, <1>6, <1>7, <1>8

LEMMA CopiedNext ==
    ASSUME file' = file, NEW w, NEW p, out' = w, pos' = p
    PROVE  /\ Copied(out, pos)' <=> Copied(w, p)
           /\ \A a : Copied(out, a - 1)' <=> Copied(w, a - 1)
           /\ \A a, o, d : depth' = d => (Inside(a, o, pos, depth)' <=> Inside(a, o, p, d))
<1>1. \A q : KeptUpTo(q)' = KeptUpTo(q)
  BY SameFile DEF KeptUpTo
<1>2. KeptUpTo(pos)' = KeptUpTo(p)
  BY SameFile DEF KeptUpTo
<1>3. Copied(out, pos)' <=> Copied(w, p)
  BY <1>2, SameFile DEF Copied
<1>4. \A a : Copied(out, a - 1)' <=> Copied(w, a - 1)
  BY <1>1, SameFile DEF Copied
<1>5. \A a, o, d : depth' = d => (Inside(a, o, pos, depth)' <=> Inside(a, o, p, d))
  BY SameFile DEF Inside
<1> QED BY <1>3, <1>4, <1>5

(* A character outside of all blocks is copied. *)
LEMMA CharStep ==
    ASSUME Stripped, Fits, WellFormed, Copied(out, pos), pos < Len(file),
           \A o \in Nat : ~Opens(pos + 1, o), Emit(file[pos + 1]),
           file' = file, pos' = pos + 1, depth' = -1
    PROVE  Copied(out, pos)'
<1>1. pos \in Nat /\ file \in Seq(Characters) /\ out \in Seq(Characters)
  BY DEF Stripped
<1>2. pos + 1 \in Kept
  BY <1>1, KeptAt
<1>3. Len(out) < MaxOut /\ Copied(Append(out, file[pos + 1]), pos + 1)
  BY <1>1, <1>2, CopiesKept
<1>4. out' = Append(out, file[pos + 1])
  BY <1>3 DEF Emit
<1> QED BY <1>3, <1>4, CopiedNext

LEMMA InsideStep ==
    ASSUME Stripped, WellFormed, depth >= 0,
           NEW a \in Positions, NEW o \in Positions,
           Copied(out, a - 1), Inside(a, o, pos, depth), skipvblock
    PROVE  /\ depth' >= 0 => Inside(a, o, pos, depth)'
           /\ depth' = -1 => Copied(out, pos)'
<1>1. /\ pos \in Nat /\ pos <= Len(file) /\ file \in Seq(Characters) /\ Positions = 1 .. Len(file)
      /\ depth \in Int /\ Len(file) \in Nat
  BY DEF Stripped, Positions
<1>2. o \in Nat \ {0} /\ o <= pos
  BY <1>1 DEF Inside
<1>3. pos < Len(file)
  <2>1. PICK k \in Positions : Closes(o, k)
    BY DEF Inside, WellFormed
  <2>2. k \in Nat /\ k <= Len(file)
    BY <1>1
  <2>3. k > o /\ Brackets("[", o, k) = Brackets("]", o, k)
    BY <2>1 DEF Closes
  <2>4. ~(k <= pos)
    <3> SUFFICES ASSUME k <= pos PROVE FALSE
      OBVIOUS
    <3>1. k \in o .. pos
      BY <1>1, <1>2, <2>2, <2>3
    <3>2. Brackets("[", o, k) > Brackets("]", o, k)
      BY <3>1 DEF Inside
    <3>3. Brackets("[", o, k) \in Nat
      BY <1>2, <2>2, <2>3, BracketsStep
    <3> QED BY <2>3, <3>2, <3>3
  <2> QED BY <1>1, <2>2, <2>4
<1>4. /\ UNCHANGED <<file, out>> /\ pos' = pos + 1
      /\ depth' = Depth(file[pos + 1])
  BY <1>3 DEF skipvblock, After, CharAt
<1>5. \A c : /\ Brackets(c, o, pos) \in Nat
             /\ Brackets(c, o, pos + 1) = IF file[pos + 1] = c THEN Brackets(c, o, pos) + 1
                                                               ELSE Brackets(c, o, pos)
  <2>1. o \in Nat /\ o <= pos + 1
    BY <1>1, <1>2
  <2> QED BY ONLY <2>1, <1>1, BracketsStep
<1>6. depth = Brackets("[", o, pos) - Brackets("]", o, pos) - 1
  BY DEF Inside
<1>7. /\ Brackets("[", o, pos + 1) \in Nat /\ Brackets("]", o, pos + 1) \in Nat
      /\ depth' = Brackets("[", o, pos + 1) - Brackets("]", o, pos + 1) - 1
  <2>1. Brackets("[", o, pos) \in Nat /\ Brackets("]", o, pos) \in Nat
    BY <1>5
  <2>2. /\ Brackets("[", o, pos + 1) = IF file[pos + 1] = "[" THEN Brackets("[", o, pos) + 1
                                                              ELSE Brackets("[", o, pos)
        /\ Brackets("]", o, pos + 1) = IF file[pos + 1] = "]" THEN Brackets("]", o, pos) + 1
                                                              ELSE Brackets("]", o, pos)
    BY <1>5
  <2> QED BY <1>4, <1>6, <2>1, <2>2 DEF Depth
<1>8. ASSUME depth' >= 0
      PROVE  Inside(a, o, pos, depth)'
  <2>1. Brackets("[", o, pos + 1) > Brackets("]", o, pos + 1)
    BY <1>7, <1>8
  <2>2. \A j \in o .. pos + 1 : Brackets("[", o, j) > Brackets("]", o, j)
    <3> TAKE j \in o .. pos + 1
    <3>1. j \in o .. pos \/ j = pos + 1
      BY <1>1, <1>2
    <3> QED BY <2>1, <3>1 DEF Inside
  <2>3. Inside(a, o, pos + 1, depth')
    <3>1. Opens(a, o)
      BY DEF Inside
    <3> QED BY <1>1, <1>2, <1>7, <2>2, <3>1 DEF Inside
  <2> QED BY <1>4, <2>3, CopiedNext
<1>9. ASSUME depth' = -1
      PROVE  Copied(out, pos)'
  <2>1. depth = 0 /\ file[pos + 1] = "]"
    BY <1>1, <1>4, <1>9 DEF Depth
  <2>2. Inside(a, o, pos, 0)
    BY <2>1
  <2>3. Copied(out, pos + 1)
    BY <1>1, <1>3, <2>1, <2>2, BlockEnds
  <2> QED BY <1>4, <2>3, CopiedNext
<1> QED BY <1>8, <1>9

(* A `~' begins a block when a bracket follows it, and is kept otherwise. *)
LEMMA BlockStep ==
    ASSUME Stripped, Fits, WellFormed, Copied(out, pos), isvblock
    PROVE  /\ depth' = -1 => Copied(out, pos)'
           /\ depth' >= 0 =>
                 \E a, o \in Positions : (Copied(out, a - 1) /\ Inside(a, o, pos, depth))'
           /\ pos < pos'
<1>1. /\ pos \in Nat /\ pos <= Len(file) /\ file \in Seq(Characters) /\ Positions = 1 .. Len(file)
      /\ Len(file) \in Nat
  BY DEF Stripped, Positions
<1>2. pos < Len(file) /\ file[pos + 1] = "~"
  BY <1>1 DEF isvblock, CharAt, EOF
<1>a. PICK a : a = pos + 1
  OBVIOUS
<1>q. PICK q : q = skipws(pos + 1)
  OBVIOUS
<1>3. a \in Positions /\ a \in Nat \ {0} /\ a \in 0 .. Len(file)
  BY <1>1, <1>2, <1>a
<1>4. /\ q \in a .. Len(file) /\ q \in Nat /\ q <= Len(file)
      /\ q = Len(file) \/ file[q + 1] # "ws"
      /\ \A r \in a .. q - 1 : file[r + 1] = "ws"
  <2>1. /\ q \in a .. Len(file)
        /\ q = Len(file) \/ file[q + 1] # "ws"
        /\ \A r \in a .. q - 1 : file[r + 1] = "ws"
    BY <1>1, <1>3, <1>a, <1>q, SkipwsFacts
  <2> QED BY <1>1, <1>3, <2>1
<1>5. \A k \in a + 1 .. q : file[k] = "ws"
  <2> TAKE k \in a + 1 .. q
  <2>1. k - 1 \in a .. q - 1 /\ (k - 1) + 1 = k
    BY <1>3, <1>4
  <2> QED BY <1>4, <2>1
<1>6. CASE CharAt(q) = "["
  <2>o. PICK o : o = q + 1
    OBVIOUS
  <2>1. q < Len(file) /\ file[o] = "["
    BY <1>4, <1>6, <2>o DEF CharAt, EOF
  <2>2. o \in Positions /\ o \in Nat \ {0} /\ o > a
    BY <1>1, <1>3, <1>4, <2>1, <2>o
  <2>3. Opens(a, o)
    <3>1. o - 1 = q
      BY <1>4, <2>o
    <3> QED BY <1>2, <1>5, <1>a, <2>1, <2>2, <3>1 DEF Opens
  <2>4. Inside(a, o, o, 0)
    <3>1. Brackets("[", o, o) = 1 /\ Brackets("]", o, o) = 0
      BY <2>1, <2>2, BracketsBegin
    <3>2. \A j \in o .. o : j = o
      BY <2>2
    <3> QED BY <2>2, <2>3, <3>1, <3>2 DEF Inside
  <2>5. file' = file /\ out' = out /\ pos' = o /\ depth' = 0
    BY <1>6, <1>q, <2>o DEF isvblock
  <2>6. Copied(out, a - 1)
    <3>1. a - 1 = pos
      BY <1>1, <1>a
    <3> QED BY <3>1
  <2>7. Inside(a, o, pos, depth)' /\ Copied(out, a - 1)'
    <3>1. \A n, m, d : depth' = d => (Inside(n, m, pos, depth)' <=> Inside(n, m, o, d))
      BY <2>5, CopiedNext
    <3>2. \A n : Copied(out, n - 1)' <=> Copied(out, n - 1)
      BY <2>5, CopiedNext
    <3> QED BY <2>4, <2>5, <2>6, <3>1, <3>2
  <2>8. pos < pos'
    BY <1>1, <1>a, <2>2, <2>5
  <2> QED BY <1>3, <2>2, <2>5, <2>7, <2>8
<1>7. CASE CharAt(q) # "["
  <2>1. PICK k \in Positions : k > a /\ file[k] # "ws"
    BY <1>2, <1>3, <1>a DEF WellFormed
  <2>2. q < Len(file) /\ CharAt(q) = file[q + 1]
    <3>1. k \in Nat /\ k <= Len(file) /\ k \notin a + 1 .. q
      BY <1>1, <1>5, <2>1
    <3> QED BY <1>3, <1>4, <2>1, <3>1 DEF CharAt
  <2>3. CharAt(q) # EOF
    <3>1. q + 1 \in Positions
      BY <1>1, <1>4, <2>2
    <3> QED BY <2>2, <3>1 DEF WellFormed
  <2>4. file' = file /\ pos' = pos + 1 /\ depth' = depth /\ Emit(file[pos + 1]) /\ depth = -1
    BY <1>2, <1>7, <1>q, <2>3 DEF isvblock, NoBlockAt
  <2>5. \A o \in Nat : ~Opens(a, o)
    <3> SUFFICES ASSUME NEW o \in Nat, Opens(a, o) PROVE FALSE
      OBVIOUS
    <3>1. file[o] = "[" /\ o > a /\ \A m \in a + 1 .. o - 1 : file[m] = "ws"
      BY DEF Opens
    <3>2. o \notin a + 1 .. q /\ q + 1 \notin a + 1 .. o - 1 /\ o # q + 1
      BY <1>4, <1>5, <1>7, <2>2, <3>1
    <3> QED BY <1>3, <1>4, <3>1, <3>2
  <2>6. Copied(out, pos)'
    BY <1>2, <1>a, <2>4, <2>5, CharStep
  <2> QED BY <1>1, <2>4, <2>6
<1> QED BY <1>6, <1>7

LEMMA StrippingStep ==
    ASSUME Stripped, Fits, Stripping, [Next]_vars
    PROVE  Stripping'
<1>1. CASE UNCHANGED strip_vars
  <2>1. file' = file /\ out' = out /\ pos' = pos /\ depth' = depth /\ copying' = copying
    BY <1>1 DEF strip_vars
  <2>2. /\ Copied(out, pos)' <=> Copied(out, pos)
        /\ \A a : Copied(out, a - 1)' <=> Copied(out, a - 1)
        /\ \A a, o : Inside(a, o, pos, depth)' <=> Inside(a, o, pos, depth)
    BY <2>1, CopiedNext
  <2>3. WellFormed' = WellFormed /\ Positions' = Positions
    BY <2>1, SameFile
  <2> QED BY <2>1, <2>2, <2>3 DEF Stripping
<1>2. CASE strip
  <2>1. file' = file
    BY <1>2 DEF strip, strip_char, isvblock, skipvblock, strip_ends
  <2>2. WellFormed' = WellFormed /\ Positions' = Positions
    BY <2>1, SameFile
  <2> SUFFICES ASSUME WellFormed, WellFormed' PROVE Stripping'
    BY <2>2 DEF Stripping
  <2>3. pos \in Nat /\ depth \in Int /\ Len(file) \in Nat /\ pos <= Len(file)
    BY DEF Stripped
  <2>4. CASE strip_char
    <3>1. CharAt(pos) # "~" /\ CharAt(pos) # EOF /\ Emit(CharAt(pos)) /\ pos' = After(pos)
          /\ depth = -1 /\ depth' = -1 /\ copying /\ copying'
      BY <2>4 DEF strip_char
    <3>2. pos < Len(file) /\ file[pos + 1] # "~" /\ Emit(file[pos + 1]) /\ pos' = pos + 1
      BY <3>1 DEF CharAt, After
    <3>3. \A o \in Nat : ~Opens(pos + 1, o)
      BY <3>2 DEF Opens
    <3>4. Copied(out, pos)
      BY <3>1 DEF Stripping
    <3>5. Copied(out, pos)'
      BY <2>1, <3>1, <3>2, <3>3, <3>4, CharStep
    <3> QED BY <3>1, <3>5 DEF Stripping
  <2>5. CASE isvblock
    <3>1. Copied(out, pos) /\ copying /\ copying'
      BY <2>5 DEF isvblock, Stripping
    <3>2. /\ depth' = -1 => Copied(out, pos)'
          /\ depth' >= 0 =>
                \E a, o \in Positions : (Copied(out, a - 1) /\ Inside(a, o, pos, depth))'
      BY <2>5, <3>1, BlockStep
    <3> QED BY <2>2, <3>1, <3>2 DEF Stripping
  <2>6. CASE skipvblock
    <3>1. depth >= 0 /\ copying /\ copying' /\ out' = out /\ pos' = After(pos)
      BY <2>6 DEF skipvblock
    <3>2. PICK a, o \in Positions : Copied(out, a - 1) /\ Inside(a, o, pos, depth)
      BY <3>1 DEF Stripping
    <3>3. /\ depth' >= 0 => Inside(a, o, pos, depth)'
          /\ depth' = -1 => Copied(out, pos)'
      BY <2>6, <3>1, <3>2, InsideStep
    <3>4. Copied(out, a - 1)'
      BY <2>1, <3>1, <3>2, CopiedNext
    <3> QED BY <2>2, <3>1, <3>2, <3>3, <3>4 DEF Stripping
  <2>7. CASE strip_ends
    <3>1. depth = -1 /\ CharAt(pos) = EOF /\ UNCHANGED <<file, pos, depth, out>>
      BY <2>7 DEF strip_ends
    <3>2. Copied(out, pos)' <=> Copied(out, pos)
      BY <3>1, CopiedNext
    <3>3. pos = Len(file)
      <4>1. ~(pos < Len(file))
        <5> SUFFICES ASSUME pos < Len(file) PROVE FALSE
          OBVIOUS
        <5>1. pos + 1 \in Positions /\ file[pos + 1] = EOF
          BY <2>3, <3>1 DEF CharAt, Positions, Stripped
        <5> QED BY <5>1 DEF WellFormed
      <4> QED BY <2>3, <4>1
    <3> QED BY <3>1, <3>2, <3>3 DEF Stripping
  <2> QED BY <1>2, <2>4, <2>5, <2>6, <2>7 DEF strip
<1> QED BY <1>1, <1>2 DEF Next, Exited, vars

LEMMA StrippingInit == Init => Fits /\ Stripping
<1> SUFFICES ASSUME Init PROVE Fits /\ Stripping
  OBVIOUS
<1>1. PICK c \in Configs :
         file = (IF c.mode = "strip" THEN c.file ELSE <<>>) /\ copying = (c.mode = "strip")
  BY DEF Init
<1>2. pos = 0 /\ depth = -1 /\ out = <<>>
  BY DEF Init
<1>3. c.file \in Seq(Characters) /\ Len(c.file) <= MaxOut
  BY ConfigAssumption
<1>4. Fits
  BY <1>1, <1>3, StripAssumption DEF Fits
<1>5. file \in Seq(Characters)
  <2>1. <<>> \in Seq(Characters)
    OBVIOUS
  <2> QED BY <1>1, <1>3, <2>1
<1>6. ~copying => pos = Len(file)
  BY <1>1, <1>2
<1>7. Copied(out, pos)
  <2>1. KeptUpTo(0) = {}
    <3>1. \A k \in Kept : k \in Nat \ {0}
      BY <1>5 DEF Kept, Positions
    <3>2. \A k \in Kept : ~(k <= 0)
      BY <3>1
    <3> QED BY <3>2 DEF KeptUpTo
  <2>2. \A b \in Blocks : b[1] > 0
    BY <1>5, BlockFacts
  <2>3. Cardinality(KeptUpTo(0)) = 0 /\ Len(out) = 0
    BY <1>2, <2>1, FS_EmptySet
  <2> QED BY <1>2, <2>1, <2>2, <2>3 DEF Copied
<1> QED BY <1>2, <1>4, <1>6, <1>7 DEF Stripping

(* What strip has written of a well-formed file of any length, when it     *)
(* ends, is what stands outside of its blocks, nested ones included (strip,*)
(* isvblock, skipvblock in main.c).                                        *)
THEOREM ProgramStrippedExactly == Spec => []StrippedExactly
<1> DEFINE Inv == Stripped /\ Fits /\ Stripping
<1>1. Init => Inv
  BY InitBounds, StrippingInit
<1>2. Inv /\ [Next]_vars => Inv'
  <2> SUFFICES ASSUME Inv, [Next]_vars PROVE Inv'
    OBVIOUS
  <2>1. file' = file
    <3>1. CASE UNCHANGED strip_vars
      BY <3>1 DEF strip_vars
    <3>2. CASE strip
      BY <3>2 DEF strip, strip_char, isvblock, skipvblock, strip_ends
    <3> QED BY <3>1, <3>2 DEF Next, Exited, vars
  <2>2. Fits'
    BY <2>1 DEF Fits
  <2> QED BY <2>2, StrippedStep, StrippingStep
<1>3. Inv => StrippedExactly
  <2> SUFFICES ASSUME Inv, ~copying, WellFormed
               PROVE  /\ Len(out) = Cardinality(Kept)
                      /\ \A k \in Kept : out[Before(k) + 1] = file[k]
    BY DEF StrippedExactly
  <2>1. Copied(out, pos) /\ pos = Len(file)
    BY DEF Stripping
  <2>2. KeptUpTo(pos) = Kept
    <3>1. \A k \in Kept : k <= Len(file)
      BY DEF Stripped, Kept, Positions
    <3> QED BY <2>1, <3>1 DEF KeptUpTo
  <2> QED BY <2>1, <2>2 DEF Copied
<1> HIDE DEF Inv
<1> QED BY <1>1, <1>2, <1>3, PTL DEF Spec

-----------------------------------------------------------------------------
(* Progress *)

LEMMA StripProgress ==
    ASSUME Stripped, Fits, Stripping, WellFormed, strip, status = "strip", status' = "strip"
    PROVE  LexLess(Work', Work)
<1>0. pos \in Nat /\ Len(file) \in Nat /\ pos <= Len(file) /\ file \in Seq(Characters)
  BY DEF Stripped
<1>1. /\ Work = <<IF copying THEN 1 ELSE 0, Len(file) - pos, 0, 0, 0>>
      /\ Work' = <<IF copying' THEN 1 ELSE 0, Len(file') - pos', 0, 0, 0>>
  BY DEF Work
<1>2. ASSUME copying, copying', file' = file, pos' \in Nat, pos < pos'
      PROVE  LexLess(Work', Work)
  <2>1. Len(file') - pos' < Len(file) - pos
    BY <1>0, <1>2
  <2> QED BY <1>1, <1>2, <2>1, LessAt
<1>3. CASE strip_char
  <2>1. copying /\ CharAt(pos) # EOF /\ pos' = After(pos) /\ UNCHANGED <<file, copying>>
    BY <1>3 DEF strip_char
  <2>2. pos' = pos + 1
    BY <2>1 DEF CharAt, After
  <2> QED BY <1>0, <1>2, <2>1, <2>2
<1>4. CASE isvblock
  <2>1. copying /\ depth = -1 /\ UNCHANGED <<file, copying>>
    BY <1>4 DEF isvblock
  <2>2. pos < pos'
    BY <1>4, <2>1, BlockStep DEF Stripping
  <2>3. pos' \in Nat
    <3>1. CharAt(pos) = "~"
      BY <1>4 DEF isvblock
    <3>2. pos + 1 \in 0 .. Len(file)
      BY <1>0, <3>1 DEF CharAt, EOF
    <3>3. skipws(pos + 1) \in pos + 1 .. Len(file)
      BY <1>0, <3>2, SkipwsFacts
    <3>4. skipws(pos + 1) \in Nat /\ skipws(pos + 1) > 0
      BY <1>0, <3>3
    <3> QED BY <1>0, <1>4, <3>4 DEF isvblock, NoBlockAt, After
  <2> QED BY <1>2, <2>1, <2>2, <2>3
<1>5. CASE skipvblock
  <2>1. copying /\ depth >= 0 /\ pos' = After(pos) /\ UNCHANGED <<file, copying>>
    BY <1>5 DEF skipvblock
  <2>2. PICK a, o \in Positions : Inside(a, o, pos, depth)
    BY <2>1 DEF Stripping
  <2>3. PICK k \in Positions : Closes(o, k)
    BY <2>2 DEF Inside, WellFormed
  <2>4. pos < Len(file)
    <3> SUFFICES ASSUME pos = Len(file) PROVE FALSE
      BY <1>0
    <3>1. k \in o .. pos
      BY <1>0, <2>3 DEF Closes, Positions
    <3>2. Brackets("[", o, k) > Brackets("]", o, k) /\ Brackets("[", o, k) = Brackets("]", o, k)
      BY <2>2, <2>3, <3>1 DEF Inside, Closes
    <3>3. o \in Nat /\ k \in Nat /\ o <= k + 1
      BY <1>0, <2>2, <2>3 DEF Closes, Positions
    <3>4. Brackets("[", o, k) \in Nat
      BY <3>3, BracketsStep
    <3> QED BY <3>2, <3>4
  <2>5. pos' = pos + 1
    BY <2>1, <2>4 DEF After
  <2> QED BY <1>0, <1>2, <2>1, <2>5
<1>6. CASE strip_ends
  <2>1. copying /\ ~copying'
    BY <1>6 DEF strip_ends
  <2> QED BY <1>1, <2>1, LessAt
<1> QED BY <1>3, <1>4, <1>5, <1>6 DEF strip

(* Each step of the program leaves less to do, for all files whatever      *)
(* calls what: by WorkIsWellFounded there is an end to it.  A file to be   *)
(* stripped has to be well-formed (main.c, function.c, topological.c).     *)
THEOREM ProgramProgress == Spec => [][Progress]_vars
<1> DEFINE Inv == Stripped /\ Fits /\ Stripping /\ DeclaredFinitely /\ (copying => mode = "strip")
<1>1. Init => Inv
  <2>1. Init => (copying => mode = "strip")
    BY DEF Init
  <2> QED BY <2>1, InitBounds, StrippingInit, DeclaredFinitelyInit
<1>2. IInv /\ Inv /\ [Next]_vars => Inv'
  <2> SUFFICES ASSUME IInv, Inv, [Next]_vars PROVE Inv'
    OBVIOUS
  <2>1. file' = file /\ mode' = mode /\ (copying' => copying)
    <3>1. CASE UNCHANGED <<strip_vars, mode>>
      BY <3>1 DEF strip_vars
    <3>2. CASE strip /\ UNCHANGED mode
      BY <3>2 DEF strip, strip_char, isvblock, skipvblock, strip_ends
    <3> QED BY <3>1, <3>2 DEF Next, Exited, vars
  <2>2. Fits'
    BY <2>1 DEF Fits
  <2>3. DeclaredFinitely'
    BY DeclaredFinitelyStep DEF IInv
  <2> QED BY <2>1, <2>2, <2>3, StrippedStep, StrippingStep
<1>3. IInv /\ GInv /\ Inv /\ [Next]_vars => [Progress]_vars
  <2> SUFFICES ASSUME IInv, GInv, Inv, Next, mode # "strip" \/ WellFormed, ~UNCHANGED vars
               PROVE  Work \in Amounts /\ LexLess(Work', Work)
    BY DEF Progress
  <2>1. Work \in Amounts
    BY WorkCounted DEF GInv
  <2>2. ASSUME verify PROVE LexLess(Work', Work)
    <3> USE DEF IInv
    <3>1. CASE pass0 \/ Pass0Ends \/ pass1 \/ Ordered \/ pass_inorder \/ verify_ends
      BY <3>1, LoopProgress
    <3>2. CASE ast_function_buildgraph \/ recurse_buildgraph
      BY <3>2, BuildingProgress DEF recurse_buildgraph, Building
    <3>3. CASE topological_order /\ ~(ast_function_buildgraph \/ recurse_buildgraph)
      BY <3>3, SortProgress DEF topological_order
    <3> QED BY <2>2, <3>1, <3>2, <3>3 DEF verify
  <2>3. ASSUME strip, UNCHANGED linking_vars PROVE LexLess(Work', Work)
    <3>1. mode = "strip" /\ status = "strip" /\ status' = "strip"
      BY <2>3 DEF strip, strip_char, isvblock, skipvblock, strip_ends, GInv, Modes, linking_vars
    <3> QED BY <2>3, <3>1, StripProgress DEF Modes
  <2> QED BY <2>1, <2>2, <2>3 DEF Next, Exited
<1> HIDE DEF Inv
<1>4. Spec => []IInv
  BY ProgramInvariant
<1>5. Spec => []GInv
  BY GraphInvariant
<1> QED BY <1>1, <1>2, <1>3, <1>4, <1>5, PTL DEF Spec
=============================================================================
