---------------------------- MODULE CellsProofs ----------------------------
(***************************************************************************)
(* Proofs about the cells of the array (Ranges, Cells): no cell belongs to *)
(* two objects, and a statement does to the cells what Cells says.         *)
(***************************************************************************)
EXTENDS RangesProofs

-----------------------------------------------------------------------------
(* Objects without a common cell *)

Off(o) == o.offset.num
Upto(o) == object_upper(o).num

Clear(o, q) == Upto(o) <= Off(q) \/ Upto(q) <= Off(o)

Cross(b, c) == \A i \in DOMAIN b, j \in DOMAIN c : Clear(b[i], c[j])

LEMMA DisjointIsClear ==
    ASSUME NEW b
    PROVE  Disjoint(b) <=> \A i, j \in DOMAIN b : i # j => Clear(b[i], b[j])
BY DEF Disjoint, Clear, Off, Upto

(* Where the objects of two sequences put together come from. *)
LEMMA ConcatPlaces ==
    ASSUME NEW S, NEW b \in Seq(S), NEW c \in Seq(S)
    PROVE  /\ \A i \in DOMAIN (b \o c) :
                 \/ i \in DOMAIN b /\ (b \o c)[i] = b[i]
                 \/ /\ i - Len(b) \in DOMAIN c /\ (b \o c)[i] = c[i - Len(b)]
                    /\ i \notin DOMAIN b
           /\ \A i \in DOMAIN b : i \in DOMAIN (b \o c) /\ (b \o c)[i] = b[i]
           /\ \A i \in DOMAIN c : Len(b) + i \in DOMAIN (b \o c) /\ (b \o c)[Len(b) + i] = c[i]
<1>1. /\ Len(b) \in Nat /\ Len(c) \in Nat
      /\ DOMAIN b = 1 .. Len(b) /\ DOMAIN c = 1 .. Len(c)
  OBVIOUS
<1>2. b \o c \in Seq(S) /\ Len(b \o c) = Len(b) + Len(c)
  BY ConcatProperties
<1>3. DOMAIN (b \o c) = 1 .. Len(b) + Len(c)
  BY <1>2, LenProperties
<1>4. \A i \in 1 .. Len(b) + Len(c) :
          (b \o c)[i] = IF i <= Len(b) THEN b[i] ELSE c[i - Len(b)]
  BY ConcatProperties
<1> DEFINE d == b \o c
<1>5. DOMAIN d = 1 .. Len(b) + Len(c)
  BY <1>3
<1>6. \A i \in 1 .. Len(b) + Len(c) : d[i] = IF i <= Len(b) THEN b[i] ELSE c[i - Len(b)]
  BY <1>4
<1> HIDE DEF d
<1>7. ASSUME NEW i \in DOMAIN d
      PROVE  \/ i \in DOMAIN b /\ d[i] = b[i]
             \/ i - Len(b) \in DOMAIN c /\ d[i] = c[i - Len(b)] /\ i \notin DOMAIN b
  <2>1. CASE i <= Len(b)
    BY <1>1, <1>5, <1>6, <1>7, <2>1
  <2>2. CASE ~(i <= Len(b))
    <3>1. i - Len(b) \in DOMAIN c /\ i \notin DOMAIN b
      BY <1>1, <1>5, <1>7, <2>2
    <3> QED BY <1>5, <1>6, <1>7, <2>2, <3>1
  <2> QED BY <2>1, <2>2
<1>8. ASSUME NEW i \in DOMAIN b PROVE i \in DOMAIN d /\ d[i] = b[i]
  BY <1>1, <1>5, <1>6
<1>9. ASSUME NEW i \in DOMAIN c PROVE Len(b) + i \in DOMAIN d /\ d[Len(b) + i] = c[i]
  <2>1. /\ Len(b) + i \in 1 .. Len(b) + Len(c) /\ ~(Len(b) + i <= Len(b))
        /\ Len(b) + i - Len(b) = i
    BY <1>1
  <2> QED BY <1>5, <1>6, <2>1
<1> QED BY <1>7, <1>8, <1>9 DEF d

LEMMA DisjointConcat ==
    ASSUME NEW S, NEW b \in Seq(S), NEW c \in Seq(S), Disjoint(b), Disjoint(c), Cross(b, c)
    PROVE  Disjoint(b \o c)
<1> DEFINE d == b \o c
<1>1. \A i \in DOMAIN d :
          \/ i \in DOMAIN b /\ d[i] = b[i]
          \/ i - Len(b) \in DOMAIN c /\ d[i] = c[i - Len(b)] /\ i \notin DOMAIN b
  BY ConcatPlaces
<1>2. \A i \in DOMAIN d : i \in Nat
  <2>1. d \in Seq(S)
    BY ConcatProperties
  <2> HIDE DEF d
  <2> QED BY <2>1
<1>3. Len(b) \in Nat
  OBVIOUS
<1> HIDE DEF d
<1>4. /\ \A i, j \in DOMAIN b : i # j => Clear(b[i], b[j])
      /\ \A i, j \in DOMAIN c : i # j => Clear(c[i], c[j])
      /\ \A i \in DOMAIN b, j \in DOMAIN c : Clear(b[i], c[j]) /\ Clear(c[j], b[i])
  BY DisjointIsClear DEF Cross, Clear
<1>5. ASSUME NEW i \in DOMAIN d, NEW j \in DOMAIN d, i # j PROVE Clear(d[i], d[j])
  <2>1. i - Len(b) # j - Len(b)
    BY <1>2, <1>3, <1>5
  <2>2. CASE i \in DOMAIN b /\ j \in DOMAIN b
    BY <1>1, <1>4, <1>5, <2>2
  <2>3. CASE i \in DOMAIN b /\ j \notin DOMAIN b
    BY <1>1, <1>4, <2>3
  <2>4. CASE i \notin DOMAIN b /\ j \in DOMAIN b
    BY <1>1, <1>4, <2>4
  <2>5. CASE i \notin DOMAIN b /\ j \notin DOMAIN b
    BY <1>1, <1>4, <2>1, <2>5
  <2> QED BY <2>2, <2>3, <2>4, <2>5
<1>6. Disjoint(d)
  BY <1>5, DisjointIsClear
<1> QED BY <1>6 DEF d

LEMMA CrossConcat ==
    ASSUME NEW S, NEW b \in Seq(S), NEW c \in Seq(S), NEW d, Cross(b, d), Cross(c, d)
    PROVE  Cross(b \o c, d)
<1>1. \A i \in DOMAIN (b \o c) :
          \/ i \in DOMAIN b /\ (b \o c)[i] = b[i]
          \/ i - Len(b) \in DOMAIN c /\ (b \o c)[i] = c[i - Len(b)]
  BY ConcatPlaces
<1> QED BY <1>1 DEF Cross

LEMMA PieceDisjoint ==
    ASSUME NEW S, NEW b \in Seq(S), NEW l \in Nat, NEW u \in Nat, l >= 1, u <= Len(b),
           Disjoint(b)
    PROVE  Disjoint(SubSeq(b, l, u))
<1> DEFINE p == SubSeq(b, l, u)
<1>1. \A i \in DOMAIN p : l + i - 1 \in DOMAIN b /\ p[i] = b[l + i - 1] /\ i \in Nat
  BY PieceOf
<1> HIDE DEF p
<1>2. ASSUME NEW i \in DOMAIN p, NEW j \in DOMAIN p, i # j PROVE Clear(p[i], p[j])
  <2>1. l + i - 1 # l + j - 1
    BY <1>1, <1>2
  <2> QED BY <1>1, <2>1, DisjointIsClear
<1>3. Disjoint(p)
  BY <1>2, DisjointIsClear
<1> QED BY <1>3 DEF p

LEMMA PiecesCross ==
    ASSUME NEW S, NEW b \in Seq(S), NEW u \in Nat, NEW l \in Nat, u <= Len(b), l >= 1, u < l,
           Disjoint(b)
    PROVE  Cross(SubSeq(b, 1, u), SubSeq(b, l, Len(b)))
<1> DEFINE p == SubSeq(b, 1, u)
           q == SubSeq(b, l, Len(b))
<1>0. Len(b) \in Nat
  OBVIOUS
<1>1. \A i \in DOMAIN p : 1 + i - 1 \in 1 .. u /\ 1 + i - 1 \in DOMAIN b /\ p[i] = b[1 + i - 1]
  BY PieceOf
<1>2. \A i \in DOMAIN q :
          l + i - 1 \in l .. Len(b) /\ l + i - 1 \in DOMAIN b /\ q[i] = b[l + i - 1]
  BY <1>0, PieceOf
<1> HIDE DEF p, q
<1>3. ASSUME NEW i \in DOMAIN p, NEW j \in DOMAIN q PROVE Clear(p[i], q[j])
  <2>1. 1 + i - 1 # l + j - 1
    BY <1>1, <1>2
  <2> QED BY <1>1, <1>2, <2>1, DisjointIsClear
<1> QED BY <1>3 DEF Cross, p, q

(* The cells of an object that contains an offset, and of the parts that   *)
(* it is split into. *)
LEMMA ContainsFacts ==
    ASSUME NEW n \in Nat, NEW o \in ObjectsOf(n), NEW e \in Tallies, object_contains(o, e)
    PROVE  /\ Off(o) \in Int /\ Upto(o) \in Int /\ e.num \in Int
           /\ Off(o) <= e.num /\ e.num < Upto(o)
           /\ ~math_eq(object_upper(o), e) /\ ~math_eq(sum_tally(e, constant(1)), o.offset)
<1>1. Off(o) \in Int /\ Upto(o) \in Int /\ e.num \in Int
  BY ObjectFacts, TallyFacts DEF Off, Upto
<1>2. Off(o) <= e.num
  BY DEF object_contains, math_le, Off
<1>3. math_lt(e, object_upper(o))
  BY DEF object_contains
<1>4. e.num <= Upto(o) /\ ~math_le(object_upper(o), e)
  BY <1>3 DEF math_lt, math_eq, math_le, Upto
<1>5. Cardinality(DOMAIN object_upper(o).map) = Cardinality(DOMAIN e.map)
  BY <1>3 DEF math_lt, math_le, variable_tally_eq
<1>6. ~(Upto(o) <= e.num)
  BY <1>4, <1>5 DEF math_le, variable_tally_eq, Upto
<1>7. ~math_eq(object_upper(o), e)
  BY <1>4 DEF math_eq
<1>8. ~math_eq(sum_tally(e, constant(1)), o.offset)
  <2>1. sum_tally(e, constant(1)).num = e.num + 1
    BY DEF sum_tally, constant
  <2>2. ~(e.num + 1 <= Off(o))
    BY <1>1, <1>2
  <2> QED BY <2>1, <2>2 DEF math_eq, math_le, Off
<1> QED BY <1>1, <1>2, <1>4, <1>6, <1>7, <1>8

LEMMA UptoShape ==
    ASSUME NEW n \in Nat, NEW o \in ObjectsOf(n), NEW e \in Tallies, NEW a,
           object_contains(o, e)
    PROVE  LET part == object_upto(o, e, a) IN
           \/ part = <<>> /\ math_eq(o.offset, e)
           \/ \E q : /\ part = <<q>> /\ ~object_isvalue(q) /\ q.loc = a
                     /\ q.offset = o.offset /\ q.size = difference(e, o.offset)
                     /\ Off(q) = Off(o) /\ Upto(q) = e.num /\ Off(o) # e.num
<1> DEFINE q == object_range_create(o.offset, difference(e, o.offset), a)
<1>1. /\ Off(o) \in Int /\ Upto(o) \in Int /\ e.num \in Int
      /\ Off(o) <= e.num /\ e.num < Upto(o) /\ ~math_eq(object_upper(o), e)
  BY ContainsFacts
<1>2. object_upto(o, e, a) = IF math_eq(o.offset, e) THEN <<>> ELSE <<q>>
  BY <1>1 DEF object_upto
<1>3. /\ ~object_isvalue(q) /\ q.loc = a /\ q.offset = o.offset
      /\ q.size = difference(e, o.offset) /\ object_size(q) = difference(e, o.offset)
  BY DEF object_range_create, object_isvalue, object_size
<1> HIDE DEF q
<1>4. Off(q) = Off(o) /\ Upto(q) = e.num
  BY <1>1, <1>3 DEF Off, Upto, object_upper, difference, sum_tally, neg_tally
<1>5. ~math_eq(o.offset, e) => Off(o) # e.num
  <2>1. Cardinality(DOMAIN o.offset.map) = Cardinality(DOMAIN e.map)
    BY DEF object_contains, math_le, variable_tally_eq
  <2> QED BY <1>1, <2>1 DEF math_eq, math_le, variable_tally_eq, Off
<1> QED BY <1>2, <1>3, <1>4, <1>5

LEMMA AfterShape ==
    ASSUME NEW n \in Nat, NEW o \in ObjectsOf(n), NEW e \in Tallies, NEW a,
           object_contains(o, e)
    PROVE  LET next == sum_tally(e, constant(1))
               part == object_from(o, next, a) IN
           \/ part = <<>> /\ math_ge(next, object_upper(o))
           \/ \E q : /\ part = <<q>> /\ ~object_isvalue(q) /\ q.loc = a
                     /\ q.offset = next /\ q.size = difference(object_upper(o), next)
                     /\ Off(q) = e.num + 1 /\ Upto(q) = Upto(o)
                     /\ ~math_ge(next, object_upper(o))
<1> DEFINE next == sum_tally(e, constant(1))
           q == object_range_create(next, difference(object_upper(o), next), a)
<1>1. Upto(o) \in Int /\ e.num \in Int /\ ~math_eq(next, o.offset)
  BY ContainsFacts
<1>2. next.num = e.num + 1
  BY DEF sum_tally, constant
<1> HIDE DEF next
<1>3. object_from(o, next, a) = IF math_ge(next, object_upper(o)) THEN <<>> ELSE <<q>>
  BY <1>1 DEF object_from
<1>4. /\ ~object_isvalue(q) /\ q.loc = a /\ q.offset = next
      /\ q.size = difference(object_upper(o), next)
      /\ object_size(q) = difference(object_upper(o), next)
  BY DEF object_range_create, object_isvalue, object_size
<1> HIDE DEF q
<1>5. Off(q) = e.num + 1 /\ Upto(q) = Upto(o)
  <2>1. Upto(q) = e.num + 1 + (Upto(o) + (-(e.num + 1)))
    BY <1>2, <1>4 DEF Upto, object_upper, difference, sum_tally, neg_tally
  <2> QED BY <1>1, <1>2, <1>4, <2>1 DEF Off
<1> QED BY <1>3, <1>4, <1>5 DEF next

(* A cell's own object. *)
LEMMA CellShape ==
    ASSUME NEW e \in Tallies, NEW v
    PROVE  LET o == object_value_create(e, v) IN
           /\ object_isvalue(o) /\ o.value = v /\ o.offset = e /\ object_size(o) = constant(1)
           /\ Off(o) = e.num /\ Upto(o) = e.num + 1 /\ e.num \in Int
<1>1. e.num \in Int
  BY TallyFacts
<1> QED BY <1>1 DEF object_value_create, object_isvalue, object_size, Off, Upto, object_upper,
                    sum_tally, constant

(* Objects that lie within the cells of another keep clear of what it      *)
(* keeps clear of. *)
LEMMA ClearPart ==
    ASSUME NEW q, NEW o, NEW r, Off(o) \in Int, Upto(o) \in Int, Off(q) \in Int, Upto(q) \in Int,
           Off(r) \in Int, Upto(r) \in Int,
           Off(o) <= Off(q), Upto(q) <= Upto(o), Clear(o, r)
    PROVE  Clear(q, r) /\ Clear(r, q)
BY DEF Clear

LEMMA Numbers ==
    ASSUME NEW n \in Nat, NEW b \in Seq(ObjectsOf(n))
    PROVE  \A i \in DOMAIN b : Off(b[i]) \in Int /\ Upto(b[i]) \in Int
<1>1. \A i \in DOMAIN b : b[i] \in ObjectsOf(n)
  OBVIOUS
<1> QED BY <1>1, ObjectFacts, TallyFacts DEF Off, Upto

(* The parts of a split object are clear of each other and of the rest.    *)
LEMMA SplitDisjoint ==
    ASSUME NEW n \in Nat, NEW b \in Seq(ObjectsOf(n)), NEW e \in Tallies,
           NEW h, IsHeap(h), n < Len(h), Disjoint(b),
           NEW index \in 1 .. Len(b), object_contains(b[index], e)
    PROVE  Disjoint(Split(b, index, e, h).arr)
<1> DEFINE upto     == object_upto(b[index], e, Len(h))
           h1       == Grown(h, upto)
           observed == object_value_create(e, value_ptr_create(Len(h1)))
           h2       == Append(h1, FALSE)
           after    == object_from(b[index], sum_tally(e, constant(1)), Len(h2))
           before   == SubSeq(b, 1, index - 1)
           behind   == SubSeq(b, index + 1, Len(b))
           one      == <<observed>>
           within(p) == \A i \in DOMAIN p :
                            /\ Off(p[i]) \in Int /\ Upto(p[i]) \in Int
                            /\ Off(b[index]) <= Off(p[i]) /\ Upto(p[i]) <= Upto(b[index])
           others(p) == \A i \in DOMAIN p : \E j \in DOMAIN b : j # index /\ p[i] = b[j]
<1>0. Len(b) \in Nat /\ DOMAIN b = 1 .. Len(b) /\ b[index] \in ObjectsOf(n) /\ index \in DOMAIN b
  OBVIOUS
<1>1. /\ Off(b[index]) \in Int /\ Upto(b[index]) \in Int /\ e.num \in Int
      /\ Off(b[index]) <= e.num /\ e.num < Upto(b[index])
  BY <1>0, ContainsFacts
<1>2. \/ upto = <<>>
      \/ \E q : /\ upto = <<q>> /\ Off(q) = Off(b[index]) /\ Upto(q) = e.num
  BY <1>0, UptoShape
<1>3. \/ after = <<>>
      \/ \E q : /\ after = <<q>> /\ Off(q) = e.num + 1 /\ Upto(q) = Upto(b[index])
  BY <1>0, AfterShape
<1>4. Off(observed) = e.num /\ Upto(observed) = e.num + 1
  BY CellShape
<1>5. DOMAIN one = {1} /\ one[1] = observed
  OBVIOUS
<1>6. \A p : p = <<>> => DOMAIN p = {}
  OBVIOUS
<1>7. \A p, q : p = <<q>> => DOMAIN p = {1} /\ p[1] = q
  OBVIOUS
<1> HIDE DEF upto, after, observed, one
<1>8. \A i \in DOMAIN upto : Off(upto[i]) = Off(b[index]) /\ Upto(upto[i]) = e.num
  BY <1>2, <1>6, <1>7
<1>9. \A i \in DOMAIN after : Off(after[i]) = e.num + 1 /\ Upto(after[i]) = Upto(b[index])
  BY <1>3, <1>6, <1>7
<1>10. within(upto) /\ within(after) /\ within(one)
  BY <1>1, <1>4, <1>5, <1>8, <1>9
<1>11. Cross(upto, one) /\ Cross(upto, after) /\ Cross(one, after)
  BY <1>1, <1>4, <1>5, <1>8, <1>9 DEF Cross, Clear
<1>12. Disjoint(upto) /\ Disjoint(after) /\ Disjoint(one)
  <2>1. \A i, j \in DOMAIN upto : i = j
    BY <1>2, <1>6, <1>7
  <2>2. \A i, j \in DOMAIN after : i = j
    BY <1>3, <1>6, <1>7
  <2> QED BY <1>5, <2>1, <2>2 DEF Disjoint
<1>13. others(before) /\ others(behind)
  <2>0. /\ index - 1 \in Nat /\ index + 1 \in Nat /\ index - 1 <= Len(b) /\ index + 1 >= 1
        /\ 1 \in Nat /\ 1 >= 1 /\ Len(b) <= Len(b) /\ Len(b) \in Nat /\ b \in Seq(ObjectsOf(n))
    BY <1>0
  <2>1. \A i \in DOMAIN before : 1 + i - 1 \in 1 .. index - 1 /\ 1 + i - 1 \in DOMAIN b
                                 /\ before[i] = b[1 + i - 1]
    BY ONLY <2>0, PieceOf
  <2>2. \A i \in DOMAIN behind :
            /\ index + 1 + i - 1 \in index + 1 .. Len(b) /\ index + 1 + i - 1 \in DOMAIN b
            /\ behind[i] = b[index + 1 + i - 1]
    BY ONLY <2>0, PieceOf
  <2> HIDE DEF before, behind
  <2>3. others(before)
    <3> SUFFICES ASSUME NEW i \in DOMAIN before
                 PROVE  \E j \in DOMAIN b : j # index /\ before[i] = b[j]
      OBVIOUS
    <3>1. PICK j : j = 1 + i - 1
      OBVIOUS
    <3>2. j \in 1 .. index - 1 /\ j \in DOMAIN b /\ before[i] = b[j]
      BY <2>1, <3>1
    <3>3. j # index
      BY <1>0, <3>2
    <3> QED BY <3>2, <3>3
  <2>4. others(behind)
    <3> SUFFICES ASSUME NEW i \in DOMAIN behind
                 PROVE  \E j \in DOMAIN b : j # index /\ behind[i] = b[j]
      OBVIOUS
    <3>1. PICK j : j = index + 1 + i - 1
      OBVIOUS
    <3>2. j \in index + 1 .. Len(b) /\ j \in DOMAIN b /\ behind[i] = b[j]
      BY <2>2, <3>1
    <3>3. j # index
      BY <1>0, <3>2
    <3> QED BY <3>2, <3>3
  <2> QED BY <2>3, <2>4
<1>14. /\ Disjoint(before) /\ Disjoint(behind) /\ Cross(before, behind)
       /\ before \in Seq(ObjectsOf(n)) /\ behind \in Seq(ObjectsOf(n))
  <2>1. /\ index - 1 \in Nat /\ index + 1 \in Nat /\ index - 1 <= Len(b) /\ index + 1 >= 1
        /\ index - 1 < index + 1 /\ 1 \in Nat /\ 1 >= 1 /\ Len(b) <= Len(b)
    BY <1>0
  <2> QED BY <1>0, <2>1, PieceDisjoint, PiecesCross, PieceIn
<1> HIDE DEF before, behind, within, others
<1>15. ASSUME NEW p, NEW r, within(p), others(r)
       PROVE  Cross(p, r) /\ Cross(r, p)
  <2> SUFFICES ASSUME NEW i \in DOMAIN p, NEW j \in DOMAIN r
               PROVE  Clear(p[i], r[j]) /\ Clear(r[j], p[i])
    BY DEF Cross
  <2>1. PICK k \in DOMAIN b : k # index /\ r[j] = b[k]
    BY <1>15 DEF others
  <2>2. Clear(b[index], b[k])
    BY <1>0, <2>1, DisjointIsClear
  <2>3. Off(b[k]) \in Int /\ Upto(b[k]) \in Int
    BY Numbers
  <2>4. /\ Off(p[i]) \in Int /\ Upto(p[i]) \in Int
        /\ Off(b[index]) <= Off(p[i]) /\ Upto(p[i]) <= Upto(b[index])
    BY <1>15 DEF within
  <2> QED BY <1>1, <2>1, <2>2, <2>3, <2>4, ClearPart
<1>16. /\ Cross(before, upto) /\ Cross(before, one) /\ Cross(before, after)
       /\ Cross(upto, behind) /\ Cross(one, behind) /\ Cross(after, behind)
  BY <1>10, <1>13, <1>15
<1> DEFINE S == {before[i] : i \in DOMAIN before} \cup {upto[i] : i \in DOMAIN upto}
                \cup {one[i] : i \in DOMAIN one} \cup {after[i] : i \in DOMAIN after}
                \cup {behind[i] : i \in DOMAIN behind}
<1>17. before \in Seq(S) /\ upto \in Seq(S) /\ one \in Seq(S) /\ after \in Seq(S)
       /\ behind \in Seq(S)
  <2>1. /\ \E T : before \in Seq(T)
        /\ \E T : upto \in Seq(T)
        /\ \E T : one \in Seq(T)
        /\ \E T : after \in Seq(T)
        /\ \E T : behind \in Seq(T)
    <3>1. \A p, q : p = <<q>> => p \in Seq({q})
      OBVIOUS
    <3>2. \A p : p = <<>> => p \in Seq({})
      OBVIOUS
    <3> QED BY <1>2, <1>3, <1>14, <3>1, <3>2 DEF one
  <2>2. ASSUME NEW p, NEW T, p \in Seq(T), NEW U, {p[i] : i \in DOMAIN p} \subseteq U
        PROVE  p \in Seq(U)
    <3>1. Len(p) \in Nat /\ DOMAIN p = 1 .. Len(p) /\ p \in [1 .. Len(p) -> T]
      BY <2>2, LenProperties
    <3>2. p \in [1 .. Len(p) -> U]
      BY <2>2, <3>1
    <3> QED BY <3>1, <3>2, SeqDef
  <2>3. /\ {before[i] : i \in DOMAIN before} \subseteq S
        /\ {upto[i] : i \in DOMAIN upto} \subseteq S
        /\ {one[i] : i \in DOMAIN one} \subseteq S
        /\ {after[i] : i \in DOMAIN after} \subseteq S
        /\ {behind[i] : i \in DOMAIN behind} \subseteq S
    OBVIOUS
  <2> HIDE DEF S
  <2> QED BY <2>1, <2>2, <2>3
<1> HIDE DEF S
<1> DEFINE c2 == before \o upto
           c3 == c2 \o one
           c4 == c3 \o after
<1>20. /\ c2 \in Seq(S) /\ Disjoint(c2) /\ Cross(c2, one) /\ Cross(c2, after)
       /\ Cross(c2, behind)
  BY <1>11, <1>12, <1>14, <1>16, <1>17, ConcatProperties, DisjointConcat, CrossConcat
<1> HIDE DEF c2
<1>21. c3 \in Seq(S) /\ Disjoint(c3) /\ Cross(c3, after) /\ Cross(c3, behind)
  BY <1>11, <1>12, <1>16, <1>17, <1>20, ConcatProperties, DisjointConcat, CrossConcat
<1> HIDE DEF c3
<1>22. c4 \in Seq(S) /\ Disjoint(c4) /\ Cross(c4, behind)
  BY <1>12, <1>16, <1>17, <1>21, ConcatProperties, DisjointConcat, CrossConcat
<1> HIDE DEF c4
<1>23. Disjoint(c4 \o behind)
  BY <1>14, <1>17, <1>22, DisjointConcat
<1>24. Split(b, index, e, h).arr = c4 \o behind
  BY DEF Split, c4, c3, c2, upto, h1, observed, one, h2, after, before, behind
<1> QED BY <1>23, <1>24

(* Looking at a cell: an object is put there only if none contains it.     *)
LEMMA ObserveDisjoint ==
    ASSUME NEW n \in Nat, NEW b \in Seq(ObjectsOf(n)), NEW e \in Tallies,
           NEW h, IsHeap(h), n < Len(h), Disjoint(b),
           Numeric(block_observe(b, e, h).arr)
    PROVE  Disjoint(block_observe(b, e, h).arr)
<1> DEFINE index == object_arr_index(b, e)
<1>0. Len(b) \in Nat /\ DOMAIN b = 1 .. Len(b)
  OBVIOUS
<1>1. /\ index = 0 => \A i \in 1 .. Len(b) : ~object_contains(b[i], e)
      /\ index # 0 => index \in 1 .. Len(b) /\ object_contains(b[index], e)
  BY Found
<1>2. CASE index = 0
  <2> DEFINE o == object_value_create(e, NoValue)
             a == Append(b, o)
             one == <<o>>
  <2>1. block_observe(b, e, h) = [arr |-> a, freed |-> h]
    BY <1>2 DEF block_observe, index
  <2>2. Numeric(a)
    BY <2>1
  <2>3. NoValue \in Contents(n)
    BY DEF Contents
  <2>4. o \in ObjectsOf(n)
    BY <2>3, ValueMade
  <2>5. o.offset = e /\ Off(o) = e.num /\ Upto(o) = e.num + 1 /\ e.num \in Int
    BY CellShape
  <2> HIDE DEF o
  <2>6. DOMAIN one = {1} /\ one[1] = o /\ one \in Seq(ObjectsOf(n))
    BY <2>4
  <2>7. /\ Len(a) = Len(b) + 1 /\ a[Len(b) + 1] = o /\ a \in Seq(ObjectsOf(n))
        /\ \A i \in 1 .. Len(b) : a[i] = b[i]
    BY <2>4, AppendProperties
  <2>8. a = b \o one
    BY <2>4, AppendIsConcat
  <2> HIDE DEF one
  <2>9. DOMAIN a = 1 .. Len(b) + 1
    BY <2>7, LenProperties
  <2>10. IsNumber(e) /\ \A i \in DOMAIN b : IsNumber(b[i].offset) /\ IsNumber(object_size(b[i]))
    <3> HIDE DEF a
    <3>1. Len(b) + 1 \in DOMAIN a /\ \A i \in DOMAIN b : i \in DOMAIN a
      BY <1>0, <2>9
    <3> QED BY <1>0, <2>2, <2>5, <2>7, <3>1 DEF Numeric
  <2> HIDE DEF a
  <2>11. ASSUME NEW i \in DOMAIN b PROVE Clear(b[i], o)
    <3>1. ~object_contains(b[i], e)
      BY <1>0, <1>1, <1>2
    <3>2. Off(b[i]) \in Int /\ Upto(b[i]) \in Int
      BY Numbers
    <3>3. /\ DOMAIN b[i].offset.map = {} /\ DOMAIN e.map = {}
          /\ DOMAIN object_upper(b[i]).map = {}
      BY <2>10 DEF IsNumber, object_upper, sum_tally, map_sum
    <3>4. ~(Off(b[i]) <= e.num /\ e.num < Upto(b[i]))
      <4> SUFFICES ASSUME Off(b[i]) <= e.num, e.num < Upto(b[i]) PROVE FALSE
        OBVIOUS
      <4>1. math_le(b[i].offset, e) /\ math_le(e, object_upper(b[i]))
        BY <2>5, <3>2, <3>3 DEF math_le, variable_tally_eq, Off, Upto
      <4>2. ~math_le(object_upper(b[i]), e)
        BY <2>5, <3>2 DEF math_le, Upto
      <4> QED BY <3>1, <4>1, <4>2 DEF object_contains, math_lt, math_eq
    <3> QED BY <2>5, <3>2, <3>4 DEF Clear
  <2>12. Cross(b, one)
    BY <2>6, <2>11 DEF Cross
  <2>13. Disjoint(one)
    BY <2>6 DEF Disjoint
  <2>14. Disjoint(b \o one)
    <3>1. one \in Seq(ObjectsOf(n))
      BY <2>6
    <3> QED BY <2>12, <2>13, <3>1, DisjointConcat
  <2> QED BY <2>1, <2>8, <2>14
<1>3. CASE index # 0 /\ object_isvalue(b[index])
  BY <1>3 DEF block_observe, index
<1>4. CASE index # 0 /\ ~object_isvalue(b[index])
  <2>1. block_observe(b, e, h) = Split(b, index, e, h)
    BY <1>4 DEF block_observe, index
  <2> HIDE DEF index
  <2>2. index \in 1 .. Len(b) /\ object_contains(b[index], e)
    BY <1>1, <1>4
  <2>3. Disjoint(Split(b, index, e, h).arr)
    BY <2>2, SplitDisjoint
  <2> QED BY <2>1, <2>3
<1> QED BY <1>2, <1>3, <1>4

(* An assignment leaves every object where it is. *)
LEMMA AssignShape ==
    ASSUME NEW n \in Nat, NEW b \in Seq(ObjectsOf(n)), NEW p, NEW v
    PROVE  /\ DOMAIN object_assign(b, p, v) = DOMAIN b
           /\ \A i \in DOMAIN b :
                 /\ object_assign(b, p, v)[i].offset = b[i].offset
                 /\ object_size(object_assign(b, p, v)[i]) = object_size(b[i])
                 /\ object_upper(object_assign(b, p, v)[i]) = object_upper(b[i])
                 /\ object_isvalue(object_assign(b, p, v)[i]) = object_isvalue(b[i])
<1> DEFINE c == object_assign(b, p, v)
<1>1. /\ DOMAIN c = DOMAIN b
      /\ \A i \in DOMAIN b : c[i] = IF b[i] = b[p] THEN [b[i] EXCEPT !.value = v] ELSE b[i]
  BY DEF object_assign
<1> HIDE DEF c
<1>2. ASSUME NEW o \in ObjectsOf(n), NEW q, q = [o EXCEPT !.value = v]
      PROVE  q.offset = o.offset /\ object_size(q) = object_size(o)
             /\ object_isvalue(q) = object_isvalue(o)
  <2>1. CASE o \in Values(n)
    <3>1. o.type = "VALUE" /\ q.type = "VALUE" /\ q.offset = o.offset
      BY <1>2, <2>1 DEF Values
    <3> QED BY <3>1 DEF object_size, object_isvalue
  <2>2. CASE o \in RangesOf(n)
    <3>1. q = o
      BY <1>2, <2>2 DEF RangesOf
    <3> QED BY <3>1
  <2> QED BY <2>1, <2>2 DEF ObjectsOf
<1>3. ASSUME NEW i \in DOMAIN b
      PROVE  /\ c[i].offset = b[i].offset /\ object_size(c[i]) = object_size(b[i])
             /\ object_isvalue(c[i]) = object_isvalue(b[i])
  <2>1. b[i] \in ObjectsOf(n)
    OBVIOUS
  <2>2. CASE c[i] = b[i]
    BY <2>2
  <2>3. CASE c[i] = [b[i] EXCEPT !.value = v]
    BY <1>2, <2>1, <2>3
  <2> QED BY <1>1, <2>2, <2>3
<1>4. \A i \in DOMAIN b : object_upper(c[i]) = object_upper(b[i])
  BY <1>3 DEF object_upper
<1> QED BY <1>1, <1>3, <1>4 DEF c

LEMMA AssignDisjoint ==
    ASSUME NEW n \in Nat, NEW b \in Seq(ObjectsOf(n)), NEW p, NEW v
    PROVE  /\ Numeric(object_assign(b, p, v)) => Numeric(b)
           /\ Disjoint(b) => Disjoint(object_assign(b, p, v))
<1> DEFINE c == object_assign(b, p, v)
<1>1. /\ DOMAIN c = DOMAIN b
      /\ \A i \in DOMAIN b : /\ c[i].offset = b[i].offset
                             /\ object_size(c[i]) = object_size(b[i])
                             /\ object_upper(c[i]) = object_upper(b[i])
  BY AssignShape
<1> HIDE DEF c
<1>2. Numeric(c) => Numeric(b)
  BY <1>1 DEF Numeric
<1>3. Disjoint(b) => Disjoint(c)
  BY <1>1 DEF Disjoint
<1> QED BY <1>2, <1>3 DEF c

(* Twice the same object: what a range free leaves that finds the end of   *)
(* its range far before the beginning. *)
LEMMA Repeated ==
    ASSUME NEW S, NEW b \in Seq(S), NEW li \in 1 .. Len(b), NEW ui \in 1 .. Len(b), ui + 1 < li
    PROVE  LET c == SubSeq(b, 1, li - 1) \o SubSeq(b, ui + 1, Len(b)) IN
           \E i, j \in DOMAIN c : i # j /\ c[i] = c[j]
<1> DEFINE p == SubSeq(b, 1, li - 1)
           q == SubSeq(b, ui + 1, Len(b))
<1>0. Len(b) \in Nat /\ li - 1 \in Nat /\ ui + 1 \in Nat /\ li - 1 <= Len(b) /\ ui + 1 >= 1
      /\ Len(b) <= Len(b) /\ 1 \in Nat /\ 1 >= 1 /\ li \in Nat /\ ui \in Nat /\ ui + 1 <= Len(b)
      /\ 1 <= li - 1
  OBVIOUS
<1>1. p \in Seq(S) /\ Len(p) = li - 1 /\ \A i \in 1 .. li - 1 : p[i] = b[1 + i - 1]
  <2>1. /\ p \in Seq(S) /\ Len(p) = IF 1 <= li - 1 THEN li - 1 - 1 + 1 ELSE 0
        /\ \A i \in 1 .. li - 1 - 1 + 1 : p[i] = b[1 + i - 1]
    BY <1>0, PieceIn
  <2>2. li - 1 - 1 + 1 = li - 1
    BY <1>0
  <2> QED BY <1>0, <2>1, <2>2
<1>2. /\ q \in Seq(S) /\ Len(q) = Len(b) - (ui + 1) + 1
      /\ \A i \in 1 .. Len(b) - (ui + 1) + 1 : q[i] = b[ui + 1 + i - 1]
  BY <1>0, PieceIn
<1>3. DOMAIN p = 1 .. li - 1 /\ DOMAIN q = 1 .. Len(b) - (ui + 1) + 1
  BY <1>1, <1>2, LenProperties
<1> HIDE DEF p, q
<1>4. ui + 1 \in DOMAIN p /\ 1 \in DOMAIN q /\ 1 + (ui + 1) - 1 = ui + 1 /\ ui + 1 + 1 - 1 = ui + 1
  BY <1>0, <1>3
<1>5. p[ui + 1] = b[ui + 1] /\ q[1] = b[ui + 1]
  BY <1>1, <1>2, <1>3, <1>4
<1>6. /\ ui + 1 \in DOMAIN (p \o q) /\ (p \o q)[ui + 1] = p[ui + 1]
      /\ Len(p) + 1 \in DOMAIN (p \o q) /\ (p \o q)[Len(p) + 1] = q[1]
  <2>1. p \in Seq(S) /\ q \in Seq(S)
    BY <1>1, <1>2
  <2>2. \A i \in DOMAIN p : i \in DOMAIN (p \o q) /\ (p \o q)[i] = p[i]
    BY ONLY <2>1, ConcatPlaces
  <2>3. \A i \in DOMAIN q : Len(p) + i \in DOMAIN (p \o q) /\ (p \o q)[Len(p) + i] = q[i]
    BY ONLY <2>1, ConcatPlaces
  <2> QED BY <1>4, <2>2, <2>3
<1>7. Len(p) + 1 # ui + 1
  BY <1>0, <1>1
<1> DEFINE c == p \o q
<1> HIDE DEF c
<1>8. \E i, j \in DOMAIN c : i # j /\ c[i] = c[j]
  BY <1>5, <1>6, <1>7 DEF c
<1> QED BY <1>8 DEF c, p, q

-----------------------------------------------------------------------------
(* No cell belongs to two objects *)

(* What NoOverlap says of a step. *)
StaysClear ==
    Numeric(objs') /\ Disjoint(objs) =>
        \/ Disjoint(objs')
        \/ ~LaidOut(objs) /\ \E i, j \in DOMAIN objs' : i # j /\ objs'[i] = objs'[j]

LEMMA EndsClear == ASSUME NEW v, Ends(v) PROVE StaysClear
BY DEF Ends, StaysClear

LEMMA BecomesClear ==
    ASSUME NEW new, Becomes(new),
           Numeric(new.arr) /\ Disjoint(objs) =>
               \/ Disjoint(new.arr)
               \/ ~LaidOut(objs) /\ \E i, j \in DOMAIN new.arr : i # j /\ new.arr[i] = new.arr[j]
    PROVE  StaysClear
BY DEF Becomes, StaysClear

LEMMA DerefDisjoint ==
    ASSUME Typed, NEW k \in Tallies, NEW h, IsHeap(h), Len(h) >= Len(freed)
    PROVE  /\ Disjoint(objs) /\ Numeric(state_deref(k, h).arr) => Disjoint(state_deref(k, h).arr)
           /\ Fits(state_deref(k, h).arr, state_deref(k, h).freed)
           /\ state_deref(k, h) =
                 [arr |-> state_deref(k, h).arr, freed |-> state_deref(k, h).freed]
<1>1. objs \in Seq(ObjectsOf(Len(freed) - 1)) /\ Len(freed) - 1 \in Nat
      /\ Len(freed) - 1 < Len(h)
  BY DEF Typed, Fits, IsHeap
<1>2. Disjoint(objs) /\ Numeric(state_deref(k, h).arr) => Disjoint(state_deref(k, h).arr)
  BY <1>1, ObserveDisjoint DEF state_deref
<1>3. Fits(state_deref(k, h).arr, state_deref(k, h).freed)
  BY <1>1, ObserveFits DEF state_deref
<1> QED BY <1>2, <1>3 DEF state_deref, block_observe, Split

LEMMA AssignClear ==
    ASSUME Typed, NEW k \in Tallies, NEW v, NEW h, IsHeap(h), Len(h) >= Len(freed),
           expr_assign_eval(k, v, h)
    PROVE  StaysClear
<1>1. CASE Ends("error") \/ Ends("abort")
  BY <1>1, EndsClear
<1> DEFINE new == state_deref(k, h)
           index == object_arr_index(new.arr, k)
           arr == object_assign(new.arr, index, v)
<1>2. CASE Becomes([new EXCEPT !.arr = arr])
  <2>1. /\ Disjoint(objs) /\ Numeric(new.arr) => Disjoint(new.arr)
        /\ Fits(new.arr, new.freed) /\ new = [arr |-> new.arr, freed |-> new.freed]
    BY DerefDisjoint
  <2> HIDE DEF new, index
  <2> DEFINE l == Len(new.freed) - 1
  <2>2. l \in Nat /\ new.arr \in Seq(ObjectsOf(l))
    BY <2>1 DEF Fits, IsHeap
  <2> HIDE DEF l
  <2>3. /\ Numeric(arr) => Numeric(new.arr)
        /\ Disjoint(new.arr) => Disjoint(arr)
    BY <2>2, AssignDisjoint
  <2> HIDE DEF arr
  <2>4. [new EXCEPT !.arr = arr].arr = arr
    BY <2>1
  <2> QED BY <1>2, <2>1, <2>3, <2>4, BecomesClear
<1> QED BY <1>1, <1>2 DEF expr_assign_eval

LEMMA DeallocClear ==
    ASSUME Typed, dealloc_process
    PROVE  StaysClear
<1>1. PICK k \in Offsets :
        \/ Ends("error") \/ Ends("abort")
        \/ Becomes([state_deref(k, freed) EXCEPT
                        !.freed[ValueAt(state_deref(k, freed).arr, k).loc + 1] = TRUE])
  BY DEF dealloc_process
<1>2. CASE Ends("error") \/ Ends("abort")
  BY <1>2, EndsClear
<1> DEFINE new == state_deref(k, freed)
           x == ValueAt(new.arr, k).loc + 1
<1>3. CASE Becomes([new EXCEPT !.freed[x] = TRUE])
  <2>1. IsHeap(freed) /\ Len(freed) >= Len(freed) /\ k \in Tallies
    BY WrittenIn DEF Typed, Fits, IsHeap
  <2>2. /\ Disjoint(objs) /\ Numeric(new.arr) => Disjoint(new.arr)
        /\ new = [arr |-> new.arr, freed |-> new.freed]
    BY <2>1, DerefDisjoint
  <2> HIDE DEF new, x
  <2>3. [new EXCEPT !.freed[x] = TRUE].arr = new.arr
    BY <2>2
  <2> QED BY <1>3, <2>2, <2>3, BecomesClear
<1> QED BY <1>1, <1>2, <1>3

LEMMA DecideClear ==
    ASSUME Typed, expr_isdeallocand_decide
    PROVE  StaysClear
<1>1. PICK k \in Offsets : Ends("error") \/ Ends("abort") \/ Becomes(state_deref(k, freed))
  BY DEF expr_isdeallocand_decide
<1>2. IsHeap(freed) /\ Len(freed) >= Len(freed) /\ k \in Tallies
  BY WrittenIn DEF Typed, Fits, IsHeap
<1>3. Disjoint(objs) /\ Numeric(state_deref(k, freed).arr) => Disjoint(state_deref(k, freed).arr)
  BY <1>2, DerefDisjoint
<1> QED BY <1>1, <1>3, EndsClear, BecomesClear

LEMMA RangeAllocClear ==
    ASSUME rangeprocess_alloc
    PROVE  StaysClear
<1>1. PICK b \in Bounds : state_range_alloc(b[1], b[2])
  BY DEF rangeprocess_alloc
<1>2. CASE Ends("error") \/ Ends("abort")
  BY <1>2, EndsClear
<1>3. CASE Becomes(block_range_alloc(b[1], b[2], freed))
  <2>1. \A o : Disjoint(<<o>>)
    BY DEF Disjoint
  <2>2. Disjoint(block_range_alloc(b[1], b[2], freed).arr)
    BY <2>1 DEF block_range_alloc
  <2> QED BY <1>3, <2>2, BecomesClear
<1> QED BY <1>1, <1>2, <1>3 DEF state_range_alloc

LEMMA RangeDeallocClear ==
    ASSUME Typed, BoundsInOrder, rangeprocess_dealloc
    PROVE  StaysClear
<1>1. PICK b \in Bounds : location_range_dealloc(b[1], b[2])
  BY DEF rangeprocess_dealloc
<1>2. CASE Ends("error") \/ Ends("abort")
  BY <1>2, EndsClear
<1> DEFINE lw == b[1]
           up == b[2]
           li == object_arr_index(objs, lw)
           ui == object_arr_index_upperincl(objs, up)
           new == block_range_dealloc(objs, lw, up, freed)
           S == ObjectsOf(Len(freed) - 1)
<1>3. CASE block_range_aredeallocands(objs, lw, up, freed) /\ Becomes(new)
  <2>0. objs \in Seq(S) /\ Len(objs) \in Nat
    BY DEF Typed, Fits
  <2> HIDE DEF S
  <2>1. CASE hack_first_object_is_exactly_bounds(objs, lw, up, freed)
    <3>1. objs # <<>>
      BY <2>1 DEF hack_first_object_is_exactly_bounds
    <3>2. new.arr = SubSeq(objs, 2, Len(objs))
      BY <2>0, <2>1, <3>1, TailIsSubSeq DEF block_range_dealloc
    <3>3. 2 \in Nat /\ 2 >= 1 /\ Len(objs) <= Len(objs)
      BY <2>0
    <3>4. Disjoint(objs) => Disjoint(SubSeq(objs, 2, Len(objs)))
      BY <2>0, <3>3, PieceDisjoint
    <3> HIDE DEF new
    <3> QED BY <1>3, <3>2, <3>4, BecomesClear
  <2>2. CASE ~hack_first_object_is_exactly_bounds(objs, lw, up, freed)
    <3>1. li \in 1 .. Len(objs) /\ ui \in 1 .. Len(objs)
      BY <1>3, <2>0, <2>2, EndsFound
    <3>2. LaidOut(objs) => li <= ui + 1
      <4>1. li # 0 /\ ui # 0
        BY <3>1
      <4> QED BY <4>1, EndsInOrder
    <3> DEFINE p == SubSeq(objs, 1, li - 1)
               q == SubSeq(objs, ui + 1, Len(objs))
    <3>3. new.arr = p \o q
      BY <2>2 DEF block_range_dealloc
    <3> HIDE DEF new, li, ui
    <3>4. CASE li <= ui + 1
      <4>1. /\ li - 1 \in Nat /\ ui + 1 \in Nat /\ li - 1 <= Len(objs) /\ ui + 1 >= 1
            /\ li - 1 < ui + 1 /\ Len(objs) <= Len(objs) /\ 1 \in Nat /\ 1 >= 1
        BY <2>0, <3>1, <3>4
      <4>2. ASSUME Disjoint(objs) PROVE Disjoint(p \o q)
        <5>1. p \in Seq(S) /\ q \in Seq(S)
          BY <2>0, <4>1, PieceIn
        <5>2. Disjoint(p) /\ Disjoint(q) /\ Cross(p, q)
          BY <2>0, <4>1, <4>2, PieceDisjoint, PiecesCross
        <5> HIDE DEF p, q
        <5> QED BY <5>1, <5>2, DisjointConcat
      <4> QED BY <1>3, <3>3, <4>2, BecomesClear
    <3>5. CASE ~(li <= ui + 1)
      <4>1. ui + 1 < li
        BY <3>1, <3>5
      <4>2. \E i, j \in DOMAIN (p \o q) : i # j /\ (p \o q)[i] = (p \o q)[j]
        BY <2>0, <3>1, <4>1, Repeated
      <4> HIDE DEF p, q
      <4> QED BY <1>3, <3>2, <3>3, <3>5, <4>2, BecomesClear
    <3> QED BY <3>4, <3>5
  <2> QED BY <2>1, <2>2
<1> QED BY <1>1, <1>2, <1>3 DEF location_range_dealloc

LEMMA ClearStep ==
    ASSUME BoundsInOrder
    PROVE  Typed /\ [Next]_vars => StaysClear
<1> SUFFICES ASSUME Typed, [Next]_vars PROVE StaysClear
  OBVIOUS
<1>0. IsHeap(freed) /\ Len(freed) \in Nat /\ Len(freed) >= Len(freed)
  BY DEF Typed, Fits, IsHeap
<1>1. CASE assign_number
  BY <1>0, <1>1, AssignClear, WrittenIn DEF assign_number
<1>2. CASE assign_malloc
  <2> DEFINE h == Append(freed, FALSE)
  <2>1. IsHeap(h) /\ Len(h) = Len(freed) + 1
    BY <1>0, HeapAppend
  <2>2. \E k \in Offsets : expr_assign_eval(k, value_ptr_create(Len(freed)), h)
    BY <1>2 DEF assign_malloc
  <2> HIDE DEF h
  <2>3. Len(h) >= Len(freed)
    BY <1>0, <2>1
  <2> QED BY <2>1, <2>2, <2>3, AssignClear, WrittenIn
<1>3. CASE dealloc_process
  BY <1>3, DeallocClear
<1>4. CASE expr_isdeallocand_decide
  BY <1>4, DecideClear
<1>5. CASE free_array
  <2>1. CASE Ends("error")
    BY <2>1, EndsClear
  <2>2. CASE Becomes([arr |-> objs, freed |-> [freed EXCEPT ![Array + 1] = TRUE]])
    BY <2>2, BecomesClear
  <2> QED BY <1>5, <2>1, <2>2 DEF free_array
<1>6. CASE iter_absexec
  BY <1>6, RangeAllocClear, RangeDeallocClear DEF iter_absexec
<1>7. CASE stmt_iter_verify
  BY <1>7, EndsClear DEF stmt_iter_verify, ast_expr_rangedecide
<1>8. CASE path_audit
  BY <1>8, EndsClear DEF path_audit
<1>9. CASE UNCHANGED vars
  BY <1>9 DEF vars, StaysClear
<1> QED BY <1>1, <1>2, <1>3, <1>4, <1>5, <1>6, <1>7, <1>8, <1>9 DEF Next

(* No step puts two objects on one cell, for all offsets and bounds, as    *)
(* long as no loop's bounds are numbers in reverse order: the parts of a   *)
(* split object lie within the whole, and a cell gets an object of its own *)
(* only if none contains it.  A range free that finds the objects out of   *)
(* order may put the same object into the array twice.                     *)
THEOREM RangesNoOverlap == ASSUME BoundsInOrder PROVE Spec => NoOverlap
<1>1. Typed /\ [Next]_vars =>
          [Numeric(objs') /\ Disjoint(objs) =>
              \/ Disjoint(objs')
              \/ ~LaidOut(objs) /\ \E i, j \in DOMAIN objs' : i # j /\ objs'[i] = objs'[j]]_vars
  BY ClearStep DEF StaysClear
<1> QED BY <1>1, RangesInvariant, PTL DEF Spec, NoOverlap

-----------------------------------------------------------------------------
(* The cells that the objects of a block say there are *)

(* The objects of a block, those on a cell, and what they say of it.       *)
Objs(b) == {b[i] : i \in DOMAIN b}

Covers(o, k) == Off(o) <= k /\ k < Upto(o)

At(O, k) == {o \in O : Covers(o, k)}

Alive(h, a) == ~h[a + 1]

KindAt(A, h) ==
    IF A = {} THEN "absent"
    ELSE IF \E o \in A : IsNumberValue(o) THEN "number"
    ELSE IF \A o \in A : Held(o) = {} THEN "unset"
    ELSE IF \A o \in A : \A a \in Held(o) : Alive(h, a) THEN "held" ELSE "dangling"

(* The blocks, apart from the array's own, that are live and not held.     *)
Lost(O, h) == {a \in 1 .. Len(h) - 1 : Alive(h, a) /\ \A o \in O : a \notin Held(o)}

(* CellOf and state_hasgarbage, for any objects and any heap.              *)
CellIn(b, h, k) ==
    LET at == {i \in DOMAIN b :
                  b[i].offset.num <= k /\ k < b[i].offset.num + object_size(b[i]).num}
        held == UNION {Held(b[i]) : i \in at} IN
    IF h[Array + 1] \/ at = {} THEN "absent"
    ELSE IF \E i \in at : IsNumberValue(b[i]) THEN "number"
    ELSE IF held = {} THEN "unset"
    ELSE IF \A a \in held : ~h[a + 1] THEN "held" ELSE "dangling"

GarbageIn(b, h) ==
    \E a \in {a \in 0 .. Len(h) - 1 : ~h[a + 1]} :
        a \notin {Array} \cup
            IF h[Array + 1] THEN {} ELSE UNION {Held(b[i]) : i \in DOMAIN b}

LEMMA CellNow ==
    /\ \A k : CellOf(k) = CellIn(objs, freed, k)
    /\ state_hasgarbage <=> GarbageIn(objs, freed)
BY DEF CellOf, CellIn, ArrayIsFreed, state_hasgarbage, GarbageIn, Live, Referenced

LEMMA CellNext ==
    /\ \A k : CellOf(k)' = CellIn(objs', freed', k)
    /\ state_hasgarbage' <=> GarbageIn(objs', freed')
BY DEF CellOf, CellIn, ArrayIsFreed, state_hasgarbage, GarbageIn, Live, Referenced

LEMMA CellKind ==
    ASSUME NEW b, NEW h, NEW k
    PROVE  CellIn(b, h, k) = IF Alive(h, Array) THEN KindAt(At(Objs(b), k), h) ELSE "absent"
<1> DEFINE at == {i \in DOMAIN b : Covers(b[i], k)}
           held == UNION {Held(b[i]) : i \in at}
           A == At(Objs(b), k)
<1>1. \A i \in DOMAIN b : Covers(b[i], k) <=>
          b[i].offset.num <= k /\ k < b[i].offset.num + object_size(b[i]).num
  BY DEF Covers, Off, Upto, object_upper, sum_tally
<1>2. CellIn(b, h, k) =
          IF h[Array + 1] \/ at = {} THEN "absent"
          ELSE IF \E i \in at : IsNumberValue(b[i]) THEN "number"
          ELSE IF held = {} THEN "unset"
          ELSE IF \A a \in held : ~h[a + 1] THEN "held" ELSE "dangling"
  <2>1. {i \in DOMAIN b :
            b[i].offset.num <= k /\ k < b[i].offset.num + object_size(b[i]).num} = at
    BY <1>1
  <2> HIDE DEF at
  <2> QED BY <2>1 DEF CellIn
<1>3. \A o : o \in A <=> \E i \in at : o = b[i]
  BY DEF At, Objs
<1> HIDE DEF A, at
<1>4. /\ at = {} <=> A = {}
      /\ (\E i \in at : IsNumberValue(b[i])) <=> \E o \in A : IsNumberValue(o)
      /\ held = {} <=> \A o \in A : Held(o) = {}
      /\ (\A a \in held : ~h[a + 1]) <=> \A o \in A : \A a \in Held(o) : ~h[a + 1]
  BY <1>3
<1> HIDE DEF held
<1> QED BY <1>2, <1>4 DEF KindAt, Alive, A

LEMMA GarbageLost ==
    ASSUME NEW b, NEW h, IsHeap(h), Alive(h, Array)
    PROVE  GarbageIn(b, h) <=> Lost(Objs(b), h) # {}
<1>1. Len(h) \in Nat /\ Array = 0 /\ ~h[Array + 1]
  BY DEF IsHeap, Array, Alive
<1>2. \A a : a \in UNION {Held(b[i]) : i \in DOMAIN b} <=> \E o \in Objs(b) : a \in Held(o)
  BY DEF Objs
<1>3. GarbageIn(b, h) <=>
          \E a \in 0 .. Len(h) - 1 : ~h[a + 1] /\ a # 0 /\ \A o \in Objs(b) : a \notin Held(o)
  <2> DEFINE U == UNION {Held(b[i]) : i \in DOMAIN b}
  <2>1. GarbageIn(b, h) <=>
            \E a \in {a \in 0 .. Len(h) - 1 : ~h[a + 1]} : a \notin {Array} \cup U
    BY <1>1 DEF GarbageIn
  <2>2. \A a : a \in U <=> \E o \in Objs(b) : a \in Held(o)
    BY <1>2
  <2> HIDE DEF U
  <2>3. GarbageIn(b, h) <=> \E a \in 0 .. Len(h) - 1 : ~h[a + 1] /\ a # Array /\ a \notin U
    BY ONLY <2>1
  <2> QED BY <2>2, <2>3, <1>1
<1>4. \A a : a \in 0 .. Len(h) - 1 /\ a # 0 <=> a \in 1 .. Len(h) - 1
  BY <1>1
<1>5. GarbageIn(b, h) <=>
          \E a \in 1 .. Len(h) - 1 : ~h[a + 1] /\ \A o \in Objs(b) : a \notin Held(o)
  BY <1>3, <1>4, Zenon
<1>6. \A a \in 1 .. Len(h) - 1 : Alive(h, a) <=> ~h[a + 1]
  BY DEF Alive
<1> QED BY <1>5, <1>6 DEF Lost

(* What is said of a cell depends on the blocks that its objects hold.     *)
LEMMA KindSame ==
    ASSUME NEW A, NEW h, NEW g, \A o \in A : \A a \in Held(o) : Alive(g, a) <=> Alive(h, a)
    PROVE  KindAt(A, g) = KindAt(A, h)
<1>1. (\A o \in A : \A a \in Held(o) : Alive(g, a)) <=>
      (\A o \in A : \A a \in Held(o) : Alive(h, a))
  OBVIOUS
<1> QED BY <1>1 DEF KindAt

-----------------------------------------------------------------------------
(* What a step does to the blocks that are live *)

LEMMA AppendAlive ==
    ASSUME NEW h, IsHeap(h)
    PROVE  /\ \A a \in 0 .. Len(h) - 1 : Alive(Append(h, FALSE), a) <=> Alive(h, a)
           /\ Alive(Append(h, FALSE), Len(h))
<1>1. h \in Seq(BOOLEAN) /\ Len(h) \in Nat
  BY DEF IsHeap
<1> DEFINE g == Append(h, FALSE)
<1>2. (\A x \in 1 .. Len(h) : g[x] = h[x]) /\ g[Len(h) + 1] = FALSE
  BY <1>1, AppendProperties
<1> HIDE DEF g
<1>3. ASSUME NEW a \in 0 .. Len(h) - 1 PROVE ~g[a + 1] <=> ~h[a + 1]
  <2>1. a + 1 \in 1 .. Len(h)
    BY <1>1
  <2>2. g[a + 1] = h[a + 1]
    BY <1>2, <2>1
  <2> QED BY <2>2, Zenon
<1>4. ~g[Len(h) + 1]
  BY <1>2, Zenon
<1> QED BY <1>3, <1>4 DEF Alive, g

LEMMA GrownAlive ==
    ASSUME NEW h, IsHeap(h), NEW part
    PROVE  /\ \A a \in 0 .. Len(h) - 1 : Alive(Grown(h, part), a) <=> Alive(h, a)
           /\ IsHeap(Grown(h, part)) /\ Len(Grown(h, part)) \in Nat
           /\ Grown(h, part) = h \/ /\ Len(Grown(h, part)) = Len(h) + 1
                                    /\ Alive(Grown(h, part), Len(h))
           /\ part = <<>> \/ object_isvalue(part[1]) => Grown(h, part) = h
           /\ (\E q : part = <<q>> /\ ~object_isvalue(q)) =>
                  Len(Grown(h, part)) = Len(h) + 1 /\ Alive(Grown(h, part), Len(h))
<1> DEFINE g == Append(h, FALSE)
<1>1. /\ \A a \in 0 .. Len(h) - 1 : Alive(g, a) <=> Alive(h, a)
      /\ Alive(g, Len(h)) /\ IsHeap(g) /\ Len(g) = Len(h) + 1 /\ Len(h) \in Nat
      /\ Len(g) \in Nat
  BY AppendAlive, HeapAppend DEF IsHeap
<1> HIDE DEF g
<1>2. Grown(h, part) = IF part = <<>> \/ object_isvalue(part[1]) THEN h ELSE g
  BY DEF Grown, g
<1>3. (\E q : part = <<q>> /\ ~object_isvalue(q)) => ~(part = <<>> \/ object_isvalue(part[1]))
  OBVIOUS
<1> QED BY <1>1, <1>2, <1>3

LEMMA DeallocAlive ==
    ASSUME NEW h, IsHeap(h), NEW b, NEW from, NEW to
    PROVE  /\ \A a \in 0 .. Len(h) - 1 :
                 Alive(object_dealloc(b, from, to, h), a) <=>
                     Alive(h, a) /\ \A i \in from .. to : a \notin Held(b[i])
           /\ Len(object_dealloc(b, from, to, h)) = Len(h)
           /\ IsHeap(object_dealloc(b, from, to, h))
<1> DEFINE gone == UNION {Held(b[i]) : i \in from .. to}
           g == object_dealloc(b, from, to, h)
<1>1. Len(h) \in Nat
  BY DEF IsHeap
<1>2. \A x \in 1 .. Len(h) : g[x] = (h[x] \/ x - 1 \in gone)
  BY DEF object_dealloc
<1>3. \A a : a \notin gone <=> \A i \in from .. to : a \notin Held(b[i])
  OBVIOUS
<1>4. IsHeap(g) /\ Len(g) = Len(h)
  BY HeapDealloc
<1> HIDE DEF gone, g
<1>5. ASSUME NEW a \in 0 .. Len(h) - 1 PROVE ~g[a + 1] <=> ~h[a + 1] /\ a \notin gone
  <2>1. a + 1 \in 1 .. Len(h) /\ a + 1 - 1 = a
    BY <1>1
  <2>2. g[a + 1] = (h[a + 1] \/ a \in gone)
    BY <1>2, <2>1
  <2> QED BY <2>2, Zenon
<1> QED BY <1>3, <1>4, <1>5 DEF Alive, g

LEMMA ObjsConcat ==
    ASSUME NEW S, NEW b \in Seq(S), NEW c \in Seq(S)
    PROVE  Objs(b \o c) = Objs(b) \cup Objs(c)
<1> DEFINE d == b \o c
<1>1. /\ \A i \in DOMAIN d :
            \/ i \in DOMAIN b /\ d[i] = b[i]
            \/ i - Len(b) \in DOMAIN c /\ d[i] = c[i - Len(b)]
      /\ \A i \in DOMAIN b : i \in DOMAIN d /\ d[i] = b[i]
      /\ \A i \in DOMAIN c : Len(b) + i \in DOMAIN d /\ d[Len(b) + i] = c[i]
  BY ConcatPlaces
<1> HIDE DEF d
<1>2. \A o \in Objs(d) : o \in Objs(b) \cup Objs(c)
  BY <1>1 DEF Objs
<1>3. \A o \in Objs(b) : o \in Objs(d)
  BY <1>1 DEF Objs
<1>4. \A o \in Objs(c) : o \in Objs(d)
  BY <1>1 DEF Objs
<1> QED BY <1>2, <1>3, <1>4 DEF d

LEMMA ObjsPiece ==
    ASSUME NEW S, NEW b \in Seq(S), NEW l \in Nat, NEW u \in Nat, l >= 1, u <= Len(b)
    PROVE  Objs(SubSeq(b, l, u)) = {b[i] : i \in l .. u}
<1> DEFINE p == SubSeq(b, l, u)
<1>1. /\ DOMAIN p = 1 .. (IF l <= u THEN u - l + 1 ELSE 0)
      /\ \A i \in DOMAIN p : l + i - 1 \in l .. u /\ p[i] = b[l + i - 1]
  BY PieceOf
<1> HIDE DEF p
<1>2. ASSUME NEW j \in l .. u PROVE b[j] \in Objs(p)
  <2>1. j - l + 1 \in DOMAIN p /\ l + (j - l + 1) - 1 = j
    BY <1>1
  <2>2. p[j - l + 1] = b[j]
    BY <1>1, <2>1
  <2> QED BY <2>1, <2>2 DEF Objs
<1>3. ASSUME NEW o \in Objs(p) PROVE \E j \in l .. u : o = b[j]
  BY <1>1 DEF Objs
<1> QED BY <1>2, <1>3 DEF p

-----------------------------------------------------------------------------
(* Looking at a cell *)

(* The parts of a split range cover its cells, and each has a fresh live   *)
(* block of its own; the block of the range is freed. *)
LEMMA SplitContent ==
    ASSUME NEW n \in Nat, NEW b \in Seq(ObjectsOf(n)), NEW e \in Tallies,
           NEW h, IsHeap(h), n < Len(h), Sound(b, h),
           NEW index \in 1 .. Len(b), object_contains(b[index], e)
    PROVE  LET o == b[index]
               g == Split(b, index, e, h).freed IN
           \E P :
               /\ Objs(Split(b, index, e, h).arr) = (Objs(b) \ {o}) \cup P
               /\ \A p \in P :
                      /\ Off(o) <= Off(p) /\ Upto(p) <= Upto(o) /\ ~IsNumberValue(p)
                      /\ Off(p) \in Int /\ Upto(p) \in Int
                      /\ \E a \in Len(h) .. Len(g) - 1 : Held(p) = {a} /\ Alive(g, a)
               /\ \A k \in Int : Covers(o, k) => \E p \in P : Covers(p, k)
               /\ \A a \in Len(h) .. Len(g) - 1 : \E p \in P : a \in Held(p)
               /\ \A a \in 0 .. Len(h) - 1 : Alive(g, a) <=> Alive(h, a) /\ a \notin Held(o)
               /\ Len(g) \in Nat /\ Len(h) <= Len(g)
<1> DEFINE o        == b[index]
           upto     == object_upto(o, e, Len(h))
           h1       == Grown(h, upto)
           observed == object_value_create(e, value_ptr_create(Len(h1)))
           h2       == Append(h1, FALSE)
           after    == object_from(o, sum_tally(e, constant(1)), Len(h2))
           h3       == Grown(h2, after)
           h4       == object_dealloc(b, index, index, h3)
           before   == SubSeq(b, 1, index - 1)
           behind   == SubSeq(b, index + 1, Len(b))
           one      == <<observed>>
           P        == Objs(upto) \cup {observed} \cup Objs(after)
<1>0. /\ Len(b) \in Nat /\ DOMAIN b = 1 .. Len(b) /\ o \in ObjectsOf(n) /\ index \in DOMAIN b
      /\ Len(h) \in Nat /\ Len(h) >= 1
  BY DEF IsHeap
<1>1. /\ Off(o) \in Int /\ Upto(o) \in Int /\ e.num \in Int
      /\ Off(o) <= e.num /\ e.num < Upto(o)
  BY <1>0, ContainsFacts
<1>2. \/ upto = <<>> /\ math_eq(o.offset, e)
      \/ \E q : /\ upto = <<q>> /\ ~object_isvalue(q) /\ q.loc = Len(h)
                /\ Off(q) = Off(o) /\ Upto(q) = e.num
  BY <1>0, UptoShape
<1>3. \/ after = <<>> /\ math_ge(sum_tally(e, constant(1)), object_upper(o))
      \/ \E q : /\ after = <<q>> /\ ~object_isvalue(q) /\ q.loc = Len(h2)
                /\ Off(q) = e.num + 1 /\ Upto(q) = Upto(o)
  BY <1>0, AfterShape
<1>4. /\ Off(observed) = e.num /\ Upto(observed) = e.num + 1 /\ object_isvalue(observed)
      /\ observed.value = value_ptr_create(Len(h1))
  BY CellShape
<1>5. math_eq(o.offset, e) => Off(o) = e.num
  BY <1>1 DEF math_eq, math_le, Off
<1>6. math_ge(sum_tally(e, constant(1)), object_upper(o)) => Upto(o) <= e.num + 1
  BY DEF math_ge, math_le, sum_tally, constant, Upto
<1>7. Held(observed) = {Len(h1)} /\ ~IsNumberValue(observed)
  BY <1>4 DEF Held, IsNumberValue, value_ptr_create, value_islocation
<1>8. Held(o) \subseteq 1 .. n
  BY <1>0, ObjectFacts
<1>9. Split(b, index, e, h) =
          [arr |-> before \o upto \o one \o after \o behind, freed |-> h4]
  BY DEF Split
(* The heap. *)
<1> HIDE DEF upto, after, observed, o
<1>10. /\ \A a \in 0 .. Len(h) - 1 : Alive(h1, a) <=> Alive(h, a)
       /\ IsHeap(h1) /\ Len(h1) \in Nat
       /\ upto = <<>> => h1 = h
       /\ upto # <<>> => Len(h1) = Len(h) + 1 /\ Alive(h1, Len(h))
  BY <1>2, GrownAlive
<1> HIDE DEF h1
<1>11. /\ \A a \in 0 .. Len(h1) - 1 : Alive(h2, a) <=> Alive(h1, a)
       /\ Alive(h2, Len(h1)) /\ IsHeap(h2) /\ Len(h2) = Len(h1) + 1
  BY <1>10, AppendAlive, HeapAppend
<1> HIDE DEF h2
<1>12. /\ \A a \in 0 .. Len(h2) - 1 : Alive(h3, a) <=> Alive(h2, a)
       /\ IsHeap(h3) /\ Len(h3) \in Nat
       /\ after = <<>> => h3 = h2
       /\ after # <<>> => Len(h3) = Len(h2) + 1 /\ Alive(h3, Len(h2))
  BY <1>3, <1>11, GrownAlive
<1> HIDE DEF h3
<1>13. /\ \A a \in 0 .. Len(h3) - 1 : Alive(h4, a) <=> Alive(h3, a) /\ a \notin Held(o)
       /\ Len(h4) = Len(h3)
  <2>1. /\ \A a \in 0 .. Len(h3) - 1 :
              Alive(h4, a) <=> Alive(h3, a) /\ \A i \in index .. index : a \notin Held(b[i])
        /\ Len(h4) = Len(h3)
    BY <1>12, DeallocAlive
  <2>2. \A i : i \in index .. index <=> i = index
    BY <1>0
  <2> QED BY <2>1, <2>2 DEF o
<1> HIDE DEF h4
<1>14. /\ Len(h) <= Len(h1) /\ Len(h1) <= Len(h) + 1 /\ Len(h1) < Len(h2) /\ Len(h2) = Len(h1) + 1
       /\ Len(h2) <= Len(h4) /\ Len(h4) <= Len(h2) + 1 /\ Len(h4) \in Nat /\ Len(h2) \in Nat
       /\ upto = <<>> => Len(h1) = Len(h)
       /\ after = <<>> => Len(h4) = Len(h2)
       /\ after # <<>> => Len(h4) = Len(h2) + 1
       /\ upto # <<>> => Len(h1) = Len(h) + 1
  BY <1>0, <1>10, <1>11, <1>12, <1>13
<1>15. \A a \in 0 .. Len(h) - 1 : Alive(h4, a) <=> Alive(h, a) /\ a \notin Held(o)
  <2> TAKE a \in 0 .. Len(h) - 1
  <2>1. a \in 0 .. Len(h1) - 1 /\ a \in 0 .. Len(h2) - 1 /\ a \in 0 .. Len(h3) - 1
    BY <1>0, <1>10, <1>13, <1>14
  <2> QED BY <1>10, <1>11, <1>12, <1>13, <2>1
<1>16. Alive(h4, Len(h1))
  <2>1. Len(h1) \in 0 .. Len(h2) - 1 /\ Len(h1) \in 0 .. Len(h3) - 1 /\ Len(h1) \notin Held(o)
    BY <1>0, <1>8, <1>10, <1>13, <1>14
  <2> QED BY <1>11, <1>12, <1>13, <2>1
<1>17. upto # <<>> => Alive(h4, Len(h))
  <2> SUFFICES ASSUME upto # <<>> PROVE Alive(h4, Len(h))
    OBVIOUS
  <2>1. /\ Len(h) \in 0 .. Len(h1) - 1 /\ Len(h) \in 0 .. Len(h2) - 1
        /\ Len(h) \in 0 .. Len(h3) - 1 /\ Len(h) \notin Held(o)
    BY <1>0, <1>8, <1>10, <1>13, <1>14
  <2> QED BY <1>10, <1>11, <1>12, <1>13, <2>1
<1>18. after # <<>> => Alive(h4, Len(h2))
  <2> SUFFICES ASSUME after # <<>> PROVE Alive(h4, Len(h2))
    OBVIOUS
  <2>1. Len(h2) \in 0 .. Len(h3) - 1 /\ Len(h2) \notin Held(o)
    BY <1>0, <1>8, <1>10, <1>13, <1>14
  <2> QED BY <1>12, <1>13, <2>1
(* The parts. *)
<1>20. \A p : p = <<>> => DOMAIN p = {}
  OBVIOUS
<1>21. \A p, q : p = <<q>> => DOMAIN p = {1} /\ p[1] = q
  OBVIOUS
<1>22. \A q \in Objs(upto) :
           /\ upto # <<>> /\ Off(q) = Off(o) /\ Upto(q) = e.num
           /\ ~IsNumberValue(q) /\ Held(q) = {Len(h)}
  BY <1>2, <1>20, <1>21 DEF Objs, IsNumberValue, Held
<1>23. \A q \in Objs(after) :
           /\ after # <<>> /\ Off(q) = e.num + 1 /\ Upto(q) = Upto(o)
           /\ ~IsNumberValue(q) /\ Held(q) = {Len(h2)}
  BY <1>3, <1>20, <1>21 DEF Objs, IsNumberValue, Held
<1>24. (upto # <<>> => Objs(upto) # {}) /\ (after # <<>> => Objs(after) # {})
  <2>1. \A p, q : p = <<q>> => q \in Objs(p)
    BY <1>21 DEF Objs
  <2> QED BY <1>2, <1>3, <2>1
<1>19. /\ upto = <<>> => math_eq(o.offset, e)
       /\ after = <<>> => math_ge(sum_tally(e, constant(1)), object_upper(o))
  <2>1. \A q : <<q>> # <<>>
    BY <1>20, <1>21
  <2> QED BY <1>2, <1>3, <2>1
<1>25. \A p \in P :
           /\ Off(o) <= Off(p) /\ Upto(p) <= Upto(o) /\ ~IsNumberValue(p)
           /\ Off(p) \in Int /\ Upto(p) \in Int
           /\ \E a \in Len(h) .. Len(h4) - 1 : Held(p) = {a} /\ Alive(h4, a)
  <2> TAKE p \in P
  <2>0. /\ e.num \in Int /\ Off(o) \in Int /\ Upto(o) \in Int
        /\ Off(o) <= e.num /\ e.num <= Upto(o) /\ e.num + 1 <= Upto(o)
    BY <1>0, <1>1
  <2>1. CASE p \in Objs(upto)
    <3>1. /\ upto # <<>> /\ Off(p) = Off(o) /\ Upto(p) = e.num
          /\ ~IsNumberValue(p) /\ Held(p) = {Len(h)}
      BY <1>22, <2>1
    <3>2. Len(h) \in Len(h) .. Len(h4) - 1 /\ Alive(h4, Len(h))
      BY <1>0, <1>10, <1>14, <1>17, <3>1
    <3>3. \E a \in Len(h) .. Len(h4) - 1 : Held(p) = {a} /\ Alive(h4, a)
      BY ONLY <3>1, <3>2
    <3>4. /\ Off(o) <= Off(p) /\ Upto(p) <= Upto(o) /\ Off(p) \in Int /\ Upto(p) \in Int
      BY ONLY <2>0, <3>1
    <3> QED BY ONLY <3>1, <3>3, <3>4
  <2>2. CASE p = observed
    <3>1. Len(h1) \in Len(h) .. Len(h4) - 1 /\ Alive(h4, Len(h1))
      BY <1>0, <1>10, <1>14, <1>16
    <3>2. /\ Off(p) = e.num /\ Upto(p) = e.num + 1
          /\ ~IsNumberValue(p) /\ Held(p) = {Len(h1)}
      BY <1>4, <1>7, <2>2
    <3>3. \E a \in Len(h) .. Len(h4) - 1 : Held(p) = {a} /\ Alive(h4, a)
      BY ONLY <3>1, <3>2
    <3>4. /\ Off(o) <= Off(p) /\ Upto(p) <= Upto(o) /\ Off(p) \in Int /\ Upto(p) \in Int
      BY ONLY <2>0, <3>2
    <3> QED BY ONLY <3>2, <3>3, <3>4
  <2>3. CASE p \in Objs(after)
    <3>1. /\ after # <<>> /\ Off(p) = e.num + 1 /\ Upto(p) = Upto(o)
          /\ ~IsNumberValue(p) /\ Held(p) = {Len(h2)}
      BY <1>23, <2>3
    <3>2. Len(h2) \in Len(h) .. Len(h4) - 1 /\ Alive(h4, Len(h2))
      BY <1>0, <1>10, <1>14, <1>18, <3>1
    <3>3. \E a \in Len(h) .. Len(h4) - 1 : Held(p) = {a} /\ Alive(h4, a)
      BY ONLY <3>1, <3>2
    <3>4. /\ Off(o) <= Off(p) /\ Upto(p) <= Upto(o) /\ Off(p) \in Int /\ Upto(p) \in Int
      BY ONLY <2>0, <3>1
    <3> QED BY ONLY <3>1, <3>3, <3>4
  <2> QED BY <2>1, <2>2, <2>3
<1>26. ASSUME NEW k \in Int, Covers(o, k) PROVE \E p \in P : Covers(p, k)
  <2>1. Off(o) <= k /\ k < Upto(o)
    BY <1>26 DEF Covers
  <2>2. CASE k < e.num
    <3>1. upto # <<>>
      BY <1>1, <1>5, <1>19, <2>1, <2>2
    <3>2. PICK q \in Objs(upto) : TRUE
      BY <1>24, <3>1
    <3>3. Covers(q, k)
      BY <1>22, <2>1, <2>2 DEF Covers
    <3> QED BY <3>3
  <2>3. CASE k = e.num
    <3>1. Covers(observed, k)
      BY <1>1, <1>4, <2>3 DEF Covers
    <3> QED BY <3>1
  <2>4. CASE e.num < k
    <3>1. after # <<>>
      BY <1>1, <1>6, <1>19, <2>1, <2>4
    <3>2. PICK q \in Objs(after) : TRUE
      BY <1>24, <3>1
    <3>3. Covers(q, k)
      BY <1>1, <1>23, <2>1, <2>4 DEF Covers
    <3> QED BY <3>3
  <2> QED BY <1>1, <2>2, <2>3, <2>4
<1>27. ASSUME NEW a \in Len(h) .. Len(h4) - 1 PROVE \E p \in P : a \in Held(p)
  <2>1. \/ a = Len(h1)
        \/ a = Len(h) /\ upto # <<>>
        \/ a = Len(h2) /\ after # <<>>
    BY <1>0, <1>14
  <2> QED BY <1>7, <1>22, <1>23, <1>24, <2>1
(* The objects. *)
<1>28. Objs(before \o upto \o one \o after \o behind) = (Objs(b) \ {o}) \cup P
  <2>1. /\ index - 1 \in Nat /\ index + 1 \in Nat /\ index - 1 <= Len(b) /\ index + 1 >= 1
        /\ 1 \in Nat /\ 1 >= 1 /\ Len(b) <= Len(b)
    BY <1>0
  <2>2. /\ Objs(before) = {b[i] : i \in 1 .. index - 1}
        /\ Objs(behind) = {b[i] : i \in index + 1 .. Len(b)}
        /\ before \in Seq(ObjectsOf(n)) /\ behind \in Seq(ObjectsOf(n))
    <3>1. b \in Seq(ObjectsOf(n))
      OBVIOUS
    <3>2. before \in Seq(ObjectsOf(n)) /\ behind \in Seq(ObjectsOf(n))
      BY ONLY <1>0, <2>1, <3>1, PieceIn
    <3>3. Objs(before) = {b[i] : i \in 1 .. index - 1}
      BY ONLY <1>0, <2>1, <3>1, ObjsPiece
    <3>4. Objs(behind) = {b[i] : i \in index + 1 .. Len(b)}
      BY ONLY <1>0, <2>1, <3>1, ObjsPiece
    <3> QED BY <3>2, <3>3, <3>4
  <2> HIDE DEF before, behind
  <2>3. Objs(before) \cup Objs(behind) = Objs(b) \ {o}
    <3>1. \A i \in DOMAIN b : i # index => b[i] # o
      BY <1>0 DEF Sound, o
    <3>2. \A i : i \in DOMAIN b /\ i # index <=> i \in 1 .. index - 1 \/ i \in index + 1 .. Len(b)
      BY <1>0
    <3>3. ASSUME NEW x \in Objs(before) \cup Objs(behind) PROVE x \in Objs(b) \ {o}
      <4>1. PICK i : (i \in 1 .. index - 1 \/ i \in index + 1 .. Len(b)) /\ x = b[i]
        BY <2>2
      <4> QED BY <3>1, <3>2, <4>1 DEF Objs
    <3>4. ASSUME NEW x \in Objs(b) \ {o} PROVE x \in Objs(before) \cup Objs(behind)
      <4>1. PICK i \in DOMAIN b : x = b[i]
        BY DEF Objs
      <4>2. i # index
        BY <4>1 DEF o
      <4> QED BY <2>2, <3>2, <4>1, <4>2
    <3> QED BY <3>3, <3>4
  <2>4. Objs(one) = {observed}
    BY <1>21 DEF Objs
  <2> DEFINE S == UNION {Objs(before), Objs(upto), Objs(one), Objs(after), Objs(behind)}
  <2>5. before \in Seq(S) /\ upto \in Seq(S) /\ one \in Seq(S) /\ after \in Seq(S)
        /\ behind \in Seq(S)
    <3>1. /\ \E T : before \in Seq(T)
          /\ \E T : upto \in Seq(T)
          /\ \E T : one \in Seq(T)
          /\ \E T : after \in Seq(T)
          /\ \E T : behind \in Seq(T)
      <4>1. \A p, q : p = <<q>> => p \in Seq({q})
        OBVIOUS
      <4>2. \A p : p = <<>> => p \in Seq({})
        OBVIOUS
      <4> QED BY <1>2, <1>3, <2>2, <4>1, <4>2 DEF one
    <3>2. ASSUME NEW p, NEW T, p \in Seq(T), NEW U, Objs(p) \subseteq U
          PROVE  p \in Seq(U)
      <4>1. Len(p) \in Nat /\ DOMAIN p = 1 .. Len(p) /\ p \in [1 .. Len(p) -> T]
        BY <3>2, LenProperties
      <4>2. p \in [1 .. Len(p) -> U]
        BY <3>2, <4>1 DEF Objs
      <4> QED BY <4>1, <4>2, SeqDef
    <3>3. /\ Objs(before) \subseteq S /\ Objs(upto) \subseteq S /\ Objs(one) \subseteq S
          /\ Objs(after) \subseteq S /\ Objs(behind) \subseteq S
      OBVIOUS
    <3> HIDE DEF S
    <3> QED BY <3>1, <3>2, <3>3
  <2> HIDE DEF S, one
  <2> DEFINE c2 == before \o upto
             c3 == c2 \o one
             c4 == c3 \o after
  <2>6. c2 \in Seq(S) /\ Objs(c2) = Objs(before) \cup Objs(upto)
    BY <2>5, ConcatProperties, ObjsConcat
  <2> HIDE DEF c2
  <2>7. c3 \in Seq(S) /\ Objs(c3) = Objs(c2) \cup Objs(one)
    BY <2>5, <2>6, ConcatProperties, ObjsConcat
  <2> HIDE DEF c3
  <2>8. c4 \in Seq(S) /\ Objs(c4) = Objs(c3) \cup Objs(after)
    BY <2>5, <2>7, ConcatProperties, ObjsConcat
  <2> HIDE DEF c4
  <2>9. Objs(c4 \o behind) = Objs(c4) \cup Objs(behind)
    BY <2>5, <2>8, ObjsConcat
  <2>10. Objs(c4 \o behind) = (Objs(b) \ {o}) \cup P
    BY <2>3, <2>4, <2>6, <2>7, <2>8, <2>9
  <2> QED BY <2>10 DEF c4, c3, c2
<1> HIDE DEF P
<1>29. Split(b, index, e, h).freed = h4
       /\ Objs(Split(b, index, e, h).arr) = (Objs(b) \ {o}) \cup P
  BY <1>9, <1>28
<1>30. Len(h) <= Len(h4) /\ Len(h4) \in Nat
  BY <1>0, <1>14
<1> DEFINE g == Split(b, index, e, h).freed
           arr == Split(b, index, e, h).arr
<1>31. /\ g = h4 /\ Objs(arr) = (Objs(b) \ {o}) \cup P
  BY <1>29
<1> HIDE DEF g, arr
<1> SUFFICES
      \E Q :
        /\ Objs(arr) = (Objs(b) \ {o}) \cup Q
        /\ \A p \in Q :
               /\ Off(o) <= Off(p) /\ Upto(p) <= Upto(o) /\ ~IsNumberValue(p)
               /\ Off(p) \in Int /\ Upto(p) \in Int
               /\ \E a \in Len(h) .. Len(g) - 1 : Held(p) = {a} /\ Alive(g, a)
        /\ \A k \in Int : Covers(o, k) => \E p \in Q : Covers(p, k)
        /\ \A a \in Len(h) .. Len(g) - 1 : \E p \in Q : a \in Held(p)
        /\ \A a \in 0 .. Len(h) - 1 : Alive(g, a) <=> Alive(h, a) /\ a \notin Held(o)
        /\ Len(g) \in Nat /\ Len(h) <= Len(g)
  BY DEF o, g, arr
<1> WITNESS P
<1> QED BY <1>15, <1>25, <1>26, <1>27, <1>30, <1>31

(* Splitting a range changes no cell and loses no block. *)
LEMMA SplitKinds ==
    ASSUME NEW n \in Nat, NEW b \in Seq(ObjectsOf(n)), NEW e \in Tallies,
           NEW h, IsHeap(h), n < Len(h), Sound(b, h), Disjoint(b),
           NEW index \in 1 .. Len(b), object_contains(b[index], e), ~object_isvalue(b[index])
    PROVE  LET new == Split(b, index, e, h) IN
           /\ \A k \in Int : KindAt(At(Objs(new.arr), k), new.freed) = KindAt(At(Objs(b), k), h)
           /\ Lost(Objs(new.arr), new.freed) = Lost(Objs(b), h)
           /\ \A a \in 0 .. n : a \notin Held(b[index]) => (Alive(new.freed, a) <=> Alive(h, a))
           /\ At(Objs(b), e.num) # {}
<1> DEFINE o == b[index]
           g == Split(b, index, e, h).freed
           O == Objs(b)
           new == Objs(Split(b, index, e, h).arr)
<1>0. /\ DOMAIN b = 1 .. Len(b) /\ o \in ObjectsOf(n) /\ o \in O /\ index \in DOMAIN b
      /\ \A i \in DOMAIN b : b[i] \in ObjectsOf(n) /\ Off(b[i]) \in Int /\ Upto(b[i]) \in Int
      /\ Len(h) \in Nat
  BY Numbers DEF Objs, IsHeap
<1>1. PICK P :
        /\ new = (O \ {o}) \cup P
        /\ \A p \in P :
               /\ Off(o) <= Off(p) /\ Upto(p) <= Upto(o) /\ ~IsNumberValue(p)
               /\ Off(p) \in Int /\ Upto(p) \in Int
               /\ \E a \in Len(h) .. Len(g) - 1 : Held(p) = {a} /\ Alive(g, a)
        /\ \A k \in Int : Covers(o, k) => \E p \in P : Covers(p, k)
        /\ \A a \in Len(h) .. Len(g) - 1 : \E p \in P : a \in Held(p)
        /\ \A a \in 0 .. Len(h) - 1 : Alive(g, a) <=> Alive(h, a) /\ a \notin Held(o)
        /\ Len(g) \in Nat /\ Len(h) <= Len(g)
  BY SplitContent
<1>2. Held(o) = {o.loc} /\ Alive(h, o.loc) /\ Held(o) \subseteq 1 .. n
  BY <1>0, ObjectFacts DEF Held, Sound, Alive
<1>3. \A q \in O : q # o => /\ Held(q) \cap Held(o) = {} /\ Clear(o, q)
                            /\ Off(q) \in Int /\ Upto(q) \in Int
  <2> TAKE q \in O
  <2>1. PICK j \in DOMAIN b : q = b[j]
    BY DEF Objs
  <2>2. Off(q) \in Int /\ Upto(q) \in Int
    BY <1>0, <2>1
  <2>3. j # index => Held(b[j]) \cap Held(b[index]) = {} /\ Clear(b[index], b[j])
    BY <1>0, DisjointIsClear DEF Sound
  <2> QED BY <2>1, <2>2, <2>3
<1>4. \A q \in O : Held(q) \subseteq 1 .. n
  BY <1>0, ObjectFacts DEF Objs
<1>5. Off(o) \in Int /\ Upto(o) \in Int /\ Covers(o, e.num) /\ e.num \in Int
  BY <1>0, ContainsFacts DEF Covers
<1> HIDE DEF g, O, new
<1>6. ASSUME NEW k \in Int PROVE KindAt(At(new, k), g) = KindAt(At(O, k), h)
  <2>1. CASE Covers(o, k)
    <3>1. At(O, k) = {o}
      <4> SUFFICES ASSUME NEW q \in O, Covers(q, k), q # o PROVE FALSE
        BY <1>0, <2>1 DEF At
      <4> QED BY <1>3, <1>5, <2>1 DEF Clear, Covers
    <3>2. KindAt({o}, h) = "held"
      <4>1. ~IsNumberValue(o)
        BY DEF IsNumberValue
      <4> QED BY <1>2, <4>1 DEF KindAt
    <3>3. \A q \in At(new, k) : q \in P
      <4> SUFFICES ASSUME NEW q \in At(new, k), q \in O, q # o PROVE FALSE
        BY <1>1 DEF At
      <4> QED BY <1>3, <1>5, <2>1 DEF Clear, Covers, At
    <3>4. At(new, k) # {}
      BY <1>1, <2>1 DEF At
    <3>5. \A q \in At(new, k) : ~IsNumberValue(q) /\ \E a : Held(q) = {a} /\ Alive(g, a)
      BY <1>1, <3>3
    <3>6. KindAt(At(new, k), g) = "held"
      <4>1. \E q \in At(new, k) : Held(q) # {}
        BY <3>4, <3>5
      <4>2. \A q \in At(new, k) : \A a \in Held(q) : Alive(g, a)
        BY <3>5
      <4>3. ~\E q \in At(new, k) : IsNumberValue(q)
        BY <3>5
      <4> QED BY <3>4, <4>1, <4>2, <4>3 DEF KindAt
    <3> QED BY <3>1, <3>2, <3>6
  <2>2. CASE ~Covers(o, k)
    <3>1. \A p \in P : ~Covers(p, k)
      BY <1>1, <1>5, <2>2 DEF Covers
    <3>2. At(new, k) = At(O, k)
      <4>1. \A q : q \in new <=> (q \in O /\ q # o) \/ q \in P
        BY <1>1
      <4>2. \A q : q \in At(new, k) <=> q \in At(O, k)
        BY ONLY <2>2, <3>1, <4>1 DEF At
      <4> QED BY <4>2
    <3>3. \A q \in At(O, k) : \A a \in Held(q) : Alive(g, a) <=> Alive(h, a)
      <4> TAKE q \in At(O, k)
      <4> TAKE a \in Held(q)
      <4>1. q \in O /\ q # o
        BY <2>2 DEF At
      <4>2. a \in 1 .. n /\ a \notin Held(o)
        BY <1>3, <1>4, <4>1
      <4>3. a \in 0 .. Len(h) - 1
        BY <1>0, <4>2
      <4> QED BY <1>1, <4>2, <4>3
    <3> QED BY <3>2, <3>3, KindSame
  <2> QED BY <2>1, <2>2
<1>7. ASSUME NEW a \in Lost(O, h) PROVE a \in Lost(new, g)
  <2>1. a \in 1 .. Len(h) - 1 /\ Alive(h, a) /\ \A q \in O : a \notin Held(q)
    BY DEF Lost
  <2>2. a \notin Held(o) /\ a \in 0 .. Len(h) - 1 /\ a \in 1 .. Len(g) - 1
        /\ a \notin Len(h) .. Len(g) - 1
    BY <1>0, <1>1, <2>1
  <2>3. \A p \in P : a \notin Held(p)
    BY <1>1, <2>2
  <2> QED BY <1>1, <2>1, <2>2, <2>3 DEF Lost
<1>8. ASSUME NEW a \in Lost(new, g) PROVE a \in Lost(O, h)
  <2>1. a \in 1 .. Len(g) - 1 /\ Alive(g, a) /\ \A q \in new : a \notin Held(q)
    BY DEF Lost
  <2>2. a \notin Len(h) .. Len(g) - 1
    BY <1>1, <2>1
  <2>3. a \in 1 .. Len(h) - 1 /\ a \in 0 .. Len(h) - 1
    BY <1>0, <1>1, <2>1, <2>2
  <2>4. Alive(h, a) /\ a \notin Held(o)
    BY <1>1, <2>1, <2>3
  <2> QED BY <1>1, <2>1, <2>3, <2>4 DEF Lost
<1>9. \A a \in 0 .. n : a \notin Held(o) => (Alive(g, a) <=> Alive(h, a))
  <2>1. \A a \in 0 .. n : a \in 0 .. Len(h) - 1
    BY <1>0
  <2> QED BY <1>1, <2>1
<1>10. At(O, e.num) # {}
  BY <1>0, <1>5 DEF At
<1>11. Lost(new, g) = Lost(O, h)
  BY <1>7, <1>8
<1> QED BY <1>6, <1>9, <1>10, <1>11 DEF g, O, new

(* The object that a cell is then looked up as. *)
LEMMA ObserveObject ==
    ASSUME NEW n \in Nat, NEW b \in Seq(ObjectsOf(n)), NEW e \in Tallies,
           NEW h, IsHeap(h), n < Len(h), Sound(b, h), Disjoint(b), block_observe_ok(b, e, h),
           Numeric(block_observe(b, e, h).arr)
    PROVE  LET new == block_observe(b, e, h)
               p == object_arr_index(new.arr, e) IN
           /\ p \in 1 .. Len(new.arr) /\ object_isvalue(new.arr[p])
           /\ object_contains(new.arr[p], e)
           /\ Off(new.arr[p]) = e.num /\ Upto(new.arr[p]) = e.num + 1 /\ e.num \in Int
           /\ At(Objs(new.arr), e.num) = {new.arr[p]}
<1> DEFINE new == block_observe(b, e, h)
           p == object_arr_index(new.arr, e)
           c == new.arr[p]
           m == Len(new.freed) - 1
<1>1. /\ Fits(new.arr, new.freed) /\ Disjoint(new.arr)
      /\ \E i \in 1 .. Len(new.arr) :
            /\ object_isvalue(new.arr[i]) /\ object_contains(new.arr[i], e)
            /\ \A j \in 1 .. i - 1 : ~object_contains(new.arr[j], e)
  BY ObserveFits, ObserveSound, ObserveDisjoint
<1> HIDE DEF new
<1>2. new.arr \in Seq(ObjectsOf(m)) /\ m \in Nat
  BY <1>1 DEF Fits, IsHeap
<1> HIDE DEF m
<1>3. p \in 1 .. Len(new.arr) /\ object_isvalue(c) /\ object_contains(c, e)
  BY <1>1, <1>2, FirstFound
<1> HIDE DEF p
<1>4. p \in DOMAIN new.arr /\ c \in ObjectsOf(m)
  BY <1>2, <1>3
<1>5. Off(c) \in Int /\ Upto(c) \in Int /\ e.num \in Int /\ Off(c) <= e.num /\ e.num < Upto(c)
  BY <1>2, <1>3, <1>4, ContainsFacts
<1>6. Upto(c) = Off(c) + 1
  BY <1>3 DEF Upto, Off, object_upper, object_size, sum_tally, constant
<1>7. Off(c) = e.num /\ Upto(c) = e.num + 1
  BY <1>5, <1>6
<1>8. At(Objs(new.arr), e.num) = {c}
  <2>1. c \in At(Objs(new.arr), e.num)
    BY <1>4, <1>5 DEF At, Objs, Covers
  <2>2. ASSUME NEW q \in At(Objs(new.arr), e.num) PROVE q = c
    <3>1. PICK i \in DOMAIN new.arr : q = new.arr[i]
      BY DEF At, Objs
    <3>2. Off(q) <= e.num /\ e.num < Upto(q) /\ Off(q) \in Int /\ Upto(q) \in Int
      BY <1>2, <3>1, Numbers DEF At, Covers
    <3>3. ~Clear(q, c)
      BY <1>5, <3>2 DEF Clear
    <3> QED BY <1>1, <1>4, <3>1, <3>3, DisjointIsClear
  <2> HIDE DEF c
  <2> QED BY <2>1, <2>2
<1> QED BY <1>3, <1>5, <1>7, <1>8 DEF p, new

(* Looking at a cell changes none, except that one without an object gets  *)
(* an object without a value; no block is lost. *)
LEMMA ObserveCells ==
    ASSUME NEW n \in Nat, NEW b \in Seq(ObjectsOf(n)), NEW e \in Tallies,
           NEW h, IsHeap(h), n < Len(h), Sound(b, h), Disjoint(b), block_observe_ok(b, e, h),
           Numeric(block_observe(b, e, h).arr)
    PROVE  LET new == block_observe(b, e, h)
               kind(k) == KindAt(At(Objs(b), k), h)
               kindAfter(k) == KindAt(At(Objs(new.arr), k), new.freed) IN
           /\ \A k \in Int : k # e.num => kindAfter(k) = kind(k)
           /\ kindAfter(e.num) = IF At(Objs(b), e.num) = {} THEN "unset" ELSE kind(e.num)
           /\ Lost(Objs(new.arr), new.freed) = Lost(Objs(b), h)
           /\ Alive(new.freed, Array) <=> Alive(h, Array)
<1> DEFINE new == block_observe(b, e, h)
           index == object_arr_index(b, e)
<1>0. /\ DOMAIN b = 1 .. Len(b) /\ Len(b) \in Nat /\ e.num \in Int
      /\ \A i \in DOMAIN b : b[i] \in ObjectsOf(n) /\ Off(b[i]) \in Int /\ Upto(b[i]) \in Int
  BY Numbers, TallyFacts
<1>1. /\ index = 0 => \A i \in 1 .. Len(b) : ~object_contains(b[i], e)
      /\ index # 0 => index \in 1 .. Len(b) /\ object_contains(b[index], e)
  BY Found
<1>2. CASE index = 0
  <2> DEFINE x == object_value_create(e, NoValue)
             a == Append(b, x)
  <2>1. new = [arr |-> a, freed |-> h]
    BY <1>2 DEF block_observe, index
  <2>2. /\ object_isvalue(x) /\ x.value = NoValue /\ Off(x) = e.num /\ Upto(x) = e.num + 1
    BY CellShape
  <2>3. NoValue \in Contents(n)
    BY DEF Contents
  <2>4. x \in ObjectsOf(n)
    BY <2>3, ValueMade
  <2>5. Held(x) = {} /\ ~IsNumberValue(x)
    BY <2>2 DEF Held, IsNumberValue, NoValue, value_islocation
  <2>6. object_contains(x, e)
    BY OwnCell
  <2> HIDE DEF x
  <2>7. /\ Len(a) = Len(b) + 1 /\ a[Len(b) + 1] = x /\ a \in Seq(ObjectsOf(n))
        /\ \A i \in 1 .. Len(b) : a[i] = b[i]
    BY <2>4, AppendProperties
  <2>8. DOMAIN a = 1 .. Len(b) + 1
    BY <2>7, LenProperties
  <2> HIDE DEF a
  <2>9. Objs(a) = Objs(b) \cup {x}
    <3>1. \A i : i \in DOMAIN a <=> i \in DOMAIN b \/ i = Len(b) + 1
      BY <1>0, <2>8
    <3>2. \A i \in DOMAIN b : a[i] = b[i]
      BY <1>0, <2>7
    <3>3. Objs(a) \subseteq Objs(b) \cup {x}
      BY <2>7, <3>1, <3>2 DEF Objs
    <3>4. Objs(b) \subseteq Objs(a)
      BY <3>1, <3>2 DEF Objs
    <3>5. x \in Objs(a)
      BY <2>7, <3>1 DEF Objs
    <3> QED BY <3>3, <3>4, <3>5
  <2>17. new.arr = a /\ new.freed = h
    BY <2>1
  <2>10. PICK c : At(Objs(a), e.num) = {c}
    <3> HIDE DEF x, a
    <3>1. At(Objs(new.arr), e.num) = {new.arr[object_arr_index(new.arr, e)]}
      BY ONLY n \in Nat, b \in Seq(ObjectsOf(n)), e \in Tallies, IsHeap(h), n < Len(h),
              Sound(b, h), Disjoint(b), block_observe_ok(b, e, h),
              Numeric(block_observe(b, e, h).arr), ObserveObject, ZenonT(60)
    <3> HIDE DEF new
    <3>2. At(Objs(a), e.num) = {new.arr[object_arr_index(new.arr, e)]}
      BY <2>17, <3>1
    <3> QED BY <3>2
  <2>11. x \in At(Objs(a), e.num)
    BY <1>0, <2>2, <2>9 DEF At, Covers
  <2>12. x \notin Objs(b)
    BY <1>0, <1>1, <1>2, <2>6 DEF Objs
  <2>13. At(Objs(b), e.num) = {} /\ At(Objs(a), e.num) = {x}
    BY <2>9, <2>10, <2>11, <2>12 DEF At
  <2>14. ASSUME NEW k \in Int, k # e.num PROVE At(Objs(a), k) = At(Objs(b), k)
    <3>1. ~Covers(x, k)
      BY <1>0, <2>2, <2>14 DEF Covers
    <3> QED BY <2>9, <3>1 DEF At
  <2>15. KindAt({x}, h) = "unset"
    BY <2>5 DEF KindAt
  <2>16. Lost(Objs(a), h) = Lost(Objs(b), h)
    BY <2>5, <2>9 DEF Lost
  <2> HIDE DEF new
  <2>18. /\ \A k \in Int : k # e.num =>
               KindAt(At(Objs(new.arr), k), new.freed) = KindAt(At(Objs(b), k), h)
         /\ KindAt(At(Objs(new.arr), e.num), new.freed) = "unset"
         /\ Lost(Objs(new.arr), new.freed) = Lost(Objs(b), h)
         /\ Alive(new.freed, Array) <=> Alive(h, Array)
    BY <2>13, <2>14, <2>15, <2>16, <2>17
  <2> QED BY <2>13, <2>18 DEF new
<1>3. CASE index # 0 /\ object_isvalue(b[index])
  <2>1. new = [arr |-> b, freed |-> h]
    BY <1>3 DEF block_observe, index
  <2>2. At(Objs(b), e.num) # {}
    <3> HIDE DEF index
    <3>1. b[index] \in ObjectsOf(n) /\ index \in DOMAIN b /\ object_contains(b[index], e)
      BY <1>0, <1>1, <1>3
    <3>2. Covers(b[index], e.num)
      BY <3>1, ContainsFacts DEF Covers
    <3> QED BY <3>1, <3>2 DEF At, Objs
  <2> QED BY <2>1, <2>2
<1>4. CASE index # 0 /\ ~object_isvalue(b[index])
  <2>1. new = Split(b, index, e, h)
    BY <1>4 DEF block_observe, index
  <2> HIDE DEF index
  <2>2. index \in 1 .. Len(b) /\ object_contains(b[index], e) /\ ~object_isvalue(b[index])
    BY <1>1, <1>4
  <2> DEFINE s == Split(b, index, e, h)
  <2>3. /\ \A k \in Int : KindAt(At(Objs(s.arr), k), s.freed) = KindAt(At(Objs(b), k), h)
        /\ Lost(Objs(s.arr), s.freed) = Lost(Objs(b), h)
        /\ \A a \in 0 .. n : a \notin Held(b[index]) => (Alive(s.freed, a) <=> Alive(h, a))
        /\ At(Objs(b), e.num) # {}
    BY <2>2, SplitKinds
  <2>4. Array \in 0 .. n /\ Array \notin Held(b[index])
    BY <1>0, <2>2, ObjectFacts DEF Array
  <2>5. Alive(s.freed, Array) <=> Alive(h, Array)
    BY <2>3, <2>4
  <2> HIDE DEF s
  <2> QED BY <1>0, <2>1, <2>3, <2>5 DEF s
<1> QED BY <1>2, <1>3, <1>4

-----------------------------------------------------------------------------
(* The steps of Cells *)

LEMMA RefuseStep ==
    ASSUME NEW v \in {"error", "abort"}, Ends(v)
    PROVE  Array_!Next
<1>1. verdict = "running" /\ UNCHANGED <<objs, freed>> /\ verdict' \in {"error", "abort"}
  BY DEF Ends
<1>2. (\A k : CellOf(k)' = CellOf(k)) /\ (state_hasgarbage' <=> state_hasgarbage)
  BY <1>1, CellNow, CellNext
<1>3. Array_!Refuse
  BY <1>1, <1>2 DEF Array_!Refuse
<1> QED BY <1>1, <1>3 DEF Array_!Next

LEMMA AssignStep ==
    ASSUME NEW k \in 0 .. N - 1, NEW c \in {"number", "held"},
           verdict = "running", UNCHANGED verdict,
           \A j \in 0 .. N - 1 : CellOf(j)' = IF j = k THEN c ELSE CellOf(j),
           state_hasgarbage' <=> state_hasgarbage \/ CellOf(k) = "held"
    PROVE  Array_!Next
<1> DEFINE C == [j \in 0 .. N - 1 |-> CellOf(j)]
<1>1. C[k] = CellOf(k)
  OBVIOUS
<1>2. C' = Array_!With({k}, c)
  BY DEF Array_!With, Array_!Index
<1>3. Array_!Assign
  BY <1>1, <1>2 DEF Array_!Assign, Array_!Index
<1> QED BY <1>3 DEF Array_!Next

LEMMA FreeStep ==
    ASSUME NEW k \in 0 .. N - 1, verdict = "running", UNCHANGED verdict,
           CellOf(k) = "held",
           \A j \in 0 .. N - 1 : CellOf(j)' = IF j = k THEN "dangling" ELSE CellOf(j),
           state_hasgarbage' <=> state_hasgarbage
    PROVE  Array_!Next
<1> DEFINE C == [j \in 0 .. N - 1 |-> CellOf(j)]
<1>1. C[k] = CellOf(k)
  OBVIOUS
<1>2. C' = Array_!With({k}, "dangling")
  BY DEF Array_!With, Array_!Index
<1>3. Array_!Free
  BY <1>1, <1>2 DEF Array_!Free, Array_!Index
<1> QED BY <1>3 DEF Array_!Next

LEMMA CheckStep ==
    ASSUME NEW k \in 0 .. N - 1, verdict = "running", UNCHANGED verdict,
           CellOf(k) \in {"held", "dangling"},
           \A j \in 0 .. N - 1 : CellOf(j)' = CellOf(j),
           state_hasgarbage' <=> state_hasgarbage
    PROVE  Array_!Next
<1> DEFINE C == [j \in 0 .. N - 1 |-> CellOf(j)]
<1>1. C[k] = CellOf(k)
  OBVIOUS
<1>2. C' = C
  OBVIOUS
<1>3. Array_!Check
  BY <1>1, <1>2 DEF Array_!Check, Array_!Index
<1> QED BY <1>3 DEF Array_!Next

LEMMA FreeArrayStep ==
    ASSUME verdict = "running", UNCHANGED verdict,
           \A j \in 0 .. N - 1 : CellOf(j)' = "absent",
           state_hasgarbage' <=> state_hasgarbage \/ \E k \in 0 .. N - 1 : CellOf(k) = "held"
    PROVE  Array_!Next
<1> DEFINE C == [j \in 0 .. N - 1 |-> CellOf(j)]
<1>1. \A k \in 0 .. N - 1 : C[k] = CellOf(k)
  OBVIOUS
<1>2. C' = [k \in 0 .. N - 1 |-> "absent"]
  OBVIOUS
<1>3. Array_!FreeArray
  BY <1>1, <1>2 DEF Array_!FreeArray, Array_!Index
<1> QED BY <1>3 DEF Array_!Next

LEMMA AllocStep ==
    ASSUME NEW lw \in 0 .. N, NEW up \in 0 .. N, lw < up, verdict = "running", UNCHANGED verdict,
           \A j \in 0 .. N - 1 : CellOf(j) = "absent",
           \A j \in 0 .. N - 1 : CellOf(j)' = IF j \in lw .. up - 1 THEN "held" ELSE CellOf(j),
           state_hasgarbage' <=> state_hasgarbage
    PROVE  Array_!Next
<1> DEFINE C == [j \in 0 .. N - 1 |-> CellOf(j)]
<1>1. \A k \in 0 .. N - 1 : C[k] = CellOf(k)
  OBVIOUS
<1>2. C' = Array_!With(lw .. up - 1, "held")
  BY DEF Array_!With, Array_!Index
<1>3. Array_!AllocRange
  BY <1>1, <1>2 DEF Array_!AllocRange, Array_!Index
<1> QED BY <1>3 DEF Array_!Next

LEMMA FreeRangeStep ==
    ASSUME NEW lo \in 0 .. N, NEW hi \in 0 .. N, lo < hi, verdict = "running", UNCHANGED verdict,
           \A j \in lo .. hi - 1 : CellOf(j) = "held",
           \A j \in 0 .. N - 1 : CellOf(j)' = IF j \in lo .. hi - 1 THEN "absent" ELSE CellOf(j),
           state_hasgarbage' <=> state_hasgarbage
    PROVE  Array_!Next
<1> DEFINE C == [j \in 0 .. N - 1 |-> CellOf(j)]
<1>1. \A k \in lo .. hi - 1 : C[k] = CellOf(k)
  BY RangesAssumption
<1>2. C' = Array_!With(lo .. hi - 1, "absent")
  BY DEF Array_!With, Array_!Index
<1>3. Array_!FreeRange
  BY <1>1, <1>2 DEF Array_!FreeRange, Array_!Index
<1> QED BY <1>3 DEF Array_!Next

LEMMA AuditStep ==
    ASSUME path_audit
    PROVE  Array_!Next
<1>1. verdict = "running" /\ UNCHANGED <<objs, freed>>
      /\ verdict' = IF state_hasgarbage THEN "garbage" ELSE "clean"
  BY DEF path_audit, Ends
<1>2. (\A k : CellOf(k)' = CellOf(k)) /\ (state_hasgarbage' <=> state_hasgarbage)
  BY <1>1, CellNow, CellNext
<1>3. Array_!Audit
  BY <1>1, <1>2 DEF Array_!Audit
<1> QED BY <1>1, <1>3 DEF Array_!Next

-----------------------------------------------------------------------------
(* Assigning a cell *)

LEMMA ObjsAssign ==
    ASSUME NEW n \in Nat, NEW b \in Seq(ObjectsOf(n)), NEW p \in DOMAIN b, object_isvalue(b[p]),
           NEW v
    PROVE  LET d == [b[p] EXCEPT !.value = v] IN
           /\ Objs(object_assign(b, p, v)) = (Objs(b) \ {b[p]}) \cup {d}
           /\ object_isvalue(d) /\ d.value = v
           /\ Off(d) = Off(b[p]) /\ Upto(d) = Upto(b[p])
<1> DEFINE c == object_assign(b, p, v)
           d == [b[p] EXCEPT !.value = v]
<1>1. /\ DOMAIN c = DOMAIN b
      /\ \A i \in DOMAIN b : c[i] = IF b[i] = b[p] THEN d ELSE b[i]
  BY DEF object_assign
<1>2. b[p] \in Values(n)
  BY ObjectFacts
<1>3. d.type = "VALUE" /\ d.value = v /\ d.offset = b[p].offset /\ b[p].type = "VALUE"
  BY <1>2 DEF Values
<1> HIDE DEF c, d
<1>4. object_isvalue(d) /\ Off(d) = Off(b[p]) /\ Upto(d) = Upto(b[p])
  BY <1>3 DEF object_isvalue, Off, Upto, object_upper, object_size
<1>5. Objs(c) = {c[i] : i \in DOMAIN b}
  BY <1>1 DEF Objs
<1>6. ASSUME NEW o \in Objs(c) PROVE o \in (Objs(b) \ {b[p]}) \cup {d}
  BY <1>1, <1>5 DEF Objs
<1>7. d \in Objs(c)
  BY <1>1, <1>5
<1>8. ASSUME NEW o \in Objs(b), o # b[p] PROVE o \in Objs(c)
  BY <1>1, <1>5, <1>8 DEF Objs
<1>9. Objs(c) = (Objs(b) \ {b[p]}) \cup {d}
  BY <1>6, <1>7, <1>8
<1> QED BY <1>3, <1>4, <1>9 DEF c, d

(* One object is replaced by another on the same cell.                     *)
LEMMA ReplaceLost ==
    ASSUME NEW O, NEW c \in O, NEW d, NEW h,
           \A o \in O : o # c => Held(o) \cap Held(c) = {}
    PROVE  \A a : a \in Lost((O \ {c}) \cup {d}, h) <=>
               /\ a \notin Held(d)
               /\ \/ a \in Lost(O, h)
                  \/ a \in Held(c) /\ a \in 1 .. Len(h) - 1 /\ Alive(h, a)
BY DEF Lost

(* What is said of a cell with one value. *)
LEMMA KindValue ==
    ASSUME NEW d, object_isvalue(d), NEW h
    PROVE  /\ d.value.type = "INT" => KindAt({d}, h) = "number"
           /\ value_islocation(d.value) =>
                 /\ Held(d) = {d.value.loc}
                 /\ KindAt({d}, h) = IF Alive(h, d.value.loc) THEN "held" ELSE "dangling"
           /\ ~value_islocation(d.value) => /\ Held(d) = {}
                                            /\ KindAt({d}, h) \in {"number", "unset"}
<1>1. Held(d) = IF value_islocation(d.value) THEN {d.value.loc} ELSE {}
  BY DEF Held
<1>2. IsNumberValue(d) <=> d.value.type = "INT"
  BY DEF IsNumberValue
<1>3. value_islocation(d.value) => d.value.type # "INT"
  BY DEF value_islocation
<1>4. KindAt({d}, h) =
          IF IsNumberValue(d) THEN "number"
          ELSE IF Held(d) = {} THEN "unset"
          ELSE IF \A a \in Held(d) : Alive(h, a) THEN "held" ELSE "dangling"
  BY DEF KindAt
<1> QED BY <1>1, <1>2, <1>3, <1>4

(* Cells says the same of a statement's block before and after the cell is *)
(* looked at, but for the first look. *)
LEMMA DerefCells ==
    ASSUME Typed, InOrder, CellsCovered, NEW k \in Offsets, NEW h, IsHeap(h),
           Len(freed) <= Len(h),
           \A a \in 0 .. Len(freed) - 1 : Alive(h, a) <=> Alive(freed, a),
           \A a \in Len(freed) .. Len(h) - 1 : Alive(h, a),
           ~ArrayIsFreed, block_observe_ok(objs, k, h), Numeric(state_deref(k, h).arr)
    PROVE  LET new == state_deref(k, h)
               p   == object_arr_index(new.arr, k)
               c   == new.arr[p] IN
           /\ k.num \in 0 .. N - 1
           /\ Fits(new.arr, new.freed) /\ Sound(new.arr, new.freed)
           /\ p \in DOMAIN new.arr /\ object_isvalue(c)
           /\ Off(c) = k.num /\ Upto(c) = k.num + 1 /\ At(Objs(new.arr), k.num) = {c}
           /\ Alive(new.freed, Array)
           /\ \A j \in Int : j # k.num =>
                  KindAt(At(Objs(new.arr), j), new.freed) = CellOf(j)
           /\ KindAt({c}, new.freed) = IF CellOf(k.num) = "absent" THEN "unset"
                                       ELSE CellOf(k.num)
           /\ Lost(Objs(new.arr), new.freed) =
                  Lost(Objs(objs), freed) \cup (Len(freed) .. Len(h) - 1)
           /\ state_hasgarbage <=> Lost(Objs(objs), freed) # {}
           /\ new = [arr |-> new.arr, freed |-> new.freed]
<1> DEFINE n   == Len(freed) - 1
           new == block_observe(objs, k, h)
           p   == object_arr_index(new.arr, k)
           c   == new.arr[p]
<1>0. /\ objs \in Seq(ObjectsOf(n)) /\ n \in Nat /\ n < Len(h) /\ Len(h) \in Nat
      /\ IsHeap(freed) /\ Len(freed) \in Nat /\ n + 1 = Len(freed)
      /\ k \in Tallies /\ Array \in 0 .. Len(freed) - 1
  BY WrittenIn DEF Typed, Fits, IsHeap, Array
<1>1. Alive(freed, Array) /\ Alive(h, Array)
  <2>1. Alive(freed, Array)
    BY DEF ArrayIsFreed, Alive
  <2> QED BY <1>0, <2>1
<1>2. Disjoint(objs)
  <2>1. \A i, j \in DOMAIN objs : i # j => i < j \/ j < i
    BY <1>0
  <2> QED BY <2>1 DEF InOrder, LaidOut, Disjoint
<1>3. \A i \in DOMAIN objs : objs[i] \in ObjectsOf(n) /\ Held(objs[i]) \subseteq 1 .. n
  BY <1>0, ObjectFacts
<1> HIDE DEF n
<1>4. Sound(objs, freed)
  BY InOrderSound
<1>5. Sound(objs, h)
  <2>1. ASSUME NEW i \in DOMAIN objs, ~object_isvalue(objs[i]) PROVE ~h[objs[i].loc + 1]
    <3>1. objs[i].loc \in 1 .. n /\ Alive(freed, objs[i].loc)
      BY <1>3, <1>4, <2>1 DEF Sound, Held, Alive
    <3>2. objs[i].loc \in 0 .. Len(freed) - 1
      BY <1>0, <3>1
    <3>3. Alive(h, objs[i].loc)
      BY <3>1, <3>2
    <3> QED BY <3>3 DEF Alive
  <2> QED BY <1>4, <2>1 DEF Sound
<1>6. Numeric(new.arr)
  BY DEF state_deref
<1>7. Fits(new.arr, new.freed) /\ Sound(new.arr, new.freed)
  BY <1>0, <1>5, ObserveFits, ObserveSound
<1>10. /\ p \in 1 .. Len(new.arr) /\ object_isvalue(c) /\ object_contains(c, k)
       /\ Off(c) = k.num /\ Upto(c) = k.num + 1 /\ k.num \in Int
       /\ At(Objs(new.arr), k.num) = {c}
  <2>1. p \in 1 .. Len(new.arr) /\ object_isvalue(c) /\ object_contains(c, k)
    BY <1>0, <1>2, <1>5, <1>6, ObserveObject
  <2>2. Off(c) = k.num /\ Upto(c) = k.num + 1 /\ k.num \in Int
    BY <1>0, <1>2, <1>5, <1>6, ObserveObject
  <2>3. At(Objs(new.arr), k.num) = {c}
    <3>1. n \in Nat /\ objs \in Seq(ObjectsOf(n)) /\ k \in Tallies /\ n < Len(h)
      BY <1>0
    <3> QED BY ONLY <3>1, IsHeap(h), <1>2, <1>5, <1>6, block_observe_ok(objs, k, h), ObserveObject
  <2> QED BY <2>1, <2>2, <2>3
<1>21. /\ \A j \in Int : j # k.num =>
              KindAt(At(Objs(new.arr), j), new.freed) = KindAt(At(Objs(objs), j), h)
       /\ KindAt(At(Objs(new.arr), k.num), new.freed) =
              IF At(Objs(objs), k.num) = {} THEN "unset" ELSE KindAt(At(Objs(objs), k.num), h)
       /\ Lost(Objs(new.arr), new.freed) = Lost(Objs(objs), h)
       /\ Alive(new.freed, Array) <=> Alive(h, Array)
  BY <1>0, <1>2, <1>5, <1>6, ObserveCells
<1>8. new = [arr |-> new.arr, freed |-> new.freed]
  BY DEF block_observe, Split
<1>9. state_deref(k, h) = new
  BY DEF state_deref
<1> HIDE DEF new, p
<1>11. p \in DOMAIN new.arr /\ c \in ObjectsOf(Len(new.freed) - 1)
  BY <1>7, <1>10 DEF Fits
<1>12. k.num \in 0 .. N - 1
  <2>1. IsNumber(c.offset) /\ math_le(c.offset, k) /\ IsTally(k)
    BY <1>6, <1>10, <1>11, RangesAssumption DEF Numeric, object_contains
  <2>2. IsNumber(k)
    BY <2>1, EqualNumbers
  <2> QED BY <2>2 DEF CellsCovered
<1> HIDE DEF c
<1>13. \A o \in Objs(objs) : \A a \in Held(o) : a \in 1 .. n /\ (Alive(h, a) <=> Alive(freed, a))
  <2> TAKE o \in Objs(objs)
  <2> TAKE a \in Held(o)
  <2>1. a \in 1 .. n
    BY <1>3 DEF Objs
  <2>2. a \in 0 .. Len(freed) - 1
    BY <1>0, <2>1
  <2> QED BY <2>1, <2>2
<1>14. \A j : KindAt(At(Objs(objs), j), h) = KindAt(At(Objs(objs), j), freed)
  <2> TAKE j
  <2>1. \A o \in At(Objs(objs), j) : \A a \in Held(o) : Alive(h, a) <=> Alive(freed, a)
    BY <1>13 DEF At
  <2> QED BY <2>1, KindSame
<1>15. \A j : CellOf(j) = KindAt(At(Objs(objs), j), freed)
  BY <1>1, CellNow, CellKind
<1>16. CellOf(k.num) = "absent" <=> At(Objs(objs), k.num) = {}
  BY <1>15 DEF KindAt
<1>17. Lost(Objs(objs), h) = Lost(Objs(objs), freed) \cup (Len(freed) .. Len(h) - 1)
  <2>1. ASSUME NEW a \in Lost(Objs(objs), h), a \notin Len(freed) .. Len(h) - 1
        PROVE  a \in Lost(Objs(objs), freed)
    <3>1. a \in 1 .. Len(freed) - 1 /\ a \in 0 .. Len(freed) - 1
      BY <1>0, <2>1 DEF Lost
    <3> QED BY <3>1 DEF Lost
  <2>2. ASSUME NEW a \in Lost(Objs(objs), freed) PROVE a \in Lost(Objs(objs), h)
    <3>1. a \in 1 .. Len(h) - 1 /\ a \in 0 .. Len(freed) - 1
      BY <1>0 DEF Lost
    <3> QED BY <3>1 DEF Lost
  <2>3. ASSUME NEW a \in Len(freed) .. Len(h) - 1 PROVE a \in Lost(Objs(objs), h)
    <3>1. a \in 1 .. Len(h) - 1 /\ a \notin 1 .. n
      BY <1>0
    <3>2. \A o \in Objs(objs) : a \notin Held(o)
      BY <1>13, <3>1
    <3> QED BY <3>1, <3>2 DEF Lost
  <2> QED BY <2>1, <2>2, <2>3
<1>18. state_hasgarbage <=> Lost(Objs(objs), freed) # {}
  BY <1>0, <1>1, CellNow, GarbageLost
<1>19. \A j \in Int : j # k.num => KindAt(At(Objs(new.arr), j), new.freed) = CellOf(j)
  BY <1>14, <1>15, <1>21
<1>20. KindAt({c}, new.freed) = IF CellOf(k.num) = "absent" THEN "unset" ELSE CellOf(k.num)
  BY <1>10, <1>14, <1>15, <1>16, <1>21
<1>22. Lost(Objs(new.arr), new.freed) = Lost(Objs(objs), freed) \cup (Len(freed) .. Len(h) - 1)
  BY <1>17, <1>21
<1>23. Alive(new.freed, Array)
  BY <1>1, <1>21
<1> HIDE DEF state_hasgarbage
<1> QED BY <1>7, <1>8, <1>9, <1>10, <1>11, <1>12, <1>18, <1>19, <1>20, <1>22, <1>23 DEF c, p

LEMMA AssignCells ==
    ASSUME Typed, InOrder, CellsCovered, NEW k \in Offsets, NEW v, NEW h, IsHeap(h),
           Len(freed) <= Len(h),
           \A a \in 0 .. Len(freed) - 1 : Alive(h, a) <=> Alive(freed, a),
           \A a \in Len(freed) .. Len(h) - 1 : Alive(h, a),
           \/ v.type = "INT" /\ Len(h) = Len(freed)
           \/ v.type = "PTR" /\ v.loc = Len(freed) /\ Len(h) = Len(freed) + 1,
           expr_assign_eval(k, v, h), Numeric(objs')
    PROVE  Array_!Next
<1>1. CASE Ends("error") \/ Ends("abort")
  BY <1>1, RefuseStep
<1> DEFINE new == state_deref(k, h)
           b   == new.arr
           g   == new.freed
           p   == object_arr_index(b, k)
           c   == b[p]
           d   == [c EXCEPT !.value = v]
           arr == object_assign(b, p, v)
           O   == Objs(b)
           L   == Lost(Objs(objs), freed)
           F   == Len(freed) .. Len(h) - 1
           x   == k.num
<1>2. CASE ~ArrayIsFreed /\ block_observe_ok(objs, k, h) /\ Becomes([new EXCEPT !.arr = arr])
  <2>0. k \in Tallies /\ Len(freed) \in Nat /\ Len(h) \in Nat /\ Len(freed) >= 1
    BY WrittenIn DEF Typed, Fits, IsHeap
  <2>1. new = [arr |-> b, freed |-> g] /\ Fits(b, g)
    BY <2>0, DerefDisjoint
  <2>2. b \in Seq(ObjectsOf(Len(g) - 1)) /\ Len(g) - 1 \in Nat /\ IsHeap(g) /\ Len(g) \in Nat
    BY <2>1 DEF Fits, IsHeap
  <2>3. objs' = arr /\ freed' = g /\ verdict = "running" /\ UNCHANGED verdict
    <3> HIDE DEF new, p
    <3>1. [new EXCEPT !.arr = arr].arr = arr /\ [new EXCEPT !.arr = arr].freed = g
      BY <2>1
    <3> HIDE DEF arr
    <3> QED BY <1>2, <3>1 DEF Becomes
  <2>4. Numeric(b)
    <3> HIDE DEF new, b, g, p
    <3> QED BY <2>2, <2>3, AssignDisjoint
  <2>5. /\ x \in 0 .. N - 1
        /\ Sound(b, g)
        /\ p \in DOMAIN b /\ object_isvalue(c)
        /\ Off(c) = x /\ Upto(c) = x + 1
        /\ Alive(g, Array)
    BY <1>2, <2>4, DerefCells
  <2>6. /\ \A j \in Int : j # x => KindAt(At(O, j), g) = CellOf(j)
        /\ KindAt({c}, g) = IF CellOf(x) = "absent" THEN "unset" ELSE CellOf(x)
        /\ state_hasgarbage <=> L # {}
    BY <1>2, <2>4, DerefCells
  <2>21. At(O, x) = {c}
    BY <1>2, <2>4, DerefCells
  <2>22. Lost(O, g) = L \cup F
    BY <1>2, <2>4, DerefCells
  <2>7. O = Objs(b) /\ arr = object_assign(b, p, v) /\ c = b[p]
    OBVIOUS
  <2> HIDE DEF new, p, g, b, arr, c, O, state_hasgarbage
  <2>8. /\ Objs(arr) = (O \ {c}) \cup {d}
        /\ object_isvalue(d) /\ d.value = v /\ Off(d) = x /\ Upto(d) = x + 1
    BY <2>2, <2>5, <2>7, ObjsAssign
  <2>9. c \in O /\ \A o \in O : o # c => Held(o) \cap Held(c) = {}
    <3>1. c \in O
      BY <2>5, <2>7 DEF Objs
    <3>2. \A o \in O : \E i \in DOMAIN b : o = b[i]
      BY <2>7 DEF Objs
    <3> QED BY <2>5, <2>7, <3>1, <3>2 DEF Sound
  <2> HIDE DEF d, L, F, x
  <2>10. x \in Int /\ \A j \in 0 .. N - 1 : j \in Int
    BY <2>5, RangesAssumption
  <2>11. \A j \in Int : At(Objs(arr), j) = IF j = x THEN {d} ELSE At(O, j)
    <3> TAKE j \in Int
    <3>1. (Covers(c, j) <=> j = x) /\ (Covers(d, j) <=> j = x)
      BY <2>5, <2>8, <2>10 DEF Covers
    <3>2. CASE j = x
      <4>1. \A o \in O : Covers(o, j) => o = c
        BY <2>21, <3>2 DEF At
      <4> QED BY <2>8, <3>1, <3>2, <4>1 DEF At
    <3>3. CASE j # x
      BY <2>8, <2>9, <3>1, <3>3 DEF At
    <3> QED BY <3>2, <3>3
  <2>12. \A a : a \in Lost(Objs(arr), g) <=>
             /\ a \notin Held(d)
             /\ \/ a \in Lost(O, g)
                \/ a \in Held(c) /\ a \in 1 .. Len(g) - 1 /\ Alive(g, a)
    <3>1. \A a : a \in Lost((O \ {c}) \cup {d}, g) <=>
              /\ a \notin Held(d)
              /\ \/ a \in Lost(O, g)
                 \/ a \in Held(c) /\ a \in 1 .. Len(g) - 1 /\ Alive(g, a)
      BY <2>9, ReplaceLost
    <3> QED BY <2>8, <3>1
  <2>13. Held(d) = F /\ KindAt({d}, g) \in {"number", "held"}
    <3>1. CASE v.type = "INT" /\ Len(h) = Len(freed)
      <4>1. F = {}
        BY <2>0, <3>1 DEF F
      <4> QED BY <2>8, <3>1, <4>1, KindValue DEF value_islocation
    <3>2. CASE v.type = "PTR" /\ v.loc = Len(freed) /\ Len(h) = Len(freed) + 1
      <4>1. F = {v.loc}
        BY <2>0, <3>2 DEF F
      <4>2. Alive(g, v.loc)
        BY <2>22, <4>1 DEF Lost
      <4> QED BY <2>8, <3>2, <4>1, <4>2, KindValue DEF value_islocation
    <3> QED BY <3>1, <3>2
  <2>14. CellOf(x) = "held" <=> \E a \in Held(c) : Alive(g, a)
    <3>1. CellOf(x) = "held" <=> KindAt({c}, g) = "held"
      BY <2>6
    <3>2. KindAt({c}, g) = "held" <=> \E a \in Held(c) : Alive(g, a)
      <4>1. CASE value_islocation(c.value)
        BY <2>5, <4>1, KindValue
      <4>2. CASE ~value_islocation(c.value)
        BY <2>5, <4>2, KindValue
      <4> QED BY <4>1, <4>2
    <3> QED BY <3>1, <3>2
  <2>15. Held(c) \subseteq 1 .. Len(g) - 1
    <3>1. c \in ObjectsOf(Len(g) - 1)
      BY <2>2, <2>5, <2>7
    <3> QED BY <2>2, <3>1, ObjectFacts
  <2>16. /\ \A a \in F : a \notin L
         /\ \A a \in F : a \notin Held(c)
    <3>1. \A a \in F : a \notin L
      BY <2>0 DEF L, F, Lost
    <3>2. \A a \in F : a \notin Held(c)
      BY <2>9, <2>22 DEF Lost
    <3> QED BY <3>1, <3>2
  <2>17. Lost(Objs(arr), g) # {} <=> L # {} \/ CellOf(x) = "held"
    BY <2>12, <2>13, <2>14, <2>15, <2>16, <2>22
  <2>18. state_hasgarbage' <=> state_hasgarbage \/ CellOf(x) = "held"
    <3>1. state_hasgarbage' <=> GarbageIn(arr, g)
      BY <2>3, CellNext
    <3>2. GarbageIn(arr, g) <=> Lost(Objs(arr), g) # {}
      BY <2>2, <2>5, GarbageLost
    <3> QED BY <2>6, <2>17, <3>1, <3>2
  <2>19. \A j \in 0 .. N - 1 : CellOf(j)' = IF j = x THEN KindAt({d}, g) ELSE CellOf(j)
    <3>1. \A j : CellOf(j)' = KindAt(At(Objs(arr), j), g)
      BY <2>3, <2>5, CellNext, CellKind
    <3> QED BY <2>6, <2>10, <2>11, <3>1
  <2>20. verdict = "running" /\ UNCHANGED verdict /\ x \in 0 .. N - 1
    BY <2>3, <2>5
  <2> QED BY <2>13, <2>18, <2>19, <2>20, AssignStep
<1> QED BY <1>1, <1>2 DEF expr_assign_eval

-----------------------------------------------------------------------------
(* Freeing and checking a cell *)

LEMMA MarkAlive ==
    ASSUME NEW h, IsHeap(h), NEW x \in 0 .. Len(h) - 1
    PROVE  /\ \A a \in 0 .. Len(h) - 1 :
                 Alive([h EXCEPT ![x + 1] = TRUE], a) <=> Alive(h, a) /\ a # x
           /\ IsHeap([h EXCEPT ![x + 1] = TRUE])
           /\ Len([h EXCEPT ![x + 1] = TRUE]) = Len(h)
<1>1. h \in Seq(BOOLEAN) /\ Len(h) \in Nat /\ DOMAIN h = 1 .. Len(h)
  BY DEF IsHeap
<1> DEFINE g == [h EXCEPT ![x + 1] = TRUE]
<1>2. x + 1 \in DOMAIN h
  BY <1>1
<1>3. g[x + 1] = TRUE /\ \A y \in DOMAIN h : y # x + 1 => g[y] = h[y]
  BY <1>2
<1>4. IsHeap(g) /\ Len(g) = Len(h)
  BY HeapMark
<1> HIDE DEF g
<1>5. ASSUME NEW a \in 0 .. Len(h) - 1 PROVE Alive(g, a) <=> Alive(h, a) /\ a # x
  <2>1. CASE a = x
    <3>1. g[a + 1]
      BY <1>3, <2>1, Zenon
    <3> QED BY <2>1, <3>1 DEF Alive
  <2>2. CASE a # x
    <3>1. a + 1 \in DOMAIN h /\ a + 1 # x + 1
      BY <1>1, <2>2
    <3>2. g[a + 1] = h[a + 1]
      BY <1>3, <3>1
    <3>3. ~g[a + 1] <=> ~h[a + 1]
      BY <3>2, Zenon
    <3> QED BY <2>2, <3>3 DEF Alive
  <2> QED BY <2>1, <2>2
<1> QED BY <1>4, <1>5 DEF g

(* The two statements that look at a cell and then take its block. *)
LEMMA TakeCells ==
    ASSUME Typed, InOrder, CellsCovered, NEW k \in Offsets, ~ArrayIsFreed,
           block_observe_ok(objs, k, freed), Numeric(objs'),
           verdict = "running", UNCHANGED verdict,
           objs' = state_deref(k, freed).arr,
           NEW a, ValueAt(state_deref(k, freed).arr, k).loc = a,
           value_islocation(ValueAt(state_deref(k, freed).arr, k)),
           \/ freed' = state_deref(k, freed).freed
           \/ /\ freed' = [state_deref(k, freed).freed EXCEPT ![a + 1] = TRUE]
              /\ Alive(state_deref(k, freed).freed, a)
    PROVE  Array_!Next
<1> DEFINE new == state_deref(k, freed)
           b   == new.arr
           g   == new.freed
           p   == object_arr_index(b, k)
           c   == b[p]
           O   == Objs(b)
           L   == Lost(Objs(objs), freed)
           x   == k.num
<1>1. IsHeap(freed) /\ Len(freed) <= Len(freed) /\ Len(freed) \in Nat
      /\ (\A e \in Len(freed) .. Len(freed) - 1 : Alive(freed, e))
      /\ \A e \in 0 .. Len(freed) - 1 : Alive(freed, e) <=> Alive(freed, e)
  BY DEF Typed, Fits, IsHeap
<1>2. Numeric(b)
  OBVIOUS
<1>3. /\ x \in 0 .. N - 1
      /\ Fits(b, g) /\ Sound(b, g)
      /\ p \in DOMAIN b /\ object_isvalue(c)
      /\ Off(c) = x /\ Upto(c) = x + 1
      /\ Alive(g, Array)
  BY <1>1, <1>2, DerefCells
<1>4. /\ \A j \in Int : j # x => KindAt(At(O, j), g) = CellOf(j)
      /\ KindAt({c}, g) = IF CellOf(x) = "absent" THEN "unset" ELSE CellOf(x)
      /\ state_hasgarbage <=> L # {}
  BY <1>1, <1>2, DerefCells
<1>5. At(O, x) = {c}
  BY <1>1, <1>2, DerefCells
<1>6. Lost(O, g) = L
  <2>1. Lost(O, g) = L \cup (Len(freed) .. Len(freed) - 1)
    BY <1>1, <1>2, DerefCells
  <2>2. Len(freed) .. Len(freed) - 1 = {}
    BY <1>1
  <2> HIDE DEF L, O, g
  <2> QED BY <2>1, <2>2
<1>7. PICK m : m = freed'
  OBVIOUS
<1>18. /\ value_islocation(c.value) /\ c.value.loc = a
       /\ m = g \/ (m = [g EXCEPT ![a + 1] = TRUE] /\ Alive(g, a))
  BY <1>7 DEF ValueAt
<1>8. objs' = b /\ freed' = m
  BY <1>7
<1> HIDE DEF new, b, g, p, L, x, state_hasgarbage
<1>9. b \in Seq(ObjectsOf(Len(g) - 1)) /\ Len(g) - 1 \in Nat /\ IsHeap(g) /\ Len(g) \in Nat
  BY <1>3 DEF Fits, IsHeap
<1>10. c \in ObjectsOf(Len(g) - 1) /\ c \in O
  BY <1>3, <1>9 DEF Objs
<1>11. \A o \in O : /\ Held(o) \subseteq 1 .. Len(g) - 1
                    /\ o # c => Held(o) \cap Held(c) = {}
  <2>1. \A o \in O : \E i \in DOMAIN b : o = b[i] /\ b[i] \in ObjectsOf(Len(g) - 1)
    BY <1>9 DEF Objs
  <2>2. \A o \in O : Held(o) \subseteq 1 .. Len(g) - 1
    BY <1>9, <2>1, ObjectFacts
  <2>3. \A o \in O : o # c => Held(o) \cap Held(c) = {}
    BY <1>3, <2>1 DEF Sound
  <2> QED BY <2>2, <2>3
<1>12. Held(c) = {a} /\ \A h : KindAt({c}, h) = IF Alive(h, a) THEN "held" ELSE "dangling"
  <2>1. object_isvalue(c) /\ value_islocation(c.value) /\ c.value.loc = a
    BY <1>3, <1>18
  <2> HIDE DEF c
  <2>2. Held(c) = {a}
    BY ONLY <2>1 DEF Held
  <2>3. ~IsNumberValue(c)
    BY ONLY <2>1 DEF IsNumberValue, value_islocation
  <2> QED BY ONLY <2>2, <2>3 DEF KindAt
<1>13. a \in 1 .. Len(g) - 1 /\ a \in 0 .. Len(g) - 1
  <2>1. Held(c) \subseteq 1 .. Len(g) - 1
    BY <1>10, <1>11
  <2>2. a \in Held(c)
    BY <1>12
  <2> HIDE DEF c
  <2>3. a \in 1 .. Len(g) - 1
    BY <2>1, <2>2
  <2> QED BY <1>9, <2>3
<1>14. \A o \in O : (Covers(o, x) <=> o = c)
  BY <1>5 DEF At
<1> HIDE DEF c, O
<1>15. x \in Int /\ \A j \in 0 .. N - 1 : j \in Int
  BY <1>3, RangesAssumption
<1>16. CASE m = g
  <2>1. \A j : CellOf(j)' = KindAt(At(O, j), g)
    BY <1>3, <1>8, <1>16, CellNext, CellKind DEF O
  <2>2. \A j \in 0 .. N - 1 : CellOf(j)' = CellOf(j)
    <3> TAKE j \in 0 .. N - 1
    <3>1. CASE j = x
      BY <1>4, <1>5, <1>12, <2>1, <3>1
    <3>2. CASE j # x
      BY <1>4, <1>15, <2>1, <3>2
    <3> QED BY <3>1, <3>2
  <2>3. CellOf(x) \in {"held", "dangling"}
    BY <1>4, <1>12
  <2>4. state_hasgarbage' <=> state_hasgarbage
    <3>1. state_hasgarbage' <=> Lost(O, g) # {}
      BY <1>3, <1>8, <1>9, <1>16, CellNext, GarbageLost DEF O
    <3> QED BY <1>4, <1>6, <3>1
  <2> QED BY <1>3, <2>2, <2>3, <2>4, CheckStep
<1>17. CASE m = [g EXCEPT ![a + 1] = TRUE] /\ Alive(g, a)
  <2>1. /\ \A e \in 0 .. Len(g) - 1 : Alive(m, e) <=> Alive(g, e) /\ e # a
        /\ IsHeap(m) /\ Len(m) = Len(g)
    <3>1. /\ \A e \in 0 .. Len(g) - 1 :
                Alive([g EXCEPT ![a + 1] = TRUE], e) <=> Alive(g, e) /\ e # a
          /\ IsHeap([g EXCEPT ![a + 1] = TRUE])
          /\ Len([g EXCEPT ![a + 1] = TRUE]) = Len(g)
      BY ONLY <1>9, <1>13, MarkAlive
    <3>2. m = [g EXCEPT ![a + 1] = TRUE]
      BY <1>17
    <3> QED BY ONLY <3>1, <3>2
  <2>2. Alive(m, Array)
    <3>1. Array \in 0 .. Len(g) - 1 /\ Array # a
      BY <1>9, <1>13 DEF Array
    <3> QED BY <1>3, <2>1, <3>1
  <2>3. \A j : CellOf(j)' = KindAt(At(O, j), m)
    BY <1>8, <2>2, CellNext, CellKind DEF O
  <2>4. CellOf(x)' = "dangling"
    <3>1. ~Alive(m, a)
      BY <1>13, <2>1
    <3> QED BY <1>5, <1>12, <2>3, <3>1
  <2>5. CellOf(x) = "held"
    BY <1>4, <1>12, <1>17
  <2>6. ASSUME NEW j \in 0 .. N - 1, j # x PROVE CellOf(j)' = CellOf(j)
    <3>1. ASSUME NEW o \in At(O, j), NEW e \in Held(o) PROVE Alive(m, e) <=> Alive(g, e)
      <4>1. o \in O /\ o # c
        BY <1>3, <1>15, <2>6, <3>1 DEF At, Covers
      <4>2. e # a /\ e \in 1 .. Len(g) - 1
        BY <1>11, <1>12, <3>1, <4>1
      <4>3. e \in 0 .. Len(g) - 1
        BY <1>9, <4>2
      <4> QED BY <2>1, <4>2, <4>3
    <3>2. KindAt(At(O, j), m) = KindAt(At(O, j), g)
      BY <3>1, KindSame
    <3> QED BY <1>4, <1>15, <2>3, <2>6, <3>2
  <2>7. Lost(O, m) = Lost(O, g)
    <3>1. \A e \in 1 .. Len(g) - 1 : e \in 0 .. Len(g) - 1
      BY <1>9
    <3>2. \A e : e \in Lost(O, m) <=> e \in Lost(O, g)
      BY <1>10, <1>12, <2>1, <3>1 DEF Lost
    <3> QED BY <3>2
  <2>8. state_hasgarbage' <=> state_hasgarbage
    <3>1. state_hasgarbage' <=> Lost(O, m) # {}
      BY <1>8, <2>1, <2>2, CellNext, GarbageLost DEF O
    <3> QED BY <1>4, <1>6, <2>7, <3>1
  <2>9. \A j \in 0 .. N - 1 : CellOf(j)' = IF j = x THEN "dangling" ELSE CellOf(j)
    BY <2>4, <2>6
  <2> QED BY <1>3, <2>5, <2>8, <2>9, FreeStep
<1> QED BY <1>16, <1>17, <1>18

LEMMA DeallocCells ==
    ASSUME Typed, InOrder, CellsCovered, dealloc_process, Numeric(objs')
    PROVE  Array_!Next
<1>1. PICK k \in Offsets :
        IF ArrayIsFreed THEN Ends("error")
        ELSE IF ~block_observe_ok(objs, k, freed) THEN Ends("abort")
        ELSE LET new == state_deref(k, freed)
                 v   == ValueAt(new.arr, k) IN
             IF state_dealloc_ok(v, new.freed)
             THEN Becomes([new EXCEPT !.freed[v.loc + 1] = TRUE])
             ELSE Ends("error")
  BY DEF dealloc_process
<1>2. CASE Ends("error") \/ Ends("abort")
  BY <1>2, RefuseStep
<1> DEFINE new == state_deref(k, freed)
           g   == new.freed
           v   == ValueAt(new.arr, k)
           x   == v.loc
           m   == [g EXCEPT ![x + 1] = TRUE]
<1>3. CASE /\ ~ArrayIsFreed /\ block_observe_ok(objs, k, freed) /\ state_dealloc_ok(v, g)
           /\ Becomes([new EXCEPT !.freed = m])
  <2>1. new = [arr |-> new.arr, freed |-> g]
    BY DEF state_deref, block_observe, Split
  <2>2. value_islocation(v) /\ Alive(g, x)
    <3> HIDE DEF g, v
    <3> QED BY <1>3, Zenon DEF state_dealloc_ok, Alive
  <2>3. objs' = new.arr /\ freed' = m /\ verdict = "running" /\ UNCHANGED verdict
    <3> HIDE DEF new, v, x, g
    <3>1. [new EXCEPT !.freed = m].arr = new.arr /\ [new EXCEPT !.freed = m].freed = m
      BY <2>1
    <3> HIDE DEF m
    <3> QED BY <1>3, <3>1 DEF Becomes
  <2> QED BY <1>3, <2>2, <2>3, TakeCells
<1> QED BY <1>1, <1>2, <1>3

LEMMA DecideCells ==
    ASSUME Typed, InOrder, CellsCovered, expr_isdeallocand_decide, Numeric(objs')
    PROVE  Array_!Next
<1>1. PICK k \in Offsets :
        \/ Ends("error") \/ Ends("abort")
        \/ /\ ~ArrayIsFreed /\ block_observe_ok(objs, k, freed)
           /\ value_islocation(ValueAt(state_deref(k, freed).arr, k))
           /\ Becomes(state_deref(k, freed))
  BY DEF expr_isdeallocand_decide
<1>2. CASE Ends("error") \/ Ends("abort")
  BY <1>2, RefuseStep
<1>3. CASE /\ ~ArrayIsFreed /\ block_observe_ok(objs, k, freed)
           /\ value_islocation(ValueAt(state_deref(k, freed).arr, k))
           /\ Becomes(state_deref(k, freed))
  <2>1. /\ objs' = state_deref(k, freed).arr /\ freed' = state_deref(k, freed).freed
        /\ verdict = "running" /\ UNCHANGED verdict
    BY <1>3 DEF Becomes
  <2> QED BY <1>3, <2>1, TakeCells
<1> QED BY <1>1, <1>2, <1>3

-----------------------------------------------------------------------------
(* Numbers name only cells of the array *)

InArray(o) ==
    /\ IsNumber(o.offset) => 0 <= Off(o)
    /\ IsNumber(object_upper(o)) => Upto(o) <= N

Within(b) == \A i \in DOMAIN b : InArray(b[i])

LEMMA NumberSums ==
    /\ \A e1, e2 : IsNumber(sum_tally(e1, e2)) <=> IsNumber(e1) /\ IsNumber(e2)
    /\ \A e1, e2 : IsNumber(difference(e1, e2)) <=> IsNumber(e1) /\ IsNumber(e2)
    /\ \A n : IsNumber(constant(n))
<1>1. \A m1, m2 : DOMAIN map_sum(m1, m2) = DOMAIN m1 \cup DOMAIN m2
  BY DEF map_sum
<1>2. \A e1, e2 : IsNumber(sum_tally(e1, e2)) <=> IsNumber(e1) /\ IsNumber(e2)
  <2> TAKE e1, e2
  <2>1. sum_tally(e1, e2).map = map_sum(e1.map, e2.map)
    BY DEF sum_tally
  <2>2. DOMAIN sum_tally(e1, e2).map = DOMAIN e1.map \cup DOMAIN e2.map
    BY <1>1, <2>1, Zenon
  <2>3. \A A, B : A \cup B = {} <=> A = {} /\ B = {}
    OBVIOUS
  <2> QED BY <2>2, <2>3, Zenon DEF IsNumber
<1>3. \A e : IsNumber(neg_tally(e)) <=> IsNumber(e)
  <2>1. \A e : neg_tally(e).map = [v \in DOMAIN e.map |-> -e.map[v]]
    BY DEF neg_tally
  <2>2. \A e : DOMAIN [v \in DOMAIN e.map |-> -e.map[v]] = DOMAIN e.map
    OBVIOUS
  <2> QED BY <2>1, <2>2 DEF IsNumber
<1>4. \A n : IsNumber(constant(n))
  <2>1. \A n : constant(n).map = [v \in {} |-> 0]
    BY DEF constant
  <2>2. DOMAIN [v \in {} |-> 0] = {}
    OBVIOUS
  <2> QED BY <2>1, <2>2 DEF IsNumber
<1> QED BY <1>2, <1>3, <1>4 DEF difference

LEMMA WithinConcat ==
    ASSUME NEW S, NEW b \in Seq(S), NEW c \in Seq(S), Within(b), Within(c)
    PROVE  Within(b \o c)
<1>1. \A i \in DOMAIN (b \o c) :
          \/ i \in DOMAIN b /\ (b \o c)[i] = b[i]
          \/ i - Len(b) \in DOMAIN c /\ (b \o c)[i] = c[i - Len(b)]
  BY ConcatPlaces
<1> QED BY <1>1 DEF Within

LEMMA WithinPiece ==
    ASSUME NEW S, NEW b \in Seq(S), NEW l \in Nat, NEW u \in Nat, l >= 1, u <= Len(b),
           Within(b)
    PROVE  Within(SubSeq(b, l, u))
<1>1. \A i \in DOMAIN SubSeq(b, l, u) :
          l + i - 1 \in DOMAIN b /\ SubSeq(b, l, u)[i] = b[l + i - 1]
  BY PieceOf
<1> QED BY <1>1 DEF Within

LEMMA SplitWithin ==
    ASSUME NEW n \in Nat, NEW b \in Seq(ObjectsOf(n)), NEW e \in Tallies,
           NEW h, IsHeap(h), n < Len(h), Within(b), IsNumber(e) => e.num \in 0 .. N - 1,
           NEW index \in 1 .. Len(b), object_contains(b[index], e)
    PROVE  Within(Split(b, index, e, h).arr)
<1> DEFINE o        == b[index]
           upto     == object_upto(o, e, Len(h))
           h1       == Grown(h, upto)
           observed == object_value_create(e, value_ptr_create(Len(h1)))
           h2       == Append(h1, FALSE)
           next     == sum_tally(e, constant(1))
           after    == object_from(o, next, Len(h2))
           before   == SubSeq(b, 1, index - 1)
           behind   == SubSeq(b, index + 1, Len(b))
           one      == <<observed>>
<1>0. Len(b) \in Nat /\ DOMAIN b = 1 .. Len(b) /\ o \in ObjectsOf(n) /\ index \in DOMAIN b
      /\ e.num \in Int /\ InArray(o) /\ N \in Nat
  BY TallyFacts, RangesAssumption DEF Within
<1>1. \/ upto = <<>>
      \/ \E q : /\ upto = <<q>> /\ ~object_isvalue(q)
                /\ q.offset = o.offset /\ q.size = difference(e, o.offset)
                /\ Off(q) = Off(o) /\ Upto(q) = e.num
  BY <1>0, UptoShape
<1>2. \/ after = <<>>
      \/ \E q : /\ after = <<q>> /\ ~object_isvalue(q)
                /\ q.offset = next /\ q.size = difference(object_upper(o), next)
                /\ Off(q) = e.num + 1 /\ Upto(q) = Upto(o)
  BY <1>0, AfterShape
<1>3. /\ object_size(observed) = constant(1) /\ observed.offset = e
      /\ Off(observed) = e.num /\ Upto(observed) = e.num + 1
  BY CellShape
<1>4. /\ \A p : p = <<>> => DOMAIN p = {}
      /\ \A p, q : p = <<q>> => DOMAIN p = {1} /\ p[1] = q
  OBVIOUS
<1>5. one = <<observed>>
  OBVIOUS
<1>6. Split(b, index, e, h).arr = before \o upto \o one \o after \o behind
  BY DEF Split
<1>7. IsNumber(next) => IsNumber(e)
  BY NumberSums
<1>8. before \in Seq(ObjectsOf(n)) /\ behind \in Seq(ObjectsOf(n))
      /\ Within(before) /\ Within(behind)
  BY <1>0, PieceIn, WithinPiece
<1>9. \E S : upto \in Seq(S) /\ one \in Seq(S) /\ after \in Seq(S)
             /\ before \in Seq(S) /\ behind \in Seq(S)
  <2>1. \E S : one \in Seq(S) /\ upto \in Seq(S) /\ after \in Seq(S) /\ ObjectsOf(n) \subseteq S
    <3> HIDE DEF upto, observed, after, one
    <3>1. PICK q1, q2 : (upto = <<>> \/ upto = <<q1>>) /\ (after = <<>> \/ after = <<q2>>)
      BY <1>1, <1>2
    <3> DEFINE S == ObjectsOf(n) \cup {q1, q2, observed}
    <3>2. \A q \in S : <<q>> \in Seq(S)
      OBVIOUS
    <3>3. <<>> \in Seq(S)
      OBVIOUS
    <3>4. q1 \in S /\ q2 \in S /\ observed \in S /\ ObjectsOf(n) \subseteq S
      OBVIOUS
    <3> HIDE DEF S
    <3>5. one \in Seq(S) /\ upto \in Seq(S) /\ after \in Seq(S)
      BY <1>5, <3>1, <3>2, <3>3, <3>4
    <3> QED BY <3>4, <3>5
  <2> HIDE DEF upto, observed, after, one, before, behind
  <2> QED BY <1>8, <2>1, SeqMonotonic
<1> HIDE DEF o, upto, h1, observed, h2, next, after, before, behind, one
<1>10. \A q : ~object_isvalue(q) => object_upper(q) = sum_tally(q.offset, q.size)
  BY DEF object_upper, object_size
<1>11. InArray(observed)
  <2>1. IsNumber(object_upper(observed)) => IsNumber(e)
    BY <1>3, NumberSums DEF object_upper
  <2> QED BY <1>0, <1>3, <2>1 DEF InArray
<1>12. Within(upto)
  <2>1. ASSUME NEW q, ~object_isvalue(q), q.offset = o.offset, q.size = difference(e, o.offset),
               Off(q) = Off(o), Upto(q) = e.num
        PROVE  InArray(q)
    <3>1. IsNumber(object_upper(q)) => IsNumber(e)
      BY <1>10, <2>1, NumberSums
    <3> QED BY <1>0, <2>1, <3>1 DEF InArray
  <2> QED BY <1>1, <1>4, <2>1 DEF Within
<1>13. Within(after)
  <2>1. ASSUME NEW q, ~object_isvalue(q), q.offset = next,
               q.size = difference(object_upper(o), next),
               Off(q) = e.num + 1, Upto(q) = Upto(o)
        PROVE  InArray(q)
    <3>1. IsNumber(object_upper(q)) => IsNumber(object_upper(o))
      BY <1>10, <2>1, NumberSums
    <3>2. IsNumber(q.offset) => 0 <= Off(q)
      BY <1>0, <1>7, <2>1
    <3> QED BY <1>0, <2>1, <3>1, <3>2 DEF InArray
  <2> QED BY <1>2, <1>4, <2>1 DEF Within
<1>14. Within(one)
  BY <1>4, <1>5, <1>11 DEF Within
<1>15. PICK S : upto \in Seq(S) /\ one \in Seq(S) /\ after \in Seq(S)
                /\ before \in Seq(S) /\ behind \in Seq(S)
  BY <1>9
<1> DEFINE c2 == before \o upto
           c3 == c2 \o one
           c4 == c3 \o after
<1>16. c2 \in Seq(S) /\ Within(c2)
  BY <1>8, <1>12, <1>15, WithinConcat, ConcatProperties
<1> HIDE DEF c2
<1>17. c3 \in Seq(S) /\ Within(c3)
  BY <1>14, <1>15, <1>16, WithinConcat, ConcatProperties
<1> HIDE DEF c3
<1>18. c4 \in Seq(S) /\ Within(c4)
  BY <1>13, <1>15, <1>17, WithinConcat, ConcatProperties
<1> HIDE DEF c4
<1>19. Within(c4 \o behind)
  BY <1>8, <1>15, <1>18, WithinConcat
<1> QED BY <1>6, <1>19 DEF c4, c3, c2

LEMMA ObserveWithin ==
    ASSUME NEW n \in Nat, NEW b \in Seq(ObjectsOf(n)), NEW e \in Tallies,
           NEW h, IsHeap(h), n < Len(h), Within(b), IsNumber(e) => e.num \in 0 .. N - 1
    PROVE  Within(block_observe(b, e, h).arr)
<1> DEFINE index == object_arr_index(b, e)
<1>0. /\ Len(b) \in Nat /\ DOMAIN b = 1 .. Len(b) /\ e.num \in Int /\ N \in Nat
  BY TallyFacts, RangesAssumption
<1>1. index # 0 => index \in 1 .. Len(b) /\ object_contains(b[index], e)
  BY Found
<1>2. CASE index = 0
  <2> DEFINE x == object_value_create(e, NoValue)
             a == Append(b, x)
  <2>1. block_observe(b, e, h).arr = a
    BY <1>2 DEF block_observe
  <2>2. Off(x) = e.num /\ Upto(x) = e.num + 1 /\ x.offset = e /\ object_size(x) = constant(1)
    BY CellShape
  <2> HIDE DEF x
  <2>3. IsNumber(object_upper(x)) => IsNumber(e)
    BY <2>2, NumberSums DEF object_upper
  <2>4. InArray(x)
    BY <1>0, <2>2, <2>3 DEF InArray
  <2>5. \A i \in DOMAIN a : (i \in DOMAIN b /\ a[i] = b[i]) \/ a[i] = x
    BY <1>0
  <2> HIDE DEF a
  <2>6. Within(a)
    BY <2>4, <2>5 DEF Within
  <2> QED BY <2>1, <2>6
<1>3. CASE index # 0 /\ object_isvalue(b[index])
  BY <1>3 DEF block_observe
<1>4. CASE index # 0 /\ ~object_isvalue(b[index])
  <2>1. block_observe(b, e, h) = Split(b, index, e, h)
    BY <1>4 DEF block_observe
  <2> HIDE DEF index
  <2> QED BY <1>1, <1>4, <2>1, SplitWithin
<1> QED BY <1>2, <1>3, <1>4

(* What each statement leaves. *)
StaysWithin == Within(objs) => Within(objs')

LEMMA EndsWithin == ASSUME NEW v, Ends(v) PROVE StaysWithin
BY DEF Ends, StaysWithin

LEMMA BecomesWithin ==
    ASSUME NEW new, Becomes(new), Within(objs) => Within(new.arr)
    PROVE  StaysWithin
BY DEF Becomes, StaysWithin

LEMMA DerefWithin ==
    ASSUME Typed, CellsCovered, NEW k \in Offsets, NEW h, IsHeap(h), Len(h) >= Len(freed)
    PROVE  Within(objs) => Within(state_deref(k, h).arr)
<1>1. objs \in Seq(ObjectsOf(Len(freed) - 1)) /\ Len(freed) - 1 \in Nat
      /\ Len(freed) - 1 < Len(h) /\ k \in Tallies
  BY WrittenIn DEF Typed, Fits, IsHeap
<1>2. IsNumber(k) => k.num \in 0 .. N - 1
  BY DEF CellsCovered
<1> QED BY <1>1, <1>2, ObserveWithin DEF state_deref

LEMMA AssignWithin ==
    ASSUME Typed, CellsCovered, NEW k \in Offsets, NEW v, NEW h, IsHeap(h),
           Len(h) >= Len(freed), expr_assign_eval(k, v, h)
    PROVE  StaysWithin
<1>1. CASE Ends("error") \/ Ends("abort")
  BY <1>1, EndsWithin
<1> DEFINE new == state_deref(k, h)
           index == object_arr_index(new.arr, k)
           arr == object_assign(new.arr, index, v)
<1>2. CASE Becomes([new EXCEPT !.arr = arr])
  <2>0. k \in Tallies
    BY WrittenIn
  <2>1. /\ Within(objs) => Within(new.arr)
        /\ Fits(new.arr, new.freed) /\ new = [arr |-> new.arr, freed |-> new.freed]
    BY <2>0, DerefWithin, DerefDisjoint
  <2> HIDE DEF new, index
  <2> DEFINE l == Len(new.freed) - 1
  <2>2. l \in Nat /\ new.arr \in Seq(ObjectsOf(l))
    BY <2>1 DEF Fits, IsHeap
  <2> HIDE DEF l
  <2>3. /\ DOMAIN arr = DOMAIN new.arr
        /\ \A i \in DOMAIN new.arr : /\ arr[i].offset = new.arr[i].offset
                                     /\ object_upper(arr[i]) = object_upper(new.arr[i])
    BY <2>2, AssignShape
  <2> HIDE DEF arr
  <2>4. Within(new.arr) => Within(arr)
    BY <2>3 DEF Within, InArray, Off, Upto
  <2>5. [new EXCEPT !.arr = arr].arr = arr
    BY <2>1
  <2> QED BY <1>2, <2>1, <2>4, <2>5, BecomesWithin
<1> QED BY <1>1, <1>2 DEF expr_assign_eval

LEMMA DeallocWithin ==
    ASSUME Typed, CellsCovered, dealloc_process
    PROVE  StaysWithin
<1>1. PICK k \in Offsets :
        \/ Ends("error") \/ Ends("abort")
        \/ Becomes([state_deref(k, freed) EXCEPT
                        !.freed[ValueAt(state_deref(k, freed).arr, k).loc + 1] = TRUE])
  BY DEF dealloc_process
<1>2. CASE Ends("error") \/ Ends("abort")
  BY <1>2, EndsWithin
<1> DEFINE new == state_deref(k, freed)
           x == ValueAt(new.arr, k).loc + 1
<1>3. CASE Becomes([new EXCEPT !.freed[x] = TRUE])
  <2>1. IsHeap(freed) /\ Len(freed) >= Len(freed) /\ k \in Tallies
    BY WrittenIn DEF Typed, Fits, IsHeap
  <2>2. /\ Within(objs) => Within(new.arr)
        /\ new = [arr |-> new.arr, freed |-> new.freed]
    BY <2>1, DerefWithin, DerefDisjoint
  <2> HIDE DEF new, x
  <2>3. [new EXCEPT !.freed[x] = TRUE].arr = new.arr
    BY <2>2
  <2> QED BY <1>3, <2>2, <2>3, BecomesWithin
<1> QED BY <1>1, <1>2, <1>3

LEMMA DecideWithin ==
    ASSUME Typed, CellsCovered, expr_isdeallocand_decide
    PROVE  StaysWithin
<1>1. PICK k \in Offsets : Ends("error") \/ Ends("abort") \/ Becomes(state_deref(k, freed))
  BY DEF expr_isdeallocand_decide
<1>2. IsHeap(freed) /\ Len(freed) >= Len(freed)
  BY DEF Typed, Fits, IsHeap
<1>3. Within(objs) => Within(state_deref(k, freed).arr)
  BY <1>2, DerefWithin
<1> QED BY <1>1, <1>3, EndsWithin, BecomesWithin

LEMMA RangeAllocWithin ==
    ASSUME CellsCovered, rangeprocess_alloc
    PROVE  StaysWithin
<1>1. PICK b \in Bounds : state_range_alloc(b[1], b[2])
  BY DEF rangeprocess_alloc
<1>2. CASE Ends("error") \/ Ends("abort")
  BY <1>2, EndsWithin
<1> DEFINE o == object_range_create(b[1], difference(b[2], b[1]), Len(freed))
<1>3. CASE Becomes(block_range_alloc(b[1], b[2], freed))
  <2>1. /\ IsNumber(b[1]) => 0 <= b[1].num
        /\ IsNumber(b[2]) => b[2].num <= N
        /\ b[1].num \in Int /\ b[2].num \in Int
    BY RangesAssumption DEF CellsCovered, IsTally
  <2>2. /\ o.offset = b[1] /\ ~object_isvalue(o) /\ o.size = difference(b[2], b[1])
        /\ object_upper(o) = sum_tally(b[1], difference(b[2], b[1]))
    BY DEF object_range_create, object_isvalue, object_upper, object_size
  <2>3. IsNumber(object_upper(o)) => IsNumber(b[2])
    BY <2>2, NumberSums
  <2>4. Upto(o) = b[2].num
    BY <2>1, <2>2 DEF Upto, sum_tally, difference, neg_tally
  <2> HIDE DEF o
  <2>5. InArray(o)
    BY <2>1, <2>2, <2>3, <2>4 DEF InArray, Off
  <2> DEFINE c == <<o>>
  <2>6. DOMAIN c = {1} /\ c[1] = o
    OBVIOUS
  <2>7. block_range_alloc(b[1], b[2], freed).arr = c
    BY DEF block_range_alloc, o
  <2> HIDE DEF c
  <2>8. Within(c)
    BY <2>5, <2>6 DEF Within
  <2> QED BY <1>3, <2>7, <2>8, BecomesWithin
<1> QED BY <1>1, <1>2, <1>3 DEF state_range_alloc

LEMMA RangeDeallocWithin ==
    ASSUME Typed, rangeprocess_dealloc
    PROVE  StaysWithin
<1>1. PICK b \in Bounds : location_range_dealloc(b[1], b[2])
  BY DEF rangeprocess_dealloc
<1>2. CASE Ends("error") \/ Ends("abort")
  BY <1>2, EndsWithin
<1> DEFINE lw == b[1]
           up == b[2]
           li == object_arr_index(objs, lw)
           ui == object_arr_index_upperincl(objs, up)
           new == block_range_dealloc(objs, lw, up, freed)
           S == ObjectsOf(Len(freed) - 1)
<1>3. CASE block_range_aredeallocands(objs, lw, up, freed) /\ Becomes(new)
  <2>0. objs \in Seq(S) /\ Len(objs) \in Nat
    BY DEF Typed, Fits
  <2> HIDE DEF S
  <2>1. CASE hack_first_object_is_exactly_bounds(objs, lw, up, freed)
    <3>1. objs # <<>>
      BY <2>1 DEF hack_first_object_is_exactly_bounds
    <3>2. new.arr = SubSeq(objs, 2, Len(objs))
      BY <2>0, <2>1, <3>1, TailIsSubSeq DEF block_range_dealloc
    <3>3. 2 \in Nat /\ 2 >= 1 /\ Len(objs) <= Len(objs)
      BY <2>0
    <3>4. Within(objs) => Within(SubSeq(objs, 2, Len(objs)))
      BY <2>0, <3>3, WithinPiece
    <3> HIDE DEF new
    <3> QED BY <1>3, <3>2, <3>4, BecomesWithin
  <2>2. CASE ~hack_first_object_is_exactly_bounds(objs, lw, up, freed)
    <3>1. li \in 1 .. Len(objs) /\ ui \in 1 .. Len(objs)
      BY <1>3, <2>0, <2>2, EndsFound
    <3> DEFINE p == SubSeq(objs, 1, li - 1)
               q == SubSeq(objs, ui + 1, Len(objs))
    <3>2. new.arr = p \o q
      BY <2>2 DEF block_range_dealloc
    <3> HIDE DEF new, li, ui
    <3>3. /\ li - 1 \in Nat /\ ui + 1 \in Nat /\ li - 1 <= Len(objs) /\ ui + 1 >= 1
          /\ Len(objs) <= Len(objs) /\ 1 \in Nat /\ 1 >= 1
      BY <2>0, <3>1
    <3>4. p \in Seq(S) /\ q \in Seq(S)
      BY <2>0, <3>3, PieceIn
    <3>5. Within(objs) => Within(p) /\ Within(q)
      BY <2>0, <3>3, WithinPiece
    <3> HIDE DEF p, q
    <3>6. Within(objs) => Within(p \o q)
      BY <3>4, <3>5, WithinConcat
    <3> QED BY <1>3, <3>2, <3>6, BecomesWithin
  <2> QED BY <2>1, <2>2
<1> QED BY <1>1, <1>2, <1>3 DEF location_range_dealloc

LEMMA WithinStep ==
    ASSUME CellsCovered
    PROVE  Typed /\ [Next]_vars => StaysWithin
<1> SUFFICES ASSUME Typed, [Next]_vars PROVE StaysWithin
  OBVIOUS
<1>0. IsHeap(freed) /\ Len(freed) \in Nat /\ Len(freed) >= Len(freed)
  BY DEF Typed, Fits, IsHeap
<1>1. CASE assign_number
  BY <1>0, <1>1, AssignWithin DEF assign_number
<1>2. CASE assign_malloc
  <2> DEFINE h == Append(freed, FALSE)
  <2>1. IsHeap(h) /\ Len(h) = Len(freed) + 1
    BY <1>0, HeapAppend
  <2>2. \E k \in Offsets : expr_assign_eval(k, value_ptr_create(Len(freed)), h)
    BY <1>2 DEF assign_malloc
  <2> HIDE DEF h
  <2>3. Len(h) >= Len(freed)
    BY <1>0, <2>1
  <2> QED BY <2>1, <2>2, <2>3, AssignWithin
<1>3. CASE dealloc_process
  BY <1>3, DeallocWithin
<1>4. CASE expr_isdeallocand_decide
  BY <1>4, DecideWithin
<1>5. CASE free_array
  <2>1. CASE Ends("error")
    BY <2>1, EndsWithin
  <2>2. CASE Becomes([arr |-> objs, freed |-> [freed EXCEPT ![Array + 1] = TRUE]])
    BY <2>2, BecomesWithin
  <2> QED BY <1>5, <2>1, <2>2 DEF free_array
<1>6. CASE iter_absexec
  BY <1>6, RangeAllocWithin, RangeDeallocWithin DEF iter_absexec
<1>7. CASE stmt_iter_verify
  BY <1>7, EndsWithin DEF stmt_iter_verify, ast_expr_rangedecide
<1>8. CASE path_audit
  BY <1>8, EndsWithin DEF path_audit
<1>9. CASE UNCHANGED vars
  BY <1>9 DEF vars, StaysWithin
<1> QED BY <1>1, <1>2, <1>3, <1>4, <1>5, <1>6, <1>7, <1>8, <1>9 DEF Next

-----------------------------------------------------------------------------
(* Freeing the array, and its loops *)

LEMMA HeldOne ==
    ASSUME NEW o, NEW a \in Held(o)
    PROVE  /\ Held(o) = {a} /\ ~IsNumberValue(o)
           /\ \A h : KindAt({o}, h) = IF Alive(h, a) THEN "held" ELSE "dangling"
<1>1. Held(o) = {a}
  BY DEF Held
<1>2. ~IsNumberValue(o)
  BY DEF Held, IsNumberValue, value_islocation
<1> QED BY ONLY <1>1, <1>2 DEF KindAt

(* Objects in order whose numbers are within the array.                    *)
LEMMA LaidFacts ==
    ASSUME Typed, InOrder, Within(objs)
    PROVE  /\ Len(freed) - 1 \in Nat /\ objs \in Seq(ObjectsOf(Len(freed) - 1))
           /\ IsHeap(freed) /\ Len(freed) \in Nat
           /\ Len(objs) \in Nat /\ DOMAIN objs = 1 .. Len(objs)
           /\ \A i \in DOMAIN objs :
                 /\ Off(objs[i]) \in Int /\ Upto(objs[i]) \in Int
                 /\ Off(objs[i]) < Upto(objs[i])
                 /\ IsNumber(objs[i].offset) /\ IsNumber(object_upper(objs[i]))
                 /\ 0 <= Off(objs[i]) /\ Upto(objs[i]) <= N
                 /\ objs[i] \in ObjectsOf(Len(freed) - 1)
           /\ \A i, j \in DOMAIN objs : i < j => Upto(objs[i]) <= Off(objs[j])
<1>1. /\ objs \in Seq(ObjectsOf(Len(freed) - 1)) /\ Len(freed) - 1 \in Nat
      /\ LaidOut(objs) /\ IsHeap(freed) /\ Len(freed) \in Nat
  BY DEF Typed, Fits, IsHeap, InOrder
<1>2. ASSUME NEW i \in DOMAIN objs
      PROVE  /\ Off(objs[i]) \in Int /\ Upto(objs[i]) \in Int
             /\ Off(objs[i]) < Upto(objs[i])
             /\ IsNumber(objs[i].offset) /\ IsNumber(object_upper(objs[i]))
             /\ 0 <= Off(objs[i]) /\ Upto(objs[i]) <= N
             /\ objs[i] \in ObjectsOf(Len(freed) - 1)
  <2>1. objs[i] \in ObjectsOf(Len(freed) - 1)
    BY <1>1
  <2>2. /\ IsNumber(objs[i].offset) /\ IsNumber(object_size(objs[i]))
        /\ object_size(objs[i]).num > 0
    BY <1>1 DEF LaidOut, Numeric
  <2>3. IsNumber(object_upper(objs[i]))
    BY <2>2, NumberSums DEF object_upper
  <2>4. Off(objs[i]) \in Int /\ Upto(objs[i]) \in Int /\ object_size(objs[i]).num \in Int
    BY <1>1, <2>1, Numbers, ObjectFacts, TallyFacts
  <2>5. Upto(objs[i]) = Off(objs[i]) + object_size(objs[i]).num
    BY DEF Upto, Off, object_upper, sum_tally
  <2>6. Off(objs[i]) < Upto(objs[i])
    BY <2>2, <2>4, <2>5
  <2> QED BY <2>1, <2>2, <2>3, <2>4, <2>6 DEF Within, InArray
<1>3. \A i, j \in DOMAIN objs : i < j => Upto(objs[i]) <= Off(objs[j])
  BY <1>1 DEF LaidOut, Upto, Off
<1> QED BY <1>1, <1>2, <1>3

(* The object that covers a cell is the only one there. *)
LEMMA CoversAlone ==
    ASSUME Typed, InOrder, Within(objs),
           NEW i \in DOMAIN objs, NEW k \in Int, Covers(objs[i], k)
    PROVE  At(Objs(objs), k) = {objs[i]}
<1>1. objs[i] \in At(Objs(objs), k)
  BY DEF At, Objs
<1>2. ASSUME NEW o \in At(Objs(objs), k) PROVE o = objs[i]
  <2>1. PICK j \in DOMAIN objs : o = objs[j]
    BY DEF At, Objs
  <2>2. Covers(objs[j], k)
    BY <2>1 DEF At
  <2>3. /\ Off(objs[i]) \in Int /\ Upto(objs[i]) \in Int
        /\ Off(objs[j]) \in Int /\ Upto(objs[j]) \in Int /\ i \in Nat /\ j \in Nat
    BY LaidFacts
  <2>4. ~(i < j)
    <3> SUFFICES ASSUME i < j PROVE FALSE
      OBVIOUS
    <3>1. Upto(objs[i]) <= Off(objs[j])
      BY LaidFacts
    <3> QED BY <2>2, <2>3, <3>1 DEF Covers
  <2>5. ~(j < i)
    <3> SUFFICES ASSUME j < i PROVE FALSE
      OBVIOUS
    <3>1. Upto(objs[j]) <= Off(objs[i])
      BY LaidFacts
    <3> QED BY <2>2, <2>3, <3>1 DEF Covers
  <2>6. i = j
    BY <2>3, <2>4, <2>5
  <2> QED BY <2>1, <2>6
<1> QED BY <1>1, <1>2

LEMMA FreeArrayCells ==
    ASSUME Typed, InOrder, Within(objs), free_array
    PROVE  Array_!Next
<1> DEFINE O == Objs(objs)
<1>0. /\ IsHeap(freed) /\ Len(freed) \in Nat /\ Array = 0 /\ Array \in 0 .. Len(freed) - 1
      /\ N \in Nat
  BY LaidFacts, RangesAssumption DEF IsHeap, Array
<1>1. CASE Ends("error")
  BY <1>1, RefuseStep
<1>2. CASE ~ArrayIsFreed /\ Becomes([arr |-> objs, freed |-> [freed EXCEPT ![Array + 1] = TRUE]])
  <2>1. PICK m : m = [freed EXCEPT ![Array + 1] = TRUE]
    OBVIOUS
  <2>2. objs' = objs /\ freed' = m /\ verdict = "running" /\ UNCHANGED verdict
    BY <1>2, <2>1 DEF Becomes
  <2>3. /\ \A a \in 0 .. Len(freed) - 1 : Alive(m, a) <=> Alive(freed, a) /\ a # Array
        /\ Len(m) = Len(freed)
    BY <1>0, <2>1, MarkAlive
  <2>4. Alive(freed, Array) /\ ~Alive(m, Array)
    <3>1. Alive(freed, Array)
      BY <1>2, Zenon DEF ArrayIsFreed, Alive
    <3> QED BY <1>0, <2>3, <3>1
  <2>5. \A j \in 0 .. N - 1 : CellOf(j)' = "absent"
    BY <2>2, <2>4, CellNext, CellKind
  <2>6. \A j : CellOf(j) = KindAt(At(O, j), freed)
    BY <2>4, CellNow, CellKind
  <2>7. state_hasgarbage <=> Lost(O, freed) # {}
    BY <1>0, <2>4, CellNow, GarbageLost
  <2>8. state_hasgarbage' <=> \E a \in 1 .. Len(freed) - 1 : Alive(freed, a)
    <3>1. state_hasgarbage' <=> GarbageIn(objs, m)
      BY <2>2, CellNext
    <3>2. m[Array + 1]
      BY <2>4, Zenon DEF Alive
    <3>3. GarbageIn(objs, m) <=> \E a \in 0 .. Len(m) - 1 : ~m[a + 1] /\ a # 0
      BY <1>0, <3>2 DEF GarbageIn
    <3>4. GarbageIn(objs, m) <=> \E a \in 0 .. Len(freed) - 1 : Alive(m, a) /\ a # 0
      BY <2>3, <3>3 DEF Alive
    <3>5. \A a : a \in 0 .. Len(freed) - 1 /\ a # 0 <=> a \in 1 .. Len(freed) - 1
      BY <1>0
    <3> QED BY <1>0, <2>3, <3>1, <3>4, <3>5
  <2> HIDE DEF O, state_hasgarbage
  <2>9. ASSUME NEW a \in 1 .. Len(freed) - 1, Alive(freed, a)
        PROVE  Lost(O, freed) # {} \/ \E k \in 0 .. N - 1 : CellOf(k) = "held"
    <3>1. CASE \A o \in O : a \notin Held(o)
      <4>1. a \in Lost(O, freed)
        BY <2>9, <3>1 DEF Lost
      <4> QED BY <4>1
    <3>2. CASE \E o \in O : a \in Held(o)
      <4>1. PICK i \in DOMAIN objs : a \in Held(objs[i])
        BY <3>2 DEF O, Objs
      <4> DEFINE k == Off(objs[i])
      <4>2. k \in Int /\ Upto(objs[i]) \in Int /\ k < Upto(objs[i]) /\ 0 <= k
            /\ Upto(objs[i]) <= N
        BY LaidFacts
      <4>3. Covers(objs[i], k) /\ k \in 0 .. N - 1
        BY <1>0, <4>2 DEF Covers
      <4>4. At(O, k) = {objs[i]}
        BY <4>2, <4>3, CoversAlone DEF O
      <4>5. KindAt({objs[i]}, freed) = "held"
        BY <2>9, <4>1, HeldOne
      <4>6. CellOf(k) = "held"
        BY <2>6, <4>4, <4>5
      <4> QED BY <4>3, <4>6
    <3> QED BY <3>1, <3>2
  <2>10. ASSUME NEW k \in 0 .. N - 1, CellOf(k) = "held"
         PROVE  \E a \in 1 .. Len(freed) - 1 : Alive(freed, a)
    <3>1. PICK o \in At(O, k) : Held(o) # {} /\ \A a \in Held(o) : Alive(freed, a)
      BY <2>6, <2>10 DEF KindAt
    <3>2. PICK i \in DOMAIN objs : o = objs[i]
      BY DEF At, O, Objs
    <3>3. objs[i] \in ObjectsOf(Len(freed) - 1) /\ Len(freed) - 1 \in Nat
      BY LaidFacts
    <3>4. Held(o) \subseteq 1 .. Len(freed) - 1
      BY <3>2, <3>3, ObjectFacts
    <3> QED BY <3>1, <3>4
  <2>11. Lost(O, freed) # {} => \E a \in 1 .. Len(freed) - 1 : Alive(freed, a)
    BY DEF Lost
  <2>12. state_hasgarbage' <=> state_hasgarbage \/ \E k \in 0 .. N - 1 : CellOf(k) = "held"
    BY <2>7, <2>8, <2>9, <2>10, <2>11
  <2> QED BY <2>2, <2>5, <2>12, FreeArrayStep
<1> QED BY <1>1, <1>2 DEF free_array

LEMMA RangeAllocCells ==
    ASSUME Typed, BoundsInOrder, CellsCovered, rangeprocess_alloc, Numeric(objs')
    PROVE  Array_!Next
<1>1. PICK b \in Bounds : state_range_alloc(b[1], b[2])
  BY DEF rangeprocess_alloc
<1>2. CASE Ends("error") \/ Ends("abort")
  BY <1>2, RefuseStep
<1> DEFINE lw == b[1]
           up == b[2]
           n  == Len(freed)
           g  == Append(freed, FALSE)
           o  == object_range_create(lw, difference(up, lw), n)
<1>3. CASE ~ArrayIsFreed /\ lw # up /\ objs = <<>> /\ Becomes(block_range_alloc(lw, up, freed))
  <2>0. /\ IsHeap(freed) /\ n \in Nat /\ n >= 1 /\ lw \in Tallies /\ up \in Tallies
        /\ lw.num \in Int /\ up.num \in Int /\ N \in Nat
    BY WrittenIn, TallyFacts, RangesAssumption DEF Typed, Fits, IsHeap
  <2>1. objs' = <<o>> /\ freed' = g /\ verdict = "running" /\ UNCHANGED verdict
    BY <1>3 DEF Becomes, block_range_alloc
  <2>2. /\ o.offset = lw /\ ~object_isvalue(o) /\ object_size(o) = difference(up, lw)
        /\ Held(o) = {n}
        /\ object_upper(o) = sum_tally(lw, difference(up, lw))
    BY DEF object_range_create, object_isvalue, object_upper, object_size, Held
  <2>3. Off(o) = lw.num /\ Upto(o) = up.num
    BY <2>0, <2>2 DEF Off, Upto, sum_tally, difference, neg_tally
  <2> DEFINE c == <<o>>
  <2>4. DOMAIN c = {1} /\ c[1] = o
    OBVIOUS
  <2>5. objs' = c
    BY <2>1
  <2> HIDE DEF c
  <2>6. Objs(c) = {o}
    BY <2>4 DEF Objs
  <2>7. IsNumber(lw) /\ IsNumber(up)
    <3>1. IsNumber(o.offset) /\ IsNumber(object_size(o))
      BY <2>4, <2>5 DEF Numeric
    <3> QED BY <2>2, <3>1, NumberSums
  <2> HIDE DEF o
  <2>8. lw.num # up.num
    <3> SUFFICES ASSUME lw.num = up.num PROVE FALSE
      OBVIOUS
    <3>1. /\ lw = [map |-> lw.map, num |-> lw.num] /\ up = [map |-> up.map, num |-> up.num]
          /\ lw.map \in [DOMAIN lw.map -> Int] /\ up.map \in [DOMAIN up.map -> Int]
      BY RangesAssumption DEF IsTally
    <3>2. lw.map = up.map
      BY <2>7, <3>1 DEF IsNumber
    <3>3. lw = up
      BY <3>1, <3>2
    <3> QED BY <1>3, <3>3
  <2>9. lw.num <= up.num
    BY <2>7 DEF BoundsInOrder
  <2>10. 0 <= lw.num /\ up.num <= N
    BY <2>7 DEF CellsCovered
  <2>11. lw.num \in 0 .. N /\ up.num \in 0 .. N /\ lw.num < up.num
    BY <2>0, <2>8, <2>9, <2>10
  <2>12. /\ \A a \in 0 .. n - 1 : Alive(g, a) <=> Alive(freed, a)
         /\ Alive(g, n) /\ IsHeap(g) /\ Len(g) = n + 1
    BY <2>0, AppendAlive, HeapAppend
  <2> HIDE DEF g
  <2>13. Alive(freed, Array) /\ Alive(g, Array)
    <3>1. Alive(freed, Array)
      BY <1>3, Zenon DEF ArrayIsFreed, Alive
    <3>2. Array \in 0 .. n - 1
      BY <2>0 DEF Array
    <3> QED BY <2>12, <3>1, <3>2
  <2>14. DOMAIN objs = {} /\ Objs(objs) = {}
    <3>1. \A p : p = <<>> => DOMAIN p = {}
      OBVIOUS
    <3>2. DOMAIN objs = {}
      BY <1>3, <3>1
    <3> QED BY <3>2 DEF Objs
  <2>15. \A j : CellOf(j) = "absent"
    <3>1. \A j : CellOf(j) = KindAt(At(Objs(objs), j), freed)
      BY <2>13, CellNow, CellKind
    <3>2. \A j : At(Objs(objs), j) = {}
      BY <2>14 DEF At
    <3> QED BY <3>1, <3>2 DEF KindAt
  <2>16. ASSUME NEW j \in 0 .. N - 1
         PROVE  CellOf(j)' = IF j \in lw.num .. up.num - 1 THEN "held" ELSE CellOf(j)
    <3>1. CellOf(j)' = KindAt(At({o}, j), g)
      BY <2>1, <2>5, <2>6, <2>13, CellNext, CellKind
    <3>2. j \in Int /\ (Covers(o, j) <=> j \in lw.num .. up.num - 1)
      BY <2>0, <2>3 DEF Covers
    <3>3. CASE Covers(o, j)
      <4>1. At({o}, j) = {o}
        BY <3>3 DEF At
      <4>2. n \in Held(o)
        BY <2>2
      <4>3. KindAt({o}, g) = "held"
        BY <2>12, <4>2, HeldOne
      <4> QED BY <3>1, <3>2, <3>3, <4>1, <4>3
    <3>4. CASE ~Covers(o, j)
      <4>1. At({o}, j) = {}
        BY <3>4 DEF At
      <4>2. KindAt(At({o}, j), g) = "absent"
        BY <4>1 DEF KindAt
      <4> QED BY <2>15, <3>1, <3>2, <3>4, <4>2
    <3> QED BY <3>3, <3>4
  <2>17. state_hasgarbage' <=> state_hasgarbage
    <3>1. state_hasgarbage <=> Lost(Objs(objs), freed) # {}
      BY <2>0, <2>13, CellNow, GarbageLost
    <3>2. state_hasgarbage' <=> Lost({o}, g) # {}
      BY <2>1, <2>5, <2>6, <2>12, <2>13, CellNext, GarbageLost
    <3>3. \A a : a \in 1 .. n - 1 => a \in 0 .. n - 1 /\ a # n /\ a \in 1 .. n + 1 - 1
      BY <2>0
    <3>4. \A a : a \in 1 .. n + 1 - 1 /\ a # n => a \in 1 .. n - 1
      BY <2>0
    <3>5. \A a : a \in Lost({o}, g) <=> a \in Lost({}, freed)
      BY <2>2, <2>12, <3>3, <3>4 DEF Lost
    <3> HIDE DEF state_hasgarbage
    <3> QED BY <2>14, <3>1, <3>2, <3>5
  <2> HIDE DEF state_hasgarbage
  <2> QED BY <2>1, <2>11, <2>15, <2>16, <2>17, AllocStep
<1> QED BY <1>1, <1>2, <1>3 DEF state_range_alloc

(* Two places of the array never cover one cell. *)
LEMMA CoversOnce ==
    ASSUME Typed, InOrder, Within(objs), NEW k \in Int,
           NEW i \in DOMAIN objs, Covers(objs[i], k), NEW j \in DOMAIN objs, Covers(objs[j], k)
    PROVE  i = j
<1>1. /\ Off(objs[i]) \in Int /\ Upto(objs[i]) \in Int
      /\ Off(objs[j]) \in Int /\ Upto(objs[j]) \in Int /\ i \in Nat /\ j \in Nat
  BY LaidFacts
<1>2. ~(i < j)
  <2> SUFFICES ASSUME i < j PROVE FALSE
    OBVIOUS
  <2>1. Upto(objs[i]) <= Off(objs[j])
    BY LaidFacts
  <2> QED BY <1>1, <2>1 DEF Covers
<1>3. ~(j < i)
  <2> SUFFICES ASSUME j < i PROVE FALSE
    OBVIOUS
  <2>1. Upto(objs[j]) <= Off(objs[i])
    BY LaidFacts
  <2> QED BY <1>1, <2>1 DEF Covers
<1> QED BY <1>1, <1>2, <1>3

(* Objects that follow each other without a gap cover all cells from the   *)
(* first to the last. *)
LEMMA SegmentCovers ==
    ASSUME Typed, InOrder, Within(objs), NEW li \in DOMAIN objs, NEW ui \in DOMAIN objs,
           \A i \in li .. ui - 1 : Upto(objs[i]) = Off(objs[i + 1]),
           NEW k \in Int, Off(objs[li]) <= k, k < Upto(objs[ui]), li <= ui
    PROVE  \E i \in li .. ui : Covers(objs[i], k)
<1> DEFINE T == {i \in li .. ui : k < Upto(objs[i])}
<1>0. li \in Nat /\ ui \in Nat /\ DOMAIN objs = 1 .. Len(objs) /\ Len(objs) \in Nat
  BY LaidFacts
<1>1. T \in SUBSET Nat /\ ui \in T
  BY <1>0
<1> HIDE DEF T
<1>2. PICK i \in T : \A j \in T : i <= j
  BY <1>1, LeastNumber
<1>3. i \in li .. ui /\ k < Upto(objs[i])
  BY <1>2 DEF T
<1>4. CASE i = li
  BY <1>3, <1>4 DEF Covers
<1>5. CASE i # li
  <2>1. i - 1 \in li .. ui - 1 /\ i - 1 \in li .. ui /\ ~(i <= i - 1) /\ i - 1 + 1 = i
        /\ i - 1 \in DOMAIN objs
    BY <1>0, <1>3, <1>5
  <2>2. ~(k < Upto(objs[i - 1]))
    BY <1>2, <2>1 DEF T
  <2>3. Upto(objs[i - 1]) = Off(objs[i]) /\ Upto(objs[i - 1]) \in Int
    BY <2>1, LaidFacts
  <2> QED BY <1>3, <2>2, <2>3 DEF Covers
<1> QED BY <1>4, <1>5

(* Freeing objects that follow each other without a gap. *)
LEMMA FreeSegment ==
    ASSUME Typed, InOrder, Within(objs), ~ArrayIsFreed,
           NEW li \in DOMAIN objs, NEW ui \in DOMAIN objs, li <= ui,
           \A i \in li .. ui : object_isdeallocand(objs[i], freed),
           \A i \in li .. ui - 1 : Upto(objs[i]) = Off(objs[i + 1]),
           NEW m, IsHeap(m), Len(freed) = Len(m),
           \A a \in 0 .. Len(freed) - 1 :
               Alive(m, a) <=> Alive(freed, a) /\ \A i \in li .. ui : a \notin Held(objs[i]),
           NEW c, \A o : o \in Objs(c) <=> \E i \in DOMAIN objs : o = objs[i] /\ ~(i \in li .. ui),
           objs' = c, freed' = m, verdict = "running", UNCHANGED verdict
    PROVE  Array_!Next
<1> DEFINE O  == Objs(objs)
           P  == Objs(c)
           lo == Off(objs[li])
           hi == Upto(objs[ui])
           n  == Len(freed) - 1
<1>0. /\ n \in Nat /\ objs \in Seq(ObjectsOf(n)) /\ IsHeap(freed) /\ Len(freed) \in Nat
      /\ DOMAIN objs = 1 .. Len(objs) /\ Len(objs) \in Nat /\ N \in Nat
      /\ li \in Nat /\ ui \in Nat /\ Array = 0
      /\ \A i \in li .. ui : i \in DOMAIN objs
  BY LaidFacts, RangesAssumption DEF Array
<1>1. \A i \in DOMAIN objs :
          /\ Off(objs[i]) \in Int /\ Upto(objs[i]) \in Int /\ Off(objs[i]) < Upto(objs[i])
          /\ 0 <= Off(objs[i]) /\ Upto(objs[i]) <= N /\ Held(objs[i]) \subseteq 1 .. n
  BY <1>0, LaidFacts, ObjectFacts
<1> HIDE DEF n
<1>2. \A i \in li .. ui : lo <= Off(objs[i]) /\ Upto(objs[i]) <= hi
  <2> TAKE i \in li .. ui
  <2>1. /\ i = li \/ Upto(objs[li]) <= Off(objs[i])
        /\ i = ui \/ Upto(objs[i]) <= Off(objs[ui])
    <3>1. \A x, y \in DOMAIN objs : x < y => Upto(objs[x]) <= Off(objs[y])
      BY LaidFacts
    <3>2. i \in DOMAIN objs /\ (i = li \/ li < i) /\ (i = ui \/ i < ui)
      BY <1>0
    <3> QED BY <3>1, <3>2
  <2>2. /\ Off(objs[i]) \in Int /\ Upto(objs[i]) \in Int
        /\ Off(objs[ui]) \in Int /\ Upto(objs[ui]) \in Int /\ Off(objs[ui]) < Upto(objs[ui])
        /\ Off(objs[li]) \in Int /\ Upto(objs[li]) \in Int /\ Off(objs[li]) < Upto(objs[li])
    BY <1>0, <1>1
  <2> QED BY <2>1, <2>2
<1>3. lo \in 0 .. N /\ hi \in 0 .. N /\ lo < hi
  <2>1. li \in li .. ui /\ li \in DOMAIN objs
    BY <1>0
  <2>2. Upto(objs[li]) <= hi /\ Off(objs[li]) < Upto(objs[li]) /\ 0 <= Off(objs[li])
        /\ Upto(objs[li]) \in Int /\ Off(objs[li]) \in Int
        /\ hi \in Int /\ hi <= N
    BY <1>1, <1>2, <2>1
  <2> QED BY <1>0, <2>2
<1>4. Alive(freed, Array) /\ Alive(m, Array)
  <2>1. Alive(freed, Array)
    BY Zenon DEF ArrayIsFreed, Alive
  <2>2. Array \in 0 .. Len(freed) - 1
    BY <1>0 DEF n
  <2>3. 0 \notin 1 .. n
    OBVIOUS
  <2>4. \A i \in li .. ui : Array \notin Held(objs[i])
    BY <1>0, <1>1, <2>3
  <2> QED BY <2>1, <2>2, <2>4
<1>5. (\A j : CellOf(j) = KindAt(At(O, j), freed)) /\ \A j : CellOf(j)' = KindAt(At(P, j), m)
  BY <1>4, CellNow, CellNext, CellKind
<1>6. /\ state_hasgarbage <=> Lost(O, freed) # {}
      /\ state_hasgarbage' <=> Lost(P, m) # {}
  BY <1>0, <1>4, CellNow, CellNext, GarbageLost
<1> HIDE DEF state_hasgarbage
<1>7. ASSUME NEW j \in lo .. hi - 1
      PROVE  CellOf(j) = "held" /\ At(P, j) = {}
  <2>1. j \in Int /\ lo <= j /\ j < hi
    BY <1>3
  <2>2. PICK i \in li .. ui : Covers(objs[i], j)
    BY <2>1, SegmentCovers
  <2>3. At(O, j) = {objs[i]}
    BY <1>0, <2>1, <2>2, CoversAlone
  <2>4. Held(objs[i]) # {} /\ \A a \in Held(objs[i]) : Alive(freed, a)
    BY DEF object_isdeallocand, Alive
  <2>5. PICK a : a \in Held(objs[i]) /\ Alive(freed, a)
    BY <2>4
  <2>6. CellOf(j) = "held"
    BY <1>5, <2>3, <2>5, HeldOne
  <2>7. ASSUME NEW o \in At(P, j) PROVE FALSE
    <3>1. PICK p \in DOMAIN objs : o = objs[p] /\ ~(p \in li .. ui)
      BY DEF At
    <3>2. Covers(objs[p], j)
      BY <3>1 DEF At
    <3>3. p = i
      BY <1>0, <2>1, <2>2, <3>2, CoversOnce
    <3> QED BY <3>1, <3>3
  <2>8. At(P, j) = {}
    BY <2>7
  <2> QED BY <2>6, <2>8
<1>8. \A o \in P : \E i \in DOMAIN objs : o = objs[i] /\ \A p \in li .. ui : p # i
  BY <1>0
<1>9. \A o \in P : \A a \in Held(o) :
           a \in 0 .. Len(freed) - 1 /\ \A p \in li .. ui : a \notin Held(objs[p])
  <2> TAKE o \in P
  <2>1. PICK i \in DOMAIN objs : o = objs[i] /\ \A p \in li .. ui : p # i
    BY <1>8
  <2>2. \A p \in li .. ui : Held(objs[p]) \cap Held(objs[i]) = {}
    BY <1>0, <2>1 DEF InOrder, Owned
  <2>3. Held(objs[i]) \subseteq 1 .. n
    BY <1>1
  <2> QED BY <1>0, <2>1, <2>2, <2>3 DEF n
<1>10. \A o \in P : \A a \in Held(o) : Alive(m, a) <=> Alive(freed, a)
  BY <1>9
<1>11. ASSUME NEW j \in 0 .. N - 1, ~(j \in lo .. hi - 1)
       PROVE  At(P, j) = At(O, j)
  <2>1. j \in Int /\ ~(lo <= j /\ j < hi)
    BY <1>0, <1>3, <1>11
  <2>2. ASSUME NEW i \in li .. ui, Covers(objs[i], j) PROVE FALSE
    <3>1. /\ lo <= Off(objs[i]) /\ Upto(objs[i]) <= hi /\ lo \in Int /\ hi \in Int
          /\ Off(objs[i]) \in Int /\ Upto(objs[i]) \in Int
      BY <1>0, <1>1, <1>2, <1>3
    <3> QED BY <2>1, <2>2, <3>1 DEF Covers
  <2>3. ASSUME NEW o \in At(O, j) PROVE o \in At(P, j)
    <3>1. PICK i \in DOMAIN objs : o = objs[i]
      BY DEF At, Objs
    <3>2. Covers(objs[i], j)
      BY <3>1 DEF At
    <3>3. ~(i \in li .. ui)
      BY <2>2, <3>2
    <3>4. o \in P
      BY <3>1, <3>3
    <3> HIDE DEF P
    <3> QED BY <3>1, <3>2, <3>4 DEF At
  <2>4. ASSUME NEW o \in At(P, j) PROVE o \in At(O, j)
    <3>1. o \in P /\ Covers(o, j)
      BY DEF At
    <3>2. o \in O
      BY <3>1 DEF Objs
    <3> QED BY <3>1, <3>2 DEF At
  <2> QED BY <2>3, <2>4
<1>12. ASSUME NEW j \in 0 .. N - 1
       PROVE  CellOf(j)' = IF j \in lo .. hi - 1 THEN "absent" ELSE CellOf(j)
  <2>1. CASE j \in lo .. hi - 1
    <3>1. At(P, j) = {}
      BY <1>7, <2>1
    <3>2. KindAt(At(P, j), m) = "absent"
      BY <3>1 DEF KindAt
    <3> QED BY <1>5, <2>1, <3>2
  <2>2. CASE ~(j \in lo .. hi - 1)
    <3>1. \A o \in At(P, j) : \A a \in Held(o) : Alive(m, a) <=> Alive(freed, a)
      BY <1>10 DEF At
    <3>2. KindAt(At(P, j), m) = KindAt(At(P, j), freed)
      BY <3>1, KindSame
    <3>3. At(P, j) = At(O, j)
      BY <1>11, <2>2
    <3> HIDE DEF P, O
    <3> QED BY <1>5, <2>2, <3>2, <3>3
  <2> QED BY <2>1, <2>2
<1>13. state_hasgarbage' <=> state_hasgarbage
  <2>1. ASSUME NEW a PROVE a \in Lost(P, m) <=> a \in Lost(O, freed)
    <3>1. a \in 1 .. Len(freed) - 1 => a \in 0 .. Len(freed) - 1
      BY <1>0
    <3>2. (\A o \in O : a \notin Held(o)) <=>
          (\A o \in P : a \notin Held(o)) /\ \A i \in li .. ui : a \notin Held(objs[i])
      <4>1. (\A o \in O : a \notin Held(o)) <=> \A i \in DOMAIN objs : a \notin Held(objs[i])
        BY DEF Objs
      <4>2. (\A o \in P : a \notin Held(o)) <=>
            \A i \in DOMAIN objs : ~(i \in li .. ui) => a \notin Held(objs[i])
        <5> HIDE DEF P
        <5> QED BY DEF P
      <4> HIDE DEF P, O
      <4> QED BY <1>0, <4>1, <4>2
    <3> HIDE DEF P, O
    <3> QED BY <3>1, <3>2 DEF Lost
  <2>2. Lost(P, m) = Lost(O, freed)
    BY <2>1
  <2> QED BY <1>6, <2>2
<1>14. \A j \in lo .. hi - 1 : CellOf(j) = "held"
  BY <1>7
<1> HIDE DEF lo, hi, P, O
<1> QED BY <1>3, <1>12, <1>13, <1>14, FreeRangeStep

(* A part that is a range, before or behind the bounds, is one of the rests. *)
LEMMA RestRemains ==
    ASSUME NEW p, NEW q, p = <<>> \/ (\E x : p = <<x>>), q = <<>> \/ (\E x : q = <<x>>),
           \/ ~(p = <<>> \/ object_isvalue(p[1]))
           \/ ~(q = <<>> \/ object_isvalue(q[1]))
    PROVE  \E i \in DOMAIN (p \o q) : ~object_isvalue((p \o q)[i])
<1>1. \A x : <<x>>[1] = x /\ DOMAIN <<x>> = {1}
  OBVIOUS
<1>2. PICK x, y : (p = <<>> \/ p = <<x>>) /\ (q = <<>> \/ q = <<y>>)
  OBVIOUS
<1>3. p \in Seq({x, y}) /\ q \in Seq({x, y})
  <2>1. <<>> \in Seq({x, y}) /\ <<x>> \in Seq({x, y}) /\ <<y>> \in Seq({x, y})
    OBVIOUS
  <2> QED BY <1>2, <2>1
<1>4. /\ \A i \in DOMAIN p : i \in DOMAIN (p \o q) /\ (p \o q)[i] = p[i]
      /\ \A i \in DOMAIN q : Len(p) + i \in DOMAIN (p \o q) /\ (p \o q)[Len(p) + i] = q[i]
  BY <1>3, ConcatPlaces
<1>5. CASE ~(p = <<>> \/ object_isvalue(p[1]))
  <2>1. 1 \in DOMAIN p
    BY <1>1, <1>2, <1>5
  <2> QED BY <1>4, <1>5, <2>1
<1>6. CASE ~(q = <<>> \/ object_isvalue(q[1]))
  <2>1. 1 \in DOMAIN q
    BY <1>1, <1>2, <1>6
  <2> QED BY <1>4, <1>6, <2>1
<1> QED BY <1>5, <1>6

LEMMA RemainsRest ==
    ASSUME NEW p, NEW q, p = <<>> \/ (\E x : p = <<x>>), q = <<>> \/ (\E x : q = <<x>>),
           \E i \in DOMAIN (p \o q) : ~object_isvalue((p \o q)[i])
    PROVE  \/ \E x : p = <<x>> /\ ~object_isvalue(x)
           \/ \E x : q = <<x>> /\ ~object_isvalue(x)
<1>1. \A x : <<x>>[1] = x /\ DOMAIN <<x>> = {1}
  OBVIOUS
<1>2. PICK x, y : (p = <<>> \/ p = <<x>>) /\ (q = <<>> \/ q = <<y>>)
  OBVIOUS
<1>3. p \in Seq({x, y}) /\ q \in Seq({x, y})
  <2>1. <<>> \in Seq({x, y}) /\ <<x>> \in Seq({x, y}) /\ <<y>> \in Seq({x, y})
    OBVIOUS
  <2> QED BY <1>2, <2>1
<1>4. PICK i : \/ i \in DOMAIN p /\ ~object_isvalue(p[i])
               \/ i - Len(p) \in DOMAIN q /\ ~object_isvalue(q[i - Len(p)])
  BY <1>3, ConcatPlaces
<1>5. DOMAIN <<>> = {}
  OBVIOUS
<1> QED BY <1>1, <1>2, <1>4, <1>5

LEMMA RangeDeallocCells ==
    ASSUME Typed, InOrder, Within(objs), BoundsInOrder, ~FreesSomePart, rangeprocess_dealloc
    PROVE  Array_!Next \/ UNCHANGED vars
<1>1. PICK b \in Bounds : location_range_dealloc(b[1], b[2])
  BY DEF rangeprocess_dealloc
<1>2. CASE Ends("error") \/ Ends("abort")
  BY <1>2, RefuseStep
<1> DEFINE lw   == b[1]
           up   == b[2]
           li   == object_arr_index(objs, lw)
           ui   == object_arr_index_upperincl(objs, up)
           upto == object_upto(objs[li], lw, Len(freed))
           h1   == Grown(freed, upto)
           from == object_from(objs[ui], up, Len(h1))
           h2   == Grown(h1, from)
           h3   == object_dealloc(objs, li, ui, h2)
           new  == block_range_dealloc(objs, lw, up, freed)
           n    == Len(freed) - 1
           hack == hack_first_object_is_exactly_bounds(objs, lw, up, freed)
<1>3. CASE /\ ~ArrayIsFreed /\ block_range_aredeallocands(objs, lw, up, freed)
           /\ block_range_dealloc_ok(objs, lw, up, freed) /\ Becomes(new)
  <2>0. /\ objs \in Seq(ObjectsOf(n)) /\ n \in Nat /\ n + 1 = Len(freed) /\ Len(freed) \in Nat
        /\ IsHeap(freed) /\ Len(objs) \in Nat /\ DOMAIN objs = 1 .. Len(objs)
        /\ lw \in Tallies /\ up \in Tallies /\ lw.num \in Int /\ up.num \in Int
        /\ IsTally(lw) /\ IsTally(up)
    BY LaidFacts, WrittenIn, TallyFacts, RangesAssumption
  <2> HIDE DEF n
  <2>1. objs' = new.arr /\ freed' = new.freed /\ verdict = "running" /\ UNCHANGED verdict
    BY <1>3 DEF Becomes
  <2>2. CASE hack
    <3> DEFINE g == object_dealloc(objs, 1, 1, freed)
               t == SubSeq(objs, 2, Len(objs))
    <3>1. objs # <<>> /\ object_isdeallocand(objs[1], freed)
      BY <2>2 DEF hack_first_object_is_exactly_bounds
    <3>2. 1 \in DOMAIN objs
      <4>1. Len(objs) # 0
        BY <2>0, <3>1, EmptySeq
      <4> QED BY <2>0, <4>1
    <3>3. new.arr = t /\ new.freed = g
      BY <2>0, <2>2, <3>1, TailIsSubSeq DEF block_range_dealloc
    <3>4. 2 \in Nat /\ 2 >= 1 /\ Len(objs) <= Len(objs)
      BY <2>0
    <3>5. Objs(t) = {objs[i] : i \in 2 .. Len(objs)}
      BY <2>0, <3>4, ObjsPiece
    <3> HIDE DEF t
    <3>6. ASSUME NEW o
          PROVE  o \in Objs(t) <=> \E i \in DOMAIN objs : o = objs[i] /\ ~(i \in 1 .. 1)
      <4>1. \A i : i \in 2 .. Len(objs) <=> i \in DOMAIN objs /\ ~(i \in 1 .. 1)
        BY <2>0
      <4> QED BY <3>5, <4>1
    <3>7. /\ \A a \in 0 .. Len(freed) - 1 :
                Alive(g, a) <=> Alive(freed, a) /\ \A i \in 1 .. 1 : a \notin Held(objs[i])
          /\ Len(g) = Len(freed) /\ IsHeap(g)
      BY <2>0, DeallocAlive
    <3> HIDE DEF g, new
    <3>8. objs' = t /\ freed' = g
      BY <2>1, <3>3
    <3>9. (\A i \in 1 .. 1 : i = 1) /\ (\A i \in 1 .. 1 - 1 : FALSE) /\ 1 <= 1
          /\ Len(freed) = Len(g)
      BY <2>0, <3>7
    <3>10. /\ \A i \in 1 .. 1 : object_isdeallocand(objs[i], freed)
           /\ \A i \in 1 .. 1 - 1 : Upto(objs[i]) = Off(objs[i + 1])
      BY <3>1, <3>9
    <3> QED BY <1>3, <2>1, <3>2, <3>6, <3>7, <3>8, <3>9, <3>10, FreeSegment
  <2>3. CASE ~hack
    <3>1. li \in DOMAIN objs /\ ui \in DOMAIN objs
      BY <1>3, <2>0, <2>3, EndsFound
    <3>2. li <= ui + 1
      <4>1. li # 0 /\ ui # 0
        BY <2>0, <3>1
      <4> QED BY <4>1, EndsInOrder DEF InOrder
    <3>3. object_contains(objs[li], lw) /\ object_contains_upperincl(objs[ui], up)
      <4>1. li # 0 /\ ui # 0
        BY <2>0, <3>1
      <4> QED BY <2>0, <4>1, Found, FoundUpperincl
    <3>4. /\ \A i \in li .. ui - 1 : /\ object_isdeallocand(objs[i], freed)
                                     /\ object_contig_precedes(objs[i], objs[i + 1])
          /\ object_isdeallocand(objs[ui], freed)
      BY <1>3, <2>3 DEF block_range_aredeallocands
    <3>5. verdict' = "running"
      BY <2>1
    <3> DEFINE p == SubSeq(objs, 1, li - 1)
               q == SubSeq(objs, ui + 1, Len(objs))
    <3>6. new.arr = p \o q /\ new.freed = h3
      BY <2>3 DEF block_range_dealloc
    <3> HIDE DEF new, hack, li, ui
    <3>7. objs[li] \in ObjectsOf(n) /\ objs[ui] \in ObjectsOf(n)
      BY <2>0, <3>1
    <3>8. /\ Off(objs[li]) \in Int /\ Upto(objs[li]) \in Int
          /\ Off(objs[ui]) \in Int /\ Upto(objs[ui]) \in Int
          /\ Off(objs[li]) < Upto(objs[li]) /\ Off(objs[ui]) < Upto(objs[ui])
          /\ IsNumber(objs[li].offset) /\ IsNumber(object_upper(objs[ui]))
          /\ IsNumber(objs[ui].offset)
      BY <3>1, LaidFacts
    <3>9. Off(objs[li]) <= lw.num /\ lw.num < Upto(objs[li])
      BY <2>0, <3>3, <3>7, ContainsFacts
    <3>10. Off(objs[ui]) <= up.num /\ up.num <= Upto(objs[ui])
      BY <3>3 DEF object_contains_upperincl, math_le, Off, Upto
    <3>11. CASE li <= ui
      <4>1. (upto = <<>> \/ \E x : upto = <<x>>) /\ (from = <<>> \/ \E x : from = <<x>>)
        <5>1. \A o, e, a : object_upto(o, e, a) = <<>> \/ \E x : object_upto(o, e, a) = <<x>>
          BY DEF object_upto
        <5>2. \A o, e, a : object_from(o, e, a) = <<>> \/ \E x : object_from(o, e, a) = <<x>>
          BY DEF object_from
        <5> QED BY <5>1, <5>2
      <4>2. /\ upto = <<>> \/ object_isvalue(upto[1])
            /\ h1 = freed => from = <<>> \/ object_isvalue(from[1])
        <5> DEFINE q0 == object_from(objs[ui], up, Len(freed))
        <5>1. Remains(objs, lw, up, freed) = upto \o q0
          BY DEF Remains, li, ui
        <5>2. q0 = <<>> \/ \E x : q0 = <<x>>
          BY DEF object_from
        <5>3. h1 = freed => from = q0
          OBVIOUS
        <5>4. \A i \in DOMAIN Remains(objs, lw, up, freed) :
                  object_isvalue(Remains(objs, lw, up, freed)[i])
          BY <1>1, <2>3, <3>5 DEF FreesSomePart, FreesPart, hack
        <5> HIDE DEF upto, from, h1, q0
        <5> QED BY <4>1, <5>1, <5>2, <5>3, <5>4, RestRemains
      <4> HIDE DEF upto
      <4>4. /\ \A a \in 0 .. Len(freed) - 1 : Alive(h1, a) <=> Alive(freed, a)
            /\ IsHeap(h1) /\ Len(h1) \in Nat
            /\ h1 = freed
        BY <2>0, <4>2, GrownAlive
      <4> HIDE DEF h1, from
      <4>5. /\ \A a \in 0 .. Len(h1) - 1 : Alive(h2, a) <=> Alive(h1, a)
            /\ IsHeap(h2) /\ Len(h2) \in Nat
            /\ h2 = h1
        BY <4>2, <4>4, GrownAlive
      <4> HIDE DEF h2
      <4>6. /\ \A a \in 0 .. Len(h2) - 1 :
                  Alive(h3, a) <=> Alive(h2, a) /\ \A i \in li .. ui : a \notin Held(objs[i])
            /\ Len(h3) = Len(h2) /\ IsHeap(h3)
        BY <4>5, DeallocAlive
      <4> HIDE DEF h3
      <4>7. Len(freed) = Len(h1) /\ Len(h1) = Len(h2) /\ Len(h2) = Len(h3)
        BY <4>4, <4>5, <4>6
      <4>9. \A a \in 0 .. Len(freed) - 1 :
                Alive(h3, a) <=> Alive(freed, a) /\ \A i \in li .. ui : a \notin Held(objs[i])
        <5> TAKE a \in 0 .. Len(freed) - 1
        <5>1. a \in 0 .. Len(h1) - 1 /\ a \in 0 .. Len(h2) - 1
          BY <2>0, <4>4, <4>5, <4>7
        <5> QED BY <4>4, <4>5, <4>6, <5>1
      <4>11. \A i \in li .. ui : object_isdeallocand(objs[i], freed)
        <5>1. \A i \in li .. ui : i = ui \/ i \in li .. ui - 1
          BY <2>0, <3>1
        <5> QED BY <3>4, <5>1
      <4>12. \A i \in li .. ui - 1 : Upto(objs[i]) = Off(objs[i + 1])
        <5> TAKE i \in li .. ui - 1
        <5>1. i \in DOMAIN objs /\ i + 1 \in DOMAIN objs
          BY <2>0, <3>1
        <5>2. math_eq(object_upper(objs[i]), objs[i + 1].offset)
          BY <3>4 DEF object_contig_precedes
        <5>3. Upto(objs[i]) <= Off(objs[i + 1]) /\ Off(objs[i + 1]) <= Upto(objs[i])
          BY <5>2 DEF math_eq, math_le, Upto, Off
        <5>4. Upto(objs[i]) \in Int /\ Off(objs[i + 1]) \in Int
          BY <5>1, LaidFacts
        <5> QED BY <5>3, <5>4
      <4>13. /\ li - 1 \in Nat /\ ui + 1 \in Nat /\ li - 1 <= Len(objs) /\ ui + 1 >= 1
             /\ Len(objs) <= Len(objs) /\ 1 \in Nat /\ 1 >= 1
        BY <2>0, <3>1
      <4>14. p \in Seq(ObjectsOf(n)) /\ q \in Seq(ObjectsOf(n))
        BY <2>0, <4>13, PieceIn
      <4>15. /\ Objs(p) = {objs[i] : i \in 1 .. li - 1}
             /\ Objs(q) = {objs[i] : i \in ui + 1 .. Len(objs)}
        <5>1. objs \in Seq(ObjectsOf(n)) /\ Len(objs) \in Nat
          BY <2>0
        <5>2. Objs(p) = {objs[i] : i \in 1 .. li - 1}
          BY ONLY <4>13, <5>1, ObjsPiece
        <5>3. Objs(q) = {objs[i] : i \in ui + 1 .. Len(objs)}
          BY ONLY <4>13, <5>1, ObjsPiece
        <5> QED BY <5>2, <5>3
      <4> HIDE DEF p, q
      <4>16. Objs(p \o q) = Objs(p) \cup Objs(q)
        BY <4>14, ObjsConcat
      <4> DEFINE c == p \o q
      <4>17. ASSUME NEW o
             PROVE  o \in Objs(c) <=> \E i \in DOMAIN objs : o = objs[i] /\ ~(i \in li .. ui)
        <5>1. \A i : i \in DOMAIN objs /\ ~(i \in li .. ui) <=>
                         i \in 1 .. li - 1 \/ i \in ui + 1 .. Len(objs)
          BY <2>0, <3>1, <3>11
        <5>2. o \in Objs(c) <=> \/ \E i \in 1 .. li - 1 : o = objs[i]
                                \/ \E i \in ui + 1 .. Len(objs) : o = objs[i]
          BY <4>15, <4>16
        <5> HIDE DEF c
        <5> QED BY <5>1, <5>2
      <4>18. objs' = c /\ freed' = h3
        BY <2>1, <3>6
      <4> HIDE DEF c
      <4>19. Len(freed) = Len(h3)
        BY <4>7
      <4>20. Array_!Next
        BY <1>3, <2>1, <3>1, <3>11, <4>6, <4>9, <4>11, <4>12, <4>17, <4>18, <4>19,
           FreeSegment
      <4> QED BY <4>20
    <3>12. CASE li = ui + 1
      <4>1. Upto(objs[ui]) <= Off(objs[li])
        BY <2>0, <3>1, <3>12, LaidFacts
      <4>2. IsNumber(lw) /\ IsNumber(up)
        <5>1. math_le(objs[li].offset, lw) /\ math_le(objs[ui].offset, up)
          BY <3>3 DEF object_contains, object_contains_upperincl
        <5> QED BY <2>0, <3>8, <5>1, EqualNumbers
      <4>3. lw.num <= up.num
        BY <4>2 DEF BoundsInOrder
      <4>4. Off(objs[li]) = lw.num /\ up.num = Upto(objs[ui])
        BY <2>0, <3>8, <3>9, <3>10, <4>1, <4>3
      <4>5. \A e1, e2 : IsNumber(e1) /\ IsNumber(e2) => variable_tally_eq(e1.map, e2.map)
        BY DEF IsNumber, variable_tally_eq
      <4>6. upto = <<>>
        <5>1. math_eq(objs[li].offset, lw)
          BY <2>0, <3>8, <4>2, <4>4, <4>5 DEF math_eq, math_le, Off
        <5> QED BY <5>1 DEF object_upto
      <4>7. from = <<>>
        <5>1. math_ge(up, object_upper(objs[ui]))
          BY <2>0, <3>8, <4>2, <4>4, <4>5 DEF math_ge, math_le, Upto
        <5> HIDE DEF h1
        <5> QED BY <5>1 DEF object_from
      <4>8. h1 = freed
        BY <4>6 DEF Grown
      <4> HIDE DEF h1, from
      <4>9. h2 = freed
        BY <4>7, <4>8 DEF Grown
      <4> HIDE DEF h2
      <4>10. h3 = freed
        <5>1. freed \in Seq(BOOLEAN)
          BY <2>0 DEF IsHeap
        <5>2. freed \in [1 .. Len(freed) -> BOOLEAN]
          BY <5>1, LenProperties
        <5>3. li .. ui = {}
          BY <2>0, <3>1, <3>12
        <5>4. h3 = [a \in 1 .. Len(freed) |-> freed[a] \/ a - 1 \in {}]
          BY <4>9, <5>3 DEF object_dealloc
        <5>5. \A a \in 1 .. Len(freed) : (freed[a] \/ a - 1 \in {}) = freed[a]
          BY <5>2
        <5> QED BY <5>2, <5>4, <5>5
      <4>11. p \o q = objs
        <5>1. /\ 1 \in 1 .. Len(objs) + 1 /\ li - 1 \in 1 - 1 .. Len(objs)
              /\ Len(objs) \in li - 1 .. Len(objs) /\ li - 1 + 1 = ui + 1
          BY <2>0, <3>1, <3>12
        <5>2. p \o SubSeq(objs, li - 1 + 1, Len(objs)) = SubSeq(objs, 1, Len(objs))
          BY <2>0, <5>1, ConcatAdjacentSubSeq
        <5>3. SubSeq(objs, 1, Len(objs)) = objs
          BY <2>0, SubSeqFull
        <5> QED BY <5>1, <5>2, <5>3
      <4> HIDE DEF p, q, h3
      <4> QED BY <2>1, <3>6, <4>10, <4>11 DEF vars
    <3>13. li <= ui \/ li = ui + 1
      BY <2>0, <3>1, <3>2
    <3> QED BY <3>11, <3>12, <3>13
  <2> QED BY <2>2, <2>3
<1> QED BY <1>1, <1>2, <1>3 DEF location_range_dealloc

LEMMA CellsStep ==
    ASSUME BoundsInOrder, CellsCovered
    PROVE  Typed /\ Within(objs) /\ [Next]_vars =>
               [InOrder /\ Numeric(objs') => Array_!Next \/ FreesSomePart]_vars
<1> SUFFICES ASSUME Typed, Within(objs), [Next]_vars, InOrder, Numeric(objs'), ~FreesSomePart
             PROVE  Array_!Next \/ UNCHANGED vars
  OBVIOUS
<1>0. IsHeap(freed) /\ Len(freed) \in Nat /\ Len(freed) <= Len(freed)
  BY DEF Typed, Fits, IsHeap
<1>1. CASE assign_number
  <2> DEFINE v == value_int_create(0)
  <2>1. PICK k \in Offsets : expr_assign_eval(k, v, freed)
    BY <1>1 DEF assign_number
  <2>2. v.type = "INT"
    BY DEF value_int_create
  <2> HIDE DEF v
  <2>3. \A a \in Len(freed) .. Len(freed) - 1 : Alive(freed, a)
    BY <1>0
  <2>4. \A a \in 0 .. Len(freed) - 1 : Alive(freed, a) <=> Alive(freed, a)
    OBVIOUS
  <2> QED BY <1>0, <2>1, <2>2, <2>3, <2>4, AssignCells
<1>2. CASE assign_malloc
  <2> DEFINE h == Append(freed, FALSE)
             v == value_ptr_create(Len(freed))
  <2>1. /\ IsHeap(h) /\ Len(h) = Len(freed) + 1
        /\ \A a \in 0 .. Len(freed) - 1 : Alive(h, a) <=> Alive(freed, a)
        /\ Alive(h, Len(freed))
    BY <1>0, HeapAppend, AppendAlive
  <2>2. PICK k \in Offsets : expr_assign_eval(k, v, h)
    BY <1>2 DEF assign_malloc
  <2>3. v.type = "PTR" /\ v.loc = Len(freed)
    BY DEF value_ptr_create
  <2> HIDE DEF h, v
  <2>4. Len(freed) <= Len(h) /\ \A a \in Len(freed) .. Len(h) - 1 : a = Len(freed)
    BY <1>0, <2>1
  <2>5. \A a \in Len(freed) .. Len(h) - 1 : Alive(h, a)
    BY <2>1, <2>4
  <2> QED BY <2>1, <2>2, <2>3, <2>4, <2>5, AssignCells
<1>3. CASE dealloc_process
  BY <1>3, DeallocCells
<1>4. CASE expr_isdeallocand_decide
  BY <1>4, DecideCells
<1>5. CASE free_array
  BY <1>5, FreeArrayCells
<1>6. CASE iter_absexec
  BY <1>6, RangeAllocCells, RangeDeallocCells DEF iter_absexec
<1>7. CASE stmt_iter_verify
  <2>1. Ends("abort")
    BY <1>7 DEF stmt_iter_verify, ast_expr_rangedecide
  <2> QED BY <2>1, RefuseStep
<1>8. CASE path_audit
  BY <1>8, AuditStep
<1>9. CASE UNCHANGED vars
  BY <1>9
<1> QED BY <1>1, <1>2, <1>3, <1>4, <1>5, <1>6, <1>7, <1>8, <1>9 DEF Next

LEMMA InitCells == Init => Within(objs) /\ Array_!Init
<1> SUFFICES ASSUME Init PROVE Within(objs) /\ Array_!Init
  OBVIOUS
<1>1. \A p : p = <<>> => DOMAIN p = {}
  OBVIOUS
<1>2. DOMAIN objs = {} /\ verdict = "running" /\ freed = <<FALSE>>
  BY <1>1 DEF Init
<1>3. Within(objs)
  BY <1>2 DEF Within
<1>4. \A k : CellOf(k) = "absent"
  <2>1. \A k : {i \in DOMAIN objs :
                  objs[i].offset.num <= k /\
                  k < objs[i].offset.num + object_size(objs[i]).num} = {}
    BY <1>2
  <2> QED BY <2>1 DEF CellOf
<1>5. state_hasgarbage = FALSE
  <2>1. Len(freed) = 1
    BY <1>2
  <2>2. \A a \in Live : a = Array
    BY <2>1 DEF Live, Array
  <2> QED BY <2>2 DEF state_hasgarbage, Referenced
<1> HIDE DEF state_hasgarbage
<1>6. Array_!Init
  BY <1>2, <1>4, <1>5 DEF Array_!Init, Array_!Index
<1> QED BY <1>3, <1>6

(* Ranges implements Cells, as long as the statements find the objects in  *)
(* order and no loop frees a part of a range: for all offsets, bounds and  *)
(* array lengths, whatever a statement is accepted with is what it means   *)
(* for the cells a[0] .. a[N-1], and the audit reports what is lost and    *)
(* nothing else.  The bounds of loops are not reversed, and the statements *)
(* name no other cells by a number.                                        *)
THEOREM RangesOtherStepsAsCells ==
    ASSUME BoundsInOrder, CellsCovered
    PROVE  Spec => OtherStepsAsCells
<1>1. Init => Typed /\ Within(objs) /\ Array_!Init
  BY InitTyped, InitCells
<1>2. Typed /\ Within(objs) /\ [Next]_vars => (Typed /\ Within(objs))'
  BY TypedStep, WithinStep DEF StaysWithin
<1>3. Typed /\ Within(objs) /\ [Next]_vars =>
          [InOrder /\ Numeric(objs') => Array_!Next \/ FreesSomePart]_vars
  BY CellsStep
<1> QED BY <1>1, <1>2, <1>3, PTL DEF Spec, OtherStepsAsCells

-----------------------------------------------------------------------------
(* Blocks that are lost *)

(* The blocks that are held by a block's objects, and those from m on. *)
HeldOrNew(b, m) == (UNION {Held(b[i]) : i \in DOMAIN b}) \cup {x \in Nat : m <= x}

(* A block is not found again, if objects are only made with blocks that   *)
(* were held before or are new, and if it is not freed.                    *)
LEMMA LostStays ==
    ASSUME NEW b, NEW h, IsHeap(h), NEW c, NEW g, IsHeap(g), Len(h) <= Len(g),
           HeldIn(c, HeldOrNew(b, Len(h))),
           \A a \in 0 .. Len(h) - 1 :
               Alive(h, a) /\ (\A i \in DOMAIN b : a \notin Held(b[i])) => Alive(g, a)
    PROVE  Lost(Objs(b), h) \subseteq Lost(Objs(c), g)
<1> SUFFICES ASSUME NEW a \in Lost(Objs(b), h) PROVE a \in Lost(Objs(c), g)
  OBVIOUS
<1>1. Len(h) \in Nat /\ Len(g) \in Nat
  BY DEF IsHeap
<1>2. /\ a \in 1 .. Len(h) - 1 /\ Alive(h, a)
      /\ \A i \in DOMAIN b : a \notin Held(b[i])
  BY DEF Lost, Objs
<1>3. a \in 0 .. Len(h) - 1 /\ a \in 1 .. Len(g) - 1 /\ ~(Len(h) <= a)
  BY <1>1, <1>2
<1>4. a \notin HeldOrNew(b, Len(h))
  BY <1>2, <1>3 DEF HeldOrNew
<1>5. \A o \in Objs(c) : a \notin Held(o)
  BY <1>4 DEF HeldIn, Objs
<1>6. Alive(g, a)
  BY <1>2, <1>3
<1> QED BY <1>3, <1>5, <1>6 DEF Lost

LEMMA HeldSelf ==
    ASSUME NEW b, NEW m
    PROVE  HeldIn(b, HeldOrNew(b, m))
BY DEF HeldIn, HeldOrNew

LEMMA SplitLost ==
    ASSUME NEW n \in Nat, NEW b \in Seq(ObjectsOf(n)), NEW e \in Tallies,
           NEW h, IsHeap(h), n < Len(h),
           NEW index \in 1 .. Len(b), ~object_isvalue(b[index]),
           object_upto_ok(b[index], e),
           object_from_ok(b[index], sum_tally(e, constant(1))),
           \A i \in 1 .. index - 1 : ~object_contains(b[i], e)
    PROVE  LET new == Split(b, index, e, h) IN
           /\ HeldIn(new.arr, HeldOrNew(b, Len(h)))
           /\ \A a \in 0 .. Len(h) - 1 :
                 Alive(h, a) /\ (\A i \in DOMAIN b : a \notin Held(b[i])) => Alive(new.freed, a)
           /\ \E p \in 1 .. Len(new.arr) :
                 /\ object_isvalue(new.arr[p]) /\ object_contains(new.arr[p], e)
                 /\ \A i \in 1 .. p - 1 : ~object_contains(new.arr[i], e)
<1> DEFINE upto     == object_upto(b[index], e, Len(h))
           h1       == Grown(h, upto)
           observed == object_value_create(e, value_ptr_create(Len(h1)))
           one      == <<observed>>
           h2       == Append(h1, FALSE)
           after    == object_from(b[index], sum_tally(e, constant(1)), Len(h2))
           h3       == Grown(h2, after)
           h4       == object_dealloc(b, index, index, h3)
           before   == SubSeq(b, 1, index - 1)
           behind   == SubSeq(b, index + 1, Len(b))
           A        == HeldOrNew(b, Len(h))
           S        == ObjectsOf(Len(h2))
<1>0. Len(b) \in Nat /\ Len(h) \in Nat /\ Len(h) >= 1 /\ b[index] \in ObjectsOf(n)
      /\ index \in Nat /\ index \in DOMAIN b /\ DOMAIN b = 1 .. Len(b)
  BY DEF IsHeap
<1>1. IsFresh(upto, Len(h)) /\ \A i \in DOMAIN upto : ~object_contains(upto[i], e)
  BY <1>0, UptoFresh
<1>2. /\ \A a \in 0 .. Len(h) - 1 : Alive(h1, a) <=> Alive(h, a)
      /\ IsHeap(h1) /\ Len(h1) \in Nat /\ Len(h1) >= Len(h)
  BY <1>0, GrownAlive
<1>3. Held(observed) = {Len(h1)} /\ object_isvalue(observed) /\ object_contains(observed, e)
  BY OwnCell DEF Held, object_value_create, object_isvalue, value_ptr_create, value_islocation
<1>4. /\ \A a \in 0 .. Len(h1) - 1 : Alive(h2, a) <=> Alive(h1, a)
      /\ IsHeap(h2) /\ Len(h2) = Len(h1) + 1
  BY <1>2, AppendAlive, HeapAppend
<1>5. sum_tally(e, constant(1)) \in Tallies /\ Len(h2) \in Nat /\ Len(h2) >= 1
  BY <1>0, <1>2, <1>4, SumIn, NumberIn
<1>6. IsFresh(after, Len(h2))
  BY <1>0, <1>5, FromFresh
<1>7. value_ptr_create(Len(h1)) \in Contents(Len(h2))
  <2>1. Len(h1) \in 1 .. Len(h2)
    BY <1>0, <1>2, <1>4
  <2> QED BY <2>1 DEF Contents
<1>8. observed \in S
  BY <1>5, <1>7, ValueMade
<1> HIDE DEF upto, h1, observed, h2, after
<1>9. /\ \A a \in 0 .. Len(h2) - 1 : Alive(h3, a) <=> Alive(h2, a)
      /\ IsHeap(h3) /\ Len(h3) \in Nat /\ (h3 = h2 \/ Len(h3) = Len(h2) + 1)
  BY <1>4, GrownAlive
<1> HIDE DEF h3
<1>10. IsHeap(h3) /\ Len(h3) >= Len(h2) /\ Len(h3) \in Nat
  BY <1>5, <1>9
<1>11. \A a \in 0 .. Len(h3) - 1 :
           Alive(h4, a) <=> Alive(h3, a) /\ \A i \in index .. index : a \notin Held(b[i])
  BY <1>10, DeallocAlive
<1> HIDE DEF h4
<1>12. \A a \in 0 .. Len(h) - 1 :
           Alive(h, a) /\ (\A i \in DOMAIN b : a \notin Held(b[i])) => Alive(h4, a)
  <2> SUFFICES ASSUME NEW a \in 0 .. Len(h) - 1, Alive(h, a), \A i \in DOMAIN b : a \notin Held(b[i])
               PROVE  Alive(h4, a)
    OBVIOUS
  <2>1. a \in 0 .. Len(h1) - 1 /\ a \in 0 .. Len(h2) - 1 /\ a \in 0 .. Len(h3) - 1
    BY <1>0, <1>2, <1>4, <1>5, <1>10
  <2>2. \A i \in index .. index : i \in DOMAIN b
    BY <1>0
  <2> QED BY <1>2, <1>4, <1>9, <1>11, <2>1, <2>2
<1>13. /\ before \in Seq(ObjectsOf(n)) /\ behind \in Seq(ObjectsOf(n))
       /\ DOMAIN before = 1 .. index - 1 /\ \A i \in DOMAIN before : before[i] = b[i]
       /\ \A i \in DOMAIN behind : \E j \in DOMAIN b : behind[i] = b[j]
  <2>1. before \in Seq(ObjectsOf(n)) /\ behind \in Seq(ObjectsOf(n))
    BY <1>0, PieceIn
  <2>2. /\ DOMAIN before = 1 .. (IF 1 <= index - 1 THEN index - 1 - 1 + 1 ELSE 0)
        /\ \A i \in DOMAIN before : before[i] = b[1 + i - 1] /\ 1 + i - 1 \in 1 .. index - 1
    BY <1>0, PieceOf
  <2>3. DOMAIN before = 1 .. index - 1
    BY <1>0, <2>2
  <2>4. \A i \in DOMAIN before : 1 + i - 1 = i
    BY <2>3
  <2>5. \A i \in DOMAIN behind :
            index + 1 + i - 1 \in DOMAIN b /\ behind[i] = b[index + 1 + i - 1]
    BY <1>0, PieceOf
  <2> QED BY <2>1, <2>2, <2>3, <2>4, <2>5
<1> HIDE DEF before, behind
(* What the five parts hold. *)
<1>14. \A i \in DOMAIN b : Held(b[i]) \subseteq A
  BY DEF HeldOrNew
<1>15. HeldIn(before, A) /\ HeldIn(behind, A)
  <2>1. \A i \in DOMAIN before : i \in DOMAIN b
    BY <1>0, <1>13
  <2> HIDE DEF A
  <2> QED BY <1>13, <1>14, <2>1 DEF HeldIn
<1>16. HeldIn(upto, A) /\ HeldIn(after, A)
  <2>1. HeldIn(upto, {Len(h)}) /\ HeldIn(after, {Len(h2)})
    BY <1>0, <1>1, <1>5, <1>6, FreshFacts
  <2>2. {Len(h)} \subseteq A /\ {Len(h2)} \subseteq A
    BY <1>0, <1>2, <1>4, <1>5 DEF HeldOrNew
  <2> HIDE DEF A
  <2> QED BY <2>1, <2>2 DEF HeldIn
<1>17. HeldIn(one, A) /\ DOMAIN one = {1} /\ one[1] = observed
  <2>1. DOMAIN one = {1} /\ one[1] = observed
    OBVIOUS
  <2>2. Len(h1) \in A
    BY <1>2 DEF HeldOrNew
  <2> HIDE DEF A, one
  <2> QED BY <1>3, <2>1, <2>2 DEF HeldIn
<1>18. /\ before \in Seq(S) /\ upto \in Seq(S) /\ one \in Seq(S) /\ after \in Seq(S)
       /\ behind \in Seq(S)
  <2>1. n \in Nat /\ n <= Len(h2) /\ Len(h) <= Len(h2)
    BY <1>0, <1>2, <1>4, <1>5
  <2>2. ObjectsOf(n) \subseteq S
    BY <1>5, <2>1, ObjectsGrow
  <2>3. upto \in Seq(S) /\ after \in Seq(S)
    BY <1>0, <1>1, <1>5, <1>6, <2>1, FreshIn
  <2> HIDE DEF S
  <2>4. one \in Seq(S)
    BY <1>8
  <2> QED BY <1>13, <2>2, <2>3, <2>4, SeqMonotonic
<1> HIDE DEF S, A
<1> DEFINE c2 == before \o upto
           c3 == c2 \o one
           c4 == c3 \o after
           c5 == c4 \o behind
<1>19. c2 \in Seq(S) /\ HeldIn(c2, A)
  BY <1>15, <1>16, <1>18, HeldInConcat, ConcatProperties
<1>20. \A i \in 1 .. Len(c2) : ~object_contains(c2[i], e)
  <2>1. \A i \in DOMAIN c2 : \/ i \in DOMAIN before /\ c2[i] = before[i]
                             \/ i - Len(before) \in DOMAIN upto /\ c2[i] = upto[i - Len(before)]
    BY <1>18, ConcatPlaces
  <2>2. DOMAIN c2 = 1 .. Len(c2)
    BY <1>19
  <2> HIDE DEF c2
  <2> QED BY <1>1, <1>13, <2>1, <2>2
<1> HIDE DEF c2, one
<1>21. c3 \in Seq(S) /\ HeldIn(c3, A)
  BY <1>17, <1>18, <1>19, HeldInConcat, ConcatProperties
<1>22. /\ Len(c2) \in Nat /\ Len(c2) + 1 \in DOMAIN c3 /\ c3[Len(c2) + 1] = observed
       /\ \A i \in 1 .. Len(c2) : i \in DOMAIN c3 /\ c3[i] = c2[i]
  <2>1. DOMAIN c2 = 1 .. Len(c2) /\ Len(c2) \in Nat
    BY <1>19
  <2>2. DOMAIN one = {1} /\ one[1] = observed
    BY <1>17
  <2>3. /\ \A i \in DOMAIN c2 : i \in DOMAIN c3 /\ c3[i] = c2[i]
        /\ \A i \in DOMAIN one : Len(c2) + i \in DOMAIN c3 /\ c3[Len(c2) + i] = one[i]
    <3>1. c2 \in Seq(S) /\ one \in Seq(S)
      BY <1>18, <1>19
    <3> QED BY <3>1, ConcatPlaces
  <2> HIDE DEF c3
  <2>4. 1 \in DOMAIN one
    BY <2>2
  <2> QED BY <2>1, <2>2, <2>3, <2>4
<1> HIDE DEF c3
<1>23. c4 \in Seq(S) /\ HeldIn(c4, A) /\ \A i \in DOMAIN c3 : i \in DOMAIN c4 /\ c4[i] = c3[i]
  BY <1>16, <1>18, <1>21, HeldInConcat, ConcatProperties, ConcatPlaces
<1> HIDE DEF c4
<1>24. /\ c5 \in Seq(S) /\ HeldIn(c5, A) /\ \A i \in DOMAIN c4 : i \in DOMAIN c5 /\ c5[i] = c4[i]
  BY <1>15, <1>18, <1>23, HeldInConcat, ConcatProperties, ConcatPlaces
<1> HIDE DEF c5
<1>25. \E p \in 1 .. Len(c5) :
           /\ object_isvalue(c5[p]) /\ object_contains(c5[p], e)
           /\ \A i \in 1 .. p - 1 : ~object_contains(c5[i], e)
  <2>1. DOMAIN c5 = 1 .. Len(c5)
    BY <1>24
  <2>2. Len(c2) + 1 \in 1 .. Len(c5) /\ c5[Len(c2) + 1] = observed
    BY <1>22, <1>23, <1>24, <2>1
  <2>3. \A i \in 1 .. Len(c2) + 1 - 1 : i \in 1 .. Len(c2)
    BY <1>22
  <2>4. \A i \in 1 .. Len(c2) + 1 - 1 : ~object_contains(c5[i], e)
    BY <1>20, <1>22, <1>23, <1>24, <2>3
  <2> QED BY <1>3, <2>2, <2>4
<1>26. Split(b, index, e, h) = [arr |-> c5, freed |-> h4]
  BY DEF Split, c5, c4, c3, c2, one, upto, h1, observed, h2, after, h3, h4, before, behind
<1> QED BY <1>12, <1>24, <1>25, <1>26 DEF A

(* Looking at a cell loses no block that was not, and finds none again;    *)
(* what the cell is then looked up as is a value. *)
LEMMA ObserveLost ==
    ASSUME NEW n \in Nat, NEW b \in Seq(ObjectsOf(n)), NEW e \in Tallies,
           NEW h, IsHeap(h), n < Len(h), block_observe_ok(b, e, h)
    PROVE  LET new == block_observe(b, e, h)
               p   == object_arr_index(new.arr, e) IN
           /\ Fits(new.arr, new.freed) /\ Len(h) <= Len(new.freed)
           /\ Lost(Objs(b), h) \subseteq Lost(Objs(new.arr), new.freed)
           /\ p \in DOMAIN new.arr /\ object_isvalue(new.arr[p])
<1> DEFINE index == object_arr_index(b, e)
           new   == block_observe(b, e, h)
<1>0. Len(b) \in Nat /\ DOMAIN b = 1 .. Len(b)
  OBVIOUS
<1>1. /\ index = 0 => \A i \in 1 .. Len(b) : ~object_contains(b[i], e)
      /\ index # 0 => /\ index \in 1 .. Len(b) /\ object_contains(b[index], e)
                      /\ \A i \in 1 .. index - 1 : ~object_contains(b[i], e)
  BY Found
<1>2. Fits(new.arr, new.freed) /\ Len(h) <= Len(new.freed)
  BY ObserveFits
<1>3. /\ HeldIn(new.arr, HeldOrNew(b, Len(h)))
      /\ \A a \in 0 .. Len(h) - 1 :
            Alive(h, a) /\ (\A i \in DOMAIN b : a \notin Held(b[i])) => Alive(new.freed, a)
      /\ \E p \in 1 .. Len(new.arr) :
            /\ object_isvalue(new.arr[p]) /\ object_contains(new.arr[p], e)
            /\ \A i \in 1 .. p - 1 : ~object_contains(new.arr[i], e)
  <2>1. CASE index = 0
    <3> DEFINE o == object_value_create(e, NoValue)
               a == Append(b, o)
               A == HeldOrNew(b, Len(h))
    <3>1. new = [arr |-> a, freed |-> h]
      BY <2>1 DEF block_observe, index
    <3>2. Held(o) = {} /\ object_isvalue(o) /\ object_contains(o, e)
      BY OwnCell DEF Held, object_value_create, object_isvalue, value_islocation, NoValue
    <3>3. o \in ObjectsOf(n)
      <4>1. NoValue \in Contents(n)
        BY DEF Contents
      <4> QED BY <4>1, ValueMade
    <3> HIDE DEF o, new
    <3>4. /\ Len(a) = Len(b) + 1 /\ a[Len(b) + 1] = o /\ a \in Seq(ObjectsOf(n))
          /\ \A i \in 1 .. Len(b) : a[i] = b[i]
      BY <3>3, AppendProperties
    <3>5. DOMAIN a = 1 .. Len(b) + 1
      BY <3>4, LenProperties
    <3> HIDE DEF a
    <3>6. HeldIn(a, A)
      <4>1. \A i \in DOMAIN a : i \in DOMAIN b \/ i = Len(b) + 1
        BY <1>0, <3>5
      <4>2. HeldIn(b, A)
        BY HeldSelf
      <4> HIDE DEF A
      <4> QED BY <1>0, <3>2, <3>4, <4>1, <4>2 DEF HeldIn
    <3>7. Len(b) + 1 \in 1 .. Len(a) /\ \A i \in 1 .. Len(b) + 1 - 1 : ~object_contains(a[i], e)
      BY <1>0, <1>1, <2>1, <3>4
    <3> QED BY <3>1, <3>2, <3>4, <3>6, <3>7
  <2>2. CASE index # 0 /\ object_isvalue(b[index])
    <3>1. new = [arr |-> b, freed |-> h]
      BY <2>2 DEF block_observe, index
    <3> HIDE DEF new, index
    <3> QED BY <1>1, <2>2, <3>1, HeldSelf
  <2>3. CASE index # 0 /\ ~object_isvalue(b[index])
    <3>1. new = Split(b, index, e, h)
      BY <2>3 DEF block_observe, index
    <3>2. object_upto_ok(b[index], e) /\ object_from_ok(b[index], sum_tally(e, constant(1)))
      BY <2>3 DEF block_observe_ok, index
    <3> HIDE DEF new, index
    <3> QED BY <1>1, <2>3, <3>1, <3>2, SplitLost
  <2> QED BY <2>1, <2>2, <2>3
<1> HIDE DEF new
<1>4. Lost(Objs(b), h) \subseteq Lost(Objs(new.arr), new.freed)
  BY <1>2, <1>3, LostStays DEF Fits
<1>5. object_arr_index(new.arr, e) \in DOMAIN new.arr
      /\ object_isvalue(new.arr[object_arr_index(new.arr, e)])
  <2>1. new.arr \in Seq(ObjectsOf(Len(new.freed) - 1))
    BY <1>2 DEF Fits
  <2>2. PICK p \in 1 .. Len(new.arr) :
            /\ object_isvalue(new.arr[p]) /\ object_contains(new.arr[p], e)
            /\ \A i \in 1 .. p - 1 : ~object_contains(new.arr[i], e)
    BY <1>3
  <2>3. object_arr_index(new.arr, e) = p
    BY <2>1, <2>2, FirstFound
  <2> QED BY <2>1, <2>2, <2>3
<1> QED BY <1>2, <1>4, <1>5 DEF new

(* Garbage stays garbage where a step loses no block and finds none again. *)
LEMMA GarbageKept ==
    ASSUME Typed, ~ArrayIsFreed, IsHeap(freed'),
           Lost(Objs(objs), freed) \subseteq Lost(Objs(objs'), freed'), state_hasgarbage
    PROVE  state_hasgarbage'
<1>1. IsHeap(freed) /\ Alive(freed, Array)
  BY Zenon DEF Typed, Fits, ArrayIsFreed, Alive
<1>2. PICK a : a \in Lost(Objs(objs), freed)
  BY <1>1, CellNow, GarbageLost
<1>3. a \in Lost(Objs(objs'), freed')
  BY <1>2
<1>4. Len(freed') \in Nat /\ Array = 0
  BY DEF IsHeap, Array
<1>5. /\ a \in 0 .. Len(freed') - 1 /\ ~freed'[a + 1] /\ a # Array
      /\ a \notin UNION {Held(objs'[i]) : i \in DOMAIN objs'}
  BY <1>3, <1>4 DEF Lost, Objs, Alive
<1>6. GarbageIn(objs', freed')
  BY <1>5 DEF GarbageIn
<1> QED BY <1>6, CellNext

LEMMA EndsKept ==
    ASSUME NEW v, Ends(v), state_hasgarbage
    PROVE  state_hasgarbage'
BY CellNow, CellNext DEF Ends

LEMMA AssignKept ==
    ASSUME Typed, NEW k \in Tallies, NEW v, NEW h, IsHeap(h), Len(freed) <= Len(h),
           \A a \in 0 .. Len(freed) - 1 : Alive(h, a) <=> Alive(freed, a),
           v.type = "PTR" => v.loc \in Nat /\ Len(freed) <= v.loc,
           expr_assign_eval(k, v, h), state_hasgarbage
    PROVE  state_hasgarbage'
<1>1. CASE Ends("error") \/ Ends("abort")
  BY <1>1, EndsKept
<1> DEFINE new == state_deref(k, h)
           index == object_arr_index(new.arr, k)
           arr == object_assign(new.arr, index, v)
           n == Len(freed) - 1
<1>2. CASE ~ArrayIsFreed /\ block_observe_ok(objs, k, h) /\ Becomes([new EXCEPT !.arr = arr])
  <2>1. objs \in Seq(ObjectsOf(n)) /\ n \in Nat /\ n < Len(h) /\ Len(h) \in Nat /\ Len(freed) \in Nat
    BY DEF Typed, Fits, IsHeap
  <2>2. /\ Fits(new.arr, new.freed) /\ Len(h) <= Len(new.freed)
        /\ Lost(Objs(objs), h) \subseteq Lost(Objs(new.arr), new.freed)
    BY <1>2, <2>1, ObserveLost DEF state_deref
  <2>3. new = [arr |-> new.arr, freed |-> new.freed]
    BY DEF state_deref, block_observe, Split
  <2> HIDE DEF new, index, n
  <2>4. objs' = arr /\ freed' = new.freed
    BY <1>2, <2>3 DEF Becomes
  <2>5. Lost(Objs(objs), freed) \subseteq Lost(Objs(objs), h)
    <3>1. \A a \in 1 .. Len(freed) - 1 :
              a \in 0 .. Len(freed) - 1 /\ a \in 1 .. Len(h) - 1
      BY <2>1
    <3> QED BY <3>1 DEF Lost
  <2>6. ASSUME NEW o \in Objs(arr), NEW a \in Held(o)
        PROVE  (\E q \in Objs(new.arr) : a \in Held(q)) \/ (v.type = "PTR" /\ a = v.loc)
    <3>1. PICK i \in DOMAIN new.arr :
              o = IF new.arr[i] = new.arr[index] THEN [new.arr[i] EXCEPT !.value = v]
                  ELSE new.arr[i]
      BY DEF Objs, object_assign
    <3>2. new.arr[i] \in ObjectsOf(Len(new.freed) - 1)
      BY <2>2, <3>1 DEF Fits
    <3>3. CASE o = new.arr[i]
      BY <3>3 DEF Objs
    <3>4. CASE o = [new.arr[i] EXCEPT !.value = v]
      <4>1. CASE new.arr[i] \in Values(Len(new.freed) - 1)
        <5>1. o.type = "VALUE" /\ o.value = v
          BY <3>4, <4>1 DEF Values
        <5> QED BY <2>6, <5>1 DEF Held, object_isvalue, value_islocation
      <4>2. CASE new.arr[i] \in RangesOf(Len(new.freed) - 1)
        <5>1. o = new.arr[i]
          BY <3>4, <4>2 DEF RangesOf
        <5> QED BY <5>1 DEF Objs
      <4> QED BY <3>2, <4>1, <4>2 DEF ObjectsOf
    <3> QED BY <3>1, <3>3, <3>4
  <2> HIDE DEF arr
  <2>7. ASSUME NEW a \in Lost(Objs(objs), freed)
        PROVE  a \in Lost(Objs(arr), new.freed)
    <3>1. a \in Lost(Objs(new.arr), new.freed)
      BY <2>2, <2>5
    <3>2. ~(Len(freed) <= a)
      BY <2>1 DEF Lost
    <3> QED BY <2>6, <3>1, <3>2 DEF Lost
  <2> QED BY <1>2, <2>2, <2>4, <2>7, GarbageKept DEF Fits
<1> QED BY <1>1, <1>2 DEF expr_assign_eval

LEMMA DeallocKept ==
    ASSUME Typed, dealloc_process, state_hasgarbage
    PROVE  state_hasgarbage'
<1>1. PICK k \in Offsets :
        IF ArrayIsFreed THEN Ends("error")
        ELSE IF ~block_observe_ok(objs, k, freed) THEN Ends("abort")
        ELSE LET new == state_deref(k, freed)
                 v   == ValueAt(new.arr, k) IN
             IF state_dealloc_ok(v, new.freed)
             THEN Becomes([new EXCEPT !.freed[v.loc + 1] = TRUE])
             ELSE Ends("error")
  BY DEF dealloc_process
<1>2. CASE Ends("error") \/ Ends("abort")
  BY <1>2, EndsKept
<1> DEFINE new == state_deref(k, freed)
           p == object_arr_index(new.arr, k)
           v == ValueAt(new.arr, k)
           g == [new.freed EXCEPT ![v.loc + 1] = TRUE]
           n == Len(freed) - 1
<1>3. CASE /\ ~ArrayIsFreed /\ block_observe_ok(objs, k, freed)
           /\ state_dealloc_ok(v, new.freed) /\ Becomes([new EXCEPT !.freed = g])
  <2>1. objs \in Seq(ObjectsOf(n)) /\ n \in Nat /\ n < Len(freed) /\ IsHeap(freed) /\ k \in Tallies
    BY WrittenIn DEF Typed, Fits, IsHeap
  <2>2. /\ Fits(new.arr, new.freed) /\ Len(freed) <= Len(new.freed)
        /\ Lost(Objs(objs), freed) \subseteq Lost(Objs(new.arr), new.freed)
        /\ p \in DOMAIN new.arr /\ object_isvalue(new.arr[p])
    BY <1>3, <2>1, ObserveLost DEF state_deref
  <2>3. new = [arr |-> new.arr, freed |-> new.freed]
    BY DEF state_deref, block_observe, Split
  <2>4. v = new.arr[p].value /\ value_islocation(v)
    BY <1>3 DEF ValueAt, state_dealloc_ok
  <2> HIDE DEF new, p, v
  <2>5. v.loc \in Held(new.arr[p])
    BY <2>2, <2>4 DEF Held
  <2>6. v.loc \in Nat /\ Len(new.freed) \in Nat
    <3>1. new.arr[p] \in ObjectsOf(Len(new.freed) - 1) /\ Len(new.freed) - 1 \in Nat
      BY <2>2 DEF Fits, IsHeap
    <3>2. Held(new.arr[p]) \subseteq 1 .. Len(new.freed) - 1
      BY <3>1, ObjectFacts
    <3> QED BY <2>5, <3>1, <3>2
  <2>7. objs' = new.arr /\ freed' = g
    BY <1>3, <2>3 DEF Becomes
  <2>8. IsHeap(g) /\ Len(g) = Len(new.freed)
    BY <2>2, HeapMark DEF Fits
  <2>9. \A x : x # v.loc + 1 => g[x] = new.freed[x]
    <3>1. new.freed \in Seq(BOOLEAN)
      BY <2>2 DEF Fits, IsHeap
    <3> QED BY <3>1
  <2> HIDE DEF g
  <2>10. ASSUME NEW a \in Lost(Objs(new.arr), new.freed) PROVE a \in Lost(Objs(new.arr), g)
    <3>1. a # v.loc
      BY <2>2, <2>5 DEF Lost, Objs
    <3>2. a + 1 # v.loc + 1
      BY <2>6, <3>1 DEF Lost
    <3>3. g[a + 1] = new.freed[a + 1]
      BY <2>9, <3>2
    <3>4. Alive(g, a)
      BY <3>3, Zenon DEF Lost, Alive
    <3> QED BY <2>8, <3>4 DEF Lost
  <2> QED BY <1>3, <2>2, <2>7, <2>8, <2>10, GarbageKept
<1> QED BY <1>1, <1>2, <1>3

LEMMA DecideKept ==
    ASSUME Typed, expr_isdeallocand_decide, state_hasgarbage
    PROVE  state_hasgarbage'
<1>1. PICK k \in Offsets :
        \/ Ends("error") \/ Ends("abort")
        \/ ~ArrayIsFreed /\ block_observe_ok(objs, k, freed) /\ Becomes(state_deref(k, freed))
  BY DEF expr_isdeallocand_decide
<1>2. CASE Ends("error") \/ Ends("abort")
  BY <1>2, EndsKept
<1> DEFINE new == state_deref(k, freed)
           n == Len(freed) - 1
<1>3. CASE ~ArrayIsFreed /\ block_observe_ok(objs, k, freed) /\ Becomes(new)
  <2>1. objs \in Seq(ObjectsOf(n)) /\ n \in Nat /\ n < Len(freed) /\ IsHeap(freed) /\ k \in Tallies
    BY WrittenIn DEF Typed, Fits, IsHeap
  <2>2. /\ Fits(new.arr, new.freed)
        /\ Lost(Objs(objs), freed) \subseteq Lost(Objs(new.arr), new.freed)
    BY <1>3, <2>1, ObserveLost DEF state_deref
  <2> HIDE DEF new
  <2> QED BY <1>3, <2>2, GarbageKept DEF Becomes, Fits
<1> QED BY <1>1, <1>2, <1>3

LEMMA FreeArrayKept ==
    ASSUME Typed, free_array, state_hasgarbage
    PROVE  state_hasgarbage'
<1> DEFINE g == [freed EXCEPT ![Array + 1] = TRUE]
<1>1. CASE Ends("error")
  BY <1>1, EndsKept
<1>2. CASE ~ArrayIsFreed /\ Becomes([arr |-> objs, freed |-> g])
  <2>1. IsHeap(freed) /\ freed \in Seq(BOOLEAN) /\ Array = 0
    BY DEF Typed, Fits, IsHeap, Array
  <2>2. IsHeap(g) /\ Len(g) = Len(freed)
    BY <2>1, HeapMark
  <2>3. \A x : x # Array + 1 => g[x] = freed[x]
    BY <2>1
  <2> HIDE DEF g
  <2>4. objs' = objs /\ freed' = g
    BY <1>2 DEF Becomes
  <2>5. ASSUME NEW a \in Lost(Objs(objs), freed) PROVE a \in Lost(Objs(objs), g)
    <3>1. a + 1 # Array + 1
      BY <2>1 DEF Lost
    <3>2. g[a + 1] = freed[a + 1]
      BY <2>3, <3>1
    <3>3. Alive(g, a)
      BY <3>2, Zenon DEF Lost, Alive
    <3> QED BY <2>2, <3>3 DEF Lost
  <2> QED BY <1>2, <2>2, <2>4, <2>5, GarbageKept
<1> QED BY <1>1, <1>2 DEF free_array

LEMMA RangeAllocKept ==
    ASSUME Typed, rangeprocess_alloc, state_hasgarbage
    PROVE  state_hasgarbage'
<1>1. PICK b \in Bounds : state_range_alloc(b[1], b[2])
  BY DEF rangeprocess_alloc
<1>2. CASE Ends("error") \/ Ends("abort")
  BY <1>2, EndsKept
<1> DEFINE g == Append(freed, FALSE)
           o == object_range_create(b[1], difference(b[2], b[1]), Len(freed))
           c == <<o>>
<1>3. CASE ~ArrayIsFreed /\ Becomes([arr |-> c, freed |-> g])
  <2>1. IsHeap(freed) /\ Len(freed) \in Nat
    BY DEF Typed, Fits, IsHeap
  <2>2. /\ IsHeap(g) /\ Len(g) = Len(freed) + 1
        /\ \A a \in 0 .. Len(freed) - 1 : Alive(g, a) <=> Alive(freed, a)
    BY <2>1, HeapAppend, AppendAlive
  <2>3. Held(o) = {Len(freed)}
    BY DEF Held, object_range_create, object_isvalue
  <2> HIDE DEF g, o
  <2>4. DOMAIN c = {1} /\ c[1] = o
    OBVIOUS
  <2> HIDE DEF c
  <2>5. HeldIn(c, HeldOrNew(objs, Len(freed)))
    BY <2>1, <2>3, <2>4 DEF HeldIn, HeldOrNew
  <2>6. Len(freed) <= Len(g)
    BY <2>1, <2>2
  <2>7. Lost(Objs(objs), freed) \subseteq Lost(Objs(c), g)
    BY <2>1, <2>2, <2>5, <2>6, LostStays
  <2> QED BY <1>3, <2>2, <2>7, GarbageKept DEF Becomes
<1> QED BY <1>1, <1>2, <1>3 DEF state_range_alloc, block_range_alloc

(* What is left of the objects by a loop that frees, and of the heap: the  *)
(* block of a part of a range is live, and no object holds it.             *)
LEMMA RangeDeallocLost ==
    ASSUME Typed, ~ArrayIsFreed, NEW lw \in Tallies, NEW up \in Tallies,
           block_range_aredeallocands(objs, lw, up, freed)
    PROVE  LET new == block_range_dealloc(objs, lw, up, freed) IN
           /\ IsHeap(new.freed)
           /\ Lost(Objs(objs), freed) \subseteq Lost(Objs(new.arr), new.freed)
           /\ /\ ~hack_first_object_is_exactly_bounds(objs, lw, up, freed)
              /\ \E i \in DOMAIN Remains(objs, lw, up, freed) :
                     ~object_isvalue(Remains(objs, lw, up, freed)[i])
              => Len(freed) \in Lost(Objs(new.arr), new.freed)
<1> DEFINE n  == Len(freed) - 1
           li == object_arr_index(objs, lw)
           ui == object_arr_index_upperincl(objs, up)
           upto == object_upto(objs[li], lw, Len(freed))
           h1   == Grown(freed, upto)
           from == object_from(objs[ui], up, Len(h1))
           h2   == Grown(h1, from)
           h3   == object_dealloc(objs, li, ui, h2)
           p    == SubSeq(objs, 1, li - 1)
           q    == SubSeq(objs, ui + 1, Len(objs))
           new  == block_range_dealloc(objs, lw, up, freed)
           A    == HeldOrNew(objs, Len(freed))
<1>0. /\ IsHeap(freed) /\ objs \in Seq(ObjectsOf(n)) /\ n \in Nat /\ n < Len(freed)
      /\ Len(freed) \in Nat /\ Len(objs) \in Nat /\ DOMAIN objs = 1 .. Len(objs)
      /\ n + 1 = Len(freed)
  BY DEF Typed, Fits, IsHeap
<1>1. \A i \in DOMAIN objs : Held(objs[i]) \subseteq A
  BY DEF HeldOrNew
<1>2. \A i \in DOMAIN objs : Held(objs[i]) \subseteq 1 .. n
  BY <1>0, ObjectFacts
<1> HIDE DEF n, A
<1>3. CASE hack_first_object_is_exactly_bounds(objs, lw, up, freed)
  <2> DEFINE t == SubSeq(objs, 2, Len(objs))
             g == object_dealloc(objs, 1, 1, freed)
  <2>1. objs # <<>>
    BY <1>3 DEF hack_first_object_is_exactly_bounds
  <2>2. new.arr = t /\ new.freed = g
    BY <1>0, <1>3, <2>1, TailIsSubSeq DEF block_range_dealloc
  <2>3. \A i \in DOMAIN t : \E j \in DOMAIN objs : t[i] = objs[j]
    <3>1. /\ objs \in Seq(ObjectsOf(n)) /\ Len(objs) \in Nat /\ Len(objs) <= Len(objs)
          /\ 2 \in Nat /\ 2 >= 1
      BY <1>0
    <3>2. \A i \in DOMAIN t : 2 + i - 1 \in DOMAIN objs /\ t[i] = objs[2 + i - 1]
      BY <3>1, PieceOf
    <3> QED BY <3>2
  <2> HIDE DEF t
  <2>4. HeldIn(t, A)
    BY <1>1, <2>3 DEF HeldIn
  <2>5. 1 \in DOMAIN objs
    <3>1. Len(objs) # 0
      BY <1>0, <2>1, EmptySeq
    <3> QED BY <1>0, <3>1
  <2>6. /\ IsHeap(g) /\ Len(g) = Len(freed)
        /\ \A a \in 0 .. Len(freed) - 1 :
              Alive(g, a) <=> Alive(freed, a) /\ \A i \in 1 .. 1 : a \notin Held(objs[i])
    BY <1>0, DeallocAlive
  <2> HIDE DEF g, new
  <2>7. /\ \A a \in 0 .. Len(freed) - 1 :
              Alive(freed, a) /\ (\A i \in DOMAIN objs : a \notin Held(objs[i])) => Alive(g, a)
        /\ Len(freed) <= Len(g)
    BY <1>0, <2>5, <2>6
  <2>8. Lost(Objs(objs), freed) \subseteq Lost(Objs(t), g)
    BY <1>0, <2>4, <2>6, <2>7, LostStays DEF A
  <2> QED BY <1>3, <2>2, <2>6, <2>8 DEF new
<1>4. CASE ~hack_first_object_is_exactly_bounds(objs, lw, up, freed)
  <2>1. li \in DOMAIN objs /\ ui \in DOMAIN objs
    BY <1>0, <1>4, EndsFound
  <2>2. new.arr = p \o q /\ new.freed = h3
    BY <1>4 DEF block_range_dealloc
  <2> DEFINE q0 == object_from(objs[ui], up, Len(freed))
  <2>3. Remains(objs, lw, up, freed) = upto \o q0
    BY DEF Remains
  <2>4. /\ upto = <<>> \/ \E x : upto = <<x>>
        /\ from = <<>> \/ \E x : from = <<x>>
        /\ q0 = <<>> \/ \E x : q0 = <<x>>
    <3>1. \A o, e, a : object_upto(o, e, a) = <<>> \/ \E x : object_upto(o, e, a) = <<x>>
      BY DEF object_upto
    <3>2. \A o, e, a : object_from(o, e, a) = <<>> \/ \E x : object_from(o, e, a) = <<x>>
      BY DEF object_from
    <3> QED BY <3>1, <3>2
  <2>5. h1 = freed => from = q0
    OBVIOUS
  <2> HIDE DEF li, ui, upto, new
  <2>6. /\ \A a \in 0 .. Len(freed) - 1 : Alive(h1, a) <=> Alive(freed, a)
        /\ IsHeap(h1) /\ Len(h1) \in Nat
        /\ h1 = freed \/ (Len(h1) = Len(freed) + 1 /\ Alive(h1, Len(freed)))
        /\ (\E x : upto = <<x>> /\ ~object_isvalue(x)) =>
               Len(h1) = Len(freed) + 1 /\ Alive(h1, Len(freed))
    BY <1>0, GrownAlive
  <2> HIDE DEF h1, from, q0
  <2>7. /\ \A a \in 0 .. Len(h1) - 1 : Alive(h2, a) <=> Alive(h1, a)
        /\ IsHeap(h2) /\ Len(h2) \in Nat
        /\ h2 = h1 \/ (Len(h2) = Len(h1) + 1 /\ Alive(h2, Len(h1)))
        /\ (\E x : from = <<x>> /\ ~object_isvalue(x)) =>
               Len(h2) = Len(h1) + 1 /\ Alive(h2, Len(h1))
    BY <2>6, GrownAlive
  <2> HIDE DEF h2
  <2>8. /\ \A a \in 0 .. Len(h2) - 1 :
              Alive(h3, a) <=> Alive(h2, a) /\ \A i \in li .. ui : a \notin Held(objs[i])
        /\ Len(h3) = Len(h2) /\ IsHeap(h3)
    BY <2>7, DeallocAlive
  <2> HIDE DEF h3
  <2>9. Len(freed) <= Len(h1) /\ Len(h1) <= Len(h2) /\ Len(freed) <= Len(h3)
    BY <1>0, <2>6, <2>7, <2>8
  <2>10. \A i \in li .. ui : i \in DOMAIN objs
    BY <1>0, <2>1
  <2>11. ASSUME NEW a \in 0 .. Len(freed) - 1, Alive(freed, a),
                \A i \in DOMAIN objs : a \notin Held(objs[i])
         PROVE  Alive(h3, a)
    <3>1. a \in 0 .. Len(h1) - 1 /\ a \in 0 .. Len(h2) - 1
      BY <1>0, <2>6, <2>7, <2>9
    <3> QED BY <2>6, <2>7, <2>8, <2>10, <2>11, <3>1
  <2>12. /\ li - 1 \in Nat /\ ui + 1 \in Nat /\ li - 1 <= Len(objs) /\ ui + 1 >= 1
         /\ Len(objs) <= Len(objs) /\ 1 \in Nat /\ 1 >= 1
    BY <1>0, <2>1
  <2>13. p \in Seq(ObjectsOf(n)) /\ q \in Seq(ObjectsOf(n))
    BY <1>0, <2>12, PieceIn
  <2>14. /\ \A i \in DOMAIN p : \E j \in DOMAIN objs : p[i] = objs[j]
         /\ \A i \in DOMAIN q : \E j \in DOMAIN objs : q[i] = objs[j]
    <3>1. \A i \in DOMAIN p : 1 + i - 1 \in DOMAIN objs /\ p[i] = objs[1 + i - 1]
      BY <1>0, <2>12, PieceOf
    <3>2. ASSUME NEW l \in Nat, l >= 1
          PROVE  \A i \in DOMAIN SubSeq(objs, l, Len(objs)) :
                     /\ l + i - 1 \in DOMAIN objs
                     /\ SubSeq(objs, l, Len(objs))[i] = objs[l + i - 1]
      <4>1. objs \in Seq(ObjectsOf(n)) /\ Len(objs) \in Nat /\ Len(objs) <= Len(objs)
        BY <1>0
      <4> QED BY <3>2, <4>1, PieceOf
    <3>3. \A i \in DOMAIN q : \E j \in DOMAIN objs : q[i] = objs[j]
      BY <2>12, <3>2
    <3> QED BY <3>1, <3>3
  <2> HIDE DEF p, q
  <2>15. HeldIn(p \o q, A) /\ HeldIn(p \o q, 1 .. n)
    <3>1. HeldIn(p, A) /\ HeldIn(q, A) /\ HeldIn(p, 1 .. n) /\ HeldIn(q, 1 .. n)
      BY <1>1, <1>2, <2>14 DEF HeldIn
    <3> QED BY <2>13, <3>1, HeldInConcat
  <2> DEFINE c == p \o q
  <2> HIDE DEF c
  <2>16. HeldIn(c, A) /\ HeldIn(c, 1 .. n) /\ new.arr = c
    BY <2>2, <2>15 DEF c
  <2>17. Lost(Objs(objs), freed) \subseteq Lost(Objs(c), h3)
    BY <1>0, <2>8, <2>9, <2>11, <2>16, LostStays DEF A
  <2>18. ASSUME \E i \in DOMAIN (upto \o q0) : ~object_isvalue((upto \o q0)[i])
         PROVE  Len(freed) \in Lost(Objs(c), h3)
    <3>1. \/ \E x : upto = <<x>> /\ ~object_isvalue(x)
          \/ \E x : q0 = <<x>> /\ ~object_isvalue(x)
      BY <2>4, <2>18, RemainsRest
    <3>2. Alive(h2, Len(freed)) /\ Len(freed) \in 1 .. Len(h2) - 1
      <4>1. CASE h1 = freed
        <5>1. \E x : from = <<x>> /\ ~object_isvalue(x)
          BY <1>0, <2>5, <2>6, <3>1, <4>1
        <5> QED BY <1>0, <2>7, <4>1, <5>1 DEF IsHeap
      <4>2. CASE h1 # freed
        <5>1. Len(h1) = Len(freed) + 1 /\ Alive(h1, Len(freed))
          BY <2>6, <4>2
        <5>2. Len(freed) \in 0 .. Len(h1) - 1
          BY <1>0, <5>1
        <5>3. Len(freed) \in 1 .. Len(h2) - 1
          BY <1>0, <2>7, <2>9, <5>1 DEF IsHeap
        <5> QED BY <2>7, <5>1, <5>2, <5>3
      <4> QED BY <4>1, <4>2
    <3>3. Len(freed) \notin 1 .. n /\ Len(freed) \in 0 .. Len(h2) - 1
          /\ Len(freed) \in 1 .. Len(h3) - 1
      BY <1>0, <2>8, <3>2
    <3>4. Alive(h3, Len(freed))
      BY <1>2, <2>8, <2>10, <3>2, <3>3
    <3>5. \A o \in Objs(c) : Len(freed) \notin Held(o)
      BY <2>16, <3>3 DEF HeldIn, Objs
    <3> QED BY <3>3, <3>4, <3>5 DEF Lost
  <2> QED BY <2>2, <2>3, <2>8, <2>16, <2>17, <2>18 DEF new
<1> QED BY <1>3, <1>4

(* Both answers for a loop that frees. *)
LEMMA RangeDeallocKept ==
    ASSUME Typed, NEW b \in Bounds, location_range_dealloc(b[1], b[2]),
           state_hasgarbage \/ FreesPart(b[1], b[2])
    PROVE  state_hasgarbage'
<1> DEFINE new == block_range_dealloc(objs, b[1], b[2], freed)
<1>0. b[1] \in Tallies /\ b[2] \in Tallies
  BY WrittenIn
<1>1. CASE Ends("error") \/ Ends("abort")
  <2>1. ~FreesPart(b[1], b[2])
    BY <1>1 DEF FreesPart, Ends
  <2> QED BY <1>1, <2>1, EndsKept
<1>2. CASE /\ ~ArrayIsFreed /\ block_range_aredeallocands(objs, b[1], b[2], freed)
           /\ Becomes(new)
  <2>1. /\ IsHeap(new.freed)
        /\ Lost(Objs(objs), freed) \subseteq Lost(Objs(new.arr), new.freed)
        /\ FreesPart(b[1], b[2]) => Len(freed) \in Lost(Objs(new.arr), new.freed)
    BY <1>0, <1>2, RangeDeallocLost DEF FreesPart
  <2> HIDE DEF new
  <2>2. objs' = new.arr /\ freed' = new.freed
    BY <1>2 DEF Becomes
  <2>3. CASE state_hasgarbage
    BY <1>2, <2>1, <2>2, <2>3, GarbageKept
  <2>4. CASE FreesPart(b[1], b[2])
    <3>1. Len(freed) \in Lost(Objs(objs'), freed') /\ Len(freed') \in Nat /\ Array = 0
      BY <2>1, <2>2, <2>4 DEF IsHeap, Array
    <3> DEFINE a == Len(freed)
    <3> HIDE DEF a
    <3>2. /\ a \in 0 .. Len(freed') - 1 /\ ~freed'[a + 1] /\ a # Array
          /\ a \notin UNION {Held(objs'[i]) : i \in DOMAIN objs'}
      <4>1. a \in Lost(Objs(objs'), freed')
        BY <3>1 DEF a
      <4> QED BY <3>1, <4>1 DEF Lost, Objs, Alive
    <3>3. GarbageIn(objs', freed')
      BY <3>2 DEF GarbageIn
    <3> QED BY <3>3, CellNext
  <2> QED BY <2>3, <2>4
<1> QED BY <1>1, <1>2 DEF location_range_dealloc

LEMMA KeptStep ==
    ASSUME Typed, [Next]_vars, FreesSomePart \/ state_hasgarbage
    PROVE  state_hasgarbage' \/ UNCHANGED vars
<1>0. IsHeap(freed) /\ Len(freed) \in Nat /\ Len(freed) <= Len(freed)
  BY DEF Typed, Fits, IsHeap
<1>1. CASE FreesSomePart
  BY <1>1, RangeDeallocKept DEF FreesSomePart, FreesPart
<1> SUFFICES ASSUME state_hasgarbage PROVE state_hasgarbage' \/ UNCHANGED vars
  BY <1>1
<1>2. CASE assign_number
  <2> DEFINE v == value_int_create(0)
  <2>1. PICK k \in Offsets : expr_assign_eval(k, v, freed)
    BY <1>2 DEF assign_number
  <2>2. v.type = "INT"
    BY DEF value_int_create
  <2> HIDE DEF v
  <2> QED BY <1>0, <2>1, <2>2, AssignKept, WrittenIn
<1>3. CASE assign_malloc
  <2> DEFINE h == Append(freed, FALSE)
             v == value_ptr_create(Len(freed))
  <2>1. /\ IsHeap(h) /\ Len(h) = Len(freed) + 1
        /\ \A a \in 0 .. Len(freed) - 1 : Alive(h, a) <=> Alive(freed, a)
    BY <1>0, HeapAppend, AppendAlive
  <2>2. PICK k \in Offsets : expr_assign_eval(k, v, h)
    BY <1>3 DEF assign_malloc
  <2>3. v.loc = Len(freed)
    BY DEF value_ptr_create
  <2> HIDE DEF h, v
  <2>4. Len(freed) <= Len(h)
    BY <1>0, <2>1
  <2> QED BY <1>0, <2>1, <2>2, <2>3, <2>4, AssignKept, WrittenIn
<1>4. CASE dealloc_process
  BY <1>4, DeallocKept
<1>5. CASE expr_isdeallocand_decide
  BY <1>5, DecideKept
<1>6. CASE free_array
  BY <1>6, FreeArrayKept
<1>7. CASE iter_absexec
  BY <1>7, RangeAllocKept, RangeDeallocKept DEF iter_absexec, rangeprocess_dealloc
<1>8. CASE stmt_iter_verify
  BY <1>8, EndsKept DEF stmt_iter_verify, ast_expr_rangedecide
<1>9. CASE path_audit
  BY <1>9, EndsKept DEF path_audit
<1>10. CASE UNCHANGED vars
  BY <1>10
<1> QED BY <1>2, <1>3, <1>4, <1>5, <1>6, <1>7, <1>8, <1>9, <1>10 DEF Next

(* A loop that frees a part of a range leaves garbage, and nothing that is *)
(* garbage is ever found again, so that no path that lost a block ends     *)
(* clean: for all offsets, bounds and limits, in whatever order the        *)
(* objects are.  (The rest of a range gets a block of its own before it is *)
(* thrown away, and what an object holds after a statement is either what  *)
(* one held before or new.)                                                *)
THEOREM RangesPartIsReported == Spec => PartIsReported
<1>1. Typed /\ [Next]_vars => [~state_hasgarbage' => ~state_hasgarbage /\ ~FreesSomePart]_vars
  BY KeptStep
<1> QED BY <1>1, RangesInvariant, PTL DEF Spec, PartIsReported

=============================================================================
