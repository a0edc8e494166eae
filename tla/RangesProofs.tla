---------------------------- MODULE RangesProofs ----------------------------
(***************************************************************************)
(* Proofs about the arithmetic of offsets (Tally), the objects (Objects)   *)
(* and the array (Ranges), for all offsets, bounds and limits.             *)
(***************************************************************************)
EXTENDS Ranges, FiniteSetTheorems, SequenceTheorems, WellFoundedInduction, TLAPS

-----------------------------------------------------------------------------
(* Linear arithmetic *)

(* The variables that the offsets and bounds are written with, and the     *)
(* tallies of them.                                                        *)
Variables ==
    (UNION {DOMAIN k.map : k \in Offsets})
    \cup UNION {DOMAIN b[1].map \cup DOMAIN b[2].map : b \in Bounds}

Tallies == [map : UNION {[d -> Int] : d \in SUBSET Variables}, num : Int]

LEMMA TallyIn ==
    ASSUME NEW e, IsTally(e), DOMAIN e.map \subseteq Variables
    PROVE  e \in Tallies
BY DEF IsTally, Tallies

LEMMA TallyFacts ==
    ASSUME NEW e \in Tallies
    PROVE  /\ e.num \in Int
           /\ DOMAIN e.map \subseteq Variables
           /\ e.map \in [DOMAIN e.map -> Int]
<1>1. PICK d \in SUBSET Variables : e.map \in [d -> Int]
  BY DEF Tallies
<1> QED BY <1>1 DEF Tallies

LEMMA TallyMade ==
    ASSUME NEW m, NEW n \in Int, DOMAIN m \subseteq Variables, m \in [DOMAIN m -> Int]
    PROVE  [map |-> m, num |-> n] \in Tallies
BY DEF Tallies

LEMMA NumberIn == ASSUME NEW n \in Int PROVE constant(n) \in Tallies
BY TallyMade DEF constant

LEMMA SumIn ==
    ASSUME NEW e1 \in Tallies, NEW e2 \in Tallies
    PROVE  sum_tally(e1, e2) \in Tallies
<1> DEFINE m == map_sum(e1.map, e2.map)
<1>1. \A v \in DOMAIN e1.map \cup DOMAIN e2.map :
          map_get(e1.map, v) \in Int /\ map_get(e2.map, v) \in Int
  BY TallyFacts DEF map_get
<1>2. DOMAIN m = DOMAIN e1.map \cup DOMAIN e2.map /\ m \in [DOMAIN m -> Int]
  BY <1>1 DEF map_sum
<1>3. DOMAIN m \subseteq Variables /\ e1.num + e2.num \in Int
  BY <1>2, TallyFacts
<1> HIDE DEF m
<1>4. [map |-> m, num |-> e1.num + e2.num] \in Tallies
  BY <1>2, <1>3, TallyMade
<1> QED BY <1>4 DEF sum_tally, m

LEMMA DifferenceIn ==
    ASSUME NEW e1 \in Tallies, NEW e2 \in Tallies
    PROVE  difference(e1, e2) \in Tallies
<1> DEFINE m == [v \in DOMAIN e2.map |-> -e2.map[v]]
<1>1. DOMAIN m \subseteq Variables /\ m \in [DOMAIN m -> Int] /\ -e2.num \in Int
  BY TallyFacts
<1> HIDE DEF m
<1>2. [map |-> m, num |-> -e2.num] \in Tallies
  BY <1>1, TallyMade
<1>3. neg_tally(e2) \in Tallies
  BY <1>2 DEF neg_tally, m
<1> QED BY <1>3, SumIn DEF difference

(* What single statements and loops are written with. *)
LEMMA WrittenIn ==
    /\ \A k \in Offsets : k \in Tallies
    /\ \A b \in Bounds : b[1] \in Tallies /\ b[2] \in Tallies
<1>1. ASSUME NEW k \in Offsets PROVE k \in Tallies
  <2>1. IsTally(k) /\ DOMAIN k.map \subseteq Variables
    BY RangesAssumption DEF Variables
  <2> QED BY <2>1, TallyIn
<1>2. ASSUME NEW b \in Bounds PROVE b[1] \in Tallies /\ b[2] \in Tallies
  <2>1. IsTally(b[1]) /\ IsTally(b[2])
    BY RangesAssumption
  <2>2. DOMAIN b[1].map \subseteq Variables /\ DOMAIN b[2].map \subseteq Variables
    BY DEF Variables
  <2> QED BY <2>1, <2>2, TallyIn
<1> QED BY <1>1, <1>2

-----------------------------------------------------------------------------
(* Objects *)

(* The objects that refer to blocks 1 .. n of the heap. *)
Contents(n) == {NoValue, value_int_create(0)} \cup {value_ptr_create(a) : a \in 1 .. n}

Values(n) == [type : {"VALUE"}, offset : Tallies, value : Contents(n)]

RangesOf(n) ==
    [type : {"DEALLOCAND_RANGE"}, offset : Tallies, size : Tallies, loc : 1 .. n]

ObjectsOf(n) == Values(n) \cup RangesOf(n)

LEMMA ObjectsGrow ==
    ASSUME NEW m \in Nat, NEW n \in Nat, m <= n
    PROVE  ObjectsOf(m) \subseteq ObjectsOf(n)
<1>1. Contents(m) \subseteq Contents(n)
  BY DEF Contents
<1>2. 1 .. m \subseteq 1 .. n
  OBVIOUS
<1> QED BY <1>1, <1>2 DEF ObjectsOf, Values, RangesOf

LEMMA ValueMade ==
    ASSUME NEW n \in Nat, NEW offset \in Tallies, NEW v \in Contents(n)
    PROVE  object_value_create(offset, v) \in ObjectsOf(n)
BY DEF ObjectsOf, Values, object_value_create

LEMMA RangeMade ==
    ASSUME NEW n \in Nat, NEW offset \in Tallies, NEW size \in Tallies, NEW a \in 1 .. n
    PROVE  object_range_create(offset, size, a) \in ObjectsOf(n)
BY DEF ObjectsOf, RangesOf, object_range_create

LEMMA ObjectFacts ==
    ASSUME NEW n \in Nat, NEW o \in ObjectsOf(n)
    PROVE  /\ o.offset \in Tallies
           /\ object_size(o) \in Tallies
           /\ object_upper(o) \in Tallies
           /\ Held(o) \subseteq 1 .. n
           /\ object_isvalue(o) => o \in Values(n)
           /\ ~object_isvalue(o) => o \in RangesOf(n)
<1>1. CASE o \in Values(n)
  <2>1. object_isvalue(o) /\ o.offset \in Tallies /\ o.value \in Contents(n)
    BY <1>1 DEF Values, object_isvalue
  <2>2. object_size(o) \in Tallies
    BY <2>1, NumberIn DEF object_size
  <2>3. Held(o) \subseteq 1 .. n
    BY <2>1 DEF Held, Contents, value_islocation, value_int_create, value_ptr_create, NoValue
  <2> QED BY <1>1, <2>1, <2>2, <2>3, SumIn DEF object_upper
<1>2. CASE o \in RangesOf(n)
  <2>1. ~object_isvalue(o) /\ o.offset \in Tallies /\ o.size \in Tallies /\ o.loc \in 1 .. n
    BY <1>2 DEF RangesOf, object_isvalue
  <2> QED BY <1>2, <2>1, SumIn DEF object_upper, object_size, Held
<1> QED BY <1>1, <1>2 DEF ObjectsOf

-----------------------------------------------------------------------------
(* Blocks: sequences of objects *)

LEMMA LeastNumber ==
    ASSUME NEW T \in SUBSET Nat, T # {}
    PROVE  \E m \in T : \A n \in T : m <= n
<1>1. PICK m \in T : \A n \in T : <<n, m>> \notin OpToRel(<, Nat)
  BY NatLessThanWellFounded, WFMin
<1>2. \A n \in T : ~(n < m)
  BY <1>1 DEF OpToRel
<1> QED BY <1>2

LEMMA MinIn ==
    ASSUME NEW T \in SUBSET Nat, T # {}
    PROVE  Min(T) \in T
<1>1. \E m \in T : \A n \in T : m <= n
  BY LeastNumber
<1> QED BY <1>1 DEF Min

(* An object that contains an offset is found in the array, if one is. *)
LEMMA IndexFacts ==
    ASSUME NEW S, NEW b \in Seq(S), NEW offset
    PROVE  /\ object_arr_index(b, offset) \in 0 .. Len(b)
           /\ object_arr_index_upperincl(b, offset) \in 0 .. Len(b)
<1>1. Len(b) \in Nat
  OBVIOUS
<1>2. object_arr_index(b, offset) \in 0 .. Len(b)
  <2> DEFINE I == {i \in 1 .. Len(b) : object_contains(b[i], offset)}
  <2>1. I \in SUBSET Nat
    BY <1>1
  <2> HIDE DEF I
  <2>2. I # {} => Min(I) \in I
    BY <2>1, MinIn
  <2> QED BY <1>1, <2>2 DEF object_arr_index, SelectInSeq, I
<1>3. object_arr_index_upperincl(b, offset) \in 0 .. Len(b)
  <2> DEFINE I == {i \in 1 .. Len(b) : object_contains_upperincl(b[i], offset)}
  <2>1. I \in SUBSET Nat
    BY <1>1
  <2> HIDE DEF I
  <2>2. I # {} => Min(I) \in I
    BY <2>1, MinIn
  <2> QED BY <1>1, <2>2 DEF object_arr_index_upperincl, SelectInSeq, I
<1> QED BY <1>2, <1>3

(* A heap is never empty, and no step makes it shorter. *)
IsHeap(h) == h \in Seq(BOOLEAN) /\ Len(h) \in Nat /\ Len(h) >= 1

LEMMA HeapAppend ==
    ASSUME NEW h, IsHeap(h)
    PROVE  IsHeap(Append(h, FALSE)) /\ Len(Append(h, FALSE)) = Len(h) + 1
<1>1. /\ Append(h, FALSE) \in Seq(BOOLEAN)
      /\ Len(Append(h, FALSE)) = Len(h) + 1
  BY AppendProperties DEF IsHeap
<1>2. Len(h) \in Nat /\ Len(h) >= 1
  BY DEF IsHeap
<1> DEFINE l == Len(Append(h, FALSE))
<1>3. l \in Nat /\ l >= 1
  BY <1>1, <1>2
<1> QED BY <1>1, <1>3 DEF IsHeap

LEMMA HeapDealloc ==
    ASSUME NEW b, NEW from, NEW to, NEW h, IsHeap(h)
    PROVE  /\ IsHeap(object_dealloc(b, from, to, h))
           /\ Len(object_dealloc(b, from, to, h)) = Len(h)
<1> DEFINE gone == UNION {Held(b[i]) : i \in from .. to}
           F == [a \in 1 .. Len(h) |-> h[a] \/ a - 1 \in gone]
<1>1. Len(h) \in Nat /\ Len(h) >= 1
  BY DEF IsHeap
<1>2. F \in [1 .. Len(h) -> BOOLEAN]
  OBVIOUS
<1>3. F \in Seq(BOOLEAN)
  BY <1>1, <1>2, SeqDef
<1>4. DOMAIN F = 1 .. Len(h)
  BY <1>2
<1>5. Len(F) = Len(h)
  <2>1. Len(F) \in Nat /\ DOMAIN F = 1 .. Len(F)
    BY <1>3, LenProperties
  <2> HIDE DEF F
  <2> QED BY <1>1, <1>4, <2>1
<1> HIDE DEF F
<1>6. IsHeap(F)
  BY <1>1, <1>3, <1>5 DEF IsHeap
<1> QED BY <1>5, <1>6 DEF object_dealloc, F

(* A part of an object: none, an object of the block (whole, or moved), or *)
(* a range with the fresh block that is about to be made.                  *)
IsPart(part, n, h) ==
    \/ part = <<>>
    \/ \E o \in ObjectsOf(n) : part = <<o>> /\ object_isvalue(o)
    \/ \E o \in RangesOf(Len(h)) : part = <<o>>

LEMMA UptoIsPart ==
    ASSUME NEW n \in Nat, NEW o \in ObjectsOf(n), NEW e \in Tallies,
           NEW h, IsHeap(h), n < Len(h)
    PROVE  IsPart(object_upto(o, e, Len(h)), n, h)
<1>1. Len(h) \in Nat /\ Len(h) \in 1 .. Len(h)
  BY DEF IsHeap
<1>2. object_range_create(o.offset, difference(e, o.offset), Len(h)) \in RangesOf(Len(h))
  BY <1>1, ObjectFacts, DifferenceIn DEF object_range_create, RangesOf
<1>3. o \in RangesOf(n) => o \in RangesOf(Len(h))
  BY <1>1 DEF RangesOf
<1>4. object_isvalue(o) \/ o \in RangesOf(n)
  BY ObjectFacts
<1> HIDE DEF object_range_create
<1> QED BY <1>2, <1>3, <1>4 DEF IsPart, object_upto

LEMMA FromIsPart ==
    ASSUME NEW n \in Nat, NEW o \in ObjectsOf(n), NEW e \in Tallies,
           NEW h, IsHeap(h), n < Len(h)
    PROVE  IsPart(object_from(o, e, Len(h)), n, h)
<1>1. Len(h) \in Nat /\ Len(h) \in 1 .. Len(h)
  BY DEF IsHeap
<1>2. object_range_create(e, difference(object_upper(o), e), Len(h)) \in RangesOf(Len(h))
  BY <1>1, ObjectFacts, DifferenceIn DEF object_range_create, RangesOf
<1>3. CASE object_isvalue(o)
  <2>1. o \in Values(n)
    BY <1>3, ObjectFacts
  <2>2. [o EXCEPT !.offset = e] \in Values(n)
    BY <2>1 DEF Values
  <2>3. object_isvalue([o EXCEPT !.offset = e])
    BY <2>2 DEF Values, object_isvalue
  <2> QED BY <1>2, <2>2, <2>3 DEF IsPart, object_from, ObjectsOf
<1>4. CASE ~object_isvalue(o)
  <2>1. o \in RangesOf(n)
    BY <1>4, ObjectFacts
  <2>2. [o EXCEPT !.offset = e] \in RangesOf(Len(h))
    BY <1>1, <2>1 DEF RangesOf
  <2> QED BY <1>2, <2>2 DEF IsPart, object_from
<1> QED BY <1>3, <1>4

(* The heap with the part's block, if it has one, and the part in it.      *)
LEMMA GrownFacts ==
    ASSUME NEW n \in Nat, NEW h, IsHeap(h), n < Len(h), NEW part, IsPart(part, n, h)
    PROVE  /\ IsHeap(Grown(h, part))
           /\ Len(Grown(h, part)) \in {Len(h), Len(h) + 1}
           /\ part \in Seq(ObjectsOf(Len(Grown(h, part)) - 1))
<1> DEFINE Goal ==
             /\ IsHeap(Grown(h, part))
             /\ Len(Grown(h, part)) \in {Len(h), Len(h) + 1}
             /\ part \in Seq(ObjectsOf(Len(Grown(h, part)) - 1))
<1>1. Len(h) \in Nat /\ Len(h) >= 1
  BY DEF IsHeap
<1>2. ASSUME part = <<>> PROVE Goal
  BY <1>1, <1>2 DEF Grown
<1>3. ASSUME NEW o \in ObjectsOf(n), part = <<o>>, object_isvalue(o) PROVE Goal
  <2>1. Grown(h, part) = h
    BY <1>3 DEF Grown
  <2>2. ObjectsOf(n) \subseteq ObjectsOf(Len(h) - 1)
    BY <1>1, ObjectsGrow
  <2>3. <<o>> \in Seq(ObjectsOf(Len(h) - 1))
    BY <2>2
  <2> QED BY <1>3, <2>1, <2>3
<1>4. ASSUME NEW o \in RangesOf(Len(h)), part = <<o>> PROVE Goal
  <2>1. ~object_isvalue(o)
    BY DEF RangesOf, object_isvalue
  <2>2. Grown(h, part) = Append(h, FALSE)
    BY <1>4, <2>1 DEF Grown
  <2>3. o \in ObjectsOf(Len(h))
    BY DEF ObjectsOf
  <2>4. <<o>> \in Seq(ObjectsOf(Len(h)))
    BY <2>3
  <2>5. IsHeap(Append(h, FALSE)) /\ Len(Append(h, FALSE)) = Len(h) + 1
    BY HeapAppend
  <2>6. Len(Append(h, FALSE)) - 1 = Len(h)
    BY <1>1, <2>5
  <2> QED BY <1>4, <2>2, <2>4, <2>5, <2>6
<1> QED BY <1>2, <1>3, <1>4 DEF IsPart

(* Sequences of objects that refer to the blocks of a heap. *)
Fits(b, h) == IsHeap(h) /\ b \in Seq(ObjectsOf(Len(h) - 1))

LEMMA FitsLonger ==
    ASSUME NEW n \in Nat, NEW b \in Seq(ObjectsOf(n)), NEW h, IsHeap(h), n < Len(h)
    PROVE  Fits(b, h)
<1>1. Len(h) - 1 \in Nat /\ n <= Len(h) - 1
  BY DEF IsHeap
<1>2. ObjectsOf(n) \subseteq ObjectsOf(Len(h) - 1)
  BY <1>1, ObjectsGrow
<1>3. b \in Seq(ObjectsOf(Len(h) - 1))
  BY <1>2, SeqMonotonic
<1> QED BY <1>3 DEF Fits

LEMMA FitsConcat ==
    ASSUME NEW b, NEW c, NEW h, Fits(b, h), Fits(c, h)
    PROVE  Fits(b \o c, h)
<1>1. b \in Seq(ObjectsOf(Len(h) - 1)) /\ c \in Seq(ObjectsOf(Len(h) - 1)) /\ IsHeap(h)
  BY DEF Fits
<1>2. b \o c \in Seq(ObjectsOf(Len(h) - 1))
  BY <1>1, ConcatProperties
<1> QED BY <1>1, <1>2 DEF Fits

LEMMA PieceIn ==
    ASSUME NEW S, NEW b \in Seq(S), NEW l \in Nat, NEW u \in Nat, l >= 1, u <= Len(b)
    PROVE  /\ SubSeq(b, l, u) \in Seq(S)
           /\ Len(SubSeq(b, l, u)) = IF l <= u THEN u - l + 1 ELSE 0
           /\ \A i \in 1 .. u - l + 1 : SubSeq(b, l, u)[i] = b[l + i - 1]
<1>1. \A i \in l .. u : b[i] \in S
  BY ElementOfSeq
<1>2. l \in Int /\ u \in Int
  OBVIOUS
<1> QED BY <1>1, <1>2, SubSeqProperties

LEMMA SplitFits ==
    ASSUME NEW n \in Nat, NEW b \in Seq(ObjectsOf(n)), NEW index \in 1 .. Len(b),
           NEW e \in Tallies, NEW h, IsHeap(h), n < Len(h)
    PROVE  /\ Fits(Split(b, index, e, h).arr, Split(b, index, e, h).freed)
           /\ Len(h) <= Len(Split(b, index, e, h).freed)
<1> DEFINE upto     == object_upto(b[index], e, Len(h))
           h1       == Grown(h, upto)
           observed == object_value_create(e, value_ptr_create(Len(h1)))
           h2       == Append(h1, FALSE)
           after    == object_from(b[index], sum_tally(e, constant(1)), Len(h2))
           h3       == Grown(h2, after)
           h4       == object_dealloc(b, index, index, h3)
           before   == SubSeq(b, 1, index - 1)
           behind   == SubSeq(b, index + 1, Len(b))
<1>0. Len(b) \in Nat /\ Len(h) \in Nat /\ b[index] \in ObjectsOf(n)
  BY DEF IsHeap
<1>1. IsPart(upto, n, h)
  BY <1>0, UptoIsPart
<1>2. IsHeap(h1) /\ Len(h1) \in {Len(h), Len(h) + 1} /\ upto \in Seq(ObjectsOf(Len(h1) - 1))
  BY <1>1, GrownFacts
<1>3. IsHeap(h2) /\ Len(h2) = Len(h1) + 1
  BY <1>2, HeapAppend
<1>4. sum_tally(e, constant(1)) \in Tallies /\ n < Len(h2)
  BY <1>0, <1>2, <1>3, SumIn, NumberIn
<1>5. IsPart(after, n, h2)
  BY <1>0, <1>3, <1>4, FromIsPart
<1>6. IsHeap(h3) /\ Len(h3) \in {Len(h2), Len(h2) + 1} /\ after \in Seq(ObjectsOf(Len(h3) - 1))
  BY <1>3, <1>4, <1>5, GrownFacts
<1>8. before \in Seq(ObjectsOf(n)) /\ behind \in Seq(ObjectsOf(n))
  BY <1>0, PieceIn
<1>9. value_ptr_create(Len(h1)) \in Contents(Len(h1))
  BY <1>0, <1>2 DEF Contents, IsHeap
<1>10. observed \in ObjectsOf(Len(h1))
  BY <1>0, <1>2, <1>9, ValueMade
<1> HIDE DEF upto, h1, observed, h2, after, h3
<1>7. IsHeap(h4) /\ Len(h4) = Len(h3)
  BY <1>6, HeapDealloc
<1> HIDE DEF h4, before, behind
<1>11. /\ Len(h1) - 1 \in Nat /\ Len(h1) - 1 < Len(h4)
       /\ Len(h1) \in Nat /\ Len(h1) < Len(h4)
       /\ Len(h3) - 1 \in Nat /\ Len(h3) - 1 < Len(h4)
       /\ n < Len(h4) /\ Len(h) <= Len(h4)
  BY <1>0, <1>2, <1>3, <1>6, <1>7 DEF IsHeap
<1>12. <<observed>> \in Seq(ObjectsOf(Len(h1)))
  BY <1>10
<1>13. /\ Fits(before, h4) /\ Fits(upto, h4) /\ Fits(<<observed>>, h4)
       /\ Fits(after, h4) /\ Fits(behind, h4)
  BY <1>2, <1>6, <1>7, <1>8, <1>11, <1>12, FitsLonger
<1>14. Fits(before \o upto \o <<observed>> \o after \o behind, h4)
  BY <1>13, FitsConcat
<1>15. Split(b, index, e, h) =
           [arr |-> before \o upto \o <<observed>> \o after \o behind, freed |-> h4]
  BY DEF Split, upto, h1, observed, h2, after, h3, h4, before, behind
<1> QED BY <1>11, <1>14, <1>15

(* state_deref leaves well-formed objects and a well-formed heap. *)
LEMMA ObserveFits ==
    ASSUME NEW n \in Nat, NEW b \in Seq(ObjectsOf(n)), NEW e \in Tallies,
           NEW h, IsHeap(h), n < Len(h)
    PROVE  /\ Fits(block_observe(b, e, h).arr, block_observe(b, e, h).freed)
           /\ Len(h) <= Len(block_observe(b, e, h).freed)
<1> DEFINE index == object_arr_index(b, e)
<1>0. Len(h) \in Nat
  BY DEF IsHeap
<1>1. index \in 0 .. Len(b)
  BY IndexFacts
<1> HIDE DEF index
<1>2. CASE index = 0
  <2>1. NoValue \in Contents(n)
    BY DEF Contents
  <2>2. object_value_create(e, NoValue) \in ObjectsOf(n)
    BY <2>1, ValueMade
  <2>3. Append(b, object_value_create(e, NoValue)) \in Seq(ObjectsOf(n))
    BY <2>2, AppendProperties
  <2>4. Fits(Append(b, object_value_create(e, NoValue)), h)
    BY <2>3, FitsLonger
  <2>5. block_observe(b, e, h) =
            [arr |-> Append(b, object_value_create(e, NoValue)), freed |-> h]
    BY <1>2 DEF block_observe, index
  <2> QED BY <1>0, <2>4, <2>5
<1>3. CASE index # 0 /\ object_isvalue(b[index])
  <2>1. block_observe(b, e, h) = [arr |-> b, freed |-> h]
    BY <1>3 DEF block_observe, index
  <2> QED BY <1>0, <2>1, FitsLonger
<1>4. CASE index # 0 /\ ~object_isvalue(b[index])
  <2>1. index \in 1 .. Len(b)
    BY <1>1, <1>4
  <2>2. block_observe(b, e, h) = Split(b, index, e, h)
    BY <1>4 DEF block_observe, index
  <2> QED BY <2>1, <2>2, SplitFits
<1> QED BY <1>2, <1>3, <1>4

LEMMA AssignIn ==
    ASSUME NEW n \in Nat, NEW b \in Seq(ObjectsOf(n)), NEW index, NEW v \in Contents(n)
    PROVE  /\ object_assign(b, index, v) \in Seq(ObjectsOf(n))
           /\ Len(object_assign(b, index, v)) = Len(b)
<1>1. Len(b) \in Nat /\ DOMAIN b = 1 .. Len(b)
  OBVIOUS
<1>2. ASSUME NEW o \in ObjectsOf(n) PROVE [o EXCEPT !.value = v] \in ObjectsOf(n)
  <2>1. CASE o \in Values(n)
    BY <2>1 DEF Values, ObjectsOf
  <2>2. CASE o \in RangesOf(n)
    <3>1. [o EXCEPT !.value = v] = o
      BY <2>2 DEF RangesOf
    <3> QED BY <3>1
  <2> QED BY <2>1, <2>2 DEF ObjectsOf
<1>3. \A i \in 1 .. Len(b) : b[i] \in ObjectsOf(n)
  BY ElementOfSeq
<1> DEFINE new(i) == IF b[i] = b[index] THEN [b[i] EXCEPT !.value = v] ELSE b[i]
<1>4. \A i \in 1 .. Len(b) : new(i) \in ObjectsOf(n)
  BY <1>2, <1>3
<1>5. object_assign(b, index, v) = [i \in 1 .. Len(b) |-> new(i)]
  BY <1>1 DEF object_assign
<1> HIDE DEF new
<1> QED BY <1>1, <1>4, <1>5

LEMMA HeapMark ==
    ASSUME NEW h, IsHeap(h), NEW x
    PROVE  /\ IsHeap([h EXCEPT ![x] = TRUE])
           /\ Len([h EXCEPT ![x] = TRUE]) = Len(h)
<1> DEFINE F == [h EXCEPT ![x] = TRUE]
<1>0. h \in Seq(BOOLEAN) /\ Len(h) \in Nat /\ Len(h) >= 1
  BY DEF IsHeap
<1>1. h \in [1 .. Len(h) -> BOOLEAN]
  BY <1>0, LenProperties
<1>2. F \in [1 .. Len(h) -> BOOLEAN]
  BY <1>1
<1>3. F \in Seq(BOOLEAN)
  BY <1>0, <1>2, SeqDef
<1>4. DOMAIN F = 1 .. Len(h)
  BY <1>2
<1>5. Len(F) = Len(h)
  <2>1. Len(F) \in Nat /\ DOMAIN F = 1 .. Len(F)
    BY <1>3, LenProperties
  <2> HIDE DEF F
  <2> QED BY <1>0, <1>4, <2>1
<1> HIDE DEF F
<1>6. IsHeap(F)
  BY <1>0, <1>3, <1>5 DEF IsHeap
<1> QED BY <1>5, <1>6 DEF F

-----------------------------------------------------------------------------
(* The type invariant *)

Typed ==
    /\ Fits(objs, freed)
    /\ verdict \in {"running", "error", "abort", "clean", "garbage"}

LEMMA EndsTyped ==
    ASSUME Typed, NEW v \in {"error", "abort", "clean", "garbage"}, Ends(v)
    PROVE  Typed'
BY DEF Typed, Ends

LEMMA BecomesTyped ==
    ASSUME Typed, NEW new, Fits(new.arr, new.freed), Becomes(new)
    PROVE  Typed'
BY DEF Typed, Becomes

LEMMA AssignTyped ==
    ASSUME Typed, NEW k \in Tallies, NEW v, NEW h, IsHeap(h), Len(h) >= Len(freed),
           v \in Contents(Len(h) - 1), expr_assign_eval(k, v, h)
    PROVE  Typed'
<1>1. CASE Ends("error") \/ Ends("abort")
  BY <1>1, EndsTyped
<1> DEFINE new == state_deref(k, h)
           index == object_arr_index(new.arr, k)
           arr == object_assign(new.arr, index, v)
<1>2. CASE Becomes([new EXCEPT !.arr = arr])
  <2>1. objs \in Seq(ObjectsOf(Len(freed) - 1)) /\ Len(freed) - 1 \in Nat
        /\ Len(freed) - 1 < Len(h) /\ Len(h) \in Nat /\ Len(h) >= 1
    BY DEF Typed, Fits, IsHeap
  <2>2. Fits(new.arr, new.freed) /\ Len(h) <= Len(new.freed)
    BY <2>1, ObserveFits DEF state_deref
  <2>3. new = [arr |-> new.arr, freed |-> new.freed]
    BY DEF state_deref, block_observe, Split
  <2> HIDE DEF new, index
  <2> DEFINE l == Len(new.freed) - 1
  <2>4. l \in Nat /\ Len(h) - 1 <= l /\ new.arr \in Seq(ObjectsOf(l))
    BY <2>1, <2>2 DEF Fits, IsHeap
  <2>5. v \in Contents(l)
    BY <2>1, <2>4 DEF Contents
  <2> HIDE DEF l
  <2>6. arr \in Seq(ObjectsOf(l))
    BY <2>4, <2>5, AssignIn
  <2> HIDE DEF arr
  <2>7. Fits(arr, new.freed)
    BY <2>2, <2>6 DEF Fits, l
  <2>8. [new EXCEPT !.arr = arr].arr = arr /\ [new EXCEPT !.arr = arr].freed = new.freed
    BY <2>3
  <2> QED BY <1>2, <2>7, <2>8, BecomesTyped
<1> QED BY <1>1, <1>2 DEF expr_assign_eval

(* state_deref in a state of the program. *)
LEMMA DerefTyped ==
    ASSUME Typed, NEW k \in Tallies
    PROVE  /\ Fits(state_deref(k, freed).arr, state_deref(k, freed).freed)
           /\ state_deref(k, freed) =
                 [arr |-> state_deref(k, freed).arr, freed |-> state_deref(k, freed).freed]
<1>1. objs \in Seq(ObjectsOf(Len(freed) - 1)) /\ Len(freed) - 1 \in Nat
      /\ Len(freed) - 1 < Len(freed) /\ IsHeap(freed)
  BY DEF Typed, Fits, IsHeap
<1>2. Fits(state_deref(k, freed).arr, state_deref(k, freed).freed)
  BY <1>1, ObserveFits DEF state_deref
<1> QED BY <1>2 DEF state_deref, block_observe, Split

LEMMA DeallocTyped ==
    ASSUME Typed, dealloc_process
    PROVE  Typed'
<1>1. PICK k \in Offsets :
        IF ArrayIsFreed THEN Ends("error")
        ELSE IF ~block_observe_ok(objs, k, freed) THEN Ends("abort")
        ELSE LET new == state_deref(k, freed)
                 v   == ValueAt(new.arr, k) IN
             IF state_dealloc_ok(v, new.freed)
             THEN Becomes([new EXCEPT !.freed[v.loc + 1] = TRUE])
             ELSE Ends("error")
  BY DEF dealloc_process
<1>2. CASE Ends("error") \/ Ends("abort")
  BY <1>2, EndsTyped
<1> DEFINE new == state_deref(k, freed)
           x == ValueAt(new.arr, k).loc + 1
           h == [new.freed EXCEPT ![x] = TRUE]
<1>3. CASE Becomes([new EXCEPT !.freed = h])
  <2>1. Fits(new.arr, new.freed) /\ new = [arr |-> new.arr, freed |-> new.freed]
    BY WrittenIn, DerefTyped
  <2> HIDE DEF new, x
  <2>2. IsHeap(h) /\ Len(h) = Len(new.freed)
    BY <2>1, HeapMark DEF Fits
  <2> HIDE DEF h
  <2>3. Fits(new.arr, h)
    BY <2>1, <2>2 DEF Fits
  <2>4. [new EXCEPT !.freed = h].arr = new.arr /\ [new EXCEPT !.freed = h].freed = h
    BY <2>1
  <2> QED BY <1>3, <2>3, <2>4, BecomesTyped
<1> QED BY <1>1, <1>2, <1>3

LEMMA DecideTyped ==
    ASSUME Typed, expr_isdeallocand_decide
    PROVE  Typed'
<1>1. PICK k \in Offsets : Ends("error") \/ Ends("abort") \/ Becomes(state_deref(k, freed))
  BY DEF expr_isdeallocand_decide
<1>2. Fits(state_deref(k, freed).arr, state_deref(k, freed).freed)
  BY WrittenIn, DerefTyped
<1> QED BY <1>1, <1>2, EndsTyped, BecomesTyped

LEMMA FreeTyped ==
    ASSUME Typed, free_array
    PROVE  Typed'
<1> DEFINE h == [freed EXCEPT ![Array + 1] = TRUE]
<1>1. CASE Ends("error")
  BY <1>1, EndsTyped
<1>2. CASE Becomes([arr |-> objs, freed |-> h])
  <2>1. IsHeap(h) /\ Len(h) = Len(freed)
    BY HeapMark DEF Typed, Fits
  <2> HIDE DEF h
  <2>2. Fits(objs, h)
    BY <2>1 DEF Typed, Fits
  <2> QED BY <1>2, <2>2, BecomesTyped
<1> QED BY <1>1, <1>2 DEF free_array

LEMMA RangeAllocTyped ==
    ASSUME Typed, rangeprocess_alloc
    PROVE  Typed'
<1>1. PICK b \in Bounds : state_range_alloc(b[1], b[2])
  BY DEF rangeprocess_alloc
<1>2. CASE Ends("error") \/ Ends("abort")
  BY <1>2, EndsTyped
<1> DEFINE h == Append(freed, FALSE)
           o == object_range_create(b[1], difference(b[2], b[1]), Len(freed))
<1>3. CASE Becomes([arr |-> <<o>>, freed |-> h])
  <2>1. IsHeap(freed) /\ Len(freed) \in Nat /\ Len(freed) \in 1 .. Len(freed)
    BY DEF Typed, Fits, IsHeap
  <2>2. IsHeap(h) /\ Len(h) = Len(freed) + 1
    BY <2>1, HeapAppend
  <2>3. b[1] \in Tallies /\ difference(b[2], b[1]) \in Tallies
    BY WrittenIn, DifferenceIn
  <2>4. o \in ObjectsOf(Len(freed))
    BY <2>1, <2>3, RangeMade
  <2>5. <<o>> \in Seq(ObjectsOf(Len(freed)))
    BY <2>4
  <2> HIDE DEF h, o
  <2>6. Len(freed) < Len(h)
    BY <2>1, <2>2
  <2>7. Fits(<<o>>, h)
    BY <2>1, <2>2, <2>5, <2>6, FitsLonger
  <2> QED BY <1>3, <2>7, BecomesTyped
<1> QED BY <1>1, <1>2, <1>3 DEF state_range_alloc, block_range_alloc

(* An accepted range free finds both ends of the range. *)
LEMMA EndsFound ==
    ASSUME NEW S, NEW b \in Seq(S), NEW lw, NEW up, NEW h,
           block_range_aredeallocands(b, lw, up, h),
           ~hack_first_object_is_exactly_bounds(b, lw, up, h)
    PROVE  /\ object_arr_index(b, lw) \in 1 .. Len(b)
           /\ object_arr_index_upperincl(b, up) \in 1 .. Len(b)
<1>1. object_arr_index(b, lw) # 0 /\ object_arr_index_upperincl(b, up) # 0
  BY DEF block_range_aredeallocands
<1>2. /\ object_arr_index(b, lw) \in 0 .. Len(b)
      /\ object_arr_index_upperincl(b, up) \in 0 .. Len(b)
  BY IndexFacts
<1> QED BY <1>1, <1>2

LEMMA RangeDeallocFits ==
    ASSUME NEW b, NEW h, Fits(b, h), NEW lw \in Tallies, NEW up \in Tallies,
           block_range_aredeallocands(b, lw, up, h)
    PROVE  Fits(block_range_dealloc(b, lw, up, h).arr, block_range_dealloc(b, lw, up, h).freed)
<1> DEFINE n  == Len(h) - 1
           li == object_arr_index(b, lw)
           ui == object_arr_index_upperincl(b, up)
           upto == object_upto(b[li], lw, Len(h))
           h1   == Grown(h, upto)
           from == object_from(b[ui], up, Len(h1))
           h2   == Grown(h1, from)
           h3   == object_dealloc(b, li, ui, h2)
<1>0. /\ IsHeap(h) /\ b \in Seq(ObjectsOf(n)) /\ n \in Nat /\ n < Len(h) /\ Len(h) \in Nat
      /\ Len(b) \in Nat
  BY DEF Fits, IsHeap
<1> HIDE DEF n
<1>1. CASE hack_first_object_is_exactly_bounds(b, lw, up, h)
  <2>1. b # <<>>
    BY <1>1 DEF hack_first_object_is_exactly_bounds
  <2>2. Tail(b) \in Seq(ObjectsOf(n))
    BY <1>0, <2>1, HeadTailProperties
  <2> DEFINE g == object_dealloc(b, 1, 1, h)
  <2>3. IsHeap(g) /\ Len(g) = Len(h)
    BY <1>0, HeapDealloc
  <2>4. block_range_dealloc(b, lw, up, h) = [arr |-> Tail(b), freed |-> g]
    BY <1>1 DEF block_range_dealloc
  <2> HIDE DEF g
  <2>5. Fits(Tail(b), g)
    BY <1>0, <2>2, <2>3, FitsLonger
  <2> QED BY <2>4, <2>5
<1>2. CASE ~hack_first_object_is_exactly_bounds(b, lw, up, h)
  <2>1. li \in 1 .. Len(b) /\ ui \in 1 .. Len(b)
    BY <1>0, <1>2, EndsFound
  <2>2. block_range_dealloc(b, lw, up, h) =
            [arr |-> SubSeq(b, 1, li - 1) \o SubSeq(b, ui + 1, Len(b)), freed |-> h3]
    BY <1>2 DEF block_range_dealloc
  <2> HIDE DEF li, ui
  <2>3. b[li] \in ObjectsOf(n) /\ b[ui] \in ObjectsOf(n)
    BY <1>0, <2>1, ElementOfSeq
  <2>4. IsHeap(h1) /\ Len(h1) \in {Len(h), Len(h) + 1}
    BY <1>0, <2>3, UptoIsPart, GrownFacts
  <2>5. n < Len(h1)
    BY <1>0, <2>4
  <2> HIDE DEF upto, h1
  <2>6. IsHeap(h2) /\ Len(h2) \in {Len(h1), Len(h1) + 1}
    BY <2>3, <2>4, <2>5, <1>0, FromIsPart, GrownFacts
  <2> HIDE DEF from, h2
  <2>7. IsHeap(h3) /\ Len(h3) = Len(h2)
    BY <2>6, HeapDealloc
  <2>8. n < Len(h3)
    BY <1>0, <2>4, <2>5, <2>6, <2>7
  <2> HIDE DEF h3
  <2>9. /\ SubSeq(b, 1, li - 1) \in Seq(ObjectsOf(n))
        /\ SubSeq(b, ui + 1, Len(b)) \in Seq(ObjectsOf(n))
    BY <1>0, <2>1, PieceIn
  <2>10. Fits(SubSeq(b, 1, li - 1), h3) /\ Fits(SubSeq(b, ui + 1, Len(b)), h3)
    BY <1>0, <2>7, <2>8, <2>9, FitsLonger
  <2>11. Fits(SubSeq(b, 1, li - 1) \o SubSeq(b, ui + 1, Len(b)), h3)
    BY <2>10, FitsConcat
  <2> QED BY <2>2, <2>11
<1> QED BY <1>1, <1>2

LEMMA RangeDeallocTyped ==
    ASSUME Typed, rangeprocess_dealloc
    PROVE  Typed'
<1>1. PICK b \in Bounds : location_range_dealloc(b[1], b[2])
  BY DEF rangeprocess_dealloc
<1>2. CASE Ends("error") \/ Ends("abort")
  BY <1>2, EndsTyped
<1>3. CASE /\ block_range_aredeallocands(objs, b[1], b[2], freed)
           /\ Becomes(block_range_dealloc(objs, b[1], b[2], freed))
  <2>1. b[1] \in Tallies /\ b[2] \in Tallies /\ Fits(objs, freed)
    BY WrittenIn DEF Typed
  <2> QED BY <1>3, <2>1, RangeDeallocFits, BecomesTyped
<1> QED BY <1>1, <1>2, <1>3 DEF location_range_dealloc

LEMMA TypedStep == Typed /\ [Next]_vars => Typed'
<1> SUFFICES ASSUME Typed, [Next]_vars PROVE Typed'
  OBVIOUS
<1>0. IsHeap(freed) /\ Len(freed) \in Nat
  BY DEF Typed, Fits, IsHeap
<1>1. CASE assign_number
  <2>1. value_int_create(0) \in Contents(Len(freed) - 1)
    BY DEF Contents
  <2> QED BY <1>0, <1>1, <2>1, AssignTyped, WrittenIn DEF assign_number
<1>2. CASE assign_malloc
  <2> DEFINE h == Append(freed, FALSE)
  <2>1. IsHeap(h) /\ Len(h) = Len(freed) + 1
    BY <1>0, HeapAppend
  <2>2. \E k \in Offsets : expr_assign_eval(k, value_ptr_create(Len(freed)), h)
    BY <1>2 DEF assign_malloc
  <2> HIDE DEF h
  <2>3. Len(freed) \in 1 .. Len(h) - 1
    BY <1>0, <2>1 DEF IsHeap
  <2>4. value_ptr_create(Len(freed)) \in Contents(Len(h) - 1)
    BY <2>3 DEF Contents
  <2> QED BY <1>0, <2>1, <2>2, <2>4, AssignTyped, WrittenIn
<1>3. CASE dealloc_process
  BY <1>3, DeallocTyped
<1>4. CASE expr_isdeallocand_decide
  BY <1>4, DecideTyped
<1>5. CASE free_array
  BY <1>5, FreeTyped
<1>6. CASE iter_absexec
  BY <1>6, RangeAllocTyped, RangeDeallocTyped DEF iter_absexec
<1>7. CASE stmt_iter_verify
  BY <1>7, EndsTyped DEF stmt_iter_verify, ast_expr_rangedecide
<1>8. CASE path_audit
  BY <1>8, EndsTyped DEF path_audit
<1>9. CASE UNCHANGED vars
  BY <1>9 DEF vars, Typed
<1> QED BY <1>1, <1>2, <1>3, <1>4, <1>5, <1>6, <1>7, <1>8, <1>9 DEF Next

LEMMA InitTyped == Init => Typed
<1> SUFFICES ASSUME Init PROVE Typed
  OBVIOUS
<1>1. <<FALSE>> \in Seq(BOOLEAN) /\ Len(<<FALSE>>) = 1
  <2>1. <<>> \in Seq(BOOLEAN) /\ Len(<<>>) = 0
    BY EmptySeq
  <2>2. Append(<<>>, FALSE) \in Seq(BOOLEAN) /\ Len(Append(<<>>, FALSE)) = 1
    BY <2>1, AppendProperties
  <2>3. Append(<<>>, FALSE) = <<FALSE>>
    OBVIOUS
  <2> QED BY <2>2, <2>3
<1>2. IsHeap(<<FALSE>>)
  BY <1>1 DEF IsHeap
<1>3. <<>> \in Seq(ObjectsOf(Len(<<FALSE>>) - 1))
  BY EmptySeq
<1> QED BY <1>2, <1>3 DEF Init, Typed, Fits

(* Every object refers to a block of the heap, and every offset and size   *)
(* is a linear expression of the variables of the program: in every state, *)
(* whatever the offsets, the bounds and the limits are.                    *)
THEOREM RangesInvariant == Spec => []Typed
<1> QED BY InitTyped, TypedStep, PTL DEF Spec

LEMMA TypedTypeOK == Typed => TypeOK
<1> SUFFICES ASSUME Typed PROVE TypeOK
  OBVIOUS
<1> DEFINE n == Len(freed) - 1
           offsets == {objs[i].offset : i \in DOMAIN objs}
           sizes == {object_size(objs[i]) : i \in DOMAIN objs}
           V == [type : {"VALUE"}, offset : offsets,
                 value : {NoValue, value_int_create(0)} \cup
                         {value_ptr_create(a) : a \in 1 .. n}]
           R == [type : {"DEALLOCAND_RANGE"}, offset : offsets, size : sizes, loc : 1 .. n]
<1>1. n \in Nat /\ objs \in Seq(ObjectsOf(n)) /\ freed \in Seq(BOOLEAN) /\ freed # <<>>
  <2>1. IsHeap(freed) /\ objs \in Seq(ObjectsOf(n))
    BY DEF Typed, Fits
  <2>2. Len(<<>>) = 0
    OBVIOUS
  <2> QED BY <2>1, <2>2 DEF IsHeap
<1>2. ASSUME NEW i \in DOMAIN objs PROVE objs[i] \in V \cup R
  <2> HIDE DEF n
  <2>1. objs[i] \in ObjectsOf(n)
    BY <1>1, ElementOfSeq
  <2>2. objs[i].offset \in offsets /\ object_size(objs[i]) \in sizes
    OBVIOUS
  <2>3. objs[i] \in RangesOf(n) => object_size(objs[i]) = objs[i].size
    BY DEF RangesOf, object_size, object_isvalue
  <2> HIDE DEF offsets, sizes
  <2>4. objs[i] \in Values(n) => objs[i] \in V
    BY <2>2 DEF Values, Contents
  <2>5. objs[i] \in RangesOf(n) => objs[i] \in R
    BY <2>2, <2>3 DEF RangesOf
  <2> QED BY <2>1, <2>4, <2>5 DEF ObjectsOf
<1>3. objs \in Seq(V \cup R)
  <2>1. Len(objs) \in Nat /\ objs \in [1 .. Len(objs) -> ObjectsOf(n)]
    BY <1>1, LenProperties
  <2> HIDE DEF V, R
  <2>2. objs \in [1 .. Len(objs) -> V \cup R]
    BY <1>2, <2>1
  <2> QED BY <2>1, <2>2, SeqDef
<1>4. V \cup R = UNION {V, R}
  OBVIOUS
<1> HIDE DEF V, R
<1>5. objs \in Seq(UNION {V, R})
  BY <1>3, <1>4
<1> QED BY <1>1, <1>5 DEF TypeOK, Typed, V, R

(* The variables of Ranges keep their types: every object of a's block     *)
(* refers to a heap block made before, and never to a's own.               *)
THEOREM RangesTypeOK == Spec => []TypeOK
<1> QED BY RangesInvariant, TypedTypeOK, PTL

-----------------------------------------------------------------------------
(* What a loop allocated, a loop with the same bounds can free *)

LEMMA TypedFreeable == Typed => FreeableAsAllocated
<1> SUFFICES ASSUME Typed, NEW b \in Bounds, IsNumber(b[1]),
                    Len(objs) = 1, ~object_isvalue(objs[1]), objs[1].loc \in Live,
                    objs[1].offset = b[1], objs[1].size = difference(b[2], b[1])
             PROVE  /\ block_range_aredeallocands(objs, b[1], b[2], freed)
                    /\ block_range_dealloc(objs, b[1], b[2], freed).arr = <<>>
  BY DEF FreeableAsAllocated
<1> DEFINE lw == b[1]
           up == b[2]
           o  == objs[1]
<1>1. objs \in Seq(ObjectsOf(Len(freed) - 1))
  BY DEF Typed, Fits
<1>2. lw \in Tallies /\ up \in Tallies
  BY WrittenIn
<1>3. lw.num \in Int /\ up.num \in Int /\ DOMAIN lw.map = {}
  BY <1>2, TallyFacts DEF IsNumber
<1>4. object_upper(o).num = up.num
  BY <1>3 DEF object_upper, object_size, difference, sum_tally, neg_tally
<1>5. DOMAIN object_upper(o).map = DOMAIN up.map
  BY <1>3 DEF object_upper, object_size, difference, sum_tally, neg_tally, map_sum
<1>6. math_eq(lw, o.offset)
  BY <1>3 DEF math_eq, math_le, variable_tally_eq
<1>7. math_eq(up, object_upper(o))
  BY <1>3, <1>4, <1>5 DEF math_eq, math_le, variable_tally_eq
<1>8. object_isdeallocand(o, freed)
  BY DEF object_isdeallocand, Held, Live
<1>9. objs # <<>>
  <2>1. Len(<<>>) # 1
    OBVIOUS
  <2> QED BY <2>1, Zenon
<1>10. hack_first_object_is_exactly_bounds(objs, lw, up, freed)
  BY <1>6, <1>7, <1>8, <1>9 DEF hack_first_object_is_exactly_bounds
<1>11. ~IsNumberValue(o)
  BY DEF IsNumberValue
<1>12. Tail(objs) = <<>>
  <2>1. Tail(objs) \in Seq(ObjectsOf(Len(freed) - 1)) /\ Len(Tail(objs)) = 0
    BY <1>1, <1>9, HeadTailProperties
  <2> QED BY <2>1, EmptySeq
<1> QED BY <1>10, <1>11, <1>12 DEF block_range_aredeallocands, block_range_dealloc

(* In every state, the range that a loop has just allocated is accepted by *)
(* a free with the same bounds, which leaves no object: for all bounds of  *)
(* which the lower one is a number, whatever the upper one is.             *)
THEOREM RangesFreeableAsAllocated == Spec => []FreeableAsAllocated
<1> QED BY RangesInvariant, TypedFreeable, PTL

-----------------------------------------------------------------------------
(* Owners *)

(* Objects that are all different and share no block, of which the ranges' *)
(* blocks are live. *)
Sound(b, h) ==
    /\ \A i, j \in DOMAIN b : i # j => b[i] # b[j] /\ Held(b[i]) \cap Held(b[j]) = {}
    /\ \A i \in DOMAIN b : ~object_isvalue(b[i]) => ~h[b[i].loc + 1]

Apart(b, c) ==
    \A i \in DOMAIN b, j \in DOMAIN c : b[i] # c[j] /\ Held(b[i]) \cap Held(c[j]) = {}

HeldIn(b, A) == \A i \in DOMAIN b : Held(b[i]) \subseteq A

LEMMA SoundConcat ==
    ASSUME NEW S, NEW b \in Seq(S), NEW c \in Seq(S), NEW h,
           Sound(b, h), Sound(c, h), Apart(b, c)
    PROVE  Sound(b \o c, h)
<1>1. /\ Len(b) \in Nat /\ Len(c) \in Nat
      /\ DOMAIN b = 1 .. Len(b) /\ DOMAIN c = 1 .. Len(c)
  OBVIOUS
<1>2. b \o c \in Seq(S) /\ Len(b \o c) = Len(b) + Len(c)
  BY ConcatProperties
<1>3. DOMAIN (b \o c) = 1 .. Len(b) + Len(c)
  BY <1>2, LenProperties
<1>4. \A i \in 1 .. Len(b) + Len(c) :
          (b \o c)[i] = IF i <= Len(b) THEN b[i] ELSE c[i - Len(b)]
  BY ConcatProperties
<1> DEFINE d == b \o c
<1> HIDE DEF d
<1>5. ASSUME NEW i \in DOMAIN d PROVE ~object_isvalue(d[i]) => ~h[d[i].loc + 1]
  <2>1. CASE i <= Len(b)
    BY <1>1, <1>3, <1>4, <1>5, <2>1 DEF Sound, d
  <2>2. CASE ~(i <= Len(b))
    <3>1. i - Len(b) \in DOMAIN c /\ d[i] = c[i - Len(b)]
      BY <1>1, <1>3, <1>4, <1>5, <2>2 DEF d
    <3> QED BY <3>1 DEF Sound
  <2> QED BY <2>1, <2>2
<1>6. ASSUME NEW i \in DOMAIN d, NEW j \in DOMAIN d, i # j
      PROVE  d[i] # d[j] /\ Held(d[i]) \cap Held(d[j]) = {}
  <2>1. i \in 1 .. Len(b) + Len(c) /\ j \in 1 .. Len(b) + Len(c)
    BY <1>3, <1>6 DEF d
  <2>2. /\ i <= Len(b) => i \in DOMAIN b /\ d[i] = b[i]
        /\ j <= Len(b) => j \in DOMAIN b /\ d[j] = b[j]
        /\ ~(i <= Len(b)) => i - Len(b) \in DOMAIN c /\ d[i] = c[i - Len(b)]
        /\ ~(j <= Len(b)) => j - Len(b) \in DOMAIN c /\ d[j] = c[j - Len(b)]
    BY <1>1, <1>4, <2>1 DEF d
  <2>3. CASE i <= Len(b) /\ j <= Len(b)
    BY <1>6, <2>2, <2>3 DEF Sound
  <2>4. CASE i <= Len(b) /\ ~(j <= Len(b))
    BY <2>2, <2>4 DEF Apart
  <2>5. CASE ~(i <= Len(b)) /\ j <= Len(b)
    BY <2>2, <2>5 DEF Apart
  <2>6. CASE ~(i <= Len(b)) /\ ~(j <= Len(b))
    <3>1. i - Len(b) # j - Len(b)
      BY <1>1, <1>6, <2>1
    <3> QED BY <2>2, <2>6, <3>1 DEF Sound
  <2> QED BY <2>3, <2>4, <2>5, <2>6
<1> QED BY <1>5, <1>6 DEF Sound, d

LEMMA ApartConcat ==
    ASSUME NEW S, NEW b \in Seq(S), NEW c \in Seq(S), NEW d, Apart(b, d), Apart(c, d)
    PROVE  Apart(b \o c, d)
<1>1. /\ Len(b) \in Nat /\ Len(c) \in Nat
      /\ DOMAIN b = 1 .. Len(b) /\ DOMAIN c = 1 .. Len(c)
  OBVIOUS
<1>2. b \o c \in Seq(S) /\ Len(b \o c) = Len(b) + Len(c)
  BY ConcatProperties
<1>3. DOMAIN (b \o c) = 1 .. Len(b) + Len(c)
  BY <1>2, LenProperties
<1>4. \A i \in 1 .. Len(b) + Len(c) :
          (b \o c)[i] = IF i <= Len(b) THEN b[i] ELSE c[i - Len(b)]
  BY ConcatProperties
<1>5. ASSUME NEW i \in DOMAIN (b \o c)
      PROVE  \/ \E k \in DOMAIN b : (b \o c)[i] = b[k]
             \/ \E k \in DOMAIN c : (b \o c)[i] = c[k]
  <2>1. CASE i <= Len(b)
    BY <1>1, <1>3, <1>4, <1>5, <2>1
  <2>2. CASE ~(i <= Len(b))
    <3>1. i - Len(b) \in DOMAIN c
      BY <1>1, <1>3, <1>5, <2>2
    <3> QED BY <1>3, <1>4, <1>5, <2>2, <3>1
  <2> QED BY <2>1, <2>2
<1> QED BY <1>5 DEF Apart

(* Objects of other blocks are other objects. *)
LEMMA ApartByBlocks ==
    ASSUME NEW b, NEW c, NEW A, NEW B, HeldIn(b, A), HeldIn(c, B), A \cap B = {},
           (\A i \in DOMAIN b : Held(b[i]) # {}) \/ (\A i \in DOMAIN c : Held(c[i]) # {})
    PROVE  Apart(b, c)
<1> SUFFICES ASSUME NEW i \in DOMAIN b, NEW j \in DOMAIN c
             PROVE  b[i] # c[j] /\ Held(b[i]) \cap Held(c[j]) = {}
  BY DEF Apart
<1>1. Held(b[i]) \subseteq A /\ Held(c[j]) \subseteq B
  BY DEF HeldIn
<1>2. Held(b[i]) \cap Held(c[j]) = {}
  BY <1>1
<1>3. Held(b[i]) # {} \/ Held(c[j]) # {}
  OBVIOUS
<1>4. b[i] # c[j]
  <2> SUFFICES ASSUME b[i] = c[j] PROVE FALSE
    OBVIOUS
  <2>1. Held(b[i]) = Held(c[j])
    OBVIOUS
  <2> QED BY <1>2, <1>3, <2>1
<1> QED BY <1>2, <1>4

(* Every object of a piece is one of the whole. *)
LEMMA PieceOf ==
    ASSUME NEW S, NEW b \in Seq(S), NEW l \in Nat, NEW u \in Nat, l >= 1, u <= Len(b)
    PROVE  /\ DOMAIN SubSeq(b, l, u) = 1 .. (IF l <= u THEN u - l + 1 ELSE 0)
           /\ \A i \in DOMAIN SubSeq(b, l, u) :
                 /\ l + i - 1 \in l .. u /\ l + i - 1 \in DOMAIN b
                 /\ SubSeq(b, l, u)[i] = b[l + i - 1]
<1>1. Len(b) \in Nat /\ DOMAIN b = 1 .. Len(b)
  OBVIOUS
<1>2. /\ SubSeq(b, l, u) \in Seq(S)
      /\ Len(SubSeq(b, l, u)) = IF l <= u THEN u - l + 1 ELSE 0
      /\ \A i \in 1 .. u - l + 1 : SubSeq(b, l, u)[i] = b[l + i - 1]
  BY PieceIn
<1>3. DOMAIN SubSeq(b, l, u) = 1 .. (IF l <= u THEN u - l + 1 ELSE 0)
  BY <1>2, LenProperties
<1>4. \A i \in DOMAIN SubSeq(b, l, u) :
          i \in 1 .. u - l + 1 /\ l + i - 1 \in l .. u /\ l + i - 1 \in 1 .. Len(b)
  BY <1>1, <1>3
<1> QED BY <1>1, <1>2, <1>3, <1>4

LEMMA PieceSound ==
    ASSUME NEW S, NEW b \in Seq(S), NEW l \in Nat, NEW u \in Nat, l >= 1, u <= Len(b),
           NEW h, NEW g, Sound(b, h),
           \A i \in l .. u : ~object_isvalue(b[i]) /\ ~h[b[i].loc + 1] => ~g[b[i].loc + 1]
    PROVE  Sound(SubSeq(b, l, u), g)
<1> DEFINE p == SubSeq(b, l, u)
<1>1. \A i \in DOMAIN p :
          l + i - 1 \in l .. u /\ l + i - 1 \in DOMAIN b /\ p[i] = b[l + i - 1]
  BY PieceOf
<1>2. \A i \in DOMAIN p : i \in Nat
  BY PieceOf
<1> HIDE DEF p
<1>3. ASSUME NEW i \in DOMAIN p PROVE ~object_isvalue(p[i]) => ~g[p[i].loc + 1]
  BY <1>1 DEF Sound
<1>4. ASSUME NEW i \in DOMAIN p, NEW j \in DOMAIN p, i # j
      PROVE  p[i] # p[j] /\ Held(p[i]) \cap Held(p[j]) = {}
  <2>1. l + i - 1 # l + j - 1
    BY <1>2, <1>4
  <2> QED BY <1>1, <2>1 DEF Sound
<1> QED BY <1>3, <1>4 DEF Sound, p

LEMMA PiecesApart ==
    ASSUME NEW S, NEW b \in Seq(S), NEW h, Sound(b, h), NEW u \in Nat, NEW l \in Nat,
           u <= Len(b), l >= 1, u < l
    PROVE  Apart(SubSeq(b, 1, u), SubSeq(b, l, Len(b)))
<1> DEFINE p == SubSeq(b, 1, u)
           q == SubSeq(b, l, Len(b))
<1>0. Len(b) \in Nat
  OBVIOUS
<1>1. \A i \in DOMAIN p : 1 + i - 1 \in 1 .. u /\ 1 + i - 1 \in DOMAIN b /\ p[i] = b[1 + i - 1]
  BY PieceOf
<1>2. \A i \in DOMAIN q :
          l + i - 1 \in l .. Len(b) /\ l + i - 1 \in DOMAIN b /\ q[i] = b[l + i - 1]
  BY <1>0, PieceOf
<1> HIDE DEF p, q
<1>3. ASSUME NEW i \in DOMAIN p, NEW j \in DOMAIN q
      PROVE  p[i] # q[j] /\ Held(p[i]) \cap Held(q[j]) = {}
  <2>1. 1 + i - 1 # l + j - 1
    BY <1>1, <1>2
  <2> QED BY <1>1, <1>2, <2>1 DEF Sound
<1> QED BY <1>3 DEF Apart, p, q

(* What is found is the first object that contains the offset. *)
LEMMA Found ==
    ASSUME NEW S, NEW b \in Seq(S), NEW e
    PROVE  /\ object_arr_index(b, e) = 0 => \A i \in 1 .. Len(b) : ~object_contains(b[i], e)
           /\ object_arr_index(b, e) # 0 =>
                 /\ object_arr_index(b, e) \in 1 .. Len(b)
                 /\ object_contains(b[object_arr_index(b, e)], e)
                 /\ \A i \in 1 .. object_arr_index(b, e) - 1 : ~object_contains(b[i], e)
<1> DEFINE I == {i \in 1 .. Len(b) : object_contains(b[i], e)}
           m == Min(I)
<1>0. Len(b) \in Nat
  OBVIOUS
<1>1. I \in SUBSET Nat /\ 0 \notin I
  BY <1>0
<1> HIDE DEF I
<1>2. ASSUME I # {} PROVE m \in I /\ \A i \in I : m <= i
  <2>1. \E x \in I : \A y \in I : x <= y
    BY <1>1, <1>2, LeastNumber
  <2> QED BY <2>1 DEF Min
<1>3. object_arr_index(b, e) = IF I # {} THEN m ELSE 0
  BY DEF object_arr_index, SelectInSeq, I
<1> HIDE DEF m
<1>4. CASE I = {}
  BY <1>3, <1>4 DEF I
<1>5. CASE I # {}
  <2>1. m \in I /\ m # 0 /\ \A i \in I : m <= i
    BY <1>1, <1>2, <1>5
  <2>2. m \in 1 .. Len(b) /\ object_contains(b[m], e)
    BY <2>1 DEF I
  <2>3. ASSUME NEW i \in 1 .. m - 1 PROVE ~object_contains(b[i], e)
    <3>1. i \in 1 .. Len(b) /\ ~(m <= i)
      BY <1>0, <2>2
    <3>2. i \notin I
      BY <2>1, <3>1
    <3> QED BY <3>1, <3>2 DEF I
  <2> QED BY <1>3, <1>5, <2>1, <2>2, <2>3
<1> QED BY <1>4, <1>5

LEMMA FoundUpperincl ==
    ASSUME NEW S, NEW b \in Seq(S), NEW e, object_arr_index_upperincl(b, e) # 0
    PROVE  /\ object_arr_index_upperincl(b, e) \in 1 .. Len(b)
           /\ object_contains_upperincl(b[object_arr_index_upperincl(b, e)], e)
<1> DEFINE I == {i \in 1 .. Len(b) : object_contains_upperincl(b[i], e)}
<1>0. Len(b) \in Nat
  OBVIOUS
<1>1. I \in SUBSET Nat
  BY <1>0
<1> HIDE DEF I
<1>2. object_arr_index_upperincl(b, e) = IF I # {} THEN Min(I) ELSE 0
  BY DEF object_arr_index_upperincl, SelectInSeq, I
<1>3. object_arr_index_upperincl(b, e) \in I
  BY <1>1, <1>2, MinIn
<1> QED BY <1>3 DEF I

-----------------------------------------------------------------------------
(* Looking at a cell *)

LEMMA OwnCell ==
    ASSUME NEW e \in Tallies, NEW v
    PROVE  object_contains(object_value_create(e, v), e)
<1> DEFINE o == object_value_create(e, v)
<1>1. o.offset = e /\ object_size(o) = constant(1) /\ e.num \in Int
  BY TallyFacts DEF object_value_create, object_size, object_isvalue
<1> HIDE DEF o
<1>2. object_upper(o).num = e.num + 1 /\ DOMAIN object_upper(o).map = DOMAIN e.map
  BY <1>1 DEF object_upper, sum_tally, map_sum, constant
<1>3. object_contains(o, e)
  BY <1>1, <1>2 DEF object_contains, math_lt, math_eq, math_le, variable_tally_eq
<1> QED BY <1>3 DEF o

(* A range with a fresh block, or nothing. *)
IsFresh(part, a) ==
    \/ part = <<>>
    \/ \E o \in RangesOf(a) : part = <<o>> /\ o.loc = a

(* What object_upto asserts makes the part before a cell a range of its    *)
(* own, and the cell is not in it.                                         *)
LEMMA UptoFresh ==
    ASSUME NEW n \in Nat, NEW o \in ObjectsOf(n), ~object_isvalue(o), NEW e \in Tallies,
           NEW a \in Nat, a >= 1, object_upto_ok(o, e)
    PROVE  /\ IsFresh(object_upto(o, e, a), a)
           /\ \A i \in DOMAIN object_upto(o, e, a) :
                 ~object_contains(object_upto(o, e, a)[i], e)
<1> DEFINE q == object_range_create(o.offset, difference(e, o.offset), a)
<1>1. object_upto(o, e, a) = <<>> \/ object_upto(o, e, a) = <<q>>
  BY DEF object_upto, object_upto_ok
<1>2. o.offset \in Tallies /\ difference(e, o.offset) \in Tallies
  BY ObjectFacts, DifferenceIn
<1>3. q \in RangesOf(a) /\ q.loc = a
  BY <1>2 DEF RangesOf, object_range_create
<1>4. /\ q.offset = o.offset /\ object_size(q) = difference(e, o.offset)
      /\ e.num \in Int /\ o.offset.num \in Int
  BY <1>2, TallyFacts DEF object_range_create, object_size, object_isvalue
<1> HIDE DEF q
<1>5. object_upper(q).num = e.num
  BY <1>4 DEF object_upper, difference, sum_tally, neg_tally
<1>6. ~object_contains(q, e)
  BY <1>4, <1>5 DEF object_contains, math_lt, math_eq, math_le, variable_tally_eq
<1>7. CASE object_upto(o, e, a) = <<>>
  BY <1>7 DEF IsFresh
<1>8. CASE object_upto(o, e, a) = <<q>>
  <2>1. DOMAIN <<q>> = {1} /\ <<q>>[1] = q
    OBVIOUS
  <2> QED BY <1>3, <1>6, <1>8, <2>1 DEF IsFresh
<1> QED BY <1>1, <1>7, <1>8

LEMMA FromFresh ==
    ASSUME NEW n \in Nat, NEW o \in ObjectsOf(n), ~object_isvalue(o), NEW e \in Tallies,
           NEW a \in Nat, a >= 1, object_from_ok(o, e)
    PROVE  IsFresh(object_from(o, e, a), a)
<1> DEFINE q == object_range_create(e, difference(object_upper(o), e), a)
<1>1. object_from(o, e, a) = <<>> \/ object_from(o, e, a) = <<q>>
  BY DEF object_from, object_from_ok
<1>2. object_upper(o) \in Tallies /\ difference(object_upper(o), e) \in Tallies
  BY ObjectFacts, DifferenceIn
<1>3. q \in RangesOf(a) /\ q.loc = a
  BY <1>2 DEF RangesOf, object_range_create
<1> HIDE DEF q
<1> QED BY <1>1, <1>3 DEF IsFresh

(* A fresh part holds only its block, which is live if it was just made    *)
(* and is not freed since.                                                 *)
LEMMA FreshFacts ==
    ASSUME NEW a \in Nat, a >= 1, NEW part, IsFresh(part, a)
    PROVE  /\ HeldIn(part, {a})
           /\ \A i \in DOMAIN part : Held(part[i]) # {}
           /\ \A h : (part # <<>> => ~h[a + 1]) => Sound(part, h)
<1>1. CASE part = <<>>
  <2>1. DOMAIN part = {}
    BY <1>1
  <2> QED BY <2>1 DEF HeldIn, Sound
<1>2. ASSUME NEW o \in RangesOf(a), part = <<o>>, o.loc = a
      PROVE  /\ HeldIn(part, {a})
             /\ \A i \in DOMAIN part : Held(part[i]) # {}
             /\ \A h : (part # <<>> => ~h[a + 1]) => Sound(part, h)
  <2>1. DOMAIN part = {1} /\ part[1] = o /\ part # <<>>
    BY <1>2
  <2>2. Held(o) = {a}
    BY <1>2 DEF RangesOf, Held, object_isvalue
  <2> QED BY <1>2, <2>1, <2>2 DEF HeldIn, Sound
<1> QED BY <1>1, <1>2 DEF IsFresh

(* What is not freed stays so, and a fresh block is live. *)
LEMMA AppendKeeps ==
    ASSUME NEW h, IsHeap(h)
    PROVE  /\ \A a \in 1 .. Len(h) : ~h[a] => ~Append(h, FALSE)[a]
           /\ ~Append(h, FALSE)[Len(h) + 1]
<1>1. h \in Seq(BOOLEAN)
  BY DEF IsHeap
<1>2. /\ \A a \in 1 .. Len(h) : Append(h, FALSE)[a] = h[a]
      /\ Append(h, FALSE)[Len(h) + 1] = FALSE
  BY <1>1, AppendProperties
<1> QED BY <1>2, Zenon

LEMMA GrownKeeps ==
    ASSUME NEW h, IsHeap(h), NEW part, IsFresh(part, Len(h))
    PROVE  /\ \A a \in 1 .. Len(h) : ~h[a] => ~Grown(h, part)[a]
           /\ part # <<>> => ~Grown(h, part)[Len(h) + 1]
           /\ part = <<>> => Grown(h, part) = h
           /\ part # <<>> => Len(Grown(h, part)) = Len(h) + 1
           /\ IsHeap(Grown(h, part))
<1>1. CASE part = <<>>
  BY <1>1 DEF Grown
<1>2. CASE part # <<>>
  <2>1. ~object_isvalue(part[1])
    BY <1>2 DEF IsFresh, RangesOf, object_isvalue
  <2>2. Grown(h, part) = Append(h, FALSE)
    BY <1>2, <2>1 DEF Grown
  <2> QED BY <1>2, <2>2, AppendKeeps, HeapAppend
<1> QED BY <1>1, <1>2

LEMMA DeallocKeeps ==
    ASSUME NEW b, NEW from \in Nat, NEW to \in Nat, NEW h, IsHeap(h), NEW a \in 1 .. Len(h),
           ~h[a], \A i \in from .. to : a - 1 \notin Held(b[i])
    PROVE  ~object_dealloc(b, from, to, h)[a]
<1> DEFINE gone == UNION {Held(b[i]) : i \in from .. to}
<1>1. a - 1 \notin gone
  OBVIOUS
<1> HIDE DEF gone
<1>2. object_dealloc(b, from, to, h) = [x \in 1 .. Len(h) |-> h[x] \/ x - 1 \in gone]
  BY DEF object_dealloc, gone
<1>3. object_dealloc(b, from, to, h)[a] = (h[a] \/ a - 1 \in gone)
  BY <1>2
<1> QED BY <1>1, <1>3, Zenon

LEMMA HeldInConcat ==
    ASSUME NEW S, NEW b \in Seq(S), NEW c \in Seq(S), NEW A, HeldIn(b, A), HeldIn(c, A)
    PROVE  HeldIn(b \o c, A)
<1>1. /\ Len(b) \in Nat /\ Len(c) \in Nat
      /\ DOMAIN b = 1 .. Len(b) /\ DOMAIN c = 1 .. Len(c)
  OBVIOUS
<1>2. b \o c \in Seq(S) /\ Len(b \o c) = Len(b) + Len(c)
  BY ConcatProperties
<1>3. DOMAIN (b \o c) = 1 .. Len(b) + Len(c)
  BY <1>2, LenProperties
<1>4. \A i \in 1 .. Len(b) + Len(c) :
          (b \o c)[i] = IF i <= Len(b) THEN b[i] ELSE c[i - Len(b)]
  BY ConcatProperties
<1>5. ASSUME NEW i \in DOMAIN (b \o c) PROVE Held((b \o c)[i]) \subseteq A
  <2>1. CASE i <= Len(b)
    BY <1>1, <1>3, <1>4, <1>5, <2>1 DEF HeldIn
  <2>2. CASE ~(i <= Len(b))
    <3>1. i - Len(b) \in DOMAIN c
      BY <1>1, <1>3, <1>5, <2>2
    <3> QED BY <1>3, <1>4, <1>5, <2>2, <3>1 DEF HeldIn
  <2> QED BY <2>1, <2>2
<1> QED BY <1>5 DEF HeldIn

LEMMA SoundHeldIn ==
    ASSUME NEW n \in Nat, NEW b \in Seq(ObjectsOf(n))
    PROVE  HeldIn(b, 1 .. n)
<1>1. \A i \in DOMAIN b : b[i] \in ObjectsOf(n)
  OBVIOUS
<1> QED BY <1>1, ObjectFacts DEF HeldIn

(* Blocks of the block's objects, and fresh ones. *)
Blocks(n, h) == 1 .. n \cup {x \in Nat : Len(h) <= x}

LEMMA FreshIn ==
    ASSUME NEW a \in Nat, NEW m \in Nat, a <= m, NEW part, IsFresh(part, a)
    PROVE  part \in Seq(ObjectsOf(m))
<1>1. RangesOf(a) \subseteq ObjectsOf(m)
  BY ObjectsGrow DEF ObjectsOf
<1>2. CASE part = <<>>
  BY <1>2
<1>3. ASSUME NEW o \in RangesOf(a), part = <<o>> PROVE part \in Seq(ObjectsOf(m))
  <2>1. o \in ObjectsOf(m)
    BY <1>1
  <2> QED BY <1>3, <2>1
<1> QED BY <1>2, <1>3 DEF IsFresh

(* The objects before others keep their places. *)
LEMMA PlaceKept ==
    ASSUME NEW S, NEW b \in Seq(S), NEW c \in Seq(S)
    PROVE  \A i \in 1 .. Len(b) : i \in 1 .. Len(b \o c) /\ (b \o c)[i] = b[i]
<1>1. /\ Len(b \o c) = Len(b) + Len(c)
      /\ \A i \in 1 .. Len(b) + Len(c) :
            (b \o c)[i] = IF i <= Len(b) THEN b[i] ELSE c[i - Len(b)]
  BY ConcatProperties
<1>2. Len(b) \in Nat /\ Len(c) \in Nat
  OBVIOUS
<1>3. \A i \in 1 .. Len(b) : i \in 1 .. Len(b) + Len(c) /\ i <= Len(b)
  BY <1>2
<1> QED BY <1>1, <1>3

(* The split of a range keeps one owner for every block, and the cell is a *)
(* value. *)
LEMMA SplitSound ==
    ASSUME NEW n \in Nat, NEW b \in Seq(ObjectsOf(n)), NEW e \in Tallies,
           NEW h, IsHeap(h), n < Len(h), Sound(b, h),
           NEW index \in 1 .. Len(b), ~object_isvalue(b[index]),
           object_upto_ok(b[index], e),
           object_from_ok(b[index], sum_tally(e, constant(1))),
           \A i \in 1 .. index - 1 : ~object_contains(b[i], e)
    PROVE  /\ Sound(Split(b, index, e, h).arr, Split(b, index, e, h).freed)
           /\ HeldIn(Split(b, index, e, h).arr, Blocks(n, h))
           /\ \E p \in 1 .. Len(Split(b, index, e, h).arr) :
                 /\ object_isvalue(Split(b, index, e, h).arr[p])
                 /\ object_contains(Split(b, index, e, h).arr[p], e)
                 /\ \A i \in 1 .. p - 1 : ~object_contains(Split(b, index, e, h).arr[i], e)
<1> DEFINE upto     == object_upto(b[index], e, Len(h))
           h1       == Grown(h, upto)
           observed == object_value_create(e, value_ptr_create(Len(h1)))
           h2       == Append(h1, FALSE)
           after    == object_from(b[index], sum_tally(e, constant(1)), Len(h2))
           h3       == Grown(h2, after)
           h4       == object_dealloc(b, index, index, h3)
           before   == SubSeq(b, 1, index - 1)
           behind   == SubSeq(b, index + 1, Len(b))
           arr      == before \o upto \o <<observed>> \o after \o behind
<1>0. Len(b) \in Nat /\ Len(h) \in Nat /\ Len(h) >= 1 /\ b[index] \in ObjectsOf(n)
      /\ index \in Nat /\ index \in DOMAIN b
  BY DEF IsHeap
<1>1. IsFresh(upto, Len(h)) /\ \A i \in DOMAIN upto : ~object_contains(upto[i], e)
  BY <1>0, UptoFresh
<1>2. /\ \A a \in 1 .. Len(h) : ~h[a] => ~h1[a]
      /\ upto # <<>> => ~h1[Len(h) + 1]
      /\ upto = <<>> => Len(h1) = Len(h)
      /\ upto # <<>> => Len(h1) = Len(h) + 1
      /\ IsHeap(h1)
  BY <1>1, GrownKeeps
<1>3. Len(h1) \in Nat /\ Len(h1) >= 1 /\ Len(h1) >= Len(h)
  BY <1>0, <1>2
<1>4. /\ \A a \in 1 .. Len(h1) : ~h1[a] => ~h2[a]
      /\ IsHeap(h2) /\ Len(h2) = Len(h1) + 1
  BY <1>2, AppendKeeps, HeapAppend
<1>5. sum_tally(e, constant(1)) \in Tallies /\ Len(h2) \in Nat /\ Len(h2) >= 1
  BY <1>3, <1>4, SumIn, NumberIn
<1>6. IsFresh(after, Len(h2))
  BY <1>0, <1>5, FromFresh
<1>7. /\ \A a \in 1 .. Len(h2) : ~h2[a] => ~h3[a]
      /\ after # <<>> => ~h3[Len(h2) + 1] /\ Len(h3) = Len(h2) + 1
      /\ after = <<>> => Len(h3) = Len(h2)
      /\ IsHeap(h3)
  BY <1>4, <1>6, GrownKeeps
<1>8. Held(observed) = {Len(h1)} /\ object_isvalue(observed)
  BY DEF Held, object_value_create, object_isvalue, value_ptr_create, value_islocation
<1>9. object_contains(observed, e)
  BY OwnCell
<1> HIDE DEF upto, h1, observed, h2, after, h3
<1>10. \A a \in 1 .. Len(h3) : ~h3[a] /\ a - 1 \notin Held(b[index]) => ~h4[a]
  BY <1>0, <1>7, DeallocKeeps
<1>11. Held(b[index]) \subseteq 1 .. n
  BY <1>0, ObjectFacts
<1> HIDE DEF h4
(* The heap afterwards: what other objects hold is as it was. *)
<1>12. \A x \in 1 .. n : x \notin Held(b[index]) /\ ~h[x + 1] => ~h4[x + 1]
  <2> TAKE x \in 1 .. n
  <2>1. x + 1 \in 1 .. Len(h) /\ x + 1 \in 1 .. Len(h1) /\ x + 1 \in 1 .. Len(h2)
        /\ x + 1 \in 1 .. Len(h3) /\ x + 1 - 1 = x
    BY <1>0, <1>3, <1>4, <1>7
  <2> QED BY <1>2, <1>4, <1>7, <1>10, <2>1
<1>13. upto # <<>> => ~h4[Len(h) + 1]
  <2> SUFFICES ASSUME upto # <<>> PROVE ~h4[Len(h) + 1]
    OBVIOUS
  <2>1. Len(h) + 1 \in 1 .. Len(h1) /\ Len(h) + 1 \in 1 .. Len(h2)
        /\ Len(h) + 1 \in 1 .. Len(h3) /\ Len(h) + 1 - 1 \notin Held(b[index])
    BY <1>0, <1>2, <1>3, <1>4, <1>7, <1>11
  <2> QED BY <1>2, <1>4, <1>7, <1>10, <2>1
<1>14. after # <<>> => ~h4[Len(h2) + 1]
  <2> SUFFICES ASSUME after # <<>> PROVE ~h4[Len(h2) + 1]
    OBVIOUS
  <2>1. Len(h2) + 1 \in 1 .. Len(h3) /\ Len(h2) + 1 - 1 \notin Held(b[index])
    BY <1>0, <1>3, <1>4, <1>7, <1>11
  <2> QED BY <1>7, <1>10, <2>1
(* The five parts. *)
<1>20. /\ before \in Seq(ObjectsOf(n)) /\ behind \in Seq(ObjectsOf(n))
       /\ DOMAIN before = 1 .. index - 1
       /\ \A i \in DOMAIN before : before[i] = b[i]
  <2>1. before \in Seq(ObjectsOf(n)) /\ behind \in Seq(ObjectsOf(n))
    BY <1>0, PieceIn
  <2>2. /\ DOMAIN before = 1 .. (IF 1 <= index - 1 THEN index - 1 - 1 + 1 ELSE 0)
        /\ \A i \in DOMAIN before : before[i] = b[1 + i - 1] /\ 1 + i - 1 \in 1 .. index - 1
    BY <1>0, PieceOf
  <2>3. DOMAIN before = 1 .. index - 1
    BY <1>0, <2>2
  <2>4. \A i \in DOMAIN before : 1 + i - 1 = i
    BY <2>3
  <2> QED BY <2>1, <2>2, <2>3, <2>4
<1>21. \A i \in DOMAIN b : i # index /\ ~object_isvalue(b[i]) /\ ~h[b[i].loc + 1]
                              => ~h4[b[i].loc + 1]
  <2> SUFFICES ASSUME NEW i \in DOMAIN b, i # index, ~object_isvalue(b[i]), ~h[b[i].loc + 1]
               PROVE  ~h4[b[i].loc + 1]
    OBVIOUS
  <2>1. Held(b[i]) = {b[i].loc} /\ Held(b[i]) \subseteq 1 .. n
    BY ObjectFacts DEF Held
  <2>2. Held(b[i]) \cap Held(b[index]) = {}
    BY <1>0 DEF Sound
  <2> QED BY <1>12, <2>1, <2>2
<1>22. Sound(before, h4) /\ Sound(behind, h4) /\ Apart(before, behind)
  <2>1. /\ \A i \in 1 .. index - 1 : i # index /\ i \in DOMAIN b
        /\ \A i \in index + 1 .. Len(b) : i # index /\ i \in DOMAIN b
        /\ index - 1 \in Nat /\ index + 1 \in Nat /\ index - 1 <= Len(b) /\ index - 1 < index + 1
        /\ index + 1 >= 1
    BY <1>0
  <2>2. \A i \in 1 .. index - 1 :
            ~object_isvalue(b[i]) /\ ~h[b[i].loc + 1] => ~h4[b[i].loc + 1]
    BY <1>21, <2>1
  <2>3. \A i \in index + 1 .. Len(b) :
            ~object_isvalue(b[i]) /\ ~h[b[i].loc + 1] => ~h4[b[i].loc + 1]
    BY <1>21, <2>1
  <2>4. 1 \in Nat /\ 1 >= 1 /\ Len(b) <= Len(b)
    BY <1>0
  <2>5. Sound(before, h4)
    BY <2>1, <2>2, <2>4, PieceSound
  <2>6. Sound(behind, h4)
    BY <1>0, <2>1, <2>3, <2>4, PieceSound
  <2> QED BY <2>1, <2>5, <2>6, PiecesApart
<1> HIDE DEF before, behind
<1>23. HeldIn(before, 1 .. n) /\ HeldIn(behind, 1 .. n)
  BY <1>20, SoundHeldIn
<1>24. /\ HeldIn(upto, {Len(h)}) /\ (\A i \in DOMAIN upto : Held(upto[i]) # {})
       /\ Sound(upto, h4)
  BY <1>0, <1>1, <1>13, FreshFacts
<1>25. /\ HeldIn(after, {Len(h2)}) /\ (\A i \in DOMAIN after : Held(after[i]) # {})
       /\ Sound(after, h4)
  BY <1>5, <1>6, <1>14, FreshFacts
<1>26. /\ DOMAIN <<observed>> = {1} /\ <<observed>>[1] = observed
       /\ HeldIn(<<observed>>, {Len(h1)})
       /\ (\A i \in DOMAIN <<observed>> : Held(<<observed>>[i]) # {})
       /\ Sound(<<observed>>, h4)
  <2> DEFINE o1 == <<observed>>
  <2>1. DOMAIN o1 = {1} /\ o1[1] = observed
    OBVIOUS
  <2> HIDE DEF o1
  <2>2. /\ HeldIn(o1, {Len(h1)}) /\ (\A i \in DOMAIN o1 : Held(o1[i]) # {})
        /\ Sound(o1, h4)
    BY <1>8, <2>1 DEF HeldIn, Sound
  <2> QED BY <2>1, <2>2 DEF o1
(* All together. *)
<1> DEFINE S == ObjectsOf(Len(h2))
<1>27. /\ before \in Seq(S) /\ upto \in Seq(S) /\ <<observed>> \in Seq(S) /\ observed \in S
       /\ after \in Seq(S) /\ behind \in Seq(S)
  <2>1. n \in Nat /\ n <= Len(h2) /\ Len(h) <= Len(h2) /\ Len(h1) \in 1 .. Len(h2)
    BY <1>0, <1>3, <1>4, <1>5
  <2>2. ObjectsOf(n) \subseteq S
    BY <1>5, <2>1, ObjectsGrow
  <2>3. value_ptr_create(Len(h1)) \in Contents(Len(h2))
    BY <2>1 DEF Contents
  <2>4. observed \in S
    BY <1>5, <2>3, ValueMade DEF observed
  <2> HIDE DEF S
  <2>5. <<observed>> \in Seq(S)
    BY <2>4
  <2>6. before \in Seq(S) /\ behind \in Seq(S)
    BY <1>20, <2>2, SeqMonotonic
  <2>7. upto \in Seq(S) /\ after \in Seq(S)
    BY <1>0, <1>1, <1>5, <1>6, <2>1, FreshIn DEF S
  <2> QED BY <2>4, <2>5, <2>6, <2>7
<1> HIDE DEF S
<1>28. /\ Apart(before, upto) /\ Apart(before, <<observed>>) /\ Apart(before, after)
       /\ Apart(upto, <<observed>>) /\ Apart(upto, after) /\ Apart(upto, behind)
       /\ Apart(<<observed>>, after) /\ Apart(<<observed>>, behind)
       /\ Apart(after, behind)
  <2> DEFINE A == 1 .. n
             B == {Len(h)}
             C == {Len(h1)}
             D == {Len(h2)}
  <2>1. /\ A \cap B = {} /\ A \cap C = {} /\ A \cap D = {} /\ B \cap D = {} /\ C \cap D = {}
        /\ B \cap A = {} /\ C \cap A = {} /\ D \cap A = {}
    BY <1>0, <1>3, <1>4
  <2>2. upto # <<>> => B \cap C = {}
    BY <1>0, <1>2
  <2>3. upto = <<>> => Apart(upto, <<observed>>)
    <3>1. upto = <<>> => DOMAIN upto = {}
      OBVIOUS
    <3> QED BY <3>1 DEF Apart
  <2> HIDE DEF A, B, C, D
  <2>4. /\ HeldIn(before, A) /\ HeldIn(behind, A) /\ HeldIn(upto, B)
        /\ HeldIn(<<observed>>, C) /\ HeldIn(after, D)
    BY <1>23, <1>24, <1>25, <1>26 DEF A, B, C, D
  <2>5. Apart(before, upto) /\ Apart(before, <<observed>>) /\ Apart(before, after)
    BY <1>24, <1>25, <1>26, <2>1, <2>4, ApartByBlocks
  <2>6. Apart(upto, after) /\ Apart(upto, behind)
    BY <1>24, <2>1, <2>4, ApartByBlocks
  <2>7. Apart(<<observed>>, after) /\ Apart(<<observed>>, behind)
    BY <1>26, <2>1, <2>4, ApartByBlocks
  <2>8. Apart(after, behind)
    BY <1>25, <2>1, <2>4, ApartByBlocks
  <2>9. upto # <<>> => Apart(upto, <<observed>>)
    BY <1>24, <2>2, <2>4, ApartByBlocks
  <2> QED BY <2>3, <2>5, <2>6, <2>7, <2>8, <2>9
<1>29. /\ HeldIn(before, Blocks(n, h)) /\ HeldIn(upto, Blocks(n, h))
       /\ HeldIn(<<observed>>, Blocks(n, h)) /\ HeldIn(after, Blocks(n, h))
       /\ HeldIn(behind, Blocks(n, h))
  <2>1. /\ 1 .. n \subseteq Blocks(n, h) /\ {Len(h)} \subseteq Blocks(n, h)
        /\ {Len(h1)} \subseteq Blocks(n, h) /\ {Len(h2)} \subseteq Blocks(n, h)
    BY <1>0, <1>3, <1>4 DEF Blocks
  <2> QED BY <1>23, <1>24, <1>25, <1>26, <2>1 DEF HeldIn
<1> DEFINE c2 == before \o upto
           c3 == c2 \o <<observed>>
           c4 == c3 \o after
<1>30. /\ c2 \in Seq(S) /\ Sound(c2, h4) /\ HeldIn(c2, Blocks(n, h))
       /\ Apart(c2, <<observed>>) /\ Apart(c2, after) /\ Apart(c2, behind)
  BY <1>22, <1>24, <1>27, <1>28, <1>29, ConcatProperties, SoundConcat, HeldInConcat, ApartConcat
<1>33. \A i \in 1 .. Len(c2) : ~object_contains(c2[i], e)
  <2>1. \A i \in 1 .. Len(before) + Len(upto) :
            c2[i] = IF i <= Len(before) THEN before[i] ELSE upto[i - Len(before)]
    BY <1>27, ConcatProperties
  <2>2. /\ Len(c2) = Len(before) + Len(upto) /\ Len(before) \in Nat /\ Len(upto) \in Nat
        /\ DOMAIN upto = 1 .. Len(upto) /\ DOMAIN before = 1 .. Len(before)
    BY <1>27, ConcatProperties
  <2> HIDE DEF c2
  <2> TAKE i \in 1 .. Len(c2)
  <2>3. CASE i <= Len(before)
    <3>1. i \in DOMAIN before /\ i \in 1 .. Len(before) + Len(upto)
      BY <2>2, <2>3
    <3> QED BY <1>20, <2>1, <2>3, <3>1
  <2>4. CASE ~(i <= Len(before))
    <3>1. i - Len(before) \in DOMAIN upto /\ i \in 1 .. Len(before) + Len(upto)
      BY <2>2, <2>4
    <3> QED BY <1>1, <2>1, <2>4, <3>1
  <2> QED BY <2>3, <2>4
<1> HIDE DEF c2
<1>31. /\ c3 \in Seq(S) /\ Sound(c3, h4) /\ HeldIn(c3, Blocks(n, h))
       /\ Apart(c3, after) /\ Apart(c3, behind)
  BY <1>26, <1>27, <1>28, <1>29, <1>30,
     ConcatProperties, SoundConcat, HeldInConcat, ApartConcat
<1>34. /\ Len(c2) \in Nat /\ Len(c3) = Len(c2) + 1 /\ c3[Len(c2) + 1] = observed
       /\ \A i \in 1 .. Len(c2) : c3[i] = c2[i]
  <2>1. c3 = Append(c2, observed)
    BY <1>27, <1>30, AppendIsConcat
  <2> HIDE DEF c3
  <2> QED BY <1>27, <1>30, <2>1, AppendProperties
<1> HIDE DEF c3
<1>32. c4 \in Seq(S) /\ Sound(c4, h4) /\ HeldIn(c4, Blocks(n, h)) /\ Apart(c4, behind)
  BY <1>25, <1>27, <1>28, <1>29, <1>31,
     ConcatProperties, SoundConcat, HeldInConcat, ApartConcat
<1> DEFINE c5 == c4 \o behind
<1>35. Sound(c5, h4) /\ HeldIn(c5, Blocks(n, h))
  <2> HIDE DEF c4
  <2> QED BY <1>22, <1>27, <1>29, <1>32, SoundConcat, HeldInConcat
<1> HIDE DEF c4, c5
<1>36. \E p \in 1 .. Len(c5) :
           /\ object_isvalue(c5[p]) /\ object_contains(c5[p], e)
           /\ \A i \in 1 .. p - 1 : ~object_contains(c5[i], e)
  <2>1. \A i \in 1 .. Len(c3) : i \in 1 .. Len(c5) /\ c5[i] = c3[i]
    <3>1. \A i \in 1 .. Len(c3) : i \in 1 .. Len(c4) /\ c4[i] = c3[i]
      BY <1>27, <1>31, PlaceKept DEF c4
    <3>2. \A i \in 1 .. Len(c4) : i \in 1 .. Len(c5) /\ c5[i] = c4[i]
      BY <1>27, <1>32, PlaceKept DEF c5
    <3> QED BY <3>1, <3>2
  <2>2. 1 .. Len(c2) + 1 - 1 = 1 .. Len(c2)
    BY <1>34
  <2>3. /\ Len(c2) + 1 \in 1 .. Len(c3)
        /\ \A i \in 1 .. Len(c2) : i \in 1 .. Len(c3)
    BY <1>34
  <2>4. /\ object_isvalue(c5[Len(c2) + 1]) /\ object_contains(c5[Len(c2) + 1], e)
        /\ \A i \in 1 .. Len(c2) : ~object_contains(c5[i], e)
    BY <1>8, <1>9, <1>33, <1>34, <2>1, <2>3
  <2> QED BY <2>1, <2>2, <2>3, <2>4
<1>37. Split(b, index, e, h) = [arr |-> c5, freed |-> h4]
  BY DEF Split, c5, c4, c3, c2, upto, h1, observed, h2, after, h3, h4, before, behind
<1> QED BY <1>35, <1>36, <1>37

(* Looking at a cell keeps one owner for every block, and what the cell is *)
(* then looked up as is a value. *)
LEMMA ObserveSound ==
    ASSUME NEW n \in Nat, NEW b \in Seq(ObjectsOf(n)), NEW e \in Tallies,
           NEW h, IsHeap(h), n < Len(h), Sound(b, h), block_observe_ok(b, e, h)
    PROVE  /\ Sound(block_observe(b, e, h).arr, block_observe(b, e, h).freed)
           /\ HeldIn(block_observe(b, e, h).arr, Blocks(n, h))
           /\ \E p \in 1 .. Len(block_observe(b, e, h).arr) :
                 /\ object_isvalue(block_observe(b, e, h).arr[p])
                 /\ object_contains(block_observe(b, e, h).arr[p], e)
                 /\ \A i \in 1 .. p - 1 : ~object_contains(block_observe(b, e, h).arr[i], e)
<1> DEFINE index == object_arr_index(b, e)
<1>0. Len(b) \in Nat /\ DOMAIN b = 1 .. Len(b)
  OBVIOUS
<1>1. /\ index = 0 => \A i \in 1 .. Len(b) : ~object_contains(b[i], e)
      /\ index # 0 => /\ index \in 1 .. Len(b) /\ object_contains(b[index], e)
                      /\ \A i \in 1 .. index - 1 : ~object_contains(b[i], e)
  BY Found
<1>2. HeldIn(b, 1 .. n) /\ 1 .. n \subseteq Blocks(n, h)
  BY SoundHeldIn DEF Blocks
<1>3. HeldIn(b, Blocks(n, h))
  BY <1>2 DEF HeldIn
<1>4. CASE index = 0
  <2> DEFINE o == object_value_create(e, NoValue)
             a == Append(b, o)
  <2>1. Held(o) = {} /\ object_isvalue(o)
    BY DEF Held, object_value_create, object_isvalue, value_islocation, NoValue
  <2>2. object_contains(o, e)
    BY OwnCell
  <2>3. NoValue \in Contents(n)
    BY DEF Contents
  <2>4. o \in ObjectsOf(n)
    BY <2>3, ValueMade
  <2>5. block_observe(b, e, h) = [arr |-> a, freed |-> h]
    BY <1>4 DEF block_observe, index
  <2> HIDE DEF o
  <2>6. /\ Len(a) = Len(b) + 1 /\ a[Len(b) + 1] = o
        /\ \A i \in 1 .. Len(b) : a[i] = b[i]
        /\ a \in Seq(ObjectsOf(n))
    BY <2>4, AppendProperties
  <2>7. DOMAIN a = 1 .. Len(b) + 1
    BY <2>6, LenProperties
  <2> HIDE DEF a
  <2>8. \A i \in DOMAIN a : i \in 1 .. Len(b) \/ i = Len(b) + 1
    BY <1>0, <2>7
  <2>9. \A i \in 1 .. Len(b) : b[i] # o
    BY <1>1, <1>4, <2>2
  <2>10. Sound(a, h)
    <3>1. ASSUME NEW i \in DOMAIN a, NEW j \in DOMAIN a, i # j
          PROVE  a[i] # a[j] /\ Held(a[i]) \cap Held(a[j]) = {}
      <4>1. CASE i \in 1 .. Len(b) /\ j \in 1 .. Len(b)
        BY <1>0, <2>6, <3>1, <4>1 DEF Sound
      <4>2. CASE i = Len(b) + 1 /\ j \in 1 .. Len(b)
        BY <2>1, <2>6, <2>9, <4>2
      <4>3. CASE j = Len(b) + 1 /\ i \in 1 .. Len(b)
        BY <2>1, <2>6, <2>9, <4>3
      <4> QED BY <2>8, <3>1, <4>1, <4>2, <4>3
    <3>2. ASSUME NEW i \in DOMAIN a PROVE ~object_isvalue(a[i]) => ~h[a[i].loc + 1]
      <4>1. CASE i \in 1 .. Len(b)
        BY <1>0, <2>6, <4>1 DEF Sound
      <4>2. CASE i = Len(b) + 1
        BY <2>1, <2>6, <4>2
      <4> QED BY <2>8, <4>1, <4>2
    <3> QED BY <3>1, <3>2 DEF Sound
  <2>11. HeldIn(a, Blocks(n, h))
    <3> SUFFICES ASSUME NEW i \in DOMAIN a PROVE Held(a[i]) \subseteq Blocks(n, h)
      BY DEF HeldIn
    <3>1. CASE i \in 1 .. Len(b)
      BY <1>0, <1>3, <2>6, <3>1 DEF HeldIn
    <3>2. CASE i = Len(b) + 1
      BY <2>1, <2>6, <3>2
    <3> QED BY <2>8, <3>1, <3>2
  <2>12. /\ Len(b) + 1 \in 1 .. Len(a)
         /\ object_isvalue(a[Len(b) + 1]) /\ object_contains(a[Len(b) + 1], e)
    BY <1>0, <2>1, <2>2, <2>6
  <2>13. \A i \in 1 .. Len(b) + 1 - 1 : ~object_contains(a[i], e)
    BY <1>0, <1>1, <1>4, <2>6
  <2> QED BY <2>5, <2>10, <2>11, <2>12, <2>13
<1>5. CASE index # 0 /\ object_isvalue(b[index])
  <2>1. block_observe(b, e, h) = [arr |-> b, freed |-> h]
    BY <1>5 DEF block_observe, index
  <2> HIDE DEF index
  <2> QED BY <1>1, <1>3, <1>5, <2>1
<1>6. CASE index # 0 /\ ~object_isvalue(b[index])
  <2>1. block_observe(b, e, h) = Split(b, index, e, h)
    BY <1>6 DEF block_observe, index
  <2>2. object_upto_ok(b[index], e) /\ object_from_ok(b[index], sum_tally(e, constant(1)))
    BY <1>6 DEF block_observe_ok, index
  <2> HIDE DEF index
  <2>3. index \in 1 .. Len(b) /\ ~object_isvalue(b[index])
        /\ \A i \in 1 .. index - 1 : ~object_contains(b[i], e)
    BY <1>1, <1>6
  <2>4. /\ Sound(Split(b, index, e, h).arr, Split(b, index, e, h).freed)
        /\ HeldIn(Split(b, index, e, h).arr, Blocks(n, h))
        /\ \E p \in 1 .. Len(Split(b, index, e, h).arr) :
              /\ object_isvalue(Split(b, index, e, h).arr[p])
              /\ object_contains(Split(b, index, e, h).arr[p], e)
              /\ \A i \in 1 .. p - 1 : ~object_contains(Split(b, index, e, h).arr[i], e)
    BY <2>2, <2>3, SplitSound
  <2> QED BY <2>1, <2>4
<1> QED BY <1>4, <1>5, <1>6

(* The object that an offset is looked up as, if it was put there before. *)
LEMMA FirstFound ==
    ASSUME NEW S, NEW b \in Seq(S), NEW e, NEW p \in 1 .. Len(b), object_contains(b[p], e),
           \A i \in 1 .. p - 1 : ~object_contains(b[i], e)
    PROVE  object_arr_index(b, e) = p
<1> DEFINE index == object_arr_index(b, e)
<1>0. Len(b) \in Nat
  OBVIOUS
<1>1. /\ index = 0 => \A i \in 1 .. Len(b) : ~object_contains(b[i], e)
      /\ index # 0 => /\ index \in 1 .. Len(b) /\ object_contains(b[index], e)
                      /\ \A i \in 1 .. index - 1 : ~object_contains(b[i], e)
  BY Found
<1> HIDE DEF index
<1>2. index \in 1 .. Len(b) /\ object_contains(b[index], e)
      /\ \A i \in 1 .. index - 1 : ~object_contains(b[i], e)
  BY <1>1
<1>3. ~(p < index)
  <2> SUFFICES ASSUME p < index PROVE FALSE
    OBVIOUS
  <2>1. p \in 1 .. index - 1
    BY <1>0, <1>2
  <2> QED BY <1>2, <2>1
<1>4. ~(index < p)
  <2> SUFFICES ASSUME index < p PROVE FALSE
    OBVIOUS
  <2>1. index \in 1 .. p - 1
    BY <1>0, <1>2
  <2> QED BY <1>2, <2>1
<1> QED BY <1>0, <1>2, <1>3, <1>4 DEF index

-----------------------------------------------------------------------------
(* One owner for every block *)

LEMMA SoundOwned ==
    ASSUME NEW b, NEW h, Sound(b, h)
    PROVE  Owned(b, h)
BY DEF Sound, Owned

(* In order, all objects are different: none is empty. *)
LEMMA InOrderSound ==
    ASSUME Typed, InOrder
    PROVE  Sound(objs, freed)
<1>0. /\ objs \in Seq(ObjectsOf(Len(freed) - 1)) /\ Len(freed) - 1 \in Nat
      /\ LaidOut(objs) /\ Owned(objs, freed)
  BY DEF Typed, Fits, IsHeap, InOrder
<1>1. ASSUME NEW i \in DOMAIN objs, NEW j \in DOMAIN objs, i < j
      PROVE  objs[i] # objs[j]
  <2>1. object_size(objs[i]).num > 0 /\ object_upper(objs[i]).num <= objs[j].offset.num
    BY <1>0, <1>1 DEF LaidOut
  <2>2. objs[i] \in ObjectsOf(Len(freed) - 1)
    BY <1>0
  <2>3. object_upper(objs[i]).num = objs[i].offset.num + object_size(objs[i]).num
    BY DEF object_upper, sum_tally
  <2>4. objs[i].offset.num \in Int /\ object_size(objs[i]).num \in Int
    BY <1>0, <2>2, ObjectFacts, TallyFacts
  <2>5. ~(object_upper(objs[i]).num <= objs[i].offset.num)
    BY <2>1, <2>3, <2>4
  <2> QED BY <2>1, <2>5
<1>2. \A i, j \in DOMAIN objs : i # j => i < j \/ j < i
  BY <1>0
<1>3. \A i, j \in DOMAIN objs : i # j => objs[i] # objs[j]
  BY <1>1, <1>2
<1>4. \A i, j \in DOMAIN objs : i # j => Held(objs[i]) \cap Held(objs[j]) = {}
  BY <1>0 DEF Owned
<1>5. \A i \in DOMAIN objs : ~object_isvalue(objs[i]) => ~freed[objs[i].loc + 1]
  BY <1>0 DEF Owned
<1> QED BY <1>3, <1>4, <1>5 DEF Sound

LEMMA EndsOwned ==
    ASSUME InOrder, NEW v, Ends(v)
    PROVE  Owned(objs, freed)'
BY DEF InOrder, Owned, Ends

LEMMA BecomesOwned ==
    ASSUME NEW new, Owned(new.arr, new.freed), Becomes(new)
    PROVE  Owned(objs, freed)'
BY DEF Becomes, Owned

(* A cell is assigned a value: a number, or a block that no object holds.  *)
LEMMA AssignOwned ==
    ASSUME NEW n \in Nat, NEW b \in Seq(ObjectsOf(n)), NEW h, Sound(b, h),
           NEW p \in 1 .. Len(b), object_isvalue(b[p]), NEW v \in Contents(n),
           \A i \in DOMAIN b : v.type = "PTR" => v.loc \notin Held(b[i])
    PROVE  Owned(object_assign(b, p, v), h)
<1> DEFINE c == object_assign(b, p, v)
<1>0. DOMAIN b = 1 .. Len(b) /\ \A i \in DOMAIN b : b[i] \in ObjectsOf(n)
  OBVIOUS
<1>1. /\ DOMAIN c = DOMAIN b /\ c[p] = [b[p] EXCEPT !.value = v]
      /\ \A i \in DOMAIN b : i # p => c[i] = b[i]
  BY <1>0 DEF object_assign, Sound
<1> HIDE DEF c
<1>2. b[p] \in Values(n)
  BY <1>0, ObjectFacts
<1>3. c[p].value = v /\ c[p].type = "VALUE"
  BY <1>1, <1>2 DEF Values
<1>4. object_isvalue(c[p]) /\ Held(c[p]) = IF v.type = "PTR" THEN {v.loc} ELSE {}
  BY <1>3 DEF object_isvalue, Held, value_islocation
<1>5. ASSUME NEW i \in DOMAIN c PROVE ~object_isvalue(c[i]) => ~h[c[i].loc + 1]
  BY <1>1, <1>4 DEF Sound
<1>6. ASSUME NEW i \in DOMAIN c, NEW j \in DOMAIN c, i # j
      PROVE  Held(c[i]) \cap Held(c[j]) = {}
  <2>1. CASE i = p
    BY <1>1, <1>4, <1>6, <2>1
  <2>2. CASE j = p
    BY <1>1, <1>4, <1>6, <2>2
  <2>3. CASE i # p /\ j # p
    BY <1>1, <1>6, <2>3 DEF Sound
  <2> QED BY <2>1, <2>2, <2>3
<1> QED BY <1>5, <1>6 DEF Owned, c

LEMMA AssignEvalOwned ==
    ASSUME Typed, InOrder, NEW k \in Tallies, NEW v, NEW h, IsHeap(h), Len(h) >= Len(freed),
           \A a \in 1 .. Len(freed) : ~freed[a] => ~h[a],
           v \in Contents(Len(h) - 1),
           v.type = "PTR" => v.loc \in Nat /\ Len(freed) <= v.loc /\ v.loc < Len(h),
           expr_assign_eval(k, v, h)
    PROVE  Owned(objs, freed)'
<1>1. CASE Ends("error") \/ Ends("abort")
  BY <1>1, EndsOwned
<1> DEFINE new == state_deref(k, h)
           index == object_arr_index(new.arr, k)
           arr == object_assign(new.arr, index, v)
           n == Len(freed) - 1
<1>2. CASE block_observe_ok(objs, k, h) /\ Becomes([new EXCEPT !.arr = arr])
  <2>1. objs \in Seq(ObjectsOf(n)) /\ n \in Nat /\ n < Len(h) /\ Len(h) \in Nat /\ Len(h) >= 1
    BY DEF Typed, Fits, IsHeap
  <2>2. Sound(objs, h)
    <3>1. Sound(objs, freed)
      BY InOrderSound
    <3>2. \A i \in DOMAIN objs : objs[i] \in ObjectsOf(n)
      BY <2>1
    <3> HIDE DEF n
    <3>3. \A i \in DOMAIN objs : ~object_isvalue(objs[i]) => objs[i].loc \in 1 .. n
      BY <2>1, <3>2, ObjectFacts DEF Held
    <3>4. \A a \in 1 .. n : a + 1 \in 1 .. Len(freed)
      BY <2>1 DEF n
    <3> QED BY <3>1, <3>3, <3>4 DEF Sound
  <2> HIDE DEF n
  <2>3. /\ Fits(new.arr, new.freed) /\ Len(h) <= Len(new.freed)
        /\ Sound(new.arr, new.freed)
        /\ HeldIn(new.arr, Blocks(n, h))
        /\ \E p \in 1 .. Len(new.arr) :
              /\ object_isvalue(new.arr[p]) /\ object_contains(new.arr[p], k)
              /\ \A i \in 1 .. p - 1 : ~object_contains(new.arr[i], k)
    BY <1>2, <2>1, <2>2, ObserveFits, ObserveSound DEF state_deref
  <2>4. new = [arr |-> new.arr, freed |-> new.freed]
    BY DEF state_deref, block_observe, Split
  <2> HIDE DEF new
  <2> DEFINE l == Len(new.freed) - 1
  <2>5. l \in Nat /\ Len(h) - 1 <= l /\ new.arr \in Seq(ObjectsOf(l))
    BY <2>1, <2>3 DEF Fits, IsHeap
  <2>6. v \in Contents(l)
    BY <2>1, <2>5 DEF Contents
  <2> HIDE DEF l
  <2>7. index \in 1 .. Len(new.arr) /\ object_isvalue(new.arr[index])
    BY <2>3, <2>5, FirstFound
  <2>8. \A i \in DOMAIN new.arr : v.type = "PTR" => v.loc \notin Held(new.arr[i])
    <3>1. v.type = "PTR" => v.loc \notin Blocks(n, h)
      BY <2>1 DEF Blocks, n
    <3> QED BY <2>3, <3>1 DEF HeldIn
  <2> HIDE DEF index
  <2>9. Owned(arr, new.freed)
    BY <2>3, <2>5, <2>6, <2>7, <2>8, AssignOwned
  <2> HIDE DEF arr
  <2>10. [new EXCEPT !.arr = arr].arr = arr /\ [new EXCEPT !.arr = arr].freed = new.freed
    BY <2>4
  <2> QED BY <1>2, <2>9, <2>10, BecomesOwned
<1> QED BY <1>1, <1>2 DEF expr_assign_eval

LEMMA DerefSound ==
    ASSUME Typed, InOrder, NEW k \in Tallies, block_observe_ok(objs, k, freed)
    PROVE  /\ Fits(state_deref(k, freed).arr, state_deref(k, freed).freed)
           /\ Sound(state_deref(k, freed).arr, state_deref(k, freed).freed)
           /\ object_arr_index(state_deref(k, freed).arr, k)
                 \in 1 .. Len(state_deref(k, freed).arr)
           /\ object_isvalue(state_deref(k, freed).arr
                                [object_arr_index(state_deref(k, freed).arr, k)])
<1> DEFINE n == Len(freed) - 1
           new == state_deref(k, freed)
<1>1. objs \in Seq(ObjectsOf(n)) /\ n \in Nat /\ n < Len(freed) /\ IsHeap(freed)
  BY DEF Typed, Fits, IsHeap
<1>2. Sound(objs, freed)
  BY InOrderSound
<1> HIDE DEF n
<1>3. /\ Fits(new.arr, new.freed)
      /\ Sound(new.arr, new.freed)
      /\ \E p \in 1 .. Len(new.arr) :
            /\ object_isvalue(new.arr[p]) /\ object_contains(new.arr[p], k)
            /\ \A i \in 1 .. p - 1 : ~object_contains(new.arr[i], k)
  BY <1>1, <1>2, ObserveFits, ObserveSound DEF state_deref
<1> HIDE DEF new
<1>4. new.arr \in Seq(ObjectsOf(Len(new.freed) - 1))
  BY <1>3 DEF Fits
<1>5. object_arr_index(new.arr, k) \in 1 .. Len(new.arr)
      /\ object_isvalue(new.arr[object_arr_index(new.arr, k)])
  BY <1>3, <1>4, FirstFound
<1> QED BY <1>3, <1>5 DEF new

(* The block of one value is freed: no range holds it. *)
LEMMA MarkOwned ==
    ASSUME NEW b, NEW h, Fits(b, h), Sound(b, h), NEW p \in DOMAIN b, object_isvalue(b[p]),
           value_islocation(b[p].value)
    PROVE  Owned(b, [h EXCEPT ![b[p].value.loc + 1] = TRUE])
<1> DEFINE x == b[p].value.loc
           g == [h EXCEPT ![x + 1] = TRUE]
<1>1. Held(b[p]) = {x}
  BY DEF Held
<1>2. \A i \in DOMAIN b : ~object_isvalue(b[i]) => Held(b[i]) = {b[i].loc} /\ i # p
  BY DEF Held
<1>3. h \in Seq(BOOLEAN) /\ Len(h) \in Nat
      /\ b \in Seq(ObjectsOf(Len(h) - 1)) /\ Len(h) - 1 \in Nat
  BY DEF Fits, IsHeap
<1>4. DOMAIN h = 1 .. Len(h)
  BY <1>3
<1>5. \A i \in DOMAIN b : Held(b[i]) \subseteq 1 .. Len(h) - 1
  BY <1>3, ObjectFacts
<1>6. x \in 1 .. Len(h) - 1
  BY <1>1, <1>5
<1> HIDE DEF x
<1>7. ASSUME NEW i \in DOMAIN b, ~object_isvalue(b[i])
      PROVE  ~g[b[i].loc + 1]
  <2>1. b[i].loc # x /\ b[i].loc \in 1 .. Len(h) - 1
    BY <1>1, <1>2, <1>5, <1>7 DEF Sound
  <2>2. b[i].loc + 1 # x + 1 /\ b[i].loc + 1 \in 1 .. Len(h)
    BY <1>3, <1>6, <2>1
  <2>3. g[b[i].loc + 1] = h[b[i].loc + 1]
    BY <1>4, <2>2
  <2>4. ~h[b[i].loc + 1]
    BY <1>7 DEF Sound
  <2> QED BY <2>3, <2>4, Zenon
<1> HIDE DEF g
<1> QED BY <1>7 DEF Owned, Sound, g, x

LEMMA DeallocOwned ==
    ASSUME Typed, InOrder, dealloc_process
    PROVE  Owned(objs, freed)'
<1>1. PICK k \in Offsets :
        IF ArrayIsFreed THEN Ends("error")
        ELSE IF ~block_observe_ok(objs, k, freed) THEN Ends("abort")
        ELSE LET new == state_deref(k, freed)
                 v   == ValueAt(new.arr, k) IN
             IF state_dealloc_ok(v, new.freed)
             THEN Becomes([new EXCEPT !.freed[v.loc + 1] = TRUE])
             ELSE Ends("error")
  BY DEF dealloc_process
<1>2. CASE Ends("error") \/ Ends("abort")
  BY <1>2, EndsOwned
<1> DEFINE new == state_deref(k, freed)
           p == object_arr_index(new.arr, k)
           x == new.arr[p].value.loc + 1
           h == [new.freed EXCEPT ![x] = TRUE]
<1>3. CASE /\ block_observe_ok(objs, k, freed) /\ value_islocation(new.arr[p].value)
           /\ Becomes([new EXCEPT !.freed = h])
  <2>1. k \in Tallies
    BY WrittenIn
  <2>2. /\ Fits(new.arr, new.freed) /\ Sound(new.arr, new.freed)
        /\ p \in 1 .. Len(new.arr) /\ object_isvalue(new.arr[p])
    BY <1>3, <2>1, DerefSound
  <2>3. new = [arr |-> new.arr, freed |-> new.freed]
    BY DEF state_deref, block_observe, Split
  <2> HIDE DEF new, p
  <2>4. p \in DOMAIN new.arr
    BY <2>2 DEF Fits
  <2>5. Owned(new.arr, h)
    BY <1>3, <2>2, <2>4, MarkOwned
  <2> HIDE DEF h
  <2>6. [new EXCEPT !.freed = h].arr = new.arr /\ [new EXCEPT !.freed = h].freed = h
    BY <2>3
  <2> QED BY <1>3, <2>5, <2>6, BecomesOwned
<1> QED BY <1>1, <1>2, <1>3 DEF ValueAt, state_dealloc_ok

LEMMA DecideOwned ==
    ASSUME Typed, InOrder, expr_isdeallocand_decide
    PROVE  Owned(objs, freed)'
<1>1. PICK k \in Offsets :
          \/ Ends("error") \/ Ends("abort")
          \/ block_observe_ok(objs, k, freed) /\ Becomes(state_deref(k, freed))
  BY DEF expr_isdeallocand_decide
<1>2. CASE Ends("error") \/ Ends("abort")
  BY <1>2, EndsOwned
<1>3. CASE block_observe_ok(objs, k, freed) /\ Becomes(state_deref(k, freed))
  <2>1. Owned(state_deref(k, freed).arr, state_deref(k, freed).freed)
    BY <1>3, WrittenIn, DerefSound, SoundOwned
  <2> QED BY <1>3, <2>1, BecomesOwned
<1> QED BY <1>1, <1>2, <1>3

LEMMA FreeOwned ==
    ASSUME Typed, InOrder, free_array
    PROVE  Owned(objs, freed)'
<1> DEFINE h == [freed EXCEPT ![Array + 1] = TRUE]
<1>1. CASE Ends("error")
  BY <1>1, EndsOwned
<1>2. CASE Becomes([arr |-> objs, freed |-> h])
  <2>1. objs \in Seq(ObjectsOf(Len(freed) - 1)) /\ Len(freed) - 1 \in Nat
        /\ DOMAIN freed = 1 .. Len(freed)
    BY DEF Typed, Fits, IsHeap
  <2>2. Sound(objs, freed)
    BY InOrderSound
  <2>3. ASSUME NEW i \in DOMAIN objs, ~object_isvalue(objs[i]) PROVE ~h[objs[i].loc + 1]
    <3>1. objs[i].loc \in 1 .. Len(freed) - 1
      BY <2>1, <2>3, ObjectFacts DEF Held
    <3>2. objs[i].loc + 1 # Array + 1 /\ objs[i].loc + 1 \in DOMAIN freed
      BY <2>1, <3>1 DEF Array
    <3>3. h[objs[i].loc + 1] = freed[objs[i].loc + 1]
      BY <3>2
    <3>4. ~freed[objs[i].loc + 1]
      BY <2>2, <2>3 DEF Sound
    <3> QED BY <3>3, <3>4, Zenon
  <2> HIDE DEF h
  <2>4. Owned(objs, h)
    BY <2>2, <2>3 DEF Owned, Sound
  <2> QED BY <1>2, <2>4, BecomesOwned
<1> QED BY <1>1, <1>2 DEF free_array

LEMMA RangeAllocOwned ==
    ASSUME Typed, InOrder, rangeprocess_alloc
    PROVE  Owned(objs, freed)'
<1>1. PICK b \in Bounds : state_range_alloc(b[1], b[2])
  BY DEF rangeprocess_alloc
<1>2. CASE Ends("error") \/ Ends("abort")
  BY <1>2, EndsOwned
<1> DEFINE h == Append(freed, FALSE)
           o == object_range_create(b[1], difference(b[2], b[1]), Len(freed))
<1>3. CASE Becomes([arr |-> <<o>>, freed |-> h])
  <2>1. IsHeap(freed)
    BY DEF Typed, Fits
  <2>2. ~h[Len(freed) + 1]
    BY <2>1, AppendKeeps
  <2>3. o.loc = Len(freed)
    BY DEF object_range_create
  <2> HIDE DEF h, o
  <2> DEFINE c == <<o>>
  <2>4. DOMAIN c = {1} /\ c[1] = o
    OBVIOUS
  <2> HIDE DEF c
  <2>5. Owned(c, h)
    BY <2>2, <2>3, <2>4 DEF Owned
  <2>6. Becomes([arr |-> c, freed |-> h])
    BY <1>3 DEF c
  <2> QED BY <2>5, <2>6, BecomesOwned
<1> QED BY <1>1, <1>2, <1>3 DEF state_range_alloc, block_range_alloc

LEMMA EqualNumbers ==
    ASSUME NEW e1, NEW e2, IsTally(e2), IsNumber(e1), math_le(e1, e2)
    PROVE  IsNumber(e2)
<1>1. Cardinality({}) = 0
  BY FS_EmptySet
<1>2. Cardinality(DOMAIN e2.map) = 0 /\ IsFiniteSet(DOMAIN e2.map)
  BY <1>1 DEF math_le, variable_tally_eq, IsNumber, IsTally
<1> QED BY <1>2, FS_EmptySet DEF IsNumber

(* Of objects in order, the one in which a range ends does not come more   *)
(* than one place before the one in which it begins.                       *)
LEMMA EndsInOrder ==
    ASSUME Typed, LaidOut(objs), BoundsInOrder, NEW b \in Bounds,
           object_arr_index(objs, b[1]) # 0, object_arr_index_upperincl(objs, b[2]) # 0
    PROVE  object_arr_index(objs, b[1]) <= object_arr_index_upperincl(objs, b[2]) + 1
<1> DEFINE li == object_arr_index(objs, b[1])
           ui == object_arr_index_upperincl(objs, b[2])
           off(i) == objs[i].offset.num
           size(i) == object_size(objs[i]).num
           upper(i) == object_upper(objs[i]).num
<1>0. objs \in Seq(ObjectsOf(Len(freed) - 1)) /\ Len(freed) - 1 \in Nat /\ Len(objs) \in Nat
      /\ DOMAIN objs = 1 .. Len(objs)
  BY DEF Typed, Fits, IsHeap
<1>1. li \in 1 .. Len(objs) /\ object_contains(objs[li], b[1])
  BY <1>0, Found
<1>2. ui \in 1 .. Len(objs) /\ object_contains_upperincl(objs[ui], b[2])
  BY <1>0, FoundUpperincl
<1> HIDE DEF li, ui
<1>3. IsNumber(objs[li].offset) /\ IsNumber(objs[ui].offset)
  BY <1>0, <1>1, <1>2 DEF LaidOut, Numeric
<1>4. /\ math_le(objs[li].offset, b[1]) /\ math_le(objs[ui].offset, b[2])
      /\ math_le(b[2], object_upper(objs[ui]))
  BY <1>1, <1>2 DEF object_contains, object_contains_upperincl
<1>5. IsTally(b[1]) /\ IsTally(b[2])
  BY RangesAssumption
<1>6. b[1].num <= b[2].num
  BY <1>3, <1>4, <1>5, EqualNumbers DEF BoundsInOrder
<1>7. off(li) <= b[1].num /\ b[2].num <= upper(ui)
  BY <1>4 DEF math_le
<1>8. \A i \in DOMAIN objs : off(i) \in Int /\ size(i) \in Int /\ upper(i) = off(i) + size(i)
  <2> TAKE i \in DOMAIN objs
  <2>1. objs[i] \in ObjectsOf(Len(freed) - 1)
    BY <1>0
  <2> QED BY <1>0, <2>1, ObjectFacts, TallyFacts DEF object_upper, sum_tally
<1>9. /\ \A i \in DOMAIN objs : size(i) > 0
      /\ \A i, j \in DOMAIN objs : i < j => upper(i) <= off(j)
  BY <1>0 DEF LaidOut
<1>10. b[1].num \in Int /\ b[2].num \in Int
  BY <1>5 DEF IsTally
<1> HIDE DEF off, size, upper
<1>11. ~(ui + 1 < li)
  <2> SUFFICES ASSUME ui + 1 < li PROVE FALSE
    OBVIOUS
  <2>1. ui + 1 \in DOMAIN objs /\ ui < ui + 1 /\ ui \in DOMAIN objs /\ li \in DOMAIN objs
    BY <1>0, <1>1, <1>2
  <2>2. upper(ui) <= off(ui + 1) /\ upper(ui + 1) <= off(li) /\ size(ui + 1) > 0
    BY <1>9, <2>1
  <2>3. /\ upper(ui + 1) = off(ui + 1) + size(ui + 1)
        /\ off(ui + 1) \in Int /\ size(ui + 1) \in Int /\ off(li) \in Int /\ upper(ui) \in Int
    BY <1>8, <2>1
  <2> QED BY <1>6, <1>7, <1>10, <2>2, <2>3
<1> QED BY <1>0, <1>1, <1>2, <1>11 DEF li, ui

LEMMA GrownKeepsAny ==
    ASSUME NEW h, IsHeap(h), NEW part
    PROVE  /\ \A a \in 1 .. Len(h) : ~h[a] => ~Grown(h, part)[a]
           /\ IsHeap(Grown(h, part)) /\ Len(h) <= Len(Grown(h, part))
           /\ Len(Grown(h, part)) \in Nat
<1>1. Len(h) \in Nat
  BY DEF IsHeap
<1>2. CASE Grown(h, part) = h
  BY <1>1, <1>2
<1>3. CASE Grown(h, part) = Append(h, FALSE)
  <2> DEFINE g == Append(h, FALSE)
  <2>1. /\ \A a \in 1 .. Len(h) : ~h[a] => ~g[a]
        /\ IsHeap(g) /\ Len(g) = Len(h) + 1
    BY AppendKeeps, HeapAppend
  <2> HIDE DEF g
  <2>2. Len(h) <= Len(g) /\ Len(g) \in Nat
    BY <1>1, <2>1
  <2>3. Grown(h, part) = g
    BY <1>3 DEF g
  <2> QED BY <2>1, <2>2, <2>3, Zenon
<1> QED BY <1>2, <1>3 DEF Grown

LEMMA RangeDeallocOwned ==
    ASSUME Typed, InOrder, BoundsInOrder, rangeprocess_dealloc
    PROVE  Owned(objs, freed)'
<1>1. PICK b \in Bounds : location_range_dealloc(b[1], b[2])
  BY DEF rangeprocess_dealloc
<1>2. CASE Ends("error") \/ Ends("abort")
  BY <1>2, EndsOwned
<1> DEFINE lw == b[1]
           up == b[2]
           li == object_arr_index(objs, lw)
           ui == object_arr_index_upperincl(objs, up)
           upto == object_upto(objs[li], lw, Len(freed))
           h1   == Grown(freed, upto)
           from == object_from(objs[ui], up, Len(h1))
           h2   == Grown(h1, from)
           h3   == object_dealloc(objs, li, ui, h2)
           new  == block_range_dealloc(objs, lw, up, freed)
           n    == Len(freed) - 1
<1>3. CASE block_range_aredeallocands(objs, lw, up, freed) /\ Becomes(new)
  <2>0. /\ objs \in Seq(ObjectsOf(n)) /\ n \in Nat /\ n + 1 = Len(freed) /\ Len(freed) \in Nat
        /\ IsHeap(freed) /\ Len(objs) \in Nat /\ DOMAIN objs = 1 .. Len(objs)
    BY DEF Typed, Fits, IsHeap
  <2>1. Sound(objs, freed)
    BY InOrderSound
  <2> HIDE DEF n
  <2>2. \A i \in DOMAIN objs : ~object_isvalue(objs[i]) =>
            /\ Held(objs[i]) = {objs[i].loc}
            /\ objs[i].loc + 1 \in 1 .. Len(freed) /\ objs[i].loc \in Nat
            /\ ~freed[objs[i].loc + 1]
    <3> SUFFICES ASSUME NEW i \in DOMAIN objs, ~object_isvalue(objs[i])
                 PROVE  /\ Held(objs[i]) = {objs[i].loc}
                        /\ objs[i].loc + 1 \in 1 .. Len(freed)
                        /\ objs[i].loc \in Nat
                        /\ ~freed[objs[i].loc + 1]
      OBVIOUS
    <3>1. Held(objs[i]) = {objs[i].loc}
      BY DEF Held
    <3>2. objs[i].loc \in 1 .. n
      BY <2>0, <3>1, ObjectFacts
    <3> QED BY <2>0, <2>1, <3>1, <3>2 DEF Sound
  <2>3. CASE hack_first_object_is_exactly_bounds(objs, lw, up, freed)
    <3> DEFINE g == object_dealloc(objs, 1, 1, freed)
               t == SubSeq(objs, 2, Len(objs))
    <3>1. objs # <<>>
      BY <2>3 DEF hack_first_object_is_exactly_bounds
    <3>2. Tail(objs) = t
      BY <2>0, <3>1, TailIsSubSeq
    <3>3. ASSUME NEW i \in 2 .. Len(objs), ~object_isvalue(objs[i])
          PROVE  ~g[objs[i].loc + 1]
      <4>1. i \in DOMAIN objs /\ 1 \in DOMAIN objs /\ i # 1
        BY <2>0
      <4>2. objs[i].loc \notin Held(objs[1])
        BY <2>1, <2>2, <3>3, <4>1 DEF Sound
      <4>3. \A j \in 1 .. 1 : j = 1
        OBVIOUS
      <4>7. PICK a : a = objs[i].loc + 1
        OBVIOUS
      <4>8. a \in 1 .. Len(freed) /\ ~freed[a] /\ a - 1 = objs[i].loc
        <5>1. objs[i].loc + 1 \in 1 .. Len(freed) /\ objs[i].loc \in Nat
          BY <2>2, <3>3, <4>1
        <5>2. ~freed[objs[i].loc + 1]
          BY <2>2, <3>3, <4>1
        <5>3. a \in 1 .. Len(freed) /\ a - 1 = objs[i].loc
          BY <4>7, <5>1
        <5>4. ~freed[a]
          BY <4>7, <5>2, Zenon
        <5> QED BY <5>3, <5>4
      <4>4. \A j \in 1 .. 1 : a - 1 \notin Held(objs[j])
        BY <4>2, <4>3, <4>8
      <4>5. 1 \in Nat
        OBVIOUS
      <4>6. ~g[a]
        BY <2>0, <4>4, <4>5, <4>8, DeallocKeeps
      <4> QED BY <4>6, <4>7, Zenon
    <3> HIDE DEF g
    <3>6. \A i \in 2 .. Len(objs) :
              ~object_isvalue(objs[i]) /\ ~freed[objs[i].loc + 1] => ~g[objs[i].loc + 1]
      BY <3>3
    <3>7. 2 \in Nat /\ 2 >= 1 /\ Len(objs) <= Len(objs)
      BY <2>0
    <3>4. Sound(t, g)
      BY <2>0, <2>1, <3>6, <3>7, PieceSound
    <3>5. new = [arr |-> t, freed |-> g]
      BY <2>3, <3>2 DEF block_range_dealloc, g
    <3> HIDE DEF t, new
    <3> QED BY <1>3, <3>4, <3>5, SoundOwned, BecomesOwned
  <2>4. CASE ~hack_first_object_is_exactly_bounds(objs, lw, up, freed)
    <3>1. li \in 1 .. Len(objs) /\ ui \in 1 .. Len(objs)
      BY <1>3, <2>0, <2>4, EndsFound
    <3>2. li <= ui + 1
      <4>1. li # 0 /\ ui # 0
        BY <3>1
      <4> QED BY <4>1, EndsInOrder DEF InOrder
    <3> DEFINE p == SubSeq(objs, 1, li - 1)
               q == SubSeq(objs, ui + 1, Len(objs))
    <3>3. new = [arr |-> p \o q, freed |-> h3]
      BY <2>4 DEF block_range_dealloc
    <3> HIDE DEF li, ui, new, upto, from
    <3>4. /\ \A a \in 1 .. Len(freed) : ~freed[a] => ~h1[a]
          /\ IsHeap(h1) /\ Len(freed) <= Len(h1) /\ Len(h1) \in Nat
      BY <2>0, GrownKeepsAny
    <3> HIDE DEF h1
    <3>5. /\ \A a \in 1 .. Len(h1) : ~h1[a] => ~h2[a]
          /\ IsHeap(h2) /\ Len(h1) <= Len(h2) /\ Len(h2) \in Nat
      BY <3>4, GrownKeepsAny
    <3> HIDE DEF h2
    <3>6. ASSUME NEW i \in DOMAIN objs, ~object_isvalue(objs[i]), i < li \/ ui < i
          PROVE  ~h3[objs[i].loc + 1]
      <4>8. PICK a : a = objs[i].loc + 1
        OBVIOUS
      <4>1. a \in 1 .. Len(freed) /\ a - 1 = objs[i].loc /\ ~freed[a]
        <5>1. objs[i].loc + 1 \in 1 .. Len(freed) /\ objs[i].loc \in Nat
          BY <2>2, <3>6
        <5>2. ~freed[objs[i].loc + 1]
          BY <2>2, <3>6
        <5>3. a \in 1 .. Len(freed) /\ a - 1 = objs[i].loc
          BY <4>8, <5>1
        <5>4. ~freed[a]
          BY <4>8, <5>2, Zenon
        <5> QED BY <5>3, <5>4
      <4>2. a \in 1 .. Len(h1) /\ a \in 1 .. Len(h2)
        BY <2>0, <3>4, <3>5, <4>1
      <4>3. ~h2[a]
        BY <3>4, <3>5, <4>1, <4>2
      <4>4. \A j \in li .. ui : j \in DOMAIN objs /\ j # i
        BY <2>0, <3>1, <3>6
      <4>5. \A j \in li .. ui : a - 1 \notin Held(objs[j])
        BY <2>1, <2>2, <3>6, <4>1, <4>4 DEF Sound
      <4>6. li \in Nat /\ ui \in Nat
        BY <2>0, <3>1
      <4>7. ~h3[a]
        BY <3>5, <4>2, <4>3, <4>5, <4>6, DeallocKeeps
      <4> QED BY <4>7, <4>8, Zenon
    <3> HIDE DEF h3
    <3>7. /\ li - 1 \in Nat /\ ui + 1 \in Nat /\ li - 1 <= Len(objs) /\ ui + 1 >= 1
          /\ li - 1 < ui + 1 /\ Len(objs) <= Len(objs) /\ 1 \in Nat /\ 1 >= 1
          /\ \A i \in 1 .. li - 1 : i \in DOMAIN objs /\ i < li
          /\ \A i \in ui + 1 .. Len(objs) : i \in DOMAIN objs /\ ui < i
      BY <2>0, <3>1, <3>2
    <3>8. \A i \in 1 .. li - 1 :
              ~object_isvalue(objs[i]) /\ ~freed[objs[i].loc + 1] => ~h3[objs[i].loc + 1]
      BY <3>6, <3>7
    <3>9. \A i \in ui + 1 .. Len(objs) :
              ~object_isvalue(objs[i]) /\ ~freed[objs[i].loc + 1] => ~h3[objs[i].loc + 1]
      BY <3>6, <3>7
    <3>10. Sound(p, h3)
      BY <2>0, <2>1, <3>7, <3>8, PieceSound
    <3>11. Sound(q, h3)
      BY <2>0, <2>1, <3>7, <3>9, PieceSound
    <3>12. Apart(p, q)
      BY <2>0, <2>1, <3>7, PiecesApart
    <3>13. p \in Seq(ObjectsOf(n)) /\ q \in Seq(ObjectsOf(n))
      BY <2>0, <3>7, PieceIn
    <3> HIDE DEF p, q
    <3>14. Sound(p \o q, h3)
      BY <3>10, <3>11, <3>12, <3>13, SoundConcat
    <3> QED BY <1>3, <3>3, <3>14, SoundOwned, BecomesOwned
  <2> QED BY <2>3, <2>4
<1> QED BY <1>1, <1>2, <1>3 DEF location_range_dealloc

LEMMA OwnedStep ==
    ASSUME BoundsInOrder
    PROVE  Typed /\ [Next]_vars => (InOrder => Owned(objs, freed)')
<1> SUFFICES ASSUME Typed, [Next]_vars, InOrder PROVE Owned(objs, freed)'
  OBVIOUS
<1>0. IsHeap(freed) /\ Len(freed) \in Nat /\ Len(freed) >= 1
  BY DEF Typed, Fits, IsHeap
<1>1. CASE assign_number
  <2>1. PICK k \in Offsets : expr_assign_eval(k, value_int_create(0), freed)
    BY <1>1 DEF assign_number
  <2> DEFINE v == value_int_create(0)
  <2>2. v \in Contents(Len(freed) - 1) /\ v.type # "PTR" /\ k \in Tallies
    BY WrittenIn DEF Contents, value_int_create
  <2> HIDE DEF v
  <2> QED BY <1>0, <2>1, <2>2, AssignEvalOwned DEF v
<1>2. CASE assign_malloc
  <2> DEFINE h == Append(freed, FALSE)
             v == value_ptr_create(Len(freed))
  <2>1. IsHeap(h) /\ Len(h) = Len(freed) + 1 /\ \A a \in 1 .. Len(freed) : ~freed[a] => ~h[a]
    BY <1>0, HeapAppend, AppendKeeps
  <2>2. PICK k \in Offsets : expr_assign_eval(k, v, h)
    BY <1>2 DEF assign_malloc
  <2> HIDE DEF h
  <2>3. Len(freed) \in 1 .. Len(h) - 1 /\ Len(h) >= Len(freed) /\ Len(freed) < Len(h)
    BY <1>0, <2>1
  <2>4. v \in Contents(Len(h) - 1) /\ v.loc = Len(freed) /\ k \in Tallies
    BY <2>3, WrittenIn DEF Contents, value_ptr_create
  <2> HIDE DEF v
  <2> QED BY <1>0, <2>1, <2>2, <2>3, <2>4, AssignEvalOwned
<1>3. CASE dealloc_process
  BY <1>3, DeallocOwned
<1>4. CASE expr_isdeallocand_decide
  BY <1>4, DecideOwned
<1>5. CASE free_array
  BY <1>5, FreeOwned
<1>6. CASE iter_absexec
  BY <1>6, RangeAllocOwned, RangeDeallocOwned DEF iter_absexec
<1>7. CASE stmt_iter_verify
  BY <1>7, EndsOwned DEF stmt_iter_verify, ast_expr_rangedecide
<1>8. CASE path_audit
  BY <1>8, EndsOwned DEF path_audit
<1>9. CASE UNCHANGED vars
  BY <1>9 DEF vars, InOrder, Owned
<1> QED BY <1>1, <1>2, <1>3, <1>4, <1>5, <1>6, <1>7, <1>8, <1>9 DEF Next

(* A step from objects in order keeps one owner for every heap block, and  *)
(* the blocks of ranges live: for all offsets and bounds, as long as no    *)
(* loop's bounds are numbers in reverse order.                             *)
THEOREM RangesOneOwner == ASSUME BoundsInOrder PROVE Spec => OneOwner
<1>1. Typed /\ [Next]_vars => [InOrder => Owned(objs, freed)']_vars
  BY OwnedStep
<1> QED BY <1>1, RangesInvariant, PTL DEF Spec, OneOwner

=============================================================================
