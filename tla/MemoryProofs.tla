---------------------------- MODULE MemoryProofs ----------------------------
(***************************************************************************)
(* Proofs about module Memory, for every set of names, literals and        *)
(* offsets and for all bounds.                                             *)
(***************************************************************************)
EXTENDS Memory, FiniteSetTheorems, SequenceTheorems, TLAPS

-----------------------------------------------------------------------------
(* The inductive invariant, of any state x. *)

Object == [offset : Nat, value : Value]

LocationOK(l) == l \in [type : LocationType, frame : Nat, block : Nat, offset : Nat]

ValueOK(x, v) ==
    /\ v \in Value
    /\ value_islocation(v) /\ v.loc.type # "AUTOMATIC" => v.loc.block < Len(Arena(x, v.loc))

HasOffset(b, o) == \E i \in 1 .. Len(b) : b[i].offset = o

BlockOK(x, b) ==
    /\ b \in Blocks
    /\ \A i, j \in 1 .. Len(b) : b[i].offset = b[j].offset => i = j
    /\ \A i \in 1 .. Len(b) : ValueOK(x, b[i].value)

(* A variable's block has an object at offset 0. *)
FrameOK(f) ==
    /\ f \in Frame
    /\ Len(f.frame) > 0
    /\ \A i \in 1 .. Len(f.varmap) : f.varmap[i].address < Len(f.frame)
    /\ \A a \in 1 .. Len(f.frame) : HasOffset(f.frame[a], 0)

(* The number in a constant's name is that of the earlier constants of its *)
(* kind.                                                                   *)
Earlier(c, i) == {j \in 1 .. i-1 : c[j].persist = c[i].persist}

ConstantsOK(c) ==
    \A i \in 1 .. Len(c) :
        c[i].id = <<IF c[i].persist THEN "$" ELSE "#", Cardinality(Earlier(c, i))>>

PoolOK(x) ==
    /\ Len(x.pool) = Len(x.static)
    /\ \A i, j \in 1 .. Len(x.pool) : x.pool[i] = x.pool[j] => i = j

StateOK(x) ==
    /\ x \in SymbolicState
    /\ Len(x.freed) = Len(x.heap)
    /\ Len(x.stack) > 0
    /\ \A f \in 1 .. Len(x.stack) : FrameOK(x.stack[f])
    /\ \A b \in AllBlocks(x) : BlockOK(x, b)
    /\ ConstantsOK(x.vconst)
    /\ PoolOK(x)

(* y has the blocks and variables of x, with other objects in them. *)
SameShape(x, y) ==
    /\ y.vconst = x.vconst /\ y.pool = x.pool /\ y.freed = x.freed
    /\ Len(y.static) = Len(x.static)
    /\ Len(y.clump) = Len(x.clump)
    /\ Len(y.heap) = Len(x.heap)
    /\ Len(y.stack) = Len(x.stack)
    /\ \A f \in 1 .. Len(x.stack) :
            /\ y.stack[f].varmap = x.stack[f].varmap
            /\ Len(y.stack[f].frame) = Len(x.stack[f].frame)

(* No block is lost on the way from x to y; this is all that ValueOK needs. *)
NoBlockLost(x, y) ==
    /\ Len(x.static) <= Len(y.static)
    /\ Len(x.clump) <= Len(y.clump)
    /\ Len(x.heap) <= Len(y.heap)

(* What is freed in x is freed in y and has the same objects. *)
FreedKept(x, y) ==
    /\ Len(x.heap) <= Len(y.heap)
    /\ \A a \in 1 .. Len(x.heap) : x.freed[a] => y.freed[a] /\ y.heap[a] = x.heap[a]

(* Expressions allocate no heap block, or one, and free none. *)
HeapKept(x, y) == Len(y.heap) = Len(x.heap) /\ y.freed = x.freed

HeapGrown(x, y) == Len(y.heap) = Len(x.heap) + 1 /\ y.freed = Append(x.freed, FALSE)

(* From x to y, no block of the stack changes but the one at l. *)
StackKept(x, y, l) ==
    \A f \in 1 .. Len(x.stack) : \A a \in 1 .. Len(x.stack[f].frame) :
        \/ y.stack[f].frame[a] = x.stack[f].frame[a]
        \/ l.type = "AUTOMATIC" /\ f = l.frame + 1 /\ a = l.block + 1

(* The objects of y hold what the objects of x hold, or a value of V. *)
HoldsOnly(x, y, V) == Values(y) \subseteq Values(x) \cup V

-----------------------------------------------------------------------------
(* Values and blocks in a state that has at least the blocks of another. *)

LEMMA Fields ==
    ASSUME NEW x \in SymbolicState
    PROVE  /\ x.static \in Seq(Blocks) /\ x.clump \in Seq(Blocks) /\ x.heap \in Seq(Blocks)
           /\ x.freed \in Seq(BOOLEAN) /\ x.pool \in Seq(Literals) /\ x.stack \in Seq(Frame)
           /\ Len(x.static) \in Nat /\ Len(x.clump) \in Nat /\ Len(x.heap) \in Nat
           /\ Len(x.freed) \in Nat /\ Len(x.pool) \in Nat /\ Len(x.stack) \in Nat
           /\ Len(x.vconst) \in Nat
<1>1. /\ x.static \in Seq(Blocks) /\ x.clump \in Seq(Blocks) /\ x.heap \in Seq(Blocks)
      /\ x.freed \in Seq(BOOLEAN) /\ x.pool \in Seq(Literals) /\ x.stack \in Seq(Frame)
  BY DEF SymbolicState
<1>2. x.vconst \in Seq([id : {"$", "#"} \X Nat, comment : {NoComment}, persist : BOOLEAN])
  BY DEF SymbolicState
<1> QED
  BY <1>1, <1>2, LenProperties

LEMMA ValueKept ==
    ASSUME NEW x, StateOK(x), NEW y, StateOK(y) \/ y \in SymbolicState, NoBlockLost(x, y),
           NEW v, ValueOK(x, v)
    PROVE  ValueOK(y, v)
<1>1. x \in SymbolicState /\ y \in SymbolicState
  BY DEF StateOK
<1>2. /\ Len(x.static) \in Nat /\ Len(x.clump) \in Nat /\ Len(x.heap) \in Nat
      /\ Len(y.static) \in Nat /\ Len(y.clump) \in Nat /\ Len(y.heap) \in Nat
  BY <1>1, Fields
<1>3. SUFFICES ASSUME value_islocation(v), v.loc.type # "AUTOMATIC"
               PROVE  v.loc.block < Len(Arena(y, v.loc))
  BY DEF ValueOK
<1>4. v.loc \in [type : LocationType, frame : Nat, block : Nat, offset : {0}]
  BY <1>3 DEF ValueOK, Value, value_islocation, NoValue
<1>5. v.loc.block < Len(Arena(x, v.loc))
  BY <1>3 DEF ValueOK
<1>6. v.loc.block \in Nat
  BY <1>4
<1>7. CASE v.loc.type = "STATIC"
  BY <1>2, <1>5, <1>6, <1>7 DEF Arena, NoBlockLost
<1>8. CASE v.loc.type = "DYNAMIC"
  BY <1>2, <1>5, <1>6, <1>8 DEF Arena, NoBlockLost
<1>9. CASE v.loc.type = "DEREFERENCABLE"
  BY <1>2, <1>5, <1>6, <1>9 DEF Arena, NoBlockLost
<1> QED
  BY <1>3, <1>4, <1>7, <1>8, <1>9 DEF LocationType

LEMMA BlockKept ==
    ASSUME NEW x, StateOK(x), NEW y, StateOK(y) \/ y \in SymbolicState, NoBlockLost(x, y),
           NEW b, BlockOK(x, b)
    PROVE  BlockOK(y, b)
  BY ValueKept DEF BlockOK

-----------------------------------------------------------------------------
(* Replacing a block. *)

(* A location that location_getblock answers is within its array. *)
LEMMA Located ==
    ASSUME NEW x, StateOK(x), NEW l, LocationOK(l), location_getblock(x, l) = "ok"
    PROVE  /\ l.type \in LocationType
           /\ l.block + 1 \in 1 .. Len(Arena(x, l))
           /\ l.type = "AUTOMATIC" => l.frame + 1 \in 1 .. Len(x.stack)
           /\ l.type = "DYNAMIC" => x.freed[l.block + 1] = FALSE
<1>1. x \in SymbolicState /\ l.block \in Nat /\ l.frame \in Nat /\ l.type \in LocationType
  BY DEF StateOK, LocationOK
<1>2. l.type = "AUTOMATIC" => l.frame + 1 \in 1 .. Len(x.stack)
  BY <1>1, Fields DEF location_getblock
<1>3. l.block < Len(Arena(x, l))
  BY DEF location_getblock
<1>4. l.type = "AUTOMATIC" => x.stack[l.frame + 1].frame \in Seq(Blocks)
  <2>1. l.type = "AUTOMATIC" => x.stack[l.frame + 1] \in Frame
    BY <1>2 DEF StateOK, FrameOK
  <2> QED
    BY <2>1 DEF Frame
<1>5. Arena(x, l) \in Seq(Blocks)
  BY <1>1, <1>4, Fields DEF Arena, LocationType
<1>6. Len(Arena(x, l)) \in Nat
  BY <1>5, LenProperties
<1>7. l.type = "DYNAMIC" => x.freed[l.block + 1] = FALSE
  <2> SUFFICES ASSUME l.type = "DYNAMIC" PROVE x.freed[l.block + 1] = FALSE
    OBVIOUS
  <2>1. ~x.freed[l.block + 1]
    BY <1>3 DEF location_getblock
  <2>2. Arena(x, l) = x.heap
    BY DEF Arena
  <2>3. l.block + 1 \in 1 .. Len(x.freed)
    BY <1>1, <1>3, <2>2, Fields DEF StateOK
  <2>4. x.freed[l.block + 1] \in BOOLEAN
    BY <1>1, <2>3, Fields, ElementOfSeq
  <2> QED
    BY <2>1, <2>4
<1> QED
  BY <1>1, <1>2, <1>3, <1>6, <1>7

(* A state y that keeps the blocks of x and has at most one new one, b. *)
LEMMA Changed ==
    ASSUME NEW x, StateOK(x), NEW y \in SymbolicState, NoBlockLost(x, y),
           NEW b, BlockOK(y, b), AllBlocks(y) \subseteq AllBlocks(x) \cup {b},
           Len(y.freed) = Len(y.heap), Len(y.stack) > 0,
           \A f \in 1 .. Len(y.stack) : FrameOK(y.stack[f]),
           ConstantsOK(y.vconst), PoolOK(y)
    PROVE  StateOK(y)
<1>1. \A c \in AllBlocks(y) : BlockOK(y, c)
  <2> SUFFICES ASSUME NEW c \in AllBlocks(y) PROVE BlockOK(y, c)
    OBVIOUS
  <2>1. CASE c = b
    BY <2>1
  <2>2. CASE c \in AllBlocks(x)
    BY <2>2, BlockKept DEF StateOK
  <2> QED
    BY <2>1, <2>2
<1> QED
  BY <1>1 DEF StateOK

(* Replacing a block by one that is right and has its offsets. *)
LEMMA WithBlockKeeps ==
    ASSUME NEW x, StateOK(x), NEW l, LocationOK(l), location_getblock(x, l) = "ok",
           NEW b, BlockOK(x, b), \A o \in Nat : HasOffset(Block(x, l), o) => HasOffset(b, o)
    PROVE  /\ StateOK(WithBlock(x, l, b))
           /\ SameShape(x, WithBlock(x, l, b))
           /\ FreedKept(x, WithBlock(x, l, b))
           /\ StackKept(x, WithBlock(x, l, b), l)
           /\ AllBlocks(WithBlock(x, l, b)) \subseteq AllBlocks(x) \cup {b}
           /\ location_getblock(WithBlock(x, l, b), l) = "ok"
           /\ Block(WithBlock(x, l, b), l) = b
<1> DEFINE y == WithBlock(x, l, b)
           a == l.block + 1
           c == [Arena(x, l) EXCEPT ![a] = b]
<1>1. /\ x \in SymbolicState /\ b \in Blocks /\ l.block \in Nat /\ l.frame \in Nat
      /\ l.type \in LocationType
      /\ a \in 1 .. Len(Arena(x, l))
  BY Located DEF StateOK, BlockOK, LocationOK
<1>2. ASSUME y \in SymbolicState, SameShape(x, y), AllBlocks(y) \subseteq AllBlocks(x) \cup {b},
             \A f \in 1 .. Len(y.stack) : FrameOK(y.stack[f])
      PROVE  StateOK(y)
  <2>1. NoBlockLost(x, y)
    BY <1>1, <1>2, Fields DEF NoBlockLost, SameShape
  <2>2. BlockOK(y, b)
    BY <1>2, <2>1, BlockKept
  <2>3. /\ Len(y.freed) = Len(y.heap) /\ Len(y.stack) > 0
        /\ ConstantsOK(y.vconst) /\ PoolOK(y)
    BY <1>2 DEF StateOK, SameShape, PoolOK
  <2> QED
    BY <1>2, <2>1, <2>2, <2>3, Changed
<1>3. CASE l.type = "STATIC"
  <2>1. a \in 1 .. Len(x.static) /\ x.static \in Seq(Blocks) /\ Arena(x, l) = x.static
    BY <1>1, <1>3, Fields DEF Arena
  <2>2. y = [x EXCEPT !.static = c]
    BY <1>3, <2>1 DEF WithBlock
  <2>3. c \in Seq(Blocks) /\ Len(c) = Len(x.static)
    BY <1>1, <2>1, ExceptSeq
  <2>4. \A i \in 1 .. Len(x.static) : c[i] = IF i = a THEN b ELSE x.static[i]
    BY <1>1, <2>1, ExceptSeq
  <2>5. y \in SymbolicState /\ y.static = c
    BY <1>1, <2>2, <2>3 DEF SymbolicState
  <2>6. /\ y.vconst = x.vconst /\ y.pool = x.pool
        /\ y.clump = x.clump /\ y.heap = x.heap /\ y.freed = x.freed /\ y.stack = x.stack
    BY <1>1, <2>2 DEF SymbolicState
  <2>7. SameShape(x, y)
    BY <2>3, <2>5, <2>6 DEF SameShape
  <2>8. AllBlocks(y) \subseteq AllBlocks(x) \cup {b}
    BY <2>3, <2>4, <2>5, <2>6 DEF AllBlocks
  <2>9. \A f \in 1 .. Len(y.stack) : FrameOK(y.stack[f])
    BY <2>6 DEF StateOK
  <2>10. FreedKept(x, y)
    BY <1>1, <2>6, Fields DEF FreedKept
  <2>11. location_getblock(y, l) = "ok" /\ Block(y, l) = b
    BY <1>1, <1>3, <2>1, <2>3, <2>4, <2>5 DEF location_getblock, Arena, Block
  <2>12. StackKept(x, y, l)
    BY <2>6 DEF StackKept
  <2> QED
    BY <1>2, <2>5, <2>7, <2>8, <2>9, <2>10, <2>11, <2>12
<1>4. CASE l.type = "DEREFERENCABLE"
  <2>1. a \in 1 .. Len(x.clump) /\ x.clump \in Seq(Blocks) /\ Arena(x, l) = x.clump
    BY <1>1, <1>4, Fields DEF Arena
  <2>2. y = [x EXCEPT !.clump = c]
    BY <1>4, <2>1 DEF WithBlock
  <2>3. c \in Seq(Blocks) /\ Len(c) = Len(x.clump)
    BY <1>1, <2>1, ExceptSeq
  <2>4. \A i \in 1 .. Len(x.clump) : c[i] = IF i = a THEN b ELSE x.clump[i]
    BY <1>1, <2>1, ExceptSeq
  <2>5. y \in SymbolicState /\ y.clump = c
    BY <1>1, <2>2, <2>3 DEF SymbolicState
  <2>6. /\ y.vconst = x.vconst /\ y.pool = x.pool
        /\ y.static = x.static /\ y.heap = x.heap /\ y.freed = x.freed /\ y.stack = x.stack
    BY <1>1, <2>2 DEF SymbolicState
  <2>7. SameShape(x, y)
    BY <2>3, <2>5, <2>6 DEF SameShape
  <2>8. AllBlocks(y) \subseteq AllBlocks(x) \cup {b}
    BY <2>3, <2>4, <2>5, <2>6 DEF AllBlocks
  <2>9. \A f \in 1 .. Len(y.stack) : FrameOK(y.stack[f])
    BY <2>6 DEF StateOK
  <2>10. FreedKept(x, y)
    BY <1>1, <2>6, Fields DEF FreedKept
  <2>11. location_getblock(y, l) = "ok" /\ Block(y, l) = b
    BY <1>1, <1>4, <2>1, <2>3, <2>4, <2>5 DEF location_getblock, Arena, Block
  <2>12. StackKept(x, y, l)
    BY <2>6 DEF StackKept
  <2> QED
    BY <1>2, <2>5, <2>7, <2>8, <2>9, <2>10, <2>11, <2>12
<1>5. CASE l.type = "DYNAMIC"
  <2>1. a \in 1 .. Len(x.heap) /\ x.heap \in Seq(Blocks) /\ Arena(x, l) = x.heap
    BY <1>1, <1>5, Fields DEF Arena
  <2>2. y = [x EXCEPT !.heap = c]
    BY <1>5, <2>1 DEF WithBlock
  <2>3. c \in Seq(Blocks) /\ Len(c) = Len(x.heap)
    BY <1>1, <2>1, ExceptSeq
  <2>4. \A i \in 1 .. Len(x.heap) : c[i] = IF i = a THEN b ELSE x.heap[i]
    BY <1>1, <2>1, ExceptSeq
  <2>5. y \in SymbolicState /\ y.heap = c
    BY <1>1, <2>2, <2>3 DEF SymbolicState
  <2>6. /\ y.vconst = x.vconst /\ y.pool = x.pool
        /\ y.static = x.static /\ y.clump = x.clump /\ y.freed = x.freed /\ y.stack = x.stack
    BY <1>1, <2>2 DEF SymbolicState
  <2>7. SameShape(x, y)
    BY <2>3, <2>5, <2>6 DEF SameShape
  <2>8. AllBlocks(y) \subseteq AllBlocks(x) \cup {b}
    BY <2>3, <2>4, <2>5, <2>6 DEF AllBlocks
  <2>9. \A f \in 1 .. Len(y.stack) : FrameOK(y.stack[f])
    BY <2>6 DEF StateOK
  <2>10. FreedKept(x, y)
    <3>1. x.freed[a] = FALSE
      BY <1>5, Located
    <3> QED
      BY <1>1, <2>3, <2>4, <2>5, <2>6, <3>1, Fields DEF FreedKept
  <2>11. location_getblock(y, l) = "ok" /\ Block(y, l) = b
    <3>1. y.freed[a] = FALSE
      BY <1>5, <2>6, Located
    <3> QED
      BY <1>1, <1>5, <2>1, <2>3, <2>4, <2>5, <3>1 DEF location_getblock, Arena, Block
  <2>12. StackKept(x, y, l)
    BY <2>6 DEF StackKept
  <2> QED
    BY <1>2, <2>5, <2>7, <2>8, <2>9, <2>10, <2>11, <2>12
<1>6. CASE l.type = "AUTOMATIC"
  <2> DEFINE g == l.frame + 1
             h == [x.stack[g] EXCEPT !.frame = c]
             k == [x.stack EXCEPT ![g] = h]
  <2>1. g \in 1 .. Len(x.stack) /\ x.stack \in Seq(Frame)
    BY <1>1, <1>6, Located, Fields
  <2>2. FrameOK(x.stack[g]) /\ x.stack[g] \in Frame
    BY <2>1 DEF StateOK, FrameOK
  <2>3. x.stack[g].frame \in Seq(Blocks) /\ Arena(x, l) = x.stack[g].frame
    BY <1>6, <2>2 DEF Frame, Arena
  <2>4. c \in Seq(Blocks) /\ Len(c) = Len(x.stack[g].frame)
    BY <1>1, <2>3, ExceptSeq
  <2>5. \A i \in 1 .. Len(x.stack[g].frame) : c[i] = IF i = a THEN b ELSE x.stack[g].frame[i]
    BY <1>1, <2>3, ExceptSeq
  <2>6. h \in Frame /\ h.frame = c /\ h.varmap = x.stack[g].varmap
    BY <2>2, <2>4 DEF Frame
  <2>7. k \in Seq(Frame) /\ Len(k) = Len(x.stack)
    BY <2>1, <2>6, ExceptSeq
  <2>8. \A i \in 1 .. Len(x.stack) : k[i] = IF i = g THEN h ELSE x.stack[i]
    BY <2>1, <2>6, ExceptSeq
  <2>9. y = [x EXCEPT !.stack = k]
    BY <1>6, <2>3 DEF WithBlock
  <2>10. y \in SymbolicState /\ y.stack = k
    BY <1>1, <2>7, <2>9 DEF SymbolicState
  <2>11. /\ y.vconst = x.vconst /\ y.pool = x.pool /\ y.static = x.static
         /\ y.clump = x.clump /\ y.heap = x.heap /\ y.freed = x.freed
    BY <1>1, <2>9 DEF SymbolicState
  <2>12. SameShape(x, y)
    BY <2>4, <2>6, <2>7, <2>8, <2>10, <2>11 DEF SameShape
  <2>13. AllBlocks(y) \subseteq AllBlocks(x) \cup {b}
    <3>1. ASSUME NEW f \in 1 .. Len(k), NEW i \in 1 .. Len(k[f].frame)
          PROVE  k[f].frame[i] = b \/ k[f].frame[i] \in AllBlocks(x)
      <4>1. \A e \in 1 .. Len(x.stack[f].frame) : x.stack[f].frame[e] \in AllBlocks(x)
        BY <2>7 DEF AllBlocks
      <4> QED
        BY <2>4, <2>5, <2>6, <2>7, <2>8, <4>1
    <3> HIDE DEF k, h, c
    <3>2. /\ {y.static[e] : e \in 1 .. Len(y.static)} \subseteq AllBlocks(x)
          /\ {y.clump[e] : e \in 1 .. Len(y.clump)} \subseteq AllBlocks(x)
          /\ {y.heap[e] : e \in 1 .. Len(y.heap)} \subseteq AllBlocks(x)
      BY <2>11 DEF AllBlocks
    <3>3. UNION {{y.stack[f].frame[e] : e \in 1 .. Len(y.stack[f].frame)} : f \in 1 .. Len(y.stack)}
            \subseteq AllBlocks(x) \cup {b}
      BY <2>10, <3>1
    <3> QED
      BY <3>2, <3>3 DEF AllBlocks
  <2>14. FrameOK(h)
    <3>1. \A e \in 1 .. Len(c) : HasOffset(c[e], 0)
      BY <1>1, <2>2, <2>3, <2>4, <2>5 DEF FrameOK, Block
    <3> QED
      BY <2>2, <2>4, <2>6, <3>1 DEF FrameOK
  <2>15. \A f \in 1 .. Len(y.stack) : FrameOK(y.stack[f])
    BY <2>7, <2>8, <2>10, <2>14 DEF StateOK
  <2>16. FreedKept(x, y)
    BY <1>1, <2>11, Fields DEF FreedKept
  <2>17. location_getblock(y, l) = "ok" /\ Block(y, l) = b
    <3>1. Arena(y, l) = c
      BY <1>6, <2>1, <2>6, <2>8, <2>10 DEF Arena
    <3>2. c[a] = b /\ l.block < Len(c)
      BY <1>1, <2>3, <2>4, <2>5
    <3>3. ~(l.frame >= Len(y.stack))
      BY <1>1, <2>1, <2>7, <2>10, LenProperties
    <3> QED
      BY <1>6, <3>1, <3>2, <3>3 DEF location_getblock, Block
  <2>18. StackKept(x, y, l)
    BY <1>6, <2>5, <2>6, <2>8, <2>10 DEF StackKept
  <2> QED
    BY <1>2, <2>10, <2>12, <2>13, <2>15, <2>16, <2>17, <2>18
<1> QED
  BY <1>1, <1>3, <1>4, <1>5, <1>6 DEF LocationType

-----------------------------------------------------------------------------
(* Objects. *)

(* A block that a location reaches is one of the state's. *)
LEMMA Reached ==
    ASSUME NEW x, StateOK(x), NEW l, LocationOK(l), location_getblock(x, l) = "ok"
    PROVE  BlockOK(x, Block(x, l)) /\ Block(x, l) \in AllBlocks(x)
<1>1. l.type \in LocationType /\ l.block + 1 \in 1 .. Len(Arena(x, l))
  BY Located
<1>2. l.type = "AUTOMATIC" => l.frame + 1 \in 1 .. Len(x.stack)
  BY Located
<1>3. Block(x, l) \in AllBlocks(x)
  <2>1. CASE l.type = "STATIC"
    BY <1>1, <2>1 DEF Block, Arena, AllBlocks
  <2>2. CASE l.type = "DYNAMIC"
    BY <1>1, <2>2 DEF Block, Arena, AllBlocks
  <2>3. CASE l.type = "DEREFERENCABLE"
    BY <1>1, <2>3 DEF Block, Arena, AllBlocks
  <2>4. CASE l.type = "AUTOMATIC"
    <3> DEFINE F == x.stack[l.frame + 1].frame
    <3>1. Arena(x, l) = F
      BY <2>4 DEF Arena
    <3>2. Block(x, l) \in {F[a] : a \in 1 .. Len(F)}
      BY <1>1, <3>1 DEF Block
    <3>3. l.frame + 1 \in 1 .. Len(x.stack)
      BY <1>2, <2>4
    <3> QED
      BY ONLY <3>2, <3>3 DEF AllBlocks
  <2> QED
    BY <1>1, <2>1, <2>2, <2>3, <2>4 DEF LocationType
<1> QED
  BY <1>3 DEF StateOK

(* Replacing a block by one that holds other values of V. *)
LEMMA ValuesOfBlocks ==
    ASSUME NEW x, NEW y, NEW b, NEW c, NEW V,
           AllBlocks(y) \subseteq AllBlocks(x) \cup {c}, b \in AllBlocks(x),
           \A i \in 1 .. Len(c) : c[i].value \in V \/ \E j \in 1 .. Len(b) : c[i].value = b[j].value
    PROVE  HoldsOnly(x, y, V)
<1> SUFFICES ASSUME NEW v \in Values(y) PROVE v \in Values(x) \cup V
  BY DEF HoldsOnly
<1>1. PICK d \in AllBlocks(y) : \E i \in 1 .. Len(d) : v = d[i].value
  BY DEF Values
<1>2. CASE d \in AllBlocks(x)
  BY <1>1, <1>2 DEF Values
<1>3. CASE d = c
  BY <1>1, <1>3 DEF Values
<1> QED
  BY <1>2, <1>3

(* A new block that holds values of V. *)
LEMMA ValuesOfNewBlock ==
    ASSUME NEW x, NEW y, NEW c, NEW V, AllBlocks(y) \subseteq AllBlocks(x) \cup {c},
           \A i \in 1 .. Len(c) : c[i].value \in V
    PROVE  HoldsOnly(x, y, V)
<1> SUFFICES ASSUME NEW v \in Values(y) PROVE v \in Values(x) \cup V
  BY DEF HoldsOnly
<1>1. PICK d \in AllBlocks(y) : \E i \in 1 .. Len(d) : v = d[i].value
  BY DEF Values
<1> QED
  BY <1>1 DEF Values

LEMMA EmptyHolds ==
    ASSUME NEW x, NEW y, AllBlocks(y) \subseteq AllBlocks(x) \cup {<<>>}
    PROVE  HoldsOnly(x, y, {})
<1> DEFINE e == <<>>
<1>1. \A i \in 1 .. Len(e) : e[i].value \in {}
  OBVIOUS
<1> QED
  BY <1>1, ValuesOfNewBlock

(* state_get puts the object there and changes nothing else. *)
LEMMA StateGet ==
    ASSUME NEW x, StateOK(x), NEW l, LocationOK(l), location_getblock(x, l) = "ok"
    PROVE  /\ StateOK(state_get(x, l))
           /\ SameShape(x, state_get(x, l))
           /\ FreedKept(x, state_get(x, l))
           /\ StackKept(x, state_get(x, l), l)
           /\ HoldsOnly(x, state_get(x, l), {NoValue})
           /\ location_getblock(state_get(x, l), l) = "ok"
           /\ HasOffset(Block(state_get(x, l), l), l.offset)
<1> DEFINE b == Block(x, l)
           c == block_observe(b, l.offset, TRUE)
           e == object_value_create(l.offset, NoValue)
<1>1. BlockOK(x, b) /\ b \in Seq(Object) /\ l.offset \in Nat
  BY Reached DEF BlockOK, Blocks, Object, LocationOK
<1>2. /\ e \in Object /\ e.offset = l.offset /\ ValueOK(x, e.value)
  BY <1>1 DEF object_value_create, Object, ValueOK, Value, value_islocation, NoValue
<1>3. /\ Append(b, e) \in Seq(Object)
      /\ Len(Append(b, e)) = Len(b) + 1
      /\ \A i \in 1 .. Len(b) : Append(b, e)[i] = b[i]
      /\ Append(b, e)[Len(b) + 1] = e
      /\ Len(b) \in Nat
  BY <1>1, <1>2, AppendProperties, LenProperties
<1>4. BlockOK(x, c) /\ HasOffset(c, l.offset) /\ \A o \in Nat : HasOffset(b, o) => HasOffset(c, o)
  <2>1. CASE object_arr_index(b, l.offset) = {}
    <3>1. c = Append(b, e)
      BY <2>1 DEF block_observe
    <3>2. \A i \in 1 .. Len(b) : b[i].offset # l.offset
      BY <2>1 DEF object_arr_index
    <3>3. /\ Len(b) \in Nat /\ Len(c) = Len(b) + 1 /\ c[Len(b) + 1] = e
          /\ \A i \in 1 .. Len(b) : c[i] = b[i]
          /\ c \in Blocks
      BY <1>3, <3>1 DEF Blocks, Object
    <3> HIDE DEF b, c, e
    <3>4. \A i \in 1 .. Len(c) : i \in 1 .. Len(b) \/ i = Len(b) + 1
      BY <3>3
    <3>5. Len(b) + 1 \in 1 .. Len(c) /\ \A i \in 1 .. Len(b) : i \in 1 .. Len(c)
      BY <3>3
    <3>6. \A i, j \in 1 .. Len(c) : c[i].offset = c[j].offset => i = j
      BY <1>1, <1>2, <3>2, <3>3, <3>4 DEF BlockOK
    <3>7. \A i \in 1 .. Len(c) : ValueOK(x, c[i].value)
      BY <1>1, <1>2, <3>3, <3>4 DEF BlockOK
    <3>8. HasOffset(c, l.offset) /\ \A o \in Nat : HasOffset(b, o) => HasOffset(c, o)
      BY <1>2, <3>3, <3>5 DEF HasOffset
    <3> QED
      BY <3>3, <3>6, <3>7, <3>8 DEF BlockOK
  <2>2. CASE object_arr_index(b, l.offset) # {}
    <3>1. c = b
      BY <2>2 DEF block_observe
    <3>2. HasOffset(b, l.offset)
      BY <2>2 DEF HasOffset, object_arr_index
    <3> QED
      BY <1>1, <3>1, <3>2
  <2> QED
    BY <2>1, <2>2
<1>5. state_get(x, l) = WithBlock(x, l, c)
  BY DEF state_get
<1>6. \A i \in 1 .. Len(c) : c[i].value \in {NoValue} \/ \E j \in 1 .. Len(b) : c[i].value = b[j].value
  <2>1. c = b \/ c = Append(b, e)
    BY DEF block_observe
  <2>2. e.value = NoValue
    BY DEF object_value_create
  <2> HIDE DEF b, c, e
  <2> QED
    BY <1>3, <2>1, <2>2
<1> HIDE DEF c
<1>7. AllBlocks(state_get(x, l)) \subseteq AllBlocks(x) \cup {c}
  BY <1>4, <1>5, WithBlockKeeps
<1>8. b \in AllBlocks(x)
  BY Reached
<1>9. HoldsOnly(x, state_get(x, l), {NoValue})
  BY <1>6, <1>7, <1>8, ValuesOfBlocks
<1> QED
  BY <1>4, <1>5, <1>9, WithBlockKeeps

(* The index that object_as_value and object_assign look for. *)
LEMMA Index ==
    ASSUME NEW b, NEW o, HasOffset(b, o)
    PROVE  LET i == CHOOSE i \in object_arr_index(b, o) : TRUE
           IN i \in 1 .. Len(b) /\ b[i].offset = o
  BY DEF HasOffset, object_arr_index

LEMMA AsValue ==
    ASSUME NEW x, StateOK(x), NEW l, LocationOK(l), location_getblock(x, l) = "ok",
           HasOffset(Block(x, l), l.offset)
    PROVE  ValueOK(x, object_as_value(x, l)) /\ object_as_value(x, l) \in Values(x)
<1>1. BlockOK(x, Block(x, l)) /\ Block(x, l) \in AllBlocks(x)
  BY Reached
<1>2. \E i \in 1 .. Len(Block(x, l)) : object_as_value(x, l) = Block(x, l)[i].value
  BY Index DEF object_as_value
<1> QED
  BY <1>1, <1>2 DEF BlockOK, Values

LEMMA AssignKeeps ==
    ASSUME NEW x, StateOK(x), NEW l, LocationOK(l), location_getblock(x, l) = "ok",
           HasOffset(Block(x, l), l.offset), NEW v, ValueOK(x, v)
    PROVE  /\ StateOK(object_assign(x, l, v))
           /\ SameShape(x, object_assign(x, l, v))
           /\ FreedKept(x, object_assign(x, l, v))
           /\ StackKept(x, object_assign(x, l, v), l)
           /\ HoldsOnly(x, object_assign(x, l, v), {v})
<1> DEFINE b == Block(x, l)
           i == CHOOSE i \in object_arr_index(b, l.offset) : TRUE
           c == [b EXCEPT ![i] = [b[i] EXCEPT !.value = v]]
<1>1. BlockOK(x, b) /\ b \in Seq(Object) /\ v \in Value
  BY Reached DEF BlockOK, Blocks, Object, ValueOK
<1>2. i \in 1 .. Len(b)
  BY Index
<1> HIDE DEF b, i
<1>3. b[i] \in Object
  BY <1>1, <1>2, ElementOfSeq
<1>4. [b[i] EXCEPT !.value = v] \in Object
  BY <1>1, <1>3 DEF Object
<1>5. /\ c \in Seq(Object)
      /\ Len(c) = Len(b)
      /\ \A j \in 1 .. Len(b) : c[j] = IF j = i THEN [b[i] EXCEPT !.value = v] ELSE b[j]
  BY <1>1, <1>2, <1>4, ExceptSeq
<1>6. \A j \in 1 .. Len(b) : c[j].offset = b[j].offset
  BY <1>3, <1>5 DEF Object
<1>7. \A j \in 1 .. Len(b) : c[j].value = IF j = i THEN v ELSE b[j].value
  BY <1>3, <1>5 DEF Object
<1>8. object_assign(x, l, v) = WithBlock(x, l, c)
  BY DEF object_assign, b, i
<1> HIDE DEF c
<1>9. BlockOK(x, c)
  BY <1>1, <1>5, <1>6, <1>7 DEF BlockOK, Blocks, Object
<1>10. \A o \in Nat : HasOffset(b, o) => HasOffset(c, o)
  BY <1>5, <1>6 DEF HasOffset
<1>11. AllBlocks(object_assign(x, l, v)) \subseteq AllBlocks(x) \cup {c}
  BY <1>8, <1>9, <1>10, WithBlockKeeps DEF b
<1>12. b \in AllBlocks(x)
  BY Reached DEF b
<1>13. HoldsOnly(x, object_assign(x, l, v), {v})
  BY <1>5, <1>7, <1>11, <1>12, ValuesOfBlocks
<1> QED
  BY <1>8, <1>9, <1>10, <1>13, WithBlockKeeps DEF b

-----------------------------------------------------------------------------
(* Variables and lvalues. *)

(* A location whose object exists. *)
LvalueOK(x, l) ==
    /\ LocationOK(l)
    /\ location_getblock(x, l) = "ok"
    /\ HasOffset(Block(x, l), l.offset)

LEMMA VariableOK ==
    ASSUME NEW x, StateOK(x), NEW id \in Declared(Top(x)) \cup {"return"}
    PROVE  /\ LvalueOK(x, stack_getvariable(x, id))
           /\ ValueOK(x, value_ptr_create(stack_getvariable(x, id)))
<1> DEFINE l == stack_getvariable(x, id)
           f == Top(x)
           n == Len(x.stack)
           i == CHOOSE i \in 1 .. Len(f.varmap) : f.varmap[i].name = id
           a == IF id = "return" THEN 0 ELSE f.varmap[i].address
<1>1. x \in SymbolicState /\ n \in Nat /\ n > 0
  BY Fields DEF StateOK
<1>2. f = x.stack[n] /\ FrameOK(f)
  BY <1>1 DEF StateOK, Top
<1>3. f.frame \in Seq(Blocks) /\ Len(f.frame) \in Nat
      /\ f.varmap \in Seq([name : Names, isparam : BOOLEAN, address : Nat])
  BY <1>2, LenProperties DEF FrameOK, Frame
<1>4. a \in Nat /\ a < Len(f.frame)
  <2>1. CASE id = "return"
    BY <1>2, <1>3, <2>1 DEF FrameOK
  <2>2. CASE id # "return"
    <3>1. i \in 1 .. Len(f.varmap)
      BY <2>2 DEF Declared
    <3>2. f.varmap[i] \in [name : Names, isparam : BOOLEAN, address : Nat]
      BY <1>3, <3>1, ElementOfSeq
    <3> QED
      BY <1>2, <2>2, <3>1, <3>2 DEF FrameOK
  <2> QED
    BY <2>1, <2>2
<1>5. l = [type |-> "AUTOMATIC", frame |-> n - 1, block |-> a, offset |-> 0]
  BY DEF stack_getvariable, location_create_automatic, Location
<1> HIDE DEF l, f, n, a
<1>6. l \in [type : LocationType, frame : Nat, block : Nat, offset : {0}]
  BY <1>1, <1>4, <1>5 DEF LocationType
<1>7. l.type = "AUTOMATIC" /\ l.frame + 1 = n /\ l.block = a /\ l.offset = 0
  BY <1>1, <1>5
<1>8. Arena(x, l) = f.frame
  BY <1>2, <1>7 DEF Arena
<1>9. location_getblock(x, l) = "ok"
  BY <1>1, <1>4, <1>7, <1>8, <1>6 DEF location_getblock, n
<1>10. HasOffset(Block(x, l), l.offset)
  BY <1>2, <1>3, <1>4, <1>7, <1>8 DEF Block, FrameOK
<1>11. LocationOK(l)
  BY <1>6 DEF LocationOK
<1>12. ValueOK(x, value_ptr_create(l))
  BY <1>6, <1>7 DEF ValueOK, Value, value_ptr_create
<1> QED
  BY <1>9, <1>10, <1>11, <1>12 DEF l, LvalueOK

LEMMA Reflexive ==
    ASSUME NEW x, StateOK(x)
    PROVE  SameShape(x, x) /\ FreedKept(x, x) /\ HeapKept(x, x)
<1>1. Len(x.heap) \in Nat
  BY Fields DEF StateOK
<1> QED
  BY <1>1 DEF SameShape, FreedKept, HeapKept

(* What an object holds can be dereferenced: a block and an offset. *)
LEMMA PointersOK ==
    ASSUME NEW x, StateOK(x), NEW p \in Pointers(x)
    PROVE  /\ p \in [type : LocationType, frame : Nat, block : Nat, offset : {0}]
           /\ \E v \in Values(x) : value_islocation(v) /\ p = v.loc
<1> DEFINE L == [type : LocationType, frame : Nat, block : Nat, offset : {0}]
           vars == {l.loc : l \in Variables(x)}
           held == Held(x, vars)
           seen == {l \in held : HasObject(x, l)}
<1>1. ASSUME NEW ls, \A l \in ls : LvalueOK(x, l), NEW q \in Held(x, ls)
      PROVE  q \in L /\ \E v \in Values(x) : value_islocation(v) /\ q = v.loc
  <2>1. PICK l \in ls : LET v == object_as_value(x, l) IN value_islocation(v) /\ q = v.loc
    BY <1>1 DEF Held
  <2>2. ValueOK(x, object_as_value(x, l)) /\ object_as_value(x, l) \in Values(x)
    BY <1>1, AsValue DEF LvalueOK
  <2>3. \E v \in Values(x) : value_islocation(v) /\ q = v.loc
    BY <2>1, <2>2
  <2>4. q \in L
    BY <2>1, <2>2 DEF ValueOK, Value, value_islocation, NoValue
  <2> QED
    BY <2>3, <2>4
<1>2. \A l \in vars : LvalueOK(x, l)
  BY VariableOK DEF Variables, Variable
<1>3. held \subseteq L
  BY <1>1, <1>2
<1>4. \A l \in seen : LvalueOK(x, l)
  <2> SUFFICES ASSUME NEW l \in held, HasObject(x, l) PROVE LvalueOK(x, l)
    OBVIOUS
  <2>1. LocationOK(l)
    BY <1>3 DEF LocationOK
  <2>2. location_getblock(x, l) = "ok" /\ HasOffset(Block(x, l), l.offset)
    BY DEF HasObject, HasOffset, object_arr_index
  <2> QED
    BY <2>1, <2>2 DEF LvalueOK
<1>5. Held(x, seen) \subseteq L
  BY <1>1, <1>4
<1>6. \A q \in held \cup Held(x, seen) : \E v \in Values(x) : value_islocation(v) /\ q = v.loc
  BY <1>1, <1>2, <1>4
<1>7. Pointers(x) = held \cup Held(x, seen)
  BY DEF Pointers
<1> HIDE DEF held, seen, L
<1>8. p \in L /\ \E v \in Values(x) : value_islocation(v) /\ p = v.loc
  BY <1>3, <1>5, <1>6, <1>7
<1> QED
  BY <1>8 DEF L

LEMMA LvaluesOK ==
    ASSUME NEW x, StateOK(x), NEW r \in Targets(x)
    PROVE  /\ StateOK(r.s) /\ SameShape(x, r.s) /\ FreedKept(x, r.s)
           /\ LvalueOK(r.s, r.loc)
<1>1. ASSUME NEW id \in Declared(Top(x)) \cup {"return"}, r = Variable(x, id)
      PROVE  r.s = x /\ LvalueOK(x, r.loc)
  BY <1>1, VariableOK DEF Variable
<1>2. CASE r \in Variables(x) \/ r = Variable(x, "return")
  BY <1>1, <1>2, Reflexive DEF Variables
<1>3. CASE r \in Dereferenced(x)
  <2>1. PICK p \in Pointers(x), i \in Offsets :
          /\ r = [s |-> state_get(x, [p EXCEPT !.offset = i]), loc |-> [p EXCEPT !.offset = i]]
          /\ location_getblock(x, [p EXCEPT !.offset = i]) = "ok"
    BY <1>3 DEF Dereferenced
  <2> DEFINE l == [p EXCEPT !.offset = i]
  <2>4. p \in [type : LocationType, frame : Nat, block : Nat, offset : {0}]
    BY PointersOK
  <2>5. LocationOK(l) /\ l.offset = i
    BY <2>4, OffsetsAssumption DEF LocationOK
  <2> HIDE DEF l
  <2> QED
    BY <2>1, <2>5, StateGet DEF LvalueOK, l
<1> QED
  BY <1>2, <1>3 DEF Targets, Lvalues

-----------------------------------------------------------------------------
(* Allocation. *)

(* Blocks that are right in every state. *)
LEMMA FreshBlocks ==
    ASSUME NEW x
    PROVE  /\ BlockOK(x, <<>>)
           /\ BlockOK(x, variable_block) /\ HasOffset(variable_block, 0)
           /\ \A t \in Literals : BlockOK(x, <<object_value_create(0, value_literal_create(t))>>)
<1>1. BlockOK(x, <<>>)
  BY EmptySeq DEF BlockOK, Blocks
<1>2. ASSUME NEW v \in Value, ~value_islocation(v)
      PROVE  BlockOK(x, <<object_value_create(0, v)>>) /\ HasOffset(<<object_value_create(0, v)>>, 0)
  <2> DEFINE e == object_value_create(0, v)
  <2>1. e \in [offset : Nat, value : Value] /\ e.offset = 0 /\ e.value = v
    BY <1>2 DEF object_value_create
  <2> HIDE DEF e
  <2>2. <<e>> \in Seq([offset : Nat, value : Value]) /\ Len(<<e>>) = 1 /\ <<e>>[1] = e
    BY <2>1
  <2> QED
    BY <1>2, <2>1, <2>2 DEF e, BlockOK, Blocks, ValueOK, HasOffset
<1>3. NoValue \in Value /\ ~value_islocation(NoValue)
  BY DEF NoValue, Value, value_islocation
<1>4. \A t \in Literals : value_literal_create(t) \in Value /\ ~value_islocation(value_literal_create(t))
  BY DEF value_literal_create, Value, value_islocation
<1> QED
  BY <1>1, <1>2, <1>3, <1>4 DEF variable_block

LEMMA HeapNewblock ==
    ASSUME NEW x, StateOK(x)
    PROVE  LET y == heap_newblock(x) IN
           /\ StateOK(y) /\ FreedKept(x, y) /\ HeapGrown(x, y)
           /\ y.stack = x.stack /\ HoldsOnly(x, y, {})
           /\ ValueOK(y, value_ptr_create(location_create_dynamic(Len(x.heap))))
<1> DEFINE y == heap_newblock(x)
           h == Append(x.heap, <<>>)
           f == Append(x.freed, FALSE)
<1>1. /\ x \in SymbolicState /\ x.heap \in Seq(Blocks) /\ x.freed \in Seq(BOOLEAN)
      /\ Len(x.heap) \in Nat /\ Len(x.freed) = Len(x.heap)
      /\ Len(x.static) \in Nat /\ Len(x.clump) \in Nat
  BY Fields DEF StateOK
<1>2. <<>> \in Blocks /\ BlockOK(y, <<>>)
  BY FreshBlocks DEF BlockOK
<1>3. /\ h \in Seq(Blocks) /\ Len(h) = Len(x.heap) + 1
      /\ h[Len(x.heap) + 1] = <<>> /\ \A a \in 1 .. Len(x.heap) : h[a] = x.heap[a]
  BY <1>1, <1>2, AppendProperties
<1>4. /\ f \in Seq(BOOLEAN) /\ Len(f) = Len(x.freed) + 1
      /\ \A a \in 1 .. Len(x.freed) : f[a] = x.freed[a]
  <2>1. FALSE \in BOOLEAN
    OBVIOUS
  <2> QED
    BY <1>1, <2>1, AppendProperties, Zenon
<1>5. y = [x EXCEPT !.heap = h, !.freed = f]
  BY DEF heap_newblock
<1> HIDE DEF h
<1>6. /\ y \in SymbolicState /\ y.heap = h /\ y.freed = f
      /\ y.vconst = x.vconst /\ y.static = x.static /\ y.pool = x.pool
      /\ y.clump = x.clump /\ y.stack = x.stack
  BY <1>1, <1>3, <1>4, <1>5 DEF SymbolicState
<1> HIDE DEF y, f
<1>7. NoBlockLost(x, y)
  BY <1>1, <1>3, <1>6 DEF NoBlockLost
<1>8. AllBlocks(y) \subseteq AllBlocks(x) \cup {<<>>}
  <2>1. \A a \in 1 .. Len(h) : h[a] = <<>> \/ \E d \in 1 .. Len(x.heap) : h[a] = x.heap[d]
    BY <1>1, <1>3
  <2> QED
    BY <1>6, <2>1 DEF AllBlocks
<1>9. StateOK(y)
  <2>1. /\ Len(y.freed) = Len(y.heap) /\ Len(y.stack) > 0
        /\ \A g \in 1 .. Len(y.stack) : FrameOK(y.stack[g])
        /\ ConstantsOK(y.vconst) /\ PoolOK(y)
    BY <1>1, <1>3, <1>4, <1>6 DEF StateOK, PoolOK
  <2> QED
    BY <1>2, <1>6, <1>7, <1>8, <2>1, Changed
<1>10. FreedKept(x, y) /\ HeapGrown(x, y)
  <2>1. \A a \in 1 .. Len(x.heap) : y.freed[a] = x.freed[a] /\ y.heap[a] = x.heap[a]
    BY <1>1, <1>3, <1>4, <1>6, Zenon
  <2>2. Len(x.heap) <= Len(y.heap) /\ Len(y.heap) = Len(x.heap) + 1
    BY <1>1, <1>3, <1>6
  <2> QED
    BY <1>6, <2>1, <2>2, Zenon DEF FreedKept, HeapGrown, f
<1>11. ValueOK(y, value_ptr_create(location_create_dynamic(Len(x.heap))))
  <2> DEFINE l == location_create_dynamic(Len(x.heap))
  <2>1. /\ l \in [type : LocationType, frame : Nat, block : Nat, offset : {0}]
        /\ l.type = "DYNAMIC" /\ l.block = Len(x.heap)
    BY <1>1 DEF location_create_dynamic, Location, LocationType
  <2> HIDE DEF l
  <2>2. l.block < Len(Arena(y, l))
    BY <1>1, <1>3, <1>6, <2>1 DEF Arena
  <2> QED
    BY <2>1, <2>2 DEF ValueOK, Value, value_ptr_create, l
<1>12. HoldsOnly(x, y, {})
  BY <1>8, EmptyHolds
<1> QED
  BY <1>6, <1>9, <1>10, <1>11, <1>12 DEF y

LEMMA ClumpNewblock ==
    ASSUME NEW x, StateOK(x)
    PROVE  LET y == clump_newblock(x) IN
           /\ StateOK(y) /\ FreedKept(x, y) /\ HeapKept(x, y)
           /\ y.stack = x.stack /\ HoldsOnly(x, y, {})
           /\ ValueOK(y, value_ptr_create(location_create_dereferencable(Len(x.clump))))
<1> DEFINE y == clump_newblock(x)
           c == Append(x.clump, <<>>)
<1>1. /\ x \in SymbolicState /\ x.clump \in Seq(Blocks) /\ Len(x.heap) \in Nat
      /\ Len(x.static) \in Nat /\ Len(x.clump) \in Nat
  BY Fields DEF StateOK
<1>2. <<>> \in Blocks /\ BlockOK(y, <<>>)
  BY FreshBlocks DEF BlockOK
<1>3. /\ c \in Seq(Blocks) /\ Len(c) = Len(x.clump) + 1
      /\ c[Len(x.clump) + 1] = <<>> /\ \A a \in 1 .. Len(x.clump) : c[a] = x.clump[a]
  BY <1>1, <1>2, AppendProperties
<1>4. y = [x EXCEPT !.clump = c]
  BY DEF clump_newblock
<1> HIDE DEF c
<1>5. /\ y \in SymbolicState /\ y.clump = c
      /\ y.vconst = x.vconst /\ y.static = x.static /\ y.pool = x.pool
      /\ y.heap = x.heap /\ y.freed = x.freed /\ y.stack = x.stack
  BY <1>1, <1>3, <1>4 DEF SymbolicState
<1> HIDE DEF y
<1>6. NoBlockLost(x, y)
  BY <1>1, <1>3, <1>5 DEF NoBlockLost
<1>7. AllBlocks(y) \subseteq AllBlocks(x) \cup {<<>>}
  <2>1. \A a \in 1 .. Len(c) : c[a] = <<>> \/ \E d \in 1 .. Len(x.clump) : c[a] = x.clump[d]
    BY <1>1, <1>3
  <2> QED
    BY <1>5, <2>1 DEF AllBlocks
<1>8. StateOK(y)
  <2>1. /\ Len(y.freed) = Len(y.heap) /\ Len(y.stack) > 0
        /\ \A g \in 1 .. Len(y.stack) : FrameOK(y.stack[g])
        /\ ConstantsOK(y.vconst) /\ PoolOK(y)
    BY <1>5 DEF StateOK, PoolOK
  <2> QED
    BY <1>2, <1>5, <1>6, <1>7, <2>1, Changed
<1>9. FreedKept(x, y) /\ HeapKept(x, y)
  BY <1>1, <1>5 DEF FreedKept, HeapKept
<1>10. ValueOK(y, value_ptr_create(location_create_dereferencable(Len(x.clump))))
  <2> DEFINE l == location_create_dereferencable(Len(x.clump))
  <2>1. /\ l \in [type : LocationType, frame : Nat, block : Nat, offset : {0}]
        /\ l.type = "DEREFERENCABLE" /\ l.block = Len(x.clump)
    BY <1>1 DEF location_create_dereferencable, Location, LocationType
  <2> HIDE DEF l
  <2>2. l.block < Len(Arena(y, l))
    BY <1>1, <1>3, <1>5, <2>1 DEF Arena
  <2> QED
    BY <2>1, <2>2 DEF ValueOK, Value, value_ptr_create, l
<1>11. HoldsOnly(x, y, {})
  BY <1>7, EmptyHolds
<1> QED
  BY <1>5, <1>8, <1>9, <1>10, <1>11 DEF y

LEMMA StaticInit ==
    ASSUME NEW x, StateOK(x), NEW t \in Literals
    PROVE  LET y == state_static_init(x, t) IN
           /\ StateOK(y) /\ FreedKept(x, y) /\ HeapKept(x, y)
           /\ y.stack = x.stack /\ HoldsOnly(x, y, {value_literal_create(t)})
           /\ ValueOK(y, value_ptr_create(static_location(y, t)))
<1> DEFINE y == state_static_init(x, t)
           b == <<object_value_create(0, value_literal_create(t))>>
           d == Append(x.static, b)
           q == Append(x.pool, t)
           n == Len(x.static)
<1>1. /\ x \in SymbolicState /\ x.static \in Seq(Blocks) /\ x.pool \in Seq(Literals)
      /\ Len(x.heap) \in Nat /\ Len(x.clump) \in Nat /\ n \in Nat /\ Len(x.pool) = n
  BY Fields DEF StateOK, PoolOK
<1>2. ASSUME StateOK(y), static_memory_checkpool(y, t) # {}
      PROVE  ValueOK(y, value_ptr_create(static_location(y, t)))
  <2> DEFINE i == CHOOSE i \in static_memory_checkpool(y, t) : TRUE
             l == static_location(y, t)
  <2>1. Len(y.pool) = Len(y.static) /\ Len(y.static) \in Nat
    BY <1>2, Fields DEF StateOK, PoolOK
  <2>2. i \in 1 .. Len(y.static)
    BY <1>2, <2>1 DEF static_memory_checkpool
  <2> HIDE DEF i
  <2>3. l = [type |-> "STATIC", frame |-> 0, block |-> i - 1, offset |-> 0]
    BY DEF static_location, location_create_static, Location, i
  <2>4. /\ l \in [type : LocationType, frame : Nat, block : Nat, offset : {0}]
        /\ l.type = "STATIC" /\ l.block < Len(y.static)
    BY <2>1, <2>2, <2>3 DEF LocationType
  <2> QED
    BY <2>4 DEF ValueOK, Value, value_ptr_create, Arena
<1>3. CASE static_memory_checkpool(x, t) # {}
  <2>1. y = x
    BY <1>3 DEF state_static_init
  <2> HIDE DEF y
  <2> QED
    BY <1>2, <1>3, <2>1, Reflexive DEF y, HoldsOnly
<1>4. CASE static_memory_checkpool(x, t) = {}
  <2>1. b \in Blocks /\ BlockOK(y, b)
    BY FreshBlocks DEF BlockOK
  <2>2. y = [x EXCEPT !.static = d, !.pool = q]
    BY <1>4 DEF state_static_init
  <2> HIDE DEF b
  <2>3. /\ d \in Seq(Blocks) /\ Len(d) = n + 1
        /\ d[n + 1] = b /\ \A a \in 1 .. n : d[a] = x.static[a]
    BY <1>1, <2>1, AppendProperties
  <2>4. /\ q \in Seq(Literals) /\ Len(q) = n + 1
        /\ q[n + 1] = t /\ \A a \in 1 .. n : q[a] = x.pool[a]
    BY <1>1, AppendProperties
  <2> HIDE DEF d, q
  <2>5. /\ y \in SymbolicState /\ y.static = d /\ y.pool = q /\ y.vconst = x.vconst
        /\ y.clump = x.clump /\ y.heap = x.heap /\ y.freed = x.freed /\ y.stack = x.stack
    BY <1>1, <2>2, <2>3, <2>4 DEF SymbolicState
  <2> HIDE DEF y
  <2>6. NoBlockLost(x, y)
    BY <1>1, <2>3, <2>5 DEF NoBlockLost
  <2>7. AllBlocks(y) \subseteq AllBlocks(x) \cup {b}
    <3>1. \A a \in 1 .. Len(d) : d[a] = b \/ \E e \in 1 .. Len(x.static) : d[a] = x.static[e]
      BY <1>1, <2>3
    <3> QED
      BY <2>5, <3>1 DEF AllBlocks
  <2>8. PoolOK(y)
    <3>1. \A a \in 1 .. n : x.pool[a] # t
      BY <1>1, <1>4 DEF static_memory_checkpool
    <3>2. \A a \in 1 .. Len(q) : a \in 1 .. n \/ a = n + 1
      BY <1>1, <2>4
    <3>3. \A a, c \in 1 .. Len(q) : q[a] = q[c] => a = c
      BY <1>1, <2>4, <3>1, <3>2 DEF StateOK, PoolOK
    <3> QED
      BY <2>3, <2>4, <2>5, <3>3 DEF PoolOK
  <2>9. StateOK(y)
    <3>1. /\ Len(y.freed) = Len(y.heap) /\ Len(y.stack) > 0
          /\ \A g \in 1 .. Len(y.stack) : FrameOK(y.stack[g])
          /\ ConstantsOK(y.vconst)
      BY <2>5 DEF StateOK
    <3> QED
      BY <2>1, <2>5, <2>6, <2>7, <2>8, <3>1, Changed
  <2>10. FreedKept(x, y) /\ HeapKept(x, y)
    BY <1>1, <2>5 DEF FreedKept, HeapKept
  <2>11. static_memory_checkpool(y, t) # {}
    BY <1>1, <2>4, <2>5 DEF static_memory_checkpool
  <2>12. HoldsOnly(x, y, {value_literal_create(t)})
    <3>1. \A i \in 1 .. Len(b) : b[i].value \in {value_literal_create(t)}
      BY DEF b, object_value_create
    <3> QED
      BY <2>7, <3>1, ValuesOfNewBlock
  <2> QED
    BY <1>2, <2>5, <2>9, <2>10, <2>11, <2>12 DEF y
<1> QED
  BY <1>3, <1>4

(* vconst_id counts the constants of the kind it names. *)
LEMMA CountOfKind ==
    ASSUME NEW S, NEW c \in Seq([id : S, comment : {NoComment}, persist : BOOLEAN]), NEW persist \in BOOLEAN
    PROVE  vconst_id(c, persist) =
                <<IF persist THEN "$" ELSE "#",
                  Cardinality({j \in 1 .. Len(c) : c[j].persist = persist})>>
<1> DEFINE n == Len(c)
           P == {j \in 1 .. n : c[j].persist}
           N == {j \in 1 .. n : ~c[j].persist}
<1>1. n \in Nat
  BY LenProperties
<1>2. \A j \in 1 .. n : c[j].persist \in BOOLEAN
  <2>1. \A j \in 1 .. n : c[j] \in [id : S, comment : {NoComment}, persist : BOOLEAN]
    BY ElementOfSeq
  <2> QED
    BY <2>1
<1>3. IsFiniteSet(1 .. n) /\ Cardinality(1 .. n) = n
  <2>1. 1 \in Int /\ n \in Int
    BY <1>1
  <2>2. IsFiniteSet(1 .. n) /\ Cardinality(1 .. n) = IF 1 > n THEN 0 ELSE n - 1 + 1
    BY <2>1, FS_Interval, Zenon
  <2> QED
    BY <1>1, <2>2
<1>4. N = (1 .. n) \ P /\ (1 .. n) \cap P = P
  OBVIOUS
<1>5. IsFiniteSet(P) /\ Cardinality(N) = n - Cardinality(P)
  <2>1. P \in SUBSET (1 .. n)
    OBVIOUS
  <2> HIDE DEF P, N
  <2>2. IsFiniteSet(P)
    BY <1>3, <2>1, FS_Subset, Zenon
  <2>3. Cardinality((1 .. n) \ P) = Cardinality(1 .. n) - Cardinality((1 .. n) \cap P)
    BY <1>3, FS_Difference, Zenon
  <2> QED
    BY <1>3, <1>4, <2>2, <2>3
<1>6. CASE persist = TRUE
  <2>1. {j \in 1 .. n : c[j].persist = persist} = P
    BY <1>2, <1>6
  <2>2. vconst_id(c, persist) = <<"$", Cardinality(P)>>
    BY <1>6 DEF vconst_id
  <2> QED
    BY <1>6, <2>1, <2>2
<1>7. CASE persist = FALSE
  <2>1. {j \in 1 .. n : c[j].persist = persist} = N
    BY <1>2, <1>7
  <2>2. vconst_id(c, persist) = <<"#", n - Cardinality(P)>>
    BY <1>7 DEF vconst_id
  <2> QED
    BY <1>5, <1>7, <2>1, <2>2
<1> QED
  BY <1>6, <1>7

LEMMA VconstDeclare ==
    ASSUME NEW x, StateOK(x), NEW persist \in BOOLEAN
    PROVE  LET y == vconst_declare(x, NoComment, persist) IN
           /\ StateOK(y) /\ FreedKept(x, y) /\ HeapKept(x, y)
           /\ y.stack = x.stack /\ HoldsOnly(x, y, {})
           /\ ValueOK(y, value_sync_create(vconst_id(x.vconst, persist)))
<1> DEFINE y == vconst_declare(x, NoComment, persist)
           c == x.vconst
           n == Len(c)
           k == vconst_id(c, persist)
           e == [id |-> k, comment |-> NoComment, persist |-> persist]
           d == Append(c, e)
           S == {"$", "#"} \X Nat
           R == [id : S, comment : {NoComment}, persist : BOOLEAN]
<1>1. x \in SymbolicState /\ c \in Seq(R) /\ Len(x.heap) \in Nat /\ n \in Nat
  BY Fields DEF StateOK, SymbolicState
<1>2. k = <<IF persist THEN "$" ELSE "#", Cardinality({j \in 1 .. n : c[j].persist = persist})>>
  BY <1>1, CountOfKind
<1>3. Cardinality({j \in 1 .. n : c[j].persist = persist}) \in Nat
  <2> DEFINE J == {j \in 1 .. n : c[j].persist = persist}
  <2>1. IsFiniteSet(1 .. n)
    <3>1. 1 \in Int /\ n \in Int
      BY <1>1
    <3> QED
      BY <3>1, FS_Interval, Zenon
  <2>2. J \in SUBSET (1 .. n)
    OBVIOUS
  <2> HIDE DEF J
  <2>3. IsFiniteSet(J)
    BY <2>1, <2>2, FS_Subset, Zenon
  <2>4. Cardinality(J) \in Nat
    BY <2>3, FS_CardinalityType, Zenon
  <2> QED
    BY <2>4 DEF J
<1>4. k \in S
  BY <1>2, <1>3
<1> HIDE DEF k
<1>5. e \in R /\ e.id = k /\ e.persist = persist
  BY <1>4
<1> HIDE DEF e, R
<1>6. /\ d \in Seq(R) /\ Len(d) = n + 1
      /\ d[n + 1] = e /\ \A j \in 1 .. n : d[j] = c[j]
  BY <1>1, <1>5, AppendProperties
<1>7. y = [x EXCEPT !.vconst = d]
  BY DEF vconst_declare, d, e, k
<1> HIDE DEF d
<1>8. /\ y \in SymbolicState /\ y.vconst = d
      /\ y.static = x.static /\ y.pool = x.pool /\ y.clump = x.clump
      /\ y.heap = x.heap /\ y.freed = x.freed /\ y.stack = x.stack
  BY <1>1, <1>6, <1>7 DEF SymbolicState, R
<1> HIDE DEF y
<1>9. ConstantsOK(d)
  <2> SUFFICES ASSUME NEW i \in 1 .. Len(d)
               PROVE  d[i].id = <<IF d[i].persist THEN "$" ELSE "#", Cardinality(Earlier(d, i))>>
    BY DEF ConstantsOK
  <2>1. CASE i \in 1 .. n
    <3>1. Earlier(d, i) = Earlier(c, i)
      <4>1. \A j \in 1 .. i - 1 : j \in 1 .. n /\ d[j] = c[j]
        BY <1>1, <1>6, <2>1
      <4>2. d[i] = c[i]
        BY <1>6, <2>1
      <4> QED
        BY ONLY <4>1, <4>2 DEF Earlier
    <3>2. c[i].id = <<IF c[i].persist THEN "$" ELSE "#", Cardinality(Earlier(c, i))>>
      BY <2>1 DEF StateOK, ConstantsOK
    <3> QED
      BY <1>6, <2>1, <3>1, <3>2
  <2>2. CASE i = n + 1
    <3>1. Earlier(d, i) = {j \in 1 .. n : c[j].persist = persist}
      BY <1>1, <1>5, <1>6, <2>2 DEF Earlier
    <3>2. d[i].id = k /\ d[i].persist = persist
      BY <1>5, <1>6, <2>2
    <3> QED
      BY <1>2, <3>1, <3>2
  <2> QED
    BY <1>1, <1>6, <2>1, <2>2
<1>10. StateOK(y)
  <2>1. /\ Len(y.freed) = Len(y.heap) /\ Len(y.stack) > 0
        /\ \A g \in 1 .. Len(y.stack) : FrameOK(y.stack[g])
        /\ ConstantsOK(y.vconst) /\ PoolOK(y)
    BY <1>8, <1>9 DEF StateOK, PoolOK
  <2>2. BlockOK(y, <<>>)
    BY FreshBlocks
  <2>3. NoBlockLost(x, y) /\ AllBlocks(y) \subseteq AllBlocks(x) \cup {<<>>}
    <3>1. Len(x.static) \in Nat /\ Len(x.clump) \in Nat
      BY <1>1, Fields
    <3> QED
      BY <1>1, <1>8, <3>1 DEF NoBlockLost, AllBlocks
  <2> QED
    BY <1>8, <2>1, <2>2, <2>3, Changed
<1>11. FreedKept(x, y) /\ HeapKept(x, y)
  BY <1>1, <1>8 DEF FreedKept, HeapKept
<1>12. ValueOK(y, value_sync_create(k))
  BY <1>4 DEF ValueOK, Value, value_sync_create, value_islocation
<1>13. HoldsOnly(x, y, {})
  BY <1>8 DEF HoldsOnly, Values, AllBlocks
<1> QED
  BY <1>8, <1>10, <1>11, <1>12, <1>13 DEF y, k

(* Every expression. *)
AllocatesAtMost(x, r) ==
    \/ HeapKept(x, r.s)
    \/ /\ HeapGrown(x, r.s) /\ New(r.s) <= MaxNew
       /\ r.v = value_ptr_create(location_create_dynamic(Len(x.heap)))

LEMMA EvaluatedOK ==
    ASSUME NEW x, StateOK(x), NEW r \in Evaluated(x)
    PROVE  /\ StateOK(r.s) /\ FreedKept(x, r.s) /\ ValueOK(r.s, r.v)
           /\ AllocatesAtMost(x, r)
<1>1. ASSUME NEW l \in Lvalues(x), r = [s |-> l.s, v |-> object_as_value(l.s, l.loc)]
      PROVE  StateOK(r.s) /\ FreedKept(x, r.s) /\ ValueOK(r.s, r.v) /\ HeapKept(x, r.s)
  <2>1. StateOK(l.s) /\ SameShape(x, l.s) /\ FreedKept(x, l.s) /\ LvalueOK(l.s, l.loc)
    BY LvaluesOK DEF Targets
  <2>2. ValueOK(l.s, object_as_value(l.s, l.loc))
    BY <2>1, AsValue DEF LvalueOK
  <2> QED
    BY <1>1, <2>1, <2>2 DEF SameShape, HeapKept
<1>2. ASSUME NEW l \in Variables(x), r = [s |-> x, v |-> value_ptr_create(l.loc)]
      PROVE  StateOK(r.s) /\ FreedKept(x, r.s) /\ ValueOK(r.s, r.v) /\ HeapKept(x, r.s)
  BY <1>2, VariableOK, Reflexive DEF Variables, Variable
<1>3. ASSUME NEW t \in Literals,
             r = [s |-> state_static_init(x, t),
                  v |-> value_ptr_create(static_location(state_static_init(x, t), t))]
      PROVE  StateOK(r.s) /\ FreedKept(x, r.s) /\ ValueOK(r.s, r.v) /\ HeapKept(x, r.s)
  BY <1>3, StaticInit
<1>4. ASSUME NEW persist \in BOOLEAN,
             r = [s |-> vconst_declare(x, NoComment, persist),
                  v |-> value_sync_create(vconst_id(x.vconst, persist))]
      PROVE  StateOK(r.s) /\ FreedKept(x, r.s) /\ ValueOK(r.s, r.v) /\ HeapKept(x, r.s)
  BY <1>4, VconstDeclare
<1>5. ASSUME r = [s |-> heap_newblock(x),
                  v |-> value_ptr_create(location_create_dynamic(Len(x.heap)))]
      PROVE  /\ StateOK(r.s) /\ FreedKept(x, r.s) /\ ValueOK(r.s, r.v) /\ HeapGrown(x, r.s)
             /\ r.v = value_ptr_create(location_create_dynamic(Len(x.heap)))
  BY <1>5, HeapNewblock
<1>6. ASSUME r = [s |-> clump_newblock(x),
                  v |-> value_ptr_create(location_create_dereferencable(Len(x.clump)))]
      PROVE  StateOK(r.s) /\ FreedKept(x, r.s) /\ ValueOK(r.s, r.v) /\ HeapKept(x, r.s)
  BY <1>6, ClumpNewblock
<1> QED
  BY <1>1, <1>2, <1>3, <1>4, <1>5, <1>6 DEF Evaluated, AllocatesAtMost

-----------------------------------------------------------------------------
(* Frames, and freeing. *)

(* y is x with another stack, whose blocks are those of x and new ones. *)
LEMMA StackChanged ==
    ASSUME NEW x, StateOK(x), NEW k \in Seq(Frame), Len(k) > 0,
           \A f \in 1 .. Len(k) : FrameOK(k[f]),
           \A f \in 1 .. Len(k) : \A i \in 1 .. Len(k[f].frame) :
               k[f].frame[i] \in AllBlocks(x) \cup {variable_block}
    PROVE  LET y == [x EXCEPT !.stack = k] IN
           /\ StateOK(y) /\ y.stack = k /\ y.heap = x.heap /\ y.freed = x.freed
           /\ NoBlockLost(x, y) /\ FreedKept(x, y) /\ HoldsOnly(x, y, {NoValue})
<1> DEFINE y == [x EXCEPT !.stack = k]
<1>1. x \in SymbolicState /\ Len(x.static) \in Nat /\ Len(x.clump) \in Nat /\ Len(x.heap) \in Nat
  BY Fields DEF StateOK
<1>2. /\ y \in SymbolicState /\ y.stack = k /\ y.vconst = x.vconst /\ y.static = x.static
      /\ y.pool = x.pool /\ y.clump = x.clump /\ y.heap = x.heap /\ y.freed = x.freed
  BY <1>1 DEF SymbolicState
<1> HIDE DEF y
<1>3. NoBlockLost(x, y) /\ FreedKept(x, y)
  BY <1>1, <1>2 DEF NoBlockLost, FreedKept
<1>4. AllBlocks(y) \subseteq AllBlocks(x) \cup {variable_block}
  <2>1. /\ {y.static[e] : e \in 1 .. Len(y.static)} \subseteq AllBlocks(x)
        /\ {y.clump[e] : e \in 1 .. Len(y.clump)} \subseteq AllBlocks(x)
        /\ {y.heap[e] : e \in 1 .. Len(y.heap)} \subseteq AllBlocks(x)
    BY <1>2 DEF AllBlocks
  <2>2. UNION {{y.stack[f].frame[e] : e \in 1 .. Len(y.stack[f].frame)} : f \in 1 .. Len(y.stack)}
          \subseteq AllBlocks(x) \cup {variable_block}
    BY <1>2
  <2> QED
    BY <2>1, <2>2 DEF AllBlocks
<1>5. StateOK(y)
  <2>1. /\ Len(y.freed) = Len(y.heap) /\ Len(y.stack) > 0
        /\ \A g \in 1 .. Len(y.stack) : FrameOK(y.stack[g])
        /\ ConstantsOK(y.vconst) /\ PoolOK(y)
    BY <1>2 DEF StateOK, PoolOK
  <2>2. BlockOK(y, variable_block)
    BY FreshBlocks
  <2> QED
    BY <1>2, <1>3, <1>4, <2>1, <2>2, Changed
<1>6. HoldsOnly(x, y, {NoValue})
  <2>1. \A i \in 1 .. Len(variable_block) : variable_block[i].value \in {NoValue}
    BY DEF variable_block, object_value_create
  <2> QED
    BY <1>4, <2>1, ValuesOfNewBlock
<1> QED
  BY <1>2, <1>3, <1>5, <1>6 DEF y

LEMMA NewFrame ==
    ASSUME NEW abstract \in BOOLEAN
    PROVE  LET f == stack_create(NoCode, abstract) IN
           /\ f \in Frame /\ FrameOK(f)
           /\ f.frame = <<variable_block>> /\ f.varmap = <<>>
<1> DEFINE f == stack_create(NoCode, abstract)
<1>1. variable_block \in Blocks /\ HasOffset(variable_block, 0)
  BY FreshBlocks DEF BlockOK
<1>2. f = [code |-> NoCode, abstract |-> abstract, pc |-> "ATEND", index |-> 0,
           frame |-> <<variable_block>>, varmap |-> <<>>]
  BY DEF stack_create, program_counter_state_init, NoCode
<1>3. /\ <<variable_block>> \in Seq(Blocks) /\ Len(<<variable_block>>) = 1
      /\ <<variable_block>>[1] = variable_block
  BY <1>1
<1>4. <<>> \in Seq([name : Names, isparam : BOOLEAN, address : Nat]) /\ Len(<<>>) = 0
  BY EmptySeq
<1>5. f \in Frame
  BY <1>2, <1>3, <1>4 DEF Frame
<1> QED
  BY <1>1, <1>2, <1>3, <1>4, <1>5 DEF FrameOK

LEMMA PushFrame ==
    ASSUME NEW x, StateOK(x), NEW abstract \in BOOLEAN
    PROVE  LET y == state_pushframe(x, NoCode, abstract) IN
           /\ StateOK(y) /\ y.heap = x.heap /\ y.freed = x.freed
           /\ NoBlockLost(x, y) /\ FreedKept(x, y) /\ HoldsOnly(x, y, {NoValue})
           /\ Len(y.stack) = Len(x.stack) + 1
           /\ \A g \in 1 .. Len(x.stack) : y.stack[g] = x.stack[g]
<1> DEFINE f == stack_create(NoCode, abstract)
           k == Append(x.stack, f)
           n == Len(x.stack)
<1>1. x.stack \in Seq(Frame) /\ n \in Nat
  BY Fields DEF StateOK
<1>2. f \in Frame /\ FrameOK(f) /\ f.frame = <<variable_block>>
  BY NewFrame
<1> HIDE DEF f
<1>3. /\ k \in Seq(Frame) /\ Len(k) = n + 1
      /\ k[n + 1] = f /\ \A g \in 1 .. n : k[g] = x.stack[g]
  BY <1>1, <1>2, AppendProperties
<1>4. \A g \in 1 .. Len(k) : g \in 1 .. n \/ g = n + 1
  BY <1>1, <1>3
<1>5. state_pushframe(x, NoCode, abstract) = [x EXCEPT !.stack = k]
  BY DEF state_pushframe, f
<1> HIDE DEF k
<1>6. \A g \in 1 .. Len(k) : FrameOK(k[g])
  BY <1>2, <1>3, <1>4 DEF StateOK
<1>7. \A g \in 1 .. Len(k) : \A i \in 1 .. Len(k[g].frame) :
          k[g].frame[i] \in AllBlocks(x) \cup {variable_block}
  <2>1. \A g \in 1 .. n : \A i \in 1 .. Len(x.stack[g].frame) : x.stack[g].frame[i] \in AllBlocks(x)
    BY DEF AllBlocks
  <2>2. \A i \in 1 .. Len(f.frame) : f.frame[i] = variable_block
    BY <1>2
  <2>3. \A g \in 1 .. n : \A i \in 1 .. Len(k[g].frame) : k[g].frame[i] \in AllBlocks(x)
    BY ONLY <1>3, <2>1
  <2>4. \A i \in 1 .. Len(k[n + 1].frame) : k[n + 1].frame[i] = variable_block
    BY ONLY <1>3, <2>2
  <2> QED
    BY ONLY <1>4, <2>3, <2>4
<1>8. Len(k) > 0
  BY <1>1, <1>3
<1>9. PICK y : y = [x EXCEPT !.stack = k]
  OBVIOUS
<1>10. /\ StateOK(y) /\ y.stack = k /\ y.heap = x.heap /\ y.freed = x.freed
       /\ NoBlockLost(x, y) /\ FreedKept(x, y) /\ HoldsOnly(x, y, {NoValue})
  BY <1>3, <1>6, <1>7, <1>8, <1>9, StackChanged
<1> QED
  BY <1>3, <1>5, <1>9, <1>10

LEMMA PopFrame ==
    ASSUME NEW x, StateOK(x), Len(x.stack) > 1
    PROVE  LET y == state_popframe(x) IN
           /\ StateOK(y) /\ y.heap = x.heap /\ y.freed = x.freed
           /\ NoBlockLost(x, y) /\ FreedKept(x, y) /\ HoldsOnly(x, y, {NoValue})
           /\ Len(y.stack) = Len(x.stack) - 1
           /\ \A g \in 1 .. Len(y.stack) : y.stack[g] = x.stack[g]
<1> DEFINE n == Len(x.stack)
           k == SubSeq(x.stack, 1, n - 1)
<1>1. x.stack \in Seq(Frame) /\ n \in Nat /\ n > 1
  BY Fields DEF StateOK
<1>2. \A i \in 1 .. n - 1 : x.stack[i] \in Frame
  BY <1>1, ElementOfSeq
<1>3. k \in Seq(Frame) /\ Len(k) = n - 1 /\ \A i \in 1 .. n - 1 : k[i] = x.stack[i]
  BY <1>1, <1>2, SubSeqProperties
<1>4. state_popframe(x) = [x EXCEPT !.stack = k]
  BY DEF state_popframe
<1> HIDE DEF k
<1>5. \A g \in 1 .. Len(k) : g \in 1 .. n
  BY <1>1, <1>3
<1>6. \A g \in 1 .. Len(k) : FrameOK(k[g])
  BY <1>3, <1>5 DEF StateOK
<1>7. \A g \in 1 .. Len(k) : \A i \in 1 .. Len(k[g].frame) :
          k[g].frame[i] \in AllBlocks(x) \cup {variable_block}
  <2>1. \A g \in 1 .. n : \A i \in 1 .. Len(x.stack[g].frame) : x.stack[g].frame[i] \in AllBlocks(x)
    BY DEF AllBlocks
  <2> QED
    BY <1>1, <1>3, <1>5, <2>1
<1>8. Len(k) > 0
  BY <1>1, <1>3
<1>9. PICK y : y = [x EXCEPT !.stack = k]
  OBVIOUS
<1>10. /\ StateOK(y) /\ y.stack = k /\ y.heap = x.heap /\ y.freed = x.freed
       /\ NoBlockLost(x, y) /\ FreedKept(x, y) /\ HoldsOnly(x, y, {NoValue})
  BY <1>3, <1>6, <1>7, <1>8, <1>9, StackChanged
<1>11. \A g \in 1 .. Len(y.stack) : y.stack[g] = x.stack[g]
  BY <1>3, <1>10
<1> QED
  BY <1>3, <1>4, <1>9, <1>10, <1>11

LEMMA DeclareKeeps ==
    ASSUME NEW x, StateOK(x), NEW id \in Names, NEW isparam \in BOOLEAN
    PROVE  LET y == state_declare(x, id, isparam) IN
           /\ StateOK(y) /\ y.heap = x.heap /\ y.freed = x.freed
           /\ NoBlockLost(x, y) /\ FreedKept(x, y) /\ HoldsOnly(x, y, {NoValue})
           /\ id \in Declared(Top(y))
           /\ Len(y.stack) = Len(x.stack)
           /\ \A g \in 1 .. Len(x.stack) - 1 : y.stack[g] = x.stack[g]
<1> DEFINE n == Len(x.stack)
           f == x.stack[n]
           e == [name |-> id, isparam |-> isparam, address |-> Len(f.frame)]
           c == Append(f.frame, variable_block)
           d == Append(f.varmap, e)
           h == [f EXCEPT !.frame = c, !.varmap = d]
           k == [x.stack EXCEPT ![n] = h]
           E == [name : Names, isparam : BOOLEAN, address : Nat]
<1>1. x.stack \in Seq(Frame) /\ n \in Nat /\ n > 0 /\ n \in 1 .. n
  BY Fields DEF StateOK
<1>2. FrameOK(f) /\ f \in Frame
  BY <1>1 DEF StateOK, FrameOK
<1> HIDE DEF f
<1>3. /\ f.frame \in Seq(Blocks) /\ Len(f.frame) \in Nat
      /\ f.varmap \in Seq(E) /\ Len(f.varmap) \in Nat
  BY <1>2, LenProperties DEF Frame
<1>4. variable_block \in Blocks /\ HasOffset(variable_block, 0)
  BY FreshBlocks DEF BlockOK
<1>5. e \in E /\ e.name = id /\ e.address = Len(f.frame)
  BY <1>3
<1>6. state_declare(x, id, isparam) = [x EXCEPT !.stack = k]
  BY DEF state_declare, WithTop, Top, f
<1> HIDE DEF e
<1>7. /\ c \in Seq(Blocks) /\ Len(c) = Len(f.frame) + 1
      /\ c[Len(f.frame) + 1] = variable_block /\ \A i \in 1 .. Len(f.frame) : c[i] = f.frame[i]
  BY <1>3, <1>4, AppendProperties
<1>8. /\ d \in Seq(E) /\ Len(d) = Len(f.varmap) + 1
      /\ d[Len(f.varmap) + 1] = e /\ \A i \in 1 .. Len(f.varmap) : d[i] = f.varmap[i]
  BY <1>3, <1>5, AppendProperties
<1> HIDE DEF c, d
<1>9. h \in Frame /\ h.frame = c /\ h.varmap = d
  BY <1>2, <1>7, <1>8 DEF Frame
<1> HIDE DEF h
<1>10. /\ k \in Seq(Frame) /\ Len(k) = n
       /\ \A g \in 1 .. n : k[g] = IF g = n THEN h ELSE x.stack[g]
  BY <1>1, <1>9, ExceptSeq
<1> HIDE DEF k
<1>11. FrameOK(h)
  <2>1. \A i \in 1 .. Len(c) : i \in 1 .. Len(f.frame) \/ i = Len(f.frame) + 1
    BY <1>3, <1>7
  <2>2. \A i \in 1 .. Len(c) : HasOffset(c[i], 0)
    BY <1>2, <1>4, <1>7, <2>1 DEF FrameOK
  <2>3. \A i \in 1 .. Len(d) : i \in 1 .. Len(f.varmap) \/ i = Len(f.varmap) + 1
    BY <1>3, <1>8
  <2>4. \A i \in 1 .. Len(f.varmap) : f.varmap[i].address < Len(c)
    <3>1. \A i \in 1 .. Len(f.varmap) : f.varmap[i] \in E
      BY <1>3, ElementOfSeq
    <3> QED
      BY <1>2, <1>3, <1>7, <3>1 DEF FrameOK
  <2>5. \A i \in 1 .. Len(d) : d[i].address < Len(c)
    <3>1. d[Len(f.varmap) + 1].address < Len(c)
      BY <1>3, <1>5, <1>7, <1>8
    <3> QED
      BY <1>8, <2>3, <2>4, <3>1
  <2> QED
    BY <1>3, <1>7, <1>9, <2>2, <2>5 DEF FrameOK
<1>12. \A g \in 1 .. Len(k) : FrameOK(k[g])
  BY <1>10, <1>11 DEF StateOK
<1>13. \A g \in 1 .. Len(k) : \A i \in 1 .. Len(k[g].frame) :
          k[g].frame[i] \in AllBlocks(x) \cup {variable_block}
  <2>1. \A g \in 1 .. n : \A i \in 1 .. Len(x.stack[g].frame) : x.stack[g].frame[i] \in AllBlocks(x)
    BY DEF AllBlocks
  <2>2. \A i \in 1 .. Len(c) : c[i] = variable_block \/ \E j \in 1 .. Len(f.frame) : c[i] = f.frame[j]
    BY <1>3, <1>7
  <2>3. \A i \in 1 .. Len(h.frame) : h.frame[i] \in AllBlocks(x) \cup {variable_block}
    BY <1>1, <1>9, <2>1, <2>2 DEF f
  <2> QED
    BY <1>10, <2>1, <2>3
<1>14. id \in Declared(k[n])
  <2>1. d[Len(f.varmap) + 1].name = id /\ Len(f.varmap) + 1 \in 1 .. Len(d)
    BY <1>3, <1>5, <1>8
  <2> QED
    BY <1>1, <1>9, <1>10, <2>1 DEF Declared
<1>15. PICK y : y = [x EXCEPT !.stack = k]
  OBVIOUS
<1>16. /\ StateOK(y) /\ y.stack = k /\ y.heap = x.heap /\ y.freed = x.freed
       /\ NoBlockLost(x, y) /\ FreedKept(x, y) /\ HoldsOnly(x, y, {NoValue})
  BY <1>1, <1>10, <1>12, <1>13, <1>15, StackChanged
<1>17. id \in Declared(Top(y))
  BY <1>10, <1>14, <1>16 DEF Top
<1>18. \A g \in 1 .. n - 1 : y.stack[g] = x.stack[g]
  BY <1>1, <1>10, <1>16
<1> QED
  BY <1>6, <1>10, <1>15, <1>16, <1>17, <1>18

LEMMA Replaced ==
    ASSUME NEW S, NEW q \in Seq(S), NEW b \in 1 .. Len(q), NEW e \in S,
           NEW g, g = [q EXCEPT ![b] = e]
    PROVE  /\ g \in Seq(S) /\ Len(g) = Len(q)
           /\ \A a \in 1 .. Len(q) : a # b => g[a] = q[a]
  BY ExceptSeq

(* Freeing marks a block that was not marked. *)
LEMMA DeallocKeeps ==
    ASSUME NEW x, StateOK(x), NEW v, ValueOK(x, v), state_dealloc_ok(x, v)
    PROVE  LET y == state_dealloc(x, v)
               b == v.loc.block + 1 IN
           /\ StateOK(y) /\ FreedKept(x, y) /\ y.heap = x.heap
           /\ b \in 1 .. Len(x.heap) /\ ~x.freed[b]
           /\ \A a \in 1 .. Len(x.heap) : y.freed[a] <=> (a = b \/ x.freed[a])
<1> DEFINE y == state_dealloc(x, v)
           b == v.loc.block + 1
           g == [x.freed EXCEPT ![b] = TRUE]
<1>1. /\ x \in SymbolicState /\ x.freed \in Seq(BOOLEAN) /\ Len(x.freed) = Len(x.heap)
      /\ Len(x.heap) \in Nat /\ Len(x.static) \in Nat /\ Len(x.clump) \in Nat
  BY Fields DEF StateOK
<1>2. b \in 1 .. Len(x.heap) /\ ~x.freed[b]
  <2>1. value_islocation(v) /\ v.loc.type = "DYNAMIC" /\ ~x.freed[b]
    BY DEF state_dealloc_ok
  <2>2. v.loc.block \in Nat
    BY <2>1 DEF ValueOK, Value, value_islocation, NoValue
  <2>3. v.loc.block < Len(x.heap)
    BY <2>1 DEF ValueOK, Arena
  <2> QED
    BY <1>1, <2>1, <2>2, <2>3
<1>3. y = [x EXCEPT !.freed = g]
  BY DEF state_dealloc
<1> HIDE DEF b
<1>4. /\ g \in Seq(BOOLEAN) /\ Len(g) = Len(x.freed) /\ g[b] = TRUE
      /\ \A a \in 1 .. Len(x.freed) : a # b => g[a] = x.freed[a]
  <2>1. b \in 1 .. Len(x.freed)
    BY <1>1, <1>2
  <2>2. TRUE \in BOOLEAN /\ g = [x.freed EXCEPT ![b] = TRUE]
    OBVIOUS
  <2>3. b \in DOMAIN x.freed
    BY <1>1, <2>1, LenProperties
  <2>4. g[b] = TRUE
    BY <2>3
  <2> HIDE DEF g
  <2>5. x.freed \in Seq(BOOLEAN)
    BY <1>1
  <2>6. g \in Seq(BOOLEAN) /\ Len(g) = Len(x.freed)
    BY <2>1, <2>2, <2>5, Replaced
  <2>7. \A a \in 1 .. Len(x.freed) : a # b => g[a] = x.freed[a]
    BY <2>1, <2>2, <2>5, Replaced
  <2> QED
    BY <2>4, <2>6, <2>7, Zenon
<1> HIDE DEF g
<1>5. /\ y \in SymbolicState /\ y.freed = g /\ y.vconst = x.vconst /\ y.static = x.static
      /\ y.pool = x.pool /\ y.clump = x.clump /\ y.heap = x.heap /\ y.stack = x.stack
  BY <1>1, <1>3, <1>4 DEF SymbolicState
<1> HIDE DEF y
<1>6. \A a \in 1 .. Len(x.heap) : y.freed[a] <=> (a = b \/ x.freed[a])
  <2> TAKE a \in 1 .. Len(x.heap)
  <2>1. y.freed[b] = TRUE /\ (a # b => y.freed[a] = x.freed[a])
    BY <1>1, <1>4, <1>5, Zenon
  <2> QED
    BY <2>1, Zenon
<1>7. FreedKept(x, y)
  <2>1. Len(x.heap) <= Len(y.heap)
    BY <1>1, <1>5
  <2> QED
    BY <1>5, <1>6, <2>1, Zenon DEF FreedKept
<1>8. StateOK(y)
  <2>1. /\ Len(y.freed) = Len(y.heap) /\ Len(y.stack) > 0
        /\ \A f \in 1 .. Len(y.stack) : FrameOK(y.stack[f])
        /\ ConstantsOK(y.vconst) /\ PoolOK(y)
    BY <1>1, <1>4, <1>5 DEF StateOK, PoolOK
  <2>2. BlockOK(y, <<>>)
    BY FreshBlocks
  <2>3. NoBlockLost(x, y) /\ AllBlocks(y) \subseteq AllBlocks(x) \cup {<<>>}
    BY <1>1, <1>5 DEF NoBlockLost, AllBlocks
  <2> QED
    BY <1>5, <2>1, <2>2, <2>3, Changed
<1> QED
  BY <1>2, <1>5, <1>6, <1>7, <1>8 DEF y, b

(* Freeing changes flags only. *)
LEMMA DeallocStack ==
    ASSUME NEW x, StateOK(x), NEW v
    PROVE  state_dealloc(x, v).stack = x.stack /\ HoldsOnly(x, state_dealloc(x, v), {})
<1> DEFINE y == state_dealloc(x, v)
<1>1. /\ y.static = x.static /\ y.clump = x.clump /\ y.heap = x.heap /\ y.stack = x.stack
  BY DEF state_dealloc, StateOK, SymbolicState
<1> HIDE DEF y
<1> QED
  BY <1>1 DEF HoldsOnly, Values, AllBlocks, y

-----------------------------------------------------------------------------
(* The steps. *)

LEMMA InitOK ==
    ASSUME Init
    PROVE  StateOK(s) /\ Len(s.heap) = 0
<1> DEFINE f == stack_create(NoCode, FALSE)
<1>1. f \in Frame /\ FrameOK(f) /\ f.frame = <<variable_block>>
  BY NewFrame
<1> HIDE DEF f
<1>2. s = [vconst |-> <<>>, static |-> <<>>, pool |-> <<>>, clump |-> <<>>,
           heap |-> <<>>, freed |-> <<>>, stack |-> <<f>>]
  BY DEF Init, state_create, f
<1>3. <<f>> \in Seq(Frame) /\ Len(<<f>>) = 1 /\ <<f>>[1] = f
  BY <1>1
<1>4. s \in SymbolicState
  BY <1>2, <1>3, EmptySeq DEF SymbolicState
<1>5. \A b \in AllBlocks(s) : b = variable_block
  <2>1. /\ s.static = <<>> /\ s.clump = <<>> /\ s.heap = <<>> /\ s.stack = <<f>>
    BY <1>2
  <2> QED
    BY <1>1, <1>3, <2>1 DEF AllBlocks
<1>6. \A b \in AllBlocks(s) : BlockOK(s, b)
  BY <1>5, FreshBlocks
<1>7. \A g \in 1 .. Len(s.stack) : FrameOK(s.stack[g])
  BY <1>1, <1>2, <1>3
<1>8. ConstantsOK(s.vconst) /\ PoolOK(s)
  BY <1>2 DEF ConstantsOK, PoolOK
<1> QED
  BY <1>2, <1>3, <1>4, <1>6, <1>7, <1>8 DEF StateOK

LEMMA FreedTransitive ==
    ASSUME NEW x, StateOK(x), NEW y, StateOK(y), NEW z, StateOK(z), FreedKept(x, y), FreedKept(y, z)
    PROVE  FreedKept(x, z)
<1>1. Len(x.heap) \in Nat /\ Len(y.heap) \in Nat /\ Len(z.heap) \in Nat
  BY Fields DEF StateOK
<1>2. Len(x.heap) <= Len(z.heap)
  BY <1>1 DEF FreedKept
<1>3. \A a \in 1 .. Len(x.heap) : a \in 1 .. Len(y.heap)
  BY <1>1 DEF FreedKept
<1> QED
  BY <1>2, <1>3, Zenon DEF FreedKept

(* A value that is right stays right while no block is lost, and can be    *)
(* assigned to any target.                                                 *)
LEMMA AssignTarget ==
    ASSUME NEW x, StateOK(x), NEW v, ValueOK(x, v), NEW l \in Targets(x)
    PROVE  LET y == object_assign(l.s, l.loc, v) IN
           StateOK(y) /\ FreedKept(x, y) /\ HeapKept(x, y)
<1> DEFINE y == object_assign(l.s, l.loc, v)
<1>1. StateOK(l.s) /\ SameShape(x, l.s) /\ FreedKept(x, l.s) /\ LvalueOK(l.s, l.loc)
  BY LvaluesOK
<1>2. NoBlockLost(x, l.s)
  <2>1. Len(x.static) \in Nat /\ Len(x.clump) \in Nat /\ Len(x.heap) \in Nat
    BY Fields DEF StateOK
  <2> QED
    BY <1>1, <2>1 DEF SameShape, NoBlockLost
<1>3. ValueOK(l.s, v)
  BY <1>1, <1>2, ValueKept
<1>4. StateOK(y) /\ SameShape(l.s, y) /\ FreedKept(l.s, y)
  BY <1>1, <1>3, AssignKeeps DEF LvalueOK
<1>5. FreedKept(x, y)
  BY <1>1, <1>4, FreedTransitive
<1>6. HeapKept(x, y)
  BY <1>1, <1>4 DEF SameShape, HeapKept
<1> QED
  BY <1>4, <1>5, <1>6

(* The step of the abstract allocator that goes from the heap of x to that *)
(* of y.                                                                   *)
FreedBlocks(x) == {a \in 1 .. Len(x.heap) : x.freed[a]}

Allocates(x, y) == Len(y.heap) = Len(x.heap) + 1 /\ Len(y.heap) <= MaxNew

AllocatorStep(x, y) ==
    \/ Len(y.heap) = Len(x.heap) /\ FreedBlocks(y) = FreedBlocks(x)
    \/ Allocates(x, y) /\ FreedBlocks(y) = FreedBlocks(x)
    \/ /\ Len(y.heap) = Len(x.heap)
       /\ \E b \in (1 .. Len(x.heap)) \ FreedBlocks(x) : FreedBlocks(y) = FreedBlocks(x) \cup {b}
    \/ Allocates(x, y) /\ FreedBlocks(y) = FreedBlocks(x) \cup {Len(x.heap) + 1}

LEMMA GrownBlocks ==
    ASSUME NEW x, StateOK(x), NEW y, StateOK(y), HeapGrown(x, y)
    PROVE  /\ FreedBlocks(y) = FreedBlocks(x)
           /\ New(y) <= MaxNew => Allocates(x, y)
<1>1. Len(x.heap) \in Nat /\ Len(y.heap) \in Nat
  BY Fields DEF StateOK
<1>2. x.freed \in Seq(BOOLEAN) /\ Len(x.freed) = Len(x.heap)
  BY Fields DEF StateOK
<1>3. \A a \in 1 .. Len(x.heap) : y.freed[a] = x.freed[a]
  <2>1. FALSE \in BOOLEAN /\ y.freed = Append(x.freed, FALSE)
    BY DEF HeapGrown
  <2>2. \A a \in 1 .. Len(x.freed) : Append(x.freed, FALSE)[a] = x.freed[a]
    BY <1>2, <2>1, AppendProperties, Zenon
  <2> QED
    BY <1>2, <2>1, <2>2, Zenon
<1>4. ~y.freed[Len(x.heap) + 1]
  <2>1. PICK e \in BOOLEAN : e = FALSE
    OBVIOUS
  <2>2. y.freed = Append(x.freed, e)
    BY <2>1, Zenon DEF HeapGrown
  <2>3. Append(x.freed, e)[Len(x.freed) + 1] = e
    BY <1>2, AppendProperties, Zenon
  <2> QED
    BY <1>2, <2>1, <2>2, <2>3, Zenon
<1>5. \A a : a \in 1 .. Len(y.heap) <=> (a \in 1 .. Len(x.heap) \/ a = Len(x.heap) + 1)
  BY <1>1 DEF HeapGrown
<1>6. FreedBlocks(y) = FreedBlocks(x)
  <2>1. \A a : a \in FreedBlocks(y) <=> a \in FreedBlocks(x)
    BY <1>3, <1>4, <1>5, Zenon DEF FreedBlocks
  <2> QED
    BY <2>1
<1>7. New(y) <= MaxNew => Len(y.heap) <= MaxNew
  <2>1. Len(y.static) \in Nat /\ Len(y.clump) \in Nat /\ Len(y.vconst) \in Nat
    BY Fields DEF StateOK
  <2>2. \A a, b, c, d, m \in Nat : a + b + c + d <= m => c <= m
    OBVIOUS
  <2> QED
    BY <1>1, <2>1, <2>2, BoundAssumption, Zenon DEF New
<1> QED
  BY <1>6, <1>7 DEF Allocates, HeapGrown

(* Evaluating an expression, and then something that leaves the heap alone. *)
LEMMA EvaluatedStep ==
    ASSUME NEW x, StateOK(x), NEW r \in Evaluated(x), NEW y, StateOK(y), HeapKept(r.s, y)
    PROVE  AllocatorStep(x, y)
<1>1. StateOK(r.s) /\ AllocatesAtMost(x, r)
  BY EvaluatedOK
<1>2. FreedBlocks(y) = FreedBlocks(r.s) /\ Len(y.heap) = Len(r.s.heap)
  BY DEF HeapKept, FreedBlocks
<1>3. CASE HeapKept(x, r.s)
  BY <1>2, <1>3 DEF HeapKept, FreedBlocks, AllocatorStep
<1>4. CASE HeapGrown(x, r.s) /\ New(r.s) <= MaxNew
  <2>1. FreedBlocks(r.s) = FreedBlocks(x) /\ Allocates(x, r.s)
    BY <1>1, <1>4, GrownBlocks
  <2> QED
    BY <1>2, <2>1 DEF AllocatorStep, Allocates
<1> QED
  BY <1>1, <1>3, <1>4 DEF AllocatesAtMost

(* The expression that is freed is the block it allocated, or an older one. *)
LEMMA DeallocStep ==
    ASSUME NEW x, StateOK(x), NEW r \in Evaluated(x), state_dealloc_ok(r.s, r.v)
    PROVE  LET y == state_dealloc(r.s, r.v) IN
           StateOK(y) /\ FreedKept(x, y) /\ AllocatorStep(x, y)
<1> DEFINE y == state_dealloc(r.s, r.v)
           b == r.v.loc.block + 1
<1>1. /\ StateOK(r.s) /\ FreedKept(x, r.s) /\ ValueOK(r.s, r.v)
      /\ AllocatesAtMost(x, r)
  BY EvaluatedOK
<1>2. /\ StateOK(y) /\ FreedKept(r.s, y) /\ y.heap = r.s.heap
      /\ b \in 1 .. Len(r.s.heap) /\ ~r.s.freed[b]
      /\ \A a \in 1 .. Len(r.s.heap) : y.freed[a] <=> (a = b \/ r.s.freed[a])
  BY <1>1, DeallocKeeps
<1>3. FreedKept(x, y)
  BY <1>1, <1>2, FreedTransitive
<1>4. Len(x.heap) \in Nat
  BY Fields DEF StateOK
<1> HIDE DEF y
<1>5. FreedBlocks(y) = FreedBlocks(r.s) \cup {b} /\ b \notin FreedBlocks(r.s)
  <2>1. \A a : a \in FreedBlocks(y) <=> a \in FreedBlocks(r.s) \/ a = b
    BY <1>2, Zenon DEF FreedBlocks
  <2> QED
    BY <1>2, <2>1, Zenon DEF FreedBlocks
<1>6. CASE HeapKept(x, r.s)
  <2>1. FreedBlocks(r.s) = FreedBlocks(x) /\ Len(r.s.heap) = Len(x.heap)
    BY <1>6 DEF HeapKept, FreedBlocks
  <2>2. b \in (1 .. Len(x.heap)) \ FreedBlocks(x)
    BY <1>2, <1>5, <2>1
  <2> QED
    BY <1>2, <1>3, <1>5, <2>1, <2>2 DEF AllocatorStep, y
<1>7. CASE /\ HeapGrown(x, r.s) /\ New(r.s) <= MaxNew
           /\ r.v = value_ptr_create(location_create_dynamic(Len(x.heap)))
  <2>1. FreedBlocks(r.s) = FreedBlocks(x) /\ Allocates(x, r.s)
    BY <1>1, <1>7, GrownBlocks
  <2>2. b = Len(x.heap) + 1
    BY <1>4, <1>7 DEF value_ptr_create, location_create_dynamic, Location
  <2> QED
    BY <1>2, <1>3, <1>5, <2>1, <2>2 DEF AllocatorStep, Allocates, y
<1> QED
  BY <1>1, <1>6, <1>7 DEF AllocatesAtMost

(* Every step. *)
LEMMA NextOK ==
    ASSUME StateOK(s), Next
    PROVE  StateOK(s') /\ FreedKept(s, s') /\ AllocatorStep(s, s')
<1>1. ASSUME NEW r \in Evaluated(s), StateOK(s'), FreedKept(r.s, s'), HeapKept(r.s, s')
      PROVE  StateOK(s') /\ FreedKept(s, s') /\ AllocatorStep(s, s')
  <2>1. StateOK(r.s) /\ FreedKept(s, r.s)
    BY EvaluatedOK
  <2> QED
    BY <1>1, <2>1, FreedTransitive, EvaluatedStep
<1>2. ASSUME StateOK(s'), FreedKept(s, s'), HeapKept(s, s')
      PROVE  StateOK(s') /\ FreedKept(s, s') /\ AllocatorStep(s, s')
  BY <1>2 DEF HeapKept, FreedBlocks, AllocatorStep
<1>3. CASE Declare
  <2>1. PICK id \in Names : s' = state_declare(s, id, FALSE)
    BY <1>3 DEF Declare
  <2>2. StateOK(s') /\ s'.heap = s.heap /\ s'.freed = s.freed /\ FreedKept(s, s')
    BY <2>1, DeclareKeeps
  <2> QED
    BY <1>2, <2>2 DEF HeapKept
<1>4. CASE Evaluate
  <2>1. PICK r \in Evaluated(s) : s' = r.s
    BY <1>4 DEF Evaluate
  <2>2. StateOK(r.s) /\ FreedKept(r.s, r.s) /\ HeapKept(r.s, r.s)
    BY EvaluatedOK, Reflexive
  <2> QED
    BY <1>1, <2>1, <2>2
<1>5. CASE Assign
  <2>1. PICK r \in Evaluated(s) : \E l \in Targets(r.s) : s' = object_assign(l.s, l.loc, r.v)
    BY <1>5 DEF Assign
  <2>2. StateOK(r.s) /\ ValueOK(r.s, r.v)
    BY EvaluatedOK
  <2>3. StateOK(s') /\ FreedKept(r.s, s') /\ HeapKept(r.s, s')
    BY <2>1, <2>2, AssignTarget
  <2> QED
    BY <1>1, <2>3
<1>6. CASE Dealloc
  BY <1>6, DeallocStep DEF Dealloc
<1>7. CASE Call
  <2>1. PICK r \in Evaluated(s), id \in Names :
          LET x == state_declare(state_pushframe(r.s, NoCode, TRUE), id, TRUE)
          IN s' = object_assign(x, stack_getvariable(x, id), r.v)
    BY <1>7 DEF Call
  <2> DEFINE w == state_pushframe(r.s, NoCode, TRUE)
             x == state_declare(w, id, TRUE)
             l == stack_getvariable(x, id)
  <2>2. StateOK(r.s) /\ ValueOK(r.s, r.v)
    BY EvaluatedOK
  <2>3. /\ StateOK(w) /\ w.heap = r.s.heap /\ w.freed = r.s.freed
        /\ NoBlockLost(r.s, w) /\ FreedKept(r.s, w)
    BY <2>2, PushFrame
  <2> HIDE DEF w
  <2>4. /\ StateOK(x) /\ x.heap = w.heap /\ x.freed = w.freed
        /\ NoBlockLost(w, x) /\ FreedKept(w, x) /\ id \in Declared(Top(x))
    BY <2>3, DeclareKeeps
  <2> HIDE DEF x
  <2>5. ValueOK(x, r.v)
    BY <2>2, <2>3, <2>4, ValueKept
  <2>6. LvalueOK(x, l)
    BY <2>4, VariableOK
  <2>7. s' = object_assign(x, l, r.v)
    BY <2>1 DEF x, w
  <2> HIDE DEF l
  <2>8. StateOK(s') /\ SameShape(x, s') /\ FreedKept(x, s')
    BY <2>4, <2>5, <2>6, <2>7, AssignKeeps DEF LvalueOK
  <2>9. FreedKept(r.s, s')
    BY <2>2, <2>3, <2>4, <2>8, FreedTransitive
  <2>10. HeapKept(r.s, s')
    BY <2>3, <2>4, <2>8 DEF SameShape, HeapKept
  <2> QED
    BY <1>1, <2>8, <2>9, <2>10
<1>8. CASE Return
  <2> DEFINE l == stack_getvariable(s, "return")
             v == object_as_value(s, l)
             x == state_popframe(s)
  <2>1. /\ StateOK(x) /\ x.heap = s.heap /\ x.freed = s.freed
        /\ NoBlockLost(s, x) /\ FreedKept(s, x)
    BY <1>8, PopFrame DEF Return
  <2>2. LvalueOK(s, l)
    BY VariableOK
  <2>3. ValueOK(s, v)
    BY <2>2, AsValue DEF LvalueOK
  <2>4. ValueOK(x, v)
    BY <2>1, <2>3, ValueKept
  <2>5. s' = x \/ \E t \in Targets(x) : s' = object_assign(t.s, t.loc, v)
    BY <1>8 DEF Return
  <2> HIDE DEF x, v, l
  <2>6. CASE s' = x
    BY <1>2, <2>1, <2>6 DEF HeapKept
  <2>7. CASE \E t \in Targets(x) : s' = object_assign(t.s, t.loc, v)
    <3>1. StateOK(s') /\ FreedKept(x, s') /\ HeapKept(x, s')
      BY <2>1, <2>4, <2>7, AssignTarget
    <3>2. FreedKept(s, s')
      BY <2>1, <3>1, FreedTransitive
    <3>3. HeapKept(s, s')
      BY <2>1, <3>1 DEF HeapKept
    <3> QED
      BY <1>2, <3>1, <3>2, <3>3
  <2> QED
    BY <2>5, <2>6, <2>7
<1> QED
  BY <1>3, <1>4, <1>5, <1>6, <1>7, <1>8 DEF Next

-----------------------------------------------------------------------------
(* The theorems. *)

IInv == StateOK(s) /\ Len(s.heap) <= MaxNew

LEMMA StepKeeps ==
    ASSUME IInv, [Next]_s
    PROVE  IInv' /\ FreedKept(s, s') /\ AllocatorStep(s, s')
<1>1. Len(s.heap) \in Nat
  BY Fields DEF IInv, StateOK
<1>2. CASE Next
  <2>1. StateOK(s') /\ FreedKept(s, s') /\ AllocatorStep(s, s')
    BY <1>2, NextOK DEF IInv
  <2>2. Len(s'.heap) <= MaxNew
    BY <2>1 DEF IInv, AllocatorStep, Allocates
  <2> QED
    BY <2>1, <2>2 DEF IInv
<1>3. CASE s' = s
  BY <1>1, <1>3, Reflexive DEF IInv, AllocatorStep
<1> QED
  BY <1>2, <1>3

(* The memory of every program keeps the shape that its operations rely    *)
(* on, in every state.                                                     *)
THEOREM MemoryInvariant == Spec => []IInv
<1>1. Init => IInv
  BY InitOK, BoundAssumption DEF IInv
<1>2. IInv /\ [Next]_s => IInv'
  BY StepKeeps
<1> QED
  BY <1>1, <1>2, PTL DEF Spec

(* The types of the memory's parts, and as many flags as heap blocks.      *)
THEOREM MemoryTypeOK == Spec => []TypeOK
<1>1. IInv => TypeOK
  <2> SUFFICES ASSUME IInv PROVE TypeOK
    OBVIOUS
  <2>1. s \in SymbolicState /\ Len(s.freed) = Len(s.heap) /\ Len(s.stack) > 0
    BY DEF IInv, StateOK
  <2>2. s.stack # <<>>
    BY <2>1, EmptySeq
  <2> QED
    BY <2>1, <2>2 DEF TypeOK
<1> QED
  BY <1>1, MemoryInvariant, PTL

(* heap_blockisfreed and heap_deallocblock index their array within its    *)
(* bounds, although they do not look.                                      *)
THEOREM MemoryNoWildPointer == Spec => []NoWildPointer
<1>1. IInv => NoWildPointer
  <2> SUFFICES ASSUME IInv, NEW v \in Values(s), value_islocation(v), v.loc.type # "AUTOMATIC"
               PROVE  v.loc.block < Len(Arena(s, v.loc))
    BY DEF NoWildPointer
  <2>1. PICK b \in AllBlocks(s) : \E i \in 1 .. Len(b) : v = b[i].value
    BY DEF Values
  <2>2. ValueOK(s, v)
    BY <2>1 DEF IInv, StateOK, BlockOK
  <2> QED
    BY <2>2 DEF ValueOK
<1> QED
  BY <1>1, MemoryInvariant, PTL

(* object_arr_index finds the object that was assigned to: an offset of a  *)
(* block never has two.                                                    *)
THEOREM MemoryOneObject == Spec => []OneObjectPerOffset
<1>1. IInv => OneObjectPerOffset
  BY DEF IInv, StateOK, BlockOK, OneObjectPerOffset
<1> QED
  BY <1>1, MemoryInvariant, PTL

(* A literal is in the pool once, so equal literals are one block. *)
THEOREM MemoryPooledOnce == Spec => []PooledOnce
<1>1. IInv => PooledOnce
  BY DEF IInv, StateOK, PoolOK, PooledOnce
<1> QED
  BY <1>1, MemoryInvariant, PTL

(* The constants of one kind are numbered 0, 1, ...: of two, the later has *)
(* all that the earlier counts before it, and the earlier.                 *)
LEMMA Numbered ==
    ASSUME NEW x, StateOK(x), NEW i \in 1 .. Len(x.vconst), NEW j \in 1 .. Len(x.vconst), i < j
    PROVE  x.vconst[i].id # x.vconst[j].id
<1> DEFINE c == x.vconst
           R == [id : {"$", "#"} \X Nat, comment : {NoComment}, persist : BOOLEAN]
<1>1. c \in Seq(R) /\ Len(c) \in Nat
  BY Fields DEF StateOK, SymbolicState
<1>2. c[i].persist \in BOOLEAN /\ c[j].persist \in BOOLEAN
  <2>1. c[i] \in R /\ c[j] \in R
    BY <1>1, ElementOfSeq
  <2> QED
    BY <2>1
<1>3. /\ c[i].id = <<IF c[i].persist THEN "$" ELSE "#", Cardinality(Earlier(c, i))>>
      /\ c[j].id = <<IF c[j].persist THEN "$" ELSE "#", Cardinality(Earlier(c, j))>>
  BY DEF StateOK, ConstantsOK
<1>4. CASE c[i].persist # c[j].persist
  BY <1>2, <1>3, <1>4
<1>5. CASE c[i].persist = c[j].persist
  <2> DEFINE A == Earlier(c, i)
             B == Earlier(c, j)
  <2>1. A \subseteq B /\ i \in B /\ i \notin A
    BY <1>1, <1>5 DEF Earlier
  <2>2. IsFiniteSet(B)
    <3>1. 1 \in Int /\ j - 1 \in Int
      BY <1>1
    <3>2. IsFiniteSet(1 .. j - 1)
      BY <3>1, FS_Interval, Zenon
    <3>3. B \in SUBSET (1 .. j - 1)
      BY DEF Earlier
    <3> QED
      BY <3>2, <3>3, FS_Subset, Zenon
  <2> HIDE DEF A, B
  <2>3. Cardinality(A) # Cardinality(B)
    <3>1. A \in SUBSET B /\ B # A
      BY <2>1
    <3> QED
      BY <2>2, <3>1, FS_Subset, Zenon
  <2> QED
    BY <1>3, <2>3 DEF A, B
<1> QED
  BY <1>4, <1>5

(* Two symbolic constants never have one name. *)
THEOREM MemoryConstantsAreDistinct == Spec => []ConstantsAreDistinct
<1>1. IInv => ConstantsAreDistinct
  <2> SUFFICES ASSUME IInv, NEW i \in 1 .. Len(s.vconst), NEW j \in 1 .. Len(s.vconst), i # j
               PROVE  s.vconst[i].id # s.vconst[j].id
    BY DEF ConstantsAreDistinct
  <2>1. Len(s.vconst) \in Nat /\ StateOK(s)
    BY Fields DEF IInv, StateOK
  <2>2. i < j \/ j < i
    BY <2>1
  <2> QED
    BY <2>1, <2>2, Numbered
<1> QED
  BY <1>1, MemoryInvariant, PTL

(* What is freed stays freed, with the objects it had: no step of any      *)
(* program writes a freed block.                                           *)
THEOREM MemoryFreedForGood == Spec => FreedForGood
<1>1. IInv /\ [Next]_s =>
        [\A a \in 1 .. Len(s.heap) :
            s.freed[a] => a <= Len(s'.heap) /\ s'.freed[a] /\ s'.heap[a] = s.heap[a]]_s
  <2> SUFFICES ASSUME IInv, [Next]_s, NEW a \in 1 .. Len(s.heap), s.freed[a]
               PROVE  a <= Len(s'.heap) /\ s'.freed[a] /\ s'.heap[a] = s.heap[a]
    OBVIOUS
  <2>1. FreedKept(s, s') /\ IInv'
    BY StepKeeps
  <2>2. Len(s.heap) \in Nat /\ Len(s'.heap) \in Nat
    BY <2>1, Fields DEF IInv, StateOK
  <2>3. Len(s.heap) <= Len(s'.heap) /\ s'.freed[a] /\ s'.heap[a] = s.heap[a]
    BY <2>1, Zenon DEF FreedKept
  <2>4. a <= Len(s'.heap)
    BY <2>2, <2>3
  <2> QED
    BY <2>3, <2>4
<1> QED
  BY <1>1, MemoryInvariant, PTL DEF Spec, FreedForGood

(* The heap implements the abstract allocator. *)
THEOREM MemoryHeapIsAllocator == Spec => HeapIsAllocator
<1>1. Init => Heap!Init
  <2> SUFFICES ASSUME Init PROVE 1 .. Len(s.heap) = {}
    BY DEF Heap!Init
  <2> QED
    BY InitOK
<1>2. IInv /\ [Next]_s => [Heap!Next]_<<1 .. Len(s.heap), FreedBlocks(s)>>
  <2> SUFFICES ASSUME IInv, [Next]_s
               PROVE  [Heap!Next]_<<1 .. Len(s.heap), FreedBlocks(s)>>
    OBVIOUS
  <2> DEFINE n == Len(s.heap)
  <2>1. IInv' /\ AllocatorStep(s, s')
    BY StepKeeps
  <2>2. n \in Nat /\ n <= MaxNew /\ MaxNew \in Nat
    BY Fields, BoundAssumption DEF IInv, StateOK
  <2>3. FreedBlocks(s)' = FreedBlocks(s')
    BY DEF FreedBlocks
  <2>4. CASE Len(s'.heap) = n /\ FreedBlocks(s') = FreedBlocks(s)
    BY <2>3, <2>4
  <2>5. ASSUME Allocates(s, s')
        PROVE  \E b \in 1 .. MaxNew : /\ b = n + 1 /\ b \notin 1 .. n
                                      /\ 1 .. Len(s'.heap) = (1 .. n) \cup {b}
    BY <2>2, <2>5 DEF Allocates
  <2>6. CASE Allocates(s, s') /\ FreedBlocks(s') = FreedBlocks(s)
    <3>1. PICK b \in 1 .. MaxNew : /\ b = n + 1 /\ b \notin 1 .. n
                                   /\ 1 .. Len(s'.heap) = (1 .. n) \cup {b}
      BY <2>5, <2>6
    <3>2. Heap!Allocate(b)
      BY <2>3, <2>6, <3>1 DEF Heap!Allocate, FreedBlocks
    <3> QED
      BY <3>2 DEF Heap!Next
  <2>7. CASE /\ Len(s'.heap) = n
             /\ \E b \in (1 .. n) \ FreedBlocks(s) : FreedBlocks(s') = FreedBlocks(s) \cup {b}
    <3>1. PICK b \in (1 .. n) \ FreedBlocks(s) : FreedBlocks(s') = FreedBlocks(s) \cup {b}
      BY <2>7
    <3>2. Heap!Free(b)
      BY <2>3, <2>7, <3>1 DEF Heap!Free, FreedBlocks
    <3>3. b \in 1 .. MaxNew
      BY <2>2, <3>1
    <3> QED
      BY <3>2, <3>3 DEF Heap!Next
  <2>8. CASE Allocates(s, s') /\ FreedBlocks(s') = FreedBlocks(s) \cup {n + 1}
    <3>1. PICK b \in 1 .. MaxNew : /\ b = n + 1 /\ b \notin 1 .. n
                                   /\ 1 .. Len(s'.heap) = (1 .. n) \cup {b}
      BY <2>5, <2>8
    <3>2. Heap!AllocateAndFree(b)
      BY <2>3, <2>8, <3>1 DEF Heap!AllocateAndFree, FreedBlocks
    <3> QED
      BY <3>2 DEF Heap!Next
  <2> QED
    BY <2>1, <2>4, <2>6, <2>7, <2>8 DEF AllocatorStep
<1> QED
  BY <1>1, <1>2, MemoryInvariant, PTL DEF Spec, HeapIsAllocator, Heap!Spec, FreedBlocks

-----------------------------------------------------------------------------
(* What a waiting function keeps to itself.  From a state x on, the lowest *)
(* n frames wait; y is any state on the way through a step.                *)

(* A location that x points to, or that is above the waiting frames. *)
Found(x, l, n) == l.type = "AUTOMATIC" => <<l.frame, l.block>> \in PointedTo(x) \/ l.frame >= n

Known(x, v, n) == value_islocation(v) => Found(x, v.loc, n)

(* The waiting frames change only where x points, and objects hold only    *)
(* pointers into them that x has.                                          *)
Private(x, y, n) ==
    /\ \A f \in 1 .. n :
            /\ y.stack[f].varmap = x.stack[f].varmap
            /\ Len(y.stack[f].frame) = Len(x.stack[f].frame)
            /\ \A a \in 1 .. Len(x.stack[f].frame) :
                  <<f - 1, a - 1>> \notin PointedTo(x) => y.stack[f].frame[a] = x.stack[f].frame[a]
    /\ \A v \in Values(y) : Known(x, v, n)

LEMMA PrivateReflexive ==
    ASSUME NEW x, NEW n
    PROVE  Private(x, x, n)
  BY DEF Private, Known, Found, PointedTo

LEMMA NoPointer ==
    ASSUME NEW x, NEW n
    PROVE  /\ Known(x, NoValue, n)
           /\ \A t : Known(x, value_literal_create(t), n)
           /\ \A e : Known(x, value_sync_create(e), n)
  BY DEF Known, NoValue, value_literal_create, value_sync_create, value_islocation

(* Operations that leave the waiting frames alone. *)
LEMMA PrivateAbove ==
    ASSUME NEW x, NEW y, NEW z, NEW n, NEW V, Private(x, y, n), HoldsOnly(y, z, V),
           \A v \in V : Known(x, v, n), \A f \in 1 .. n : z.stack[f] = y.stack[f]
    PROVE  Private(x, z, n)
  BY DEF Private, HoldsOnly

(* Operations that change one block, which x points to or which is above. *)
LEMMA PrivateWrite ==
    ASSUME NEW x, NEW y, NEW z, NEW n \in Nat, NEW V, NEW l, LocationOK(l),
           Private(x, y, n), n <= Len(y.stack), Len(y.stack) \in Nat,
           SameShape(y, z), StackKept(y, z, l), HoldsOnly(y, z, V),
           \A v \in V : Known(x, v, n), Found(x, l, n)
    PROVE  Private(x, z, n)
<1>1. \A v \in Values(z) : Known(x, v, n)
  BY DEF Private, HoldsOnly
<1>2. \A f \in 1 .. n : f \in 1 .. Len(y.stack)
  OBVIOUS
<1>3. \A f \in 1 .. n : /\ z.stack[f].varmap = x.stack[f].varmap
                        /\ Len(z.stack[f].frame) = Len(x.stack[f].frame)
  BY <1>2 DEF SameShape, Private
<1>4. ASSUME NEW f \in 1 .. n, NEW a \in 1 .. Len(x.stack[f].frame), <<f - 1, a - 1>> \notin PointedTo(x)
      PROVE  z.stack[f].frame[a] = x.stack[f].frame[a]
  <2>1. y.stack[f].frame[a] = x.stack[f].frame[a] /\ a \in 1 .. Len(y.stack[f].frame)
    BY <1>4 DEF Private
  <2>2. CASE z.stack[f].frame[a] = y.stack[f].frame[a]
    BY <2>1, <2>2
  <2>3. CASE l.type = "AUTOMATIC" /\ f = l.frame + 1 /\ a = l.block + 1
    <3>1. l.frame \in Nat /\ l.block \in Nat
      BY DEF LocationOK
    <3>2. f - 1 = l.frame /\ a - 1 = l.block /\ ~(l.frame >= n)
      BY <2>3, <3>1
    <3> QED
      BY <1>4, <2>3, <3>2 DEF Found
  <2> QED
    BY <1>2, <2>1, <2>2, <2>3 DEF StackKept
<1> QED
  BY <1>1, <1>3, <1>4 DEF Private

(* The variables of the running function are above. *)
LEMMA VariableFound ==
    ASSUME NEW x, NEW y, NEW n \in Nat, Len(y.stack) \in Nat, n < Len(y.stack), NEW id
    PROVE  Found(x, stack_getvariable(y, id), n)
<1>1. stack_getvariable(y, id).frame = Len(y.stack) - 1
  BY DEF stack_getvariable, location_create_automatic, Location
<1> QED
  BY <1>1 DEF Found

(* What an object holds is known. *)
LEMMA ReadKnown ==
    ASSUME NEW x, NEW y, NEW n, StateOK(y), Private(x, y, n), NEW l, LvalueOK(y, l)
    PROVE  Known(x, object_as_value(y, l), n)
<1>1. object_as_value(y, l) \in Values(y)
  BY AsValue DEF LvalueOK
<1> QED
  BY <1>1 DEF Private

(* A target is reached through such pointers. *)
LEMMA TargetPrivate ==
    ASSUME NEW x, NEW y, NEW n \in Nat, StateOK(y), n < Len(y.stack), Private(x, y, n),
           NEW t \in Targets(y)
    PROVE  Private(x, t.s, n) /\ Found(x, t.loc, n) /\ Len(t.s.stack) = Len(y.stack)
<1>1. Len(y.stack) \in Nat
  BY Fields DEF StateOK
<1>2. ASSUME NEW id, t = Variable(y, id)
      PROVE  t.s = y /\ Found(x, t.loc, n)
  BY <1>1, <1>2, VariableFound DEF Variable
<1>3. CASE t \in Variables(y) \/ t = Variable(y, "return")
  BY <1>2, <1>3 DEF Variables
<1>4. CASE t \in Dereferenced(y)
  <2>1. PICK p \in Pointers(y), i \in Offsets :
          /\ t = [s |-> state_get(y, [p EXCEPT !.offset = i]), loc |-> [p EXCEPT !.offset = i]]
          /\ location_getblock(y, [p EXCEPT !.offset = i]) = "ok"
    BY <1>4 DEF Dereferenced
  <2> DEFINE l == [p EXCEPT !.offset = i]
  <2>2. p \in [type : LocationType, frame : Nat, block : Nat, offset : {0}]
    BY PointersOK
  <2>3. LocationOK(l) /\ l.type = p.type /\ l.frame = p.frame /\ l.block = p.block
    BY <2>2, OffsetsAssumption DEF LocationOK
  <2>4. PICK v \in Values(y) : value_islocation(v) /\ p = v.loc
    BY PointersOK
  <2>5. Found(x, p, n)
    BY <2>4 DEF Private, Known
  <2> HIDE DEF l
  <2>6. Found(x, l, n)
    BY <2>3, <2>5 DEF Found
  <2>7. /\ SameShape(y, state_get(y, l)) /\ StackKept(y, state_get(y, l), l)
        /\ HoldsOnly(y, state_get(y, l), {NoValue})
    BY <2>1, <2>3, StateGet DEF l
  <2>8. \A w \in {NoValue} : Known(x, w, n)
    BY NoPointer
  <2>9. Private(x, state_get(y, l), n)
    BY <1>1, <2>3, <2>6, <2>7, <2>8, PrivateWrite
  <2>10. Len(state_get(y, l).stack) = Len(y.stack)
    BY <2>7 DEF SameShape
  <2> QED
    BY <2>1, <2>6, <2>9, <2>10 DEF l
<1> QED
  BY <1>3, <1>4 DEF Targets, Lvalues

(* So is the value of every expression. *)
LEMMA EvaluatedPrivate ==
    ASSUME NEW x, StateOK(x), NEW n \in Nat, n < Len(x.stack), NEW r \in Evaluated(x)
    PROVE  Private(x, r.s, n) /\ Known(x, r.v, n) /\ Len(r.s.stack) = Len(x.stack)
<1> DEFINE Goal == Private(x, r.s, n) /\ Known(x, r.v, n) /\ Len(r.s.stack) = Len(x.stack)
<1>1. Len(x.stack) \in Nat /\ Private(x, x, n)
  BY Fields, PrivateReflexive DEF StateOK
<1>2. ASSUME NEW l \in Lvalues(x), r = [s |-> l.s, v |-> object_as_value(l.s, l.loc)]
      PROVE  Goal
  <2>1. Private(x, l.s, n) /\ Len(l.s.stack) = Len(x.stack)
    BY <1>1, TargetPrivate DEF Targets
  <2>2. StateOK(l.s) /\ LvalueOK(l.s, l.loc)
    BY LvaluesOK DEF Targets
  <2> QED
    BY <1>2, <2>1, <2>2, ReadKnown
<1>3. ASSUME NEW l \in Variables(x), r = [s |-> x, v |-> value_ptr_create(l.loc)]
      PROVE  Goal
  <2>1. Found(x, l.loc, n)
    BY <1>1, VariableFound DEF Variables, Variable
  <2> QED
    BY <1>1, <1>3, <2>1 DEF Known, value_ptr_create
<1>4. ASSUME NEW V, HoldsOnly(x, r.s, V), \A v \in V : Known(x, v, n), r.s.stack = x.stack
      PROVE  Private(x, r.s, n) /\ Len(r.s.stack) = Len(x.stack)
  BY <1>1, <1>4, PrivateAbove
<1>5. ASSUME NEW l, l.type # "AUTOMATIC", r.v = value_ptr_create(l)
      PROVE  Known(x, r.v, n)
  BY <1>5 DEF Known, Found, value_ptr_create
<1>6. ASSUME NEW t \in Literals,
             r = [s |-> state_static_init(x, t),
                  v |-> value_ptr_create(static_location(state_static_init(x, t), t))]
      PROVE  Goal
  <2>1. r.s.stack = x.stack /\ HoldsOnly(x, r.s, {value_literal_create(t)})
    BY <1>6, StaticInit
  <2>2. \A v \in {value_literal_create(t)} : Known(x, v, n)
    BY NoPointer
  <2>3. static_location(state_static_init(x, t), t).type # "AUTOMATIC"
    BY DEF static_location, location_create_static, Location
  <2> QED
    BY <1>4, <1>5, <1>6, <2>1, <2>2, <2>3
<1>7. ASSUME NEW persist \in BOOLEAN,
             r = [s |-> vconst_declare(x, NoComment, persist),
                  v |-> value_sync_create(vconst_id(x.vconst, persist))]
      PROVE  Goal
  <2>1. r.s.stack = x.stack /\ HoldsOnly(x, r.s, {})
    BY <1>7, VconstDeclare
  <2>2. Private(x, r.s, n) /\ Len(r.s.stack) = Len(x.stack)
    BY <1>4, <2>1
  <2>3. Known(x, r.v, n)
    BY <1>7, NoPointer
  <2> QED
    BY <2>2, <2>3
<1>8. ASSUME r = [s |-> heap_newblock(x),
                  v |-> value_ptr_create(location_create_dynamic(Len(x.heap)))]
      PROVE  Goal
  <2>1. r.s.stack = x.stack /\ HoldsOnly(x, r.s, {})
    BY <1>8, HeapNewblock
  <2>2. location_create_dynamic(Len(x.heap)).type # "AUTOMATIC"
    BY DEF location_create_dynamic, Location
  <2> QED
    BY <1>4, <1>5, <1>8, <2>1, <2>2
<1>9. ASSUME r = [s |-> clump_newblock(x),
                  v |-> value_ptr_create(location_create_dereferencable(Len(x.clump)))]
      PROVE  Goal
  <2>1. r.s.stack = x.stack /\ HoldsOnly(x, r.s, {})
    BY <1>9, ClumpNewblock
  <2>2. location_create_dereferencable(Len(x.clump)).type # "AUTOMATIC"
    BY DEF location_create_dereferencable, Location
  <2> QED
    BY <1>4, <1>5, <1>9, <2>1, <2>2
<1> QED
  BY <1>2, <1>3, <1>6, <1>7, <1>8, <1>9 DEF Evaluated

(* Assigning a known value to a target. *)
LEMMA AssignPrivate ==
    ASSUME NEW x, NEW y, NEW n \in Nat, StateOK(y), n < Len(y.stack), Private(x, y, n),
           NEW t \in Targets(y), NEW v, ValueOK(y, v), Known(x, v, n)
    PROVE  /\ Private(x, object_assign(t.s, t.loc, v), n)
           /\ Len(object_assign(t.s, t.loc, v).stack) = Len(y.stack)
<1> DEFINE z == object_assign(t.s, t.loc, v)
<1>1. Private(x, t.s, n) /\ Found(x, t.loc, n) /\ Len(t.s.stack) = Len(y.stack)
  BY TargetPrivate
<1>2. StateOK(t.s) /\ SameShape(y, t.s) /\ LvalueOK(t.s, t.loc)
  BY LvaluesOK
<1>3. /\ Len(y.static) \in Nat /\ Len(y.clump) \in Nat /\ Len(y.heap) \in Nat
      /\ Len(y.stack) \in Nat
  BY Fields DEF StateOK
<1>4. ValueOK(t.s, v)
  BY <1>2, <1>3, ValueKept DEF SameShape, NoBlockLost
<1>5. SameShape(t.s, z) /\ StackKept(t.s, z, t.loc) /\ HoldsOnly(t.s, z, {v})
  BY <1>2, <1>4, AssignKeeps DEF LvalueOK
<1> HIDE DEF z
<1>6. Private(x, z, n)
  <2>1. \A w \in {v} : Known(x, w, n)
    OBVIOUS
  <2> QED
    BY <1>1, <1>2, <1>3, <1>5, <2>1, PrivateWrite DEF LvalueOK
<1> QED
  BY <1>1, <1>5, <1>6 DEF SameShape, z

(* The frames that wait before and after a step. *)
LEMMA NextPrivate ==
    ASSUME StateOK(s), Next
    PROVE  \E n \in Nat : /\ Private(s, s', n)
                          /\ \A f \in 1 .. Len(s.stack) - 1 : f < Len(s'.stack) => f <= n
<1> DEFINE m == Len(s.stack) - 1
<1>1. Len(s.stack) \in Nat /\ m \in Nat /\ m < Len(s.stack) /\ Private(s, s, m)
  BY Fields, PrivateReflexive DEF StateOK
<1>2. SUFFICES ASSUME ~Return PROVE Private(s, s', m)
  <2>1. CASE ~Return
    BY <1>1, <1>2, <2>1
  <2>2. CASE Return
    <3> DEFINE l == stack_getvariable(s, "return")
               v == object_as_value(s, l)
               x == state_popframe(s)
               k == m - 1
    <3>1. k \in Nat /\ Len(s.stack) > 1
      BY <1>1, <2>2 DEF Return
    <3>2. /\ StateOK(x) /\ NoBlockLost(s, x) /\ HoldsOnly(s, x, {NoValue}) /\ Len(x.stack) = m
          /\ \A g \in 1 .. Len(x.stack) : x.stack[g] = s.stack[g]
      BY <3>1, PopFrame
    <3>3. LvalueOK(s, l)
      BY VariableOK
    <3>4. ValueOK(s, v)
      BY <3>3, AsValue DEF LvalueOK
    <3>5. Private(s, s, k) /\ Known(s, v, k)
      BY <3>3, PrivateReflexive, ReadKnown
    <3>6. s' = x \/ \E t \in Targets(x) : s' = object_assign(t.s, t.loc, v)
      BY <2>2 DEF Return
    <3> HIDE DEF x, v, l
    <3>7. ValueOK(x, v)
      BY <3>2, <3>4, ValueKept
    <3>8. Private(s, x, k)
      <4>1. \A w \in {NoValue} : Known(s, w, k)
        BY NoPointer
      <4>2. \A f \in 1 .. k : x.stack[f] = s.stack[f]
        BY <1>1, <3>2
      <4> QED
        BY <3>2, <3>5, <4>1, <4>2, PrivateAbove
    <3>9. Private(s, s', k) /\ Len(s'.stack) = m
      <4>1. CASE s' = x
        BY <3>2, <3>8, <4>1
      <4>2. CASE \E t \in Targets(x) : s' = object_assign(t.s, t.loc, v)
        BY <1>1, <3>1, <3>2, <3>5, <3>7, <3>8, <4>2, AssignPrivate
      <4> QED
        BY <3>6, <4>1, <4>2
    <3> QED
      BY <1>1, <3>1, <3>9
  <2> QED
    BY <2>1, <2>2
<1>3. ASSUME NEW r \in Evaluated(s)
      PROVE  /\ Private(s, r.s, m) /\ Known(s, r.v, m) /\ Len(r.s.stack) = Len(s.stack)
             /\ StateOK(r.s) /\ ValueOK(r.s, r.v)
  BY <1>1, EvaluatedPrivate, EvaluatedOK
<1>4. \A w \in {NoValue} : Known(s, w, m)
  BY NoPointer
<1> HIDE DEF m
<1>5. CASE Declare
  <2>1. PICK id \in Names : s' = state_declare(s, id, FALSE)
    BY <1>5 DEF Declare
  <2>2. HoldsOnly(s, s', {NoValue}) /\ \A g \in 1 .. m : s'.stack[g] = s.stack[g]
    BY <2>1, DeclareKeeps DEF m
  <2> QED
    BY <1>1, <1>4, <2>2, PrivateAbove
<1>6. CASE Evaluate
  BY <1>3, <1>6 DEF Evaluate
<1>7. CASE Assign
  <2>1. PICK r \in Evaluated(s) : \E l \in Targets(r.s) : s' = object_assign(l.s, l.loc, r.v)
    BY <1>7 DEF Assign
  <2> QED
    BY <1>1, <1>3, <2>1, AssignPrivate
<1>8. CASE Dealloc
  <2>1. PICK r \in Evaluated(s) : state_dealloc_ok(r.s, r.v) /\ s' = state_dealloc(r.s, r.v)
    BY <1>8 DEF Dealloc
  <2>2. s'.stack = r.s.stack /\ HoldsOnly(r.s, s', {})
    BY <1>3, <2>1, DeallocStack
  <2> QED
    BY <1>3, <2>2, PrivateAbove
<1>9. CASE Call
  <2>1. PICK r \in Evaluated(s), id \in Names :
          LET x == state_declare(state_pushframe(r.s, NoCode, TRUE), id, TRUE)
          IN s' = object_assign(x, stack_getvariable(x, id), r.v)
    BY <1>9 DEF Call
  <2> DEFINE w == state_pushframe(r.s, NoCode, TRUE)
             x == state_declare(w, id, TRUE)
             l == stack_getvariable(x, id)
  <2>2. /\ StateOK(w) /\ NoBlockLost(r.s, w) /\ HoldsOnly(r.s, w, {NoValue})
        /\ Len(w.stack) = Len(s.stack) + 1
        /\ \A g \in 1 .. Len(s.stack) : w.stack[g] = r.s.stack[g]
    BY <1>3, PushFrame
  <2> HIDE DEF w
  <2>3. /\ StateOK(x) /\ NoBlockLost(w, x) /\ HoldsOnly(w, x, {NoValue})
        /\ Len(x.stack) = Len(s.stack) + 1 /\ id \in Declared(Top(x))
        /\ \A g \in 1 .. Len(w.stack) - 1 : x.stack[g] = w.stack[g]
    BY <2>2, DeclareKeeps
  <2> HIDE DEF x
  <2>4. ValueOK(x, r.v)
    BY <1>3, <2>2, <2>3, ValueKept
  <2>5. Private(s, w, m)
    <3>1. \A f \in 1 .. m : w.stack[f] = r.s.stack[f]
      BY <1>1, <2>2
    <3> QED
      BY <1>3, <1>4, <2>2, <3>1, PrivateAbove
  <2>6. Private(s, x, m)
    <3>1. \A f \in 1 .. m : x.stack[f] = w.stack[f]
      BY <1>1, <2>2, <2>3
    <3> QED
      BY <1>4, <2>3, <2>5, <3>1, PrivateAbove
  <2>7. LvalueOK(x, l) /\ Found(s, l, m)
    BY <1>1, <2>3, VariableOK, VariableFound
  <2>8. s' = object_assign(x, l, r.v)
    BY <2>1 DEF x, w
  <2> HIDE DEF l
  <2>9. SameShape(x, s') /\ StackKept(x, s', l) /\ HoldsOnly(x, s', {r.v})
    BY <2>3, <2>4, <2>7, <2>8, AssignKeeps DEF LvalueOK
  <2>10. \A v \in {r.v} : Known(s, v, m)
    BY <1>3
  <2>11. m <= Len(x.stack) /\ Len(x.stack) \in Nat
    BY <1>1, <2>3
  <2> QED
    BY <1>1, <2>6, <2>7, <2>9, <2>10, <2>11, PrivateWrite DEF LvalueOK
<1> QED
  BY <1>2, <1>5, <1>6, <1>7, <1>8, <1>9 DEF Next

(* A variable of a waiting function to which nothing points is left alone  *)
(* until the function runs again, whatever the functions above it do.      *)
THEOREM MemoryPrivateStaysPrivate == Spec => PrivateStaysPrivate
<1> DEFINE A == \A f \in 1 .. Len(s.stack) - 1 :
                    f < Len(s'.stack) =>
                        /\ s'.stack[f].varmap = s.stack[f].varmap
                        /\ Len(s'.stack[f].frame) = Len(s.stack[f].frame)
                        /\ \A a \in 1 .. Len(s.stack[f].frame) :
                              <<f - 1, a - 1>> \notin PointedTo(s) =>
                                  /\ s'.stack[f].frame[a] = s.stack[f].frame[a]
                                  /\ <<f - 1, a - 1>> \notin PointedTo(s')
<1>1. IInv /\ [Next]_s => [A]_s
  <2> SUFFICES ASSUME IInv, Next, NEW f \in 1 .. Len(s.stack) - 1, f < Len(s'.stack)
               PROVE  /\ s'.stack[f].varmap = s.stack[f].varmap
                      /\ Len(s'.stack[f].frame) = Len(s.stack[f].frame)
                      /\ \A a \in 1 .. Len(s.stack[f].frame) :
                            <<f - 1, a - 1>> \notin PointedTo(s) =>
                                /\ s'.stack[f].frame[a] = s.stack[f].frame[a]
                                /\ <<f - 1, a - 1>> \notin PointedTo(s')
    OBVIOUS
  <2>1. PICK n \in Nat : /\ Private(s, s', n)
                         /\ \A g \in 1 .. Len(s.stack) - 1 : g < Len(s'.stack) => g <= n
    BY NextPrivate DEF IInv
  <2>2. f \in 1 .. n
    BY <2>1
  <2>3. ASSUME NEW a \in 1 .. Len(s.stack[f].frame), <<f - 1, a - 1>> \in PointedTo(s')
        PROVE  <<f - 1, a - 1>> \in PointedTo(s)
    <3>1. PICK v \in Values(s') : /\ value_islocation(v) /\ v.loc.type = "AUTOMATIC"
                                  /\ <<f - 1, a - 1>> = <<v.loc.frame, v.loc.block>>
      BY <2>3 DEF PointedTo
    <3>2. Found(s, v.loc, n)
      BY <2>1, <3>1 DEF Private, Known
    <3>3. v.loc.frame = f - 1 /\ v.loc.block = a - 1
      BY <3>1
    <3>4. ~(v.loc.frame >= n)
      BY <2>2, <3>3
    <3> QED
      BY <3>1, <3>2, <3>4 DEF Found
  <2> QED
    BY <2>1, <2>2, <2>3 DEF Private
<1> QED
  BY <1>1, MemoryInvariant, PTL DEF Spec, PrivateStaysPrivate

=============================================================================
