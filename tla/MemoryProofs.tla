----------------------------- MODULE MemoryProofs -----------------------------
(***************************************************************************)
(* Proofs about the three memory structures, the arena and the flat hash   *)
(* map the compiler is built on and the linear memory its programs get,    *)
(* and about the virtual machine that runs them, beside native code.       *)
(*                                                                         *)
(* The arena: for all sizes, alignments and bounds, what is handed out is  *)
(* disjoint and aligned, a rollback takes back what came after its mark,   *)
(* destructors find their objects, and only a block made for an oversized  *)
(* request can be overrun.  alloc() is a function of a chain record; a     *)
(* first group of lemmas is about chains alone, without state.             *)
(*                                                                         *)
(* The flat hash map: for all keys, values, hash functions and capacities, *)
(* the table is a map, and a probe can fail to end only because of         *)
(* tombstones.  The heart of it is Sound: a key is in at most one slot,    *)
(* and a probe for it meets no EMPTY slot before that one.                 *)
(*                                                                         *)
(* The linear memory: its invariants hold for all request sizes,           *)
(* alignments, address spaces and call depths, and only realloc() in place *)
(* makes arena and heap meet.  The conjunction of the invariants is        *)
(* inductive: the mark of a frame bounds the scratch of its callers, so    *)
(* restoring it leaves theirs alone; free blocks end below heap_, so       *)
(* reusing one needs no resize; and heap_ never exceeds the size a frame   *)
(* truncates to.                                                           *)
(*                                                                         *)
(* The virtual machine: for every program, any number of statements and    *)
(* any depth of calls, the memory holds the value native code gives each   *)
(* variable of each live function.  The invariant is Good: the slots of    *)
(* the live functions lie apart, one function's above its caller's, a      *)
(* borrow is of a variable further down that has a value, and every        *)
(* variable that has one is represented.  It is kept by three changes,     *)
(* which the statements are made of: one slot is written (GoodPut), a      *)
(* function is entered (GoodPush) or left (GoodPop).                       *)
(***************************************************************************)
EXTENDS Arena, FlatMap, LinearMemory, VmParity, NumberLemmas, SequenceTheorems, FiniteSetTheorems

(***************************************************************************)
(* The arena.                                                              *)
(***************************************************************************)
\* The first multiple of a from o on is where it is looked for, and no multiple
\* lies between.
LEMMA AlignUpLeast ==
    ASSUME NEW o \in Nat, NEW a \in Nat \ {0}
    PROVE  /\ AlignUp(o, a) \in Nat /\ o <= AlignUp(o, a) /\ AlignUp(o, a) % a = 0
           /\ \A p \in Nat : o <= p /\ p % a = 0 => AlignUp(o, a) <= p
<1>1. AlignUp(o, a) \in o..(o + a - 1) /\ AlignUp(o, a) % a = 0
  <2>1. \E w \in o..(o + a - 1) : w % a = 0
    BY MultipleAbove
  <2> QED
    BY <2>1 DEF AlignUp
<1>2. ASSUME NEW p \in Nat, o <= p, p % a = 0, ~(AlignUp(o, a) <= p)
      PROVE  FALSE
  <2>1. p + a <= AlignUp(o, a)
    BY <1>1, <1>2, MultiplesApart
  <2> QED
    BY <1>1, <1>2, <2>1
<1> QED
  BY <1>1, <1>2

(***************************************************************************)
(* Chains.                                                                 *)
(***************************************************************************)
BlockRecords == [size : Nat \ {0}, align : Nat \ {0}]
Chains == [blocks : Seq(BlockRecords), current : Nat, offset : Nat, live : Seq(Allocations)]

Precedes(r, s) == r.block < s.block \/ (r.block = s.block /\ EndOf(r) <= s.off)

\* Allocations lie one behind the other, up to the offset of the current block.
Packed(s) ==
    /\ s \in Chains /\ s.current <= Len(s.blocks)
    /\ \A i \in 1..Len(s.live) :
          /\ s.live[i].block <= s.current
          /\ s.live[i].block = s.current => EndOf(s.live[i]) <= s.offset
          /\ s.live[i].off % s.live[i].align = 0
          /\ s.live[i].align <= s.blocks[s.live[i].block].align
    /\ \A i, j \in 1..Len(s.live) : i < j => Precedes(s.live[i], s.live[j])

\* t is s with more allocations, all behind what s has.
Extends(s, t) ==
    /\ s.current <= t.current /\ (t.current = s.current => s.offset <= t.offset)
    /\ Len(s.live) <= Len(t.live)
    /\ \A i \in 1..Len(s.live) : t.live[i] = s.live[i]
    /\ \A b \in 1..s.current : t.blocks[b] = s.blocks[b]
    /\ \A i \in (Len(s.live) + 1)..Len(t.live) :
          t.live[i].block > s.current \/ (t.live[i].block = s.current /\ t.live[i].off >= s.offset)

LEMMA PackedTypes ==
    ASSUME NEW s, Packed(s)
    PROVE  /\ s \in Chains /\ s.current \in 0..Len(s.blocks) /\ s.offset \in Nat
           /\ s.blocks \in Seq(BlockRecords) /\ s.live \in Seq(Allocations)
           /\ \A b \in 1..Len(s.blocks) : /\ s.blocks[b] \in BlockRecords
                                          /\ s.blocks[b].size \in Nat \ {0}
                                          /\ s.blocks[b].align \in Nat \ {0}
<1>1. /\ s \in Chains /\ s.current \in 0..Len(s.blocks) /\ s.offset \in Nat
      /\ s.blocks \in Seq(BlockRecords) /\ s.live \in Seq(Allocations)
  BY DEF Packed, Chains
<1>2. \A b \in 1..Len(s.blocks) : s.blocks[b] \in BlockRecords
  BY <1>1
<1> QED
  BY <1>1, <1>2 DEF BlockRecords

LEMMA PackedRegion ==
    ASSUME NEW s, Packed(s), NEW i \in 1..Len(s.live)
    PROVE  /\ s.live[i] \in Allocations /\ s.live[i].block \in 1..s.current /\ s.live[i].off \in Nat
           /\ EndOf(s.live[i]) \in Nat /\ s.live[i].align \in Nat \ {0}
<1>1. s.live[i] \in Allocations /\ s.current \in Nat
  BY PackedTypes
<1>2. /\ s.live[i].block \in Nat \ {0} /\ s.live[i].off \in Nat /\ s.live[i].len \in Nat \ {0}
      /\ s.live[i].align \in Nat \ {0}
  BY <1>1 DEF Allocations
<1>3. s.live[i].block <= s.current
  BY DEF Packed
<1> QED
  BY <1>1, <1>2, <1>3 DEF EndOf

LEMMA LargerIsEither ==
    ASSUME NEW m \in Nat, NEW n \in Nat
    PROVE  LargerOf(m, n) \in {m, n} /\ m <= LargerOf(m, n) /\ n <= LargerOf(m, n)
  BY DEF LargerOf

Moved(s, B, c) == [s EXCEPT !.blocks = B, !.current = c, !.offset = 0]
Filled(s, L, o) == [s EXCEPT !.live = L, !.offset = o]

LEMMA MovedFields ==
    ASSUME NEW s \in Chains, NEW B \in Seq(BlockRecords), NEW c \in Nat
    PROVE  /\ Moved(s, B, c) \in Chains /\ Moved(s, B, c).live = s.live
           /\ Moved(s, B, c).blocks = B /\ Moved(s, B, c).current = c /\ Moved(s, B, c).offset = 0
  BY DEF Chains, Moved

LEMMA FilledFields ==
    ASSUME NEW s \in Chains, NEW L \in Seq(Allocations), NEW o \in Nat
    PROVE  /\ Filled(s, L, o) \in Chains /\ Filled(s, L, o).live = L /\ Filled(s, L, o).offset = o
           /\ Filled(s, L, o).blocks = s.blocks /\ Filled(s, L, o).current = s.current
  BY DEF Chains, Filled

\* addBlock_(): an empty block, as large and as aligned as asked for.
LEMMA AddBlockFields ==
    ASSUME ArenaAssumption, NEW s, s \in Chains, s.current <= Len(s.blocks),
           NEW n \in Nat \ {0}, NEW a \in Nat \ {0}, NEW t, t = AddBlock(s, n, a)
    PROVE  /\ t \in Chains /\ t.current = s.current + 1 /\ t.offset = 0 /\ t.live = s.live
           /\ Len(t.blocks) = t.current /\ \A b \in 1..s.current : t.blocks[b] = s.blocks[b]
           /\ t.blocks[t.current] = [size |-> LargerOf(n, BlockSize), align |-> LargerOf(a, BlockAlign)]
<1> DEFINE b == [size |-> LargerOf(n, BlockSize), align |-> LargerOf(a, BlockAlign)]
           kept == SubSeq(s.blocks, 1, s.current)
           new == Append(kept, b)
<1>1. s.blocks \in Seq(BlockRecords) /\ s.current \in Nat
  BY DEF Chains
<1>2. b \in BlockRecords
  BY DEF BlockRecords, LargerOf, ArenaAssumption, ArenaSizesAssumption, ArenaAlignmentsAssumption
<1>3. /\ kept \in Seq(BlockRecords) /\ Len(kept) = s.current
      /\ \A i \in 1..s.current : kept[i] = s.blocks[i]
  BY <1>1
<1>4. /\ new \in Seq(BlockRecords) /\ Len(new) = s.current + 1 /\ new[s.current + 1] = b
      /\ \A i \in 1..s.current : new[i] = s.blocks[i]
  <2> HIDE DEF kept, b
  <2> QED
    BY <1>1, <1>2, <1>3
<1>5. AddBlock(s, n, a) = Moved(s, new, s.current + 1)
  BY DEF AddBlock, Moved
<1>6. PICK c \in Nat : c = s.current + 1
  BY <1>1
<1>7. t \in Chains /\ t.blocks = new /\ t.current = c /\ t.offset = 0 /\ t.live = s.live
  <2> HIDE DEF new
  <2> QED
    BY <1>4, <1>5, <1>6, MovedFields, SMTT(60)
<1> HIDE DEF new
<1> QED
  BY <1>4, <1>6, <1>7

LEMMA PlaceFields ==
    ASSUME NEW s, s \in Chains, NEW n \in Nat \ {0}, NEW a \in Nat \ {0}, s.current # 0,
           NEW t, t = Place(s, n, a)
    PROVE  /\ t \in Chains /\ t.current = s.current /\ t.blocks = s.blocks
           /\ t.offset = AlignUp(s.offset, a) + n
           /\ Len(t.live) = Len(s.live) + 1 /\ \A i \in 1..Len(s.live) : t.live[i] = s.live[i]
           /\ t.live[Len(t.live)] =
                [block |-> s.current, off |-> AlignUp(s.offset, a), len |-> n, align |-> a]
<1> DEFINE w == AlignUp(s.offset, a)
           r == [block |-> s.current, off |-> w, len |-> n, align |-> a]
           new == Append(s.live, r)
<1>1. s.current \in Nat /\ s.live \in Seq(Allocations) /\ s.offset \in Nat
  BY DEF Chains
<1>2. w \in Nat
  BY <1>1, AlignUpLeast
<1>3. r \in Allocations
  <2> HIDE DEF w
  <2> QED
    BY <1>1, <1>2 DEF Allocations
<1>4. /\ new \in Seq(Allocations) /\ Len(new) = Len(s.live) + 1 /\ new[Len(s.live) + 1] = r
      /\ \A i \in 1..Len(s.live) : new[i] = s.live[i]
  <2> HIDE DEF r
  <2> QED
    BY <1>1, <1>3
<1>5. Place(s, n, a) = Filled(s, new, w + n)
  BY DEF Place, Filled
<1>6. PICK o \in Nat : o = w + n
  BY <1>2
<1>7. /\ t \in Chains /\ t.live = new /\ t.offset = o /\ t.blocks = s.blocks
      /\ t.current = s.current
  <2> HIDE DEF new
  <2> QED
    BY <1>4, <1>5, <1>6, FilledFields
<1> HIDE DEF new
<1> QED
  BY <1>4, <1>6, <1>7

\* alloc() makes room first, when the current block does not do.
Roomy(s, n, a) == IF NeedsBlock(s, n, a) THEN AddBlock(s, n, a) ELSE s

LEMMA RoomyPacked ==
    ASSUME ArenaAssumption, NEW s, Packed(s), NEW n \in Nat \ {0}, NEW a \in Nat \ {0},
           NEW u, u = Roomy(s, n, a)
    PROVE  /\ Packed(u) /\ Extends(s, u) /\ u.live = s.live
           /\ u.current # 0 /\ a <= u.blocks[u.current].align
<1>1. /\ s \in Chains /\ s.current <= Len(s.blocks) /\ s.blocks \in Seq(BlockRecords)
      /\ s.current \in Nat /\ s.offset \in Nat /\ s.live \in Seq(Allocations)
  BY PackedTypes
<1>2. CASE ~NeedsBlock(s, n, a)
  <2>1. u = s
    BY <1>2 DEF Roomy
  <2>2. s.current # 0 /\ ~(s.blocks[s.current].align < a)
    BY <1>2 DEF NeedsBlock
  <2>3. a <= s.blocks[s.current].align
    BY <1>1, <2>2, PackedTypes
  <2> QED
    BY <1>1, <2>1, <2>2, <2>3 DEF Extends
<1>3. CASE NeedsBlock(s, n, a)
  <2>1. u = AddBlock(s, n, a)
    BY <1>3 DEF Roomy
  <2>2. /\ u \in Chains /\ u.current = s.current + 1 /\ u.offset = 0 /\ u.live = s.live
        /\ Len(u.blocks) = u.current /\ \A b \in 1..s.current : u.blocks[b] = s.blocks[b]
        /\ u.blocks[u.current] = [size |-> LargerOf(n, BlockSize), align |-> LargerOf(a, BlockAlign)]
    <3>1. s \in Chains /\ s.current <= Len(s.blocks)
      BY <1>1, Zenon
    <3> QED
      BY <2>1, <3>1, AddBlockFields
  <2>3. a <= u.blocks[u.current].align
    <3>1. BlockAlign \in Nat
      BY DEF ArenaAssumption, ArenaAlignmentsAssumption
    <3>2. a <= LargerOf(a, BlockAlign)
      BY <3>1, LargerIsEither
    <3> QED
      BY <2>2, <3>2
  <2>4. ASSUME NEW i \in 1..Len(s.live)
        PROVE  /\ s.live[i].block \in 1..s.current
               /\ s.live[i].block <= u.current /\ s.live[i].block # u.current
               /\ u.blocks[s.live[i].block] = s.blocks[s.live[i].block]
    <3>1. PICK b \in 1..s.current : b = s.live[i].block
      BY PackedRegion
    <3>2. b <= u.current /\ b # u.current /\ u.blocks[b] = s.blocks[b]
      BY <1>1, <2>2
    <3> QED
      BY <3>1, <3>2
  <2>5. Packed(u)
    <3>1. u.current <= Len(u.blocks)
      BY <1>1, <2>2
    <3>2. ASSUME NEW i \in 1..Len(u.live)
          PROVE  /\ u.live[i].block <= u.current
                 /\ u.live[i].block = u.current => EndOf(u.live[i]) <= u.offset
                 /\ u.live[i].off % u.live[i].align = 0
                 /\ u.live[i].align <= u.blocks[u.live[i].block].align
      <4>1. i \in 1..Len(s.live) /\ u.live[i] = s.live[i]
        BY <2>2
      <4>2. /\ s.live[i].off % s.live[i].align = 0
            /\ s.live[i].align <= s.blocks[s.live[i].block].align
        BY <4>1 DEF Packed
      <4> QED
        BY <2>4, <4>1, <4>2
    <3>3. \A i, j \in 1..Len(u.live) : i < j => Precedes(u.live[i], u.live[j])
      BY <2>2 DEF Packed
    <3> QED
      BY <2>2, <3>1, <3>2, <3>3 DEF Packed
  <2>6. Extends(s, u)
    BY <1>1, <2>2 DEF Extends
  <2> QED
    BY <1>1, <2>2, <2>3, <2>5, <2>6
<1> QED
  BY <1>2, <1>3

\* alloc() keeps the chain packed and puts the allocation behind all others.
LEMMA AllocatedPacked ==
    ASSUME ArenaAssumption, NEW s, Packed(s), NEW n \in Nat, NEW a \in Nat \ {0},
           NEW t, t = Allocated(s, n, a)
    PROVE  Packed(t) /\ Extends(s, t) /\ Len(t.live) = Len(s.live) + 1
<1>1. PICK m \in Nat \ {0} : m = LargerOf(n, 1)
  BY DEF LargerOf
<1>2. PICK u : u = Roomy(s, m, a)
  OBVIOUS
<1>3. t = Place(u, m, a)
  BY <1>1, <1>2 DEF Allocated, Roomy
<1>4. /\ Packed(u) /\ Extends(s, u) /\ u.live = s.live
      /\ u.current # 0 /\ a <= u.blocks[u.current].align
  BY <1>2, RoomyPacked
<1>5. /\ u \in Chains /\ u.current <= Len(u.blocks) /\ u.blocks \in Seq(BlockRecords)
      /\ u.current \in Nat /\ u.offset \in Nat /\ u.live \in Seq(Allocations)
  BY <1>4 DEF Packed, Chains
<1>6. PICK w \in Nat : w = AlignUp(u.offset, a) /\ u.offset <= w /\ w % a = 0
  BY <1>5, AlignUpLeast
<1>7. /\ t \in Chains /\ t.current = u.current /\ t.blocks = u.blocks /\ t.offset = w + m
      /\ Len(t.live) = Len(u.live) + 1 /\ \A i \in 1..Len(u.live) : t.live[i] = u.live[i]
      /\ t.live[Len(t.live)] = [block |-> u.current, off |-> w, len |-> m, align |-> a]
  <2>1. u.current # 0
    BY <1>4
  <2>2. /\ t \in Chains /\ t.current = u.current /\ t.blocks = u.blocks
        /\ t.offset = AlignUp(u.offset, a) + m
        /\ Len(t.live) = Len(u.live) + 1 /\ \A i \in 1..Len(u.live) : t.live[i] = u.live[i]
        /\ t.live[Len(t.live)] =
             [block |-> u.current, off |-> AlignUp(u.offset, a), len |-> m, align |-> a]
    BY <1>3, <1>5, <2>1, PlaceFields
  <2> QED
    BY <1>6, <2>2
<1>8. Packed(t)
  <2>1. t.current <= Len(t.blocks)
    BY <1>5, <1>7
  <2>2. ASSUME NEW i \in 1..Len(t.live)
        PROVE  /\ t.live[i].block <= t.current
               /\ t.live[i].block = t.current => EndOf(t.live[i]) <= t.offset
               /\ t.live[i].off % t.live[i].align = 0
               /\ t.live[i].align <= t.blocks[t.live[i].block].align
    <3>1. CASE i = Len(t.live)
      <4>1. /\ t.live[i].block = u.current /\ t.live[i].off = w
            /\ t.live[i].len = m /\ t.live[i].align = a
        BY <1>7, <3>1
      <4>2. t.live[i].block <= t.current /\ EndOf(t.live[i]) <= t.offset
        BY <1>5, <1>7, <4>1 DEF EndOf
      <4>3. t.live[i].off % t.live[i].align = 0
        BY <1>6, <4>1
      <4>4. t.live[i].align <= t.blocks[t.live[i].block].align
        BY <1>4, <1>7, <4>1
      <4> QED
        BY <4>2, <4>3, <4>4
    <3>2. CASE i # Len(t.live)
      <4>1. i \in 1..Len(u.live) /\ t.live[i] = u.live[i] /\ u.live[i] \in Allocations
        BY <1>5, <1>7, <3>2
      <4>2. EndOf(u.live[i]) \in Nat
        BY <4>1 DEF Allocations, EndOf
      <4> QED
        BY <1>4, <1>5, <1>6, <1>7, <4>1, <4>2, SMTT(60) DEF Packed
    <3> QED
      BY <3>1, <3>2
  <2>3. ASSUME NEW i \in 1..Len(t.live), NEW j \in 1..Len(t.live), i < j
        PROVE  Precedes(t.live[i], t.live[j])
    <3>1. i \in 1..Len(u.live) /\ t.live[i] = u.live[i] /\ u.live[i] \in Allocations
      BY <1>5, <1>7, <2>3, SMTT(60)
    <3>2. CASE j = Len(t.live)
      <4>1. EndOf(u.live[i]) \in Nat /\ u.live[i].block \in 1..u.current
        BY <1>4, <3>1, PackedRegion
      <4>2. u.live[i].block = u.current => EndOf(u.live[i]) <= w
        BY <1>4, <1>5, <1>6, <3>1, <4>1 DEF Packed
      <4>3. t.live[j].block = u.current /\ t.live[j].off = w
        BY <1>7, <3>2
      <4> QED
        BY <1>5, <3>1, <4>1, <4>2, <4>3 DEF Precedes
    <3>3. CASE j # Len(t.live)
      <4>1. j \in 1..Len(u.live) /\ t.live[j] = u.live[j]
        BY <1>5, <1>7, <3>3, SMTT(60)
      <4> QED
        BY <1>4, <2>3, <3>1, <4>1 DEF Packed
    <3> QED
      BY <3>2, <3>3
  <2> QED
    BY <1>7, <2>1, <2>2, <2>3 DEF Packed
<1>9. Extends(s, t)
  <2>1. s.current \in Nat /\ s.offset \in Nat /\ s.live \in Seq(Allocations)
    BY PackedTypes
  <2>2. s.current <= u.current /\ (u.current = s.current => s.offset <= w)
    BY <1>4, <1>5, <1>6, <2>1 DEF Extends
  <2>3. Len(t.live) = Len(s.live) + 1 /\ \A i \in 1..Len(s.live) : t.live[i] = s.live[i]
    BY <1>4, <1>7
  <2>4. \A b \in 1..s.current : t.blocks[b] = s.blocks[b]
    BY <1>4, <1>7 DEF Extends
  <2>5. t.live[Len(t.live)].block = u.current /\ t.live[Len(t.live)].off = w
    BY <1>7
  <2>6. \A i \in (Len(s.live) + 1)..Len(t.live) : i = Len(t.live)
    BY <2>1, <2>3
  <2>7. t.current = s.current => s.offset <= t.offset
    BY <1>6, <1>7, <2>1, <2>2
  <2>8. Len(s.live) <= Len(t.live)
    BY <2>1, <2>3
  <2>9. \A i \in (Len(s.live) + 1)..Len(t.live) :
          t.live[i].block > s.current \/ (t.live[i].block = s.current /\ t.live[i].off >= s.offset)
    BY <1>5, <2>1, <2>2, <2>5, <2>6, SMTT(60)
  <2> QED
    BY <1>7, <2>2, <2>3, <2>4, <2>7, <2>8, <2>9 DEF Extends
<1> QED
  BY <1>4, <1>5, <1>7, <1>8, <1>9

\* The blocks are no smaller than the default, and what passes the end of one
\* begins behind the end of an oversized one.
Fits(s) ==
    /\ \A b \in 1..Len(s.blocks) : s.blocks[b].size \in BlockSize..(WordSize - 1)
    /\ s.current # 0 /\ s.blocks[s.current].size = BlockSize => s.offset <= BlockSize
    /\ \A i \in 1..Len(s.live) :
          LET b == s.blocks[s.live[i].block] IN
          EndOf(s.live[i]) > b.size => b.size > BlockSize /\ s.live[i].off > b.size

LEMMA AllocatedFits ==
    ASSUME ArenaAssumption, NEW s, Packed(s), Fits(s), BlockSize < WordSize,
           NEW n \in 0..(WordSize - 1), NEW a \in Nat \ {0}, BlockSize % a = 0,
           NEW t, t = Allocated(s, n, a)
    PROVE  Fits(t)
<1>0. BlockSize \in Nat \ {0} /\ WordSize \in Nat \ {0}
  BY DEF ArenaAssumption, ArenaSizesAssumption, ArenaBoundsAssumption
<1>1. PICK m \in Nat \ {0} : m = LargerOf(n, 1) /\ m \in 1..(WordSize - 1)
  BY <1>0 DEF LargerOf
<1>2. PICK u : u = Roomy(s, m, a)
  OBVIOUS
<1>3. t = Place(u, m, a)
  BY <1>1, <1>2 DEF Allocated, Roomy
<1>4. Packed(u) /\ Extends(s, u) /\ u.live = s.live /\ u.current # 0
  BY <1>2, RoomyPacked
<1>5. /\ u \in Chains /\ u.current <= Len(u.blocks) /\ u.blocks \in Seq(BlockRecords)
      /\ u.current \in Nat /\ u.offset \in Nat /\ u.live \in Seq(Allocations)
  BY <1>4 DEF Packed, Chains
<1>6. PICK w \in Nat : /\ w = AlignUp(u.offset, a) /\ u.offset <= w
                       /\ \A p \in Nat : u.offset <= p /\ p % a = 0 => w <= p
  BY <1>5, AlignUpLeast
<1>7. /\ t \in Chains /\ t.current = u.current /\ t.blocks = u.blocks /\ t.offset = w + m
      /\ Len(t.live) = Len(u.live) + 1 /\ \A i \in 1..Len(u.live) : t.live[i] = u.live[i]
      /\ t.live[Len(t.live)] = [block |-> u.current, off |-> w, len |-> m, align |-> a]
  <2>1. u.current # 0
    BY <1>4
  <2>2. /\ t \in Chains /\ t.current = u.current /\ t.blocks = u.blocks
        /\ t.offset = AlignUp(u.offset, a) + m
        /\ Len(t.live) = Len(u.live) + 1 /\ \A i \in 1..Len(u.live) : t.live[i] = u.live[i]
        /\ t.live[Len(t.live)] =
             [block |-> u.current, off |-> AlignUp(u.offset, a), len |-> m, align |-> a]
    BY <1>3, <1>5, <2>1, PlaceFields
  <2> QED
    BY <1>6, <2>2
<1>8. Fits(u) /\ LET capacity == u.blocks[u.current].size IN w + m > capacity => capacity > BlockSize /\ w > capacity
  <2>1. CASE ~NeedsBlock(s, m, a)
    <3>1. u = s
      BY <1>2, <2>1 DEF Roomy
    <3>2. PICK capacity \in BlockSize..(WordSize - 1) : capacity = u.blocks[u.current].size
      BY <1>4, <1>5, <3>1 DEF Fits
    <3>3. ~(m > (capacity - w) % WordSize)
      BY <1>6, <2>1, <3>1, <3>2 DEF NeedsBlock, Exceeds
    <3>4. CASE w <= capacity
      <4>1. (capacity - w) % WordSize = capacity - w
        <5>1. capacity - w \in 0..(WordSize - 1)
          BY <1>0, <3>2, <3>4
        <5> QED
          BY <1>0, <5>1, RemainderSmall
      <4>2. w + m <= capacity
        BY <1>0, <3>2, <3>3, <4>1
      <4> QED
        BY <1>0, <3>1, <3>2, <4>2
    <3>5. CASE ~(w <= capacity)
      <4>1. capacity # BlockSize
        BY <1>0, <1>4, <1>6, <3>1, <3>2, <3>5 DEF Fits
      <4> QED
        BY <1>0, <3>1, <3>2, <3>5, <4>1
    <3> QED
      BY <3>4, <3>5
  <2>2. CASE NeedsBlock(s, m, a)
    <3>1. u = AddBlock(s, m, a)
      BY <1>2, <2>2 DEF Roomy
    <3>2. s \in Chains /\ s.current <= Len(s.blocks) /\ s.current \in Nat
      BY DEF Packed, Chains
    <3>3. /\ u.current = s.current + 1 /\ u.offset = 0 /\ Len(u.blocks) = u.current
          /\ \A b \in 1..s.current : u.blocks[b] = s.blocks[b]
          /\ u.blocks[u.current] = [size |-> LargerOf(m, BlockSize), align |-> LargerOf(a, BlockAlign)]
      <4>1. m \in Nat
        OBVIOUS
      <4> QED
        BY <3>1, <3>2, <4>1, AddBlockFields
    <3>4. u.blocks[u.current].size \in BlockSize..(WordSize - 1) /\ m <= u.blocks[u.current].size
      BY <1>0, <1>1, <3>3 DEF LargerOf
    <3>5. w = 0
      <4>1. 0 % a = 0
        BY RemainderSmall
      <4> QED
        BY <1>6, <3>3, <4>1
    <3>6. \A b \in 1..Len(u.blocks) : u.blocks[b].size \in BlockSize..(WordSize - 1)
      <4>1. \A b \in 1..Len(u.blocks) : b \in 1..s.current \/ b = u.current
        BY <3>2, <3>3
      <4>2. \A b \in 1..s.current : s.blocks[b].size \in BlockSize..(WordSize - 1)
        BY <3>2, PackedTypes DEF Fits
      <4> QED
        BY <3>3, <3>4, <4>1, <4>2
    <3>7. ASSUME NEW i \in 1..Len(u.live)
          PROVE  LET b == u.blocks[u.live[i].block] IN
                 EndOf(u.live[i]) > b.size => b.size > BlockSize /\ u.live[i].off > b.size
      <4>1. u.live[i] = s.live[i] /\ s.live[i].block \in 1..s.current
        BY <1>4, PackedRegion
      <4>2. u.blocks[u.live[i].block] = s.blocks[s.live[i].block]
        BY <3>3, <4>1
      <4> QED
        BY <1>4, <4>1, <4>2 DEF Fits
    <3>8. Fits(u)
      BY <1>0, <3>3, <3>6, <3>7 DEF Fits
    <3> QED
      BY <1>0, <3>4, <3>5, <3>8
  <2> QED
    BY <2>1, <2>2
<1>9. ASSUME NEW i \in 1..Len(t.live)
      PROVE  LET b == t.blocks[t.live[i].block] IN
             EndOf(t.live[i]) > b.size => b.size > BlockSize /\ t.live[i].off > b.size
  <2>1. CASE i = Len(t.live)
    BY <1>7, <1>8, <2>1, SMTT(60) DEF EndOf
  <2>2. CASE i # Len(t.live)
    <3>1. i \in 1..Len(u.live) /\ t.live[i] = u.live[i]
      BY <1>5, <1>7, <2>2, SMTT(60)
    <3> QED
      BY <1>7, <1>8, <3>1 DEF Fits
  <2> QED
    BY <2>1, <2>2
<1>10. t.blocks[t.current].size = BlockSize => t.offset <= BlockSize
  BY <1>0, <1>7, <1>8
<1> QED
  BY <1>7, <1>8, <1>9, <1>10 DEF Fits

(***************************************************************************)
(* The invariant.                                                          *)
(***************************************************************************)
MarkRecords == [block : Nat, offset : Nat, destructors : Nat, count : Nat]

\* A mark lies before the end of the chain, and before every later mark.
MarkWithin(m) ==
    /\ m.block <= current /\ (m.block = current => m.offset <= offset)
    /\ m.count <= Len(live) /\ m.destructors <= Len(pending)
MarkBefore(m, n) ==
    /\ m.block <= n.block /\ (m.block = n.block => m.offset <= n.offset)
    /\ m.count <= n.count /\ m.destructors <= n.destructors

\* It divides the registered destructors as it divides the allocations.
MarkDivides(m) ==
    \A j \in 1..Len(pending) :
        IF j <= m.destructors THEN pending[j] <= m.count ELSE pending[j] > m.count + 1

MarksNested ==
    /\ points \in Seq(MarkRecords)
    /\ \A i \in 1..Len(points) : MarkWithin(points[i]) /\ MarkDivides(points[i])
    /\ \A i, j \in 1..Len(points) : i < j => MarkBefore(points[i], points[j])

ArenaInv ==
    /\ Packed(Chain) /\ MarksNested /\ MarksSeparate
    /\ pending \in Seq(Nat) /\ StorageOutlivesObjects

LEMMA ChainTypes ==
    ASSUME Packed(Chain)
    PROVE  /\ blocks \in Seq(BlockRecords) /\ current \in 0..Len(blocks) /\ offset \in Nat
           /\ live \in Seq(Allocations)
           /\ \A i \in 1..Len(live) : /\ live[i] \in Allocations /\ live[i].block \in 1..current
                                      /\ live[i].off \in Nat /\ EndOf(live[i]) \in Nat
<1>1. /\ Chain.blocks = blocks /\ Chain.current = current /\ Chain.offset = offset
      /\ Chain.live = live
  BY DEF Chain
<1>2. \A i \in 1..Len(Chain.live) :
        /\ Chain.live[i] \in Allocations /\ Chain.live[i].block \in 1..Chain.current
        /\ Chain.live[i].off \in Nat /\ EndOf(Chain.live[i]) \in Nat
  BY PackedRegion
<1> QED
  BY <1>1, <1>2, PackedTypes

\* A chain that the arena becomes is packed when its record is.
LEMMA BecomesPacked ==
    ASSUME NEW t, Packed(t), Becomes(t)
    PROVE  Packed(Chain)'
<1>1. /\ Chain'.blocks = t.blocks /\ Chain'.current = t.current /\ Chain'.offset = t.offset
      /\ Chain'.live = t.live
  BY DEF Becomes, Chain
<1>2. Chain' \in Chains
  <2>1. /\ t.blocks \in Seq(BlockRecords) /\ t.current \in Nat /\ t.offset \in Nat
        /\ t.live \in Seq(Allocations)
    BY PackedTypes
  <2> QED
    BY <1>1, <2>1 DEF Chains, Chain
<1> QED
  BY <1>1, <1>2 DEF Packed

LEMMA ArenaInitial ==
    ASSUME ArenaAssumption, ArenaInit
    PROVE  ArenaInv
<1>1. /\ NoBlocks \in Chains /\ NoBlocks.current = 0 /\ NoBlocks.live = <<>>
      /\ NoBlocks.blocks = <<>> /\ NoBlocks.current <= Len(NoBlocks.blocks)
  BY DEF NoBlocks, Chains, Allocations
<1>2. PICK t : t = AddBlock(NoBlocks, BlockSize, DefaultAlign)
  OBVIOUS
<1>3. BlockSize \in Nat \ {0} /\ DefaultAlign \in Nat \ {0}
  BY DEF ArenaAssumption, ArenaSizesAssumption, ArenaAlignmentsAssumption
<1> HIDE DEF NoBlocks
<1>4. /\ t \in Chains /\ t.current = NoBlocks.current + 1 /\ t.live = NoBlocks.live
      /\ Len(t.blocks) = t.current /\ t.offset = 0
  <2>1. PICK s : s = NoBlocks
    OBVIOUS
  <2>2. PICK n \in Nat \ {0}, a \in Nat \ {0} : n = BlockSize /\ a = DefaultAlign
    BY <1>3
  <2>3. s \in Chains /\ s.current <= Len(s.blocks) /\ t = AddBlock(s, n, a)
    BY <1>1, <1>2, <2>1, <2>2
  <2>4. /\ t \in Chains /\ t.current = s.current + 1 /\ t.offset = 0 /\ t.live = s.live
        /\ Len(t.blocks) = t.current /\ \A b \in 1..s.current : t.blocks[b] = s.blocks[b]
        /\ t.blocks[t.current] = [size |-> LargerOf(n, BlockSize), align |-> LargerOf(a, BlockAlign)]
    BY <2>3, AddBlockFields
  <2> QED
    BY <2>1, <2>4
<1>5. t.current = 1 /\ t.live = <<>> /\ t.current <= Len(t.blocks)
  BY <1>1, <1>4
<1>6. /\ blocks = t.blocks /\ current = t.current /\ offset = t.offset /\ live = t.live
      /\ pending = <<>> /\ points = <<>>
  BY <1>2 DEF ArenaInit
<1>7. Packed(Chain)
  <2>1. /\ Chain.blocks = t.blocks /\ Chain.current = t.current /\ Chain.offset = t.offset
        /\ Chain.live = <<>>
    BY <1>5, <1>6 DEF Chain
  <2>2. t.blocks \in Seq(BlockRecords) /\ t.current \in Nat /\ t.offset \in Nat
    BY <1>4 DEF Chains
  <2>3. Chain \in Chains
    BY <1>5, <1>6, <2>2 DEF Chain, Chains
  <2> QED
    BY <1>5, <2>1, <2>3 DEF Packed
<1>8. live = <<>>
  BY <1>5, <1>6
<1> QED
  BY <1>6, <1>7, <1>8 DEF ArenaInv, MarksNested, MarksSeparate, StorageOutlivesObjects

\* What ArenaInv says of the variables.
LEMMA InvariantTypes ==
    ASSUME ArenaInv
    PROVE  /\ blocks \in Seq(BlockRecords) /\ current \in 0..Len(blocks) /\ offset \in Nat
           /\ live \in Seq(Allocations) /\ pending \in Seq(Nat) /\ points \in Seq(MarkRecords)
           /\ \A i \in 1..Len(live) : /\ live[i] \in Allocations /\ live[i].block \in 1..current
                                      /\ live[i].off \in Nat /\ EndOf(live[i]) \in Nat
           /\ \A i \in 1..Len(points) :
                /\ points[i].block \in 0..current /\ points[i].offset \in Nat
                /\ points[i].block = current => points[i].offset <= offset
                /\ points[i].count \in 0..Len(live)
                /\ points[i].destructors \in 0..Len(pending)
           /\ \A i \in 1..Len(pending) : pending[i] \in 2..Len(live)
<1>1. /\ Packed(Chain) /\ pending \in Seq(Nat) /\ points \in Seq(MarkRecords)
      /\ \A i \in 1..Len(pending) : pending[i] \in 2..Len(live)
  BY DEF ArenaInv, MarksNested, StorageOutlivesObjects
<1>2. ASSUME NEW i \in 1..Len(points)
      PROVE  /\ points[i].block \in 0..current /\ points[i].offset \in Nat
             /\ points[i].block = current => points[i].offset <= offset
             /\ points[i].count \in 0..Len(live)
             /\ points[i].destructors \in 0..Len(pending)
  <2>1. points[i] \in MarkRecords /\ MarkWithin(points[i])
    BY <1>1 DEF ArenaInv, MarksNested
  <2>2. /\ points[i].block \in Nat /\ points[i].offset \in Nat /\ points[i].count \in Nat
        /\ points[i].destructors \in Nat
    BY <2>1 DEF MarkRecords
  <2>3. current \in Nat /\ Len(live) \in Nat /\ Len(pending) \in Nat
    BY <1>1, ChainTypes
  <2> QED
    BY <2>1, <2>2, <2>3 DEF MarkWithin
<1> QED
  BY <1>1, <1>2, ChainTypes

\* What comes behind the end of the chain comes behind every mark.
LEMMA GrowthKeepsMarks ==
    ASSUME ArenaInv, NEW t, Packed(t), Extends(Chain, t), Becomes(t), UNCHANGED points,
           \/ UNCHANGED pending
           \/ /\ pending' = Append(pending, Len(t.live)) /\ Len(t.live) >= Len(live) + 2
    PROVE  ArenaInv'
<1>1. /\ blocks \in Seq(BlockRecords) /\ current \in 0..Len(blocks) /\ offset \in Nat
      /\ live \in Seq(Allocations) /\ pending \in Seq(Nat) /\ points \in Seq(MarkRecords)
      /\ \A i \in 1..Len(live) : /\ live[i] \in Allocations /\ live[i].block \in 1..current
                                 /\ live[i].off \in Nat /\ EndOf(live[i]) \in Nat
  BY InvariantTypes
<1>2. /\ current <= current' /\ (current' = current => offset <= offset')
      /\ Len(live) <= Len(live') /\ \A i \in 1..Len(live) : live'[i] = live[i]
      /\ \A i \in (Len(live) + 1)..Len(live') :
            live'[i].block > current \/ (live'[i].block = current /\ live'[i].off >= offset)
  BY DEF Becomes, Chain, Extends
<1>3. /\ current' \in Nat /\ offset' \in Nat /\ live' \in Seq(Allocations) /\ Len(t.live) = Len(live')
      /\ Len(live') \in Nat /\ points' = points
      /\ \A j \in 1..Len(live') : live'[j].block \in Nat /\ live'[j].off \in Nat
  <2>1. \A j \in 1..Len(t.live) : t.live[j].block \in 1..t.current /\ t.live[j].off \in Nat
    BY PackedRegion
  <2>2. t.current \in Nat
    BY PackedTypes
  <2>3. \A j \in 1..Len(t.live) : t.live[j].block \in Nat /\ t.live[j].off \in Nat
    BY <2>1, <2>2
  <2> QED
    BY <2>3, PackedTypes DEF Becomes
<1>4. ASSUME NEW i \in 1..Len(points)
      PROVE  /\ points[i].block \in 0..current /\ points[i].offset \in Nat
             /\ points[i].block = current => points[i].offset <= offset
             /\ points[i].count \in 0..Len(live)
             /\ points[i].destructors \in 0..Len(pending)
  BY InvariantTypes
<1>5. pending' \in Seq(Nat) /\ Len(pending) <= Len(pending')
  <2>1. CASE UNCHANGED pending
    BY <1>1, <2>1
  <2>2. CASE pending' = Append(pending, Len(t.live))
    <3>1. PICK n \in Nat : n = Len(t.live)
      BY <1>3
    <3>2. pending' = Append(pending, n)
      BY <2>2, <3>1
    <3> QED
      BY <1>1, <3>2
  <2> QED
    BY <2>1, <2>2
<1>6. \A j \in 1..Len(pending') :
        \/ j \in 1..Len(pending) /\ pending'[j] = pending[j]
        \/ /\ j = Len(pending) + 1 /\ pending'[j] = Len(live')
           /\ Len(live') >= Len(live) + 2 /\ j = Len(pending')
  <2>1. CASE UNCHANGED pending
    BY <2>1
  <2>2. CASE pending' = Append(pending, Len(t.live)) /\ Len(t.live) >= Len(live) + 2
    BY <1>1, <1>3, <2>2
  <2> QED
    BY <2>1, <2>2
<1>7. MarksSeparate'
  <2> SUFFICES ASSUME NEW i \in 1..Len(points), NEW j \in 1..Len(live')
               PROVE  LET m == points[i] IN
                      IF j <= m.count
                        THEN \/ live'[j].block < m.block
                             \/ live'[j].block = m.block /\ EndOf(live'[j]) <= m.offset
                        ELSE \/ live'[j].block > m.block
                             \/ live'[j].block = m.block /\ live'[j].off >= m.offset
    BY DEF MarksSeparate
  <2>1. CASE j <= Len(live)
    <3>1. j \in 1..Len(live) /\ live'[j] = live[j]
      BY <1>1, <1>2, <2>1
    <3> QED
      BY <3>1 DEF ArenaInv, MarksSeparate
  <2>2. CASE ~(j <= Len(live))
    <3>1. live'[j].block > current \/ (live'[j].block = current /\ live'[j].off >= offset)
      <4>1. Len(live) \in Nat
        BY <1>1
      <4>2. j \in (Len(live) + 1)..Len(live')
        BY <1>3, <2>2, <4>1
      <4> QED
        BY <1>2, <4>2
    <3>2. ~(j <= points[i].count)
      <4>1. PICK l \in Nat : l = Len(live)
        BY <1>1
      <4>2. points[i].count \in 0..l
        BY <1>4, <4>1
      <4>3. j \in Nat /\ ~(j <= l)
        BY <1>3, <2>2, <4>1
      <4> QED
        BY <4>1, <4>2, <4>3
    <3>3. live'[j].block \in Nat /\ live'[j].off \in Nat
      BY <1>3
    <3>4. /\ points[i].block \in Nat /\ points[i].offset \in Nat /\ points[i].block <= current
          /\ points[i].block = current => points[i].offset <= offset
      BY <1>1, <1>4
    <3>5. \/ live'[j].block > points[i].block
          \/ live'[j].block = points[i].block /\ live'[j].off >= points[i].offset
      BY <1>1, <3>1, <3>3, <3>4, SMTT(60)
    <3> QED
      BY <3>2, <3>5
  <2> QED
    BY <2>1, <2>2
<1>8. StorageOutlivesObjects'
  <2>1. \A j \in 1..Len(pending) : pending[j] \in 2..Len(live)
    BY InvariantTypes
  <2>2. \A j \in 1..Len(pending') : pending'[j] \in 2..Len(live')
    <3>1. Len(live) \in Nat /\ Len(pending) \in Nat
      BY <1>1
    <3>2. \A n \in 2..Len(live) : n \in 2..Len(live')
      BY <1>2, <1>3, <3>1
    <3>3. Len(live') >= Len(live) + 2 => Len(live') \in 2..Len(live')
      BY <1>3, <3>1
    <3> QED
      BY <1>6, <2>1, <3>2, <3>3
  <2>3. ASSUME NEW i \in 1..Len(pending'), NEW j \in 1..Len(pending'), i < j
        PROVE  pending'[i] < pending'[j] - 1
    <3>1. i \in 1..Len(pending) /\ pending'[i] = pending[i]
      BY <1>1, <1>5, <1>6, <2>3
    <3>2. CASE j \in 1..Len(pending) /\ pending'[j] = pending[j]
      BY <2>3, <3>1, <3>2 DEF ArenaInv, StorageOutlivesObjects
    <3>3. CASE pending'[j] = Len(live') /\ Len(live') >= Len(live) + 2
      BY <1>1, <1>3, <2>1, <3>1, <3>3, SMTT(60)
    <3> QED
      BY <1>6, <3>2, <3>3
  <2> QED
    BY <2>2, <2>3 DEF StorageOutlivesObjects
<1>9. ASSUME NEW i \in 1..Len(points)
      PROVE  MarkWithin(points[i])' /\ MarkDivides(points[i])'
  <2>1. MarkWithin(points[i])'
    <3>1. /\ points[i].block \in Nat /\ points[i].block <= current /\ points[i].offset \in Nat
          /\ points[i].block = current => points[i].offset <= offset
          /\ points[i].count \in Nat /\ points[i].count <= Len(live)
          /\ points[i].destructors \in Nat /\ points[i].destructors <= Len(pending)
      BY <1>1, <1>4
    <3>2. points[i].block <= current' /\ (points[i].block = current' => points[i].offset <= offset')
      BY <1>1, <1>2, <1>3, <3>1, SMTT(30)
    <3>3. Len(live) \in Nat /\ Len(pending) \in Nat /\ Len(pending') \in Nat
      BY <1>1, <1>5
    <3>4. points[i].count <= Len(live') /\ points[i].destructors <= Len(pending')
      BY <1>2, <1>3, <1>5, <3>1, <3>3
    <3> QED
      BY <1>3, <3>2, <3>4 DEF MarkWithin
  <2>2. MarkDivides(points[i])
    BY DEF ArenaInv, MarksNested
  <2>3. ASSUME NEW j \in 1..Len(pending')
        PROVE  IF j <= points[i].destructors THEN pending'[j] <= points[i].count
                                             ELSE pending'[j] > points[i].count + 1
    <3>1. CASE j \in 1..Len(pending) /\ pending'[j] = pending[j]
      BY <2>2, <3>1 DEF MarkDivides
    <3>2. CASE /\ j = Len(pending) + 1 /\ pending'[j] = Len(live') /\ Len(live') >= Len(live) + 2
      <4>1. /\ points[i].destructors \in Nat /\ points[i].destructors <= Len(pending)
            /\ points[i].count \in Nat /\ points[i].count <= Len(live)
        BY <1>1, <1>4
      <4>2. Len(pending) \in Nat /\ Len(live) \in Nat /\ Len(live') \in Nat
        BY <1>1, <1>3
      <4>3. ~(j <= points[i].destructors) /\ pending'[j] > points[i].count + 1
        BY <3>2, <4>1, <4>2, SMTT(30)
      <4> QED
        BY <4>3
    <3> QED
      BY <1>6, <3>1, <3>2
  <2>4. MarkDivides(points[i])'
    BY <2>3 DEF MarkDivides
  <2> QED
    BY <2>1, <2>4
<1>10. MarksNested'
  BY <1>9 DEF ArenaInv, MarksNested, MarkBefore
<1> QED
  BY <1>5, <1>7, <1>8, <1>10, BecomesPacked DEF ArenaInv

LEMMA ExtendsTransitive ==
    ASSUME NEW s, NEW t, NEW u, Packed(s), Packed(t), Packed(u), Extends(s, t), Extends(t, u)
    PROVE  Extends(s, u)
<1>1. /\ s.current \in Nat /\ t.current \in Nat /\ u.current \in Nat
      /\ s.offset \in Nat /\ t.offset \in Nat /\ u.offset \in Nat
      /\ Len(s.live) \in Nat /\ Len(t.live) \in Nat /\ Len(u.live) \in Nat
  BY PackedTypes
<1>2. /\ s.current <= u.current /\ (u.current = s.current => s.offset <= u.offset)
      /\ Len(s.live) <= Len(u.live)
  BY <1>1 DEF Extends
<1>3. /\ \A i \in 1..Len(s.live) : u.live[i] = s.live[i]
      /\ \A b \in 1..s.current : u.blocks[b] = s.blocks[b]
  BY <1>1 DEF Extends
<1>4. ASSUME NEW i \in (Len(s.live) + 1)..Len(u.live)
      PROVE  u.live[i].block > s.current \/ (u.live[i].block = s.current /\ u.live[i].off >= s.offset)
  <2>1. i \in 1..Len(u.live)
    BY <1>1
  <2>2. PICK b \in Nat, o \in Nat : b = u.live[i].block /\ o = u.live[i].off
    <3>1. u.live[i].block \in 1..u.current /\ u.live[i].off \in Nat
      BY <2>1, PackedRegion
    <3>2. u.live[i].block \in Nat
      BY <1>1, <3>1
    <3> QED
      BY <3>1, <3>2
  <2>3. CASE i <= Len(t.live)
    <3>1. i \in 1..Len(t.live) /\ i \in (Len(s.live) + 1)..Len(t.live)
      BY <1>1, <2>3
    <3>2. u.live[i] = t.live[i]
      BY <3>1 DEF Extends
    <3> QED
      BY <3>1, <3>2 DEF Extends
  <2>4. CASE ~(i <= Len(t.live))
    <3>1. i \in (Len(t.live) + 1)..Len(u.live)
      BY <1>1, <2>4
    <3>2. b > t.current \/ (b = t.current /\ o >= t.offset)
      BY <2>2, <3>1 DEF Extends
    <3>3. s.current <= t.current /\ (t.current = s.current => s.offset <= t.offset)
      BY DEF Extends
    <3>4. b > s.current \/ (b = s.current /\ o >= s.offset)
      BY <1>1, <3>2, <3>3
    <3> QED
      BY <2>2, <3>4
  <2> QED
    BY <2>3, <2>4
<1> QED
  BY <1>2, <1>3, <1>4 DEF Extends

LEMMA AllocStep ==
    ASSUME ArenaAssumption, ArenaInv, NEW n \in Sizes, NEW a \in ArenaAlignments, Alloc(n, a)
    PROVE  ArenaInv'
<1>1. n \in Nat /\ a \in Nat \ {0}
  BY DEF ArenaAssumption, ArenaSizesAssumption, ArenaAlignmentsAssumption
<1>2. PICK t : t = Allocated(Chain, n, a)
  OBVIOUS
<1>3. Packed(Chain)
  BY DEF ArenaInv
<1>4. PICK s : s = Chain
  OBVIOUS
<1>5. Packed(t) /\ Extends(s, t)
  <2>1. Packed(s) /\ t = Allocated(s, n, a)
    BY <1>2, <1>3, <1>4
  <2> QED
    BY <1>1, <2>1, AllocatedPacked
<1>6. Becomes(t) /\ UNCHANGED <<pending, points>>
  BY <1>2 DEF Alloc
<1> QED
  BY <1>4, <1>5, <1>6, GrowthKeepsMarks

LEMMA MakeStep ==
    ASSUME ArenaAssumption, ArenaInv, NEW n \in Sizes, NEW a \in ArenaAlignments, Make(n, a)
    PROVE  ArenaInv'
<1>1. n \in Nat /\ a \in Nat \ {0} /\ EntrySize \in Nat /\ EntryAlign \in Nat \ {0}
  BY DEF ArenaAssumption, ArenaSizesAssumption, ArenaAlignmentsAssumption
<1>2. PICK s, e, f : s = Chain /\ e = EntrySize /\ f = EntryAlign
  OBVIOUS
<1>3. PICK u : u = Allocated(s, e, f)
  OBVIOUS
<1>4. PICK t : t = Allocated(u, n, a)
  OBVIOUS
<1>5. Packed(s) /\ e \in Nat /\ f \in Nat \ {0}
  BY <1>1, <1>2 DEF ArenaInv
<1>6. Packed(u) /\ Extends(s, u) /\ Len(u.live) = Len(s.live) + 1
  BY <1>3, <1>5, AllocatedPacked
<1>7. Packed(t) /\ Extends(u, t) /\ Len(t.live) = Len(u.live) + 1
  BY <1>1, <1>4, <1>6, AllocatedPacked
<1>8. Extends(s, t)
  BY <1>5, <1>6, <1>7, ExtendsTransitive
<1>9. Becomes(t) /\ pending' = Append(pending, Len(t.live)) /\ UNCHANGED points
  BY <1>2, <1>3, <1>4 DEF Make
<1>10. Len(t.live) >= Len(live) + 2
  <2>1. Len(s.live) \in Nat /\ s.live = live
    BY <1>2, <1>5, PackedTypes DEF Chain
  <2> QED
    BY <1>6, <1>7, <2>1
<1> QED
  BY <1>2, <1>7, <1>8, <1>9, <1>10, GrowthKeepsMarks

\* clear() and reset() empty the chain.
LEMMA EmptyingStep ==
    ASSUME ArenaInv, ArenaClear \/ Reset
    PROVE  ArenaInv'
<1>1. /\ live' = <<>> /\ pending' = <<>> /\ points' = <<>>
      /\ blocks' \in Seq(BlockRecords) /\ current' \in 0..Len(blocks') /\ offset' = 0
  <2>1. CASE ArenaClear
    BY <2>1 DEF ArenaClear
  <2>2. CASE Reset
    <3>1. blocks \in Seq(BlockRecords)
      BY InvariantTypes
    <3>2. blocks # <<>> => 1 \in 0..Len(blocks)
      BY <3>1
    <3> QED
      BY <2>2, <3>1, <3>2 DEF Reset
  <2> QED
    BY <2>1, <2>2
<1>2. Packed(Chain)'
  <2>1. Chain' \in Chains
    BY <1>1 DEF Chain, Chains
  <2> QED
    BY <1>1, <2>1 DEF Chain, Packed
<1> QED
  BY <1>1, <1>2 DEF ArenaInv, MarksNested, MarksSeparate, StorageOutlivesObjects

\* A new mark lies behind all allocations, all destructors and all other marks.
LEMMA MarkStep ==
    ASSUME ArenaInv, Mark
    PROVE  ArenaInv'
<1>1. /\ blocks \in Seq(BlockRecords) /\ current \in Nat /\ offset \in Nat
      /\ live \in Seq(Allocations) /\ pending \in Seq(Nat) /\ points \in Seq(MarkRecords)
      /\ Len(live) \in Nat /\ Len(pending) \in Nat
  BY InvariantTypes
<1>2. PICK m : m = [block |-> current, offset |-> offset, destructors |-> Len(pending),
                    count |-> Len(live)]
  OBVIOUS
<1>3. UNCHANGED <<blocks, current, offset, live, pending>> /\ points' = Append(points, m)
  BY <1>2 DEF Mark
<1>4. /\ m.block = current /\ m.offset = offset /\ m.count = Len(live)
      /\ m.destructors = Len(pending) /\ m \in MarkRecords
  BY <1>1, <1>2 DEF MarkRecords
<1>5. /\ points' \in Seq(MarkRecords) /\ Len(points') = Len(points) + 1
      /\ \A i \in 1..Len(points') : \/ i \in 1..Len(points) /\ points'[i] = points[i]
                                    \/ i = Len(points') /\ points'[i] = m
  BY <1>1, <1>3, <1>4
<1>6. Packed(Chain)' /\ pending' \in Seq(Nat) /\ StorageOutlivesObjects'
  BY <1>1, <1>3 DEF ArenaInv, Chain, StorageOutlivesObjects
<1>7. MarksSeparate'
  <2> SUFFICES ASSUME NEW i \in 1..Len(points'), NEW j \in 1..Len(live)
               PROVE  IF j <= points'[i].count
                        THEN \/ live[j].block < points'[i].block
                             \/ live[j].block = points'[i].block /\ EndOf(live[j]) <= points'[i].offset
                        ELSE \/ live[j].block > points'[i].block
                             \/ live[j].block = points'[i].block /\ live[j].off >= points'[i].offset
    BY <1>3 DEF MarksSeparate
  <2>1. CASE i \in 1..Len(points) /\ points'[i] = points[i]
    BY <2>1 DEF ArenaInv, MarksSeparate
  <2>2. CASE points'[i] = m
    <3>1. live[j].block \in 1..current /\ j <= Len(live)
      BY <1>1, InvariantTypes
    <3>2. live[j].block = current => EndOf(live[j]) <= offset
      BY DEF ArenaInv, Packed, Chain
    <3> QED
      BY <1>1, <1>4, <2>2, <3>1, <3>2
  <2> QED
    BY <1>5, <2>1, <2>2
<1>8. MarksNested'
  <2>1. ASSUME NEW i \in 1..Len(points')
        PROVE  MarkWithin(points[i])' /\ MarkDivides(points[i])'
    <3>1. CASE i \in 1..Len(points) /\ points'[i] = points[i]
      BY <1>3, <3>1 DEF ArenaInv, MarksNested, MarkWithin, MarkDivides
    <3>2. CASE points'[i] = m
      <4>1. MarkWithin(points[i])'
        BY <1>1, <1>3, <1>4, <3>2 DEF MarkWithin
      <4>2. ASSUME NEW j \in 1..Len(pending)
            PROVE  j <= Len(pending) /\ pending[j] <= Len(live)
        BY <1>1, InvariantTypes
      <4>3. MarkDivides(points[i])'
        BY <1>3, <1>4, <3>2, <4>2 DEF MarkDivides
      <4> QED
        BY <4>1, <4>3
    <3> QED
      BY <1>5, <3>1, <3>2
  <2>2. ASSUME NEW i \in 1..Len(points'), NEW j \in 1..Len(points'), i < j
        PROVE  MarkBefore(points'[i], points'[j])
    <3>1. i \in 1..Len(points) /\ points'[i] = points[i]
      BY <1>1, <1>5, <2>2
    <3>2. CASE j \in 1..Len(points) /\ points'[j] = points[j]
      BY <2>2, <3>1, <3>2 DEF ArenaInv, MarksNested
    <3>3. CASE points'[j] = m
      BY <1>4, <3>1, <3>3 DEF ArenaInv, MarksNested, MarkWithin, MarkBefore
    <3> QED
      BY <1>5, <3>2, <3>3
  <2> QED
    BY <1>5, <2>1, <2>2 DEF MarksNested
<1> QED
  BY <1>6, <1>7, <1>8 DEF ArenaInv

LEMMA Prefix ==
    ASSUME NEW S, NEW q \in Seq(S), NEW n \in 0..Len(q), NEW p, p = SubSeq(q, 1, n)
    PROVE  /\ p \in Seq(S) /\ Len(p) = n
           /\ \A i \in 1..n : i \in 1..Len(q) /\ p[i] = q[i]
  OBVIOUS

\* A sequence without its element i.
LEMMA Without ==
    ASSUME NEW S, NEW q \in Seq(S), NEW i \in 1..Len(q),
           NEW p, p = SubSeq(q, 1, i - 1) \o SubSeq(q, i + 1, Len(q))
    PROVE  /\ p \in Seq(S) /\ Len(p) = Len(q) - 1
           /\ \A k \in 1..Len(p) : p[k] = q[IF k < i THEN k ELSE k + 1]
<1>1. PICK l \in Nat, h \in Nat, j \in Nat : l = Len(q) /\ h = i - 1 /\ j = i + 1
  OBVIOUS
<1>2. PICK f, g : f = SubSeq(q, 1, h) /\ g = SubSeq(q, j, l)
  OBVIOUS
<1>3. f \in Seq(S) /\ Len(f) = h /\ \A k \in 1..h : f[k] = q[k]
  <2>1. h \in 0..Len(q)
    BY <1>1
  <2> QED
    BY <1>2, <2>1, Prefix
<1>4. /\ g \in Seq(S) /\ Len(g) = IF j <= l THEN l - j + 1 ELSE 0
      /\ \A k \in 1..(l - j + 1) : g[k] = q[j + k - 1]
  <2>1. \A k \in j..l : q[k] \in S
    BY <1>1
  <2> QED
    BY <1>2, <2>1, SubSeqProperties
<1>5. i \in Nat /\ 1 <= i /\ i <= l /\ h = i - 1 /\ j = i + 1 /\ Len(g) = l - i
  BY <1>1, <1>4
<1>6. /\ p \in Seq(S) /\ Len(p) = h + (l - i)
      /\ \A k \in 1..(h + (l - i)) : p[k] = IF k <= h THEN f[k] ELSE g[k - h]
  <2>1. p = f \o g
    BY <1>1, <1>2
  <2>2. /\ f \o g \in Seq(S) /\ Len(f \o g) = Len(f) + Len(g)
        /\ \A k \in 1..(Len(f) + Len(g)) :
              (f \o g)[k] = IF k <= Len(f) THEN f[k] ELSE g[k - Len(f)]
    BY <1>3, <1>4, ConcatProperties, Zenon
  <2> QED
    BY <1>3, <1>5, <2>1, <2>2, Zenon
<1>7. h + (l - i) = l - 1
  BY <1>1, <1>5
<1>8. ASSUME NEW k \in 1..(l - 1)
      PROVE  p[k] = q[IF k < i THEN k ELSE k + 1]
  <2>1. p[k] = IF k <= h THEN f[k] ELSE g[k - h]
    BY <1>6, <1>7
  <2>2. CASE k < i
    <3>1. k \in 1..h /\ k <= h
      BY <1>1, <1>5, <2>2
    <3> QED
      BY <1>3, <2>1, <2>2, <3>1
  <2>3. CASE ~(k < i)
    <3>1. k - h \in 1..(l - j + 1) /\ j + (k - h) - 1 = k + 1 /\ ~(k <= h)
      BY <1>1, <1>5, <2>3
    <3> QED
      BY <1>4, <2>1, <2>3, <3>1
  <2> QED
    BY <2>2, <2>3
<1> QED
  BY <1>1, <1>6, <1>7, <1>8

\* What a mark restores is the chain as it was: packed, with the objects of the
\* destructors that stay registered, and behind all marks further out.
LEMMA RollbackStep ==
    ASSUME ArenaInv, Rollback
    PROVE  ArenaInv'
<1>1. /\ blocks \in Seq(BlockRecords) /\ current \in 0..Len(blocks) /\ offset \in Nat
      /\ live \in Seq(Allocations) /\ pending \in Seq(Nat) /\ points \in Seq(MarkRecords)
      /\ Len(live) \in Nat /\ Len(pending) \in Nat /\ Len(points) \in Nat \ {0}
  BY InvariantTypes DEF Rollback
<1>2. PICK m \in MarkRecords : m = points[Len(points)]
  BY <1>1
<1>3. /\ m.block \in 0..Len(blocks) /\ m.offset \in Nat /\ m.count \in 0..Len(live)
      /\ m.destructors \in 0..Len(pending)
  <2>1. Len(points) \in 1..Len(points)
    BY <1>1
  <2> QED
    BY <1>1, <1>2, <2>1, InvariantTypes
<1>4. /\ pending' = SubSeq(pending, 1, m.destructors) /\ blocks' = SubSeq(blocks, 1, m.block)
      /\ current' = m.block /\ offset' = m.offset /\ live' = SubSeq(live, 1, m.count)
      /\ points' = SubSeq(points, 1, Len(points) - 1)
  BY <1>2 DEF Rollback
<1>5. /\ pending' \in Seq(Nat) /\ Len(pending') = m.destructors
      /\ \A i \in 1..m.destructors : i \in 1..Len(pending) /\ pending'[i] = pending[i]
  <2>1. PICK d \in 0..Len(pending) : d = m.destructors
    BY <1>3
  <2>2. pending' = SubSeq(pending, 1, d)
    BY <1>4, <2>1
  <2>3. pending \in Seq(Nat)
    BY <1>1
  <2>4. /\ pending' \in Seq(Nat) /\ Len(pending') = d
        /\ \A i \in 1..d : i \in 1..Len(pending) /\ pending'[i] = pending[i]
    BY <2>2, <2>3, Prefix
  <2> QED
    BY <2>1, <2>4
<1>6. /\ blocks' \in Seq(BlockRecords) /\ Len(blocks') = m.block
      /\ \A i \in 1..m.block : i \in 1..Len(blocks) /\ blocks'[i] = blocks[i]
  <2>1. PICK d \in 0..Len(blocks) : d = m.block
    BY <1>3
  <2>2. blocks \in Seq(BlockRecords) /\ blocks' = SubSeq(blocks, 1, d)
    BY <1>1, <1>4, <2>1
  <2>3. /\ blocks' \in Seq(BlockRecords) /\ Len(blocks') = d
        /\ \A i \in 1..d : i \in 1..Len(blocks) /\ blocks'[i] = blocks[i]
    BY <2>2, Prefix
  <2> QED
    BY <2>1, <2>3
<1>7. /\ live' \in Seq(Allocations) /\ Len(live') = m.count
      /\ \A i \in 1..m.count : i \in 1..Len(live) /\ live'[i] = live[i]
  <2>1. PICK d \in 0..Len(live) : d = m.count
    BY <1>3
  <2>2. live \in Seq(Allocations) /\ live' = SubSeq(live, 1, d)
    BY <1>1, <1>4, <2>1
  <2>3. /\ live' \in Seq(Allocations) /\ Len(live') = d
        /\ \A i \in 1..d : i \in 1..Len(live) /\ live'[i] = live[i]
    BY <2>2, Prefix
  <2> QED
    BY <2>1, <2>3
<1>8. /\ points' \in Seq(MarkRecords) /\ Len(points') = Len(points) - 1
      /\ \A i \in 1..Len(points') : i \in 1..(Len(points) - 1) /\ i \in 1..Len(points)
                                    /\ points'[i] = points[i]
  <2>1. PICK l \in Nat \ {0} : l = Len(points)
    BY <1>1
  <2>2. PICK n \in 0..Len(points) : n = l - 1
    BY <2>1
  <2>3. points' = SubSeq(points, 1, n) /\ points \in Seq(MarkRecords)
    BY <1>1, <1>4, <2>1, <2>2
  <2>4. /\ points' \in Seq(MarkRecords) /\ Len(points') = n
        /\ \A i \in 1..n : i \in 1..Len(points) /\ points'[i] = points[i]
    BY <2>3, Prefix
  <2> QED
    BY <2>1, <2>2, <2>4
<1>9. Packed(Chain)'
  <2>1. Chain' \in Chains
    BY <1>1, <1>3, <1>4, <1>6, <1>7 DEF Chain, Chains
  <2>2. ASSUME NEW i \in 1..m.count
        PROVE  /\ live[i].block <= m.block
               /\ live[i].block = m.block => EndOf(live[i]) <= m.offset
               /\ live[i].off % live[i].align = 0
               /\ live[i].align <= blocks'[live[i].block].align
    <3>1. PICK b \in 1..current : i \in 1..Len(live) /\ b = live[i].block
      BY <1>7, InvariantTypes
    <3>2. i <= m.count
      BY <1>1, <1>3
    <3>3. b < m.block \/ (b = m.block /\ EndOf(live[i]) <= m.offset)
      <4>1. Len(points) \in 1..Len(points)
        BY <1>1
      <4> QED
        BY <1>2, <3>1, <3>2, <4>1 DEF ArenaInv, MarksSeparate
    <3>4. blocks'[b] = blocks[b]
      <4>1. current \in Nat /\ m.block \in Nat
        BY <1>1, <1>2 DEF MarkRecords
      <4>2. b \in 1..m.block
        BY <3>1, <3>3, <4>1
      <4> QED
        BY <1>6, <4>2
    <3>5. live[i].off % live[i].align = 0 /\ live[i].align <= blocks[b].align
      BY <3>1 DEF ArenaInv, Packed, Chain
    <3> QED
      BY <1>1, <1>3, <3>1, <3>3, <3>4, <3>5
  <2>3. \A i, j \in 1..m.count : i < j => Precedes(live[i], live[j])
    BY <1>7 DEF ArenaInv, Packed, Chain
  <2>4. m.block <= Len(blocks')
    BY <1>3, <1>6
  <2> QED
    BY <1>4, <1>7, <2>1, <2>2, <2>3, <2>4, ZenonT(60) DEF Packed, Chain
<1>10. ASSUME NEW j \in 1..m.destructors
       PROVE  pending[j] \in 2..m.count
  <2>1. pending[j] \in 2..Len(live) /\ j \in 1..Len(pending) /\ j <= m.destructors
    BY <1>3, <1>5, InvariantTypes, SMTT(60)
  <2>2. MarkDivides(m)
    BY <1>1, <1>2 DEF ArenaInv, MarksNested
  <2>3. pending[j] <= m.count
    BY <2>1, <2>2 DEF MarkDivides
  <2> QED
    BY <1>1, <1>3, <2>1, <2>3
<1>11. StorageOutlivesObjects'
  BY <1>5, <1>7, <1>10 DEF ArenaInv, StorageOutlivesObjects
<1>12. MarksSeparate'
  BY <1>7, <1>8, ZenonT(60) DEF ArenaInv, MarksSeparate
<1>13. MarksNested'
  <2>1. ASSUME NEW i \in 1..Len(points')
        PROVE  MarkWithin(points[i])' /\ MarkDivides(points[i])'
    <3>1. i \in 1..Len(points) /\ i < Len(points) /\ points'[i] = points[i]
      <4>1. PICK l \in Nat : l = Len(points)
        BY <1>1
      <4>2. i \in 1..(l - 1) /\ points'[i] = points[i]
        BY <1>8, <4>1
      <4> QED
        BY <4>1, <4>2
    <3>2. MarkBefore(points[i], m) /\ MarkDivides(points[i])
      BY <1>1, <1>2, <3>1 DEF ArenaInv, MarksNested
    <3>3. MarkWithin(points[i])'
      BY <1>4, <1>5, <1>7, <3>1, <3>2 DEF MarkWithin, MarkBefore
    <3>4. MarkDivides(points[i])'
      BY <1>5, <3>1, <3>2 DEF MarkDivides
    <3> QED
      BY <3>3, <3>4
  <2>2. \A i, j \in 1..Len(points') : i < j => MarkBefore(points'[i], points'[j])
    BY <1>8 DEF ArenaInv, MarksNested
  <2> QED
    BY <1>8, <2>1, <2>2 DEF MarksNested
<1> QED
  BY <1>5, <1>9, <1>11, <1>12, <1>13 DEF ArenaInv

\* The marks that stay are marks that were there, in the same order.
LEMMA ReleaseStep ==
    ASSUME ArenaInv, NEW i \in 1..Len(points), Release(i)
    PROVE  ArenaInv'
<1> DEFINE old(k) == IF k < i THEN k ELSE k + 1
<1>1. points \in Seq(MarkRecords) /\ Len(points) \in Nat /\ i \in Nat \ {0} /\ i <= Len(points)
  BY InvariantTypes
<1>2. /\ UNCHANGED <<blocks, current, offset, live, pending>>
      /\ points' = SubSeq(points, 1, i - 1) \o SubSeq(points, i + 1, Len(points))
  BY DEF Release
<1>3. /\ points' \in Seq(MarkRecords) /\ Len(points') = Len(points) - 1
      /\ \A k \in 1..Len(points') : points'[k] = points[old(k)]
  <2>1. PICK p : p = points'
    OBVIOUS
  <2>2. /\ p \in Seq(MarkRecords) /\ Len(p) = Len(points) - 1
        /\ \A k \in 1..Len(p) : p[k] = points[IF k < i THEN k ELSE k + 1]
    <3>1. PICK q \in Seq(MarkRecords) : q = points
      BY <1>1
    <3>2. i \in 1..Len(q) /\ p = SubSeq(q, 1, i - 1) \o SubSeq(q, i + 1, Len(q))
      BY <1>1, <1>2, <2>1, <3>1
    <3>3. /\ p \in Seq(MarkRecords) /\ Len(p) = Len(q) - 1
          /\ \A k \in 1..Len(p) : p[k] = q[IF k < i THEN k ELSE k + 1]
      BY <3>2, Without, ZenonT(60)
    <3> QED
      BY <3>1, <3>3
  <2> QED
    BY <2>1, <2>2
<1>4. \A k \in 1..Len(points') : old(k) \in 1..Len(points)
  BY <1>1, <1>3
<1>5. \A k, l \in 1..Len(points') : k < l => old(k) < old(l)
  BY <1>1, <1>3
<1> HIDE DEF old
<1>6. Packed(Chain)' /\ pending' \in Seq(Nat) /\ StorageOutlivesObjects'
  BY <1>2 DEF ArenaInv, Chain, StorageOutlivesObjects
<1>7. MarksSeparate'
  <2>1. ASSUME NEW k \in 1..Len(points'), NEW j \in 1..Len(live)
        PROVE  LET m == points[old(k)] IN
               IF j <= m.count
                 THEN live[j].block < m.block \/ (live[j].block = m.block /\ EndOf(live[j]) <= m.offset)
                 ELSE live[j].block > m.block \/ (live[j].block = m.block /\ live[j].off >= m.offset)
    BY <1>4 DEF ArenaInv, MarksSeparate
  <2>2. live' = live /\ \A k \in 1..Len(points') : points'[k] = points[old(k)]
    BY <1>2, <1>3
  <2> SUFFICES ASSUME NEW k \in 1..Len(points'), NEW j \in 1..Len(live)
               PROVE  LET m == points'[k] IN
                      IF j <= m.count
                        THEN live[j].block < m.block \/ (live[j].block = m.block /\ EndOf(live[j]) <= m.offset)
                        ELSE live[j].block > m.block \/ (live[j].block = m.block /\ live[j].off >= m.offset)
    BY <2>2 DEF MarksSeparate
  <2>3. points'[k] = points[old(k)]
    BY <2>2
  <2> QED
    BY <2>1, <2>3
<1>8. MarksNested'
  <2>1. ASSUME NEW k \in 1..Len(points')
        PROVE  MarkWithin(points[k])' /\ MarkDivides(points[k])'
    <3>1. MarkWithin(points[old(k)]) /\ MarkDivides(points[old(k)])
      BY <1>4 DEF ArenaInv, MarksNested
    <3> QED
      BY <1>2, <1>3, <3>1 DEF MarkWithin, MarkDivides
  <2>2. \A k, l \in 1..Len(points') : k < l => MarkBefore(points'[k], points'[l])
    BY <1>3, <1>4, <1>5 DEF ArenaInv, MarksNested
  <2> QED
    BY <1>3, <2>1, <2>2 DEF MarksNested
<1> QED
  BY <1>6, <1>7, <1>8 DEF ArenaInv

\* Every step keeps the invariant.
LEMMA ArenaStep ==
    ASSUME ArenaAssumption, ArenaInv, [ArenaNext]_arenaVars
    PROVE  ArenaInv'
<1>1. CASE UNCHANGED arenaVars
  BY <1>1 DEF arenaVars, ArenaInv, Chain, MarksNested, MarkWithin, MarkDivides, MarksSeparate,
              StorageOutlivesObjects
<1>2. CASE ArenaNext
  BY <1>2, AllocStep, MakeStep, EmptyingStep, MarkStep, RollbackStep, ReleaseStep DEF ArenaNext
<1> QED
  BY <1>1, <1>2

\* The arena stays packed, with its marks nested in it.
THEOREM ArenaInductive == ASSUME ArenaAssumption
                     PROVE  ArenaSpec => []ArenaInv
  BY ArenaInitial, ArenaStep, PTL DEF ArenaSpec

\* No byte is handed out twice, and what was asked for aligned is aligned.
THEOREM Disjoint == ASSUME ArenaAssumption
                    PROVE  ArenaSpec => []LiveDisjoint
<1>1. ASSUME ArenaInv
      PROVE  LiveDisjoint
  <2>1. Packed(Chain) /\ live \in Seq(Allocations) /\ Len(live) \in Nat
    BY <1>1, InvariantTypes DEF ArenaInv
  <2>2. \A i, j \in 1..Len(live) : i < j => Precedes(live[i], live[j])
    BY <2>1 DEF Packed, Chain
  <2>3. \A i \in 1..Len(live) : live[i].block \in 1..current
    BY <1>1, InvariantTypes
  <2>4. ASSUME NEW i \in 1..Len(live), NEW j \in 1..Len(live), i # j, live[i].block = live[j].block
        PROVE  EndOf(live[i]) <= live[j].off \/ EndOf(live[j]) <= live[i].off
    <3>1. i < j \/ j < i
      BY <2>1, <2>4
    <3>2. current \in Nat
      BY <1>1, InvariantTypes
    <3>3. PICK b \in Nat : b = live[i].block /\ b = live[j].block
      BY <2>3, <2>4, <3>2
    <3>4. i < j => Precedes(live[i], live[j])
      BY <2>2
    <3>5. j < i => Precedes(live[j], live[i])
      BY <2>2
    <3>6. ASSUME NEW r, NEW s, r.block = b, s.block = b, Precedes(r, s)
          PROVE  EndOf(r) <= s.off
      BY <3>6 DEF Precedes
    <3>7. (i < j => EndOf(live[i]) <= live[j].off) /\ (j < i => EndOf(live[j]) <= live[i].off)
      BY <3>3, <3>4, <3>5, <3>6
    <3> QED
      BY <3>1, <3>7
  <2>5. \A i \in 1..Len(live) :
          /\ live[i].block <= current
          /\ live[i].off % live[i].align = 0
          /\ live[i].align <= blocks[live[i].block].align
    BY <2>1 DEF Packed, Chain
  <2> QED
    BY <2>4, <2>5 DEF LiveDisjoint
<1> QED
  BY <1>1, ArenaInductive, PTL

\* A rollback takes back exactly what was allocated after its mark.
THEOREM Separate == ASSUME ArenaAssumption
                    PROVE  ArenaSpec => []MarksSeparate
<1>1. ArenaInv => MarksSeparate
  BY DEF ArenaInv
<1> QED
  BY <1>1, ArenaInductive, PTL

\* A destructor still to be run finds its entry and its object.
THEOREM ObjectsOutlived == ASSUME ArenaAssumption
                           PROVE  ArenaSpec => []StorageOutlivesObjects
<1>1. ArenaInv => StorageOutlivesObjects
  BY DEF ArenaInv
<1> QED
  BY <1>1, ArenaInductive, PTL

(***************************************************************************)
(* Overruns.                                                               *)
(***************************************************************************)
\* A mark restores an offset that fits, where the chain's own has to.
MarksFit ==
    \A i \in 1..Len(points) :
        points[i].block # 0 /\ blocks[points[i].block].size = BlockSize =>
             points[i].offset <= BlockSize

FitsInv == ArenaInv /\ Fits(Chain) /\ MarksFit

LEMMA FitsInit ==
    ASSUME ArenaAssumption, FittingAssumption, ArenaInit
    PROVE  FitsInv
<1>1. ArenaInv /\ points = <<>>
  BY ArenaInitial DEF ArenaInit
<1>2. PICK n, a : n = BlockSize /\ a = DefaultAlign
  OBVIOUS
<1>3. n \in Nat \ {0} /\ a \in Nat \ {0} /\ n \in n..(WordSize - 1)
  BY <1>2 DEF ArenaAssumption, ArenaSizesAssumption, ArenaAlignmentsAssumption, ArenaBoundsAssumption,
              FittingAssumption
<1>4. /\ NoBlocks \in Chains /\ NoBlocks.current = 0 /\ NoBlocks.live = <<>>
      /\ NoBlocks.current <= Len(NoBlocks.blocks)
  BY DEF NoBlocks, Chains, Allocations
<1>5. PICK s, t : s = NoBlocks /\ t = AddBlock(s, n, a)
  OBVIOUS
<1>6. /\ t.current = s.current + 1 /\ t.offset = 0 /\ t.live = s.live /\ Len(t.blocks) = t.current
      /\ t.blocks[t.current] = [size |-> LargerOf(n, BlockSize), align |-> LargerOf(a, BlockAlign)]
  BY <1>3, <1>4, <1>5, AddBlockFields
<1>7. /\ t.current = 1 /\ t.live = <<>> /\ Len(t.blocks) = 1 /\ t.blocks[1].size = BlockSize
  BY <1>2, <1>4, <1>5, <1>6 DEF LargerOf
<1>8. blocks = t.blocks /\ current = t.current /\ offset = t.offset /\ live = t.live
  BY <1>2, <1>5 DEF ArenaInit
<1>9. Fits(Chain)
  BY <1>2, <1>3, <1>6, <1>7, <1>8 DEF Fits, Chain
<1> QED
  BY <1>1, <1>9 DEF FitsInv, MarksFit

LEMMA GrowthFits ==
    ASSUME FitsInv, NEW t, Packed(t), Fits(t), Extends(Chain, t), Becomes(t), UNCHANGED points
    PROVE  (Fits(Chain) /\ MarksFit)'
<1>1. Fits(Chain)'
  BY DEF Fits, Becomes, Chain
<1>2. MarksFit'
  <2>1. points' = points /\ \A b \in 1..current : blocks'[b] = blocks[b]
    BY DEF Becomes, Extends, Chain
  <2>2. ASSUME NEW i \in 1..Len(points), points[i].block # 0
        PROVE  points[i].block \in 1..current
    <3>1. points[i].block \in 0..current /\ current \in Nat
      BY InvariantTypes DEF FitsInv
    <3> QED
      BY <2>2, <3>1
  <2> QED
    BY <2>1, <2>2 DEF FitsInv, MarksFit
<1> QED
  BY <1>1, <1>2

LEMMA AllocFits ==
    ASSUME ArenaAssumption, FittingAssumption, FitsInv,
           NEW n \in Sizes, NEW a \in ArenaAlignments, Alloc(n, a) \/ Make(n, a)
    PROVE  (Fits(Chain) /\ MarksFit)'
<1>1. PICK s, e, f : s = Chain /\ e = EntrySize /\ f = EntryAlign
  OBVIOUS
<1>2. /\ n \in Nat /\ n \in 0..(WordSize - 1) /\ a \in Nat \ {0} /\ BlockSize % a = 0
      /\ e \in Nat /\ e \in 0..(WordSize - 1) /\ f \in Nat \ {0} /\ BlockSize % f = 0
  BY <1>1 DEF ArenaAssumption, ArenaSizesAssumption, ArenaAlignmentsAssumption, FittingAssumption
<1>3. BlockSize < WordSize
  BY DEF ArenaAssumption, ArenaSizesAssumption, ArenaBoundsAssumption, FittingAssumption
<1>4. Packed(s) /\ Fits(s)
  BY <1>1 DEF FitsInv, ArenaInv
<1>5. CASE Alloc(n, a)
  <2>1. PICK t : t = Allocated(s, n, a)
    OBVIOUS
  <2>2. Packed(t) /\ Extends(s, t) /\ Fits(t)
    BY <1>2, <1>3, <1>4, <2>1, AllocatedPacked, AllocatedFits
  <2>3. Becomes(t) /\ UNCHANGED points
    BY <1>1, <1>5, <2>1 DEF Alloc
  <2> QED
    BY <1>1, <2>2, <2>3, GrowthFits
<1>6. CASE Make(n, a)
  <2>1. PICK u : u = Allocated(s, e, f)
    OBVIOUS
  <2>2. PICK t : t = Allocated(u, n, a)
    OBVIOUS
  <2>3. Packed(u) /\ Extends(s, u) /\ Fits(u)
    BY <1>2, <1>3, <1>4, <2>1, AllocatedPacked, AllocatedFits
  <2>4. Packed(t) /\ Extends(u, t) /\ Fits(t)
    BY <1>2, <1>3, <2>2, <2>3, AllocatedPacked, AllocatedFits
  <2>5. Extends(s, t)
    BY <1>4, <2>3, <2>4, ExtendsTransitive
  <2>6. Becomes(t) /\ UNCHANGED points
    BY <1>1, <1>6, <2>1, <2>2 DEF Make
  <2> QED
    BY <1>1, <2>4, <2>5, <2>6, GrowthFits
<1> QED
  BY <1>5, <1>6

LEMMA EmptyingFits ==
    ASSUME ArenaAssumption, FitsInv, ArenaClear \/ Reset
    PROVE  (Fits(Chain) /\ MarksFit)'
<1>1. BlockSize \in Nat
  BY DEF ArenaAssumption, ArenaSizesAssumption
<1>2. live' = <<>> /\ points' = <<>> /\ offset' = 0
  BY DEF ArenaClear, Reset
<1>3. \A b \in 1..Len(blocks') : blocks'[b].size \in BlockSize..(WordSize - 1)
  BY DEF ArenaClear, Reset, FitsInv, Fits, Chain
<1> QED
  BY <1>1, <1>2, <1>3 DEF Fits, MarksFit, Chain

LEMMA MarkFits ==
    ASSUME FitsInv, Mark
    PROVE  (Fits(Chain) /\ MarksFit)'
<1>1. points \in Seq(MarkRecords)
  BY InvariantTypes DEF FitsInv
<1>2. PICK m : m = [block |-> current, offset |-> offset, destructors |-> Len(pending),
                    count |-> Len(live)]
  OBVIOUS
<1>3. UNCHANGED <<blocks, current, offset, live>> /\ points' = Append(points, m)
  BY <1>2 DEF Mark
<1>4. \A i \in 1..Len(points') : (i \in 1..Len(points) /\ points'[i] = points[i]) \/ points'[i] = m
  BY <1>1, <1>3
<1>5. m.block # 0 /\ blocks[m.block].size = BlockSize => m.offset <= BlockSize
  BY <1>2 DEF FitsInv, Fits, Chain
<1>6. MarksFit'
  BY <1>3, <1>4, <1>5 DEF FitsInv, MarksFit
<1> QED
  BY <1>3, <1>6 DEF FitsInv, Fits, Chain

LEMMA RollbackFits ==
    ASSUME FitsInv, Rollback
    PROVE  (Fits(Chain) /\ MarksFit)'
<1>1. /\ blocks \in Seq(BlockRecords) /\ live \in Seq(Allocations) /\ points \in Seq(MarkRecords)
      /\ current \in 0..Len(blocks) /\ Len(points) \in Nat \ {0}
      /\ \A i \in 1..Len(points) : points[i].block \in 0..current /\ points[i].count \in 0..Len(live)
  BY InvariantTypes DEF FitsInv, Rollback
<1>2. PICK l \in 1..Len(points), m \in MarkRecords : l = Len(points) /\ m = points[l]
  BY <1>1
<1>3. PICK b \in 0..Len(blocks), c \in 0..Len(live) : b = m.block /\ c = m.count
  <2>1. m.block \in 0..Len(blocks)
    BY <1>1, <1>2
  <2> QED
    BY <1>1, <1>2, <2>1
<1>4. /\ blocks' = SubSeq(blocks, 1, b) /\ current' = b /\ offset' = m.offset
      /\ live' = SubSeq(live, 1, c) /\ points' = SubSeq(points, 1, l - 1)
  BY <1>2, <1>3 DEF Rollback
<1>5. Len(blocks') = b /\ \A i \in 1..b : i \in 1..Len(blocks) /\ blocks'[i] = blocks[i]
  BY <1>1, <1>4, Prefix
<1>6. Len(live') = c /\ \A i \in 1..c : i \in 1..Len(live) /\ live'[i] = live[i]
  BY <1>1, <1>4, Prefix
<1>7. PICK n \in 0..Len(points) : n = l - 1
  BY <1>2
<1>8. Len(points') = n /\ \A i \in 1..n : i \in 1..Len(points) /\ points'[i] = points[i]
  BY <1>1, <1>4, <1>7, Prefix
<1>9. \A i \in 1..n : i < l
  BY <1>2, <1>7
<1>10. ASSUME NEW i \in 1..c
       PROVE  live[i].block \in 1..b
  <2>1. i \in 1..Len(live) /\ i <= c
    BY <1>3, <1>6
  <2>2. live[i].block \in Nat \ {0}
    <3>1. live[i] \in Allocations
      BY <1>1, <2>1
    <3> QED
      BY <3>1 DEF Allocations
  <2>3. live[i].block <= b
    BY <1>2, <1>3, <2>1, <2>2 DEF FitsInv, ArenaInv, MarksSeparate
  <2> QED
    BY <1>1, <1>3, <2>2, <2>3
<1>11. Fits(Chain)'
  <2>1. b # 0 => b \in 1..b
    BY <1>1, <1>3
  <2>2. b # 0 /\ blocks'[b].size = BlockSize => offset' <= BlockSize
    BY <1>2, <1>3, <1>4, <1>5, <2>1 DEF FitsInv, MarksFit
  <2>3. \A i \in 1..Len(blocks') : blocks'[i].size \in BlockSize..(WordSize - 1)
    BY <1>5 DEF FitsInv, Fits, Chain
  <2>4. ASSUME NEW i \in 1..c
        PROVE  LET g == blocks'[live'[i].block] IN
               EndOf(live'[i]) > g.size => g.size > BlockSize /\ live'[i].off > g.size
    <3>1. live'[i] = live[i] /\ i \in 1..Len(live) /\ blocks'[live[i].block] = blocks[live[i].block]
      BY <1>5, <1>6, <1>10
    <3> QED
      BY <3>1 DEF FitsInv, Fits, Chain
  <2> QED
    BY <1>4, <1>6, <2>2, <2>3, <2>4 DEF Fits, Chain
<1>12. MarksFit'
  <2>1. ASSUME NEW i \in 1..n, points[i].block # 0
        PROVE  i \in 1..Len(points) /\ points'[i] = points[i] /\ points[i].block \in 1..b
    <3>1. points[i].block \in 0..current /\ current \in Nat
      BY <1>1, <1>8
    <3>2. points[i].block <= b
      BY <1>2, <1>3, <1>8, <1>9 DEF FitsInv, ArenaInv, MarksNested, MarkBefore
    <3>3. b \in Nat /\ points[i].block \in Nat
      BY <1>1, <1>3, <3>1
    <3> QED
      BY <1>8, <2>1, <3>2, <3>3
  <2> QED
    BY <1>5, <1>8, <2>1 DEF FitsInv, MarksFit
<1> QED
  BY <1>11, <1>12

LEMMA ReleaseFits ==
    ASSUME FitsInv, NEW i \in 1..Len(points), Release(i)
    PROVE  (Fits(Chain) /\ MarksFit)'
<1> DEFINE old(k) == IF k < i THEN k ELSE k + 1
<1>1. points \in Seq(MarkRecords) /\ Len(points) \in Nat /\ i \in Nat \ {0} /\ i <= Len(points)
  BY InvariantTypes DEF FitsInv
<1>2. /\ UNCHANGED <<blocks, current, offset, live>>
      /\ points' = SubSeq(points, 1, i - 1) \o SubSeq(points, i + 1, Len(points))
  BY DEF Release
<1>3. /\ points' \in Seq(MarkRecords) /\ Len(points') = Len(points) - 1
      /\ \A k \in 1..Len(points') : points'[k] = points[old(k)]
  <2>1. PICK p : p = points'
    OBVIOUS
  <2>2. /\ p \in Seq(MarkRecords) /\ Len(p) = Len(points) - 1
        /\ \A k \in 1..Len(p) : p[k] = points[IF k < i THEN k ELSE k + 1]
    <3>1. PICK q \in Seq(MarkRecords) : q = points
      BY <1>1
    <3>2. i \in 1..Len(q) /\ p = SubSeq(q, 1, i - 1) \o SubSeq(q, i + 1, Len(q))
      BY <1>1, <1>2, <2>1, <3>1
    <3>3. /\ p \in Seq(MarkRecords) /\ Len(p) = Len(q) - 1
          /\ \A k \in 1..Len(p) : p[k] = q[IF k < i THEN k ELSE k + 1]
      BY <3>2, Without, ZenonT(60)
    <3> QED
      BY <3>1, <3>3
  <2> QED
    BY <2>1, <2>2
<1>4. \A k \in 1..Len(points') : old(k) \in 1..Len(points)
  BY <1>1, <1>3
<1> HIDE DEF old
<1>5. MarksFit'
  BY <1>2, <1>3, <1>4 DEF FitsInv, MarksFit
<1> QED
  BY <1>2, <1>5 DEF FitsInv, Fits, Chain

LEMMA FitsStep ==
    ASSUME ArenaAssumption, FittingAssumption, FitsInv, [ArenaNext]_arenaVars
    PROVE  FitsInv'
<1>1. ArenaInv'
  BY ArenaStep DEF FitsInv
<1>2. (Fits(Chain) /\ MarksFit)'
  <2>1. CASE UNCHANGED arenaVars
    BY <2>1 DEF arenaVars, FitsInv, Fits, MarksFit, Chain
  <2>2. CASE ArenaNext
    BY <2>2, AllocFits, EmptyingFits, MarkFits, RollbackFits, ReleaseFits DEF ArenaNext
  <2> QED
    BY <2>1, <2>2
<1> QED
  BY <1>1, <1>2 DEF FitsInv

\* A block of the default size is never overrun, and an oversized one only by
\* an allocation that begins behind its end.
THEOREM OversizedOverrun == ASSUME ArenaAssumption, FittingAssumption
                            PROVE  ArenaSpec => []OnlyOversizedOverrun
<1>1. FitsInv => OnlyOversizedOverrun
  BY DEF FitsInv, Fits, Chain, OnlyOversizedOverrun
<1> QED
  BY <1>1, FitsInit, FitsStep, PTL DEF ArenaSpec

(***************************************************************************)
(* The flat hash map.                                                      *)
(***************************************************************************)
SlotValues == Entries \cup {Empty, Erased}
Tables(c) == [0..(c - 1) -> SlotValues]

LEMMA SlotKinds ==
    ASSUME NEW x \in SlotValues
    PROVE  \/ /\ x.meta = "OCCUPIED" /\ x.key \in Keys /\ x.value \in Values
              /\ x = Entry(x.key, x.value) /\ x # Empty /\ x # Erased
           \/ x.meta # "OCCUPIED" /\ x = Empty /\ x # Erased
           \/ x.meta # "OCCUPIED" /\ x = Erased /\ x # Empty
  BY DEF SlotValues, Entries, Entry, Empty, Erased

LEMMA EntryKind ==
    ASSUME NEW k \in Keys, NEW v \in Values
    PROVE  /\ Entry(k, v) \in SlotValues /\ Entry(k, v).meta = "OCCUPIED"
           /\ Entry(k, v).key = k /\ Entry(k, v).value = v /\ Entry(k, v) # Empty
  BY DEF SlotValues, Entries, Entry, Empty

\* The domain of a table is as large as its capacity.
LEMMA TableDomain ==
    ASSUME NEW c \in Nat, NEW T \in Tables(c)
    PROVE  /\ DOMAIN T = 0..(c - 1) /\ Capacity(T) = c
           /\ IsFiniteSet(Occupied(T)) /\ Cardinality(Occupied(T)) \in Nat
           /\ Cardinality(Occupied(T)) <= c /\ Occupied(T) \subseteq 0..(c - 1)
           /\ (Cardinality(Occupied(T)) = c => Occupied(T) = 0..(c - 1))
<1>1. DOMAIN T = 0..(c - 1)
  BY DEF Tables
<1>2. IsFiniteSet(0..(c - 1)) /\ Cardinality(0..(c - 1)) = c
  <2>1. IsFiniteSet(0..(c - 1)) /\ Cardinality(0..(c - 1)) = IF 0 > c - 1 THEN 0 ELSE c - 1 - 0 + 1
    BY FS_Interval
  <2> QED
    BY <2>1
<1>3. Occupied(T) \in SUBSET (0..(c - 1))
  BY <1>1 DEF Occupied
<1>4. /\ IsFiniteSet(Occupied(T)) /\ Cardinality(Occupied(T)) <= Cardinality(0..(c - 1))
      /\ Cardinality(0..(c - 1)) = Cardinality(Occupied(T)) => 0..(c - 1) = Occupied(T)
  BY <1>2, <1>3, FS_Subset
<1>5. Cardinality(Occupied(T)) \in Nat
  BY <1>4, FS_CardinalityType
<1> QED
  BY <1>1, <1>2, <1>3, <1>4, <1>5 DEF Capacity

(***************************************************************************)
(* Probing.                                                                *)
(***************************************************************************)
\* A probe takes fewer steps than there are slots, and comes to different slots
\* in different numbers of steps.
LEMMA DistanceInjective ==
    ASSUME hash \in [Keys -> Nat], NEW c \in Nat, NEW T \in Tables(c), NEW k \in Keys,
           NEW i \in 0..(c - 1)
    PROVE  /\ Distance(T, k, i) \in 0..(c - 1)
           /\ \A j \in 0..(c - 1) : Distance(T, k, j) = Distance(T, k, i) => j = i
<1>1. Capacity(T) = c /\ c \in Nat \ {0} /\ hash[k] \in Nat
  BY TableDomain
<1>2. PICK h \in Nat : h = hash[k]
  BY <1>1
<1>3. (i - h) % c \in 0..(c - 1)
  <2>1. PICK o \in Int : o = i - h
    BY <1>2
  <2> QED
    BY <1>1, <2>1, Division
<1>4. ASSUME NEW x \in 0..(c - 1), NEW y \in 0..(c - 1), (x - h) % c = (y - h) % c, x < y
      PROVE  FALSE
  <2>1. (x - h) + c <= y - h
    <3>1. x - h \in Int /\ y - h \in Int /\ x - h < y - h
      BY <1>2, <1>4
    <3> QED
      BY <1>1, <1>4, <3>1, MultiplesApart
  <2> QED
    BY <1>1, <1>2, <2>1
<1>5. ASSUME NEW j \in 0..(c - 1), (j - h) % c = (i - h) % c
      PROVE  j = i
  <2>1. ~(j < i) /\ ~(i < j)
    BY <1>4, <1>5
  <2> QED
    BY <2>1
<1> QED
  BY <1>1, <1>2, <1>3, <1>5 DEF Distance

\* insert() comes to a slot, the first that holds the key or no entry.
LEMMA InsertSlotFirst ==
    ASSUME hash \in [Keys -> Nat], NEW c \in Nat, NEW T \in Tables(c), NEW k \in Keys,
           \E i \in 0..(c - 1) : i \in Slots(T, k) \/ i \notin Occupied(T)
    PROVE  /\ InsertSlot(T, k) \in 0..(c - 1)
           /\ InsertSlot(T, k) \in Slots(T, k) \/ InsertSlot(T, k) \notin Occupied(T)
           /\ \A j \in Before(T, k, InsertSlot(T, k)) : j \in Occupied(T) \ Slots(T, k)
<1> DEFINE Free == {i \in 0..(c - 1) : i \in Slots(T, k) \/ i \notin Occupied(T)}
           Steps == {Distance(T, k, i) : i \in Free}
<1>1. DOMAIN T = 0..(c - 1)
  BY TableDomain
<1>2. Steps \subseteq Nat /\ Steps # {}
  BY DistanceInjective
<1>3. PICK n \in Steps : \A m \in Steps : n <= m
  <2> HIDE DEF Steps
  <2> QED
    BY <1>2, LeastNumber
<1>4. PICK i \in Free : n = Distance(T, k, i)
  OBVIOUS
<1>5. ASSUME NEW j \in Before(T, k, i)
      PROVE  j \in Occupied(T) \ Slots(T, k)
  <2>1. j \in 0..(c - 1) /\ Distance(T, k, j) < n
    BY <1>1, <1>4 DEF Before
  <2>2. n \in Nat /\ Distance(T, k, j) \in Nat
    BY <1>2, <2>1, DistanceInjective
  <2>3. j \notin Free
    BY <1>3, <2>1, <2>2
  <2> QED
    BY <2>1, <2>3
<1>6. \E x \in DOMAIN T : /\ x \in Slots(T, k) \/ x \notin Occupied(T)
                          /\ \A j \in Before(T, k, x) : j \in Occupied(T) \ Slots(T, k)
  BY <1>1, <1>4, <1>5
<1> QED
  BY <1>1, <1>6 DEF InsertSlot

Sound(T) ==
    /\ \A i, j \in Occupied(T) : T[i].key = T[j].key => i = j
    /\ \A i \in Occupied(T) : \A j \in Before(T, T[i].key, i) : T[j] # Empty

\* In a sound table a lookup finds the slot of the key.
LEMMA FindsSlots ==
    ASSUME hash \in [Keys -> Nat], NEW c \in Nat, NEW T \in Tables(c), Sound(T), NEW k \in Keys
    PROVE  FindSlot(T, k) = Slots(T, k) /\ \A i, j \in Slots(T, k) : i = j
<1>1. \A i, j \in Slots(T, k) : i = j
  BY DEF Sound, Slots
<1>2. ASSUME NEW i \in Slots(T, k)
      PROVE  \A j \in Before(T, k, i) : T[j] # Empty /\ j \notin Slots(T, k)
  <2>1. \A j \in Before(T, k, i) : T[j] # Empty
    BY DEF Sound, Slots
  <2>2. PICK n \in Nat : n = Distance(T, k, i)
    <3>1. i \in 0..(c - 1)
      BY TableDomain DEF Slots, Occupied
    <3> QED
      BY <3>1, DistanceInjective
  <2>3. i \notin Before(T, k, i)
    BY <2>2 DEF Before
  <2> QED
    BY <1>1, <2>1, <2>3
<1> QED
  BY <1>1, <1>2 DEF FindSlot

\* Writing over slots of a table leaves the steps of a probe as they are.
LEMMA SameSteps ==
    ASSUME NEW c \in Nat, NEW T \in Tables(c), NEW U \in Tables(c)
    PROVE  \A k, i : Before(U, k, i) = Before(T, k, i)
  BY TableDomain DEF Before, Distance

\* insert() of an absent key: one more entry, in a slot that held none.
LEMMA PutAbsent ==
    ASSUME hash \in [Keys -> Nat], NEW c \in Nat, NEW T \in Tables(c), Sound(T),
           NEW k \in Keys, NEW v \in Values, Slots(T, k) = {}, Occupied(T) # 0..(c - 1),
           NEW U, U = Put(T, Entry(k, v))
    PROVE  /\ U \in Tables(c) /\ Sound(U)
           /\ InsertSlot(T, k) \in (0..(c - 1)) \ Occupied(T)
           /\ Occupied(U) = Occupied(T) \cup {InsertSlot(T, k)}
           /\ \A j \in Occupied(T) : U[j] = T[j]
           /\ U[InsertSlot(T, k)] = Entry(k, v)
           /\ Cardinality(Occupied(U)) = Cardinality(Occupied(T)) + 1
<1>1. PICK i : i = InsertSlot(T, k)
  OBVIOUS
<1>2. /\ DOMAIN T = 0..(c - 1) /\ IsFiniteSet(Occupied(T))
      /\ Occupied(T) \subseteq 0..(c - 1)
  BY TableDomain
<1>3. \E x \in 0..(c - 1) : x \notin Occupied(T)
  BY <1>2
<1>4. /\ i \in 0..(c - 1) /\ i \notin Occupied(T)
      /\ \A j \in Before(T, k, i) : j \in Occupied(T)
  BY <1>1, <1>3, InsertSlotFirst
<1>5. PICK e : e = Entry(k, v)
  OBVIOUS
<1>6. e \in SlotValues /\ e.meta = "OCCUPIED" /\ e.key = k /\ e # Empty
  BY <1>5, EntryKind
<1>7. U = [T EXCEPT ![i] = e]
  BY <1>1, <1>5, <1>6 DEF Put
<1>8. /\ U \in Tables(c) /\ DOMAIN U = 0..(c - 1) /\ U[i] = e
      /\ \A j \in 0..(c - 1) : j # i => U[j] = T[j]
  BY <1>2, <1>4, <1>6, <1>7 DEF Tables
<1>9. Occupied(U) = Occupied(T) \cup {i} /\ \A j \in Occupied(T) : U[j] = T[j]
  BY <1>2, <1>4, <1>6, <1>8 DEF Occupied
<1>10. Sound(U)
  <2>1. ASSUME NEW x \in Occupied(U), NEW y \in Occupied(U), U[x].key = U[y].key
        PROVE  x = y
    <3>1. \A z \in Occupied(T) : T[z].key # k
      BY DEF Slots
    <3> QED
      BY <1>6, <1>8, <1>9, <2>1, <3>1 DEF Sound
  <2>2. ASSUME NEW x \in Occupied(U), NEW j \in Before(U, U[x].key, x)
        PROVE  U[j] # Empty
    <3>1. j \in Before(T, U[x].key, x) /\ j \in 0..(c - 1)
      BY <1>2, <1>8, <2>2, SameSteps DEF Before
    <3>2. CASE x = i
      <4>1. j \in Occupied(T)
        BY <1>4, <1>6, <1>8, <3>1, <3>2
      <4> QED
        BY <1>9, <4>1 DEF Occupied, Empty
    <3>3. CASE x \in Occupied(T)
      <4>1. U[x] = T[x]
        BY <1>9, <3>3
      <4>2. T[j] # Empty
        BY <3>1, <3>3, <4>1 DEF Sound
      <4> QED
        BY <1>6, <1>8, <3>1, <4>2
    <3> QED
      BY <1>9, <3>2, <3>3
  <2> QED
    BY <2>1, <2>2 DEF Sound
<1>11. Cardinality(Occupied(U)) = Cardinality(Occupied(T)) + 1
  <2>1. PICK O : O = Occupied(T) /\ IsFiniteSet(O) /\ i \notin O
    BY <1>2, <1>4
  <2>2. Cardinality(O \cup {i}) = Cardinality(O) + 1
    BY <2>1, FS_AddElement
  <2> QED
    BY <1>9, <2>1, <2>2
<1> QED
  BY <1>1, <1>4, <1>5, <1>8, <1>9, <1>10, <1>11

(***************************************************************************)
(* rehash().                                                               *)
(***************************************************************************)
\* U is a sound table with the entries of the slots of T in P.
Holds(U, T, P) ==
    /\ Sound(U)
    /\ \A i \in P : \E s \in Occupied(U) : U[s] = T[i]
    /\ \A s \in Occupied(U) : \E i \in P : U[s] = T[i]
    /\ Cardinality(Occupied(U)) = Cardinality(P)

LEMMA NewTableEmpty ==
    ASSUME NEW c \in Nat
    PROVE  NewTable(c) \in Tables(c) /\ Occupied(NewTable(c)) = {}
  BY DEF NewTable, Tables, SlotValues, Occupied, Empty

Upto(T, n) == {i \in Occupied(T) : i < n}

\* One entry moves.
LEMMA MoveEntry ==
    ASSUME hash \in [Keys -> Nat], NEW b \in Nat, NEW c \in Nat, b < c,
           NEW T \in Tables(b), Sound(T), NEW U \in Tables(c),
           NEW n \in 0..(b - 1), Holds(U, T, Upto(T, n)), n \in Occupied(T)
    PROVE  Put(U, T[n]) \in Tables(c) /\ Holds(Put(U, T[n]), T, Upto(T, n + 1))
<1>1. PICK P, Q : P = Upto(T, n) /\ Q = Upto(T, n + 1)
  OBVIOUS
<1>2. /\ IsFiniteSet(Occupied(T)) /\ Occupied(T) \subseteq 0..(b - 1) /\ DOMAIN T = 0..(b - 1)
      /\ Cardinality(Occupied(T)) <= b /\ Cardinality(Occupied(T)) \in Nat
  BY TableDomain
<1>3. Q = P \cup {n} /\ n \notin P /\ P \in SUBSET Occupied(T)
  BY <1>1, <1>2 DEF Upto
<1>4. IsFiniteSet(P) /\ Cardinality(P) <= Cardinality(Occupied(T)) /\ Cardinality(P) \in Nat
  BY <1>2, <1>3, FS_Subset, FS_CardinalityType
<1>5. Cardinality(Q) = Cardinality(P) + 1
  BY <1>3, <1>4, FS_AddElement
<1>6. PICK e : e = T[n]
  OBVIOUS
<1>7. e \in SlotValues /\ e.meta = "OCCUPIED"
  BY <1>2, <1>6 DEF Tables, Occupied
<1>8. PICK k \in Keys, v \in Values : e = Entry(k, v) /\ e.key = k
  BY <1>7, SlotKinds
<1>9. Holds(U, T, P)
  BY <1>1
<1>10. Slots(U, k) = {}
  <2>1. ASSUME NEW s \in Occupied(U), U[s].key = k
        PROVE  FALSE
    <3>1. PICK i \in P : U[s] = T[i]
      BY <1>9 DEF Holds
    <3>2. i \in Occupied(T) /\ T[i].key = T[n].key /\ i # n
      BY <1>3, <1>6, <1>8, <2>1, <3>1
    <3> QED
      BY <3>2 DEF Sound
  <2> QED
    BY <2>1 DEF Slots
<1>11. Occupied(U) # 0..(c - 1)
  <2>1. Cardinality(Occupied(U)) = Cardinality(P)
    BY <1>9 DEF Holds
  <2>2. Cardinality(0..(c - 1)) = IF 0 > c - 1 THEN 0 ELSE c - 1 - 0 + 1
    BY FS_Interval
  <2> QED
    BY <1>2, <1>4, <2>1, <2>2
<1>12. PICK V : V = Put(U, e)
  OBVIOUS
<1>13. PICK s : s = InsertSlot(U, k)
  OBVIOUS
<1>14. Sound(U)
  BY <1>9 DEF Holds
<1>15. /\ V \in Tables(c) /\ Sound(V) /\ Occupied(V) = Occupied(U) \cup {s}
       /\ \A j \in Occupied(U) : V[j] = U[j]
       /\ V[s] = e /\ Cardinality(Occupied(V)) = Cardinality(Occupied(U)) + 1
  BY <1>8, <1>10, <1>11, <1>12, <1>13, <1>14, PutAbsent
<1>16. \A i \in Q : \E x \in Occupied(V) : V[x] = T[i]
  BY <1>3, <1>6, <1>9, <1>15, ZenonT(60) DEF Holds
<1>17. \A x \in Occupied(V) : \E i \in Q : V[x] = T[i]
  BY <1>3, <1>6, <1>9, <1>15 DEF Holds
<1>18. Cardinality(Occupied(V)) = Cardinality(Q)
  BY <1>5, <1>9, <1>15 DEF Holds
<1>19. V \in Tables(c) /\ Holds(V, T, Q)
  BY <1>15, <1>16, <1>17, <1>18 DEF Holds
<1> QED
  BY <1>1, <1>6, <1>12, <1>19

\* rehash() into more slots keeps the entries.
LEMMA RehashedHolds ==
    ASSUME hash \in [Keys -> Nat], NEW b \in Nat, NEW c \in Nat, b < c,
           NEW T \in Tables(b), Sound(T)
    PROVE  Rehashed(T, c) \in Tables(c) /\ Holds(Rehashed(T, c), T, Occupied(T))
<1> DEFINE step == [i \in 1..b |-> [V \in Tables(c) |->
                       IF i - 1 \in Occupied(T) THEN Put(V, T[i - 1]) ELSE V]]
           U == CHOOSE U : U = [i \in 0..Capacity(T) |->
                  IF i = 0 THEN NewTable(c)
                  ELSE IF i - 1 \in Occupied(T) THEN Put(U[i - 1], T[i - 1]) ELSE U[i - 1]]
<1>1. Rehashed(T, c) = U[Capacity(T)]
  BY DEF Rehashed
<1>2. /\ Capacity(T) = b /\ DOMAIN T = 0..(b - 1) /\ IsFiniteSet(Occupied(T))
      /\ Occupied(T) \subseteq 0..(b - 1)
  BY TableDomain
<1>3. NewTable(c) \in Tables(c) /\ Occupied(NewTable(c)) = {}
  BY NewTableEmpty
<1>4. step \in [1..b -> [Tables(c) -> Tables(c)]]
  <2>1. ASSUME NEW i \in 1..b, NEW V \in Tables(c)
        PROVE  (IF i - 1 \in Occupied(T) THEN Put(V, T[i - 1]) ELSE V) \in Tables(c)
    <3>1. T[i - 1] \in SlotValues
      BY DEF Tables
    <3> QED
      BY <3>1 DEF Put, Tables
  <2> QED
    BY <2>1
<1>5. PICK g \in [0..b -> Tables(c)] : Follows(g, b, NewTable(c), step)
  <2> HIDE DEF step
  <2>1. PICK S, f, t : S = Tables(c) /\ f = step /\ t = NewTable(c)
    OBVIOUS
  <2>2. t \in S /\ f \in [1..b -> [S -> S]]
    BY <1>3, <1>4, <2>1
  <2>3. \E g \in [0..b -> S] : Follows(g, b, t, f)
    BY <2>2, RecursionUpTo
  <2> QED
    BY <2>1, <2>3
<1>6. ASSUME NEW i \in 1..b
      PROVE  g[i] = IF i - 1 \in Occupied(T) THEN Put(g[i - 1], T[i - 1]) ELSE g[i - 1]
  <2>1. i - 1 \in 0..b
    OBVIOUS
  <2>2. PICK V \in Tables(c) : V = g[i - 1]
    BY <1>5, <2>1
  <2>3. g[i] = step[i][V]
    BY <1>5, <2>2 DEF Follows
  <2>4. step[i][V] = IF i - 1 \in Occupied(T) THEN Put(V, T[i - 1]) ELSE V
    OBVIOUS
  <2> QED
    BY <2>2, <2>3, <2>4
<1>7. g = [i \in 0..Capacity(T) |->
             IF i = 0 THEN NewTable(c)
             ELSE IF i - 1 \in Occupied(T) THEN Put(g[i - 1], T[i - 1]) ELSE g[i - 1]]
  <2>1. g[0] = NewTable(c)
    BY <1>5 DEF Follows
  <2> QED
    BY <1>2, <1>5, <1>6, <2>1
<1>8. U = [i \in 0..Capacity(T) |->
             IF i = 0 THEN NewTable(c)
             ELSE IF i - 1 \in Occupied(T) THEN Put(U[i - 1], T[i - 1]) ELSE U[i - 1]]
  BY <1>7
<1> HIDE DEF U, step
<1>9. /\ U[0] = NewTable(c)
      /\ \A n \in 0..(b - 1) :
            U[n + 1] = IF n \in Occupied(T) THEN Put(U[n], T[n]) ELSE U[n]
  <2>1. U[0] = NewTable(c)
    BY <1>2, <1>8
  <2>2. ASSUME NEW n \in 0..(b - 1)
        PROVE  U[n + 1] = IF n \in Occupied(T) THEN Put(U[n], T[n]) ELSE U[n]
    <3>1. n + 1 \in 0..Capacity(T) /\ n + 1 # 0 /\ (n + 1) - 1 = n
      BY <1>2
    <3> QED
      BY <1>8, <3>1
  <2> QED
    BY <2>1, <2>2
<1> DEFINE Done == {n \in 0..b : U[n] \in Tables(c) /\ Holds(U[n], T, Upto(T, n))}
<1>10. 0 \in Done
  <2>1. Upto(T, 0) = {}
    BY <1>2 DEF Upto
  <2>2. Holds(NewTable(c), T, {})
    BY <1>3 DEF Holds, Sound
  <2>3. PICK V : V = U[0] /\ V \in Tables(c) /\ Holds(V, T, Upto(T, 0))
    BY <1>3, <1>9, <2>1, <2>2
  <2>4. 0 \in 0..b
    OBVIOUS
  <2> QED
    BY <2>3, <2>4
<1>11. ASSUME NEW n \in 0..(b - 1), n \in Done
       PROVE  n + 1 \in Done
  <2>1. n + 1 \in 0..b
    OBVIOUS
  <2>2. CASE n \in Occupied(T)
    <3>1. PICK V \in Tables(c) : V = U[n] /\ Holds(V, T, Upto(T, n))
      BY <1>11
    <3>2. Put(V, T[n]) \in Tables(c) /\ Holds(Put(V, T[n]), T, Upto(T, n + 1))
      BY <2>2, <3>1, MoveEntry
    <3>3. U[n + 1] = Put(V, T[n])
      BY <1>9, <2>2, <3>1
    <3> QED
      BY <2>1, <3>2, <3>3
  <2>3. CASE n \notin Occupied(T)
    <3>1. Upto(T, n + 1) = Upto(T, n)
      BY <1>2, <2>3 DEF Upto
    <3>2. U[n + 1] = U[n]
      BY <1>9, <2>3
    <3> QED
      BY <1>11, <2>1, <3>1, <3>2
  <2> QED
    BY <2>2, <2>3
<1>12. b \in Done
  <2> HIDE DEF Done
  <2>1. \A n \in 0..b : n \in Done
    BY <1>10, <1>11, InductionUpTo
  <2> QED
    BY <2>1
<1>13. Upto(T, b) = Occupied(T)
  BY <1>2 DEF Upto
<1> QED
  BY <1>1, <1>2, <1>12, <1>13

(***************************************************************************)
(* What a table shows.                                                     *)
(***************************************************************************)
Shows(T, k) == IF FindSlot(T, k) = {} THEN None ELSE T[CHOOSE i \in FindSlot(T, k) : TRUE].value
Shown(T) == [k \in Keys |-> Shows(T, k)]

LEMMA ShowsSlot ==
    ASSUME hash \in [Keys -> Nat], NEW c \in Nat, NEW T \in Tables(c), Sound(T), NEW k \in Keys
    PROVE  /\ Slots(T, k) = {} => Shows(T, k) = None
           /\ \A i \in Slots(T, k) : Shows(T, k) = T[i].value
<1>1. FindSlot(T, k) = Slots(T, k) /\ \A i, j \in Slots(T, k) : i = j
  BY FindsSlots
<1>2. ASSUME NEW i \in Slots(T, k)
      PROVE  (CHOOSE x \in Slots(T, k) : TRUE) = i
  <2>1. (CHOOSE x \in Slots(T, k) : TRUE) \in Slots(T, k)
    OBVIOUS
  <2> QED
    BY <1>1, <2>1
<1> QED
  BY <1>1, <1>2 DEF Shows

\* rehash() changes nothing that a lookup can see.
LEMMA RehashedShows ==
    ASSUME hash \in [Keys -> Nat], NEW b \in Nat, NEW c \in Nat,
           NEW T \in Tables(b), Sound(T), NEW U \in Tables(c), Holds(U, T, Occupied(T))
    PROVE  Shown(U) = Shown(T) /\ \A k \in Keys : Slots(U, k) = {} <=> Slots(T, k) = {}
<1> SUFFICES ASSUME NEW k \in Keys
             PROVE  Shows(U, k) = Shows(T, k) /\ (Slots(U, k) = {} <=> Slots(T, k) = {})
  BY DEF Shown
<1>1. Sound(U)
  BY DEF Holds
<1>2. CASE Slots(T, k) = {}
  <2>1. Slots(U, k) = {}
    BY <1>2 DEF Holds, Slots
  <2> QED
    BY <1>1, <1>2, <2>1, ShowsSlot
<1>3. CASE Slots(T, k) # {}
  <2>1. PICK i \in Slots(T, k) : TRUE
    BY <1>3
  <2>2. PICK s \in Occupied(U) : U[s] = T[i]
    BY <2>1 DEF Holds, Slots
  <2>3. s \in Slots(U, k)
    BY <2>1, <2>2 DEF Slots
  <2>4. Shows(T, k) = T[i].value /\ Shows(U, k) = U[s].value
    BY <1>1, <2>1, <2>3, ShowsSlot
  <2> QED
    BY <1>3, <2>2, <2>3, <2>4
<1> QED
  BY <1>2, <1>3

\* Writing entry k changes what is seen of k, and nothing else.
LEMMA WriteShows ==
    ASSUME hash \in [Keys -> Nat], NEW c \in Nat, NEW T \in Tables(c), Sound(T),
           NEW k \in Keys, NEW v \in Values, NEW U \in Tables(c), Sound(U),
           NEW i \in Occupied(U), U[i] = Entry(k, v), Slots(T, k) \subseteq {i},
           Occupied(U) = Occupied(T) \cup {i}, \A j \in Occupied(T) : j # i => U[j] = T[j],
           i \in Occupied(T) => i \in Slots(T, k)
    PROVE  Shown(U) = [Shown(T) EXCEPT ![k] = v]
<1>1. i \in Slots(U, k) /\ U[i].value = v /\ U[i].key = k
  BY EntryKind DEF Slots
<1>2. Shows(U, k) = v
  BY <1>1, ShowsSlot
<1>3. ASSUME NEW l \in Keys, l # k
      PROVE  Shows(U, l) = Shows(T, l)
  <2>1. Slots(U, l) = Slots(T, l) /\ \A j \in Slots(T, l) : U[j] = T[j]
    BY <1>1, <1>3 DEF Slots
  <2>2. CASE Slots(T, l) = {}
    BY <2>1, <2>2, ShowsSlot
  <2>3. CASE Slots(T, l) # {}
    <3>1. PICK j \in Slots(T, l) : TRUE
      BY <2>3
    <3>2. Shows(T, l) = T[j].value /\ Shows(U, l) = U[j].value
      BY <2>1, <3>1, ShowsSlot
    <3> QED
      BY <2>1, <3>1, <3>2
  <2> QED
    BY <2>2, <2>3
<1> QED
  BY <1>2, <1>3 DEF Shown

(***************************************************************************)
(* The invariant.                                                          *)
(***************************************************************************)
\* Growth leaves slack: the capacity is never one, and entries fill no table.
Slack(n, c) == c # 1 /\ n <= (c * 7) \div 10

MapInv ==
    /\ hash \in [Keys -> Nat]
    /\ \E c \in Nat : table \in Tables(c) /\ Slack(mapSize, c)
    /\ Sound(table)
    /\ mapSize = Cardinality(Occupied(table))

LEMMA NextState ==
    ASSUME hash \in [Keys -> Nat], hash' = hash, NEW c \in Nat, NEW U \in Tables(c), Sound(U),
           table' = U, mapSize' = Cardinality(Occupied(U)), Slack(mapSize', c)
    PROVE  MapInv' /\ Shown(table)' = Shown(U)
<1>1. Occupied(table)' = Occupied(U)
  BY DEF Occupied
<1>2. Sound(table)'
  BY <1>1 DEF Sound, Before, Distance, Capacity
<1>3. Shown(table)' = Shown(U)
  BY DEF Shown, Shows, FindSlot, Before, Distance, Capacity, Slots, Occupied
<1> QED
  BY <1>1, <1>2, <1>3 DEF MapInv, Tables, Slack

\* insert() of an absent key: one more entry, after growth where the table has
\* no slack left for it.
LEMMA InsertStep ==
    ASSUME CapacityAssumption, MapInv, NEW k \in Keys, NEW v \in Values, Insert(k, v),
           Slots(table, k) = {}
    PROVE  MapInv' /\ Shown(table)' = [Shown(table) EXCEPT ![k] = v]
<1>1. PICK b \in Nat : table \in Tables(b) /\ Slack(mapSize, b)
  BY DEF MapInv
<1>2. hash \in [Keys -> Nat] /\ Sound(table) /\ mapSize = Cardinality(Occupied(table))
  BY DEF MapInv
<1>3. PICK T, n : /\ T = IF Full(table, mapSize) THEN Rehashed(table, NextCapacity(table)) ELSE table
                  /\ n = IF Full(table, mapSize) THEN Cardinality(Occupied(T)) ELSE mapSize
  OBVIOUS
<1>4. PICK U : U = Put(T, Entry(k, v))
  OBVIOUS
<1>5. /\ table' = U /\ hash' = hash
      /\ mapSize' = IF InsertSlot(T, k) \in Slots(T, k) THEN n ELSE n + 1
  BY <1>3, <1>4 DEF Insert
<1>6. Capacity(table) = b /\ mapSize \in Nat
  BY <1>1, <1>2, TableDomain
<1>7. \E c \in Nat : /\ T \in Tables(c) /\ Sound(T) /\ n = Cardinality(Occupied(T)) /\ n \in Nat
                     /\ Slots(T, k) = {} /\ Shown(T) = Shown(table) /\ Slack(n + 1, c)
  <2>1. CASE ~Full(table, mapSize)
    <3>1. T = table /\ n = mapSize
      BY <1>3, <2>1
    <3>2. Slack(n + 1, b)
      BY <1>1, <1>6, <2>1, <3>1 DEF Full, Slack
    <3> QED
      BY <1>1, <1>2, <1>6, <3>1, <3>2
  <2>2. CASE Full(table, mapSize)
    <3>1. PICK c : c = NextCapacity(table)
      OBVIOUS
    <3>2. c \in Nat /\ b < c /\ c = IF b = 0 THEN FirstCapacity ELSE 2 * b
      BY <1>6, <3>1 DEF NextCapacity, CapacityAssumption
    <3>3. T = Rehashed(table, c) /\ n = Cardinality(Occupied(T))
      BY <1>3, <2>2, <3>1
    <3>4. T \in Tables(c) /\ Holds(T, table, Occupied(table))
      BY <1>1, <1>2, <3>2, <3>3, RehashedHolds
    <3>5. Sound(T) /\ n = mapSize
      BY <1>2, <3>3, <3>4 DEF Holds
    <3>6. Shown(T) = Shown(table) /\ (Slots(T, k) = {} <=> Slots(table, k) = {})
      BY <1>1, <1>2, <3>2, <3>4, RehashedShows
    <3>7. Slack(n + 1, c)
      BY <1>1, <1>6, <2>2, <3>2, <3>5 DEF Full, Slack, CapacityAssumption
    <3> QED
      BY <1>6, <3>2, <3>3, <3>4, <3>5, <3>6, <3>7
  <2> QED
    BY <2>1, <2>2
<1>8. PICK c \in Nat : /\ T \in Tables(c) /\ Sound(T) /\ n = Cardinality(Occupied(T)) /\ n \in Nat
                       /\ Slots(T, k) = {} /\ Shown(T) = Shown(table) /\ Slack(n + 1, c)
  BY <1>7
<1>9. Occupied(T) # 0..(c - 1)
  <2>1. Cardinality(0..(c - 1)) = IF 0 > c - 1 THEN 0 ELSE c - 1 - 0 + 1
    BY FS_Interval
  <2> QED
    BY <1>8, <2>1 DEF Slack
<1>10. PICK i : i = InsertSlot(T, k)
  OBVIOUS
<1>11. /\ U \in Tables(c) /\ Sound(U) /\ i \in (0..(c - 1)) \ Occupied(T)
       /\ Occupied(U) = Occupied(T) \cup {i} /\ \A j \in Occupied(T) : U[j] = T[j]
       /\ U[i] = Entry(k, v) /\ Cardinality(Occupied(U)) = Cardinality(Occupied(T)) + 1
  BY <1>2, <1>4, <1>8, <1>9, <1>10, PutAbsent
<1>12. Shown(U) = [Shown(T) EXCEPT ![k] = v]
  BY <1>2, <1>8, <1>11, WriteShows
<1>13. mapSize' = n + 1
  BY <1>5, <1>8, <1>10
<1>14. MapInv' /\ Shown(table)' = Shown(U)
  BY <1>2, <1>5, <1>8, <1>11, <1>13, NextState
<1> QED
  BY <1>8, <1>12, <1>14

LEMMA AssignStep ==
    ASSUME CapacityAssumption, MapInv, NEW k \in Keys, NEW v \in Values, Assign(k, v)
    PROVE  MapInv' /\ Shown(table)' = [Shown(table) EXCEPT ![k] = v]
<1>1. PICK c \in Nat : table \in Tables(c) /\ Slack(mapSize, c)
  BY DEF MapInv
<1>2. hash \in [Keys -> Nat] /\ Sound(table) /\ mapSize = Cardinality(Occupied(table))
  BY DEF MapInv
<1>3. FindSlot(table, k) = Slots(table, k) /\ \A i, j \in Slots(table, k) : i = j
  BY <1>1, <1>2, FindsSlots
<1>4. CASE FindSlot(table, k) = {} /\ Insert(k, v)
  BY <1>3, <1>4, InsertStep
<1>5. ASSUME NEW i \in FindSlot(table, k), table' = [table EXCEPT ![i].value = v],
             UNCHANGED <<hash, mapSize, stuck>>
      PROVE  MapInv' /\ Shown(table)' = [Shown(table) EXCEPT ![k] = v]
  <2>1. i \in Slots(table, k) /\ i \in Occupied(table) /\ i \in 0..(c - 1) /\ table[i].key = k
    BY <1>1, <1>3, TableDomain DEF Slots
  <2>2. PICK e : e = Entry(k, v)
    OBVIOUS
  <2>3. e \in SlotValues /\ e.meta = "OCCUPIED" /\ e.key = k /\ e # Empty
    BY <2>2, EntryKind
  <2>4. [table[i] EXCEPT !.value = v] = e
    <3>1. PICK w : table[i] = Entry(k, w)
      <4>1. table[i] \in SlotValues /\ table[i].meta = "OCCUPIED"
        BY <1>1, <2>1 DEF Tables, Occupied
      <4> QED
        BY <2>1, <4>1, SlotKinds
    <3> QED
      BY <2>2, <3>1 DEF Entry
  <2>5. PICK U : U = [table EXCEPT ![i] = e]
    OBVIOUS
  <2>6. table' = U
    BY <1>5, <2>4, <2>5
  <2>7. /\ U \in Tables(c) /\ DOMAIN U = 0..(c - 1) /\ U[i] = e
        /\ \A j \in 0..(c - 1) : j # i => U[j] = table[j]
    BY <1>1, <2>1, <2>3, <2>5 DEF Tables
  <2>8. Occupied(U) = Occupied(table)
    BY <1>1, <2>1, <2>3, <2>7, TableDomain DEF Occupied
  <2>9. \A j \in Occupied(table) : U[j].key = table[j].key /\ (j # i => U[j] = table[j])
    BY <1>1, <2>1, <2>3, <2>7, TableDomain
  <2>10. Sound(U)
    <3>1. \A x, y \in Occupied(U) : U[x].key = U[y].key => x = y
      BY <1>2, <2>8, <2>9 DEF Sound
    <3>2. ASSUME NEW x \in Occupied(U), NEW j \in Before(U, U[x].key, x)
          PROVE  U[j] # Empty
      <4>1. j \in Before(table, table[x].key, x) /\ j \in 0..(c - 1)
        BY <1>1, <2>7, <2>8, <2>9, <3>2, SameSteps DEF Before
      <4>2. table[j] # Empty
        BY <1>2, <2>8, <4>1 DEF Sound
      <4> QED
        BY <2>3, <2>7, <4>1, <4>2
    <3> QED
      BY <3>1, <3>2 DEF Sound
  <2>11. Shown(U) = [Shown(table) EXCEPT ![k] = v]
    <3>1. Slots(table, k) \subseteq {i} /\ Occupied(U) = Occupied(table) \cup {i}
      BY <1>3, <2>1, <2>8
    <3> QED
      BY <1>1, <1>2, <2>1, <2>2, <2>7, <2>8, <2>9, <2>10, <3>1, WriteShows
  <2>12. MapInv' /\ Shown(table)' = Shown(U)
    BY <1>1, <1>2, <1>5, <2>6, <2>7, <2>8, <2>10, NextState
  <2> QED
    BY <2>11, <2>12
<1> QED
  BY <1>4, <1>5 DEF Assign

\* erase() leaves a tombstone: nothing is EMPTY that was not.
LEMMA EraseStep ==
    ASSUME MapInv, NEW k \in Keys, Erase(k)
    PROVE  MapInv' /\ Shown(table)' = [Shown(table) EXCEPT ![k] = None]
<1>1. PICK c \in Nat : table \in Tables(c) /\ Slack(mapSize, c)
  BY DEF MapInv
<1>2. hash \in [Keys -> Nat] /\ Sound(table) /\ mapSize = Cardinality(Occupied(table))
  BY DEF MapInv
<1>3. FindSlot(table, k) = Slots(table, k) /\ \A i, j \in Slots(table, k) : i = j
  BY <1>1, <1>2, FindsSlots
<1>4. PICK i \in Slots(table, k) : /\ table' = [table EXCEPT ![i] = Erased]
                                   /\ mapSize' = mapSize - 1 /\ hash' = hash
  BY <1>3 DEF Erase
<1>5. i \in Occupied(table) /\ i \in 0..(c - 1) /\ table[i].key = k
  BY <1>1, TableDomain DEF Slots
<1>6. Erased \in SlotValues /\ Erased.meta # "OCCUPIED" /\ Erased # Empty
  BY DEF SlotValues, Erased, Empty
<1>7. PICK U : U = [table EXCEPT ![i] = Erased]
  OBVIOUS
<1>8. /\ U \in Tables(c) /\ DOMAIN U = 0..(c - 1) /\ U[i] = Erased
      /\ \A j \in 0..(c - 1) : j # i => U[j] = table[j]
  BY <1>1, <1>5, <1>6, <1>7 DEF Tables
<1>9. Occupied(U) = Occupied(table) \ {i} /\ \A j \in Occupied(U) : U[j] = table[j]
  BY <1>1, <1>5, <1>6, <1>8, TableDomain, ZenonT(60) DEF Occupied
<1>10. Sound(U)
  <2>1. \A x, y \in Occupied(U) : U[x].key = U[y].key => x = y
    BY <1>2, <1>9 DEF Sound
  <2>2. ASSUME NEW x \in Occupied(U), NEW j \in Before(U, U[x].key, x)
        PROVE  U[j] # Empty
    <3>1. j \in Before(table, table[x].key, x) /\ j \in 0..(c - 1)
      BY <1>1, <1>8, <1>9, <2>2, SameSteps DEF Before
    <3>2. table[j] # Empty
      BY <1>2, <1>9, <3>1 DEF Sound
    <3> QED
      BY <1>6, <1>8, <3>1, <3>2
  <2> QED
    BY <2>1, <2>2 DEF Sound
<1>11. Cardinality(Occupied(U)) = mapSize - 1
  <2>1. PICK O : O = Occupied(table) /\ IsFiniteSet(O) /\ i \in O
    BY <1>1, <1>5, TableDomain
  <2>2. Cardinality(O \ {i}) = Cardinality(O) - 1
    BY <2>1, FS_RemoveElement
  <2> QED
    BY <1>2, <1>9, <2>1, <2>2
<1>12. Shown(U) = [Shown(table) EXCEPT ![k] = None]
  <2>1. Slots(U, k) = {}
    BY <1>3, <1>9 DEF Slots
  <2>2. Shows(U, k) = None
    BY <1>2, <1>8, <1>10, <2>1, ShowsSlot
  <2>3. ASSUME NEW l \in Keys, l # k
        PROVE  Shows(U, l) = Shows(table, l)
    <3>1. Slots(U, l) = Slots(table, l) /\ \A j \in Slots(table, l) : U[j] = table[j]
      BY <1>5, <1>9, <2>3 DEF Slots
    <3>2. CASE Slots(table, l) = {}
      BY <1>1, <1>2, <1>8, <1>10, <3>1, <3>2, ShowsSlot
    <3>3. CASE Slots(table, l) # {}
      <4>1. PICK j \in Slots(table, l) : TRUE
        BY <3>3
      <4>2. Shows(table, l) = table[j].value /\ Shows(U, l) = U[j].value
        BY <1>1, <1>2, <1>8, <1>10, <3>1, <4>1, ShowsSlot
      <4> QED
        BY <3>1, <4>1, <4>2
    <3> QED
      BY <3>2, <3>3
  <2> QED
    BY <2>2, <2>3 DEF Shown
<1>13. Slack(mapSize', c)
  <2>1. mapSize \in Nat
    BY <1>1, <1>2, TableDomain
  <2> QED
    BY <1>1, <1>4, <2>1 DEF Slack
<1>14. MapInv' /\ Shown(table)' = Shown(U)
  BY <1>2, <1>4, <1>7, <1>8, <1>10, <1>11, <1>13, NextState
<1> QED
  BY <1>12, <1>14

LEMMA ClearStep ==
    ASSUME MapInv, MapClear
    PROVE  MapInv' /\ Shown(table)' = [k \in Keys |-> None]
<1>1. PICK c \in Nat : table \in Tables(c) /\ Slack(mapSize, c)
  BY DEF MapInv
<1>2. hash \in [Keys -> Nat] /\ hash' = hash /\ mapSize' = 0
  BY DEF MapInv, MapClear
<1>3. PICK U : U = NewTable(c)
  OBVIOUS
<1>4. table' = U
  BY <1>1, <1>3, TableDomain DEF MapClear, NewTable
<1>5. U \in Tables(c) /\ Occupied(U) = {}
  BY <1>3, NewTableEmpty
<1>6. Sound(U) /\ Cardinality(Occupied(U)) = 0 /\ \A k : Slots(U, k) = {}
  BY <1>5, FS_EmptySet DEF Sound, Slots
<1>7. Shown(U) = [k \in Keys |-> None]
  BY <1>2, <1>5, <1>6, ShowsSlot DEF Shown
<1>8. Slack(mapSize', c)
  BY <1>1, <1>2 DEF Slack
<1> QED
  BY <1>2, <1>4, <1>5, <1>6, <1>7, <1>8, NextState

LEMMA MapInitial ==
    ASSUME CapacityAssumption, MapInit
    PROVE  MapInv /\ Shown(table) = [k \in Keys |-> None]
<1>1. hash \in [Keys -> Nat] /\ table = NewTable(0) /\ mapSize = 0
  BY DEF MapInit, CapacityAssumption
<1>2. table \in Tables(0) /\ Occupied(table) = {}
  BY <1>1, NewTableEmpty
<1>3. Sound(table) /\ Cardinality(Occupied(table)) = 0 /\ \A k : Slots(table, k) = {}
  BY <1>2, FS_EmptySet DEF Sound, Slots
<1>4. Slack(0, 0)
  BY DEF Slack
<1> QED
  BY <1>1, <1>2, <1>3, <1>4, ShowsSlot DEF MapInv, Shown

\* A step of the table is a step of the map, or shows nothing.
LEMMA MapStep ==
    ASSUME CapacityAssumption, MapInv, [MapNext]_mapVars
    PROVE  /\ MapInv'
           /\ \/ \E k \in Keys, v \in Values : Shown(table)' = [Shown(table) EXCEPT ![k] = v]
              \/ \E k \in Keys : Shown(table)' = [Shown(table) EXCEPT ![k] = None]
              \/ Shown(table)' = [k \in Keys |-> None]
              \/ Shown(table)' = Shown(table)
<1>1. CASE UNCHANGED <<hash, table, mapSize>>
  <2>1. MapInv' = MapInv
    BY <1>1 DEF MapInv, Sound, Before, Distance, Capacity, Occupied
  <2>2. Shown(table)' = Shown(table)
    BY <1>1 DEF Shown, Shows, FindSlot, Before, Distance, Capacity, Slots, Occupied
  <2> QED
    BY <2>1, <2>2
<1>2. CASE Stopped \/ UNCHANGED mapVars \/ \E k \in Keys : Probe(k)
  BY <1>1, <1>2 DEF Stopped, Probe, mapVars
<1>3. CASE MapClear
  BY <1>3, ClearStep
<1>4. ASSUME NEW k \in Keys, Erase(k)
      PROVE  MapInv' /\ Shown(table)' = [Shown(table) EXCEPT ![k] = None]
  BY <1>4, EraseStep
<1>5. ASSUME NEW k \in Keys, NEW v \in Values, Assign(k, v)
      PROVE  MapInv' /\ Shown(table)' = [Shown(table) EXCEPT ![k] = v]
  BY <1>5, AssignStep
<1> QED
  BY <1>2, <1>3, <1>4, <1>5 DEF MapNext, Common

\* The table stays sound, with slack.
THEOREM MapInductive == ASSUME CapacityAssumption
                     PROVE  MapSpec => []MapInv
<1>1. MapInit => MapInv
  BY MapInitial
<1>2. MapInv /\ [MapNext]_mapVars => MapInv'
  BY MapStep
<1> QED
  BY <1>1, <1>2, PTL DEF MapSpec

\* A table without an EMPTY slot has a tombstone: entries alone never fill it.
THEOREM TombstonesBlock == ASSUME CapacityAssumption
                           PROVE  MapSpec => []OnlyTombstonesBlock
<1>1. ASSUME MapInv
      PROVE  OnlyTombstonesBlock
  <2>1. PICK c \in Nat : table \in Tables(c) /\ Slack(mapSize, c)
    BY <1>1 DEF MapInv
  <2>2. mapSize = Cardinality(Occupied(table))
    BY <1>1 DEF MapInv
  <2>3. DOMAIN table = 0..(c - 1)
    BY <2>1, TableDomain
  <2> SUFFICES ASSUME table # <<>>, \A i \in DOMAIN table : table[i] # Empty,
                      ~(\E i \in DOMAIN table : table[i] = Erased)
               PROVE  FALSE
    BY DEF OnlyTombstonesBlock
  <2>4. c # 0
    <3>1. ASSUME c = 0
          PROVE  table = <<>>
      <4>1. 0..(c - 1) = {} /\ 1..0 = {}
        BY <3>1
      <4>2. table \in [1..0 -> SlotValues]
        BY <2>1, <4>1 DEF Tables
      <4>3. table \in Seq(SlotValues) /\ Len(table) = 0
        BY <4>2
      <4> QED
        BY <4>3
    <3> QED
      BY <3>1
  <2>5. Occupied(table) = 0..(c - 1)
    <3>1. ASSUME NEW i \in 0..(c - 1)
          PROVE  table[i].meta = "OCCUPIED"
      <4>1. table[i] \in SlotValues /\ table[i] # Empty /\ table[i] # Erased
        BY <2>1, <2>3 DEF Tables
      <4> QED
        BY <4>1, SlotKinds
    <3> QED
      BY <2>3, <3>1 DEF Occupied
  <2>6. mapSize = c
    <3>1. Cardinality(0..(c - 1)) = IF 0 > c - 1 THEN 0 ELSE c - 1 - 0 + 1
      BY FS_Interval
    <3> QED
      BY <2>2, <2>4, <2>5, <3>1
  <2> QED
    BY <2>1, <2>4, <2>6 DEF Slack
<1> QED
  BY <1>1, MapInductive, PTL

\* The table is a map: every operation does to what lookups find what it does to
\* a finite map, growth and tombstones included.
THEOREM TableIsMap == ASSUME CapacityAssumption
                      PROVE  MapSpec => ImplementsMap
<1>1. Shown(table) = [k \in Keys |-> Value(k)]
  BY DEF Shown, Shows, Value
<1>2. Shown(table)' = [k \in Keys |-> Value(k)]'
  BY DEF Shown, Shows, Value
<1>3. MapInit => Contract!Init
  BY <1>1, MapInitial DEF Contract!Init
<1>4. MapInv /\ [MapNext]_mapVars => [Contract!Next]_([k \in Keys |-> Value(k)])
  <2> SUFFICES ASSUME MapInv, [MapNext]_mapVars
               PROVE  Contract!Next \/ [k \in Keys |-> Value(k)]' = [k \in Keys |-> Value(k)]
    OBVIOUS
  <2>1. \/ \E k \in Keys, v \in Values : Shown(table)' = [Shown(table) EXCEPT ![k] = v]
        \/ \E k \in Keys : Shown(table)' = [Shown(table) EXCEPT ![k] = None]
        \/ Shown(table)' = [k \in Keys |-> None]
        \/ Shown(table)' = Shown(table)
    BY MapStep
  <2>2. CASE \E k \in Keys, v \in Values : Shown(table)' = [Shown(table) EXCEPT ![k] = v]
    BY <1>1, <1>2, <2>2 DEF Contract!Next, Contract!Assign
  <2>3. CASE \E k \in Keys : Shown(table)' = [Shown(table) EXCEPT ![k] = None]
    BY <1>1, <1>2, <2>3 DEF Contract!Next, Contract!Erase
  <2>4. CASE Shown(table)' = [k \in Keys |-> None]
    BY <1>1, <1>2, <2>4 DEF Contract!Next, Contract!Clear
  <2>5. CASE Shown(table)' = Shown(table)
    BY <1>1, <1>2, <2>5
  <2> QED
    BY <2>1, <2>2, <2>3, <2>4, <2>5
<1> QED
  BY <1>3, <1>4, MapInductive, PTL DEF MapSpec, ImplementsMap, Contract!Spec

(***************************************************************************)
(* The linear memory.                                                      *)
(***************************************************************************)
IInv == TypeOK /\ BlocksDisjoint /\ Addressable /\ FramesNested /\ ScratchDisjoint

USE DEF Block, End, Overlap, Blocks, Larger

-----------------------------------------------------------------------------
\* What coalesceFreeBlocks() returns: blocks that do not overlap one another,
\* end where a block of F ended, and contain bytes of F only.
LEMMA CoalescedBlocks ==
    ASSUME NEW F, F \subseteq Blocks
    PROVE  /\ Coalesced(F) \subseteq Blocks
           /\ \A b \in Coalesced(F) : \E f \in F : b.off + b.len = f.off + f.len
  BY DEF Coalesced, Spans, MaximalRun

\* Each of them is a maximal run of bytes of F.
LEMMA CoalescedRun ==
    ASSUME NEW F, F \subseteq Blocks, NEW b \in Coalesced(F)
    PROVE  /\ \A x \in b.off..(b.off + b.len - 1) : Covered(F, x)
           /\ ~Covered(F, b.off - 1)
           /\ ~Covered(F, b.off + b.len)
<1>1. b \in Blocks  BY CoalescedBlocks
<1>2. MaximalRun(F, b)  BY DEF Coalesced
<1> QED  BY <1>1, <1>2 DEF MaximalRun

LEMMA CoalescedDisjoint ==
    ASSUME NEW F, F \subseteq Blocks,
           NEW b \in Coalesced(F), NEW c \in Coalesced(F), Overlap(b, c)
    PROVE  b = c
<1>1. b \in Blocks /\ c \in Blocks  BY CoalescedBlocks
<1>2. /\ \A x \in b.off..(b.off + b.len - 1) : Covered(F, x)
      /\ \A x \in c.off..(c.off + c.len - 1) : Covered(F, x)
      /\ ~Covered(F, b.off - 1) /\ ~Covered(F, c.off - 1)
      /\ ~Covered(F, b.off + b.len) /\ ~Covered(F, c.off + c.len)
  BY CoalescedRun
<1>3. b.off = c.off
  <2>1. ~(b.off < c.off)
    <3>1. SUFFICES ASSUME b.off < c.off PROVE FALSE  OBVIOUS
    <3>2. c.off - 1 \in b.off..(b.off + b.len - 1)  BY <1>1, <3>1
    <3> QED  BY <1>2, <3>2
  <2>2. ~(c.off < b.off)
    <3>1. SUFFICES ASSUME c.off < b.off PROVE FALSE  OBVIOUS
    <3>2. b.off - 1 \in c.off..(c.off + c.len - 1)  BY <1>1, <3>1
    <3> QED  BY <1>2, <3>2
  <2> QED  BY <1>1, <2>1, <2>2
<1>4. b.off + b.len = c.off + c.len
  <2>1. ~(b.off + b.len < c.off + c.len)
    <3>1. SUFFICES ASSUME b.off + b.len < c.off + c.len PROVE FALSE  OBVIOUS
    <3>2. b.off + b.len \in c.off..(c.off + c.len - 1)  BY <1>1, <3>1
    <3> QED  BY <1>2, <3>2
  <2>2. ~(c.off + c.len < b.off + b.len)
    <3>1. SUFFICES ASSUME c.off + c.len < b.off + b.len PROVE FALSE  OBVIOUS
    <3>2. c.off + c.len \in b.off..(b.off + b.len - 1)  BY <1>1, <3>1
    <3> QED  BY <1>2, <3>2
  <2> QED  BY <1>1, <2>1, <2>2
<1> QED  BY <1>1, <1>3, <1>4

LEMMA CoalescedWithin ==
    ASSUME NEW F, F \subseteq Blocks,
           NEW b \in Coalesced(F), NEW a \in Blocks, Overlap(a, b)
    PROVE  \E f \in F : Overlap(a, f)
<1>1. b \in Blocks  BY CoalescedBlocks
<1>2. PICK x \in Nat : /\ a.off <= x /\ x < a.off + a.len
                       /\ b.off <= x /\ x < b.off + b.len
  <2>1. CASE a.off <= b.off  BY <1>1, <2>1
  <2>2. CASE ~(a.off <= b.off)  BY <1>1, <2>2
  <2> QED  BY <2>1, <2>2
<1>3. Covered(F, x)
  <2>1. x \in b.off..(b.off + b.len - 1)  BY <1>1, <1>2
  <2> QED  BY <2>1, CoalescedRun
<1>4. PICK f \in F : f.off <= x /\ x < f.off + f.len  BY <1>3 DEF Covered
<1> QED  BY <1>2, <1>4

\* The heap's part of the invariant, for any two block lists and heap end.
HeapOK(A, F, h) ==
    /\ A \subseteq Blocks /\ F \subseteq Blocks
    /\ A \cap F = {}
    /\ \A a, b \in A \cup F : a # b => ~Overlap(a, b)
    /\ \A b \in A \cup F : b.off + b.len <= h

\* Coalescing the free list keeps it.
LEMMA CoalesceKeeps ==
    ASSUME NEW A, NEW F, NEW h, HeapOK(A, F, h)
    PROVE  HeapOK(A, Coalesced(F), h)
<1>1. /\ A \subseteq Blocks /\ F \subseteq Blocks
      /\ \A a, b \in A \cup F : a # b => ~Overlap(a, b)
      /\ \A b \in A \cup F : b.off + b.len <= h
      /\ A \cap F = {}
  BY DEF HeapOK
<1>2. Coalesced(F) \subseteq Blocks  BY <1>1, CoalescedBlocks
<1>3. ASSUME NEW a \in A, NEW b \in Coalesced(F) PROVE ~Overlap(a, b)
  <2>1. SUFFICES ASSUME Overlap(a, b) PROVE FALSE  OBVIOUS
  <2>2. PICK f \in F : Overlap(a, f)  BY <1>1, <2>1, CoalescedWithin
  <2>3. a # f  BY <1>1
  <2> QED  BY <1>1, <2>2, <2>3
<1>4. \A b, c \in Coalesced(F) : b # c => ~Overlap(b, c)  BY <1>1, CoalescedDisjoint
<1>5. \A b \in Coalesced(F) : b.off + b.len <= h  BY <1>1, CoalescedBlocks
<1>6. ASSUME NEW b \in A, b \in Coalesced(F) PROVE FALSE
  <2>1. b \in Blocks /\ Overlap(b, b)  BY <1>1, <1>6
  <2> QED  BY <1>3, <1>6, <2>1
<1>7. \A a \in A, b \in Coalesced(F) : ~Overlap(a, b) /\ ~Overlap(b, a)  BY <1>3
<1> QED  BY <1>1, <1>2, <1>4, <1>5, <1>6, <1>7 DEF HeapOK

-----------------------------------------------------------------------------
\* What a call of mallocBytes() returns and leaves behind.
LEMMA MallocEffect ==
    ASSUME IInv, NEW n \in Nat \ {0}, NEW a, NEW w \in Addresses, NEW freeNow,
           Malloc(n, a, w, freeNow)
    PROVE  /\ w >= bump
           /\ HeapOK(allocated \cup {Block(w, n)}, freeNow, heap')
           /\ Block(w, n) \notin allocated
           /\ heap' \in Nat /\ size' \in Nat
           /\ heap' <= size' /\ heap <= heap' /\ size <= size'
<1>0. /\ bump \in Nat /\ heap \in Nat /\ size \in Nat /\ w \in Nat /\ Block(w, n) \in Blocks
      /\ free \subseteq Blocks /\ allocated \subseteq Blocks
      /\ HeapOK(allocated, free, heap) /\ heap <= size
  BY DEF IInv, TypeOK, BlocksDisjoint, Addressable, Addresses, HeapOK
<1>1. CASE FromFreeBlock(n, a, w, freeNow)
  <2>1. PICK f \in free : Cuts(f, n, a, w) /\ freeNow = (free \ {f}) \cup Remainder(f, n, w)
    BY <1>1 DEF FromFreeBlock
  <2>2. f \in Blocks /\ f.off >= bump /\ w >= f.off /\ w + n <= f.off + f.len
    BY <1>0, <2>1 DEF Cuts, AlignsTo
  <2>3. UNCHANGED <<heap, size>>  BY <1>1 DEF FromFreeBlock
  <2>4. \A r \in Remainder(f, n, w) :
          /\ r \in Blocks
          /\ r.off >= f.off /\ r.off + r.len <= f.off + f.len
          /\ ~Overlap(r, Block(w, n))
    BY <1>0, <2>2 DEF Remainder
  <2>5. \A r, q \in Remainder(f, n, w) : r # q => ~Overlap(r, q)
    BY <1>0, <2>2 DEF Remainder
  <2>6. \A b \in (allocated \cup free) \ {f} : b \in Blocks /\ ~Overlap(b, f) /\ ~Overlap(f, b)
    BY <1>0, <2>1 DEF HeapOK
  <2>7. \A b \in (allocated \cup free) \ {f} :
          ~Overlap(b, Block(w, n)) /\ \A r \in Remainder(f, n, w) : ~Overlap(b, r)
    BY <1>0, <2>2, <2>4, <2>6
  <2>8. f \notin allocated /\ f.off + f.len <= heap  BY <1>0, <2>1 DEF HeapOK
  <2>9. Block(w, n) \notin allocated
    BY <1>0, <2>7, <2>8
  <2>10. HeapOK(allocated \cup {Block(w, n)}, freeNow, heap)
    <3>1. freeNow \subseteq Blocks /\ allocated \cup {Block(w, n)} \subseteq Blocks
      BY <1>0, <2>1, <2>4
    <3>2. (allocated \cup {Block(w, n)}) \cap freeNow = {}
      <4>1. allocated \cap (free \ {f}) = {}  BY <1>0 DEF HeapOK
      <4>2. allocated \cap Remainder(f, n, w) = {}  BY <1>0, <2>4, <2>7, <2>8
      <4>3. Block(w, n) \notin free \ {f}  BY <1>0, <2>7
      <4>4. Block(w, n) \notin Remainder(f, n, w)  BY <1>0, <2>4
      <4> QED  BY <2>1, <4>1, <4>2, <4>3, <4>4
    <3>3. \A x, y \in allocated \cup {Block(w, n)} \cup freeNow : x # y => ~Overlap(x, y)
      <4>1. \A x, y \in (allocated \cup free) \ {f} : x # y => ~Overlap(x, y)
        BY <1>0 DEF HeapOK
      <4>2. \A x \in (allocated \cup free) \ {f} :
              /\ ~Overlap(x, Block(w, n)) /\ ~Overlap(Block(w, n), x)
              /\ \A r \in Remainder(f, n, w) : ~Overlap(x, r) /\ ~Overlap(r, x)
        BY <2>7
      <4>3. \A r \in Remainder(f, n, w) : ~Overlap(r, Block(w, n)) /\ ~Overlap(Block(w, n), r)
        BY <2>4
      <4>4. \A x \in allocated \cup {Block(w, n)} \cup freeNow :
              \/ x \in (allocated \cup free) \ {f}
              \/ x = Block(w, n)
              \/ x \in Remainder(f, n, w)
        BY <2>1, <2>8
      <4> HIDE DEF Overlap, Block
      <4> QED  BY <2>5, <4>1, <4>2, <4>3, <4>4
    <3>4. \A x \in allocated \cup {Block(w, n)} \cup freeNow : x.off + x.len <= heap
      <4>1. \A x \in allocated \cup free : x.off + x.len <= heap  BY <1>0 DEF HeapOK
      <4>2. \A r \in Remainder(f, n, w) : r.off + r.len <= heap  BY <1>0, <2>2, <2>4, <2>8
      <4>3. w + n <= heap  BY <1>0, <2>2, <2>8
      <4> QED  BY <2>1, <4>1, <4>2, <4>3
    <3> QED  BY <3>1, <3>2, <3>3, <3>4 DEF HeapOK
  <2> QED  BY <1>0, <2>2, <2>3, <2>9, <2>10
<1>2. CASE FromHeapEnd(n, a, w, freeNow)
  <2>1. /\ w >= heap /\ w >= bump
        /\ heap' = w + n /\ size' = Larger(size, w + n) /\ freeNow = free
    BY <1>0, <1>2 DEF FromHeapEnd, AlignsTo
  <2>2. \A b \in allocated \cup free :
          b \in Blocks /\ b.off + b.len <= heap /\ ~Overlap(b, Block(w, n))
    BY <1>0, <2>1 DEF HeapOK
  <2>3. Block(w, n) \notin allocated \cup free  BY <1>0, <2>1, <2>2
  <2>4. HeapOK(allocated \cup {Block(w, n)}, freeNow, heap')
    BY <1>0, <2>1, <2>2, <2>3 DEF HeapOK
  <2> QED  BY <1>0, <2>1, <2>3, <2>4
<1> QED  BY <1>1, <1>2 DEF Malloc

-----------------------------------------------------------------------------
\* The two parts of the invariant: heap and arena.
LEMMA Parts ==
    IInv <=> /\ TypeOK /\ FramesNested /\ ScratchDisjoint
             /\ HeapOK(allocated, free, heap)
             /\ heap <= size /\ bump <= size
             /\ \A s \in scratch : s.off + s.len <= bump
  BY DEF IInv, TypeOK, BlocksDisjoint, Addressable, HeapOK

\* A step of the heap leaves the arena's part alone.
LEMMA HeapStep ==
    ASSUME IInv, UNCHANGED <<bump, marks, scratch>>,
           HeapOK(allocated', free', heap'),
           heap' \in Nat, size' \in Nat, heap' <= size', size <= size'
    PROVE  IInv'
<1>1. TypeOK'  BY DEF IInv, TypeOK, HeapOK
<1>2. FramesNested'  BY DEF IInv, FramesNested, Depth
<1>3. ScratchDisjoint'  BY DEF IInv, ScratchDisjoint
<1>4. BlocksDisjoint'  BY DEF HeapOK, BlocksDisjoint
<1>5. Addressable'  BY DEF IInv, TypeOK, Addressable, HeapOK
<1> QED  BY <1>1, <1>2, <1>3, <1>4, <1>5 DEF IInv

LEMMA InitIInv == Init => IInv
  BY DEF Init, IInv, TypeOK, BlocksDisjoint, Addressable, FramesNested, ScratchDisjoint, Depth

LEMMA AllocBytesStep ==
    ASSUME IInv, NEW n \in Counts, NEW a \in Alignments, AllocBytes(n, a)
    PROVE  IInv'
<1>1. PICK m \in Nat \ {0}, w \in Addresses :
        /\ Clear(w, m, a)
        /\ bump' = w + m
        /\ size' = Larger(size, w + m)
        /\ scratch' = scratch \cup {[off |-> w, len |-> m, depth |-> Depth]}
        /\ UNCHANGED <<heap, free, allocated, marks>>
  <2>1. Larger(n, 1) \in Nat \ {0}  BY CountsAssumption
  <2> QED  BY <2>1 DEF AllocBytes
<1>2. /\ w \in Nat /\ bump \in Nat /\ size \in Nat /\ heap \in Nat /\ w >= bump
      /\ marks \in Seq(Nat) /\ marks # <<>> /\ scratch \subseteq Regions
  BY <1>1 DEF IInv, TypeOK, Addresses, Clear
<1>3. Depth \in Nat \ {0}  BY <1>2 DEF Depth
<1> DEFINE r == [off |-> w, len |-> m, depth |-> Depth]
<1>4. TypeOK'  BY <1>1, <1>2, <1>3 DEF IInv, TypeOK, Regions
<1>5. BlocksDisjoint'  BY <1>1 DEF IInv, BlocksDisjoint
<1>6. Addressable'  BY <1>1, <1>2 DEF IInv, Addressable, Regions
<1>7. FramesNested'
  <2>1. \A i \in 1..Depth : marks[i] \in Nat /\ marks[i] <= bump
    BY <1>2 DEF IInv, FramesNested, Depth
  <2>2. /\ \A i, j \in 1..Depth : i <= j => marks[i] <= marks[j]
        /\ \A s \in scratch :
              /\ s.depth <= Depth
              /\ marks[s.depth] <= s.off
              /\ \A i \in 1..Depth : i > s.depth => s.off + s.len <= marks[i]
    BY DEF IInv, FramesNested
  <2>3. /\ r.depth <= Depth /\ marks[r.depth] <= r.off
        /\ \A i \in 1..Depth : ~(i > r.depth)
    BY <1>2, <1>3, <2>1
  <2>4. \A i \in 1..Depth : marks[i] <= bump'  BY <1>1, <1>2, <2>1
  <2>5. \A s \in scratch' : s \in scratch \/ s = r  BY <1>1
  <2>6. marks' = marks /\ Depth' = Depth  BY <1>1 DEF Depth
  <2> HIDE DEF r
  <2> QED  BY <2>2, <2>3, <2>4, <2>5, <2>6 DEF FramesNested
<1>8. ScratchDisjoint'
  <2>1. \A s \in scratch : ~Overlap(s, r) /\ ~Overlap(r, s)
    BY <1>2 DEF IInv, Addressable, Regions
  <2>2. \A s \in scratch' : s \in scratch \/ s = r  BY <1>1
  <2> HIDE DEF r, Overlap
  <2> QED  BY <2>1, <2>2 DEF IInv, ScratchDisjoint
<1> QED  BY <1>4, <1>5, <1>6, <1>7, <1>8 DEF IInv

LEMMA MallocBytesStep ==
    ASSUME IInv, NEW n \in Counts, NEW a \in Alignments, MallocBytes(n, a)
    PROVE  IInv'
<1>0. PICK m \in Nat \ {0}, w \in Addresses : \E freeNow \in FreeLists(m, w) :
        /\ Malloc(m, a, w, freeNow)
        /\ free' = freeNow
        /\ allocated' = allocated \cup {Block(w, m)}
        /\ UNCHANGED <<bump, marks, scratch>>
  <2>1. Larger(n, 1) \in Nat \ {0}  BY CountsAssumption
  <2> QED  BY <2>1 DEF MallocBytes
<1>1. PICK freeNow \in FreeLists(m, w) :
        /\ Malloc(m, a, w, freeNow)
        /\ free' = freeNow
        /\ allocated' = allocated \cup {Block(w, m)}
        /\ UNCHANGED <<bump, marks, scratch>>
  BY <1>0
<1>2. /\ HeapOK(allocated \cup {Block(w, m)}, freeNow, heap')
      /\ heap' \in Nat /\ size' \in Nat /\ heap' <= size' /\ size <= size'
  BY <1>1, MallocEffect
<1>3. HeapOK(allocated', free', heap')
  <2> HIDE DEF Block
  <2> QED  BY <1>1, <1>2 DEF HeapOK
<1> QED  BY <1>1, <1>2, <1>3, HeapStep

\* Giving a block back to a free list.
LEMMA Freed ==
    ASSUME NEW A, NEW F, NEW h, HeapOK(A, F, h), NEW b \in A
    PROVE  HeapOK(A \ {b}, Coalesced(F \cup {b}), h)
<1>1. HeapOK(A \ {b}, F \cup {b}, h)  BY DEF HeapOK
<1> QED  BY <1>1, CoalesceKeeps

LEMMA FreeBytesStep ==
    ASSUME IInv, NEW b, FreeBytes(b)
    PROVE  IInv'
<1>1. /\ b \in allocated
      /\ allocated' = allocated \ {b}
      /\ free' = Coalesced(free \cup {b})
      /\ UNCHANGED <<bump, heap, size, marks, scratch>>
  BY DEF FreeBytes
<1>2. HeapOK(allocated, free, heap) /\ heap <= size /\ heap \in Nat /\ size \in Nat
  BY Parts DEF IInv, TypeOK
<1>3. HeapOK(allocated \ {b}, Coalesced(free \cup {b}), heap)  BY <1>1, <1>2, Freed
<1>4. HeapOK(allocated', free', heap')  BY <1>1, <1>3
<1> QED  BY <1>1, <1>2, <1>4, HeapStep

LEMMA ShrinkStep ==
    ASSUME IInv, NEW b, NEW n \in Counts, Shrink(b, n)
    PROVE  IInv'
<1> DEFINE tail == {f \in {Block(b.off + n, b.len - n)} : f.len > 0}
           A == (allocated \ {b}) \cup {Block(b.off, n)}
<1>1. /\ b \in allocated /\ n \in Nat /\ n > 0 /\ n <= b.len
      /\ allocated' = A
      /\ free' = Coalesced(free \cup tail)
      /\ UNCHANGED <<bump, heap, size, marks, scratch>>
  BY CountsAssumption DEF Shrink
<1>2. HeapOK(allocated, free, heap) /\ heap <= size /\ heap \in Nat /\ size \in Nat
  BY Parts DEF IInv, TypeOK
<1>3. b \in Blocks  BY <1>1, <1>2 DEF HeapOK
<1>4. HeapOK(A, free \cup tail, heap)
  <2>1. \A x \in (allocated \cup free) \ {b} :
          x \in Blocks /\ ~Overlap(x, b) /\ x.off + x.len <= heap
    BY <1>1, <1>2 DEF HeapOK
  <2>2. b.off + b.len <= heap /\ b \notin free  BY <1>1, <1>2 DEF HeapOK
  <2>3. /\ Block(b.off, n) \in Blocks /\ tail \subseteq Blocks
        /\ \A t \in tail : t.off >= b.off + n /\ t.off + t.len = b.off + b.len
        /\ \A t, u \in tail : t = u
    BY <1>1, <1>3
  <2>4. \A x \in (allocated \cup free) \ {b} :
          /\ ~Overlap(x, Block(b.off, n)) /\ ~Overlap(Block(b.off, n), x)
          /\ \A t \in tail : ~Overlap(x, t) /\ ~Overlap(t, x)
    <3> HIDE DEF tail
    <3> QED  BY <1>1, <1>3, <2>1, <2>3
  <2>5. \A t \in tail : ~Overlap(t, Block(b.off, n)) /\ ~Overlap(Block(b.off, n), t)
    BY <1>1, <1>3
  <2>6. \A x, y \in (allocated \cup free) \ {b} : x # y => ~Overlap(x, y)
    BY <1>2 DEF HeapOK
  <2>7. \A x \in A \cup free \cup tail :
          x \in (allocated \cup free) \ {b} \/ x = Block(b.off, n) \/ x \in tail
    BY <2>2
  <2>8. A \subseteq Blocks /\ free \cup tail \subseteq Blocks  BY <1>2, <2>3 DEF HeapOK
  <2>9. \A x, y \in A \cup free \cup tail : x # y => ~Overlap(x, y)
    <3> HIDE DEF tail, A, Overlap, Block
    <3> QED  BY <2>3, <2>4, <2>5, <2>6, <2>7
  <2>10. A \cap (free \cup tail) = {}
    <3>1. allocated \cap free = {}  BY <1>2 DEF HeapOK
    <3>2. \A x \in Blocks : Overlap(x, x)  OBVIOUS
    <3>3. Block(b.off, n) \notin free  BY <2>1, <2>2, <2>3, <2>4, <3>2
    <3>4. Block(b.off, n) \notin tail  BY <2>3, <2>5, <3>2
    <3>5. \A t \in tail : t \notin allocated \ {b}
      <4> HIDE DEF tail
      <4> QED  BY <2>3, <2>4, <3>2
    <3> HIDE DEF tail, Block
    <3> QED  BY <3>1, <3>3, <3>4, <3>5
  <2>11. \A x \in A \cup free \cup tail : x.off + x.len <= heap
    <3>1. Block(b.off, n).off + Block(b.off, n).len <= heap
      BY <1>1, <1>2, <1>3, <2>2
    <3>2. \A t \in tail : t.off + t.len <= heap  BY <2>2, <2>3
    <3> HIDE DEF tail, A, Block
    <3> QED  BY <2>1, <2>7, <3>1, <3>2
  <2> HIDE DEF tail, A
  <2> QED  BY <2>8, <2>9, <2>10, <2>11 DEF HeapOK
<1>5. HeapOK(A, Coalesced(free \cup tail), heap)
  <2> HIDE DEF tail, A
  <2> QED  BY <1>4, CoalesceKeeps
<1>6. HeapOK(allocated', free', heap')
  <2> HIDE DEF tail, A
  <2> QED  BY <1>1, <1>5
<1> QED  BY <1>1, <1>2, <1>6, HeapStep

LEMMA GrowInPlaceStep ==
    ASSUME IInv, NEW b, NEW n \in Counts, GrowInPlace(b, n)
    PROVE  IInv'
<1>1. PICK f \in Behind(b, n) :
        free' = (free \ {f}) \cup {g \in {Block(b.off + n, End(f) - (b.off + n))} : g.len > 0}
  BY DEF GrowInPlace
<1> DEFINE rest == {g \in {Block(b.off + n, End(f) - (b.off + n))} : g.len > 0}
           others == (allocated \cup free) \ {b, f}
           new == Block(b.off, n)
<1>2. /\ b \in allocated /\ n \in Nat /\ n > b.len
      /\ allocated' = (allocated \ {b}) \cup {new}
      /\ UNCHANGED <<bump, heap, size, marks, scratch>>
      /\ free' = (free \ {f}) \cup rest
      /\ f \in free /\ f.off = b.off + b.len /\ f.len >= n - b.len
  BY <1>1, CountsAssumption DEF GrowInPlace, Behind
<1>3. HeapOK(allocated, free, heap) /\ heap <= size /\ heap \in Nat /\ size \in Nat
  BY Parts DEF IInv, TypeOK
<1>4. b \in Blocks /\ f \in Blocks /\ f.off + f.len <= heap  BY <1>2, <1>3 DEF HeapOK
<1>5. /\ b \notin free /\ f \notin allocated
      /\ \A x, y \in others : x # y => ~Overlap(x, y)
      /\ \A x \in others : /\ x \in Blocks /\ x.off + x.len <= heap
                           /\ ~Overlap(x, b) /\ ~Overlap(x, f)
  BY <1>2, <1>3 DEF HeapOK
<1>6. /\ new \in Blocks /\ new.off + new.len <= heap
      /\ rest \subseteq Blocks
      /\ \A t \in rest : t.off = b.off + n /\ t.off + t.len = f.off + f.len
      /\ \A t, u \in rest : t = u
  <2>1. /\ b.off \in Nat /\ b.len \in Nat \ {0} /\ n \in Nat /\ n > b.len /\ heap \in Nat
        /\ f.off \in Nat /\ f.len \in Nat \ {0}
        /\ f.off = b.off + b.len /\ f.len >= n - b.len /\ f.off + f.len <= heap
    BY <1>2, <1>3, <1>4
  <2>2. new \in Blocks /\ b.off + n <= heap  BY <2>1
  <2>3. rest \subseteq Blocks  BY <2>1
  <2>4. \A t \in rest : t.off = b.off + n /\ t.off + t.len = f.off + f.len  BY <2>1
  <2>5. \A t, u \in rest : t = u  OBVIOUS
  <2> QED  BY <2>2, <2>3, <2>4, <2>5
<1>7. \A x \in others :
        /\ ~Overlap(x, new) /\ ~Overlap(new, x)
        /\ \A t \in rest : ~Overlap(x, t) /\ ~Overlap(t, x)
  <2> HIDE DEF rest, others
  <2> QED  BY <1>2, <1>4, <1>5, <1>6
<1>8. \A t \in rest : ~Overlap(t, new) /\ ~Overlap(new, t)
  BY <1>2, <1>4
<1>9. /\ allocated' \subseteq others \cup {new}
      /\ free' \subseteq others \cup rest
  <2> HIDE DEF rest, new
  <2> QED  BY <1>2, <1>5
<1>10. \A x \in Blocks : Overlap(x, x)  OBVIOUS
<1>11. HeapOK(allocated', free', heap')
  <2>1. allocated' \subseteq Blocks /\ free' \subseteq Blocks
    <3> HIDE DEF rest, others, new
    <3> QED  BY <1>5, <1>6, <1>9
  <2>2. \A x, y \in allocated' \cup free' : x # y => ~Overlap(x, y)
    <3>1. \A x \in allocated' \cup free' : x \in others \/ x = new \/ x \in rest
      BY <1>9
    <3> HIDE DEF rest, others, new, Overlap, Blocks, Block
    <3> QED  BY <1>5, <1>6, <1>7, <1>8, <3>1
  <2>3. \A x \in allocated' \cup free' : x.off + x.len <= heap'
    <3>1. \A t \in rest : t.off + t.len <= heap  BY <1>4, <1>6
    <3> HIDE DEF rest, others, new, Blocks, Block
    <3> QED  BY <1>2, <1>5, <1>6, <1>9, <3>1
  <2>4. allocated' \cap free' = {}
    <3>1. allocated \cap free = {}  BY <1>3 DEF HeapOK
    <3>2. new \notin others /\ new \notin rest
      <4> HIDE DEF rest, others, new
      <4> QED  BY <1>6, <1>7, <1>8, <1>10
    <3>3. \A t \in rest : t \notin others
      <4> HIDE DEF rest, others, new
      <4> QED  BY <1>6, <1>7, <1>10
    <3>4. \A x \in allocated' \cap free' : x \in others /\ x \in allocated /\ x \in free
      <4> HIDE DEF rest, new
      <4> QED  BY <1>2, <1>5, <1>9, <3>2, <3>3
    <3> QED  BY <3>1, <3>4
  <2> QED  BY <2>1, <2>2, <2>3, <2>4 DEF HeapOK
<1> QED  BY <1>2, <1>3, <1>11, HeapStep

LEMMA MoveStep ==
    ASSUME IInv, NEW b, NEW n \in Counts, Move(b, n)
    PROVE  IInv'
<1>0. PICK w \in Addresses : \E freeNow \in FreeLists(n, w) :
        /\ Malloc(n, 1, w, freeNow)
        /\ free' = Coalesced(freeNow \cup {b})
        /\ allocated' = (allocated \ {b}) \cup {Block(w, n)}
  BY DEF Move
<1>1. PICK freeNow \in FreeLists(n, w) :
        /\ Malloc(n, 1, w, freeNow)
        /\ free' = Coalesced(freeNow \cup {b})
        /\ allocated' = (allocated \ {b}) \cup {Block(w, n)}
  BY <1>0
<1>2. /\ b \in allocated /\ n > b.len
      /\ UNCHANGED <<bump, marks, scratch>>
  BY DEF Move
<1>3. n \in Nat \ {0}
  <2>1. n \in Nat /\ b.len \in Nat  BY <1>2, CountsAssumption DEF IInv, TypeOK
  <2> QED  BY <1>2, <2>1
<1>4. /\ HeapOK(allocated \cup {Block(w, n)}, freeNow, heap')
      /\ Block(w, n) \notin allocated
      /\ heap' \in Nat /\ size' \in Nat /\ heap' <= size' /\ size <= size'
  BY <1>1, <1>3, MallocEffect
<1>5. HeapOK((allocated \cup {Block(w, n)}) \ {b}, Coalesced(freeNow \cup {b}), heap')
  <2> HIDE DEF Block
  <2> QED  BY <1>2, <1>4, Freed
<1>6. (allocated \cup {Block(w, n)}) \ {b} = allocated'
  <2> HIDE DEF Block
  <2> QED  BY <1>1, <1>2, <1>4
<1>7. HeapOK(allocated', free', heap')  BY <1>1, <1>5, <1>6
<1> QED  BY <1>2, <1>4, <1>7, HeapStep

\* The marks, as Enter and Leave change them.
LEMMA Pushed ==
    ASSUME NEW m \in Seq(Nat), NEW x \in Nat, NEW n, n = Append(m, x)
    PROVE  /\ n \in Seq(Nat) /\ n # <<>> /\ Len(n) = Len(m) + 1
           /\ \A i \in 1..Len(m) : n[i] = m[i]
           /\ n[Len(m) + 1] = x
  OBVIOUS

LEMMA NotEmpty ==
    ASSUME NEW m \in Seq(Nat), Len(m) >= 1
    PROVE  m # <<>>
  OBVIOUS

LEMMA Popped ==
    ASSUME NEW m \in Seq(Nat), Len(m) > 1, NEW n, n = SubSeq(m, 1, Len(m) - 1)
    PROVE  /\ n \in Seq(Nat) /\ n # <<>> /\ Len(n) = Len(m) - 1
           /\ \A i \in 1..(Len(m) - 1) : n[i] = m[i]
<1>1. Len(m) \in Nat /\ \A i \in 1..(Len(m) - 1) : m[i] \in Nat  OBVIOUS
<1> DEFINE k == Len(m) - 1
<1>2. k \in Int /\ k >= 1 /\ \A i \in 1..k : m[i] \in Nat  BY <1>1
<1> HIDE DEF k
<1>3. /\ SubSeq(m, 1, k) \in Seq(Nat)
      /\ Len(SubSeq(m, 1, k)) = IF 1 <= k THEN k - 1 + 1 ELSE 0
      /\ \A i \in 1..(k - 1 + 1) : SubSeq(m, 1, k)[i] = m[1 + i - 1]
  BY <1>2, SubSeqProperties
<1>4. n = SubSeq(m, 1, k)  BY DEF k
<1>5. n \in Seq(Nat) /\ Len(n) = k /\ \A i \in 1..k : n[i] = m[i]
  BY <1>2, <1>3, <1>4
<1>6. Len(n) >= 1  BY <1>2, <1>5
<1>7. n # <<>>  BY <1>5, <1>6, NotEmpty
<1> QED  BY <1>5, <1>7 DEF k

\* FramesNested of any marks, arena end and scratch.
Nested(m, e, S) ==
    /\ \A i, j \in 1..Len(m) : i <= j => m[i] <= m[j]
    /\ \A i \in 1..Len(m) : m[i] <= e
    /\ \A s \in S :
          /\ s.depth <= Len(m)
          /\ m[s.depth] <= s.off
          /\ \A i \in 1..Len(m) : i > s.depth => s.off + s.len <= m[i]

LEMMA NestedIsFramesNested == FramesNested <=> Nested(marks, bump, scratch)
  BY DEF FramesNested, Nested, Depth

LEMMA PushedNested ==
    ASSUME NEW m \in Seq(Nat), m # <<>>, NEW e \in Nat, NEW S \in SUBSET Regions, Nested(m, e, S),
           \A s \in S : s.off + s.len <= e
    PROVE  Nested(Append(m, e), e, S)
<1> DEFINE n == Append(m, e)
<1>1. /\ n \in Seq(Nat) /\ Len(n) = Len(m) + 1 /\ Len(m) \in Nat
      /\ \A i \in 1..Len(m) : n[i] = m[i] /\ m[i] \in Nat
      /\ n[Len(m) + 1] = e
  BY Pushed
<1> HIDE DEF n
<1>2. \A i \in 1..Len(n) : i \in 1..Len(m) \/ i = Len(m) + 1  BY <1>1
<1>3. \A i \in 1..Len(n) : n[i] <= e  BY <1>1, <1>2 DEF Nested
<1>4. \A i, j \in 1..Len(n) : i <= j => n[i] <= n[j]
  <2>1. SUFFICES ASSUME NEW i \in 1..Len(n), NEW j \in 1..Len(n), i <= j PROVE n[i] <= n[j]
    OBVIOUS
  <2>2. CASE j = Len(m) + 1  BY <1>1, <1>3, <2>2
  <2>3. CASE j \in 1..Len(m)
    <3>1. i \in 1..Len(m)  BY <1>1, <2>1, <2>3
    <3> QED  BY <1>1, <2>1, <2>3, <3>1 DEF Nested
  <2> QED  BY <1>2, <2>2, <2>3
<1>5. ASSUME NEW s \in S
      PROVE  /\ s.depth <= Len(n)
             /\ n[s.depth] <= s.off
             /\ \A i \in 1..Len(n) : i > s.depth => s.off + s.len <= n[i]
  <2>1. s.depth \in 1..Len(m) /\ m[s.depth] <= s.off  BY <1>1 DEF Nested, Regions
  <2>2. \A i \in 1..Len(m) : i > s.depth => s.off + s.len <= n[i]  BY <1>1 DEF Nested
  <2>3. s.off + s.len <= n[Len(m) + 1]  BY <1>1
  <2>4. s.depth <= Len(n) /\ n[s.depth] <= s.off  BY <1>1, <2>1
  <2>5. ASSUME NEW i \in 1..Len(n), i > s.depth
        PROVE  s.off + s.len <= n[i]
    <3>1. CASE i \in 1..Len(m)  BY <1>1, <2>2, <2>5, <3>1
    <3>2. CASE i = Len(m) + 1  BY <2>3, <3>2
    <3> QED  BY <1>2, <3>1, <3>2
  <2> QED  BY <2>4, <2>5
<1>6. Nested(n, e, S)  BY <1>3, <1>4, <1>5 DEF Nested
<1> QED  BY <1>6 DEF n

LEMMA PoppedNested ==
    ASSUME NEW m \in Seq(Nat), Len(m) > 1, NEW e, NEW S \in SUBSET Regions, Nested(m, e, S)
    PROVE  /\ Nested(SubSeq(m, 1, Len(m) - 1), m[Len(m)], {s \in S : s.depth < Len(m)})
           /\ \A s \in {s \in S : s.depth < Len(m)} : s.off + s.len <= m[Len(m)]
<1> DEFINE n == SubSeq(m, 1, Len(m) - 1)
           R == {s \in S : s.depth < Len(m)}
<1>1. /\ n \in Seq(Nat) /\ Len(n) = Len(m) - 1 /\ Len(m) \in Nat
      /\ \A i \in 1..(Len(m) - 1) : n[i] = m[i]
  BY Popped
<1> HIDE DEF n
<1>2. \A i \in 1..Len(n) : i \in 1..Len(m) /\ i <= Len(m) /\ n[i] = m[i]  BY <1>1
<1>3. Len(m) \in 1..Len(m)  BY <1>1
<1>4. \A i \in 1..Len(n) : n[i] <= m[Len(m)]  BY <1>2, <1>3 DEF Nested
<1>5. \A i, j \in 1..Len(n) : i <= j => n[i] <= n[j]  BY <1>2 DEF Nested
<1>6. ASSUME NEW s \in R
      PROVE  /\ s.depth <= Len(n)
             /\ n[s.depth] <= s.off
             /\ \A i \in 1..Len(n) : i > s.depth => s.off + s.len <= n[i]
             /\ s.off + s.len <= m[Len(m)]
  <2>1. s \in S /\ s.depth \in 1..Len(n) /\ s.depth < Len(m)  BY <1>1 DEF Regions
  <2>2. /\ m[s.depth] <= s.off
        /\ \A i \in 1..Len(m) : i > s.depth => s.off + s.len <= m[i]
    BY <2>1 DEF Nested
  <2>3. s.depth <= Len(n) /\ n[s.depth] <= s.off
    <3>1. n[s.depth] = m[s.depth]  BY <1>2, <2>1
    <3>2. s.depth <= Len(n)  BY <1>1, <2>1
    <3> QED  BY <2>2, <3>1, <3>2
  <2>4. \A i \in 1..Len(n) : i > s.depth => s.off + s.len <= n[i]  BY <1>2, <2>2
  <2>5. s.off + s.len <= m[Len(m)]  BY <1>3, <2>1, <2>2
  <2> QED  BY <2>3, <2>4, <2>5
<1>7. Nested(n, m[Len(m)], R)  BY <1>4, <1>5, <1>6 DEF Nested
<1> QED  BY <1>6, <1>7 DEF n

LEMMA EnterStep == IInv /\ Enter => IInv'
<1> SUFFICES ASSUME IInv, Enter PROVE IInv'  OBVIOUS
<1>1. /\ marks' = Append(marks, bump)
      /\ UNCHANGED <<bump, heap, size, free, allocated, scratch>>
  BY DEF Enter
<1>2. /\ marks \in Seq(Nat) /\ marks # <<>> /\ bump \in Nat /\ scratch \in SUBSET Regions
      /\ \A s \in scratch : s.off + s.len <= bump
  BY DEF IInv, TypeOK, Addressable
<1>3. marks' \in Seq(Nat) /\ marks' # <<>>  BY <1>1, <1>2, Pushed
<1>4. TypeOK'  BY <1>1, <1>3 DEF IInv, TypeOK
<1>5. BlocksDisjoint' /\ Addressable' /\ ScratchDisjoint'
  BY <1>1 DEF IInv, BlocksDisjoint, Addressable, ScratchDisjoint
<1>6. FramesNested'
  <2>1. Nested(marks, bump, scratch)  BY NestedIsFramesNested DEF IInv
  <2>2. Nested(Append(marks, bump), bump, scratch)  BY <1>2, <2>1, PushedNested
  <2>3. Nested(marks', bump', scratch')  BY <1>1, <2>2
  <2> QED  BY <2>3 DEF FramesNested, Nested, Depth
<1> QED  BY <1>4, <1>5, <1>6 DEF IInv

LEMMA LeaveStep == IInv /\ Leave => IInv'
<1> SUFFICES ASSUME IInv, Leave PROVE IInv'  OBVIOUS
<1>1. /\ bump \in Nat /\ heap \in Nat /\ size \in Nat
      /\ marks \in Seq(Nat) /\ scratch \in SUBSET Regions
      /\ Nested(marks, bump, scratch)
  BY NestedIsFramesNested DEF IInv, TypeOK
<1>2. /\ Len(marks) \in Nat /\ Len(marks) > 1
      /\ marks[Len(marks)] \in Nat /\ marks[Len(marks)] <= bump
  BY <1>1 DEF Leave, Depth, Nested
<1>3. /\ bump' = marks[Len(marks)] /\ size' = Larger(marks[Len(marks)], heap)
      /\ marks' = SubSeq(marks, 1, Len(marks) - 1)
      /\ scratch' = {s \in scratch : s.depth < Len(marks)}
      /\ UNCHANGED <<heap, free, allocated>>
  BY <1>1, <1>2 DEF Leave, Depth
<1>4. marks' \in Seq(Nat) /\ marks' # <<>>  BY <1>1, <1>2, <1>3, Popped
<1>5. /\ Nested(marks', bump', scratch')
      /\ \A s \in scratch' : s.off + s.len <= bump'
  BY <1>1, <1>2, <1>3, PoppedNested
<1>6. TypeOK'  BY <1>1, <1>2, <1>3, <1>4 DEF IInv, TypeOK
<1>7. BlocksDisjoint'  BY <1>3 DEF IInv, BlocksDisjoint
<1>8. Addressable'
  <2>1. \A x \in allocated' \cup free' : x.off + x.len <= heap'
    BY <1>3 DEF IInv, Addressable
  <2> QED  BY <1>1, <1>2, <1>3, <1>5, <2>1 DEF Addressable
<1>9. FramesNested'  BY <1>5 DEF FramesNested, Nested, Depth
<1>10. ScratchDisjoint'  BY <1>3 DEF IInv, ScratchDisjoint
<1> QED  BY <1>6, <1>7, <1>8, <1>9, <1>10 DEF IInv

-----------------------------------------------------------------------------
LEMMA NextIInv == IInv /\ [Next]_vars => IInv'
<1> SUFFICES ASSUME IInv, [Next]_vars PROVE IInv'  OBVIOUS
<1>1. ASSUME NEW n \in Counts, NEW a \in Alignments, AllocBytes(n, a) PROVE IInv'
  BY <1>1, AllocBytesStep
<1>2. ASSUME NEW n \in Counts, NEW a \in Alignments, MallocBytes(n, a) PROVE IInv'
  BY <1>2, MallocBytesStep
<1>3. ASSUME NEW b \in allocated, FreeBytes(b) PROVE IInv'
  BY <1>3, FreeBytesStep
<1>4. ASSUME NEW b \in allocated, NEW n \in Counts, ReallocBytes(b, n) PROVE IInv'
  BY <1>4, FreeBytesStep, ShrinkStep, GrowInPlaceStep, MoveStep DEF ReallocBytes
<1>5. CASE Enter  BY <1>5, EnterStep
<1>6. CASE Leave  BY <1>6, LeaveStep
<1>7. CASE UNCHANGED vars
  BY <1>7 DEF vars, IInv, TypeOK, BlocksDisjoint, Addressable, FramesNested, ScratchDisjoint, Depth
<1> QED  BY <1>1, <1>2, <1>3, <1>4, <1>5, <1>6, <1>7 DEF Next

LEMMA Invariance == Spec => []IInv
  BY InitIInv, NextIInv, PTL DEF Spec

\* The memory's variables have their types.
THEOREM TypeCorrect == Spec => []TypeOK
<1>1. IInv => TypeOK  BY DEF IInv
<1> QED  BY Invariance, <1>1, PTL

\* No heap byte is in two blocks, whatever is allocated, resized and freed.
THEOREM HeapBlocksDisjoint == Spec => []BlocksDisjoint
<1>1. IInv => BlocksDisjoint  BY DEF IInv
<1> QED  BY Invariance, <1>1, PTL

\* What is allocated stays within the memory when frames truncate it.
THEOREM StaysAddressable == Spec => []Addressable
<1>1. IInv => Addressable  BY DEF IInv
<1> QED  BY Invariance, <1>1, PTL

\* A frame that exits releases nothing of its callers.
THEOREM ReleasesOwnScratch == Spec => []FramesNested
<1>1. IInv => FramesNested  BY DEF IInv
<1> QED  BY Invariance, <1>1, PTL

\* Live arena allocations never share a byte.
THEOREM ArenaDisjoint == Spec => []ScratchDisjoint
<1>1. IInv => ScratchDisjoint  BY DEF IInv
<1> QED  BY Invariance, <1>1, PTL

-----------------------------------------------------------------------------
\* Only realloc() growing in place can make arena and heap meet.
LEMMA MeetByGrowth ==
    ASSUME IInv, [Next]_vars, ArenaHeapDisjoint, ~ArenaHeapDisjoint'
    PROVE  \E b \in allocated, n \in Counts : GrowInPlace(b, n)
<1> USE DEF ArenaHeapDisjoint
<1>0. /\ bump \in Nat /\ scratch \subseteq Regions /\ allocated \subseteq Blocks
      /\ \A s \in scratch : s.off + s.len <= bump
  BY DEF IInv, TypeOK, Addressable
<1>1. ASSUME NEW n \in Counts, NEW a \in Alignments, AllocBytes(n, a) PROVE FALSE
  <2>1. PICK m \in Nat \ {0}, w \in Addresses :
          /\ \A b \in allocated : ~Overlap(Block(w, m), b)
          /\ scratch' = scratch \cup {[off |-> w, len |-> m, depth |-> Depth]}
          /\ UNCHANGED allocated
    <3>1. Larger(n, 1) \in Nat \ {0}  BY CountsAssumption
    <3> QED  BY <1>1, <3>1 DEF AllocBytes, Clear
  <2> QED  BY <2>1
<1>2. ASSUME NEW n \in Nat \ {0}, NEW a, NEW w \in Addresses, NEW freeNow, Malloc(n, a, w, freeNow),
             allocated' \subseteq allocated \cup {Block(w, n)}, UNCHANGED scratch
      PROVE  FALSE
  <2>1. w >= bump  BY <1>2, MallocEffect
  <2>2. w \in Nat  BY MaxSizeAssumption DEF Addresses
  <2>3. \A s \in scratch : ~Overlap(s, Block(w, n))  BY <1>0, <2>1, <2>2 DEF Regions
  <2> HIDE DEF Block, Overlap
  <2> QED  BY <1>2, <2>3
<1>3. ASSUME NEW n \in Counts, NEW a \in Alignments, MallocBytes(n, a) PROVE FALSE
  <2>1. Larger(n, 1) \in Nat \ {0}  BY CountsAssumption
  <2> QED  BY <1>2, <1>3, <2>1 DEF MallocBytes
<1>4. ASSUME NEW b \in allocated, FreeBytes(b) PROVE FALSE
  BY <1>4 DEF FreeBytes
<1>5. ASSUME NEW b \in allocated, NEW n \in Counts, Shrink(b, n) PROVE FALSE
  <2>1. /\ n \in Nat /\ n > 0 /\ n <= b.len /\ b \in Blocks
        /\ allocated' = (allocated \ {b}) \cup {Block(b.off, n)} /\ UNCHANGED scratch
    BY <1>0, <1>5, CountsAssumption DEF Shrink
  <2>2. \A s \in scratch : ~Overlap(s, Block(b.off, n))  BY <1>0, <2>1 DEF Regions
  <2> HIDE DEF Block, Overlap
  <2> QED  BY <2>1, <2>2
<1>6. ASSUME NEW b \in allocated, NEW n \in Counts, Move(b, n) PROVE FALSE
  <2>1. n \in Nat /\ b.len \in Nat /\ n > b.len  BY <1>0, <1>6, CountsAssumption DEF Move
  <2>2. PICK w \in Addresses : \E freeNow \in FreeLists(n, w) :
          /\ Malloc(n, 1, w, freeNow)
          /\ allocated' = (allocated \ {b}) \cup {Block(w, n)}
          /\ UNCHANGED scratch
    BY <1>6 DEF Move
  <2> QED  BY <1>2, <2>1, <2>2
<1>7. CASE Enter  BY <1>7 DEF Enter
<1>8. CASE Leave  BY <1>8 DEF Leave
<1>9. CASE UNCHANGED vars  BY <1>9 DEF vars
<1> QED
  BY <1>1, <1>3, <1>4, <1>5, <1>6, <1>7, <1>8, <1>9 DEF Next, ReallocBytes

\* Arena and heap stay apart as long as no realloc() grows a block in place.
THEOREM GrowthAlone == Spec => OnlyGrowthOverlaps
<1>1. IInv /\ [Next]_vars =>
        [ ArenaHeapDisjoint /\ ~ArenaHeapDisjoint' =>
            \E b \in allocated, n \in Counts : GrowInPlace(b, n) ]_vars
  BY MeetByGrowth
<1> QED  BY Invariance, <1>1, PTL DEF Spec, OnlyGrowthOverlaps

(***************************************************************************)
(* The virtual machine beside native code.                                 *)
(***************************************************************************)
\* A function on the first numbers is a sequence.
LEMMA FunctionSeq == ASSUME NEW S, NEW n \in Nat, NEW s \in [1..n -> S]
                     PROVE  s \in Seq(S) /\ Len(s) = n /\ DOMAIN s = 1..n
  OBVIOUS

(***************************************************************************)
(* Layout.                                                                 *)
(***************************************************************************)
Types == {"int", "flt", "pair", "ref"}

\* A slot has one or two cells.
LEMMA SizeType == \A t : layoutSize(t) \in 1..2 /\ (t # "pair" => layoutSize(t) = 1)
  BY DEF layoutSize

\* Offset is the recursive function it is written as.
LEMMA OffsetFunction ==
    ASSUME NEW types \in Seq(Types)
    PROVE  \E from \in [1..(Len(types) + 1) -> Nat] :
             /\ from[1] = 0
             /\ \A n \in 1..Len(types) : from[n + 1] = from[n] + layoutSize(types[n])
             /\ \A i \in 1..(Len(types) + 1) : Offset(types, i) = from[i]
<1> DEFINE N == Len(types)
           step == [n \in 1..N |-> [x \in Nat |-> x + layoutSize(types[n])]]
           Is(f) == f = [n \in 1..(N + 1) |-> IF n = 1 THEN 0 ELSE f[n - 1] + layoutSize(types[n - 1])]
<1>1. N \in Nat
  OBVIOUS
<1>2. step \in [1..N -> [Nat -> Nat]]
  BY SizeType
<1>3. PICK g \in [0..N -> Nat] : Follows(g, N, 0, step)
  <2> HIDE DEF step, N
  <2> QED
    BY <1>1, <1>2, RecursionUpTo
<1>4. g[0] = 0 /\ \A n \in 1..N : g[n] = g[n - 1] + layoutSize(types[n])
  <2>1. \A n \in 1..N : step[n][g[n - 1]] = g[n - 1] + layoutSize(types[n])
    <3>1. \A n \in 1..N : n - 1 \in 0..N
      BY <1>1
    <3> QED
      BY <3>1
  <2> HIDE DEF step, N
  <2> QED
    BY <1>3, <2>1 DEF Follows
<1> DEFINE h == [n \in 1..(N + 1) |-> g[n - 1]]
<1>5. Is(h)
  <2>1. ASSUME NEW n \in 1..(N + 1)
        PROVE  h[n] = IF n = 1 THEN 0 ELSE h[n - 1] + layoutSize(types[n - 1])
    <3>1. CASE n = 1
      BY <1>4, <3>1
    <3>2. CASE n # 1
      <4>1. n - 1 \in 1..N /\ n - 1 \in 1..(N + 1)
        BY <1>1, <3>2
      <4>2. h[n] = g[n - 1] /\ h[n - 1] = g[(n - 1) - 1]
        BY <4>1
      <4> QED
        BY <1>4, <3>2, <4>1, <4>2
    <3> QED
      BY <3>1, <3>2
  <2>2. h = [n \in 1..(N + 1) |-> h[n]]
    OBVIOUS
  <2> HIDE DEF h
  <2> QED
    BY <2>1, <2>2
<1> DEFINE from == CHOOSE f : Is(f)
<1>6. Is(from)
  <2> HIDE DEF Is, h
  <2> QED
    BY <1>5
<1>7. \A i \in 1..(N + 1) : Offset(types, i) = from[i]
  BY DEF Offset
<1> HIDE DEF from
<1>8. from[1] = 0 /\ \A n \in 1..N : from[n + 1] = from[n] + layoutSize(types[n])
  <2>1. \A n \in 1..(N + 1) :
          from[n] = IF n = 1 THEN 0 ELSE from[n - 1] + layoutSize(types[n - 1])
    BY <1>6
  <2>2. 1 \in 1..(N + 1) /\ \A n \in 1..N : n + 1 \in 1..(N + 1) /\ n + 1 # 1 /\ (n + 1) - 1 = n
    BY <1>1
  <2> HIDE DEF Is
  <2> QED
    BY <2>1, <2>2
<1>9. from \in [1..(N + 1) -> Nat]
  <2> DEFINE T == {n \in 0..N : from[n + 1] \in Nat}
  <2>1. 0 \in T
    BY <1>1, <1>8
  <2>2. ASSUME NEW n \in 0..(N - 1), n \in T
        PROVE  n + 1 \in T
    <3>1. n + 1 \in 1..N /\ n + 1 \in 0..N
      BY <1>1
    <3>2. from[(n + 1) + 1] = from[n + 1] + layoutSize(types[n + 1])
      BY <1>8, <3>1
    <3> QED
      BY <2>2, <3>1, <3>2, SizeType
  <2>3. \A n \in 0..N : n \in T
    <3> HIDE DEF T, N
    <3> QED
      BY <1>1, <2>1, <2>2, InductionUpTo
  <2>4. \A n \in 1..(N + 1) : from[n] \in Nat
    <3>1. ASSUME NEW n \in 1..(N + 1)
          PROVE  n - 1 \in 0..N /\ (n - 1) + 1 = n
      BY <1>1
    <3> QED
      BY <2>3, <3>1
  <2>5. from = [n \in 1..(N + 1) |-> from[n]]
    BY <1>6
  <2> HIDE DEF Is, N
  <2> QED
    BY <2>4, <2>5
<1> QED
  BY <1>7, <1>8, <1>9

\* The first slot lies at the beginning, each after the one before it.
LEMMA OffsetNext ==
    ASSUME NEW types \in Seq(Types)
    PROVE  /\ Offset(types, 1) = 0
           /\ \A i \in 1..(Len(types) + 1) : Offset(types, i) \in Nat
           /\ \A i \in 1..Len(types) : Offset(types, i + 1) = Offset(types, i) + layoutSize(types[i])
<1>1. PICK from \in [1..(Len(types) + 1) -> Nat] :
        /\ from[1] = 0
        /\ \A n \in 1..Len(types) : from[n + 1] = from[n] + layoutSize(types[n])
        /\ \A i \in 1..(Len(types) + 1) : Offset(types, i) = from[i]
  BY OffsetFunction
<1>2. Len(types) \in Nat /\ 1 \in 1..(Len(types) + 1)
  OBVIOUS
<1>3. \A i \in 1..Len(types) : i \in 1..(Len(types) + 1) /\ i + 1 \in 1..(Len(types) + 1)
  OBVIOUS
<1> QED
  BY <1>1, <1>2, <1>3

\* A slot ends where a later one begins, or before.
LEMMA OffsetAscends ==
    ASSUME NEW types \in Seq(Types), NEW i \in 1..Len(types), NEW j \in (i + 1)..(Len(types) + 1)
    PROVE  Offset(types, i) + layoutSize(types[i]) <= Offset(types, j)
<1> DEFINE N == Len(types) - i
           T == {n \in 0..N : Offset(types, i) + layoutSize(types[i]) <= Offset(types, i + 1 + n)}
<1>1. N \in Nat /\ Len(types) \in Nat
  OBVIOUS
<1>2. 0 \in T
  <2>1. i + 1 + 0 = i + 1
    OBVIOUS
  <2>2. Offset(types, i) \in Nat /\ Offset(types, i + 1) = Offset(types, i) + layoutSize(types[i])
    BY OffsetNext
  <2> QED
    BY <1>1, <2>1, <2>2, SizeType
<1>3. ASSUME NEW n \in 0..(N - 1), n \in T
      PROVE  n + 1 \in T
  <2>1. i + 1 + n \in 1..Len(types) /\ i + 1 + (n + 1) = (i + 1 + n) + 1 /\ n + 1 \in 0..N
    OBVIOUS
  <2>2. Offset(types, (i + 1 + n) + 1) = Offset(types, i + 1 + n) + layoutSize(types[i + 1 + n])
    BY <2>1, OffsetNext
  <2>3. Offset(types, i) \in Nat /\ Offset(types, i + 1 + n) \in Nat
    <3>1. i + 1 + n \in 1..(Len(types) + 1) /\ i \in 1..(Len(types) + 1)
      OBVIOUS
    <3> QED
      BY <3>1, OffsetNext
  <2>4. layoutSize(types[i]) \in Nat /\ layoutSize(types[i + 1 + n]) \in Nat
    BY SizeType
  <2>5. Offset(types, i) + layoutSize(types[i]) <= Offset(types, i + 1 + n)
    BY <1>3
  <2> QED
    BY <2>1, <2>2, <2>3, <2>4, <2>5
<1>4. \A n \in 0..N : n \in T
  <2> HIDE DEF N, T
  <2> QED
    BY <1>1, <1>2, <1>3, InductionUpTo
<1>5. j - (i + 1) \in 0..N /\ i + 1 + (j - (i + 1)) = j
  OBVIOUS
<1>6. j - (i + 1) \in T
  BY <1>4, <1>5
<1> QED
  BY <1>5, <1>6

\* Every cell of a function's storage belongs to a slot.
LEMMA OffsetCovers ==
    ASSUME NEW types \in Seq(Types), NEW a \in 1..Offset(types, Len(types) + 1)
    PROVE  \E i \in 1..Len(types) : a \in (Offset(types, i) + 1)..(Offset(types, i) + layoutSize(types[i]))
<1> DEFINE N == Len(types)
           T == {n \in 0..N : a <= Offset(types, n + 1) =>
                   \E i \in 1..N : a \in (Offset(types, i) + 1)..(Offset(types, i) + layoutSize(types[i]))}
<1>1. N \in Nat /\ a \in Nat \ {0}
  BY OffsetNext
<1>2. 0 \in T
  BY <1>1, OffsetNext
<1>3. ASSUME NEW n \in 0..(N - 1), n \in T
      PROVE  n + 1 \in T
  <2>1. n + 1 \in 1..N /\ n + 1 \in 1..(N + 1) /\ n + 1 \in 0..N
    OBVIOUS
  <2>2. /\ Offset(types, n + 1) \in Nat
        /\ Offset(types, (n + 1) + 1) = Offset(types, n + 1) + layoutSize(types[n + 1])
    BY <2>1, OffsetNext
  <2>3. layoutSize(types[n + 1]) \in Nat
    BY SizeType
  <2>4. CASE a <= Offset(types, n + 1)
    BY <1>3, <2>1, <2>4
  <2>5. CASE ~(a <= Offset(types, n + 1))
    BY <1>1, <2>1, <2>2, <2>3, <2>5
  <2> QED
    BY <2>4, <2>5
<1>4. \A n \in 0..N : n \in T
  <2> HIDE DEF N, T
  <2> QED
    BY <1>1, <1>2, <1>3, InductionUpTo
<1>5. N \in 0..N /\ Offset(types, N + 1) \in Nat
  BY OffsetNext
<1>6. N \in T
  BY <1>4, <1>5
<1> QED
  BY <1>5, <1>6

(***************************************************************************)
(* The invariant.                                                          *)
(***************************************************************************)
Routines == Program \cup {Main}
Frames == [fn : Routines, first : Routines, mark : Nat, slots : Seq(Nat), sret : Nat, to : Nat]
Cells == {"int", "flt", "ptr", "junk"} \X Int

TypesOf(f) == SlotTypes(f.fn)
Count(f) == Len(TypesOf(f))
FrameEnd(f) == f.mark + Offset(TypesOf(f), Count(f) + 1)
Limit(fs) == IF fs = <<>> THEN 0 ELSE FrameEnd(fs[Len(fs)])
SlotCells(f, i) == f.slots[i]..(f.slots[i] + layoutSize(TypesOf(f)[i]) - 1)

\* One activation: its storage begins behind its mark.
Placed(f) == f \in Frames /\ f.slots = [i \in 1..Count(f) |-> f.mark + 1 + Offset(TypesOf(f), i)]

\* An activation and its caller: where it lies, and where its result goes.
Above(caller, f) ==
  /\ FrameEnd(caller) <= f.mark
  /\ IF f.fn.returns = "pair" THEN FrameEnd(caller) < f.sret /\ f.sret + 1 <= f.mark ELSE f.sret = 0
  /\ f.to \in 1..Count(caller) /\ TypesOf(caller)[f.to] = f.fn.returns

Stacked(fs) ==
  /\ fs \in Seq(Frames)
  /\ \A d \in 1..Len(fs) : Placed(fs[d])
  /\ \A d \in 2..Len(fs) : Above(fs[d - 1], fs[d])

\* The values have the shape of the variables, as far as they are set.
Shaped(fs, vs) ==
  /\ vs \in Seq(Seq(Seq(Int))) /\ Len(vs) = Len(fs)
  /\ \A d \in 1..Len(fs) : Len(vs[d]) = Count(fs[d])

\* A borrow made in a function below depth d, of a struct that has a value.
Borrow(fs, vs, d, v) ==
  /\ Len(v) = 2 /\ v[1] \in 1..(d - 1) /\ v[2] \in 1..Count(fs[v[1]])
  /\ TypesOf(fs[v[1]])[v[2]] = "pair" /\ vs[v[1]][v[2]] # <<>>

Suits(fs, vs, d, type, v) ==
  IF type = "ref" THEN Borrow(fs, vs, d, v) ELSE Len(v) = layoutSize(type)

Fitting(fs, vs) ==
  \A d \in 1..Len(fs) : \A i \in 1..Count(fs[d]) :
    vs[d][i] # <<>> => Suits(fs, vs, d, TypesOf(fs[d])[i], vs[d][i])

\* The cells from `at` on are the value v of the type.
KindOf(type) == IF type = "flt" THEN "flt" ELSE "int"
CellsHold(fs, mem, type, at, v) ==
  IF type = "ref" THEN mem[at] = Word("ptr", fs[v[1]].slots[v[2]])
  ELSE \A k \in 1..layoutSize(type) : mem[at + k - 1] = Word(KindOf(type), v[k])

Held(fs, mem, vs) ==
  \A d \in 1..Len(fs) : \A i \in 1..Count(fs[d]) :
    vs[d][i] # <<>> => CellsHold(fs, mem, TypesOf(fs[d])[i], fs[d].slots[i], vs[d][i])

Good(fs, mem, vs) ==
  /\ Stacked(fs) /\ Shaped(fs, vs) /\ Fitting(fs, vs)
  /\ mem \in Seq(Cells) /\ Limit(fs) <= Len(mem)
  /\ Held(fs, mem, vs)

Inv == uses = {} => /\ ~failed /\ frames # <<>>
                    /\ Good(frames, cells, values)

(***************************************************************************)
(* Where the slots lie.                                                    *)
(***************************************************************************)
\* What the assumption says of a function.
LEMMA RoutineTypes == ASSUME ProgramAssumption, NEW fn \in Routines
                      PROVE  /\ SlotTypes(fn) \in Seq(Types) /\ Len(SlotTypes(fn)) \in Nat
                             /\ fn.params \in Seq(Types) /\ Len(fn.params) <= Len(SlotTypes(fn))
                             /\ \A i \in 1..Len(fn.params) : SlotTypes(fn)[i] = fn.params[i]
                             /\ fn.returns \in {"int", "flt", "pair"}
<1>1. fn.params \in Seq(Types) /\ fn.locals \in Seq(Types) /\ fn.returns \in {"int", "flt", "pair"}
  BY DEF ProgramAssumption, Routines, Types
<1>2. SlotTypes(fn) = fn.params \o fn.locals
  BY DEF SlotTypes
<1>3. PICK p, q \in Seq(Types) : p = fn.params /\ q = fn.locals
  BY <1>1
<1>4. /\ p \o q \in Seq(Types) /\ Len(p \o q) \in Nat /\ Len(p) <= Len(p \o q)
      /\ \A i \in 1..Len(p) : (p \o q)[i] = p[i]
  OBVIOUS
<1>5. SlotTypes(fn) = p \o q /\ fn.params = p
  BY <1>2, <1>3
<1> QED
  BY <1>1, <1>4, <1>5, Zenon

\* The slots of one activation.
LEMMA SlotsOfFrame ==
    ASSUME ProgramAssumption, NEW f, Placed(f)
    PROVE  /\ f \in Frames /\ TypesOf(f) \in Seq(Types) /\ Count(f) \in Nat /\ f.mark \in Nat
           /\ FrameEnd(f) \in Nat /\ f.mark <= FrameEnd(f)
           /\ \A i \in 1..Count(f) : /\ f.slots[i] \in Nat /\ f.mark < f.slots[i]
                                     /\ f.slots[i] + layoutSize(TypesOf(f)[i]) - 1 <= FrameEnd(f)
                                     /\ TypesOf(f)[i] \in Types
           /\ \A i, j \in 1..Count(f) : i < j => f.slots[i] + layoutSize(TypesOf(f)[i]) <= f.slots[j]
<1> DEFINE types == TypesOf(f)
           N == Count(f)
<1>1. f \in Frames /\ f.fn \in Routines /\ f.mark \in Nat
  BY DEF Placed, Frames
<1>2. types \in Seq(Types) /\ N \in Nat /\ N = Len(types)
  BY <1>1, RoutineTypes DEF TypesOf, Count
<1>3. \A i \in 1..(N + 1) : Offset(types, i) \in Nat
  BY <1>2, OffsetNext
<1>4. \A i \in 1..N : f.slots[i] = f.mark + 1 + Offset(types, i)
  BY DEF Placed
<1>5. \A i \in 1..N : i \in 1..(N + 1) /\ N + 1 \in (i + 1)..(N + 1)
  BY <1>2
<1>6. \A i \in 1..N : layoutSize(types[i]) \in Nat /\ types[i] \in Types
  BY <1>2, SizeType
<1>7. \A i \in 1..N : Offset(types, i) + layoutSize(types[i]) <= Offset(types, N + 1)
  BY <1>2, <1>5, OffsetAscends
<1>8. \A i, j \in 1..N : i < j => Offset(types, i) + layoutSize(types[i]) <= Offset(types, j)
  <2>1. \A i, j \in 1..N : i < j => j \in (i + 1)..(N + 1)
    BY <1>2
  <2> HIDE DEF types, N
  <2> QED
    BY <1>2, <2>1, OffsetAscends
<1>9. FrameEnd(f) = f.mark + Offset(types, N + 1) /\ N + 1 \in 1..(N + 1)
  BY <1>2 DEF FrameEnd
<1> HIDE DEF types, N
<1>10. FrameEnd(f) \in Nat /\ f.mark <= FrameEnd(f)
  BY <1>1, <1>3, <1>9
<1>11. \A i \in 1..N : /\ f.slots[i] \in Nat /\ f.mark < f.slots[i]
                       /\ f.slots[i] + layoutSize(types[i]) - 1 <= FrameEnd(f)
  BY <1>1, <1>3, <1>4, <1>5, <1>6, <1>7, <1>9
<1>12. \A i, j \in 1..N : i < j => f.slots[i] + layoutSize(types[i]) <= f.slots[j]
  BY <1>1, <1>3, <1>4, <1>5, <1>6, <1>8
<1> QED
  BY <1>1, <1>2, <1>6, <1>10, <1>11, <1>12 DEF types, N

\* An activation lies above all below it.
LEMMA FramesAscend ==
    ASSUME ProgramAssumption, NEW fs, Stacked(fs), NEW d \in 1..Len(fs), NEW e \in (d + 1)..Len(fs)
    PROVE  FrameEnd(fs[d]) <= fs[e].mark
<1> DEFINE N == Len(fs) - (d + 1)
           T == {n \in 0..N : FrameEnd(fs[d]) <= fs[d + 1 + n].mark}
<1>1. N \in Nat /\ Len(fs) \in Nat
  BY DEF Stacked
<1>2. 0 \in T
  BY <1>1 DEF Stacked, Above
<1>3. ASSUME NEW n \in 0..(N - 1), n \in T
      PROVE  n + 1 \in T
  <2>1. PICK m : m = d + 1 + n
    OBVIOUS
  <2>2. m \in 1..Len(fs) /\ m + 1 \in 2..Len(fs) /\ (m + 1) - 1 = m /\ d + 1 + (n + 1) = m + 1
        /\ m + 1 \in 1..Len(fs) /\ n + 1 \in 0..N
    BY <1>1, <2>1
  <2>3. FrameEnd(fs[m]) <= fs[m + 1].mark
    BY <2>2 DEF Stacked, Above
  <2>4. /\ FrameEnd(fs[m]) \in Nat /\ fs[m].mark \in Nat /\ fs[m].mark <= FrameEnd(fs[m])
        /\ FrameEnd(fs[d]) \in Nat /\ fs[m + 1].mark \in Nat
    BY <2>2, SlotsOfFrame DEF Stacked
  <2>5. FrameEnd(fs[d]) <= fs[m].mark
    BY <1>3, <2>1
  <2>6. FrameEnd(fs[d]) <= fs[m + 1].mark
    BY <2>3, <2>4, <2>5, SMTT(30)
  <2> QED
    BY <2>2, <2>6
<1>4. \A n \in 0..N : n \in T
  <2> HIDE DEF N, T
  <2> QED
    BY <1>1, <1>2, <1>3, InductionUpTo
<1>5. e - (d + 1) \in 0..N /\ d + 1 + (e - (d + 1)) = e
  BY <1>1
<1>6. e - (d + 1) \in T
  BY <1>4, <1>5
<1> QED
  BY <1>5, <1>6

\* The storage of an activation ends where the innermost one's does, or before.
LEMMA WithinLimit ==
    ASSUME ProgramAssumption, NEW fs, Stacked(fs), NEW d \in 1..Len(fs)
    PROVE  FrameEnd(fs[d]) <= Limit(fs) /\ Limit(fs) \in Nat
<1>1. Len(fs) \in 1..Len(fs) /\ fs # <<>>
  BY DEF Stacked
<1>2. /\ FrameEnd(fs[d]) \in Nat /\ FrameEnd(fs[Len(fs)]) \in Nat
      /\ fs[Len(fs)].mark \in Nat /\ fs[Len(fs)].mark <= FrameEnd(fs[Len(fs)])
  BY <1>1, SlotsOfFrame DEF Stacked
<1>3. CASE d = Len(fs)
  BY <1>1, <1>2, <1>3 DEF Limit
<1>4. CASE d # Len(fs)
  <2>1. Len(fs) \in (d + 1)..Len(fs)
    BY <1>1, <1>4
  <2>2. FrameEnd(fs[d]) <= fs[Len(fs)].mark
    BY <2>1, FramesAscend
  <2> QED
    BY <1>1, <1>2, <2>2 DEF Limit
<1> QED
  BY <1>3, <1>4

\* Two slots have no cell in common.
LEMMA SlotsApart ==
    ASSUME ProgramAssumption, NEW fs, Stacked(fs),
           NEW d \in 1..Len(fs), NEW i \in 1..Count(fs[d]),
           NEW e \in 1..Len(fs), NEW j \in 1..Count(fs[e]), <<d, i>> # <<e, j>>,
           NEW a \in SlotCells(fs[d], i)
    PROVE  a \notin SlotCells(fs[e], j)
<1>1. Placed(fs[d]) /\ Placed(fs[e])
  BY DEF Stacked
<1>2. PICK m \in Nat, n \in Nat :
        m = layoutSize(TypesOf(fs[d])[i]) /\ n = layoutSize(TypesOf(fs[e])[j])
  <2>1. layoutSize(TypesOf(fs[d])[i]) \in Nat /\ layoutSize(TypesOf(fs[e])[j]) \in Nat
    <3>1. \A k \in 1..2 : k \in Nat
      OBVIOUS
    <3> QED
      BY <3>1, SizeType
  <2> QED
    BY <2>1
<1>3. PICK x \in Nat, y \in Nat : x = fs[d].slots[i] /\ y = fs[e].slots[j]
  BY <1>1, SlotsOfFrame
<1>4. /\ FrameEnd(fs[d]) \in Nat /\ FrameEnd(fs[e]) \in Nat /\ fs[d].mark \in Nat /\ fs[e].mark \in Nat
      /\ fs[d].mark < x /\ fs[e].mark < y
      /\ x + m - 1 <= FrameEnd(fs[d]) /\ y + n - 1 <= FrameEnd(fs[e])
  BY <1>1, <1>2, <1>3, SlotsOfFrame
<1>5. a \in x..(x + m - 1)
  BY <1>2, <1>3 DEF SlotCells
<1>6. x + m <= y \/ y + n <= x
  <2>1. CASE d = e
    <3>1. Count(fs[d]) \in Nat
      BY <1>1, SlotsOfFrame
    <3>2. i < j \/ j < i
      BY <2>1, <3>1
    <3> QED
      BY <1>1, <1>2, <1>3, <2>1, <3>2, SlotsOfFrame
  <2>2. CASE d < e
    <3>1. e \in (d + 1)..Len(fs)
      BY <2>2
    <3>2. FrameEnd(fs[d]) <= fs[e].mark
      BY <3>1, FramesAscend
    <3> QED
      BY <1>4, <3>2
  <2>3. CASE e < d
    <3>1. d \in (e + 1)..Len(fs)
      BY <2>3
    <3>2. FrameEnd(fs[e]) <= fs[d].mark
      BY <3>1, FramesAscend
    <3> QED
      BY <1>4, <3>2
  <2>4. d = e \/ d < e \/ e < d
    OBVIOUS
  <2> QED
    BY <2>1, <2>2, <2>3, <2>4
<1>7. a \notin y..(y + n - 1)
  BY <1>5, <1>6
<1> QED
  BY <1>2, <1>3, <1>7 DEF SlotCells

(***************************************************************************)
(* The three changes.                                                      *)
(***************************************************************************)
\* What the provers are told of a good state, one activation at a time.
LEMMA GoodFrame ==
    ASSUME ProgramAssumption, NEW fs, NEW mem, NEW vs, Good(fs, mem, vs), NEW d \in 1..Len(fs)
    PROVE  /\ Placed(fs[d]) /\ fs[d] \in Frames /\ fs[d].fn \in Routines
           /\ Count(fs[d]) \in Nat /\ TypesOf(fs[d]) \in Seq(Types)
           /\ vs[d] \in Seq(Seq(Int)) /\ Len(vs[d]) = Count(fs[d])
           /\ FrameEnd(fs[d]) \in Nat /\ FrameEnd(fs[d]) <= Len(mem)
<1>1. Stacked(fs) /\ Shaped(fs, vs) /\ mem \in Seq(Cells) /\ Limit(fs) <= Len(mem)
  BY DEF Good
<1>2. Placed(fs[d])
  BY <1>1 DEF Stacked
<1>3. /\ fs[d] \in Frames /\ Count(fs[d]) \in Nat /\ TypesOf(fs[d]) \in Seq(Types)
      /\ FrameEnd(fs[d]) \in Nat
  BY <1>2, SlotsOfFrame
<1>4. fs[d].fn \in Routines
  BY <1>3 DEF Frames
<1>5. vs[d] \in Seq(Seq(Int)) /\ Len(vs[d]) = Count(fs[d])
  BY <1>1 DEF Shaped
<1>6. FrameEnd(fs[d]) <= Limit(fs) /\ Limit(fs) \in Nat
  BY <1>1, WithinLimit
<1>7. Len(mem) \in Nat
  BY <1>1
<1>8. FrameEnd(fs[d]) <= Len(mem)
  BY <1>1, <1>3, <1>6, <1>7
<1> QED
  BY <1>2, <1>3, <1>4, <1>5, <1>8

\* The cells of a slot lie in the memory.
LEMMA GoodSlot ==
    ASSUME ProgramAssumption, NEW fs, NEW mem, NEW vs, Good(fs, mem, vs),
           NEW d \in 1..Len(fs), NEW i \in 1..Count(fs[d])
    PROVE  /\ fs[d].slots[i] \in Nat \ {0} /\ TypesOf(fs[d])[i] \in Types
           /\ fs[d].slots[i] + layoutSize(TypesOf(fs[d])[i]) - 1 <= FrameEnd(fs[d])
           /\ SlotCells(fs[d], i) \subseteq 1..FrameEnd(fs[d])
           /\ SlotCells(fs[d], i) \subseteq 1..Len(mem)
           /\ \A k \in 1..layoutSize(TypesOf(fs[d])[i]) : fs[d].slots[i] + k - 1 \in SlotCells(fs[d], i)
<1>1. Placed(fs[d]) /\ FrameEnd(fs[d]) \in Nat /\ FrameEnd(fs[d]) <= Len(mem)
  BY GoodFrame
<1>2. PICK n \in 1..2 : n = layoutSize(TypesOf(fs[d])[i])
  BY SizeType
<1>3. PICK x \in Nat : x = fs[d].slots[i]
  BY <1>1, SlotsOfFrame
<1>4. fs[d].mark \in Nat /\ fs[d].mark < x /\ x + n - 1 <= FrameEnd(fs[d]) /\ TypesOf(fs[d])[i] \in Types
  BY <1>1, <1>2, <1>3, SlotsOfFrame
<1>5. SlotCells(fs[d], i) = x..(x + n - 1)
  BY <1>2, <1>3 DEF SlotCells
<1>6. Len(mem) \in Nat
  BY DEF Good
<1>7. x # 0 /\ \A k \in 1..n : x + k - 1 \in x..(x + n - 1)
  BY <1>4
<1>8. x..(x + n - 1) \subseteq 1..FrameEnd(fs[d]) /\ x..(x + n - 1) \subseteq 1..Len(mem)
  BY <1>1, <1>4, <1>6
<1> QED
  BY <1>2, <1>3, <1>4, <1>5, <1>7, <1>8

\* A value that fits still does when more variables are set.
LEMMA FitsMore ==
    ASSUME NEW fs, NEW vs, NEW ws, NEW d \in 1..Len(fs), NEW type, NEW v, Suits(fs, vs, d, type, v),
           \A e \in 1..(d - 1) : \A j \in 1..Count(fs[e]) : vs[e][j] # <<>> => ws[e][j] # <<>>
    PROVE  Suits(fs, ws, d, type, v)
  BY DEF Suits, Borrow

\* The cells of slot i of f are as before.
SameSlot(mem, mem2, f, i) == \A a \in SlotCells(f, i) : mem2[a] = mem[a]

\* What the cells of a slot are depends on no other cell.
LEMMA HoldsKeeps ==
    ASSUME NEW fs, NEW d, NEW i, NEW mem, NEW mem2, NEW v, SameSlot(mem, mem2, fs[d], i),
           layoutSize(TypesOf(fs[d])[i]) \in 1..2, fs[d].slots[i] \in Nat,
           CellsHold(fs, mem, TypesOf(fs[d])[i], fs[d].slots[i], v)
    PROVE  CellsHold(fs, mem2, TypesOf(fs[d])[i], fs[d].slots[i], v)
<1> DEFINE x == fs[d].slots[i]
           n == layoutSize(TypesOf(fs[d])[i])
<1> USE DEF SameSlot
<1>1. \A k \in 1..n : x + k - 1 \in SlotCells(fs[d], i)
  BY DEF SlotCells
<1>2. CASE TypesOf(fs[d])[i] = "ref"
  <2>1. x \in SlotCells(fs[d], i)
    <3>1. 1 \in 1..n /\ x + 1 - 1 = x
      OBVIOUS
    <3> QED
      BY <1>1, <3>1
  <2> QED
    BY <1>2, <2>1 DEF CellsHold
<1>3. CASE TypesOf(fs[d])[i] # "ref"
  BY <1>1, <1>3 DEF CellsHold
<1> QED
  BY <1>2, <1>3

\* No cell is different but those of slot i of f.
OnlySlot(mem, mem2, f, i) ==
  /\ Len(mem) <= Len(mem2)
  /\ \A a \in 1..Len(mem) : a \notin SlotCells(f, i) => mem2[a] = mem[a]

\* One slot is written.
LEMMA GoodPut ==
    ASSUME ProgramAssumption, NEW fs, NEW mem, NEW vs, Good(fs, mem, vs),
           NEW d \in 1..Len(fs), NEW i \in 1..Count(fs[d]), NEW v \in Seq(Int), v # <<>>,
           NEW mem2 \in Seq(Cells), OnlySlot(mem, mem2, fs[d], i),
           Suits(fs, vs, d, TypesOf(fs[d])[i], v),
           CellsHold(fs, mem2, TypesOf(fs[d])[i], fs[d].slots[i], v)
    PROVE  Good(fs, mem2, [vs EXCEPT ![d][i] = v])
<1> DEFINE ws == [vs EXCEPT ![d][i] = v]
<1> USE DEF OnlySlot
<1>1. Stacked(fs) /\ Shaped(fs, vs) /\ Fitting(fs, vs) /\ Held(fs, mem, vs)
      /\ mem \in Seq(Cells) /\ Limit(fs) <= Len(mem) /\ vs \in Seq(Seq(Seq(Int))) /\ Len(vs) = Len(fs)
  BY DEF Good, Shaped
<1>2. vs[d] \in Seq(Seq(Int)) /\ Len(vs[d]) = Count(fs[d])
  BY GoodFrame
<1>3. PICK u : u = [vs[d] EXCEPT ![i] = v]
  OBVIOUS
<1>4. /\ u \in Seq(Seq(Int)) /\ Len(u) = Count(fs[d]) /\ u[i] = v
      /\ \A j \in 1..Count(fs[d]) : j # i => u[j] = vs[d][j]
  BY <1>2, <1>3, ExceptSeq, SMTT(30)
<1>11. /\ ws \in Seq(Seq(Seq(Int))) /\ Len(ws) = Len(vs)
       /\ ws[d] = u /\ \A e \in 1..Len(fs) : e # d => ws[e] = vs[e]
  <2>1. ws = [vs EXCEPT ![d] = u]
    BY <1>3
  <2> HIDE DEF ws
  <2> QED
    BY <1>1, <1>4, <2>1, ExceptSeq
<1> HIDE DEF ws
<1>5. \A e \in 1..Len(fs) : \A j \in 1..Count(fs[e]) :
        \/ e = d /\ j = i /\ ws[e][j] = v
        \/ <<e, j>> # <<d, i>> /\ ws[e][j] = vs[e][j]
  BY <1>4, <1>11
<1>6. Shaped(fs, ws)
  <2>1. \A e \in 1..Len(fs) : Len(ws[e]) = Count(fs[e])
    BY <1>1, <1>4, <1>11 DEF Shaped
  <2> QED
    BY <1>1, <1>11, <2>1 DEF Shaped
<1>7. \A e \in 1..Len(fs) : \A j \in 1..Count(fs[e]) : vs[e][j] # <<>> => ws[e][j] # <<>>
  BY <1>5
<1>8. Fitting(fs, ws)
  <2> SUFFICES ASSUME NEW e \in 1..Len(fs), NEW j \in 1..Count(fs[e]), ws[e][j] # <<>>
               PROVE  Suits(fs, ws, e, TypesOf(fs[e])[j], ws[e][j])
    BY DEF Fitting
  <2>1. Suits(fs, vs, e, TypesOf(fs[e])[j], ws[e][j])
    BY <1>1, <1>5 DEF Fitting
  <2>2. \A k \in 1..(e - 1) : k \in 1..Len(fs)
    BY <1>1
  <2> QED
    BY <1>7, <2>1, <2>2, FitsMore
<1>9. Held(fs, mem2, ws)
  <2> SUFFICES ASSUME NEW e \in 1..Len(fs), NEW j \in 1..Count(fs[e]), ws[e][j] # <<>>
               PROVE  CellsHold(fs, mem2, TypesOf(fs[e])[j], fs[e].slots[j], ws[e][j])
    BY DEF Held
  <2>1. CASE e = d /\ j = i
    BY <1>5, <2>1
  <2>2. CASE <<e, j>> # <<d, i>>
    <3>1. ws[e][j] = vs[e][j]
      BY <1>5, <2>2
    <3>2. CellsHold(fs, mem, TypesOf(fs[e])[j], fs[e].slots[j], ws[e][j])
      BY <1>1, <3>1 DEF Held
    <3>3. \A a \in SlotCells(fs[e], j) : a \notin SlotCells(fs[d], i) /\ a \in 1..Len(mem)
      BY <1>1, <2>2, SlotsApart, GoodSlot
    <3>4. SameSlot(mem, mem2, fs[e], j)
      BY <3>3 DEF SameSlot
    <3>5. fs[e].slots[j] \in Nat
      BY GoodSlot
    <3> QED
      BY <3>2, <3>4, <3>5, HoldsKeeps, SizeType
  <2> QED
    BY <2>1, <2>2
<1>10. Limit(fs) <= Len(mem2)
  <2>1. CASE fs = <<>>
    BY <2>1 DEF Limit
  <2>2. CASE fs # <<>>
    <3>1. Limit(fs) \in Nat /\ Len(mem) \in Nat /\ Len(mem2) \in Nat
      BY <1>1, WithinLimit
    <3> QED
      BY <1>1, <3>1
  <2> QED
    BY <2>1, <2>2
<1> QED
  BY <1>1, <1>6, <1>8, <1>9, <1>10 DEF Good, ws

\* A value depends on the functions further down only.
LEMMA Alike ==
    ASSUME NEW fs, NEW gs, NEW vs, NEW ws, NEW d, NEW type, NEW v, NEW mem, NEW at,
           \A e \in 1..(d - 1) : gs[e] = fs[e] /\ ws[e] = vs[e],
           Suits(fs, vs, d, type, v), CellsHold(fs, mem, type, at, v)
    PROVE  Suits(gs, ws, d, type, v) /\ CellsHold(gs, mem, type, at, v)
<1>1. CASE type = "ref"
  <2>1. Borrow(fs, vs, d, v)
    BY <1>1 DEF Suits
  <2>2. gs[v[1]] = fs[v[1]] /\ ws[v[1]] = vs[v[1]]
    BY <2>1 DEF Borrow
  <2>3. Borrow(gs, ws, d, v)
    BY <2>1, <2>2 DEF Borrow
  <2> QED
    BY <1>1, <2>2, <2>3 DEF Suits, CellsHold
<1>2. CASE type # "ref"
  BY <1>2 DEF Suits, CellsHold
<1> QED
  BY <1>1, <1>2

\* The functions up to the d-th, with their values, and the memory up to n.
SameBelow(fs, vs, gs, ws, d) == \A e \in 1..d : gs[e] = fs[e] /\ ws[e] = vs[e]
SameCells(mem, mem2, n) == \A a \in 1..n : mem2[a] = mem[a]

\* A variable that has a value has one that fits and is held.
SlotSound(fs, mem, vs, d, i) ==
  vs[d][i] # <<>> => /\ Suits(fs, vs, d, TypesOf(fs[d])[i], vs[d][i])
                     /\ CellsHold(fs, mem, TypesOf(fs[d])[i], fs[d].slots[i], vs[d][i])

\* A function is as good as before when those below it, it and the memory up to
\* the end of its storage are as before.
LEMMA GoodBelow ==
    ASSUME ProgramAssumption, NEW fs, NEW mem, NEW vs, Good(fs, mem, vs), NEW d \in 1..Len(fs),
           NEW gs, NEW ws, SameBelow(fs, vs, gs, ws, d),
           NEW mem2, SameCells(mem, mem2, FrameEnd(fs[d])), NEW i \in 1..Count(gs[d])
    PROVE  SlotSound(gs, mem2, ws, d, i)
<1> SUFFICES ASSUME ws[d][i] # <<>>
             PROVE  /\ Suits(gs, ws, d, TypesOf(gs[d])[i], ws[d][i])
                    /\ CellsHold(gs, mem2, TypesOf(gs[d])[i], gs[d].slots[i], ws[d][i])
  BY DEF SlotSound
<1> USE DEF SameBelow, SameCells
<1>1. gs[d] = fs[d] /\ ws[d] = vs[d] /\ Len(fs) \in Nat
  BY DEF Good, Stacked
<1>2. /\ Suits(fs, vs, d, TypesOf(fs[d])[i], vs[d][i])
      /\ CellsHold(fs, mem, TypesOf(fs[d])[i], fs[d].slots[i], vs[d][i])
  BY <1>1 DEF Good, Fitting, Held
<1>3. SameSlot(mem, mem2, fs[d], i)
  <2>1. SlotCells(fs[d], i) \subseteq 1..FrameEnd(fs[d])
    BY <1>1, GoodSlot
  <2> QED
    BY <2>1 DEF SameSlot
<1>4. CellsHold(fs, mem2, TypesOf(fs[d])[i], fs[d].slots[i], vs[d][i])
  <2>1. fs[d].slots[i] \in Nat
    BY <1>1, GoodSlot
  <2> QED
    BY <1>2, <1>3, <2>1, HoldsKeeps, SizeType
<1>5. \A e \in 1..(d - 1) : gs[e] = fs[e] /\ ws[e] = vs[e]
  OBVIOUS
<1> QED
  BY <1>1, <1>2, <1>4, <1>5, Alike

\* A function is entered: its variables have no values yet.
LEMMA GoodPush ==
    ASSUME ProgramAssumption, NEW fs, NEW mem, NEW vs, Good(fs, mem, vs),
           NEW f, Placed(f), Limit(fs) <= f.mark, fs # <<>> => Above(fs[Len(fs)], f),
           NEW w \in Seq(Seq(Int)), Len(w) = Count(f), \A i \in 1..Count(f) : w[i] = <<>>,
           NEW mem2 \in Seq(Cells), FrameEnd(f) <= Len(mem2), SameCells(mem, mem2, Limit(fs))
    PROVE  Good(Append(fs, f), mem2, Append(vs, w))
<1> DEFINE gs == Append(fs, f)
           ws == Append(vs, w)
<1> USE DEF SameCells
<1>1. Stacked(fs) /\ Shaped(fs, vs) /\ fs \in Seq(Frames) /\ f \in Frames
      /\ vs \in Seq(Seq(Seq(Int))) /\ Len(vs) = Len(fs) /\ Len(fs) \in Nat
  <2>1. Stacked(fs) /\ Shaped(fs, vs)
    BY Zenon DEF Good
  <2>2. fs \in Seq(Frames) /\ vs \in Seq(Seq(Seq(Int))) /\ Len(vs) = Len(fs)
    BY <2>1, Zenon DEF Shaped, Stacked
  <2>3. f \in Frames
    BY Zenon DEF Placed
  <2>4. Len(fs) \in Nat
    BY <2>2
  <2> QED
    BY <2>1, <2>2, <2>3, <2>4
<1>2. /\ gs \in Seq(Frames) /\ Len(gs) = Len(fs) + 1 /\ gs[Len(fs) + 1] = f /\ gs # <<>>
      /\ \A e \in 1..Len(fs) : gs[e] = fs[e]
  <2>1. gs \in Seq(Frames) /\ Len(gs) = Len(fs) + 1 /\ gs[Len(fs) + 1] = f
        /\ \A e \in 1..Len(fs) : gs[e] = fs[e]
    BY <1>1
  <2>2. gs # <<>>
    <3>1. Len(<<>>) = 0 /\ Len(fs) + 1 # 0
      BY <1>1
    <3> QED
      BY <2>1, <3>1
  <2> QED
    BY <2>1, <2>2
<1>0. \A e \in 1..(Len(fs) + 1) : e \in 1..Len(fs) \/ e = Len(fs) + 1
  BY <1>1
<1>3. /\ ws \in Seq(Seq(Seq(Int))) /\ Len(ws) = Len(fs) + 1 /\ ws[Len(fs) + 1] = w
      /\ \A e \in 1..Len(fs) : ws[e] = vs[e]
  BY <1>1
<1> HIDE DEF gs, ws
<1>4. Stacked(gs)
  <2>1. ASSUME NEW d \in 1..Len(gs)
        PROVE  Placed(gs[d])
    <3>1. CASE d \in 1..Len(fs)
      BY <1>1, <1>2, <3>1 DEF Stacked
    <3>2. CASE d = Len(fs) + 1
      BY <1>2, <3>2
    <3> QED
      BY <1>0, <1>2, <3>1, <3>2
  <2>2. ASSUME NEW d \in 2..Len(gs)
        PROVE  Above(gs[d - 1], gs[d])
    <3>1. CASE d = Len(gs)
      <4>1. fs # <<>> /\ d - 1 = Len(fs) /\ Len(fs) \in 1..Len(fs)
        BY <1>1, <1>2, <3>1
      <4> QED
        BY <1>2, <3>1, <4>1
    <3>2. CASE d # Len(gs)
      <4>1. d \in 2..Len(fs) /\ d - 1 \in 1..Len(fs) /\ d \in 1..Len(fs)
        BY <1>1, <1>2, <3>2
      <4> QED
        BY <1>1, <1>2, <4>1 DEF Stacked
    <3> QED
      BY <3>1, <3>2
  <2> QED
    BY <1>2, <2>1, <2>2 DEF Stacked
<1>5. Shaped(gs, ws)
  <2>1. ASSUME NEW d \in 1..Len(gs)
        PROVE  Len(ws[d]) = Count(gs[d])
    <3>1. CASE d \in 1..Len(fs)
      BY <1>1, <1>2, <1>3, <3>1 DEF Shaped
    <3>2. CASE d = Len(fs) + 1
      BY <1>2, <1>3, <3>2
    <3> QED
      BY <1>0, <1>2, <3>1, <3>2
  <2> QED
    BY <1>2, <1>3, <2>1 DEF Shaped
<1>6. \A e \in 1..Len(fs) : /\ FrameEnd(fs[e]) \in Nat
                            /\ \A a \in 1..FrameEnd(fs[e]) : mem2[a] = mem[a]
  <2> SUFFICES ASSUME NEW e \in 1..Len(fs)
               PROVE  FrameEnd(fs[e]) \in Nat /\ \A a \in 1..FrameEnd(fs[e]) : mem2[a] = mem[a]
    OBVIOUS
  <2>1. FrameEnd(fs[e]) \in Nat /\ FrameEnd(fs[e]) <= Limit(fs) /\ Limit(fs) \in Nat
    BY <1>1, GoodFrame, WithinLimit
  <2> QED
    BY <2>1
<1>7. ASSUME NEW d \in 1..Len(gs), NEW i \in 1..Count(gs[d]), ws[d][i] # <<>>
      PROVE  /\ Suits(gs, ws, d, TypesOf(gs[d])[i], ws[d][i])
             /\ CellsHold(gs, mem2, TypesOf(gs[d])[i], gs[d].slots[i], ws[d][i])
  <2>1. d \in 1..Len(fs)
    <3>1. d # Len(fs) + 1
      BY <1>2, <1>3, <1>7
    <3> QED
      BY <1>0, <1>2, <3>1
  <2>2. \A e \in 1..d : e \in 1..Len(fs)
    BY <1>1, <2>1
  <2>3. SameBelow(fs, vs, gs, ws, d)
    BY <1>2, <1>3, <2>2 DEF SameBelow
  <2>4. SameCells(mem, mem2, FrameEnd(fs[d]))
    BY <1>6, <2>1 DEF SameCells
  <2>5. SlotSound(gs, mem2, ws, d, i)
    BY <2>1, <2>3, <2>4, GoodBelow
  <2> QED
    BY <1>7, <2>5 DEF SlotSound
<1>8. Limit(gs) = FrameEnd(f)
  BY <1>2 DEF Limit
<1> QED
  BY <1>4, <1>5, <1>7, <1>8 DEF Good, Fitting, Held, gs, ws

\* A function is left.
LEMMA GoodPop ==
    ASSUME ProgramAssumption, NEW fs, NEW mem, NEW vs, Good(fs, mem, vs), fs # <<>>,
           NEW mem2 \in Seq(Cells), Limit(Front(fs)) <= Len(mem2),
           SameCells(mem, mem2, Limit(Front(fs)))
    PROVE  Good(Front(fs), mem2, Front(vs))
<1> DEFINE gs == Front(fs)
           ws == Front(vs)
           n == Len(fs) - 1
<1> USE DEF SameCells
<1>1. Stacked(fs) /\ Shaped(fs, vs) /\ fs \in Seq(Frames)
      /\ vs \in Seq(Seq(Seq(Int))) /\ Len(vs) = Len(fs) /\ Len(fs) \in Nat \ {0} /\ n \in 0..Len(fs)
  BY DEF Good, Shaped, Stacked
<1>2. gs \in Seq(Frames) /\ Len(gs) = n /\ \A e \in 1..n : gs[e] = fs[e] /\ e \in 1..Len(fs)
  BY <1>1 DEF Front
<1>3. ws \in Seq(Seq(Seq(Int))) /\ Len(ws) = n /\ \A e \in 1..n : ws[e] = vs[e]
  BY <1>1 DEF Front
<1>8. \A a \in 1..Limit(gs) : mem2[a] = mem[a]
  OBVIOUS
<1> HIDE DEF gs, ws
<1>4. Stacked(gs)
  <2>1. \A d \in 1..Len(gs) : Placed(gs[d])
    BY <1>1, <1>2 DEF Stacked
  <2>2. ASSUME NEW d \in 2..Len(gs)
        PROVE  Above(gs[d - 1], gs[d])
    <3>1. d \in 2..Len(fs) /\ d \in 1..n /\ d - 1 \in 1..n
      BY <1>1, <1>2
    <3> QED
      BY <1>1, <1>2, <3>1 DEF Stacked
  <2> QED
    BY <1>2, <2>1, <2>2 DEF Stacked
<1>5. Shaped(gs, ws)
  BY <1>1, <1>2, <1>3 DEF Shaped
<1>6. \A e \in 1..n : /\ FrameEnd(fs[e]) \in Nat
                      /\ \A a \in 1..FrameEnd(fs[e]) : mem2[a] = mem[a]
  <2> SUFFICES ASSUME NEW e \in 1..n
               PROVE  FrameEnd(fs[e]) \in Nat /\ \A a \in 1..FrameEnd(fs[e]) : mem2[a] = mem[a]
    OBVIOUS
  <2>1. FrameEnd(gs[e]) <= Limit(gs) /\ Limit(gs) \in Nat
    BY <1>2, <1>4, WithinLimit
  <2>2. FrameEnd(fs[e]) \in Nat
    BY <1>2, GoodFrame
  <2>3. FrameEnd(gs[e]) = FrameEnd(fs[e])
    BY <1>2
  <2> HIDE DEF n
  <2> QED
    BY <1>8, <2>1, <2>2, <2>3
<1>7. ASSUME NEW d \in 1..Len(gs), NEW i \in 1..Count(gs[d]), ws[d][i] # <<>>
      PROVE  /\ Suits(gs, ws, d, TypesOf(gs[d])[i], ws[d][i])
             /\ CellsHold(gs, mem2, TypesOf(gs[d])[i], gs[d].slots[i], ws[d][i])
  <2>1. d \in 1..n /\ d \in 1..Len(fs) /\ \A e \in 1..d : e \in 1..n
    <3>1. d \in 1..n /\ n \in Nat
      BY <1>1, <1>2
    <3> HIDE DEF n
    <3> QED
      BY <1>2, <3>1
  <2>2. SameBelow(fs, vs, gs, ws, d)
    BY <1>2, <1>3, <2>1 DEF SameBelow
  <2>3. SameCells(mem, mem2, FrameEnd(fs[d]))
    BY <1>6, <2>1 DEF SameCells
  <2>4. SlotSound(gs, mem2, ws, d, i)
    BY <2>1, <2>2, <2>3, GoodBelow
  <2> QED
    BY <1>7, <2>4 DEF SlotSound
<1> QED
  BY <1>4, <1>5, <1>7 DEF Good, Fitting, Held, gs, ws

\* The memory may be changed where no slot is.
LEMMA GoodLonger ==
    ASSUME ProgramAssumption, NEW fs, NEW mem, NEW vs, Good(fs, mem, vs),
           NEW mem2 \in Seq(Cells), Limit(fs) <= Len(mem2), SameCells(mem, mem2, Limit(fs))
    PROVE  Good(fs, mem2, vs)
<1> USE DEF SameCells
<1>1. Stacked(fs) /\ Shaped(fs, vs) /\ Fitting(fs, vs)
  BY DEF Good
<1>2. ASSUME NEW d \in 1..Len(fs), NEW i \in 1..Count(fs[d]), vs[d][i] # <<>>
      PROVE  CellsHold(fs, mem2, TypesOf(fs[d])[i], fs[d].slots[i], vs[d][i])
  <2>1. FrameEnd(fs[d]) \in Nat /\ FrameEnd(fs[d]) <= Limit(fs) /\ Limit(fs) \in Nat
    BY <1>1, GoodFrame, WithinLimit
  <2>2. SameCells(mem, mem2, FrameEnd(fs[d]))
    BY <2>1
  <2>3. SameBelow(fs, vs, fs, vs, d)
    BY DEF SameBelow
  <2>4. SlotSound(fs, mem2, vs, d, i)
    BY <2>2, <2>3, GoodBelow
  <2> QED
    BY <1>2, <2>4 DEF SlotSound
<1> QED
  BY <1>1, <1>2 DEF Good, Held

(***************************************************************************)
(* Reading variables.                                                      *)
(***************************************************************************)
\* A word is a cell; it has the value and, unless that is zero, the kind.
LEMMA WordParts ==
    ASSUME NEW kind \in {"int", "flt", "ptr", "junk"}, NEW n \in Int
    PROVE  /\ Word(kind, n) \in Cells /\ Word(kind, n)[2] = n
           /\ Word(kind, n) = Zero \/ Word(kind, n)[1] = kind
           /\ n # 0 => Word(kind, n) = <<kind, n>>
  BY DEF Word, Zero, Cells

\* The innermost function and its values.
LEMMA Innermost ==
    ASSUME ProgramAssumption, Good(frames, cells, values), frames # <<>>
    PROVE  /\ CallDepth \in Nat \ {0} /\ CallDepth \in 1..Len(frames) /\ Len(values) = CallDepth
           /\ Top = frames[CallDepth] /\ Top \in Frames /\ Last(values) = values[CallDepth]
           /\ DOMAIN Last(values) = 1..Count(Top) /\ Placed(Top)
           /\ \A i : TypeOf(Top, i) = TypesOf(Top)[i]
           /\ values \in Seq(Seq(Seq(Int))) /\ Last(values) \in Seq(Seq(Int))
           /\ Top.fn \in Routines /\ Count(Top) \in Nat
<1>1. frames \in Seq(Frames) /\ values \in Seq(Seq(Seq(Int))) /\ Len(values) = Len(frames)
  BY DEF Good, Stacked, Shaped
<1>2. CallDepth \in Nat \ {0} /\ CallDepth \in 1..Len(frames) /\ Top = frames[CallDepth] /\ Last(values) = values[CallDepth]
  BY <1>1 DEF CallDepth, Top, Last
<1>3. /\ Placed(frames[CallDepth]) /\ frames[CallDepth] \in Frames /\ frames[CallDepth].fn \in Routines
      /\ Count(frames[CallDepth]) \in Nat /\ values[CallDepth] \in Seq(Seq(Int))
      /\ Len(values[CallDepth]) = Count(frames[CallDepth])
  BY <1>2, GoodFrame
<1>4. DOMAIN values[CallDepth] = 1..Count(frames[CallDepth])
  BY <1>3
<1>5. \A i : TypeOf(Top, i) = TypesOf(Top)[i]
  BY DEF TypeOf, TypesOf
<1> QED
  BY <1>1, <1>2, <1>3, <1>4, <1>5 DEF CallDepth

\* A variable of the innermost function that has a value.
LEMMA SetVariable ==
    ASSUME ProgramAssumption, Good(frames, cells, values), frames # <<>>,
           NEW types, NEW i \in Set(types)
    PROVE  /\ i \in 1..Count(Top) /\ TypesOf(Top)[i] \in types \cap Types
           /\ values[CallDepth][i] \in Seq(Int) \ {<<>>} /\ Last(values)[i] = values[CallDepth][i]
           /\ Suits(frames, values, CallDepth, TypesOf(Top)[i], values[CallDepth][i])
           /\ CellsHold(frames, cells, TypesOf(Top)[i], Top.slots[i], values[CallDepth][i])
<1>1. /\ CallDepth \in 1..Len(frames) /\ Top = frames[CallDepth] /\ Last(values) = values[CallDepth]
      /\ DOMAIN Last(values) = 1..Count(Top) /\ \A j : TypeOf(Top, j) = TypesOf(Top)[j]
      /\ Last(values) \in Seq(Seq(Int))
  BY Innermost
<1>2. i \in DOMAIN Last(values) /\ TypeOf(Top, i) \in types /\ Last(values)[i] # <<>>
  BY DEF Set
<1>3. i \in 1..Count(Top) /\ TypesOf(Top)[i] \in types /\ Last(values)[i] \in Seq(Int) \ {<<>>}
  <2>1. PICK v \in Seq(Seq(Int)) : v = Last(values)
    BY <1>1
  <2>2. i \in 1..Len(v)
    BY <1>2, <2>1
  <2>3. v[i] \in Seq(Int)
    BY <2>2, ElementOfSeq
  <2> QED
    BY <1>1, <1>2, <2>1, <2>3
<1>4. TypesOf(Top)[i] \in Types
  BY <1>1, <1>3, GoodSlot
<1>5. Fitting(frames, values) /\ Held(frames, cells, values)
  BY DEF Good
<1>6. /\ Suits(frames, values, CallDepth, TypesOf(Top)[i], values[CallDepth][i])
      /\ CellsHold(frames, cells, TypesOf(Top)[i], Top.slots[i], values[CallDepth][i])
  BY <1>1, <1>3, <1>5 DEF Fitting, Held
<1> QED
  BY <1>1, <1>3, <1>4, <1>6

\* A scalar variable that has a value is loaded as that value.
LEMMA ScalarRead ==
    ASSUME ProgramAssumption, Good(frames, cells, values), frames # <<>>,
           NEW type \in {"int", "flt"}, NEW i \in Set({type})
    PROVE  /\ Number(i) \in Int /\ Last(values)[i] = <<Number(i)>>
           /\ LoadSlot(Top, i) = Word(type, Number(i))
<1>1. /\ i \in 1..Count(Top) /\ TypesOf(Top)[i] = type
      /\ values[CallDepth][i] \in Seq(Int) \ {<<>>} /\ Last(values)[i] = values[CallDepth][i]
      /\ Suits(frames, values, CallDepth, type, values[CallDepth][i])
      /\ CellsHold(frames, cells, type, Top.slots[i], values[CallDepth][i])
  BY SetVariable
<1>2. type # "ref" /\ type # "pair" /\ KindOf(type) = type
  BY DEF KindOf
<1>3. layoutSize(type) = 1
  BY <1>2, SizeType
<1>4. Len(values[CallDepth][i]) = 1
  BY <1>1, <1>2, <1>3 DEF Suits
<1>5. PICK v \in Seq(Int) : v = values[CallDepth][i] /\ Len(v) = 1
  BY <1>1, <1>4
<1>6. v[1] \in Int /\ v = <<v[1]>>
  BY <1>5
<1>7. cells[Top.slots[i] + 1 - 1] = Word(type, v[1])
  <2>1. 1 \in 1..layoutSize(type)
    BY <1>3
  <2> QED
    BY <1>1, <1>2, <1>5, <2>1 DEF CellsHold
<1>8. Top.slots[i] + 1 - 1 = Top.slots[i]
  <2>1. Top.slots[i] \in Nat
    BY <1>1, Innermost, SlotsOfFrame
  <2> QED
    BY <2>1
<1>9. Number(i) = v[1]
  BY <1>1, <1>5 DEF Number
<1> QED
  BY <1>1, <1>5, <1>6, <1>7, <1>8, <1>9 DEF LoadSlot

\* Slot j of the e-th function is a struct that has the value v.
StructAt(fs, mem, vs, e, j, v) ==
  /\ e \in 1..Len(fs) /\ j \in 1..Count(fs[e]) /\ TypesOf(fs[e])[j] = "pair"
  /\ vs[e][j] = v /\ v \in Seq(Int) /\ Len(v) = 2
  /\ fs[e].slots[j] \in Nat \ {0} /\ fs[e].slots[j] + 1 <= FrameEnd(fs[e])
  /\ FrameEnd(fs[e]) \in Nat /\ FrameEnd(fs[e]) <= Len(mem)
  /\ SlotCells(fs[e], j) = fs[e].slots[j]..(fs[e].slots[j] + 1)
  /\ mem[fs[e].slots[j]] = Word("int", v[1]) /\ mem[fs[e].slots[j] + 1] = Word("int", v[2])

LEMMA StructHeld ==
    ASSUME ProgramAssumption, NEW fs, NEW mem, NEW vs, Good(fs, mem, vs),
           NEW e \in 1..Len(fs), NEW j \in 1..Count(fs[e]), TypesOf(fs[e])[j] = "pair", vs[e][j] # <<>>
    PROVE  StructAt(fs, mem, vs, e, j, vs[e][j])
<1>1. vs[e] \in Seq(Seq(Int)) /\ Len(vs[e]) = Count(fs[e])
      /\ FrameEnd(fs[e]) \in Nat /\ FrameEnd(fs[e]) <= Len(mem)
  BY GoodFrame
<1>2. vs[e][j] \in Seq(Int)
  BY <1>1
<1>3. layoutSize("pair") = 2 /\ "pair" # "ref" /\ KindOf("pair") = "int"
  BY DEF layoutSize, KindOf
<1>4. /\ Suits(fs, vs, e, "pair", vs[e][j])
      /\ CellsHold(fs, mem, "pair", fs[e].slots[j], vs[e][j])
  BY DEF Good, Fitting, Held
<1>5. Len(vs[e][j]) = 2
  BY <1>3, <1>4 DEF Suits
<1>6. fs[e].slots[j] \in Nat \ {0} /\ fs[e].slots[j] + 2 - 1 <= FrameEnd(fs[e])
  BY <1>3, GoodSlot
<1>7. PICK x \in Nat \ {0} : x = fs[e].slots[j]
  BY <1>6
<1>8. \A k \in 1..2 : mem[x + k - 1] = Word("int", vs[e][j][k])
  BY <1>3, <1>4, <1>7 DEF CellsHold
<1>9. 1 \in 1..2 /\ 2 \in 1..2 /\ x + 1 - 1 = x /\ x + 2 - 1 = x + 1
  OBVIOUS
<1>10. mem[x] = Word("int", vs[e][j][1]) /\ mem[x + 1] = Word("int", vs[e][j][2])
  BY <1>8, <1>9
<1>11. SlotCells(fs[e], j) = x..(x + 1)
  BY <1>3, <1>7, <1>9 DEF SlotCells
<1> QED
  BY <1>1, <1>2, <1>5, <1>6, <1>7, <1>9, <1>10, <1>11 DEF StructAt

\* A struct operand is the variable it denotes, at that variable's address.
LEMMA StructRead ==
    ASSUME ProgramAssumption, Good(frames, cells, values), frames # <<>>, NEW i \in Set({"pair", "ref"})
    PROVE  \E e \in 1..CallDepth : \E j \in 1..Count(frames[e]) :
             /\ Referent(i) = <<e, j>> /\ aggregateAddress(Top, i) = frames[e].slots[j]
             /\ StructAt(frames, cells, values, e, j, Struct(i))
             /\ TypeOf(Top, i) = "ref" => e < CallDepth
             /\ TypeOf(Top, i) # "ref" => e = CallDepth /\ j = i /\ TypeOf(Top, i) = "pair"
<1>1. /\ CallDepth \in Nat \ {0} /\ CallDepth \in 1..Len(frames) /\ Top = frames[CallDepth]
      /\ Last(values) = values[CallDepth] /\ Len(frames) = CallDepth
      /\ \A j : TypeOf(Top, j) = TypesOf(Top)[j]
  BY Innermost DEF CallDepth
<1>2. /\ i \in 1..Count(Top) /\ TypesOf(Top)[i] \in {"pair", "ref"}
      /\ values[CallDepth][i] \in Seq(Int) \ {<<>>} /\ Last(values)[i] = values[CallDepth][i]
      /\ Suits(frames, values, CallDepth, TypesOf(Top)[i], values[CallDepth][i])
      /\ CellsHold(frames, cells, TypesOf(Top)[i], Top.slots[i], values[CallDepth][i])
  BY SetVariable
<1>3. CASE TypeOf(Top, i) = "ref"
  <2>1. PICK v \in Seq(Int) : v = values[CallDepth][i]
    BY <1>2
  <2>2. Borrow(frames, values, CallDepth, v)
    BY <1>1, <1>2, <1>3, <2>1 DEF Suits
  <2>3. /\ v[1] \in 1..(CallDepth - 1) /\ v[2] \in 1..Count(frames[v[1]])
        /\ TypesOf(frames[v[1]])[v[2]] = "pair" /\ values[v[1]][v[2]] # <<>> /\ v = <<v[1], v[2]>>
    BY <2>1, <2>2 DEF Borrow
  <2>4. PICK e, j : e = v[1] /\ j = v[2]
    OBVIOUS
  <2>5. e \in 1..Len(frames) /\ j \in 1..Count(frames[e]) /\ v = <<e, j>> /\ e \in 1..CallDepth /\ e < CallDepth /\ v[1] = e /\ v[2] = j
    BY <1>1, <2>3, <2>4
  <2>6. StructAt(frames, cells, values, e, j, values[e][j])
    BY <2>3, <2>4, <2>5, StructHeld
  <2>7. Referent(i) = <<e, j>>
    BY <1>2, <1>3, <2>1, <2>5 DEF Referent
  <2>8. Struct(i) = values[e][j]
    BY <2>7 DEF Struct
  <2>9. LoadSlot(Top, i) = Word("ptr", frames[e].slots[j])
    BY <1>1, <1>2, <1>3, <2>1, <2>5 DEF CellsHold, LoadSlot
  <2>10. frames[e].slots[j] \in Int
    BY <2>6 DEF StructAt
  <2>11. aggregateAddress(Top, i) = frames[e].slots[j]
    BY <1>3, <2>9, <2>10, WordParts DEF aggregateAddress
  <2> QED
    BY <1>3, <2>5, <2>6, <2>7, <2>8, <2>11
<1>4. CASE TypeOf(Top, i) # "ref"
  <2>1. TypeOf(Top, i) = "pair" /\ TypesOf(Top)[i] = "pair"
    BY <1>1, <1>2, <1>4
  <2>2. StructAt(frames, cells, values, CallDepth, i, values[CallDepth][i])
    BY <1>1, <1>2, <2>1, StructHeld
  <2>3. Referent(i) = <<CallDepth, i>> /\ aggregateAddress(Top, i) = frames[CallDepth].slots[i]
    BY <1>1, <1>4 DEF Referent, aggregateAddress
  <2>4. Struct(i) = values[CallDepth][i]
    BY <2>3 DEF Struct
  <2>5. CallDepth \in 1..CallDepth /\ i \in 1..Count(frames[CallDepth])
    BY <1>1, <1>2
  <2> QED
    BY <1>4, <2>1, <2>2, <2>3, <2>4, <2>5
<1> QED
  BY <1>3, <1>4

\* The cells of a struct operand hold its two numbers.
LEMMA StructCells ==
    ASSUME ProgramAssumption, Good(frames, cells, values), frames # <<>>, NEW i \in Set({"pair", "ref"})
    PROVE  \E v \in Seq(Int), a \in 1..(Len(cells) - 1) :
             /\ v = Struct(i) /\ a = aggregateAddress(Top, i) /\ Len(v) = 2
             /\ cells[a] = Word("int", v[1]) /\ cells[a + 1] = Word("int", v[2])
<1>1. PICK e \in 1..CallDepth : \E j \in 1..Count(frames[e]) :
        /\ aggregateAddress(Top, i) = frames[e].slots[j]
        /\ StructAt(frames, cells, values, e, j, Struct(i))
  BY StructRead
<1>2. PICK j : /\ aggregateAddress(Top, i) = frames[e].slots[j]
               /\ StructAt(frames, cells, values, e, j, Struct(i))
  BY <1>1
<1>3. PICK a \in Nat \ {0}, v \in Seq(Int) :
        /\ a = aggregateAddress(Top, i) /\ v = Struct(i) /\ Len(v) = 2
        /\ a + 1 <= FrameEnd(frames[e]) /\ FrameEnd(frames[e]) \in Nat /\ FrameEnd(frames[e]) <= Len(cells)
        /\ cells[a] = Word("int", v[1]) /\ cells[a + 1] = Word("int", v[2])
  BY <1>2 DEF StructAt
<1>4. Len(cells) \in Nat
  BY DEF Good
<1>5. a \in 1..(Len(cells) - 1)
  BY <1>3, <1>4
<1> QED
  BY <1>3, <1>5

(***************************************************************************)
(* Scalar expressions.                                                     *)
(***************************************************************************)
\* A power of two is not zero; the provers do not know powers.
LEMMA PowerOfTwo == ASSUME NEW n \in Nat
                    PROVE  2^n \in Nat \ {0}
<1>1. IsFiniteSet(1..n) /\ Cardinality(1..n) = n
  BY FS_Interval
<1>2. IsFiniteSet(SUBSET (1..n)) /\ Cardinality(SUBSET (1..n)) = 2^n
  BY <1>1, FS_SUBSET
<1>3. Cardinality(SUBSET (1..n)) \in Nat /\ SUBSET (1..n) # {}
  BY <1>2, FS_CardinalityType
<1> QED
  BY <1>2, <1>3, FS_EmptySet

\* Arithmetic on words of the type the registers are taken to have.
LEMMA ArithmeticIs ==
    ASSUME NEW type \in {"int", "flt"}, NEW a \in Int, NEW b \in Int
    PROVE  /\ Arithmetic("add", <<Word(type, a), Word(type, b)>>, type) = Word(type, a + b)
           /\ Arithmetic("neg", <<Word(type, a)>>, type) = Word(type, - a)
<1>1. /\ Word(type, a)[2] = a /\ (Word(type, a) = Zero \/ Word(type, a)[1] = type)
      /\ Word(type, b)[2] = b /\ (Word(type, b) = Zero \/ Word(type, b)[1] = type)
  BY WordParts
<1> QED
  BY <1>1 DEF Arithmetic

\* An expression written out.
Form(e, op, type, from, n) == e = [op |-> op, type |-> type, from |-> from, n |-> n]

\* The shapes of the expressions a statement may have.
LEMMA ExpressionIs ==
    ASSUME NEW type \in {"int", "flt"}, NEW e \in Expressions(type)
    PROVE  \/ \E n \in IF type = "int" THEN Literals ELSE Floats : Form(e, "literal", type, <<>>, n)
           \/ \E i \in Set({type}) : Form(e, "load", type, <<i>>, 0) \/ Form(e, "neg", type, <<i>>, 0)
           \/ e.op = "cast"
           \/ \E i, j \in Set({type}) : Form(e, "add", type, <<i, j>>, 0)
           \/ type = "int" /\ \E i \in Set({"pair", "ref"}), k \in 1..2 : Form(e, "field", type, <<i>>, k)
<1>1. CASE type = "int"
  <2> SUFFICES ASSUME e \in Expressions("int")
               PROVE  \/ \E n \in Literals : Form(e, "literal", "int", <<>>, n)
                      \/ \E i \in Set({"int"}) : Form(e, "load", "int", <<i>>, 0) \/ Form(e, "neg", "int", <<i>>, 0)
                      \/ e.op = "cast"
                      \/ \E i, j \in Set({"int"}) : Form(e, "add", "int", <<i, j>>, 0)
                      \/ \E i \in Set({"pair", "ref"}), k \in 1..2 : Form(e, "field", "int", <<i>>, k)
    BY <1>1
  <2> QED
    BY SMT DEF Expressions, Form
<1>2. CASE type = "flt"
  <2> SUFFICES ASSUME e \in Expressions("flt")
               PROVE  \/ \E n \in Floats : Form(e, "literal", "flt", <<>>, n)
                      \/ \E i \in Set({"flt"}) : Form(e, "load", "flt", <<i>>, 0) \/ Form(e, "neg", "flt", <<i>>, 0)
                      \/ e.op = "cast"
                      \/ \E i, j \in Set({"flt"}) : Form(e, "add", "flt", <<i, j>>, 0)
    BY <1>2
  <2> QED
    BY SMT DEF Expressions, Form
<1> QED
  BY <1>1, <1>2

\* What a literal may be.
LEMMA NumeralType == ASSUME ProgramAssumption
                     PROVE  /\ \A n \in Literals : n \in Nat /\ n \in Int
                            /\ \A n \in Floats : n \in Int
<1>1. Literals \subseteq Nat /\ Floats \subseteq Int
  BY DEF ProgramAssumption
<1> QED
  BY <1>1

\* What the statement stores is what native code computes, when the expression
\* is none of those the two differ on.
LEMMA OperandIs ==
    ASSUME ProgramAssumption, ImmediateAssumption, Good(frames, cells, values), frames # <<>>,
           NEW type \in {"int", "flt"}, NEW e \in Expressions(type), NEW seen,
           Differences(e, seen) = {}
    PROVE  emitExpr(e) \in Int /\ lowerOperand(Top, e, seen) = Word(type, emitExpr(e))
<1>1. /\ e.type = "int" /\ e.op = "literal" => ~(e.n >= 2^ImmediateBits)
      /\ e.op # "cast" /\ emitExpr(e) = Exact(e)
      /\ e.op \in {"add", "neg"} => seen = e.type
  BY DEF Differences
<1>2. \/ /\ e.op = "literal" /\ e.type = type /\ e.n \in IF type = "int" THEN Literals ELSE Floats
      \/ /\ e.op \in {"load", "neg"} /\ e.type = type /\ \E i \in Set({type}) : e.from = <<i>>
      \/ /\ e.op = "add" /\ e.type = type /\ \E i, j \in Set({type}) : e.from = <<i, j>>
      \/ /\ e.op = "field" /\ e.type = type /\ type = "int" /\ e.n \in 1..2
         /\ \E i \in Set({"pair", "ref"}) : e.from = <<i>>
  <2>1. \A op, from, n : Form(e, op, type, from, n) => e.op = op /\ e.type = type /\ e.from = from /\ e.n = n
    BY DEF Form
  <2>2. CASE \E n \in IF type = "int" THEN Literals ELSE Floats : Form(e, "literal", type, <<>>, n)
    BY <2>1, <2>2
  <2>3. CASE \E i \in Set({type}) : Form(e, "load", type, <<i>>, 0) \/ Form(e, "neg", type, <<i>>, 0)
    BY <2>1, <2>3
  <2>4. CASE \E i, j \in Set({type}) : Form(e, "add", type, <<i, j>>, 0)
    BY <2>1, <2>4
  <2>5. CASE type = "int" /\ \E i \in Set({"pair", "ref"}), k \in 1..2 : Form(e, "field", type, <<i>>, k)
    BY <2>1, <2>5
  <2> QED
    BY <1>1, <2>2, <2>3, <2>4, <2>5, ExpressionIs
<1>3. CASE e.op = "literal"
  <2>1. e.type = type /\ e.n \in IF type = "int" THEN Literals ELSE Floats
    BY <1>2, <1>3
  <2>6. (type = "int" => e.n \in Literals) /\ (type = "flt" => e.n \in Floats)
    BY <2>1
  <2>2. e.n \in Int /\ (type = "int" => e.n \in Nat)
    BY <2>6, NumeralType
  <2>3. Exact(e) = e.n /\ lowerOperand(Top, e, seen) = lowerLiteral(type, e.n)
    BY <1>3, <2>1 DEF Exact, lowerOperand
  <2>4. CASE type = "flt"
    BY <1>1, <2>2, <2>3, <2>4 DEF lowerLiteral
  <2>5. CASE type = "int"
    <3>1. 2^ImmediateBits \in Nat \ {0}
      BY PowerOfTwo DEF ImmediateAssumption
    <3>2. e.n \in 0..(2^ImmediateBits - 1)
      BY <1>1, <1>3, <2>1, <2>2, <2>5, <3>1
    <3>3. e.n % 2^ImmediateBits = e.n
      BY <3>1, <3>2, RemainderSmall
    <3> QED
      BY <1>1, <2>2, <2>3, <2>5, <3>3 DEF lowerLiteral
  <2> QED
    BY <2>4, <2>5
<1>4. CASE e.op = "load"
  <2>1. PICK i \in Set({type}) : e.from = <<i>>
    BY <1>2, <1>4
  <2>2. Number(i) \in Int /\ LoadSlot(Top, i) = Word(type, Number(i))
    BY ScalarRead
  <2> QED
    BY <1>1, <1>4, <2>1, <2>2 DEF Exact, lowerOperand
<1>5. CASE e.op = "neg"
  <2>1. PICK i \in Set({type}) : e.from = <<i>> /\ e.type = type
    BY <1>2, <1>5
  <2>2. Number(i) \in Int /\ LoadSlot(Top, i) = Word(type, Number(i))
    BY ScalarRead
  <2>3. lowerOperand(Top, e, seen) = Arithmetic("neg", [k \in DOMAIN e.from |-> LoadSlot(Top, e.from[k])], type)
    BY <1>1, <1>5, <2>1 DEF lowerOperand
  <2>4. [k \in DOMAIN e.from |-> LoadSlot(Top, e.from[k])] = <<Word(type, Number(i))>>
    BY <2>1, <2>2
  <2>5. Arithmetic("neg", <<Word(type, Number(i))>>, type) = Word(type, - Number(i))
    BY <2>2, ArithmeticIs
  <2>6. Exact(e) = - Number(i)
    BY <1>5, <2>1 DEF Exact
  <2> QED
    BY <1>1, <2>2, <2>3, <2>4, <2>5, <2>6
<1>6. CASE e.op = "add"
  <2>1. PICK i \in Set({type}), j \in Set({type}) : e.from = <<i, j>> /\ e.type = type
    BY <1>2, <1>6
  <2>2. /\ Number(i) \in Int /\ LoadSlot(Top, i) = Word(type, Number(i))
        /\ Number(j) \in Int /\ LoadSlot(Top, j) = Word(type, Number(j))
    BY ScalarRead
  <2>3. lowerOperand(Top, e, seen) = Arithmetic("add", [k \in DOMAIN e.from |-> LoadSlot(Top, e.from[k])], type)
    BY <1>1, <1>6, <2>1 DEF lowerOperand
  <2>4. [k \in DOMAIN e.from |-> LoadSlot(Top, e.from[k])] = <<Word(type, Number(i)), Word(type, Number(j))>>
    BY <2>1, <2>2
  <2>5. Arithmetic("add", <<Word(type, Number(i)), Word(type, Number(j))>>, type)
          = Word(type, Number(i) + Number(j))
    BY <2>2, ArithmeticIs
  <2>6. Exact(e) = Number(i) + Number(j)
    BY <1>6, <2>1 DEF Exact
  <2> QED
    BY <1>1, <2>2, <2>3, <2>4, <2>5, <2>6
<1>7. CASE e.op = "field"
  <2>1. PICK i \in Set({"pair", "ref"}) : e.from = <<i>> /\ type = "int" /\ e.n \in 1..2
    BY <1>2, <1>7
  <2>2. PICK d \in 1..CallDepth : \E j \in 1..Count(frames[d]) :
          /\ aggregateAddress(Top, i) = frames[d].slots[j]
          /\ StructAt(frames, cells, values, d, j, Struct(i))
    BY StructRead
  <2>3. PICK a \in Nat \ {0}, v \in Seq(Int) :
          /\ a = aggregateAddress(Top, i) /\ v = Struct(i) /\ Len(v) = 2
          /\ cells[a] = Word("int", v[1]) /\ cells[a + 1] = Word("int", v[2])
    BY <2>2 DEF StructAt
  <2>4. fieldAddress(Top, i, e.n) = a + e.n - 1 /\ a + 1 - 1 = a /\ a + 2 - 1 = a + 1
    BY <2>3 DEF fieldAddress
  <2>5. cells[fieldAddress(Top, i, e.n)] = Word("int", v[e.n]) /\ v[e.n] \in Int
    <3>0. v[1] \in Int /\ v[2] \in Int
      <4>1. 1 \in 1..Len(v) /\ 2 \in 1..Len(v)
        BY <2>3
      <4> QED
        BY <4>1, ElementOfSeq
    <3>1. CASE e.n = 1
      <4>1. fieldAddress(Top, i, e.n) = a
        BY <2>4, <3>1
      <4> QED
        BY <2>3, <3>0, <3>1, <4>1
    <3>2. CASE e.n = 2
      <4>1. fieldAddress(Top, i, e.n) = a + 1
        BY <2>4, <3>2
      <4> QED
        BY <2>3, <3>0, <3>2, <4>1
    <3> QED
      BY <2>1, <3>1, <3>2
  <2>6. Exact(e) = v[e.n] /\ lowerOperand(Top, e, seen) = cells[fieldAddress(Top, i, e.n)]
    BY <1>7, <2>1, <2>3 DEF Exact, lowerOperand
  <2> QED
    BY <1>1, <2>1, <2>5, <2>6
<1> QED
  BY <1>1, <1>2, <1>3, <1>4, <1>5, <1>6, <1>7

(***************************************************************************)
(* Writing variables.                                                      *)
(***************************************************************************)
\* One cell is different.
Written(mem, mem2, a, w) == mem2 = [mem EXCEPT ![a] = w]

\* A cell of a slot is overwritten.
LEMMA OneCell ==
    ASSUME ProgramAssumption, NEW fs, NEW mem, NEW vs, Good(fs, mem, vs),
           NEW d \in 1..Len(fs), NEW i \in 1..Count(fs[d]), NEW a \in SlotCells(fs[d], i), NEW w \in Cells,
           NEW mem2, Written(mem, mem2, a, w)
    PROVE  mem2 \in Seq(Cells) /\ mem2[a] = w /\ OnlySlot(mem, mem2, fs[d], i)
<1>1. mem \in Seq(Cells) /\ Len(mem) \in Nat /\ a \in 1..Len(mem)
  BY GoodSlot DEF Good
<1>2. /\ mem2 \in Seq(Cells) /\ Len(mem2) = Len(mem)
      /\ \A b \in 1..Len(mem) : mem2[b] = IF b = a THEN w ELSE mem[b]
  BY <1>1, ExceptSeq DEF Written
<1> QED
  BY <1>1, <1>2 DEF OnlySlot

\* A scalar is stored.
LEMMA GoodScalar ==
    ASSUME ProgramAssumption, NEW fs, NEW mem, NEW vs, Good(fs, mem, vs),
           NEW d \in 1..Len(fs), NEW i \in 1..Count(fs[d]), NEW type \in {"int", "flt"},
           TypesOf(fs[d])[i] = type, NEW x \in Int
    PROVE  Good(fs, [mem EXCEPT ![fs[d].slots[i]] = Word(type, x)], [vs EXCEPT ![d][i] = <<x>>])
<1>1. PICK a \in Nat \ {0} : a = fs[d].slots[i]
  BY GoodSlot
<1>2. type # "ref" /\ layoutSize(type) = 1 /\ KindOf(type) = type
  BY DEF layoutSize, KindOf
<1>3. a \in SlotCells(fs[d], i) /\ a + 1 - 1 = a
  <2>1. SlotCells(fs[d], i) = a..(a + 1 - 1)
    BY <1>1, <1>2 DEF SlotCells
  <2> QED
    BY <2>1
<1>4. PICK w \in Cells : w = Word(type, x)
  BY WordParts
<1>5. PICK mem2 : mem2 = [mem EXCEPT ![a] = w]
  OBVIOUS
<1>10. mem2 \in Seq(Cells) /\ mem2[a] = w /\ OnlySlot(mem, mem2, fs[d], i)
  <2>1. Written(mem, mem2, a, w)
    BY <1>5 DEF Written
  <2> QED
    BY <1>3, <2>1, OneCell
<1>6. <<x>> \in Seq(Int) /\ <<x>> # <<>> /\ Len(<<x>>) = 1 /\ <<x>>[1] = x
  OBVIOUS
<1>7. Suits(fs, vs, d, type, <<x>>)
  BY <1>2, <1>6 DEF Suits
<1>8. CellsHold(fs, mem2, type, a, <<x>>)
  <2>1. \A k \in 1..1 : k = 1
    OBVIOUS
  <2> QED
    BY <1>2, <1>3, <1>4, <1>10, <1>6, <2>1 DEF CellsHold
<1>9. Good(fs, mem2, [vs EXCEPT ![d][i] = <<x>>])
  BY <1>1, <1>10, <1>6, <1>7, <1>8, GoodPut
<1> QED
  BY <1>1, <1>4, <1>5, <1>9

\* A pointer is stored for a borrow.
LEMMA GoodBorrow ==
    ASSUME ProgramAssumption, NEW fs, NEW mem, NEW vs, Good(fs, mem, vs),
           NEW d \in 1..Len(fs), NEW i \in 1..Count(fs[d]), TypesOf(fs[d])[i] = "ref",
           NEW e \in 1..(d - 1), NEW j \in 1..Count(fs[e]), TypesOf(fs[e])[j] = "pair", vs[e][j] # <<>>
    PROVE  Good(fs, [mem EXCEPT ![fs[d].slots[i]] = Word("ptr", fs[e].slots[j])],
                    [vs EXCEPT ![d][i] = <<e, j>>])
<1>1. PICK a \in Nat \ {0} : a = fs[d].slots[i]
  BY GoodSlot
<1>2. layoutSize("ref") = 1
  BY DEF layoutSize
<1>3. a \in SlotCells(fs[d], i)
  <2>1. SlotCells(fs[d], i) = a..(a + 1 - 1)
    BY <1>1, <1>2 DEF SlotCells
  <2> QED
    BY <2>1
<1>4. e \in 1..Len(fs) /\ Count(fs[e]) \in Nat
  <2>1. Len(fs) \in Nat
    BY DEF Good, Stacked
  <2>2. e \in 1..Len(fs)
    BY <2>1
  <2> QED
    BY <2>2, GoodFrame
<1>5. PICK b \in Nat \ {0} : b = fs[e].slots[j]
  BY <1>4, GoodSlot
<1>6. PICK w \in Cells : w = Word("ptr", b)
  BY WordParts
<1>7. PICK mem2 : mem2 = [mem EXCEPT ![a] = w]
  OBVIOUS
<1>12. mem2 \in Seq(Cells) /\ mem2[a] = w /\ OnlySlot(mem, mem2, fs[d], i)
  <2>1. Written(mem, mem2, a, w)
    BY <1>7 DEF Written
  <2> QED
    BY <1>3, <2>1, OneCell
<1>8. PICK v \in Seq(Int) : v = <<e, j>> /\ v # <<>> /\ Len(v) = 2 /\ v[1] = e /\ v[2] = j
  <2>1. e \in Int /\ j \in Int
    BY <1>4
  <2>2. <<e, j>> \in Seq(Int) /\ Len(<<e, j>>) = 2
    BY <2>1
  <2>3. <<e, j>> # <<>> /\ <<e, j>>[1] = e /\ <<e, j>>[2] = j
    OBVIOUS
  <2> QED
    BY <2>2, <2>3
<1>9. Suits(fs, vs, d, "ref", v)
  BY <1>8 DEF Suits, Borrow
<1>10. CellsHold(fs, mem2, "ref", a, v)
  BY <1>5, <1>6, <1>12, <1>8 DEF CellsHold
<1>11. Good(fs, mem2, [vs EXCEPT ![d][i] = v])
  <2>1. CellsHold(fs, mem2, TypesOf(fs[d])[i], fs[d].slots[i], v) /\ Suits(fs, vs, d, TypesOf(fs[d])[i], v)
    BY <1>1, <1>9, <1>10
  <2>2. v # <<>> /\ mem2 \in Seq(Cells) /\ OnlySlot(mem, mem2, fs[d], i)
    BY <1>8, <1>12
  <2> QED
    BY <2>1, <2>2, GoodPut
<1> QED
  BY <1>1, <1>5, <1>6, <1>7, <1>8, <1>11

\* A struct is stored, by whatever writes its two cells and nothing else of the old memory.
LEMMA GoodStruct ==
    ASSUME ProgramAssumption, NEW fs, NEW mem, NEW vs, Good(fs, mem, vs),
           NEW d \in 1..Len(fs), NEW i \in 1..Count(fs[d]), TypesOf(fs[d])[i] = "pair",
           NEW v \in Seq(Int), Len(v) = 2,
           NEW mem2 \in Seq(Cells), OnlySlot(mem, mem2, fs[d], i),
           mem2[fs[d].slots[i]] = Word("int", v[1]), mem2[fs[d].slots[i] + 1] = Word("int", v[2])
    PROVE  Good(fs, mem2, [vs EXCEPT ![d][i] = v])
<1>1. PICK a \in Nat \ {0} : a = fs[d].slots[i]
  BY GoodSlot
<1>2. layoutSize("pair") = 2 /\ KindOf("pair") = "int" /\ "pair" # "ref"
  BY DEF layoutSize, KindOf
<1>3. v # <<>>
  <2>1. Len(<<>>) # 2
    OBVIOUS
  <2> QED
    BY <2>1
<1>4. Suits(fs, vs, d, "pair", v)
  BY <1>2 DEF Suits
<1>5. CellsHold(fs, mem2, "pair", a, v)
  <2>1. \A k \in 1..2 : k = 1 \/ k = 2
    OBVIOUS
  <2>2. a + 1 - 1 = a /\ a + 2 - 1 = a + 1
    OBVIOUS
  <2>3. \A k \in 1..2 : mem2[a + k - 1] = Word("int", v[k])
    BY <1>1, <2>1, <2>2
  <2> QED
    BY <1>2, <2>3 DEF CellsHold
<1> QED
  BY <1>1, <1>3, <1>4, <1>5, GoodPut

\* No cell is different but two.
OnlyTwo(mem, mem2, to) ==
  Len(mem2) = Len(mem) /\ \A a \in 1..Len(mem) : a \notin to..(to + 1) => mem2[a] = mem[a]

\* Two cells are copied.
LEMMA CopyTwo ==
    ASSUME NEW mem \in Seq(Cells), NEW to \in 1..(Len(mem) - 1), NEW from \in 1..(Len(mem) - 1)
    PROVE  /\ MemCopy(mem, to, from, 2) \in Seq(Cells) /\ OnlyTwo(mem, MemCopy(mem, to, from, 2), to)
           /\ MemCopy(mem, to, from, 2)[to] = mem[from]
           /\ MemCopy(mem, to, from, 2)[to + 1] = mem[from + 1]
<1>1. Len(mem) \in Nat /\ DOMAIN mem = 1..Len(mem) /\ to + 2 - 1 = to + 1
  OBVIOUS
<1>2. MemCopy(mem, to, from, 2)
        = [a \in 1..Len(mem) |-> IF a \in to..(to + 1) THEN mem[from + a - to] ELSE mem[a]]
  BY <1>1 DEF MemCopy
<1>3. \A a \in 1..Len(mem) : (IF a \in to..(to + 1) THEN mem[from + a - to] ELSE mem[a]) \in Cells
  <2> SUFFICES ASSUME NEW a \in 1..Len(mem)
               PROVE  (IF a \in to..(to + 1) THEN mem[from + a - to] ELSE mem[a]) \in Cells
    OBVIOUS
  <2>1. a \in to..(to + 1) => from + a - to \in 1..Len(mem)
    BY <1>1
  <2> QED
    BY <2>1, ElementOfSeq
<1>4. PICK m : m = MemCopy(mem, to, from, 2)
  OBVIOUS
<1>5. m \in [1..Len(mem) -> Cells]
  BY <1>2, <1>3, <1>4
<1>6. m \in Seq(Cells) /\ Len(m) = Len(mem)
  BY <1>1, <1>5
<1>7. to \in 1..Len(mem) /\ to + 1 \in 1..Len(mem) /\ to \in to..(to + 1) /\ to + 1 \in to..(to + 1)
      /\ from + to - to = from /\ from + (to + 1) - to = from + 1
  BY <1>1
<1>8. m[to] = mem[from] /\ m[to + 1] = mem[from + 1]
  BY <1>2, <1>4, <1>7
<1>9. \A a \in 1..Len(mem) : a \notin to..(to + 1) => m[a] = mem[a]
  BY <1>2, <1>4
<1> QED
  BY <1>4, <1>6, <1>8, <1>9 DEF OnlyTwo

\* A struct is copied from the cells of another one.
LEMMA GoodCopy ==
    ASSUME ProgramAssumption, NEW fs, NEW mem, NEW vs, Good(fs, mem, vs),
           NEW d \in 1..Len(fs), NEW i \in 1..Count(fs[d]), TypesOf(fs[d])[i] = "pair",
           NEW v \in Seq(Int), Len(v) = 2, NEW from \in 1..(Len(mem) - 1),
           mem[from] = Word("int", v[1]), mem[from + 1] = Word("int", v[2])
    PROVE  Good(fs, MemCopy(mem, fs[d].slots[i], from, 2), [vs EXCEPT ![d][i] = v])
<1>1. mem \in Seq(Cells) /\ Len(mem) \in Nat
  BY DEF Good
<1>2. PICK a \in Nat \ {0} : a = fs[d].slots[i]
  BY GoodSlot
<1>3. layoutSize("pair") = 2
  BY DEF layoutSize
<1>4. SlotCells(fs[d], i) = a..(a + 1) /\ a \in 1..(Len(mem) - 1)
  <2>1. a + 2 - 1 = a + 1
    OBVIOUS
  <2>2. SlotCells(fs[d], i) = a..(a + 1)
    BY <1>2, <1>3, <2>1 DEF SlotCells
  <2>3. SlotCells(fs[d], i) \subseteq 1..Len(mem)
    BY GoodSlot
  <2>4. a + 1 \in 1..Len(mem)
    BY <2>2, <2>3
  <2> QED
    BY <1>1, <2>2, <2>4
<1>5. PICK mem2 : mem2 = MemCopy(mem, a, from, 2)
  OBVIOUS
<1>6. /\ mem2 \in Seq(Cells) /\ mem2[a] = mem[from] /\ mem2[a + 1] = mem[from + 1]
      /\ OnlyTwo(mem, mem2, a)
  BY <1>1, <1>4, <1>5, CopyTwo
<1>7. OnlySlot(mem, mem2, fs[d], i)
  BY <1>1, <1>4, <1>6 DEF OnlySlot, OnlyTwo
<1>8. mem2[fs[d].slots[i]] = Word("int", v[1]) /\ mem2[fs[d].slots[i] + 1] = Word("int", v[2])
  BY <1>2, <1>6
<1> QED
  BY <1>2, <1>5, <1>6, <1>7, <1>8, GoodStruct

\* The memory is longer.
Longer(mem, mem2, n) == Len(mem2) = Len(mem) + n /\ SameCells(mem, mem2, Len(mem))

LEMMA FrameAllocated ==
    ASSUME NEW mem \in Seq(Cells), NEW n \in Nat
    PROVE  allocBytes(mem, n) \in Seq(Cells) /\ Longer(mem, allocBytes(mem, n), n)
<1>1. Zero \in Cells
  BY DEF Zero, Cells
<1>2. PICK z : z = [k \in 1..n |-> Zero]
  OBVIOUS
<1>3. z \in [1..n -> Cells]
  BY <1>1, <1>2
<1>4. z \in Seq(Cells) /\ Len(z) = n
  BY <1>3
<1>5. /\ mem \o z \in Seq(Cells) /\ Len(mem \o z) = Len(mem) + n
      /\ \A a \in 1..Len(mem) : (mem \o z)[a] = mem[a]
  BY <1>4
<1>6. allocBytes(mem, n) = mem \o z
  BY <1>2 DEF allocBytes
<1> QED
  BY <1>5, <1>6 DEF Longer, SameCells

(***************************************************************************)
(* Statements of the innermost function.                                   *)
(***************************************************************************)
Kept == ~failed' /\ frames' # <<>> /\ Good(frames', cells', values')

\* A slot of the innermost function.
LEMMA SlotVariable ==
    ASSUME ProgramAssumption, Good(frames, cells, values), frames # <<>>, NEW types, NEW i \in Slot(types)
    PROVE  i \in 1..Count(Top) /\ TypeOf(Top, i) \in types /\ TypesOf(Top)[i] = TypeOf(Top, i)
  BY Innermost DEF Slot

\* A scalar is assigned.
LEMMA StoreStep ==
    ASSUME ProgramAssumption, ImmediateAssumption, Good(frames, cells, values), frames # <<>>,
           Store, uses' = {}
    PROVE  Kept
<1>1. PICK i \in Slot({"int", "flt"}) : \E e \in Expressions(TypeOf(Top, i)) :
        \E seen \in RegisterTypes(Top, e.type) :
          /\ Statement /\ StoreScalar(i, e, seen)
          /\ values' = [values EXCEPT ![CallDepth][i] = <<emitExpr(e)>>]
          /\ uses' = Differences(e, seen)
  BY DEF Store
<1>2. PICK type \in {"int", "flt"} : type = TypeOf(Top, i) /\ i \in 1..Count(Top) /\ TypesOf(Top)[i] = type
  BY <1>1, SlotVariable
<1>3. PICK e, seen :
        /\ e \in Expressions(type) /\ Statement /\ StoreScalar(i, e, seen)
        /\ values' = [values EXCEPT ![CallDepth][i] = <<emitExpr(e)>>]
        /\ Differences(e, seen) = {}
  BY <1>1, <1>2
<1>4. PICK x \in Int : x = emitExpr(e) /\ lowerOperand(Top, e, seen) = Word(type, x)
  BY <1>3, OperandIs
<1>5. CallDepth \in 1..Len(frames) /\ Top = frames[CallDepth]
  BY Innermost
<1>6. Good(frames, [cells EXCEPT ![frames[CallDepth].slots[i]] = Word(type, x)],
                   [values EXCEPT ![CallDepth][i] = <<x>>])
  BY <1>2, <1>5, GoodScalar
<1>7. cells' = [cells EXCEPT ![frames[CallDepth].slots[i]] = Word(type, x)] /\ frames' = frames /\ failed' = failed
  BY <1>3, <1>4, <1>5 DEF StoreScalar
<1>8. ~failed
  BY <1>3 DEF Statement
<1> QED
  BY <1>3, <1>4, <1>6, <1>7, <1>8 DEF Kept

\* A struct is assigned: from two numbers, or from another struct.
LEMMA StoreStructStep ==
    ASSUME ProgramAssumption, Good(frames, cells, values), frames # <<>>, StoreStruct
    PROVE  Kept
<1>1. PICK slot \in Slot({"pair"}) :
        /\ Statement
        /\ \/ \E i, j \in Set({"int"}) :
                 /\ StoreLiteral(slot, i, j)
                 /\ values' = [values EXCEPT ![CallDepth][slot] = <<Number(i), Number(j)>>]
           \/ \E source \in Set({"pair", "ref"}) :
                 /\ StoreCopy(slot, source)
                 /\ values' = [values EXCEPT ![CallDepth][slot] = Struct(source)]
  BY DEF StoreStruct
<1>2. ~failed
  BY <1>1 DEF Statement
<1>3. slot \in 1..Count(Top) /\ TypesOf(Top)[slot] = "pair"
  BY <1>1, SlotVariable
<1>4. CallDepth \in 1..Len(frames) /\ Top = frames[CallDepth]
  BY Innermost
<1>5. cells \in Seq(Cells) /\ Len(cells) \in Nat
  BY DEF Good
<1>6. CASE \E i, j \in Set({"int"}) :
             /\ StoreLiteral(slot, i, j)
             /\ values' = [values EXCEPT ![CallDepth][slot] = <<Number(i), Number(j)>>]
  <2>1. PICK i \in Set({"int"}), j \in Set({"int"}) :
          /\ StoreLiteral(slot, i, j)
          /\ values' = [values EXCEPT ![CallDepth][slot] = <<Number(i), Number(j)>>]
    BY <1>6
  <2>2. PICK x \in Int, y \in Int : x = Number(i) /\ y = Number(j)
                                    /\ LoadSlot(Top, i) = Word("int", x) /\ LoadSlot(Top, j) = Word("int", y)
    BY ScalarRead
  <2>3. PICK base \in Nat : base = Len(cells) + 1
    BY <1>5
  <2>4. PICK more \in Seq(Cells) : more = allocBytes(cells, 2) /\ Len(more) = Len(cells) + 2
                                   /\ \A a \in 1..Len(cells) : more[a] = cells[a]
    BY <1>5, FrameAllocated DEF Longer, SameCells
  <2>5. PICK p \in Cells, q \in Cells : p = Word("int", x) /\ q = Word("int", y)
    BY WordParts
  <2>6. PICK built : built = [more EXCEPT ![base] = p, ![base + 1] = q]
    OBVIOUS
  <2>7. built \in Seq(Cells) /\ Len(built) = Len(cells) + 2 /\ built[base] = p /\ built[base + 1] = q
        /\ \A a \in 1..Len(cells) : built[a] = cells[a]
    <3>1. base \in 1..Len(more) /\ base + 1 \in 1..Len(more) /\ base # base + 1
      BY <1>5, <2>3, <2>4
    <3>2. PICK half : half = [more EXCEPT ![base] = p]
      OBVIOUS
    <3>3. half \in Seq(Cells) /\ Len(half) = Len(more)
          /\ \A a \in 1..Len(more) : half[a] = IF a = base THEN p ELSE more[a]
      BY <2>4, <2>5, <3>1, <3>2, ExceptSeq
    <3>4. built = [half EXCEPT ![base + 1] = q]
      BY <2>6, <3>2
    <3>5. built \in Seq(Cells) /\ Len(built) = Len(half)
          /\ \A a \in 1..Len(half) : built[a] = IF a = base + 1 THEN q ELSE half[a]
      BY <2>5, <3>1, <3>3, <3>4, ExceptSeq
    <3>6. \A a \in 1..Len(cells) : a \in 1..Len(more) /\ a # base /\ a # base + 1
      BY <1>5, <2>3, <2>4
    <3> QED
      BY <2>3, <2>4, <3>1, <3>3, <3>5, <3>6
  <2>8. Good(frames, built, values)
    <3>1. SameCells(cells, built, Limit(frames))
      <4>1. Limit(frames) \in Nat /\ Limit(frames) <= Len(cells)
        BY <1>4, WithinLimit DEF Good
      <4> QED
        BY <1>5, <2>7, <4>1 DEF SameCells
    <3>2. Limit(frames) <= Len(built)
      <4>1. Limit(frames) \in Nat /\ Limit(frames) <= Len(cells)
        BY <1>4, WithinLimit DEF Good
      <4> QED
        BY <1>5, <2>7, <4>1
    <3> QED
      BY <2>7, <3>1, <3>2, GoodLonger
  <2>9. PICK v \in Seq(Int) : v = <<x, y>> /\ Len(v) = 2 /\ v[1] = x /\ v[2] = y
    <3>1. <<x, y>> \in Seq(Int) /\ Len(<<x, y>>) = 2
      BY <2>2
    <3>2. <<x, y>>[1] = x /\ <<x, y>>[2] = y
      OBVIOUS
    <3> QED
      BY <3>1, <3>2
  <2>10. base \in 1..(Len(built) - 1)
    BY <1>5, <2>3, <2>7
  <2>11. Good(frames, MemCopy(built, frames[CallDepth].slots[slot], base, 2), [values EXCEPT ![CallDepth][slot] = v])
    BY <1>3, <1>4, <2>5, <2>7, <2>8, <2>9, <2>10, GoodCopy
  <2>12. cells' = MemCopy(built, frames[CallDepth].slots[slot], base, 2) /\ UNCHANGED <<frames, failed>>
    BY <1>4, <2>1, <2>2, <2>3, <2>4, <2>5, <2>6 DEF StoreLiteral
  <2> QED
    BY <1>2, <2>1, <2>2, <2>9, <2>11, <2>12 DEF Kept
<1>7. CASE \E source \in Set({"pair", "ref"}) :
             /\ StoreCopy(slot, source)
             /\ values' = [values EXCEPT ![CallDepth][slot] = Struct(source)]
  <2>1. PICK source \in Set({"pair", "ref"}) :
          /\ StoreCopy(slot, source)
          /\ values' = [values EXCEPT ![CallDepth][slot] = Struct(source)]
    BY <1>7
  <2>2. PICK v \in Seq(Int), from \in 1..(Len(cells) - 1) :
          /\ v = Struct(source) /\ from = aggregateAddress(Top, source) /\ Len(v) = 2
          /\ cells[from] = Word("int", v[1]) /\ cells[from + 1] = Word("int", v[2])
    BY StructCells
  <2>3. Good(frames, MemCopy(cells, frames[CallDepth].slots[slot], from, 2), [values EXCEPT ![CallDepth][slot] = v])
    BY <1>3, <1>4, <2>2, GoodCopy
  <2>4. cells' = MemCopy(cells, frames[CallDepth].slots[slot], from, 2) /\ UNCHANGED <<frames, failed>>
    BY <1>4, <2>1, <2>2 DEF StoreCopy
  <2> QED
    BY <1>2, <2>1, <2>2, <2>3, <2>4 DEF Kept
<1> QED
  BY <1>1, <1>6, <1>7

\* A field is assigned, of a struct or through a borrow.
LEMMA SetFieldStep ==
    ASSUME ProgramAssumption, Good(frames, cells, values), frames # <<>>, SetField
    PROVE  Kept
<1>1. PICK slot \in Set({"pair", "ref"}), index \in 1..2, i \in Set({"int"}) :
        /\ Statement /\ AssignField(slot, index, i)
        /\ values' = [values EXCEPT ![Referent(slot)[1]][Referent(slot)[2]][index] = Number(i)]
  BY DEF SetField
<1>2. PICK x \in Int : x = Number(i) /\ LoadSlot(Top, i) = Word("int", x)
  BY ScalarRead
<1>3. PICK e \in 1..CallDepth : \E j \in 1..Count(frames[e]) :
        /\ Referent(slot) = <<e, j>> /\ aggregateAddress(Top, slot) = frames[e].slots[j]
        /\ StructAt(frames, cells, values, e, j, Struct(slot))
  BY StructRead
<1>4. PICK j \in 1..Count(frames[e]) :
        /\ Referent(slot) = <<e, j>> /\ aggregateAddress(Top, slot) = frames[e].slots[j]
        /\ StructAt(frames, cells, values, e, j, Struct(slot))
  BY <1>3
<1>5. e \in 1..Len(frames) /\ TypesOf(frames[e])[j] = "pair"
  BY <1>4 DEF StructAt
<1>6. PICK a \in Nat \ {0}, v \in Seq(Int) :
        /\ a = frames[e].slots[j] /\ v = values[e][j] /\ Len(v) = 2
        /\ SlotCells(frames[e], j) = a..(a + 1)
        /\ cells[a] = Word("int", v[1]) /\ cells[a + 1] = Word("int", v[2])
  BY <1>4 DEF StructAt
<1>7. PICK b \in a..(a + 1) : b = a + index - 1
  BY <1>6
<1>8. PICK w \in Cells : w = Word("int", x)
  BY WordParts
<1>9. PICK mem2 : mem2 = [cells EXCEPT ![b] = w]
  OBVIOUS
<1>10. mem2 \in Seq(Cells) /\ mem2[b] = w /\ OnlySlot(cells, mem2, frames[e], j)
  <2>1. Written(cells, mem2, b, w)
    BY <1>9 DEF Written
  <2>2. b \in SlotCells(frames[e], j)
    BY <1>6, <1>7
  <2> QED
    BY <1>5, <2>1, <2>2, OneCell
<1>11. \A c \in a..(a + 1) : mem2[c] = IF c = b THEN w ELSE cells[c]
  <2>1. cells \in Seq(Cells) /\ SlotCells(frames[e], j) \subseteq 1..Len(cells)
    BY <1>5, GoodSlot DEF Good
  <2>2. DOMAIN cells = 1..Len(cells)
    BY <2>1
  <2> QED
    BY <1>6, <1>7, <1>9, <2>1, <2>2
<1>12. PICK u : u = [v EXCEPT ![index] = x]
  OBVIOUS
<1>13. u \in Seq(Int) /\ Len(u) = 2 /\ \A k \in 1..2 : u[k] = IF k = index THEN x ELSE v[k]
  BY <1>6, <1>12, ExceptSeq
<1>14. mem2[a] = Word("int", u[1]) /\ mem2[a + 1] = Word("int", u[2])
  <2>1. a \in a..(a + 1) /\ a + 1 \in a..(a + 1) /\ 1 \in 1..2 /\ 2 \in 1..2 /\ a # a + 1
    OBVIOUS
  <2>2. CASE index = 1
    <3>1. b = a
      BY <1>7, <2>2
    <3>2. mem2[a] = w /\ mem2[a + 1] = cells[a + 1]
      BY <1>11, <2>1, <3>1
    <3>3. u[1] = x /\ u[2] = v[2]
      BY <1>13, <2>1, <2>2
    <3> QED
      BY <1>6, <1>8, <3>2, <3>3
  <2>3. CASE index = 2
    <3>1. b = a + 1
      BY <1>7, <2>3
    <3>2. mem2[a] = cells[a] /\ mem2[a + 1] = w
      BY <1>11, <2>1, <3>1
    <3>3. u[1] = v[1] /\ u[2] = x
      BY <1>13, <2>1, <2>3
    <3> QED
      BY <1>6, <1>8, <3>2, <3>3
  <2> QED
    BY <2>2, <2>3
<1>15. Good(frames, mem2, [values EXCEPT ![e][j] = u])
  BY <1>5, <1>6, <1>10, <1>13, <1>14, GoodStruct
<1>16. values' = [values EXCEPT ![e][j] = u]
  <2>1. values' = [values EXCEPT ![e][j][index] = x]
    BY <1>1, <1>2, <1>4
  <2> QED
    BY <1>6, <1>12, <2>1
<1>17. cells' = mem2 /\ frames' = frames /\ failed' = failed /\ ~failed
  BY <1>1, <1>2, <1>4, <1>6, <1>7, <1>8, <1>9 DEF AssignField, fieldAddress, Statement
<1> QED
  BY <1>15, <1>16, <1>17 DEF Kept

(***************************************************************************)
(* Calls.                                                                  *)
(***************************************************************************)
\* An argument of the type, for the d-th function, with the value v: a struct
\* is somewhere below the mark, a borrow is of a struct further down.
PassedAt(fs, vs, d, mem, mark, type, arg, v) ==
  \/ /\ type = "pair" /\ v \in Seq(Int) /\ Len(v) = 2
     /\ arg \in Nat \ {0} /\ arg + 1 <= mark
     /\ mem[arg] = Word("int", v[1]) /\ mem[arg + 1] = Word("int", v[2])
  \/ /\ type = "ref"
     /\ \E e \in 1..(d - 1) : \E j \in 1..Count(fs[e]) :
          /\ TypesOf(fs[e])[j] = "pair" /\ vs[e][j] # <<>>
          /\ arg = Word("ptr", fs[e].slots[j]) /\ v = <<e, j>>
  \/ /\ type \in {"int", "flt"}
     /\ \E x \in Int : arg = Word(type, x) /\ v = <<x>>

\* An argument depends on nothing above its function's mark.
LEMMA PassedStill ==
    ASSUME NEW fs, NEW vs, NEW d \in Nat, NEW mem, NEW mark \in Nat, NEW type, NEW arg, NEW v,
           PassedAt(fs, vs, d, mem, mark, type, arg, v),
           NEW gs, NEW ws, NEW mem2, SameBelow(fs, vs, gs, ws, d - 1), SameCells(mem, mem2, mark)
    PROVE  PassedAt(gs, ws, d, mem2, mark, type, arg, v)
<1>1. CASE /\ type = "pair" /\ v \in Seq(Int) /\ Len(v) = 2
           /\ arg \in Nat \ {0} /\ arg + 1 <= mark
           /\ mem[arg] = Word("int", v[1]) /\ mem[arg + 1] = Word("int", v[2])
  <2>1. arg \in 1..mark /\ arg + 1 \in 1..mark
    BY <1>1
  <2>2. mem2[arg] = mem[arg] /\ mem2[arg + 1] = mem[arg + 1]
    BY <2>1 DEF SameCells
  <2> QED
    BY <1>1, <2>2 DEF PassedAt
<1>2. CASE /\ type = "ref"
           /\ \E e \in 1..(d - 1) : \E j \in 1..Count(fs[e]) :
                /\ TypesOf(fs[e])[j] = "pair" /\ vs[e][j] # <<>>
                /\ arg = Word("ptr", fs[e].slots[j]) /\ v = <<e, j>>
  <2>1. PICK e \in 1..(d - 1) : \E j \in 1..Count(fs[e]) :
          /\ TypesOf(fs[e])[j] = "pair" /\ vs[e][j] # <<>>
          /\ arg = Word("ptr", fs[e].slots[j]) /\ v = <<e, j>>
    BY <1>2
  <2>2. gs[e] = fs[e] /\ ws[e] = vs[e]
    BY DEF SameBelow
  <2>3. \E j \in 1..Count(gs[e]) :
          /\ TypesOf(gs[e])[j] = "pair" /\ ws[e][j] # <<>>
          /\ arg = Word("ptr", gs[e].slots[j]) /\ v = <<e, j>>
    BY <2>1, <2>2
  <2> QED
    BY <1>2, <2>3 DEF PassedAt
<1>3. CASE type \in {"int", "flt"} /\ \E x \in Int : arg = Word(type, x) /\ v = <<x>>
  BY <1>3 DEF PassedAt
<1> QED
  BY <1>1, <1>2, <1>3 DEF PassedAt

\* One argument is stored into its slot.
LEMMA ParameterStored ==
    ASSUME ProgramAssumption, NEW fs, NEW mem, NEW vs, Good(fs, mem, vs),
           NEW d \in 1..Len(fs), NEW i \in 1..Count(fs[d]), NEW arg, NEW v,
           PassedAt(fs, vs, d, mem, fs[d].mark, TypesOf(fs[d])[i], arg, v),
           NEW mem2, mem2 = StoreParameter(mem, fs[d].slots[i], TypesOf(fs[d])[i], arg)
    PROVE  /\ Good(fs, mem2, [vs EXCEPT ![d][i] = v]) /\ mem2 \in Seq(Cells)
           /\ SameCells(mem, mem2, fs[d].mark)
<1> DEFINE type == TypesOf(fs[d])[i]
<1>1. mem \in Seq(Cells) /\ Len(mem) \in Nat /\ Len(fs) \in Nat
  BY DEF Good, Stacked
<1>2. PICK a \in Nat \ {0} : a = fs[d].slots[i]
  BY GoodSlot
<1>3. PICK mark \in Nat : mark = fs[d].mark
  BY GoodFrame, SlotsOfFrame
<1>4. mark < a /\ mark <= Len(mem)
  <2>1. Placed(fs[d]) /\ FrameEnd(fs[d]) \in Nat /\ FrameEnd(fs[d]) <= Len(mem)
    BY GoodFrame
  <2>2. mark < a /\ mark <= FrameEnd(fs[d])
    BY <1>2, <1>3, <2>1, SlotsOfFrame
  <2> QED
    BY <1>1, <1>2, <1>3, <2>1, <2>2
<1>5. SameCells(mem, mem2, mark)
  <2> SUFFICES ASSUME NEW c \in 1..mark
               PROVE  mem2[c] = mem[c]
    BY DEF SameCells
  <2>1. c \in DOMAIN mem /\ c # a /\ c \notin a..(a + 2 - 1)
    BY <1>1, <1>4
  <2>2. CASE type = "pair"
    <3>1. mem2 = MemCopy(mem, a, arg, 2)
      BY <1>2, <2>2 DEF StoreParameter
    <3> QED
      BY <2>1, <3>1 DEF MemCopy
  <2>3. CASE type # "pair"
    <3>1. mem2 = [mem EXCEPT ![a] = arg]
      BY <1>2, <2>3 DEF StoreParameter
    <3> QED
      BY <2>1, <3>1
  <2> QED
    BY <2>2, <2>3
<1>6. Good(fs, mem2, [vs EXCEPT ![d][i] = v])
  <2>1. CASE /\ type = "pair" /\ v \in Seq(Int) /\ Len(v) = 2
             /\ arg \in Nat \ {0} /\ arg + 1 <= mark
             /\ mem[arg] = Word("int", v[1]) /\ mem[arg + 1] = Word("int", v[2])
    <3>1. arg \in 1..(Len(mem) - 1)
      BY <1>1, <1>4, <2>1
    <3>2. Good(fs, MemCopy(mem, fs[d].slots[i], arg, 2), [vs EXCEPT ![d][i] = v])
      BY <2>1, <3>1, GoodCopy
    <3> QED
      BY <2>1, <3>2 DEF StoreParameter
  <2>2. CASE /\ type = "ref"
             /\ \E e \in 1..(d - 1) : \E j \in 1..Count(fs[e]) :
                  /\ TypesOf(fs[e])[j] = "pair" /\ vs[e][j] # <<>>
                  /\ arg = Word("ptr", fs[e].slots[j]) /\ v = <<e, j>>
    <3>1. PICK e \in 1..(d - 1) : \E j \in 1..Count(fs[e]) :
            /\ TypesOf(fs[e])[j] = "pair" /\ vs[e][j] # <<>>
            /\ arg = Word("ptr", fs[e].slots[j]) /\ v = <<e, j>>
      BY <2>2
    <3>2. PICK j \in 1..Count(fs[e]) :
            /\ TypesOf(fs[e])[j] = "pair" /\ vs[e][j] # <<>>
            /\ arg = Word("ptr", fs[e].slots[j]) /\ v = <<e, j>>
      BY <3>1
    <3>3. Good(fs, [mem EXCEPT ![fs[d].slots[i]] = Word("ptr", fs[e].slots[j])],
                   [vs EXCEPT ![d][i] = <<e, j>>])
      BY <2>2, <3>2, GoodBorrow
    <3>4. mem2 = [mem EXCEPT ![fs[d].slots[i]] = Word("ptr", fs[e].slots[j])]
      BY <2>2, <3>2 DEF StoreParameter
    <3> QED
      BY <3>2, <3>3, <3>4
  <2>3. CASE type \in {"int", "flt"} /\ \E x \in Int : arg = Word(type, x) /\ v = <<x>>
    <3>1. PICK x \in Int : arg = Word(type, x) /\ v = <<x>>
      BY <2>3
    <3>2. Good(fs, [mem EXCEPT ![fs[d].slots[i]] = Word(type, x)], [vs EXCEPT ![d][i] = <<x>>])
      BY <2>3, GoodScalar
    <3>3. mem2 = [mem EXCEPT ![fs[d].slots[i]] = Word(type, x)]
      BY <2>3, <3>1 DEF StoreParameter
    <3> QED
      BY <3>1, <3>2, <3>3
  <2> QED
    BY <1>3, <2>1, <2>2, <2>3 DEF PassedAt
<1>7. mem2 \in Seq(Cells)
  BY <1>6 DEF Good
<1> QED
  BY <1>3, <1>5, <1>6, <1>7

\* All arguments of a function, for a new activation above fs.
AllPassed(fs, vs, mem, mark, fn, args, given) ==
  \A n \in 1..Len(fn.params) : PassedAt(fs, vs, Len(fs) + 1, mem, mark, fn.params[n], args[n], given[n])

\* The values of an activation when its first n parameters have been stored.
FirstValues(given, n) == [i \in DOMAIN given |-> IF i <= n THEN given[i] ELSE <<>>]

LEMMA FirstValuesType ==
    ASSUME NEW given \in Seq(Seq(Int)), NEW n \in Nat
    PROVE  /\ FirstValues(given, n) \in Seq(Seq(Int)) /\ Len(FirstValues(given, n)) = Len(given)
           /\ \A i \in 1..Len(given) : FirstValues(given, n)[i] = IF i <= n THEN given[i] ELSE <<>>
<1>1. FirstValues(given, n) = [i \in 1..Len(given) |-> IF i <= n THEN given[i] ELSE <<>>]
  BY DEF FirstValues
<1>2. \A i \in 1..Len(given) : (IF i <= n THEN given[i] ELSE <<>>) \in Seq(Int)
  BY ElementOfSeq
<1>3. FirstValues(given, n) \in [1..Len(given) -> Seq(Int)]
  BY <1>1, <1>2
<1>4. Len(given) \in Nat
  OBVIOUS
<1> QED
  BY <1>1, <1>3, <1>4

\* One more parameter.
LEMMA FirstValuesNext ==
    ASSUME NEW given \in Seq(Seq(Int)), NEW n \in 0..(Len(given) - 1), NEW vs \in Seq(Seq(Seq(Int)))
    PROVE  [Append(vs, FirstValues(given, n)) EXCEPT ![Len(vs) + 1][n + 1] = given[n + 1]]
             = Append(vs, FirstValues(given, n + 1))
<1>1. PICK u \in Seq(Seq(Int)) : /\ u = FirstValues(given, n) /\ Len(u) = Len(given)
                                 /\ \A i \in 1..Len(given) : u[i] = IF i <= n THEN given[i] ELSE <<>>
  BY FirstValuesType
<1>2. PICK w \in Seq(Seq(Int)) : /\ w = FirstValues(given, n + 1) /\ Len(w) = Len(given)
                                 /\ \A i \in 1..Len(given) : w[i] = IF i <= n + 1 THEN given[i] ELSE <<>>
  BY FirstValuesType
<1>3. n + 1 \in 1..Len(given) /\ given[n + 1] \in Seq(Int) /\ Len(vs) \in Nat
  BY ElementOfSeq
<1>4. PICK x : x = [u EXCEPT ![n + 1] = given[n + 1]]
  OBVIOUS
<1>5. /\ x \in Seq(Seq(Int)) /\ Len(x) = Len(u)
      /\ \A i \in 1..Len(u) : x[i] = IF i = n + 1 THEN given[n + 1] ELSE u[i]
  <2>1. PICK k, y : k = n + 1 /\ y = given[n + 1]
    OBVIOUS
  <2>2. k \in 1..Len(u) /\ y \in Seq(Int)
    BY <1>1, <1>3, <2>1
  <2>3. x = [u EXCEPT ![k] = y]
    BY <1>4, <2>1
  <2>4. /\ x \in Seq(Seq(Int)) /\ Len(x) = Len(u)
        /\ \A i \in 1..Len(u) : x[i] = IF i = k THEN y ELSE u[i]
    BY <2>2, <2>3, ExceptSeq
  <2> QED
    BY <2>1, <2>4
<1>6. x = w
  <2>1. ASSUME NEW i \in 1..Len(x)
        PROVE  x[i] = w[i]
    <3>1. i \in 1..Len(given) /\ i \in 1..Len(u)
      BY <1>1, <1>5
    <3>2. CASE i = n + 1
      BY <1>2, <1>5, <3>1, <3>2
    <3>3. CASE i # n + 1
      <4>1. i <= n <=> i <= n + 1
        BY <3>1, <3>3
      <4> QED
        BY <1>1, <1>2, <1>5, <3>1, <3>3, <4>1
    <3> QED
      BY <3>2, <3>3
  <2>2. Len(x) = Len(w)
    BY <1>1, <1>2, <1>5
  <2> QED
    BY <1>2, <1>5, <2>1, <2>2, SeqEqual
<1>7. [Append(vs, u) EXCEPT ![Len(vs) + 1][n + 1] = given[n + 1]] = Append(vs, x)
  <2>1. PICK s \in Seq(Seq(Seq(Int))) : /\ s = Append(vs, u) /\ Len(s) = Len(vs) + 1 /\ s[Len(vs) + 1] = u
                                        /\ \A i \in 1..Len(vs) : s[i] = vs[i]
    <3>1. /\ Append(vs, u) \in Seq(Seq(Seq(Int))) /\ Len(Append(vs, u)) = Len(vs) + 1
          /\ Append(vs, u)[Len(vs) + 1] = u
          /\ \A i \in 1..Len(vs) : Append(vs, u)[i] = vs[i]
      BY <1>1
    <3> QED
      BY <3>1
  <2>2. PICK t \in Seq(Seq(Seq(Int))) : /\ t = Append(vs, x) /\ Len(t) = Len(vs) + 1 /\ t[Len(vs) + 1] = x
                                        /\ \A i \in 1..Len(vs) : t[i] = vs[i]
    <3>1. /\ Append(vs, x) \in Seq(Seq(Seq(Int))) /\ Len(Append(vs, x)) = Len(vs) + 1
          /\ Append(vs, x)[Len(vs) + 1] = x
          /\ \A i \in 1..Len(vs) : Append(vs, x)[i] = vs[i]
      BY <1>5
    <3> QED
      BY <3>1
  <2>3. [s EXCEPT ![Len(vs) + 1][n + 1] = given[n + 1]] = [s EXCEPT ![Len(vs) + 1] = x]
    BY <1>4, <2>1
  <2>4. PICK r : r = [s EXCEPT ![Len(vs) + 1] = x]
    OBVIOUS
  <2>5. Len(vs) + 1 \in 1..Len(s)
    BY <1>3, <2>1
  <2>6. /\ r \in Seq(Seq(Seq(Int))) /\ Len(r) = Len(s)
        /\ \A i \in 1..Len(s) : r[i] = IF i = Len(vs) + 1 THEN x ELSE s[i]
    BY <1>5, <2>4, <2>5, ExceptSeq, SMTT(30)
  <2>7. \A i \in 1..Len(r) : r[i] = t[i]
    <3>1. \A i \in 1..Len(r) : i = Len(vs) + 1 \/ i \in 1..Len(vs)
      BY <1>3, <2>1, <2>6
    <3> QED
      BY <2>1, <2>2, <2>6, <3>1
  <2>8. r = t
    <3>1. PICK S : S = Seq(Seq(Int))
      OBVIOUS
    <3>2. r \in Seq(S) /\ t \in Seq(S) /\ Len(r) = Len(t)
      BY <2>1, <2>2, <2>6, <3>1
    <3> QED
      BY <2>7, <3>2, SeqEqual
  <2> QED
    BY <2>1, <2>2, <2>3, <2>4, <2>8
<1> QED
  BY <1>1, <1>2, <1>6, <1>7

\* The memory m when the first n parameters of the new activation f have been stored.
StoredTo(fs, vs, f, given, mem, n, m) ==
  /\ Good(Append(fs, f), m, Append(vs, FirstValues(given, n)))
  /\ m \in Seq(Cells) /\ SameCells(mem, m, f.mark)

LEMMA NextStored ==
    ASSUME ProgramAssumption, NEW fs \in Seq(Frames), NEW vs \in Seq(Seq(Seq(Int))), Len(vs) = Len(fs),
           NEW f, Placed(f), NEW given \in Seq(Seq(Int)), Len(given) = Count(f), NEW args,
           NEW mem, AllPassed(fs, vs, mem, f.mark, f.fn, args, given),
           NEW n \in 0..(Len(f.fn.params) - 1), NEW m, StoredTo(fs, vs, f, given, mem, n, m)
    PROVE  StoredTo(fs, vs, f, given, mem, n + 1,
                    StoreParameter(m, f.slots[n + 1], f.fn.params[n + 1], args[n + 1]))
<1> DEFINE D == Len(fs) + 1
           gs == Append(fs, f)
           ws == Append(vs, FirstValues(given, n))
           i == n + 1
<1>1. /\ f \in Frames /\ f.mark \in Nat /\ f.fn \in Routines /\ Count(f) \in Nat
      /\ Len(f.fn.params) \in Nat /\ Len(f.fn.params) <= Count(f)
      /\ \A k \in 1..Len(f.fn.params) : TypesOf(f)[k] = f.fn.params[k]
  <2>1. f \in Frames /\ f.mark \in Nat /\ f.fn \in Routines /\ Count(f) \in Nat
    BY SlotsOfFrame DEF Frames
  <2>2. /\ f.fn.params \in Seq(Types) /\ Len(f.fn.params) <= Len(SlotTypes(f.fn))
        /\ \A k \in 1..Len(f.fn.params) : SlotTypes(f.fn)[k] = f.fn.params[k]
    BY <2>1, RoutineTypes
  <2>3. Len(f.fn.params) \in Nat
    BY <2>2, EmptySeq, LenProperties
  <2>4. TypesOf(f) = SlotTypes(f.fn) /\ Count(f) = Len(SlotTypes(f.fn))
    BY DEF TypesOf, Count
  <2> QED
    BY <2>1, <2>2, <2>3, <2>4
<1>2. i \in 1..Len(f.fn.params) /\ i \in 1..Count(f) /\ Len(fs) \in Nat /\ n \in Nat /\ n \in 0..(Len(given) - 1)
  BY <1>1
<1>3. /\ gs[D] = f /\ Len(gs) = D /\ D \in 1..Len(gs) /\ D \in Nat
      /\ \A e \in 1..Len(fs) : gs[e] = fs[e]
  BY <1>1, <1>2
<1>4. \A e \in 1..Len(fs) : ws[e] = vs[e]
  <2>1. FirstValues(given, n) \in Seq(Seq(Int))
    BY <1>2, FirstValuesType
  <2> QED
    BY <2>1
<1>5. SameBelow(fs, vs, gs, ws, D - 1)
  <2>1. D - 1 = Len(fs)
    BY <1>2
  <2> HIDE DEF gs, ws, D
  <2> QED
    BY <1>3, <1>4, <2>1 DEF SameBelow
<1>6. PassedAt(fs, vs, D, mem, f.mark, TypesOf(f)[i], args[i], given[i])
  BY <1>1, <1>2 DEF AllPassed
<1> HIDE DEF D, gs, ws, i
<1>7. PassedAt(gs, ws, D, m, f.mark, TypesOf(f)[i], args[i], given[i])
  <2>1. SameCells(mem, m, f.mark)
    BY DEF StoredTo
  <2> QED
    BY <1>1, <1>3, <1>5, <1>6, <2>1, PassedStill
<1>8. Good(gs, m, ws)
  BY DEF StoredTo, gs, ws
<1>9. PICK m2 : m2 = StoreParameter(m, f.slots[i], TypesOf(f)[i], args[i])
  OBVIOUS
<1>10. /\ Good(gs, m2, [ws EXCEPT ![D][i] = given[i]]) /\ m2 \in Seq(Cells)
       /\ SameCells(m, m2, f.mark)
  BY <1>2, <1>3, <1>7, <1>8, <1>9, ParameterStored
<1>11. [ws EXCEPT ![D][i] = given[i]] = Append(vs, FirstValues(given, n + 1))
  BY <1>2, FirstValuesNext DEF ws, D, i
<1>12. SameCells(mem, m2, f.mark)
  BY <1>10 DEF StoredTo, SameCells
<1>13. m2 = StoreParameter(m, f.slots[n + 1], f.fn.params[n + 1], args[n + 1])
  BY <1>1, <1>2, <1>9 DEF i
<1> QED
  BY <1>10, <1>11, <1>12, <1>13 DEF StoredTo, gs

\* All of them.
LEMMA AllStored ==
    ASSUME ProgramAssumption, NEW fs \in Seq(Frames), NEW vs \in Seq(Seq(Seq(Int))), Len(vs) = Len(fs),
           NEW f, Placed(f), NEW given \in Seq(Seq(Int)), Len(given) = Count(f),
           NEW args, Len(args) = Len(f.fn.params),
           NEW mem, AllPassed(fs, vs, mem, f.mark, f.fn, args, given),
           StoredTo(fs, vs, f, given, mem, 0, mem)
    PROVE  StoredTo(fs, vs, f, given, mem, Len(args), StoreParameters(mem, f.slots, f.fn, args))
<1> DEFINE P == Len(args)
           one(n, m) == StoreParameter(m, f.slots[n], f.fn.params[n], args[n])
           step == [n \in 1..P |-> [m \in Seq(Cells) |-> IF one(n, m) \in Seq(Cells) THEN one(n, m) ELSE m]]
           Is(s) == s = [n \in 0..P |-> IF n = 0 THEN mem ELSE one(n, s[n - 1])]
           To(n, m) == StoredTo(fs, vs, f, given, mem, n, m)
<1>1. P \in Nat /\ mem \in Seq(Cells)
  <2>1. f.fn \in Routines
    BY SlotsOfFrame DEF Frames
  <2>2. f.fn.params \in Seq(Types)
    BY <2>1, RoutineTypes
  <2> QED
    BY <2>2 DEF StoredTo
<1>2. \A n \in 0..(P - 1) : \A m : To(n, m) => To(n + 1, one(n + 1, m))
  BY NextStored
<1>3. To(0, mem) /\ \A n, m : To(n, m) => m \in Seq(Cells)
  BY DEF StoredTo
<1>4. step \in [1..P -> [Seq(Cells) -> Seq(Cells)]]
  OBVIOUS
<1>5. PICK g \in [0..P -> Seq(Cells)] : Follows(g, P, mem, step)
  <2> HIDE DEF step, P
  <2> QED
    BY <1>1, <1>4, RecursionUpTo
<1>6. g[0] = mem /\ \A n \in 1..P : g[n] = IF one(n, g[n - 1]) \in Seq(Cells) THEN one(n, g[n - 1]) ELSE g[n - 1]
  <2>1. \A n \in 1..P : n - 1 \in 0..P
    BY <1>1
  <2>2. \A n \in 1..P : step[n][g[n - 1]] = IF one(n, g[n - 1]) \in Seq(Cells) THEN one(n, g[n - 1]) ELSE g[n - 1]
    <3> HIDE DEF P, one
    <3> QED
      BY <2>1
  <2> HIDE DEF step, one, P
  <2> QED
    BY <1>5, <2>2 DEF Follows
<1> HIDE DEF step, one, To, P
<1>7. \A n \in 0..P : To(n, g[n])
  <2> DEFINE T == {n \in 0..P : To(n, g[n])}
  <2>1. 0 \in T
    BY <1>1, <1>3, <1>6
  <2>2. ASSUME NEW n \in 0..(P - 1), n \in T
        PROVE  n + 1 \in T
    <3>1. n + 1 \in 1..P /\ (n + 1) - 1 = n /\ n + 1 \in 0..P
      BY <1>1
    <3>2. To(n + 1, one(n + 1, g[n]))
      BY <1>2, <2>2
    <3>3. g[n + 1] = one(n + 1, g[n])
      BY <1>3, <1>6, <3>1, <3>2
    <3> QED
      BY <3>1, <3>2, <3>3
  <2>3. \A n \in 0..P : n \in T
    <3> HIDE DEF T
    <3> QED
      BY <1>1, <2>1, <2>2, InductionUpTo
  <2> QED
    BY <2>3
<1>8. \A n \in 1..P : g[n] = one(n, g[n - 1])
  <2> SUFFICES ASSUME NEW n \in 1..P
               PROVE  g[n] = one(n, g[n - 1])
    OBVIOUS
  <2>1. n - 1 \in 0..(P - 1) /\ n - 1 \in 0..P /\ (n - 1) + 1 = n
    BY <1>1
  <2>2. To(n, one(n, g[n - 1]))
    BY <1>2, <1>7, <2>1
  <2> QED
    BY <1>3, <1>6, <2>2
<1>9. Is(g)
  <2>1. g = [n \in 0..P |-> g[n]]
    BY <1>5
  <2>2. \A n \in 0..P : g[n] = IF n = 0 THEN mem ELSE one(n, g[n - 1])
    <3>1. \A n \in 0..P : n # 0 => n \in 1..P
      BY <1>1
    <3> QED
      BY <1>6, <1>8, <3>1
  <2> QED
    BY <2>1, <2>2
<1> DEFINE stored == CHOOSE s : Is(s)
<1>10. Is(stored)
  <2> HIDE DEF Is
  <2> QED
    BY <1>9
<1>11. StoreParameters(mem, f.slots, f.fn, args) = stored[P]
  BY DEF StoreParameters, one, P
<1> HIDE DEF stored
<1>12. \A n \in 0..P : stored[n] = g[n]
  <2> DEFINE T == {n \in 0..P : stored[n] = g[n]}
  <2>0. stored[0] = mem /\ \A n \in 1..P : stored[n] = one(n, stored[n - 1])
    <3>1. \A n \in 0..P : stored[n] = IF n = 0 THEN mem ELSE one(n, stored[n - 1])
      BY <1>10
    <3>2. 0 \in 0..P /\ \A n \in 1..P : n \in 0..P /\ n # 0
      BY <1>1
    <3> HIDE DEF Is
    <3> QED
      BY <3>1, <3>2
  <2> HIDE DEF Is
  <2>1. 0 \in T
    BY <1>1, <1>6, <2>0
  <2>2. ASSUME NEW n \in 0..(P - 1), n \in T
        PROVE  n + 1 \in T
    <3>1. n + 1 \in 1..P /\ (n + 1) - 1 = n /\ n + 1 \in 0..P
      BY <1>1
    <3>2. stored[n + 1] = one(n + 1, stored[(n + 1) - 1]) /\ g[n + 1] = one(n + 1, g[(n + 1) - 1])
      BY <1>8, <2>0, <3>1
    <3> QED
      BY <2>2, <3>1, <3>2
  <2>3. \A n \in 0..P : n \in T
    <3> HIDE DEF T
    <3> QED
      BY <1>1, <2>1, <2>2, InductionUpTo
  <2> QED
    BY <2>3
<1>13. P \in 0..P
  BY <1>1
<1>14. To(P, stored[P])
  BY <1>7, <1>12, <1>13
<1> QED
  BY <1>11, <1>14 DEF To, P

\* The values of an activation that has been given its parameters.
GivenTo(fn, given) ==
  /\ given \in Seq(Seq(Int)) /\ Len(given) = Len(SlotTypes(fn))
  /\ \A i \in 1..Len(given) : i > Len(fn.params) => given[i] = <<>>

\* A function is entered above the memory, and its parameters are stored.
LEMMA EnterKeeps ==
    ASSUME ProgramAssumption, NEW below, NEW memory, NEW vs, Good(below, memory, vs),
           NEW frame \in Frames, frame.mark = Len(memory), below # <<>> => Above(below[Len(below)], frame),
           NEW given, GivenTo(frame.fn, given), NEW args, Len(args) = Len(frame.fn.params),
           DOMAIN args = 1..Len(args),
           AllPassed(below, vs, memory, Len(memory), frame.fn, args, given),
           EnterFrame(below, frame, memory, args)
    PROVE  ~failed' /\ frames' # <<>> /\ Good(frames', cells', Append(vs, given))
<1> DEFINE storage == Storage(memory, frame.fn)
           f == [frame EXCEPT !.slots = storage.slots]
           types == SlotTypes(frame.fn)
           N == Len(types)
           P == Len(frame.fn.params)
<1>1. /\ Stacked(below) /\ Shaped(below, vs) /\ memory \in Seq(Cells) /\ Len(memory) \in Nat
      /\ Limit(below) <= Len(memory)
      /\ below \in Seq(Frames) /\ vs \in Seq(Seq(Seq(Int))) /\ Len(vs) = Len(below) /\ Len(below) \in Nat
  BY DEF Good, Stacked, Shaped
<1>2. /\ types \in Seq(Types) /\ N \in Nat /\ frame.fn \in Routines /\ P <= N
      /\ frame.fn.params \in Seq(Types)
  <2>1. frame.fn \in Routines
    BY DEF Frames
  <2> QED
    BY <2>1, RoutineTypes
<1>3. P \in Nat
  BY <1>2, LenProperties
<1>4. Offset(types, N + 1) \in Nat /\ \A i \in 1..N : Offset(types, i) \in Nat
  <2>1. N + 1 \in 1..(N + 1) /\ \A i \in 1..N : i \in 1..(N + 1)
    BY <1>2
  <2> QED
    BY <1>2, <2>1, OffsetNext
<1>5. /\ storage.memory = allocBytes(memory, Offset(types, N + 1))
      /\ storage.slots = [i \in 1..N |-> Len(memory) + 1 + Offset(types, i)]
  <2>1. DOMAIN types = 1..N
    BY <1>2
  <2> QED
    BY <2>1 DEF Storage
<1>6. PICK m \in Seq(Cells) : m = storage.memory /\ Longer(memory, m, Offset(types, N + 1))
  BY <1>1, <1>4, <1>5, FrameAllocated
<1>7. /\ f \in Frames /\ f.mark = Len(memory) /\ f.fn = frame.fn /\ f.slots = storage.slots
      /\ f.sret = frame.sret /\ f.to = frame.to
  <2>1. storage.slots \in Seq(Nat)
    <3>1. PICK s : s = storage.slots
      OBVIOUS
    <3>2. s \in [1..N -> Nat]
      BY <1>1, <1>4, <1>5, <3>1
    <3> HIDE DEF storage, N
    <3>3. s \in Seq(Nat)
      BY <1>2, <3>2, FunctionSeq
    <3> QED
      BY <3>1, <3>3
  <2> HIDE DEF storage
  <2> QED
    BY <2>1 DEF Frames
<1>8. TypesOf(f) = types /\ Count(f) = N
  BY <1>7 DEF TypesOf, Count
<1> HIDE DEF storage, f, types, N, P
<1>9. Placed(f)
  BY <1>5, <1>7, <1>8 DEF Placed
<1>10. FrameEnd(f) = Len(m)
  BY <1>6, <1>7, <1>8 DEF FrameEnd, Longer
<1>11. Len(m) \in Nat /\ Len(memory) <= Len(m)
  BY <1>1, <1>4, <1>6 DEF Longer
<1>12. below # <<>> => Above(below[Len(below)], f)
  BY <1>7 DEF Above
<1>13. SameCells(memory, m, Len(memory))
  BY <1>6 DEF Longer
<1>14. SameCells(memory, m, Limit(below))
  <2>1. Limit(below) \in Nat
    <3>1. CASE below = <<>>
      BY <3>1 DEF Limit
    <3>2. CASE below # <<>>
      <4>1. Len(below) \in 1..Len(below)
        BY <1>1, <3>2
      <4> QED
        BY <1>1, <4>1, WithinLimit
    <3> QED
      BY <3>1, <3>2
  <2>2. \A a \in 1..Limit(below) : a \in 1..Len(memory)
    BY <1>1, <2>1
  <2> QED
    BY <1>13, <2>2 DEF SameCells
<1>15. given \in Seq(Seq(Int)) /\ Len(given) = N /\ \A i \in 1..Len(given) : i > P => given[i] = <<>>
  BY DEF GivenTo, N, P, types
<1>16. PICK w \in Seq(Seq(Int)) : /\ w = FirstValues(given, 0) /\ Len(w) = N
                                  /\ \A i \in 1..N : w[i] = <<>>
  <2>1. /\ FirstValues(given, 0) \in Seq(Seq(Int)) /\ Len(FirstValues(given, 0)) = Len(given)
        /\ \A i \in 1..Len(given) : FirstValues(given, 0)[i] = IF i <= 0 THEN given[i] ELSE <<>>
    BY <1>15, FirstValuesType
  <2>2. \A i \in 1..N : ~(i <= 0)
    BY <1>2
  <2> QED
    BY <1>15, <2>1, <2>2
<1>17. FirstValues(given, P) = given
  <2>1. PICK u \in Seq(Seq(Int)) : /\ u = FirstValues(given, P) /\ Len(u) = Len(given)
                                   /\ \A i \in 1..Len(given) : u[i] = IF i <= P THEN given[i] ELSE <<>>
    BY <1>3, <1>15, FirstValuesType
  <2>2. \A i \in 1..Len(u) : u[i] = given[i]
    <3>1. \A i \in 1..Len(given) : i <= P \/ i > P
      BY <1>3
    <3> QED
      BY <1>15, <2>1, <3>1
  <2> QED
    BY <1>15, <2>1, <2>2, SeqEqual
<1>18. Good(Append(below, f), m, Append(vs, w))
  <2>1. Limit(below) <= f.mark /\ FrameEnd(f) <= Len(m)
    BY <1>1, <1>7, <1>10, <1>11
  <2>2. Len(w) = Count(f) /\ \A i \in 1..Count(f) : w[i] = <<>>
    BY <1>8, <1>16
  <2> QED
    BY <1>9, <1>12, <1>14, <2>1, <2>2, GoodPush
<1>19. AllPassed(below, vs, m, f.mark, f.fn, args, given)
  <2>1. SameBelow(below, vs, below, vs, (Len(below) + 1) - 1)
    BY DEF SameBelow
  <2>2. \A n \in 1..Len(frame.fn.params) :
          PassedAt(below, vs, Len(below) + 1, memory, Len(memory), frame.fn.params[n], args[n], given[n])
    BY DEF AllPassed
  <2>3. Len(below) + 1 \in Nat
    BY <1>1
  <2>4. \A n \in 1..Len(frame.fn.params) :
          PassedAt(below, vs, Len(below) + 1, m, Len(memory), frame.fn.params[n], args[n], given[n])
    BY <1>1, <1>13, <2>1, <2>2, <2>3, PassedStill
  <2> QED
    BY <1>7, <2>4 DEF AllPassed
<1>20. StoredTo(below, vs, f, given, m, 0, m)
  BY <1>16, <1>18 DEF StoredTo, SameCells
<1>21. StoredTo(below, vs, f, given, m, Len(args), StoreParameters(m, f.slots, f.fn, args))
  BY <1>1, <1>7, <1>8, <1>9, <1>15, <1>19, <1>20, AllStored
<1>22. ~Unreadable(m, frame.fn, args)
  <2> SUFFICES ASSUME NEW n \in DOMAIN args, frame.fn.params[n] = "pair", args[n] + 1 > Len(m)
               PROVE  FALSE
    BY DEF Unreadable
  <2>1. n \in 1..Len(frame.fn.params)
    OBVIOUS
  <2>2. PassedAt(below, vs, Len(below) + 1, memory, Len(memory), "pair", args[n], given[n])
    BY <2>1 DEF AllPassed
  <2>3. args[n] \in Nat /\ args[n] + 1 <= Len(memory)
    BY <2>2 DEF PassedAt
  <2> QED
    BY <1>1, <1>11, <2>3
<1>23. /\ frames' = Append(below, f) /\ failed' = FALSE
       /\ cells' = StoreParameters(m, f.slots, f.fn, args)
  BY <1>6, <1>7, <1>22 DEF EnterFrame, f, storage
<1>24. Append(below, f) # <<>>
  BY <1>1, <1>7, AppendProperties
<1> QED
  BY <1>17, <1>21, <1>23, <1>24 DEF StoredTo, P

\* What native code passes for a parameter of the type.
Operand(type, i) == CASE type = "pair" -> Struct(i)
                      [] type = "ref"  -> Referent(i)
                      [] OTHER         -> Last(values)[i]

\* The innermost function passes its variables: as an argument of a function
\* above it, and, unless the variable is a struct, of one in its place.
LEMMA ArgumentIs ==
    ASSUME ProgramAssumption, Good(frames, cells, values), frames # <<>>,
           NEW type \in Types, NEW i \in Set(ByType[type])
    PROVE  /\ Operand(type, i) \in Seq(Int)
           /\ PassedAt(frames, values, CallDepth + 1, cells, Len(cells), type,
                       Argument(Top, i, type), Operand(type, i))
           /\ TypeOf(Top, i) # "pair" =>
                PassedAt(frames, values, CallDepth, cells, Top.mark, type,
                         Argument(Top, i, type), Operand(type, i))
<1>1. /\ CallDepth \in Nat \ {0} /\ CallDepth \in 1..Len(frames) /\ Len(frames) = CallDepth /\ Top = frames[CallDepth]
      /\ (CallDepth + 1) - 1 = CallDepth
  BY Innermost DEF CallDepth
<1>2. CASE type \in {"int", "flt"}
  <2>1. ByType[type] = {type}
    BY <1>2 DEF ByType
  <2>2. PICK x \in Int : Last(values)[i] = <<x>> /\ LoadSlot(Top, i) = Word(type, x)
    BY <1>2, <2>1, ScalarRead
  <2>3. Operand(type, i) = <<x>> /\ Argument(Top, i, type) = Word(type, x)
    BY <1>2, <2>2 DEF Operand, Argument
  <2>4. \A d, mark : PassedAt(frames, values, d, cells, mark, type, Argument(Top, i, type), Operand(type, i))
    BY <1>2, <2>3 DEF PassedAt
  <2>5. <<x>> \in Seq(Int)
    OBVIOUS
  <2> QED
    BY <2>3, <2>4, <2>5
<1>3. CASE type \in {"pair", "ref"}
  <2>1. ByType[type] = {"pair", "ref"}
    BY <1>3 DEF ByType
  <2>2. PICK e \in 1..CallDepth : \E j \in 1..Count(frames[e]) :
          /\ Referent(i) = <<e, j>> /\ aggregateAddress(Top, i) = frames[e].slots[j]
          /\ StructAt(frames, cells, values, e, j, Struct(i))
          /\ TypeOf(Top, i) = "ref" => e < CallDepth
          /\ TypeOf(Top, i) # "ref" => TypeOf(Top, i) = "pair"
    BY <2>1, StructRead
  <2>3. PICK j \in 1..Count(frames[e]) :
          /\ Referent(i) = <<e, j>> /\ aggregateAddress(Top, i) = frames[e].slots[j]
          /\ StructAt(frames, cells, values, e, j, Struct(i))
          /\ TypeOf(Top, i) = "ref" => e < CallDepth
          /\ TypeOf(Top, i) # "ref" => TypeOf(Top, i) = "pair"
    BY <2>2
  <2>4. PICK a \in Nat \ {0}, v \in Seq(Int) :
          /\ a = aggregateAddress(Top, i) /\ v = Struct(i) /\ Len(v) = 2 /\ v = values[e][j]
          /\ TypesOf(frames[e])[j] = "pair"
          /\ a + 1 <= FrameEnd(frames[e]) /\ FrameEnd(frames[e]) \in Nat /\ FrameEnd(frames[e]) <= Len(cells)
          /\ cells[a] = Word("int", v[1]) /\ cells[a + 1] = Word("int", v[2])
    BY <2>3 DEF StructAt
  <2>5. Len(cells) \in Nat
    BY DEF Good
  <2>6. a + 1 <= Len(cells)
    BY <2>4, <2>5
  <2>7. v # <<>>
    <3>1. Len(<<>>) # 2
      OBVIOUS
    <3> QED
      BY <2>4, <3>1
  <2>8. TypeOf(Top, i) # "pair" => e < CallDepth /\ a + 1 <= Top.mark
    <3> SUFFICES ASSUME e < CallDepth
                 PROVE  a + 1 <= Top.mark
      BY <2>3
    <3>1. e \in 1..Len(frames) /\ CallDepth \in (e + 1)..Len(frames)
      BY <1>1
    <3>2. FrameEnd(frames[e]) <= frames[CallDepth].mark
      BY <3>1, FramesAscend DEF Good
    <3>3. Top.mark \in Nat
      BY Innermost, SlotsOfFrame
    <3> QED
      BY <1>1, <2>4, <3>2, <3>3
  <2>9. CASE type = "pair"
    <3>1. Operand(type, i) = v /\ Argument(Top, i, type) = a
      BY <2>4, <2>9 DEF Operand, Argument
    <3> QED
      BY <2>4, <2>6, <2>8, <2>9, <3>1 DEF PassedAt
  <2>10. CASE type = "ref"
    <3>1. Operand(type, i) = <<e, j>> /\ Argument(Top, i, type) = Word("ptr", frames[e].slots[j])
      BY <2>3, <2>10 DEF Operand, Argument
    <3>2. ASSUME NEW d \in Nat, e \in 1..(d - 1), NEW mark
          PROVE  PassedAt(frames, values, d, cells, mark, type, Argument(Top, i, type), Operand(type, i))
      BY <2>4, <2>7, <2>10, <3>1, <3>2 DEF PassedAt
    <3>3. e \in 1..((CallDepth + 1) - 1) /\ (e < CallDepth => e \in 1..(CallDepth - 1))
      BY <1>1
    <3>4. <<e, j>> \in Seq(Int)
      <4>1. e \in Int /\ Count(frames[e]) \in Nat
        BY <1>1, GoodFrame
      <4>2. j \in Int
        BY <4>1
      <4> QED
        BY <4>1, <4>2
    <3> QED
      BY <1>1, <2>8, <3>1, <3>2, <3>3, <3>4, SMTT(30)
  <2> QED
    BY <1>3, <2>9, <2>10
<1> QED
  BY <1>2, <1>3 DEF Types

\* The values of a function that is given variables of the innermost one.
LEMMA GivenIs ==
    ASSUME ProgramAssumption, Good(frames, cells, values), frames # <<>>, NEW fn \in Routines,
           NEW from \in [DOMAIN fn.params -> DOMAIN Last(values)],
           \A n \in 1..Len(fn.params) : from[n] \in Set(ByType[fn.params[n]])
    PROVE  /\ GivenTo(fn, Given(fn, from)) /\ Len(from) = Len(fn.params)
           /\ \A n \in 1..Len(fn.params) : Given(fn, from)[n] = Operand(fn.params[n], from[n])
           /\ Len(Arguments(fn, from)) = Len(fn.params) /\ DOMAIN Arguments(fn, from) = 1..Len(fn.params)
           /\ \A n \in 1..Len(fn.params) : Arguments(fn, from)[n] = Argument(Top, from[n], fn.params[n])
<1> DEFINE P == Len(fn.params)
           types == SlotTypes(fn)
           N == Len(types)
<1>1. types \in Seq(Types) /\ N \in Nat /\ P <= N /\ fn.params \in Seq(Types)
  BY RoutineTypes
<1>2. P \in Nat /\ DOMAIN fn.params = 1..P /\ DOMAIN types = 1..N
  BY <1>1, LenProperties
<1>3. DOMAIN Last(values) = 1..Count(Top)
  BY Innermost
<1>4. from \in Seq(1..Count(Top)) /\ Len(from) = P /\ DOMAIN from = 1..P
  <2> HIDE DEF P
  <2>1. from \in [1..P -> 1..Count(Top)]
    BY <1>2, <1>3
  <2>2. PICK C : C = 1..Count(Top)
    OBVIOUS
  <2>3. from \in [1..P -> C]
    BY <2>1, <2>2
  <2>4. from \in Seq(C) /\ Len(from) = P /\ DOMAIN from = 1..P
    BY <1>2, <2>3
  <2> QED
    BY <2>2, <2>4
<1>5. \A i \in 1..N : Given(fn, from)[i] = IF i > P THEN <<>> ELSE Operand(fn.params[i], from[i])
  BY <1>2, <1>4 DEF Given, Operand
<1>6. \A n \in 1..P : fn.params[n] \in Types
  BY <1>1, ElementOfSeq
<1>7. \A n \in 1..P : Operand(fn.params[n], from[n]) \in Seq(Int)
  BY <1>6, ArgumentIs
<1>8. Given(fn, from) = [i \in 1..N |-> Given(fn, from)[i]]
  BY <1>2 DEF Given
<1> HIDE DEF P, types, N
<1>9. Given(fn, from) \in [1..N -> Seq(Int)]
  <2>1. \A i \in 1..N : Given(fn, from)[i] \in Seq(Int)
    <3> SUFFICES ASSUME NEW i \in 1..N
                 PROVE  Given(fn, from)[i] \in Seq(Int)
      OBVIOUS
    <3>1. CASE i > P
      <4>1. <<>> \in Seq(Int)
        OBVIOUS
      <4> QED
        BY <1>5, <3>1, <4>1
    <3>2. CASE ~(i > P)
      <4>1. i \in 1..P
        BY <1>1, <1>2, <3>2
      <4>2. Operand(fn.params[i], from[i]) \in Seq(Int)
        BY <1>7, <4>1
      <4> QED
        BY <1>5, <3>2, <4>2
    <3> QED
      BY <3>1, <3>2
  <2> QED
    BY <1>8, <2>1
<1>10. Given(fn, from) \in Seq(Seq(Int)) /\ Len(Given(fn, from)) = N
  BY <1>1, <1>9
<1>11. GivenTo(fn, Given(fn, from))
  BY <1>5, <1>10 DEF GivenTo, N, types, P
<1>12. \A n \in 1..P : n \in 1..N /\ ~(n > P)
  BY <1>1, <1>2
<1>13. Arguments(fn, from) = [n \in 1..P |-> Argument(Top, from[n], fn.params[n])]
  BY <1>4 DEF Arguments
<1>14. Len(Arguments(fn, from)) = P /\ DOMAIN Arguments(fn, from) = 1..P
       /\ \A n \in 1..P : Arguments(fn, from)[n] = Argument(Top, from[n], fn.params[n])
  BY <1>2, <1>13
<1> QED
  BY <1>4, <1>5, <1>11, <1>12, <1>14 DEF P

\* An argument below a mark is below a higher one.
LEMMA PassedLower ==
    ASSUME NEW fs, NEW vs, NEW d, NEW mem, NEW low \in Nat, NEW high \in Nat, low <= high,
           NEW type, NEW arg, NEW v, PassedAt(fs, vs, d, mem, low, type, arg, v)
    PROVE  PassedAt(fs, vs, d, mem, high, type, arg, v)
<1>1. arg \in Nat \ {0} /\ arg + 1 <= low => arg + 1 <= high
  OBVIOUS
<1> QED
  BY <1>1 DEF PassedAt

\* A function is called, with storage of the caller for a struct it returns.
LEMMA CallStep ==
    ASSUME ProgramAssumption, Good(frames, cells, values), frames # <<>>, Call
    PROVE  Kept
<1>0. PICK fn \in Program : \E from \in Passed(fn, ByType), to \in Slot({fn.returns}) :
        CallRange(fn, from, to) /\ values' = Append(values, Given(fn, from))
  BY DEF Call
<1>1. PICK from \in Passed(fn, ByType), to \in Slot({fn.returns}) :
        CallRange(fn, from, to) /\ values' = Append(values, Given(fn, from))
  BY <1>0
<1>2. fn \in Routines
  BY DEF Routines
<1>3. fn.params \in Seq(Types) /\ fn.returns \in {"int", "flt", "pair"}
  BY <1>2, RoutineTypes
<1>4. DOMAIN fn.params = 1..Len(fn.params)
  BY <1>3, LenProperties
<1>5. /\ from \in [DOMAIN fn.params -> DOMAIN Last(values)]
      /\ \A n \in 1..Len(fn.params) : from[n] \in Set(ByType[fn.params[n]])
  BY <1>1, <1>4 DEF Passed
<1>6. /\ GivenTo(fn, Given(fn, from)) /\ Len(from) = Len(fn.params)
      /\ \A n \in 1..Len(fn.params) : Given(fn, from)[n] = Operand(fn.params[n], from[n])
      /\ Len(Arguments(fn, from)) = Len(fn.params) /\ DOMAIN Arguments(fn, from) = 1..Len(fn.params)
      /\ \A n \in 1..Len(fn.params) : Arguments(fn, from)[n] = Argument(Top, from[n], fn.params[n])
  BY <1>2, <1>5, GivenIs
<1> DEFINE memory == IF fn.returns = "pair" THEN allocBytes(cells, 2) ELSE cells
           frame == [fn |-> fn, first |-> fn, mark |-> Len(memory), slots |-> <<>>,
                     sret |-> IF fn.returns = "pair" THEN Len(cells) + 1 ELSE 0, to |-> to]
<1>7. cells \in Seq(Cells) /\ Len(cells) \in Nat /\ Stacked(frames) /\ Limit(frames) <= Len(cells)
  BY DEF Good
<1>8. /\ CallDepth \in 1..Len(frames) /\ Top = frames[CallDepth] /\ Len(frames) = CallDepth /\ CallDepth \in Nat
      /\ Limit(frames) = FrameEnd(Top) /\ FrameEnd(Top) \in Nat
  <2>1. CallDepth \in 1..Len(frames) /\ Top = frames[CallDepth] /\ Len(frames) = CallDepth /\ CallDepth \in Nat
    BY Innermost DEF CallDepth
  <2>2. FrameEnd(Top) \in Nat
    BY <2>1, GoodFrame
  <2> QED
    BY <2>1, <2>2 DEF Limit
<1>9. /\ memory \in Seq(Cells) /\ Len(memory) \in Nat /\ Len(cells) <= Len(memory)
      /\ SameCells(cells, memory, Len(cells))
      /\ fn.returns = "pair" => Len(memory) = Len(cells) + 2
  <2>1. CASE fn.returns = "pair"
    <3>1. PICK m \in Seq(Cells) : m = allocBytes(cells, 2) /\ Longer(cells, m, 2)
      BY <1>7, FrameAllocated
    <3> QED
      BY <1>7, <2>1, <3>1 DEF Longer
  <2>2. CASE fn.returns # "pair"
    BY <1>7, <2>2 DEF SameCells
  <2> QED
    BY <2>1, <2>2
<1> HIDE DEF memory
<1>10. Good(frames, memory, values)
  <2>1. SameCells(cells, memory, Limit(frames))
    BY <1>7, <1>8, <1>9 DEF SameCells
  <2>2. Limit(frames) <= Len(memory)
    BY <1>7, <1>8, <1>9
  <2> QED
    BY <1>9, <2>1, <2>2, GoodLonger
<1>11. to \in 1..Count(Top) /\ TypesOf(Top)[to] = fn.returns /\ to \in Nat
  <2>1. to \in 1..Count(Top) /\ TypesOf(Top)[to] = fn.returns
    BY <1>1, SlotVariable
  <2> QED
    BY <2>1, Innermost
<1>12. frame \in Frames /\ frame.mark = Len(memory) /\ frame.fn = fn
  BY <1>2, <1>7, <1>9, <1>11 DEF Frames
<1>13. Above(frames[Len(frames)], frame)
  <2>1. FrameEnd(Top) <= Len(memory)
    BY <1>7, <1>8, <1>9
  <2>2. fn.returns = "pair" => FrameEnd(Top) < Len(cells) + 1 /\ (Len(cells) + 1) + 1 <= Len(memory)
    BY <1>7, <1>8, <1>9
  <2> QED
    BY <1>8, <1>11, <2>1, <2>2 DEF Above
<1> HIDE DEF frame
<1>14. AllPassed(frames, values, memory, Len(memory), fn, Arguments(fn, from), Given(fn, from))
  <2> SUFFICES ASSUME NEW n \in 1..Len(fn.params)
               PROVE  PassedAt(frames, values, CallDepth + 1, memory, Len(memory), fn.params[n],
                               Arguments(fn, from)[n], Given(fn, from)[n])
    BY <1>8 DEF AllPassed
  <2>1. fn.params[n] \in Types
    BY <1>3, ElementOfSeq
  <2>2. PassedAt(frames, values, CallDepth + 1, cells, Len(cells), fn.params[n],
                 Arguments(fn, from)[n], Given(fn, from)[n])
    BY <1>5, <1>6, <2>1, ArgumentIs
  <2>3. SameBelow(frames, values, frames, values, (CallDepth + 1) - 1) /\ CallDepth + 1 \in Nat
    BY <1>8 DEF SameBelow
  <2>4. PassedAt(frames, values, CallDepth + 1, memory, Len(cells), fn.params[n],
                 Arguments(fn, from)[n], Given(fn, from)[n])
    BY <1>7, <1>9, <2>2, <2>3, PassedStill
  <2> QED
    BY <1>7, <1>9, <2>4, PassedLower
<1>15. EnterFrame(frames, frame, memory, Arguments(fn, from))
  BY <1>1 DEF CallRange, memory, frame
<1>16. Good(frames', cells', Append(values, Given(fn, from))) /\ ~failed' /\ frames' # <<>>
  BY <1>6, <1>10, <1>12, <1>13, <1>14, <1>15, EnterKeeps
<1> QED
  BY <1>1, <1>16 DEF Kept

\* What is left when the innermost function has ended.
Ended(fs, mem, vs, mem2) ==
  LET n == Len(fs)  f == fs[n] IN
  /\ Good(Front(fs), mem2, Front(vs)) /\ mem2 \in Seq(Cells) /\ Len(mem2) = f.mark /\ f.mark \in Nat
  /\ SameCells(mem, mem2, f.mark) /\ Len(Front(fs)) = n - 1
  /\ SameBelow(fs, vs, Front(fs), Front(vs), n - 1)
  /\ Front(fs) # <<>> => Above(Front(fs)[n - 1], f)

LEMMA EndedHere ==
    ASSUME ProgramAssumption, NEW fs, NEW mem, NEW vs, Good(fs, mem, vs), fs # <<>>
    PROVE  Ended(fs, mem, vs, SubSeq(mem, 1, fs[Len(fs)].mark))
<1> DEFINE n == Len(fs)
           f == fs[n]
<1>1. /\ Stacked(fs) /\ Shaped(fs, vs) /\ fs \in Seq(Frames)
      /\ vs \in Seq(Seq(Seq(Int))) /\ Len(vs) = Len(fs) /\ n \in Nat \ {0} /\ n \in 1..Len(fs)
      /\ mem \in Seq(Cells) /\ Len(mem) \in Nat
  BY DEF Good, Shaped, Stacked
<1>2. /\ Front(fs) \in Seq(Frames) /\ Len(Front(fs)) = n - 1
      /\ \A e \in 1..(n - 1) : Front(fs)[e] = fs[e] /\ Front(vs)[e] = vs[e]
  BY <1>1 DEF Front
<1>3. f.mark \in Nat /\ f.mark <= FrameEnd(f) /\ FrameEnd(f) <= Len(mem) /\ FrameEnd(f) \in Nat
  <2>1. Placed(fs[n]) /\ FrameEnd(fs[n]) \in Nat /\ FrameEnd(fs[n]) <= Len(mem)
    BY <1>1, GoodFrame
  <2> QED
    BY <2>1, SlotsOfFrame
<1> HIDE DEF n
<1>4. PICK m : m = SubSeq(mem, 1, f.mark)
  OBVIOUS
<1>5. m \in Seq(Cells) /\ Len(m) = f.mark /\ SameCells(mem, m, f.mark)
  <2>1. PICK k \in Nat : k = f.mark /\ k <= Len(mem)
    BY <1>1, <1>3
  <2>2. \A i \in 1..k : mem[i] \in Cells
    BY <1>1, <2>1
  <2>3. /\ SubSeq(mem, 1, k) \in Seq(Cells) /\ Len(SubSeq(mem, 1, k)) = IF 1 <= k THEN k - 1 + 1 ELSE 0
        /\ \A i \in 1..(k - 1 + 1) : SubSeq(mem, 1, k)[i] = mem[1 + i - 1]
    BY <2>1, <2>2, SubSeqProperties
  <2> QED
    BY <1>4, <2>1, <2>3 DEF SameCells
<1>6. Front(fs) # <<>> => Above(Front(fs)[n - 1], f)
  <2> SUFFICES ASSUME Front(fs) # <<>>
               PROVE  Above(Front(fs)[n - 1], f)
    OBVIOUS
  <2>1. n - 1 # 0
    BY <1>2, EmptySeq
  <2>2. n \in 2..Len(fs) /\ n - 1 \in 1..(n - 1)
    BY <1>1, <2>1
  <2> QED
    BY <1>1, <1>2, <2>2 DEF Stacked
<1>7. Limit(Front(fs)) <= f.mark /\ Limit(Front(fs)) \in Nat
  <2>1. CASE Front(fs) = <<>>
    BY <1>3, <2>1 DEF Limit
  <2>2. CASE Front(fs) # <<>>
    <3>1. n - 1 # 0
      BY <1>2, <2>2, EmptySeq
    <3>2. n - 1 \in 1..(n - 1) /\ n - 1 \in 1..Len(fs)
      BY <1>1, <3>1 DEF n
    <3>3. Limit(Front(fs)) = FrameEnd(fs[n - 1])
      BY <1>2, <2>2, <3>2 DEF Limit
    <3>4. FrameEnd(fs[n - 1]) \in Nat
      BY <3>2, GoodFrame
    <3>5. Above(fs[n - 1], f)
      BY <1>2, <1>6, <2>2, <3>2
    <3> QED
      BY <3>3, <3>4, <3>5 DEF Above
  <2> QED
    BY <2>1, <2>2
<1>8. SameCells(mem, m, Limit(Front(fs)))
  BY <1>3, <1>5, <1>7 DEF SameCells
<1>9. Good(Front(fs), m, Front(vs))
  BY <1>5, <1>7, <1>8, GoodPop
<1>10. SameBelow(fs, vs, Front(fs), Front(vs), n - 1)
  BY <1>2 DEF SameBelow
<1> QED
  BY <1>2, <1>3, <1>4, <1>5, <1>6, <1>9, <1>10 DEF Ended, n

\* A jump: the frame ends before the one in its place begins.
LEMMA JumpStep ==
    ASSUME ProgramAssumption, Good(frames, cells, values), frames # <<>>, JumpState, uses' = {}
    PROVE  Kept
<1>0. PICK fn \in Program : \E from \in Passed(fn, [ByType EXCEPT !.ref = {"ref"}]) :
        /\ fn.returns = Top.fn.returns
        /\ TailCallRange(fn, from) /\ values' = Append(Front(values), Given(fn, from))
        /\ ~\E i \in DOMAIN from : fn.params[i] = "pair" /\ TypeOf(Top, from[i]) = "pair"
  <2>1. {"struct jump"} # {}
    OBVIOUS
  <2> QED
    BY <2>1 DEF JumpState
<1>1. PICK from \in Passed(fn, [ByType EXCEPT !.ref = {"ref"}]) :
        /\ fn.returns = Top.fn.returns
        /\ TailCallRange(fn, from) /\ values' = Append(Front(values), Given(fn, from))
        /\ ~\E i \in DOMAIN from : fn.params[i] = "pair" /\ TypeOf(Top, from[i]) = "pair"
  BY <1>0
<1>2. fn \in Routines
  BY DEF Routines
<1>3. fn.params \in Seq(Types) /\ DOMAIN fn.params = 1..Len(fn.params)
  BY <1>2, RoutineTypes, LenProperties
<1>4. \A type \in Types : Set([ByType EXCEPT !.ref = {"ref"}][type]) \subseteq Set(ByType[type])
  BY DEF ByType, Types, Set
<1>5. /\ from \in [DOMAIN fn.params -> DOMAIN Last(values)]
      /\ \A n \in 1..Len(fn.params) : /\ fn.params[n] \in Types /\ from[n] \in Set(ByType[fn.params[n]])
                                      /\ TypeOf(Top, from[n]) # "pair"
  <2>1. from \in [DOMAIN fn.params -> DOMAIN Last(values)]
    BY <1>1 DEF Passed
  <2> SUFFICES ASSUME NEW n \in 1..Len(fn.params)
               PROVE  /\ fn.params[n] \in Types /\ from[n] \in Set(ByType[fn.params[n]])
                      /\ TypeOf(Top, from[n]) # "pair"
    BY <2>1
  <2>2. fn.params[n] \in Types
    BY <1>3, ElementOfSeq
  <2>3. n \in DOMAIN from /\ from[n] \in Set([ByType EXCEPT !.ref = {"ref"}][fn.params[n]])
    BY <1>1, <1>3, <2>1 DEF Passed
  <2>4. TypeOf(Top, from[n]) # "pair"
    <3>1. CASE fn.params[n] = "pair"
      BY <1>1, <2>3, <3>1
    <3>2. CASE fn.params[n] # "pair"
      <4>1. [ByType EXCEPT !.ref = {"ref"}][fn.params[n]] = {fn.params[n]}
        BY <2>2, <3>2 DEF ByType, Types
      <4>2. TypeOf(Top, from[n]) \in {fn.params[n]}
        BY <2>3, <4>1 DEF Set
      <4> QED
        BY <3>2, <4>2
    <3> QED
      BY <3>1, <3>2
  <2> QED
    BY <1>4, <2>2, <2>3, <2>4
<1>6. /\ GivenTo(fn, Given(fn, from)) /\ Len(from) = Len(fn.params)
      /\ \A n \in 1..Len(fn.params) : Given(fn, from)[n] = Operand(fn.params[n], from[n])
      /\ Len(Arguments(fn, from)) = Len(fn.params) /\ DOMAIN Arguments(fn, from) = 1..Len(fn.params)
      /\ \A n \in 1..Len(fn.params) : Arguments(fn, from)[n] = Argument(Top, from[n], fn.params[n])
  BY <1>2, <1>5, GivenIs
<1> DEFINE memory == SubSeq(cells, 1, Top.mark)
           frame == [Top EXCEPT !.fn = fn]
<1>7. Ended(frames, cells, values, memory)
  <2>1. Top = frames[Len(frames)]
    BY Innermost DEF CallDepth
  <2> QED
    BY <2>1, EndedHere
<1>8. /\ Good(Front(frames), memory, Front(values)) /\ Len(memory) = Top.mark /\ Top.mark \in Nat
      /\ SameCells(cells, memory, Top.mark) /\ Len(Front(frames)) = CallDepth - 1
      /\ SameBelow(frames, values, Front(frames), Front(values), CallDepth - 1)
      /\ Front(frames) # <<>> => Above(Front(frames)[CallDepth - 1], Top)
  BY <1>7, Innermost DEF Ended, CallDepth
<1>9. CallDepth \in Nat \ {0} /\ Top \in Frames
  BY Innermost
<1> HIDE DEF memory
<1>10. frame \in Frames /\ frame.mark = Len(memory) /\ frame.fn = fn
  BY <1>2, <1>8, <1>9 DEF Frames
<1>11. Front(frames) # <<>> => Above(Front(frames)[Len(Front(frames))], frame)
  <2>1. frame.fn.returns = Top.fn.returns /\ frame.mark = Top.mark /\ frame.sret = Top.sret /\ frame.to = Top.to
    BY <1>1, <1>9 DEF Frames
  <2> HIDE DEF frame
  <2> QED
    BY <1>8, <2>1 DEF Above
<1> HIDE DEF frame
<1>12. AllPassed(Front(frames), Front(values), memory, Len(memory), fn, Arguments(fn, from), Given(fn, from))
  <2> SUFFICES ASSUME NEW n \in 1..Len(fn.params)
               PROVE  PassedAt(Front(frames), Front(values), CallDepth, memory, Top.mark, fn.params[n],
                               Arguments(fn, from)[n], Given(fn, from)[n])
    <3>1. Len(Front(frames)) + 1 = CallDepth
      BY <1>8, <1>9
    <3> QED
      BY <1>8, <3>1 DEF AllPassed
  <2>1. PassedAt(frames, values, CallDepth, cells, Top.mark, fn.params[n],
                 Arguments(fn, from)[n], Given(fn, from)[n])
    BY <1>5, <1>6, ArgumentIs
  <2> QED
    BY <1>8, <1>9, <2>1, PassedStill
<1>13. EnterFrame(Front(frames), frame, memory, Arguments(fn, from))
  BY <1>1 DEF TailCallRange, memory, frame
<1>14. Good(frames', cells', Append(Front(values), Given(fn, from))) /\ ~failed' /\ frames' # <<>>
  BY <1>6, <1>8, <1>10, <1>11, <1>12, <1>13, EnterKeeps
<1> QED
  BY <1>1, <1>14 DEF Kept

\* A function returns, a scalar in a register or a struct through its result pointer.
LEMMA ReturnStep ==
    ASSUME ProgramAssumption, Good(frames, cells, values), frames # <<>>, Return
    PROVE  Kept
<1> DEFINE n == CallDepth - 1
           caller == frames[n]
<1>1. PICK slot \in Set(IF Top.fn.returns = "pair" THEN {"pair", "ref"} ELSE {Top.fn.returns}) :
        /\ ~failed /\ Ret(slot)
        /\ values' = [Front(values) EXCEPT ![CallDepth - 1][Top.to] =
                        IF Top.fn.returns = "pair" THEN Struct(slot) ELSE Last(values)[slot]]
  BY DEF Return, Statement
<1>2. /\ CallDepth \in Nat \ {0} /\ CallDepth \in 1..Len(frames) /\ Len(frames) = CallDepth /\ Top = frames[CallDepth]
      /\ Top.fn \in Routines
  BY Innermost DEF CallDepth
<1>3. CallDepth > 1 /\ n \in 1..n /\ n \in 1..Len(frames) /\ CallDepth \in 2..Len(frames) /\ n \in Nat
  <2>1. Len(frames) > 1
    BY <1>1 DEF Ret
  <2> QED
    BY <1>2, <2>1
<1>4. Above(caller, Top)
  <2>1. Above(frames[CallDepth - 1], frames[CallDepth])
    BY <1>3 DEF Good, Stacked
  <2> QED
    BY <1>2, <2>1
<1>5. /\ Placed(caller) /\ FrameEnd(caller) \in Nat /\ Top.fn.returns \in {"int", "flt", "pair"}
      /\ cells \in Seq(Cells) /\ Len(cells) \in Nat /\ FrameEnd(Top) <= Len(cells) /\ FrameEnd(Top) \in Nat
      /\ Top.mark \in Nat /\ Top.mark <= FrameEnd(Top)
  <2>1. Placed(caller) /\ FrameEnd(caller) \in Nat
    BY <1>3, GoodFrame
  <2>2. Placed(Top) /\ FrameEnd(Top) \in Nat /\ FrameEnd(Top) <= Len(cells)
    BY <1>2, GoodFrame
  <2>3. Top.mark \in Nat /\ Top.mark <= FrameEnd(Top)
    BY <2>2, SlotsOfFrame
  <2>4. Top.fn.returns \in {"int", "flt", "pair"}
    BY <1>2, RoutineTypes
  <2> QED
    BY <2>1, <2>2, <2>3, <2>4 DEF Good
<1>6. Ended(frames, cells, values, SubSeq(cells, 1, Top.mark))
  BY <1>2, EndedHere
<1>7. /\ Len(Front(frames)) = n /\ Front(frames)[n] = caller /\ n \in 1..Len(Front(frames))
      /\ Last(Front(frames)) = caller /\ Front(frames) # <<>>
      /\ Limit(Front(frames)) = FrameEnd(caller)
  <2>1. Len(Front(frames)) = n /\ Front(frames)[n] = caller
    BY <1>2, <1>3, <1>6 DEF Ended, SameBelow
  <2>2. Front(frames) # <<>>
    <3>1. Len(<<>>) = 0 /\ n # 0
      BY <1>3
    <3> QED
      BY <2>1, <3>1
  <2>3. Last(Front(frames)) = caller /\ n \in 1..Len(Front(frames))
    BY <1>3, <2>1 DEF Last
  <2> HIDE DEF n, caller
  <2> QED
    BY <2>1, <2>2, <2>3 DEF Limit
<1>8. /\ Top.to \in 1..Count(Front(frames)[n]) /\ TypesOf(Front(frames)[n])[Top.to] = Top.fn.returns
  BY <1>4, <1>7 DEF Above
<1> HIDE DEF n, caller
<1>9. CASE Top.fn.returns # "pair"
  <2>1. Top.sret = 0
    BY <1>4, <1>9 DEF Above
  <2>2. Top.fn.returns \in {"int", "flt"} /\ slot \in Set({Top.fn.returns})
    BY <1>1, <1>5, <1>9
  <2>3. PICK x \in Int : Last(values)[slot] = <<x>> /\ LoadSlot(Top, slot) = Word(Top.fn.returns, x)
    BY <2>2, ScalarRead
  <2>4. PICK ended : ended = SubSeq(cells, 1, Top.mark)
    OBVIOUS
  <2>5. Good(Front(frames), ended, Front(values))
    BY <1>6, <2>4 DEF Ended
  <2>6. Good(Front(frames), [ended EXCEPT ![Front(frames)[n].slots[Top.to]] = Word(Top.fn.returns, x)],
             [Front(values) EXCEPT ![n][Top.to] = <<x>>])
    BY <1>7, <1>8, <2>2, <2>5, GoodScalar
  <2>7. /\ cells' = [ended EXCEPT ![Front(frames)[n].slots[Top.to]] = Word(Top.fn.returns, x)]
        /\ frames' = Front(frames) /\ failed' = failed
    BY <1>1, <1>7, <2>1, <2>3, <2>4 DEF Ret
  <2>8. values' = [Front(values) EXCEPT ![n][Top.to] = <<x>>]
    BY <1>1, <1>9, <2>3 DEF n
  <2> QED
    BY <1>1, <1>7, <2>6, <2>7, <2>8 DEF Kept
<1>10. CASE Top.fn.returns = "pair"
  <2>1. PICK s \in Nat : s = Top.sret /\ FrameEnd(caller) < s /\ s + 1 <= Top.mark
    <3>1. Top.sret \in Nat
      BY Innermost DEF Frames
    <3> QED
      BY <1>4, <1>10, <3>1 DEF Above
  <2>2. slot \in Set({"pair", "ref"}) /\ s # 0
    BY <1>1, <1>5, <1>10, <2>1
  <2>3. PICK v \in Seq(Int), a \in 1..(Len(cells) - 1) :
          /\ v = Struct(slot) /\ a = aggregateAddress(Top, slot) /\ Len(v) = 2
          /\ cells[a] = Word("int", v[1]) /\ cells[a + 1] = Word("int", v[2])
    BY <2>2, StructCells
  <2>4. PICK copied : copied = MemCopy(cells, s, a, 2)
    OBVIOUS
  <2>5. s \in 1..(Len(cells) - 1)
    BY <1>5, <2>1, <2>2
  <2>6. /\ copied \in Seq(Cells) /\ copied[s] = cells[a] /\ copied[s + 1] = cells[a + 1]
        /\ OnlyTwo(cells, copied, s)
    BY <1>5, <2>4, <2>5, CopyTwo
  <2>7. PICK mark \in Nat : mark = Top.mark /\ mark <= Len(cells) /\ Len(copied) = Len(cells)
    BY <1>5, <2>6 DEF OnlyTwo
  <2>8. PICK ended : ended = SubSeq(copied, 1, mark)
    OBVIOUS
  <2>9. ended \in Seq(Cells) /\ Len(ended) = mark /\ SameCells(copied, ended, mark)
    <3>1. \A i \in 1..mark : copied[i] \in Cells
      BY <1>5, <2>6, <2>7
    <3>2. /\ SubSeq(copied, 1, mark) \in Seq(Cells)
          /\ Len(SubSeq(copied, 1, mark)) = IF 1 <= mark THEN mark - 1 + 1 ELSE 0
          /\ \A i \in 1..(mark - 1 + 1) : SubSeq(copied, 1, mark)[i] = copied[1 + i - 1]
      BY <3>1, SubSeqProperties
    <3> QED
      BY <2>8, <3>2 DEF SameCells
  <2>10. s \in 1..(Len(ended) - 1) /\ ended[s] = Word("int", v[1]) /\ ended[s + 1] = Word("int", v[2])
    <3>1. s \in 1..mark /\ s + 1 \in 1..mark
      BY <2>1, <2>2, <2>7
    <3>2. ended[s] = copied[s] /\ ended[s + 1] = copied[s + 1]
      BY <2>9, <3>1 DEF SameCells
    <3> QED
      BY <2>3, <2>6, <2>7, <2>9, <3>1, <3>2
  <2>11. SameCells(cells, ended, Limit(Front(frames)))
    <3> SUFFICES ASSUME NEW c \in 1..FrameEnd(caller)
                 PROVE  ended[c] = cells[c]
      BY <1>7 DEF SameCells
    <3>1. c \in 1..mark /\ c \in 1..Len(cells) /\ c \notin s..(s + 1)
      BY <1>5, <2>1, <2>7
    <3> QED
      BY <2>6, <2>9, <3>1 DEF SameCells, OnlyTwo
  <2>12. Limit(Front(frames)) <= Len(ended)
    BY <1>5, <1>7, <2>1, <2>7, <2>9
  <2>13. Good(Front(frames), ended, Front(values))
    BY <2>9, <2>11, <2>12, GoodPop
  <2>14. Good(Front(frames), MemCopy(ended, Front(frames)[n].slots[Top.to], s, 2),
              [Front(values) EXCEPT ![n][Top.to] = v])
    BY <1>7, <1>8, <1>10, <2>3, <2>10, <2>13, GoodCopy
  <2>15. /\ cells' = MemCopy(ended, Front(frames)[n].slots[Top.to], s, 2)
         /\ frames' = Front(frames) /\ failed' = failed
    BY <1>1, <1>7, <2>1, <2>2, <2>3, <2>4, <2>7, <2>8 DEF Ret
  <2>16. values' = [Front(values) EXCEPT ![n][Top.to] = v]
    BY <1>1, <1>10, <2>3 DEF n
  <2> QED
    BY <1>1, <1>7, <2>14, <2>15, <2>16 DEF Kept
<1> QED
  BY <1>9, <1>10

(***************************************************************************)
(* The invariant.                                                          *)
(***************************************************************************)
\* main begins with every binding in its slot.
LEMMA Initially == ASSUME ProgramAssumption, ParityInit
                   PROVE  Inv
<1> DEFINE types == SlotTypes(Main)
           N == Len(types)
           slots == Storage(<<>>, Main).slots
           f == [fn |-> Main, first |-> Main, mark |-> 0, slots |-> slots, sret |-> 0, to |-> 0]
           fs == <<f>>
           vs == <<Bindings>>
           width == Offset(types, N + 1)
<1>1. types \in Seq(Types) /\ N \in Nat /\ Main \in Routines
  <2>1. Main \in Routines
    BY DEF Routines
  <2> QED
    BY <2>1, RoutineTypes
<1>2. /\ Bindings \in Seq(Seq(Int)) /\ Len(Bindings) = N
      /\ \A i \in 1..N : types[i] # "ref" /\ Len(Bindings[i]) = layoutSize(types[i])
  <2>1. Bindings \in Seq(Seq(Int)) /\ Len(Bindings) = N
    BY DEF ProgramAssumption
  <2>2. DOMAIN Bindings = 1..N
    BY <2>1, LenProperties
  <2>3. \A i \in DOMAIN Bindings : types[i] # "ref" /\ Len(Bindings[i]) = layoutSize(types[i])
    BY DEF ProgramAssumption
  <2> QED
    BY <2>1, <2>2, <2>3
<1>3. width \in Nat /\ \A i \in 1..N : Offset(types, i) \in Nat
  <2>1. N + 1 \in 1..(N + 1) /\ \A i \in 1..N : i \in 1..(N + 1)
    BY <1>1
  <2> HIDE DEF types, N
  <2> QED
    BY <1>1, <2>1, OffsetNext DEF N
<1>4. slots = [i \in 1..N |-> 0 + 1 + Offset(types, i)]
  <2>1. DOMAIN types = 1..N
    BY <1>1
  <2>2. Len(<<>>) = 0
    OBVIOUS
  <2> QED
    BY <2>1, <2>2 DEF Storage
<1> HIDE DEF slots, N, width
<1>5. slots \in Seq(Nat)
  <2>1. slots \in [1..N -> Nat]
    BY <1>3, <1>4
  <2> HIDE DEF types
  <2> QED
    BY <1>1, <2>1, FunctionSeq
<1>6. f \in Frames
  BY <1>1, <1>5 DEF Frames
<1>7. f.fn = Main /\ f.mark = 0 /\ f.slots = slots
  OBVIOUS
<1> HIDE DEF f
<1>8. TypesOf(f) = types /\ Count(f) = N
  BY <1>7 DEF TypesOf, Count, N
<1>9. Placed(f) /\ FrameEnd(f) = width
  <2>1. Placed(f)
    BY <1>4, <1>6, <1>7, <1>8 DEF Placed
  <2>2. FrameEnd(f) = 0 + width
    BY <1>7, <1>8 DEF FrameEnd, width
  <2> QED
    BY <1>3, <2>1, <2>2
<1>10. fs \in Seq(Frames) /\ Len(fs) = 1 /\ fs[1] = f /\ fs # <<>> /\ Limit(fs) = width
  <2>1. fs \in Seq(Frames) /\ Len(fs) = 1 /\ fs[1] = f /\ fs # <<>>
    BY <1>6
  <2> HIDE DEF fs
  <2> QED
    BY <1>9, <2>1 DEF Limit
<1>11. vs \in Seq(Seq(Seq(Int))) /\ Len(vs) = 1 /\ vs[1] = Bindings
  BY <1>2
<1> HIDE DEF fs, vs, types
<1>12. Stacked(fs)
  BY <1>9, <1>10 DEF Stacked
<1>13. Shaped(fs, vs)
  BY <1>2, <1>8, <1>10, <1>11 DEF Shaped
<1>14. Fitting(fs, vs)
  <2>1. \A d \in 1..Len(fs) : d = 1
    BY <1>10
  <2> QED
    BY <1>2, <1>8, <1>10, <1>11, <2>1 DEF Fitting, Suits
<1> DEFINE cellOf(a) == CHOOSE i \in DOMAIN types : a \in slots[i]..(slots[i] + layoutSize(types[i]) - 1)
           word(i, a) == Word(IF types[i] = "flt" THEN "flt" ELSE "int", Bindings[i][a - slots[i] + 1])
           mem == Encode(types, slots, Bindings)
<1>15. mem = [a \in 1..width |-> word(cellOf(a), a)]
  BY DEF Encode, width, N
<1>16. \A i \in 1..N : SlotCells(f, i) = slots[i]..(slots[i] + layoutSize(types[i]) - 1)
  BY <1>7, <1>8 DEF SlotCells
<1>17. DOMAIN types = 1..N
  BY <1>1 DEF N
<1>18. ASSUME NEW i \in 1..N, NEW a \in SlotCells(f, i)
       PROVE  cellOf(a) = i
  <2>1. a \in slots[i]..(slots[i] + layoutSize(types[i]) - 1)
    BY <1>16, <1>18
  <2>2. cellOf(a) \in 1..N /\ a \in slots[cellOf(a)]..(slots[cellOf(a)] + layoutSize(types[cellOf(a)]) - 1)
    BY <1>17, <2>1
  <2>3. PICK j : j = cellOf(a)
    OBVIOUS
  <2> HIDE DEF cellOf
  <2>4. j \in 1..N /\ a \in SlotCells(f, j)
    BY <1>16, <2>2, <2>3
  <2>5. CASE <<1, i>> # <<1, j>>
    <3>1. 1 \in 1..Len(fs) /\ i \in 1..Count(fs[1]) /\ j \in 1..Count(fs[1])
          /\ a \in SlotCells(fs[1], i) /\ a \in SlotCells(fs[1], j)
      BY <1>8, <1>10, <2>4
    <3> QED
      BY <1>12, <2>5, <3>1, SlotsApart
  <2> QED
    BY <2>3, <2>5
<1>19. ASSUME NEW i \in 1..N, NEW a \in SlotCells(f, i)
       PROVE  word(i, a) \in Cells
  <2>1. slots[i] \in Nat /\ layoutSize(types[i]) \in Nat
    BY <1>1, <1>5, <1>4, <1>3, SizeType
  <2>2. a - slots[i] + 1 \in 1..Len(Bindings[i])
    <3>1. PICK x \in Nat, n \in Nat : x = slots[i] /\ n = layoutSize(types[i]) /\ Len(Bindings[i]) = n
      BY <1>2, <2>1
    <3>2. a \in x..(x + n - 1)
      BY <1>16, <1>19, <3>1
    <3>3. a - x + 1 \in 1..n
      BY <3>2
    <3> QED
      BY <3>1, <3>3
  <2>3. Bindings[i] \in Seq(Int)
    BY <1>2, ElementOfSeq
  <2>4. Bindings[i][a - slots[i] + 1] \in Int
    BY <2>2, <2>3, ElementOfSeq
  <2> QED
    BY <2>4, WordParts
<1>20. \A a \in 1..width : \E i \in 1..N : a \in SlotCells(f, i)
  <2> SUFFICES ASSUME NEW a \in 1..width
               PROVE  \E i \in 1..N : a \in SlotCells(f, i)
    OBVIOUS
  <2>1. PICK i \in 1..N : a \in (Offset(types, i) + 1)..(Offset(types, i) + layoutSize(types[i]))
    BY <1>1, OffsetCovers DEF N, width
  <2>2. slots[i] = Offset(types, i) + 1 /\ slots[i] + layoutSize(types[i]) - 1 = Offset(types, i) + layoutSize(types[i])
    <3>1. layoutSize(types[i]) \in Nat
      BY SizeType
    <3> QED
      BY <1>3, <1>4, <3>1
  <2>3. a \in SlotCells(f, i)
    BY <1>16, <2>1, <2>2
  <2> QED
    BY <2>3
<1> HIDE DEF cellOf, word, mem
<1>21. mem \in Seq(Cells) /\ Len(mem) = width
  <2>1. \A a \in 1..width : word(cellOf(a), a) \in Cells
    BY <1>18, <1>19, <1>20
  <2>2. mem \in [1..width -> Cells]
    BY <1>15, <2>1
  <2> QED
    BY <1>3, <2>2, FunctionSeq
<1>22. Held(fs, mem, vs)
  <2> SUFFICES ASSUME NEW i \in 1..N
               PROVE  CellsHold(fs, mem, types[i], slots[i], Bindings[i])
    <3>1. \A d \in 1..Len(fs) : d = 1
      BY <1>10
    <3> QED
      BY <1>7, <1>8, <1>10, <1>11, <3>1 DEF Held
  <2>1. PICK x \in Nat : x = slots[i] /\ 0 < x
    BY <1>3, <1>4
  <2>2. PICK n \in Nat : n = layoutSize(types[i])
    BY SizeType
  <2>3. ASSUME NEW k \in 1..n
        PROVE  mem[x + k - 1] = Word(KindOf(types[i]), Bindings[i][k])
    <3>1. PICK a \in Nat : a = x + k - 1
      BY <2>1
    <3>2. a \in SlotCells(f, i) /\ a - x + 1 = k
      <4>1. SlotCells(f, i) = x..(x + n - 1)
        BY <1>16, <2>1, <2>2
      <4>2. a \in x..(x + n - 1) /\ a - x + 1 = k
        BY <3>1
      <4> QED
        BY <4>1, <4>2
    <3>3. SlotCells(f, i) \subseteq 1..width
      <4>1. /\ f.mark < f.slots[i] /\ f.slots[i] + layoutSize(TypesOf(f)[i]) - 1 <= FrameEnd(f)
        BY <1>8, <1>9, SlotsOfFrame
      <4>2. x + n - 1 <= width
        BY <1>7, <1>8, <1>9, <2>1, <2>2, <4>1
      <4> QED
        BY <1>3, <1>16, <2>1, <2>2, <4>2
    <3>4. mem[a] = word(i, a)
      BY <1>15, <1>18, <3>2, <3>3
    <3>5. word(i, a) = Word(KindOf(types[i]), Bindings[i][k])
      BY <2>1, <3>2 DEF word, KindOf
    <3> QED
      BY <3>1, <3>4, <3>5
  <2> QED
    BY <1>2, <2>1, <2>2, <2>3 DEF CellsHold
<1>23. Good(fs, mem, vs)
  BY <1>3, <1>10, <1>12, <1>13, <1>14, <1>21, <1>22 DEF Good
<1>24. frames = fs /\ cells = mem /\ values = vs /\ ~failed
  BY DEF ParityInit, fs, f, mem, vs, types, slots
<1> QED
  BY <1>10, <1>23, <1>24 DEF Inv

\* Every statement keeps it.
LEMMA NextInv == ASSUME ProgramAssumption, ImmediateAssumption, Inv, [ParityNext]_parityVars
                 PROVE  Inv'
<1> SUFFICES ASSUME uses' = {}
             PROVE  Kept
  BY DEF Inv, Kept
<1>1. CASE UNCHANGED parityVars
  BY <1>1 DEF Inv, Kept, parityVars, machine
<1>2. CASE ParityNext
  <2>1. uses = {}
    BY <1>2 DEF ParityNext, Store, StoreStruct, SetField, Call, JumpState, Return, Statement
  <2>2. ~failed /\ frames # <<>> /\ Good(frames, cells, values)
    BY <2>1 DEF Inv
  <2> QED
    BY <1>2, <2>2, StoreStep, StoreStructStep, SetFieldStep, CallStep, JumpStep, ReturnStep DEF ParityNext
<1> QED
  BY <1>1, <1>2

\* For every program and every number of statements and of activations: slots
\* are apart, borrows are of live variables, and every variable is represented.
THEOREM ParityInvariance == ASSUME ProgramAssumption, ImmediateAssumption
                      PROVE  ParitySpec => []Inv
<1>1. ParityInit => Inv
  BY Initially
<1>2. Inv /\ [ParityNext]_parityVars => Inv'
  BY NextInv
<1> QED
  BY <1>1, <1>2, PTL DEF ParitySpec

\* runFunction leaves in every variable what native code computes, and does not
\* fail, as long as the program uses none of the constructs the two differ on.
THEOREM Parity == ASSUME ProgramAssumption, ImmediateAssumption
                  PROVE  ParitySpec => []MatchesNative
<1>1. Inv => MatchesNative
  <2> SUFFICES ASSUME Good(frames, cells, values), NEW d \in DOMAIN frames, NEW i \in DOMAIN values[d],
                      values[d][i] # <<>>
               PROVE  Represents(d, i)
    BY DEF Inv, MatchesNative
  <2>1. d \in 1..Len(frames)
    BY DEF Good, Stacked
  <2>2. values[d] \in Seq(Seq(Int)) /\ Len(values[d]) = Count(frames[d])
    BY <2>1, GoodFrame
  <2>3. i \in 1..Count(frames[d]) /\ values[d][i] \in Seq(Int)
    <3>1. i \in 1..Len(values[d])
      BY <2>2
    <3> QED
      BY <2>2, <3>1, ElementOfSeq
  <2>4. /\ Suits(frames, values, d, TypesOf(frames[d])[i], values[d][i])
        /\ CellsHold(frames, cells, TypesOf(frames[d])[i], frames[d].slots[i], values[d][i])
    BY <2>1, <2>3 DEF Good, Fitting, Held
  <2>5. TypeOf(frames[d], i) = TypesOf(frames[d])[i]
    BY DEF TypeOf, TypesOf
  <2>6. CASE TypeOf(frames[d], i) = "ref"
    BY <2>4, <2>5, <2>6 DEF Represents, CellsHold
  <2>7. CASE TypeOf(frames[d], i) # "ref"
    <3>1. DOMAIN values[d][i] = 1..layoutSize(TypesOf(frames[d])[i])
      BY <2>3, <2>4, <2>5, <2>7 DEF Suits
    <3> QED
      BY <2>4, <2>5, <2>7, <3>1 DEF Represents, CellsHold, KindOf
  <2> QED
    BY <2>6, <2>7
<1> QED
  BY <1>1, ParityInvariance, PTL
===============================================================================
