-------------------------------- MODULE Arena --------------------------------
(***************************************************************************)
(* zith::memory::Arena and MarkPoint, the allocator of the compiler's      *)
(* passes (src/memory/arena.hpp): a chain of blocks filled one after the   *)
(* other, a stack of destructors, and marks that roll both back.           *)
(*                                                                         *)
(* An address is a block and an offset into its data; the data of a block  *)
(* starts at a multiple of its alignment.  The positions in blocks stand   *)
(* for the pointers of the chain.  Sizes are size_t: they wrap at WordSize.*)
(* operator new succeeds; requests it refuses leave the arena as it is.    *)
(* Moving an arena renames it and is left out.  clear() and reset() are    *)
(* taken when no MarkPoint refers to the arena, and marks nest by scope.   *)
(***************************************************************************)
EXTENDS Integers, Sequences

CONSTANTS
    Sizes,          \* requested sizes, zero among them
    ArenaAlignments,     \* requested alignments, powers of two
    BlockSize,      \* block_size_
    BlockAlign,     \* alignof(Block)
    DefaultAlign,   \* alignof(std::max_align_t)
    EntrySize,      \* sizeof(DestructorEntry)
    EntryAlign,     \* alignof(DestructorEntry)
    WordSize,       \* the number of values of size_t
    MaxBlocks, MaxLive, MaxMarks    \* bounds

\* Assumed by the modules that give the constants values.
ArenaSizesAssumption == Sizes \subseteq Nat /\ BlockSize \in Nat \ {0} /\ EntrySize \in Nat \ {0}
ArenaAlignmentsAssumption ==
         ArenaAlignments \cup {BlockAlign, DefaultAlign, EntryAlign} \subseteq Nat \ {0}
ArenaBoundsAssumption == WordSize \in Nat \ {0} /\ {MaxBlocks, MaxLive, MaxMarks} \subseteq Nat
ArenaAssumption == ArenaSizesAssumption /\ ArenaAlignmentsAssumption /\ ArenaBoundsAssumption

\* What OnlyOversizedOverrun rests on: requests are numbers of type size_t, and
\* a block of the default size ends at a multiple of every alignment.
FittingAssumption ==
    /\ Sizes \cup {BlockSize, EntrySize} \subseteq 0..(WordSize - 1)
    /\ \A a \in ArenaAlignments \cup {EntryAlign} : BlockSize % a = 0

VARIABLES
    blocks,     \* the chain from head_: size and alignment of each block
    current,    \* position of current_ in the chain, zero for nullptr
    offset,     \* offset_
    live,       \* allocations not rolled back yet, in order
    pending,    \* destructors_, the oldest first: positions of entry and object in live
    points      \* MarkPoint objects, the outermost first

arenaVars == <<blocks, current, offset, live, pending, points>>

LargerOf(m, n) == IF m < n THEN n ELSE m
AlignUp(o, a) == CHOOSE w \in o..(o + a - 1) : w % a = 0

\* What alloc() and addBlock_() change.
Chain == [blocks |-> blocks, current |-> current, offset |-> offset, live |-> live]
Becomes(s) ==
    /\ blocks' = s.blocks /\ current' = s.current /\ offset' = s.offset
    /\ live' = s.live

\* addBlock_(): the new block follows current_; blocks that followed it before,
\* as reset() leaves them, are lost to the arena.
AddBlock(s, n, a) ==
    [s EXCEPT !.blocks  = Append(SubSeq(@, 1, s.current),
                                 [size |-> LargerOf(n, BlockSize), align |-> LargerOf(a, BlockAlign)]),
              !.current = @ + 1,
              !.offset  = 0]

\* Mutant of Exceeds: the padding is not counted.
ExceedsUnpadded(s, n, a) == n > (s.blocks[s.current].size - s.offset) % WordSize

\* alloc(): the test size > current_->size - aligned_offset, in size_t.
Exceeds(s, n, a) == n > (s.blocks[s.current].size - AlignUp(s.offset, a)) % WordSize

NeedsBlock(s, n, a) ==
    s.current = 0 \/ s.blocks[s.current].align < a \/ Exceeds(s, n, a)

\* Mutant of Place: the padding is not skipped.
PlaceUnpadded(s, n, a) ==
    [s EXCEPT !.live   = Append(@, [block |-> s.current, off |-> AlignUp(s.offset, a),
                                    len |-> n, align |-> a]),
              !.offset = @ + n]

\* alloc(): n bytes at the aligned offset of the current block.
Place(s, n, a) ==
    [s EXCEPT !.live   = Append(@, [block |-> s.current, off |-> AlignUp(s.offset, a),
                                    len |-> n, align |-> a]),
              !.offset = AlignUp(@, a) + n]

Allocated(s, size, a) ==
    LET n == LargerOf(size, 1)
    IN  Place(IF NeedsBlock(s, n, a) THEN AddBlock(s, n, a) ELSE s, n, a)

-----------------------------------------------------------------------------
NoBlocks == [blocks |-> <<>>, current |-> 0, offset |-> 0, live |-> <<>>]

ArenaInit ==
         /\ LET s == AddBlock(NoBlocks, BlockSize, DefaultAlign)
            IN  blocks = s.blocks /\ current = s.current /\ offset = s.offset
                /\ live = s.live
         /\ pending = <<>>
         /\ points = <<>>

Bounded(s) == Len(s.blocks) <= MaxBlocks /\ Len(s.live) <= MaxLive

\* alloc(), and make() of a type without a destructor.
Alloc(n, a) ==
    /\ Bounded(Allocated(Chain, n, a))
    /\ Becomes(Allocated(Chain, n, a))
    /\ UNCHANGED <<pending, points>>

\* make() of a type with a destructor: the entry, then the object.
Make(n, a) ==
    LET s == Allocated(Allocated(Chain, EntrySize, EntryAlign), n, a) IN
    /\ Bounded(s)
    /\ Becomes(s)
    /\ pending' = Append(pending, Len(s.live))
    /\ UNCHANGED points

\* destroyUntil_(nullptr) and the release of every block of the chain.
ArenaClear ==
         /\ points = <<>>
         /\ blocks' = <<>> /\ current' = 0 /\ offset' = 0
         /\ live' = <<>> /\ pending' = <<>>
         /\ UNCHANGED points

\* reset(): the blocks stay, the first is current.
Reset ==
    /\ points = <<>>
    /\ current' = IF blocks = <<>> THEN 0 ELSE 1
    /\ offset' = 0
    /\ live' = <<>> /\ pending' = <<>>
    /\ UNCHANGED <<blocks, points>>

\* Mutant of Mark: the offset is not saved.
MarkBlock ==
    /\ Len(points) < MaxMarks
    /\ points' = Append(points, [block |-> current, offset |-> 0,
                                 destructors |-> Len(pending), count |-> Len(live)])
    /\ UNCHANGED <<blocks, current, offset, live, pending>>

\* The constructor of MarkPoint.  count is there to tell what came before it.
Mark ==
    /\ Len(points) < MaxMarks
    /\ points' = Append(points, [block |-> current, offset |-> offset,
                                 destructors |-> Len(pending), count |-> Len(live)])
    /\ UNCHANGED <<blocks, current, offset, live, pending>>

\* Mutant of Rollback: destructors stay registered.
RollbackStorage ==
    /\ points # <<>>
    /\ LET m == points[Len(points)] IN
          /\ blocks' = SubSeq(blocks, 1, m.block)
          /\ current' = m.block
          /\ offset' = m.offset
          /\ live' = SubSeq(live, 1, m.count)
    /\ points' = SubSeq(points, 1, Len(points) - 1)
    /\ UNCHANGED pending

\* rollback(), called or by the destructor of the innermost mark.
Rollback ==
    /\ points # <<>>
    /\ LET m == points[Len(points)] IN
          /\ pending' = SubSeq(pending, 1, m.destructors)
          /\ blocks' = SubSeq(blocks, 1, m.block)
          /\ current' = m.block
          /\ offset' = m.offset
          /\ live' = SubSeq(live, 1, m.count)
    /\ points' = SubSeq(points, 1, Len(points) - 1)

\* release(): the mark lets go of the arena.
Release(i) ==
    /\ i \in 1..Len(points)
    /\ points' = SubSeq(points, 1, i - 1) \o SubSeq(points, i + 1, Len(points))
    /\ UNCHANGED <<blocks, current, offset, live, pending>>

ArenaNext ==
         \/ \E n \in Sizes, a \in ArenaAlignments : Alloc(n, a) \/ Make(n, a)
         \/ ArenaClear \/ Reset \/ Mark \/ Rollback
         \/ \E i \in 1..Len(points) : Release(i)

ArenaSpec == ArenaInit /\ [][ArenaNext]_arenaVars

-----------------------------------------------------------------------------
Allocations == [block : Nat \ {0}, off : Nat, len : Nat \ {0}, align : Nat \ {0}]
EndOf(r) == r.off + r.len

ArenaTypeOK ==
         /\ blocks \in Seq([size : Nat \ {0}, align : Nat \ {0}])
         /\ current \in 0..Len(blocks)
         /\ offset \in Nat
         /\ live \in Seq(Allocations)
         /\ pending \in Seq(Nat)
         /\ points \in Seq([block : Nat, offset : Nat, destructors : Nat, count : Nat])

\* No byte is handed out twice, and what was asked for aligned is aligned, also
\* across marks, resets and blocks of other alignments.
LiveDisjoint ==
    /\ \A i, j \in 1..Len(live) :
          i # j /\ live[i].block = live[j].block =>
              EndOf(live[i]) <= live[j].off \/ EndOf(live[j]) <= live[i].off
    /\ \A i \in 1..Len(live) :
          /\ live[i].block <= current
          /\ live[i].off % live[i].align = 0
          /\ live[i].align <= blocks[live[i].block].align

\* A rollback takes back exactly what was allocated after the mark: everything
\* older lies before the position it restores, everything younger behind.
MarksSeparate ==
    \A i \in 1..Len(points) : \A j \in 1..Len(live) :
        LET m == points[i] IN
        IF j <= m.count
          THEN live[j].block < m.block \/ (live[j].block = m.block /\ EndOf(live[j]) <= m.offset)
          ELSE live[j].block > m.block \/ (live[j].block = m.block /\ live[j].off >= m.offset)

\* A destructor still to be run finds its entry and its object: neither a
\* rollback nor a reset frees or reuses their storage before running it.
StorageOutlivesObjects ==
    /\ \A i \in 1..Len(pending) : pending[i] \in 2..Len(live)
    /\ \A i, j \in 1..Len(pending) : i < j => pending[i] < pending[j] - 1

\* Only a block made for an oversized request can be overrun, and not by that
\* request: blocks of the default size end at a multiple of every alignment, so
\* that an aligned offset never passes their end.
OnlyOversizedOverrun ==
    \A i \in 1..Len(live) :
        LET b == blocks[live[i].block] IN
        EndOf(live[i]) > b.size => b.size > BlockSize /\ live[i].off > b.size

=============================================================================
