---------------------------- MODULE LinearMemory ----------------------------
(***************************************************************************)
(* zith::vm::LinearMemory, the address space a guest program runs in       *)
(* (src/vm/vm-memory.cpp), with the frames of runFunction() and the calls  *)
(* runMain() and the guest make (src/vm/vm-v2.cpp).                        *)
(*                                                                         *)
(* One byte vector serves two allocators.  The arena is a bump pointer     *)
(* that each function frame marks on entry and restores on exit.  The heap *)
(* keeps lists of allocated and free blocks above and between arena data.  *)
(* A block is its offset and length; contents and capacity are left out.   *)
(*                                                                         *)
(* The block lists are sets: mallocBytes() takes the first free block that *)
(* fits, here any of them.  Requests that exceed the address space fail    *)
(* without effect; the bound MaxSize takes the place of that limit.        *)
(***************************************************************************)
EXTENDS Integers, FiniteSets, Sequences

CONSTANTS
    Counts,     \* byte counts the guest asks for; zero is among them
    Alignments, \* alignments it asks for, powers of two
    MaxSize,    \* bound on the addresses handed out
    MaxDepth    \* bound on nested calls

ASSUME CountsAssumption == Counts \subseteq Nat
ASSUME AlignmentsAssumption == Alignments \subseteq Nat \ {0}
ASSUME MaxSizeAssumption == MaxSize \in Nat
ASSUME MaxDepthAssumption == MaxDepth \in Nat \ {0}

VARIABLES
    bump,       \* bump_
    heap,       \* heap_
    size,       \* bytes_.size()
    free,       \* freeBlocks_
    allocated,  \* allocatedBlocks_
    marks,      \* Frame::mark of each live frame; marks[1] stands for runMain()
    scratch     \* live arena regions and the depth of the frame they belong to

vars == <<bump, heap, size, free, allocated, marks, scratch>>

Addresses == 0..MaxSize
Blocks  == [off : Nat, len : Nat \ {0}]
Regions == [off : Nat, len : Nat \ {0}, depth : Nat \ {0}]

Block(o, n) == [off |-> o, len |-> n]
End(b)      == b.off + b.len
Overlap(a, b) == a.off < End(b) /\ b.off < End(a)

Larger(m, n) == IF m < n THEN n ELSE m
Depth == Len(marks)

-----------------------------------------------------------------------------
Init ==
    /\ bump = 0
    /\ heap = 0
    /\ size = 0
    /\ free = {}
    /\ allocated = {}
    /\ marks = <<0>>
    /\ scratch = {}

\* alignUp(): w is the least multiple of a at or after o.
AlignsTo(o, a, w) == w \in o..(o + a - 1) /\ w % a = 0

\* Mutant of Clear: the search starts at the mark of the frame.
ClearFromMark(w, n, a) ==
    /\ w >= marks[Depth] /\ w % a = 0
    /\ \A b \in allocated : ~Overlap(Block(w, n), b)

\* allocBytes(): w is free of allocated blocks.  The loop jumps behind a block
\* the candidate overlaps; every start before that overlaps it as well, so it
\* arrives at the least such address.
Clear(w, n, a) ==
    /\ w >= bump /\ w % a = 0
    /\ \A b \in allocated : ~Overlap(Block(w, n), b)

\* Op::AllocBytes in the top frame, and the string constants of runMain().
AllocBytes(count, a) ==
    LET n == Larger(count, 1) IN
    \E w \in Addresses :
        /\ w + n <= MaxSize
        /\ Clear(w, n, a)
        /\ \A v \in bump..w : Clear(v, n, a) => v = w
        /\ bump' = w + n
        /\ size' = Larger(size, w + n)
        /\ scratch' = scratch \cup {[off |-> w, len |-> n, depth |-> Depth]}
        /\ UNCHANGED <<heap, free, allocated, marks>>

\* Mutant of Cuts: free blocks below the arena's end are reused.
CutsAnywhere(f, n, a, w) == AlignsTo(f.off, a, w) /\ w + n <= End(f)

\* mallocBytes(): n bytes can be cut out of f at w.
Cuts(f, n, a, w) == f.off >= bump /\ AlignsTo(f.off, a, w) /\ w + n <= End(f)

\* Mutants of Remainder: empty blocks are kept; the padding is forgotten.
RemainderEmpty(f, n, w) ==
    {[off |-> f.off, len |-> w - f.off], [off |-> w + n, len |-> End(f) - (w + n)]}
RemainderUnpadded(f, n, w) ==
    {b \in {[off |-> f.off, len |-> w - f.off], [off |-> f.off + n, len |-> f.len - n]} :
        b.len > 0}

\* What remains of f in front of and behind the bytes cut out.
Remainder(f, n, w) ==
    {b \in {[off |-> f.off, len |-> w - f.off], [off |-> w + n, len |-> End(f) - (w + n)]} :
        b.len > 0}

\* mallocBytes(): the free list, heap and size it leaves, and the address w.
FromFreeBlock(n, a, w, freeNow) ==
    /\ \E f \in free : Cuts(f, n, a, w) /\ freeNow = (free \ {f}) \cup Remainder(f, n, w)
    /\ UNCHANGED <<heap, size>>

FromHeapEnd(n, a, w, freeNow) ==
    /\ \A f \in free : \A v \in Addresses : ~Cuts(f, n, a, v)
    /\ AlignsTo(Larger(heap, bump), a, w)
    /\ w + n <= MaxSize
    /\ heap' = w + n
    /\ size' = Larger(size, w + n)
    /\ freeNow = free

Malloc(n, a, w, freeNow) == FromFreeBlock(n, a, w, freeNow) \/ FromHeapEnd(n, a, w, freeNow)

\* The free lists that a call of mallocBytes() may leave.
FreeLists(n, w) == {free} \cup {(free \ {f}) \cup Remainder(f, n, w) : f \in free}

\* Op::MallocBytes, malloc(), calloc() and aligned_alloc().
MallocBytes(count, a) ==
    LET n == Larger(count, 1) IN
    \E w \in Addresses : \E freeNow \in FreeLists(n, w) :
        /\ Malloc(n, a, w, freeNow)
        /\ free' = freeNow
        /\ allocated' = allocated \cup {Block(w, n)}
        /\ UNCHANGED <<bump, marks, scratch>>

\* coalesceFreeBlocks(): the maximal runs of free bytes.
Covered(F, x) == \E f \in F : f.off <= x /\ x < End(f)
MaximalRun(F, b) ==
    /\ b.len > 0
    /\ \A x \in b.off..(End(b) - 1) : Covered(F, x)
    /\ ~Covered(F, b.off - 1) /\ ~Covered(F, End(b))
Spans(F) == {Block(e.off, End(f) - e.off) : e \in F, f \in F}
Coalesced(F) == {b \in Spans(F) : MaximalRun(F, b)}

\* freeBytes() of an allocated block.  Other offsets are ignored.
FreeBytes(b) ==
    /\ b \in allocated
    /\ allocated' = allocated \ {b}
    /\ free' = Coalesced(free \cup {b})
    /\ UNCHANGED <<bump, heap, size, marks, scratch>>

\* reallocBytes() to at most the old length: the tail becomes free.
Shrink(b, n) ==
    /\ b \in allocated /\ n > 0 /\ n <= b.len
    /\ allocated' = (allocated \ {b}) \cup {Block(b.off, n)}
    /\ free' = Coalesced(free \cup {f \in {Block(b.off + n, b.len - n)} : f.len > 0})
    /\ UNCHANGED <<bump, heap, size, marks, scratch>>

\* The free block behind b that is large enough to grow b to n bytes.
Behind(b, n) == {f \in free : f.off = End(b) /\ f.len >= n - b.len}

\* reallocBytes(): b grows into the free block behind it, wherever bump_ is.
GrowInPlace(b, n) ==
    /\ b \in allocated /\ n > b.len
    /\ \E f \in Behind(b, n) :
          free' = (free \ {f}) \cup
                     {g \in {Block(b.off + n, End(f) - (b.off + n))} : g.len > 0}
    /\ allocated' = (allocated \ {b}) \cup {Block(b.off, n)}
    /\ UNCHANGED <<bump, heap, size, marks, scratch>>

\* reallocBytes(): a new block, and the old one is freed.
Move(b, n) ==
    /\ b \in allocated /\ n > b.len
    /\ Behind(b, n) = {}
    /\ \E w \in Addresses : \E freeNow \in FreeLists(n, w) :
          /\ Malloc(n, 1, w, freeNow)
          /\ free' = Coalesced(freeNow \cup {b})
          /\ allocated' = (allocated \ {b}) \cup {Block(w, n)}
    /\ UNCHANGED <<bump, marks, scratch>>

\* realloc(): to zero bytes it frees; of null it allocates (MallocBytes).
ReallocBytes(b, n) == (n = 0 /\ FreeBytes(b)) \/ Shrink(b, n) \/ GrowInPlace(b, n) \/ Move(b, n)

\* runFunction(): the constructor of Frame marks the arena.
Enter ==
    /\ Depth < MaxDepth
    /\ marks' = Append(marks, bump)
    /\ UNCHANGED <<bump, heap, size, free, allocated, scratch>>

\* Mutant of Leave: the heap is truncated with the arena.
LeaveTruncating ==
    /\ Depth > 1
    /\ bump' = marks[Depth] /\ size' = marks[Depth]
    /\ marks' = SubSeq(marks, 1, Depth - 1)
    /\ scratch' = {s \in scratch : s.depth < Depth}
    /\ UNCHANGED <<heap, free, allocated>>

\* ~Frame() on return, trap and tail call: restoreArena(mark).  A mark above
\* bump_ is ignored.
Leave ==
    /\ Depth > 1
    /\ IF marks[Depth] > bump
         THEN UNCHANGED <<bump, size>>
         ELSE bump' = marks[Depth] /\ size' = Larger(marks[Depth], heap)
    /\ marks' = SubSeq(marks, 1, Depth - 1)
    /\ scratch' = {s \in scratch : s.depth < Depth}
    /\ UNCHANGED <<heap, free, allocated>>

Next ==
    \/ \E n \in Counts, a \in Alignments : AllocBytes(n, a) \/ MallocBytes(n, a)
    \/ \E b \in allocated : FreeBytes(b) \/ \E n \in Counts : ReallocBytes(b, n)
    \/ Enter \/ Leave

Spec == Init /\ [][Next]_vars

-----------------------------------------------------------------------------
TypeOK ==
    /\ bump \in Nat /\ heap \in Nat /\ size \in Nat
    /\ free \subseteq Blocks
    /\ allocated \subseteq Blocks
    /\ marks \in Seq(Nat) /\ marks # <<>>
    /\ scratch \subseteq Regions

\* Every heap byte belongs to one block, allocated or free: splitting, growing,
\* shrinking, moving and coalescing neither hand out a byte twice nor free a
\* byte that is in use.
BlocksDisjoint ==
    /\ allocated \cap free = {}
    /\ \A a, b \in allocated \cup free : a # b => ~Overlap(a, b)

\* "MallocBytes/malloc allocations remain addressable" (docs/plans/vm-v2.md),
\* although every frame that exits truncates the memory; and so does what an
\* outer frame or runMain() has allocated from the arena.  A free block lies
\* within the memory too, because it is handed out without resizing.
Addressable ==
    /\ \A b \in allocated \cup free : End(b) <= heap
    /\ heap <= size
    /\ bump <= size
    /\ \A s \in scratch : End(s) <= bump

\* "Nested frames therefore release only their own scratch" (docs/plans/vm-v2.md):
\* what a frame has allocated lies above its mark and, once it calls, below
\* the mark of its callee.
FramesNested ==
    /\ \A i, j \in 1..Depth : i <= j => marks[i] <= marks[j]
    /\ \A i \in 1..Depth : marks[i] <= bump
    /\ \A s \in scratch :
          /\ s.depth <= Depth
          /\ marks[s.depth] <= s.off
          /\ \A i \in 1..Depth : i > s.depth => End(s) <= marks[i]

\* The arena gives no byte to two live allocations.
ScratchDisjoint == \A s, t \in scratch : s # t => ~Overlap(s, t)

\* "bump and heap offsets stay disjoint" (tests/test-vm-v2.cpp): a live arena
\* allocation shares no byte with an allocated block.
ArenaHeapDisjoint == \A s \in scratch, b \in allocated : ~Overlap(s, b)

\* No operation but a realloc() that grows in place ever makes an arena
\* allocation and a heap block share a byte: neither reusing a free block, nor
\* skipping over the heap, nor what frames leave behind.
OnlyGrowthOverlaps ==
    [][ ArenaHeapDisjoint /\ ~ArenaHeapDisjoint' =>
          \E b \in allocated, n \in Counts : GrowInPlace(b, n) ]_vars
=============================================================================
