# Zith: formal models of the compiler

Zith is a C++23 compiler with a cache, a language server front end, a package
resolver and a virtual machine. Most of it is a pipeline of passes over one module.
What is hard to test lies in and around the passes: caches that threads, editors and
other processes share, files written while somebody is killed, allocators under
everything, the control flow that checker and lowering each work out for themselves,
and a virtual machine that must do what native code does. This directory holds TLA+
models of those parts, TLC configurations that check them on small instances, and
proofs, checked by TLAPS, that the most important properties hold for every instance.

`PROJECT.json` lists the components, the runs, the source lines behind each
definition (`map`), the hazards, the findings and the theorems. Paths below are
relative to `src/` of the repository unless they begin with `docs` or `memory`.

## 1. Inventory

### The components modelled

| Component | State | Operations | Hard because |
|---|---|---|---|
| **Frontend executor** `session/frontend-module-cache.cpp` | task queue, stop flag, the threads asleep on a condition variable | `submit`, `workerLoop`, destructor | notify after unlock, spurious wakeups, shutdown with a full queue |
| **Module cache** same file | newest fingerprint and epoch per path, artifacts per bucket, builds in flight, dependencies in both directions | `getOrBuild`, the task that publishes, `noteSource`, `updateDependencies`, `invalidate` | builds run outside the lock; a module is invalidated through its imports while it is built; texts change back and forth |
| **Frontend context** `session/frontend-context.cpp` | overlays, and the local state of each analysis | `analyzeFile`, `setOverlay`, `removeOverlay`, `invalidatePath` | an analysis takes many locks in several rounds; overlays and files change in between; imports are cyclic |
| **Semantic analysis**, control flow `sema/sema-control.cpp`, `sema/hir-lower-block.cpp`, `sema/hir-lower-stmt.cpp` | open blocks, proofs, moved and uninitialized locals; basic blocks, loops, cleanup frames, pending defers | every statement with control flow | checker and lowering compute reachability apart; cleanup on every exit; facts that follow the source text |
| **Virtual machine** `vm/hir-to-vm.cpp`, `vm/vm-v2.cpp`, beside **code generation** `codegen/` | activations, registers, slots in linear memory | stores, struct copies, fields, calls, state jumps, returns | structs are passed as addresses; jumps reuse an activation; registers are untyped words |
| **VM memory** `vm/vm-memory.cpp` | one byte vector with a bump pointer, a heap end, free and allocated blocks, a mark per frame | `allocBytes`, `mallocBytes`, `freeBytes`, `reallocBytes`, `Frame` | two allocators share the addresses; returning from a frame truncates them |
| **Persistent cache** `cache/`, `session/persistent-cache.cpp` | artifacts, manifest and tag registry on disk; what each session has loaded | `Store` constructor, `load`, `store`, `assignCanonicalId`, hydration | every session overwrites what it read once; killed between two writes; sources edited meanwhile |
| **Documentation writer** `cli/docs/output-writer.cpp` | pages, temporaries and backups on disk; the staged files of a writer | stage, install, roll back, discard | any call fails, any writer is killed, two run at once |
| **Packages** `packages/` | manifests, the stack of visits, the lockfile | `resolveLocalPackages`, `visit`, `validateLocalLockfile` | cycles and shared packages, aliases, manifests edited meanwhile |
| **Flat hash map** `memory/flat-map.hpp` | slots with a full/empty/erased tag, a count | lookup, `insert`, `operator[]`, `erase`, `clear`, rehash | tombstones, growth that does not count them |
| **Arena** `memory/arena.hpp` | a chain of blocks, a stack of destructors, marks | `alloc`, `make`, `clear`, `reset`, `MarkPoint` | alignment at a block's end, rollback across blocks, objects registered in the storage they guard |

How they interact. A request thread calls `FrontendContext::analyzeFile`. It reads
the overlays (under `overlay_mutex_`) or the disk, and calls the `ModuleCache` (every
call a critical section of its `mutex_`). On a miss `getOrBuild` submits a task to the
`ModuleExecutor`, after the unlock, and returns a shared future; the task builds the
module without a lock, publishes it in a critical section and fulfils the promise
outside it. Editors call `setOverlay` and `removeOverlay`, which change the overlays
and then, under another lock, the cache. A compilation asks the persistent cache
before it analyses and stores what it lowered. The checker accepts a body, the lowering
turns it into basic blocks, and either code generation or the VM runs those; the VM's
statements work in `LinearMemory`. The tables are `FlatMap`s and live in arenas.

### The components not modelled

| Component | What it is, and why it is left out |
|---|---|
| Source catalog, module analysis | an append-only table under one mutex; a function of texts, taken as `Imports` |
| Compilation session, command line | sequential drivers of the stages |
| IDE API (`ide/`) | queries over snapshots of the frontend context |
| Parser, symbols, comptime, HIR, ZIRL, formatter, interpreter, WebAssembly ABI | functions of their input over syntax trees, of which a finite instance shows little |
| Types, and typing in semantic analysis | algorithms over type graphs on one thread |
| C interoperability, native link, C API, diagnostics, support code, scripts, standard library | external processes and files, printing, thin wrappers, packaging |

## 2. Plan

Done, in this order: the executor, the cache with its contract, worklist and proofs;
the context that composes them; the VM memory with its proofs, the flat map and the
arena; the files shared with other processes (`ArtifactStore`, `DocsOutput`,
`PackageResolver`); the control flow of a function body (`HirLowering`, `FlowFacts`,
`ControlFlow`); the proofs of the executor and of the context; the virtual machine
beside native code (`VirtualMachine`, `VmParity`); the proofs of the documentation
writer and of the persistent cache; the proofs of the arena, of the flat map and of
the package resolver; the proofs of the lowering (`ControlFlowProofs`), of the
virtual machine (in `MemoryProofs`) and of what the checker concludes about dead
locals, termination and null pointers (`CheckerProofs`).

To do: slices, optionals and unions in `VirtualMachine`; C headers and the second
build with imported macros in `FrontendContext`.

## 3. Modules

### `ModuleExecutor`

A thread is `checking` the predicate (it holds or competes for `mutex_`), `waiting`
in the condition variable, `running` a task, or `returned`. `Submit` is the critical
section of `submit()` and `NotifyOne` the call after it; `notifying` holds the
submitters in between. `Wait`, `Take`, `Finish` and `Return` are the paths through
`workerLoop()`; `SpuriousWakeup` is what a condition variable may do. `Stop`,
`NotifyAll` and `Join` are the destructor. The build without threads
(`ZITH_IS_WASM`) runs tasks inline and has no interleavings.

### `ModuleCache`, `CacheContract`, `InvalidationWorklist`

One variable per table of the class (`current_fingerprints_`, `epochs_`,
`artifacts_`, `in_flight_`, `dependencies_`, `reverse_dependencies_`), one for the
promises (`build`) and one for the callers (`client`). `GetOrBuild` is the critical
section: note the revision, then hit, join or start. `Submit`, `Publish`, `Fulfil`
and `Receive` follow it. An artifact is abstracted to the fingerprint it was built
from. A promise's identity is reused once nobody holds it; a build is never free
while it runs, so this hides no late build.

`Invalidated` takes the whole loop of `invalidateLocked()` as one step, as its caller
holds the lock. `InvalidationWorklist` models the loop, a pop at a time, and its
`EffectAtReturn` says that it has the effect `Invalidated` gives it: the transitive
importers are evicted and an epoch is raised once per visited module that names it.

`CacheContract` knows neither locks nor epochs nor reverse edges. A build holds a
licence; whatever invalidates a module takes back in the same step the artifacts and
licences of the module and its transitive importers. `ImplementsContract` maps a
pending build whose epoch and revision still match to a licence.

### `FrontendContext`

`INSTANCE ModuleCache` with one client per thread and module, so that a thread can
wait for a round of futures. The stages of `analyze()` follow the loops of the
source: `load` (the disk, after the overlay was found missing under the shared
lock), `note`, `request`, `collect`, `resolve`, `record`. Every call that takes a
lock is an action. `Imports[p][text]` stands for parsing and import resolution. Each
loop runs over a set, in any order; the code's order is one of them. `AnalyzeText`
enters with the caller's text for the root (one of `CallerTexts`). `SetOverlay`
and `NoteOverlay` are the two halves of `setOverlay()`, `RemoveOverlay` and
`InvalidateRemoved` those of `removeOverlay()`. `WriteFile` is the world outside.
A thread's `futures` hold the text of what each future delivers: on a hit the cached
artifact, on a join or a miss the source of that build, whoever asked for it. It is
taken from the cache's own state when the future is made, and `Collect` stores it as
the module. `changed` is history: the paths written since a thread's last analysis
began, the root of `analyzeText()` among them.
The cache here is the map its tables are meant to be, not the `FlatMap`: an analysis
returns as long as lookups do.

### `HirLowering`, `FlowFacts`, `ControlFlow`

`HirLowering` reads a function body a statement at a time and does what
`HirLowerModern` does: `newBlock`, `Seal` (`setTerminator`), `flushPendingDefers`,
`emitCleanupFrom`, `lowerIf`, `lowerLoop`, `lowerWhen`, `Return`, `Break` and
`Continue`, and for expressions that branch (`lowerOptionalProp`, `lowerIndex`,
`lowerTestAssert`, ...). The recursion over the tree is the stack `scopes`. `FlowFacts` is the
checker over the same statements: whether a block always terminates, whether a loop
contains a break, and of one local whether it is proven non-null, moved away
(`movedLocals_`) or not yet initialized (`uninitializedLocals_`).

`ControlFlow` joins them. A behaviour reads any program of a family of statement
kinds, as far as the checker accepts it, and then executes the emitted blocks, taking
either edge of a branch whose condition is opaque. The lowering marks, in the emitted
code, where the source enters and leaves blocks and reaches defers; the execution
compares the emitted cleanup with these marks. Reads inside deferred bodies, jumps
between states (lowered like a return) and branching expressions inside a condition
are left out, and so is code behind a terminator, except in the body of an
`else (condition)`, which the lowering itself takes for dead. That body holds simple
statements only.

### `VirtualMachine`, `VmParity`

`VirtualMachine` is a statement as `hir-to-vm.cpp` compiles it and `runFunction()`
executes it, on a linear memory of eight-byte cells: storage for every slot at entry
(`Storage`), parameters stored into their slots one after another (`StoreParameter`,
`StoreParameters`), structs passed
as the caller's address and copied by the callee, struct results through a pointer
into the caller's frame (`CallRange`, `Ret`), and jumps to states, which end the frame
and keep the activation (`TailCallRange`). A word carries the kind of value it was
written as, so that arithmetic on a word of another kind is `Junk`.

`VmParity` runs the same statements as native code means them: `values` holds numbers,
structs by value, and borrows as pointers to a variable of a frame; integers wrap at
their declared width, casts convert. `MatchesNative` says that every variable of every
live function holds the same in both. A program is followed until it uses one of five
constructs (`uses`) on which the two are known to differ; each of the five is needed
for the property to hold (section 6). The register numbers of statements that a
function would have run are not in the model, so after a jump to another function the
type the VM sees for a register is any of the two.

### `LinearMemory`

Blocks are offset and length, the lists are sets (where the code takes the first
free block that fits the model takes any). `AllocBytes` is the bump allocation that
skips heap blocks, `MallocBytes` the heap, `FreeBytes` and `ReallocBytes` what the
guest calls; `ReallocBytes` has the four ways of the code. `Coalesced` states the
result of sorting and merging as maximal runs of free bytes. `Enter` and `Leave` are
the constructor and destructor of `Frame`; `scratch` remembers the arena allocations
of the live frames, which the code does not store.

### `ArtifactStore`

Each session has a `Store` that reads manifest and registry once (`Start`), loads
(`Load`, `Miss`), checks the tags of what it loads (`CheckMapping`), hydrates or
analyses and lowers, assigning tags (`Lower`), and writes back artifact, manifest and
registry from its own copies (`Truncate`, `Write`, `TruncateManifest`, `Save`). Files
written in place are cut short in between; the registry is renamed, one step here
although two sessions share the name of its temporary. `Crash` may follow any step.

### `DocsOutput`

Every path holds no file, a text, or a text cut short. A writer checks its plan,
selects a sidecar name, creates and writes a temporary for each page, then preserves
and installs page by page, and drops the backups; any call may fail, which leads to
`Undo`, `Restore` and `Discard`. `Killed` may happen anywhere.

### `PackageResolver`

A manifest is a name, a module root and the directory each dependency names. `visit`
is the depth-first walk with its stack (`VisitKnown`, `VisitNew`, `CompleteVisit`), in
any order of the dependencies; `WriteLock` writes the file in place.
`validateLocalLockfile`, which every build calls, is one step. `EditManifest` may come
at any time. Symbolic links are left out.

### `FlatMap`, `FlatMapContract`, `Arena`

Probing is stated with the distance of a slot from the key's home slot; the hash
function is a variable chosen in `Init`. The table is used as its callers do
(`operator[]`, lookups, `erase`, `clear`). A lookup that finds neither its key nor an
empty slot sets `stuck`. `FlatSet` is the same table without values.

An arena address is a block and an offset. `live` remembers the allocations and
`pending` the destructors by position in it. Arithmetic on sizes wraps at `WordSize`,
because one subtraction of the source does. Marks nest by scope; `release()` may drop
any.

### Instances

`MCProgress` (pool, loop, context), `MCProjectFiles` (cache, documentation, packages,
sources) and `MCMemory` (VM memory, map, arena, machine) each hold several components
that share no state: a behaviour is one of `part` and leaves the others in a first
state, so one run explores each of them in full. `MCModuleCache` and `MCControlFlow`
instantiate one specification.

## 4. Runs

| Run | Question | Instance |
|---|---|---|
| `progress` | is a task lost, run twice or dropped at shutdown; does the loop have the effect assumed; does everything awaited come | pool: 3 tasks, 2 threads; loop: every graph on 3 modules; context: 3 modules, 2 of them in one round, 1 edit |
| `module_cache` | is anything published that was invalidated; is work done twice; is the contract kept | 2 modules in a cycle, 2 revisions, 3 callers, 3 builds |
| `project_files` | does a program mix tags; is a stale artifact used; is a text lost; is a sound project refused or an outdated lock accepted; do analyses read what was there, and is a snapshot closed | 2 sessions at a time and 3 in all, 2 modules, 3 texts; 2 writers, 2 pages; 3 packages and a project; 2 threads and an editor, one text for `analyzeText()` |
| `control_flow` | does control land where the source says; do defers run once, in order; do the checker's conclusions hold | every program of 3 to 5 statements of ten families, 3 or 4 blocks deep |
| `memory` | do blocks, scratch and frames stay apart; is the table a map; is the arena sound; does the VM compute what native code does | 5 bytes, 3 frames; 4 keys, 4 then 8 slots; 3 blocks, 5 allocations, 2 marks; programs of 6 statements over 5 functions, 3 frames |
| `linear_memory_realloc` | do arena and heap stay disjoint: **no** | as above |
| `flat_map_lookup` | does a lookup return: **no** | 4 keys, 4 slots |
| `defer_skipped` | does every exit run every defer: **no** | the family `Cleanups` |
| `else_if_skipped` | is only dead code skipped: **no** | the families `ElseIfs` |
| `null_proof` | is an accepted dereference of a pointer: **no** | the family `Proofs` |
| `stale_artifact` | is a loaded artifact current: **no** | the cache alone |
| `float_dispatch` | does arithmetic use its registers' types: **no** | the machine alone |

Why the bounds are enough.

* `progress`: a lost wakeup needs a sleeper, a thread that is awake and a task more
  than the awake thread takes. An edit can fall between any two locks of an analysis.
  `MaxEpoch` 20 is never reached.
* `module_cache`: `MaxEpoch` 2 lets a path change from A to B and back to A, which
  needs two changes after the first note, while a build of A runs. Three callers are
  one that waits for an old build, one that starts a new one and one that joins.
  Longer chains of imports are the worklist's business. Once an epoch exceeds
  `MaxEpoch` nothing is invalidated any more; later epochs are what the proofs are for.
* `project_files`: two sessions at once and a third behind them show what they leave;
  three texts are an edit that changes the declarations and one that does not. With
  `MaxId` 3 two writers use up the sidecar names after one was killed. The manifests
  allow cycles of one, two and three packages, two directories for one name, a shared
  root, and the project's own name.
* `control_flow`: a family's statement kinds are those its properties relate; a
  program that has none of those it is about is not run. Two defers, two nested blocks
  and an exit are four statements; the family `Nested` has five, four deep. The
  theorems of section 7 have none of these bounds.
* `memory`: five addresses hold the shortest sequence that makes the allocators meet
  (a freed block, scratch above it, a neighbour that grows). Capacity 4 allows 2
  entries before growth, 8 allows 5; the hashes 0, 3 and 7 meet in four slots and part
  in eight, with runs that wrap around. The arena's block of 4 meets a request of 5.
  `OnlyOversizedOverrun` presumes that the block size is a multiple of every
  alignment, as the default of 4096 is, which all arenas use. Immediates have 2 bits
  and integers 4, where the code has 16 and 32: what matters is that a literal may fit
  the integer and not the immediate. Six statements are a call, a jump, a store, a
  return and two more; seven were run once and show nothing else, and `Parity`
  (section 7) has none of these bounds.

Symmetry is used in safety runs only, on sets whose elements are interchangeable.
Deadlock is checked in `progress`, `module_cache` and `memory`, where a step that
changes nothing says that the system may stop; in `control_flow` and `project_files`
programs, sessions, writers and commands end, and it is not.

A property is kept only if a plausible bug breaks it. Next to a definition stand its
mutants (`PublishableAlways`: the epoch is not compared; `CheckMoveKeeping`: a move is
not remembered; ...), named in `PROJECT.json` with the property each must violate. No
specification uses them.

## 5. Fairness

Only `progress` states fairness, for each part the one of its module.

* `ModuleExecutor`: weak fairness of each thread's own steps (the operating system
  schedules runnable threads and tasks return), of `NotifyOne` for a thread inside
  `submit()`, and of the destructor's steps. None for `Submit`, `Stop` or
  `SpuriousWakeup`: nobody must submit, destroy or be woken.
* `InvalidationWorklist`: weak fairness of the loop, which runs on one thread.
* `FrontendContext`: weak fairness of each thread inside an analysis, of an editor
  inside a call, and of the pool. That the pool runs every queued task is
  `SubmittedRuns` of the executor. None for edits and none for starting an analysis.

## 6. What the models show

Violations that a run exhibits:

* **Realloc over the arena** (`linear_memory_realloc`). Heap block A, heap block B,
  free B, allocate scratch: the arena skips allocated blocks only, so it may use B's
  bytes. `realloc` of A then grows in place into the free block B
  (`vm/vm-memory.cpp:185`) without a look at the arena. `mallocBytes` has the check
  this path lacks (`Cuts`). `OnlyGrowthOverlaps`, checked and proved, says that no
  other operation can do it.
* **A lookup that never returns** (`flat_map_lookup`). Growth is decided by the number
  of entries, which `erase()` lowers. Look-ups, insertions and erasures of ever new
  keys fill the table with tombstones until `find_slot()` meets no empty slot.
  `ModuleCache::in_flight_` is used in exactly this way, under the cache's mutex.
* **Defers of outer blocks are skipped** (`defer_skipped`). A block's defers are moved
  to its cleanup frame when it ends, so an exit inside an inner block finds only the
  innermost block's.
* **`else (condition)` without a further else** (`else_if_skipped`). Both edges of the
  second branch lead to the merge block, and the body is lowered behind a terminator.
* **A proof that outlives its construct** (`null_proof`). The non-null proof left by an
  early exit inside a branch holds for the rest of the function.
* **Stale bodies** (`stale_artifact`). An artifact records only the declarations of
  its direct imports, and holds their lowered bodies.
* **Floats added as integers** (`float_dispatch`). `runFunction()` goes on with another
  function after `TailCallRange` but asks for register types in the first.

Limits that a passing property states, each needed for it to hold:

* `ReadsLive`: a read of a moved or unassigned local is accepted after an assignment
  in one branch, in the next round of a loop that moves it, and in `v = f(v)`, because
  the sets follow the order of the source text (`docs/Zith---implementation.md` says
  so of moves: no SSA pass). `ProofsHold` likewise for null pointers that are written
  in a branch or loop.
* `FallsOnlyWhereMiscounted`: a for-in loop counts as terminating when its body does,
  and an `else (condition)` counts as an else, so a function may end without a value.
  The same miscount spoils proofs (`ProofsHold`): an outer `if` whose body ends in such
  a construct counts as an early exit, and leaves its proof to code that is reached.
* `DefersRunOnce`: an `x?` that finds none leaves the function without any cleanup, and
  so does an `@assert` that fails in a test, which emits its frames before anything was
  lowered into them. In `return x?` the cleanup comes before the branch and is run.
* `MatchesNative`: an integer literal is cut to 16 bits (`vm/hir-to-vm.cpp:595`; the
  test with `Count(100000)` in `tests/test-vm-v2-gaps.cpp` makes 34464 rounds); a cast
  is a no-op; integers do not wrap at their declared width; a struct variable passed
  by a jump is read after its frame has ended, where the target's own storage is or
  beyond the memory; and the register types above.

Read in the code, or seen in a trace, and not worth a run of its own: two processes
that assign tags at once may give one tag to two types (`SequentialTagsStable` is what
holds; `TagsOfProgramAgree` says that no program mixes them); `insert()` without a
lookup can store a key twice behind a tombstone; an allocation behind an oversized
arena block can pass its end, as `current_->size - aligned_offset` wraps
(`OnlyOversizedOverrun` says only there); defers at a normal block end run in source
order, those at an explicit exit in reverse (`ExitsInReverse`); `return` evaluates its
value after the cleanup; after `reset()` an arena leaks the chain it kept;
`setOverlay()` tells the cache after releasing the overlay lock, which
`SnapshotIsTrue` shows does not mislead an analysis, one that begins between the two
included: a hit or a join needs the fingerprint of the text that was read.

## 7. Proofs

The proof modules extend the modules they are about and assume only the named
assumptions of those: finite sets where cardinalities are taken, `None` outside the
sets it is added to, natural numbers. Two go further. `CapacityAssumption` takes the
first capacity of a map to be at least 2 (it is 16); with 1 the only slot would fill up
before the map grows. `FittingAssumption`, for one theorem on the arena, says what the
property is about: requests fit a machine word and blocks end at a multiple of every
alignment.

`NumberLemmas` holds what several proofs need of the naturals: a nonempty set of them
has a least element, induction up to a bound over a *set* of numbers, and that a
function defined step by step up to a bound exists. The library's induction theorems
take an operator as a parameter, which the provers cannot instantiate; over sets the
same arguments go through.

**The executor** (`ProgressProofs`). `RunsOnce` and `WorkConserving` (a queued
task never waits while a thread sleeps that nobody is about to wake) are proved from
`IInv`, whose added part `Accounted` counts: the queued tasks are at most the threads
awake and the notifications still to come, or nobody sleeps.

**The cache** (`ModuleCacheProofs`). `CachedIsCurrent` and `SingleFlight` are not
inductive. A build that has missed its epoch could match it again if epochs were to
fall, and two builds of one revision could both be publishable if the in-flight table
forgot one. `IInv` adds `EpochsPast` (no build carries an epoch its path has not
reached), `InFlightExact` and `OneSubmitter`. Two lemmas carry the argument:
`DependentsClosure` (what an invalidation visits is closed under reverse edges) and
the facts about `Revoked`, an abstraction of every step that invalidates: epochs grow,
artifacts vanish where they do. Then there is one lemma per action.

**The refinement** (`ModuleCacheProofs`). `Implements` shows that the initial
states agree and that every step is a step of `CacheContract` or leaves its variables
alone. What needs work is that the licences revoked by comparing epochs are those of
the transitive importers: by `ReverseExact` the closure along `rdeps` is the closure
along `deps`, and a module in the closure has its epoch raised.

**The worklist** (`ProgressProofs`). `LoopIInv` adds `Frontier` (whatever a
visited module is named by is visited or on the stack) to `OnlyDependents` and
`NoneForgotten`. When the stack is empty the visited set is closed and contains the
root, hence it is the closure.

**The context** (`FrontendContextProofs`). `ContextCallsCache` shows that every step of
the threads and editors is a step of `ModuleCache` or leaves it alone, so what is
proved of the cache holds here (`ContextServesCurrent`). `LocalInv` says, stage by
stage, what an analysis holds (types, what is noted, requested and loaded), from which
`ClosedSnapshots` follows. `FuturesAnswer` adds to it and the cache's invariant which
future may be of which build (`FuturesInv`). `LocalInv` includes that a future
delivers the text its thread asked for (`Promised`); that every request keeps it so
(`RequestDelivers`) is where the cache's invariant is needed, its artifacts and its
builds in flight. `TrueSnapshots` adds that every text a thread holds, as source or
module, is the current one unless its path was written since (`TrueInv`).

**The memory** (`MemoryProofs`, last part). `IInv` is the conjunction of the checked
invariants and of `FramesNested`, inductive as it stands. The blocks of the heap are
handled by `HeapOK`, a statement about two sets and a bound without state, with a
lemma each for splitting, coalescing and moving. `GrowthAlone` proves the action
property from the same invariant.

**The documentation writer** (`ProjectFilesProofs`). `IInv` says for each page what the
writer at work has done to it: `Untouched`, `Chosen` (a backup is named), `Moved` (the
old text is in the backup), `Replaced` (the new text is installed), and in the rollback
`Cleared`; `PageOK` says which of these a page may be in, by the stage of the writer and
whether the page lies before or behind the one in hand. Temporaries never hold an old
text (`Drafts`). Without overlapping writers one is at work at most (`Alone`), so that a
step disturbs the page it handles and no other. `NothingIsLost` and `FailureUndone`
follow; the least free sidecar number is `LeastNumber`.

**The persistent cache** (`ProjectFilesProofs`). `TypeInv` includes what a session holds
stage by stage (`Holds`). `TagsInv` (every registry in memory is injective) is inductive
although two sessions may overwrite each other's: `ProgramTags`. `TagsStable` needs
`Sequential`: a lone session's registry is the one in the file. `LoadedIsOfItsText`
needs `FreshInv`: an artifact's fingerprint is that of the text of the module it was
built from, and what a session has read is still what is there.

**The arena** (`MemoryProofs`). `alloc()` is an operator on a chain record, and a first
group of lemmas is about chains alone: what is placed lies in its block, behind all that
was placed before, and aligned (`AlignUpLeast`, `Allocated...`); this holds also where
`size - aligned_offset` wraps, because a wrapped difference only makes a block look
larger. `ArenaInv` then says that `live` is packed: in the order of allocation the blocks do
not decrease, and within a block each allocation starts where the one before it ends or
later. `LiveDisjoint` follows, whatever was overrun. For `MarksSeparate` the marks are
nested in the same order (each lies between two allocations, as does its position in the
stack of destructors), for `StorageOutlivesObjects` the entry of a destructor is placed
directly behind its object, so that no mark comes between. `OnlyOversizedOverrun` needs
`FitsInv` in addition: blocks that are not oversized have the default size, and the
offset in them is at most that.

**The flat map** (`MemoryProofs`). The property that makes open addressing correct is
`Sound`: a key has at most one slot, and between its home slot and that one no slot is
empty. `erase()` preserves it because it leaves a tombstone, `insert()` because it takes
the first slot of the probe that is not occupied after a lookup has failed, and a rehash
because every step of it does (`RehashedHolds`, by induction over the old slots:
what was moved so far is sound and shows the entries seen so far). A second part,
`Slack`, counts: the entries stay below the capacity, so a table full of entries alone
does not occur (`TombstonesBlock`). `TableIsMap` refines `FlatMapContract`, with the
finite map read off the table: a lookup that returns has found the key's slot or an
empty one, and by `Sound` the key is absent in the second case.

**The packages** (`ProjectFilesProofs`). What a project needs is defined without an
algorithm, as the least closed set of directories (`Below`). `AcceptedCurrent` derives
it from what `validateLocalLockfile()` computes: the rounds of the search from the
project's dependencies add only packages that are needed, the paths compared make the
lock closed, and Kahn's count gives every package a set of predecessors it is not in
(`VisitedRanks`), so that no package depends on itself. It holds in every state,
because the manifests that a build compares are those of its moment. `ResolvesSound`
needs `WalkInvariant`, what holds of a walk while nobody edits a manifest: the visits
follow a path without a cycle (`WalkPath`), what a visit has handled is finished or is
the next visit (`WalkEdges`), the finished packages are closed, so that a visit that
ends does not depend on itself (`WalkFinished`), and they can be ranked (`WalkRanked`),
from which the validation before the lock is written never refuses what the walk
accepted (`RankedVisited`, `WalkedLock`). Each refusal of the walk contradicts one
conjunct of `Sound` (`KnownRefused`, `NewRefused`).

**The lowering** (`ControlFlowProofs`). `Lands`, `DefersRun` and `Reversed` hold for
every set `Families` and every bound, so for programs of any length, nesting and number
of defers, and use nothing of what the checker does. What execution does is hard to
induct over, because a program is not fixed at the start, so the invariant is about
code. An annotation gives each basic block the
state it is entered with (`want`: the source blocks entered and, for each, the defers
reached and not yet run) and says which control can reach (`live`). `Annotated` asks that
each live block leads from its own state to one state, without ever running a body that
is not due (`Leads`, `Sound`), and that its targets are live and want that state; then
execution can only follow the annotation (`Underway`), and the three properties are read
off it (`FlowShows`).

While the function is being read (`Lowers`) three more things must fit. The blocks that
the constructs still open wait for (`Awaited`: what comes after, an else, the next case,
the step of a loop) are untouched, and wanted in the state the construct began in
(`Expected`). The state at the point being lowered is the stack of open blocks with
their pending defers (`Due`), unless it is dead code (`Reaches`). And the three stacks
agree (`FramesFit`, `LoopsFit`, `WaitsFit`): `base` places the cleanup frames of each
open block, so that a `break` that cleans up from the recorded depth runs precisely the
blocks inside the loop. Cleanup frames are empty wherever control can be: a flush
only fills them right before an exit, and behind that the code is dead (`LiveStack`).
There is a lemma for each way to go on (`Statement` for one that stays in the block,
`Push` for opening, `Pop` for closing) and then one for each construct, each of which
computes the blocks it emits and shows what the lemma asks.

**The checker** (`CheckerProofs`). `LiveReads` shows `ReadsLive` for every
program. The checker's sets follow the source text, so the proof has to carry what they
say to every path through the emitted blocks. A hazard (here: the local may be dead) is
followed through the code as a set of points, closed under what passes it on: the
instructions that do not end it, and the edges of each terminator (`Flowing`). For each
construct still open, a view says where the hazard may be known to hold when control
comes back: before it began, behind it, in its next branch (`Kept`). One lemma for each
statement and construct computes the blocks it emits and extends the set, whatever the
hazard (`SteadyKept`, `LeaveKept`, `IfKeeps`, `LoopKeeps`, `CloseKeeps`). What is left
to show for a property is that the checker's facts say enough for the views
(`LocalReads`): a local dead on some path is in one of the two sets at every point read
later, except behind the three constructs that the property names.

`FallsAccounted` shows `FallsOnlyWhereMiscounted`. Its hazard is control itself, which
holds from the start, and which only the edge out of a condition that is true bars. The
checker walks a tree and the lowering emits blocks, so first their stacks are related:
each construct the checker has open is the one the lowering has open at that depth, with
the same part, the same branches to come and the same breaks (`Paired`). Then the view
follows from the checker's stack: control comes to the point being read unless
`exprAlwaysTerminates` says that something read before it ended (`Alive`), and it comes
behind a construct that is open only out of what is left of it (`Shut`). The lemma for
the end of a construct (`FallShrinks`) is where the two ways of counting differ, a
for-in loop and an `else (condition)`.

`ProofsKept` shows `ProofsHold`. Its hazard is that the pointer is null: it may be so
from the start, a write of null starts it, a write of a value ends it, and the edges of
the branches on it bar it. Null may come to the point being read only through
constructs that say nothing against it (`Wild`): none was entered with a proof, has a
condition that proves the pointer in the branch being read (`Narrowed`), or has ended
before. It comes behind a construct out of the branch being read or those that follow,
unless the other branches lead nowhere or bar it (`ShutNull`). Two things are needed
besides `Paired`. A proof held now was there when the construct began, or is its
condition's (`Grounded`); a proof kept after an `if` inside another construct would break
this, which is why `ProofsHold` excepts it. And a proof kept by an early exit
(`KeepsProof`) shuts the branch that leaves (`NullShrinks`), except in the body of an
`else (condition)`, whose condition may also fail. A write inside a construct is excepted
because what was concluded before it, and the branches still to come, rest on the
pointer as it was.

**The virtual machine** (also `MemoryProofs`). `Parity` shows `MatchesNative` for every
program of the modelled statements, any number of them and any depth of calls, where
TLC checks the functions of `MCMemory` and three frames. The assumptions are
`ImmediateAssumption` and `ProgramAssumption`: the types are the four of the model,
`main` starts with a value for each of its variables and borrows nothing, literals have
no sign (the minus of a number is an operator). `MatchesNative` compares values only; to
be preserved it needs that a write to one variable reaches no other. So `Good` says in
addition where the slots are (`Stacked`): those of a function lie apart within its
frame, its frame above its caller's, with the result pointer and the caller's structs
below; that each value has the shape of its type, and that a borrow points to a struct
of a function further down that has a value (`Shaped`, `Fitting`); and that memory
represents each value that is set (`Held`). Three lemmas change a good state: `GoodPut`
writes one slot, `GoodPush` enters a function, `GoodPop` leaves one. A borrow only
points down, so leaving a function leaves none dangling. Each statement is then a
sequence of those: a call enters, fills the parameters one by one (`EnterKeeps`, by
induction over the parameters) and pushes; a return copies a struct through the result
pointer into the caller's variable and pops; a jump pops and enters at the same depth,
which is why a struct passed by a jump has to be among the excluded `uses`.

Some proved facts are no property of a run, because no bug in a mapped definition
breaks them alone: the type invariants, `OneSubmitter`,
`NoneForgotten` and `FramesNested`.

## 8. Checked only, or not at all

* Liveness (`SubmittedRuns`, `DestructorReturns`, `AnalysisReturns`, `Terminates`)
  stays with TLC: the proof system has no rules for fairness and `ENABLED` here. Every
  other property that a passing run checks has a theorem.
* Frontend context: C headers, assets, virtual sources, the standard
  library's lookup. After the rounds `analyze()` builds every module without a failed
  import a second time, with the macros of its imports (`session/frontend-context.cpp:231`),
  whether it uses any or not; that changes neither the text a module is of, nor the cache,
  nor a lock, and is left out.
* The order inside one step: `Rollback` of the arena does not tell whether destructors
  run before the blocks are freed, and validation of a lockfile meets no edit of a
  manifest between two manifests it reads.
* Values on which the VM and native code are known to differ (`uses`) end the
  comparison of `MatchesNative`; and what a session stores when a source changes between
  the two times it reads it is modelled, but `OnlyImportsStale` excludes it.
* Persistent cache: `Store::invalidate()`, which only tests call, and a registry line
  that does not parse.
* Virtual machine: branches and loops (`ControlFlow` has those), arrays, slices,
  optionals, unions, `dyn` and `opaque` values, externs, the validation of a module,
  heap blocks between frames (`LinearMemory` has those) and exhaustion of the memory.
* Allocation failure is left out of all models: `operator new` succeeds. Builds do
  not throw and do not return null.
* Contents of artifacts, metrics and messages are left out throughout.
