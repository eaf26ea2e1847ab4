------------------------ MODULE FrontendContextProofs ------------------------
(***************************************************************************)
(* The frontend context, for any number of threads, editors and modules:   *)
(* it is a caller of the module cache like any other, and its snapshots    *)
(* are closed under imports and true to overlays and files.                *)
(***************************************************************************)
EXTENDS FrontendContext, TLAPS

CacheProofs == INSTANCE ModuleCacheProofs WITH
    CacheKeys <- {CacheId}, Fingerprints <- Texts, Clients <- Threads \X Paths,
    DependencySets <- [p \in Paths |-> {Imports[p][x] : x \in Texts}]
-----------------------------------------------------------------------------
LEMMA SameNoted ==
    ASSUME NEW p, NEW x
    PROVE  Cache!Noted(p, x) <=> CacheProofs!Noted(p, x)
BY DEF Cache!Noted, CacheProofs!Noted, Cache!Invalidated, CacheProofs!Invalidated,
       Cache!Dependents, CacheProofs!Dependents, Cache!ClosedUnderDependents,
       CacheProofs!ClosedUnderDependents, Cache!Cardinality, CacheProofs!Cardinality

LEMMA SameNext == Cache!Next <=> CacheProofs!Next
BY DEF Cache!Next, CacheProofs!Next, Cache!CacheCall, CacheProofs!CacheCall,
  Cache!BuildStep, CacheProofs!BuildStep, Cache!GetOrBuild, CacheProofs!GetOrBuild,
  Cache!NoteSource, CacheProofs!NoteSource, Cache!Invalidate, CacheProofs!Invalidate,
  Cache!UpdateDependencies, CacheProofs!UpdateDependencies, Cache!Publish, CacheProofs!Publish,
  Cache!Fulfil, CacheProofs!Fulfil, Cache!Submit, CacheProofs!Submit, Cache!Receive, CacheProofs!Receive,
  Cache!Noted, CacheProofs!Noted, Cache!Invalidated, CacheProofs!Invalidated,
       Cache!Dependents, CacheProofs!Dependents, Cache!ClosedUnderDependents,
       CacheProofs!ClosedUnderDependents, Cache!Cardinality, CacheProofs!Cardinality, Cache!StartBuild, CacheProofs!StartBuild, Cache!Free, CacheProofs!Free,
  Cache!Holds, CacheProofs!Holds, Cache!Idle, CacheProofs!Idle, Cache!Fulfilled, CacheProofs!Fulfilled,
  Cache!Publishable, CacheProofs!Publishable, Cache!Keys, CacheProofs!Keys

-----------------------------------------------------------------------------
(***************************************************************************)
(* The local state of one analysis.                                        *)
(***************************************************************************)
Local == [stage : Stages, pending : Sources, batch : Sources, futures : Sources,
          modules : Sources, todo : SUBSET Paths, want : Paths \cup {None}]

\* Every import of the modules in S has a source in this analysis, analysed or
\* among the paths of `more`.
Covered(r, S, more) == \A m \in S : Imports[m][r.modules[m]] \subseteq Known(r.modules) \cup more

\* What holds in each stage of analyze(); "load" is the middle of analyzeFile()
\* when there is no batch yet, and of a Resolve otherwise.
Resolving(r) ==
    /\ r.todo \subseteq Known(r.batch) /\ Known(r.batch) \subseteq Known(r.modules)
    /\ Known(r.batch) # {}
    /\ Covered(r, Known(r.modules) \ r.todo, Known(r.pending))

Advancing(r) ==
    CASE r.stage \in {"note", "request"} ->
            r.todo \subseteq Known(r.batch) /\ Covered(r, Known(r.modules), Known(r.batch))
      [] r.stage = "collect" ->
            /\ r.todo \subseteq Known(r.batch) /\ Known(r.batch) \subseteq Known(r.modules) \cup r.todo
            /\ Known(r.batch) # {}
            /\ Covered(r, Known(r.modules) \ Known(r.batch), Known(r.batch))
      [] r.stage = "resolve" -> Resolving(r)
      [] r.stage = "load" ->
            /\ r.want \in Paths
            /\ IF Known(r.batch) = {} THEN Known(r.modules) = {} ELSE Resolving(r)
      [] r.stage = "record" -> r.todo \subseteq Known(r.modules) /\ Covered(r, Known(r.modules), {})
      [] OTHER -> Covered(r, Known(r.modules), {})

\* A thread in state r may hold the future of p.
MayHold(r, p) ==
    /\ p \in Known(r.batch)
    /\ \/ r.stage = "request" /\ p \notin r.todo
       \/ r.stage = "collect" /\ p \in r.todo

\* A future delivers the text its thread asked for.
Promised(r) == \A p \in Paths : MayHold(r, p) => r.futures[p] = r.batch[p]

Good(r) == r \in Local /\ Advancing(r) /\ Promised(r)

LEMMA NextRoundGood ==
    ASSUME ContextAssumption, NEW r \in Local, Covered(r, Known(r.modules), Known(r.pending))
    PROVE  Good(NextRound(r))
<1> DEFINE fresh == Known(r.pending) \ Known(r.modules)
           batch == [p \in Paths |-> IF p \in fresh THEN r.pending[p] ELSE None]
<1>0. /\ NoModules \in Sources /\ fresh \in SUBSET Paths /\ Known(r.modules) \in SUBSET Paths
      /\ "note" \in Stages /\ "record" \in Stages
  BY DEF NoModules, Sources, Known, Stages
<1> HIDE DEF fresh, batch
<1>1. CASE fresh = {}
  <2>1. NextRound(r) = [r EXCEPT !.batch = NoModules, !.pending = NoModules, !.stage = "record",
                                 !.todo = Known(r.modules)]
    BY <1>1 DEF NextRound, Goto, Local, fresh
  <2>2. NextRound(r) \in Local
    BY <1>0, <2>1 DEF Local
  <2>3. /\ NextRound(r).modules = r.modules /\ NextRound(r).stage = "record"
        /\ NextRound(r).todo = Known(r.modules)
    BY <2>1 DEF Local
  <2> QED
    BY <1>1, <2>2, <2>3 DEF Good, Advancing, Covered, Promised, MayHold, fresh
<1>2. CASE fresh # {}
  <2>1. NextRound(r) = [r EXCEPT !.batch = batch, !.pending = NoModules, !.stage = "note",
                                 !.todo = fresh]
    BY <1>2 DEF NextRound, Goto, Local, fresh, batch
  <2>2. batch \in Sources /\ Known(batch) = fresh
    BY DEF Sources, Known, Local, fresh, batch
  <2>3. NextRound(r) \in Local
    BY <1>0, <2>1, <2>2 DEF Local
  <2>4. /\ NextRound(r).modules = r.modules /\ NextRound(r).stage = "note"
        /\ NextRound(r).todo = fresh /\ NextRound(r).batch = batch
    BY <2>1 DEF Local
  <2> QED
    BY <1>2, <2>2, <2>3, <2>4 DEF Good, Advancing, Covered, Promised, MayHold, fresh
<1> QED
  BY <1>1, <1>2

\* A source that was read joins the pending modules.
LEMMA LoadedGood ==
    ASSUME ContextAssumption, NEW r \in Local, NEW p \in Paths, NEW x \in Texts,
           IF Known(r.batch) = {} THEN Known(r.modules) = {} ELSE Resolving(r)
    PROVE  Good(Loaded(r, p, x))
<1> DEFINE got == [r EXCEPT !.want = None,
                            !.pending[p] = IF @ = None /\ r.modules[p] = None THEN x ELSE @]
<1>1. /\ got \in Local /\ got.modules = r.modules /\ got.batch = r.batch /\ got.todo = r.todo
      /\ \A q \in Paths : q # p => got.pending[q] = r.pending[q]
      /\ got.pending[p] = IF r.pending[p] = None /\ r.modules[p] = None THEN x ELSE r.pending[p]
  BY DEF Local, Sources
<1>2. Known(r.pending) \subseteq Known(got.pending)
  BY <1>1 DEF Known
<1>3. CASE Known(r.batch) = {}
  <2>1. Covered(got, Known(got.modules), Known(got.pending))
    BY <1>1, <1>3 DEF Covered
  <2> QED
    BY <1>1, <1>3, <2>1, NextRoundGood DEF Loaded
<1>4. CASE Known(r.batch) # {}
  <2> DEFINE l == Loaded(r, p, x)
  <2>1. l = [got EXCEPT !.stage = "resolve", !.todo = r.todo]
    BY <1>4 DEF Loaded, Goto, Local
  <2>2. l \in Local
    BY <1>1, <2>1 DEF Local, Stages
  <2>3. /\ l.stage = "resolve" /\ l.modules = r.modules /\ l.batch = r.batch /\ l.todo = r.todo
        /\ l.pending = got.pending
    BY <1>1, <2>1 DEF Local
  <2>4. Resolving(l)
    BY <1>2, <1>4, <2>3 DEF Resolving, Covered
  <2> QED
    BY <2>2, <2>3, <2>4 DEF Good, Advancing, Promised, MayHold
<1> QED
  BY <1>3, <1>4

\* Neither of the two makes up a text.
LEMMA NextRoundKeeps ==
    ASSUME NEW r \in Local
    PROVE  /\ NextRound(r).modules = r.modules
           /\ NextRound(r).pending = NoModules /\ NextRound(r).stage \in {"note", "record"}
           /\ \A p \in Paths : NextRound(r).batch[p] \in {None, r.pending[p]}
<1> DEFINE fresh == Known(r.pending) \ Known(r.modules)
           batch == [p \in Paths |-> IF p \in fresh THEN r.pending[p] ELSE None]
<1>1. CASE fresh = {}
  <2>1. NextRound(r) = [r EXCEPT !.batch = NoModules, !.pending = NoModules, !.stage = "record",
                                 !.todo = Known(r.modules)]
    BY <1>1 DEF NextRound, Goto, Local
  <2> QED
    BY <2>1 DEF Local, NoModules
<1>2. CASE fresh # {}
  <2>1. NextRound(r) = [r EXCEPT !.batch = batch, !.pending = NoModules, !.stage = "note",
                                 !.todo = fresh]
    BY <1>2 DEF NextRound, Goto, Local
  <2> QED
    BY <2>1 DEF Local, NoModules
<1> QED
  BY <1>1, <1>2

LEMMA LoadedKeeps ==
    ASSUME NEW r \in Local, NEW p \in Paths, NEW x \in Texts
    PROVE  /\ Loaded(r, p, x).modules = r.modules
           /\ Loaded(r, p, x).stage \in {"note", "record", "resolve"}
           /\ \A q \in Paths :
                /\ Loaded(r, p, x).batch[q] \in {None, r.batch[q], r.pending[q]}
                                                \cup (IF q = p THEN {x} ELSE {})
                /\ Loaded(r, p, x).pending[q] \in {None, r.pending[q]}
                                                  \cup (IF q = p THEN {x} ELSE {})
<1> DEFINE got == [r EXCEPT !.want = None,
                            !.pending[p] = IF @ = None /\ r.modules[p] = None THEN x ELSE @]
<1>1. /\ got \in Local /\ got.modules = r.modules /\ got.batch = r.batch /\ got.todo = r.todo
      /\ \A q \in Paths : q # p => got.pending[q] = r.pending[q]
      /\ got.pending[p] \in {x, r.pending[p]}
  BY DEF Local, Sources
<1> HIDE DEF got
<1>2. CASE Known(r.batch) = {}
  <2>1. Loaded(r, p, x) = NextRound(got)
    BY <1>1, <1>2 DEF Loaded, got
  <2> QED
    BY <1>1, <2>1, NextRoundKeeps DEF NoModules
<1>3. CASE Known(r.batch) # {}
  <2>1. Loaded(r, p, x) = [got EXCEPT !.stage = "resolve", !.todo = r.todo]
    BY <1>3 DEF Loaded, Goto, Local, got
  <2> QED
    BY <1>1, <2>1 DEF Local
<1> QED
  BY <1>2, <1>3

\* A loop is done with one of its modules.
LEMMA DoneKeeps ==
    ASSUME NEW r \in Local, NEW p \in r.todo, NEW stage \in Stages, NEW next \in SUBSET Paths
    PROVE  /\ Done(r, p, stage, next) \in Local
           /\ Done(r, p, stage, next).modules = r.modules /\ Done(r, p, stage, next).batch = r.batch
           /\ Done(r, p, stage, next).pending = r.pending
           /\ Done(r, p, stage, next).futures = r.futures
           /\ Done(r, p, stage, next).want = r.want
           /\ r.todo = {p} => /\ Done(r, p, stage, next).stage = stage
                              /\ Done(r, p, stage, next).todo = next
           /\ r.todo # {p} => /\ Done(r, p, stage, next).stage = r.stage
                              /\ Done(r, p, stage, next).todo = r.todo \ {p}
<1>1. CASE r.todo = {p}
  BY <1>1 DEF Done, Goto, Local
<1>2. CASE r.todo # {p}
  BY <1>2 DEF Done, Goto, Local
<1> QED
  BY <1>1, <1>2

-----------------------------------------------------------------------------
(***************************************************************************)
(* The types of the context's own state, and the stages of its threads.    *)
(***************************************************************************)
Calls == {IdleEditor} \cup [call : {"note"}, path : Paths, text : Texts]
         \cup [call : {"invalidate"}, path : Paths]

Typed ==
    /\ disk \in [Paths -> Texts] /\ overlay \in Sources
    /\ editor \in [Editors -> Calls] /\ edits \in Nat

Threaded == thread \in [Threads -> Local] /\ \A t \in Threads : Good(thread[t])

LocalInv == Typed /\ Threaded

LEMMA RestingGood ==
    ASSUME ContextAssumption
    PROVE  /\ Resting \in Local /\ Resting.stage = "idle" /\ Resting.batch = NoModules
           /\ Resting.modules = NoModules /\ Resting.pending = NoModules
           /\ Known(Resting.batch) = {} /\ Known(Resting.modules) = {} /\ Good(Resting)
<1>1. NoModules \in Sources /\ Known(NoModules) = {}
  BY DEF NoModules, Sources, Known
<1>2. Resting \in Local
  BY <1>1 DEF Resting, Local, Stages
<1>3. Known(Resting.modules) = {} /\ Known(Resting.batch) = {} /\ Resting.stage = "idle"
  BY <1>1 DEF Resting
<1>4. Advancing(Resting) /\ Promised(Resting)
  BY <1>3 DEF Advancing, Covered, Promised, MayHold
<1> QED
  BY <1>2, <1>3, <1>4 DEF Good, Resting

\* A thread's step is one of its record.
LEMMA ThreadedStep ==
    ASSUME Threaded, NEW t \in Threads, NEW r, Good(r), thread' = [thread EXCEPT ![t] = r]
    PROVE  Threaded' /\ thread'[t] = r /\ \A s \in Threads : s # t => thread'[s] = thread[s]
<1>1. /\ thread' \in [Threads -> Local] /\ thread'[t] = r
      /\ \A s \in Threads : s # t => thread'[s] = thread[s]
  BY DEF Threaded, Good
<1>2. \A s \in Threads : Good(thread'[s])
  BY <1>1 DEF Threaded
<1> QED
  BY <1>1, <1>2 DEF Threaded

\* sourceForPath(), from either of its places.
LEMMA ReadGood ==
    ASSUME ContextAssumption, LocalInv, NEW t \in Threads, NEW r \in Local, NEW p \in Paths,
           IF Known(r.batch) = {} THEN Known(r.modules) = {} ELSE Resolving(r),
           ReadSource(t, r, p)
    PROVE  \E s : Good(s) /\ thread' = [thread EXCEPT ![t] = s]
<1>1. CASE overlay[p] # None
  <2>1. overlay[p] \in Texts
    BY <1>1 DEF LocalInv, Typed, Sources
  <2> QED
    BY <1>1, <2>1, LoadedGood DEF ReadSource
<1>2. CASE overlay[p] = None
  <2> DEFINE s == [r EXCEPT !.stage = "load", !.want = p]
  <2>1. /\ s \in Local /\ s.stage = "load" /\ s.want = p /\ s.batch = r.batch
        /\ s.modules = r.modules /\ s.todo = r.todo /\ s.pending = r.pending
    BY DEF Local, Stages
  <2>2. IF Known(s.batch) = {} THEN Known(s.modules) = {} ELSE Resolving(s)
    BY <2>1 DEF Resolving, Covered
  <2>3. Good(s)
    BY <2>1, <2>2 DEF Good, Advancing, Promised, MayHold
  <2> QED
    BY <1>2, <2>3 DEF ReadSource
<1> QED
  BY <1>1, <1>2

LEMMA DoneGood ==
    ASSUME ContextAssumption, NEW p \in Paths, NEW r, Good(r), p \in r.todo
    PROVE  /\ r.stage = "note" => Good(Done(r, p, "request", Known(r.batch)))
           /\ r.stage = "record" => Good(Done(r, p, "idle", {}))
<1>1. r \in Local /\ Advancing(r)
  BY DEF Good
<1>2. /\ {"request", "idle"} \subseteq Stages /\ Known(r.batch) \in SUBSET Paths
      /\ {} \in SUBSET Paths /\ r.todo \in SUBSET Paths
  BY <1>1 DEF Stages, Known, Local
<1>3. CASE r.stage = "note"
  <2> DEFINE d == Done(r, p, "request", Known(r.batch))
  <2>1. /\ d \in Local /\ d.todo \subseteq Known(r.batch)
        /\ \/ d.stage = "note"
           \/ d.stage = "request" /\ d.todo = Known(r.batch)
        /\ d.batch = r.batch /\ d.modules = r.modules
    BY <1>1, <1>2, <1>3, DoneKeeps DEF Advancing
  <2>2. Covered(d, Known(d.modules), Known(d.batch))
    BY <1>1, <1>3, <2>1 DEF Advancing, Covered
  <2>3. Good(d)
    BY <2>1, <2>2 DEF Good, Advancing, Promised, MayHold
  <2> QED
    BY <1>3, <2>3
<1>4. CASE r.stage = "record"
  <2> DEFINE d == Done(r, p, "idle", {})
  <2>1. /\ d \in Local /\ d.stage \in {"record", "idle"} /\ d.todo \subseteq r.todo
        /\ d.modules = r.modules
    BY <1>1, <1>2, <1>4, DoneKeeps
  <2>2. r.todo \subseteq Known(r.modules) /\ Covered(r, Known(r.modules), {})
    BY <1>1, <1>4 DEF Advancing
  <2>3. Covered(d, Known(d.modules), {}) /\ d.todo \subseteq Known(d.modules)
    BY <2>1, <2>2 DEF Covered
  <2>4. Good(d)
    BY <2>1, <2>3 DEF Good, Advancing, Promised, MayHold
  <2> QED
    BY <1>4, <2>4
<1> QED
  BY <1>3, <1>4

\* A thread that was given a future for the text of its batch.
Asked(r, p) == Done([r EXCEPT !.futures[p] = r.batch[p]], p, "collect", Known(r.batch))

LEMMA AskedGood ==
    ASSUME ContextAssumption, NEW p \in Paths, NEW r, Good(r), r.stage = "request", p \in r.todo
    PROVE  /\ Good(Asked(r, p)) /\ Asked(r, p).batch = r.batch /\ p \in Known(r.batch)
           /\ Asked(r, p).pending = r.pending /\ Asked(r, p).modules = r.modules
           /\ r.todo = {p} => /\ Asked(r, p).stage = "collect"
                              /\ Asked(r, p).todo = Known(r.batch)
           /\ r.todo # {p} => /\ Asked(r, p).stage = "request"
                              /\ Asked(r, p).todo = r.todo \ {p}
<1> DEFINE g == [r EXCEPT !.futures[p] = r.batch[p]]
           d == Asked(r, p)
<1>1. /\ r \in Local /\ r.todo \subseteq Known(r.batch) /\ Promised(r)
      /\ Covered(r, Known(r.modules), Known(r.batch))
  BY DEF Good, Advancing
<1>2. /\ g \in Local /\ g.batch = r.batch /\ g.pending = r.pending /\ g.modules = r.modules
      /\ g.todo = r.todo /\ g.stage = "request" /\ g.futures = [r.futures EXCEPT ![p] = r.batch[p]]
  BY <1>1 DEF Local, Sources
<1>3. /\ "collect" \in Stages /\ Known(r.batch) \in SUBSET Paths
      /\ d = Done(g, p, "collect", Known(r.batch))
  BY <1>1 DEF Stages, Known, Local, Asked
<1> HIDE DEF g, d
<1>4. /\ d \in Local /\ d.batch = r.batch /\ d.pending = r.pending /\ d.modules = r.modules
      /\ d.futures = [r.futures EXCEPT ![p] = r.batch[p]]
      /\ r.todo = {p} => d.stage = "collect" /\ d.todo = Known(r.batch)
      /\ r.todo # {p} => d.stage = "request" /\ d.todo = r.todo \ {p}
  BY <1>2, <1>3, DoneKeeps
<1>5. /\ d.futures[p] = r.batch[p]
      /\ \A q \in Paths : q # p => d.futures[q] = r.futures[q]
  BY <1>1, <1>4 DEF Local, Sources
<1>6. Promised(d)
  <2> SUFFICES ASSUME NEW q \in Paths, MayHold(d, q), q # p
               PROVE  r.futures[q] = r.batch[q]
    BY <1>4, <1>5 DEF Promised
  <2>1. MayHold(r, q)
    BY <1>1, <1>4 DEF MayHold
  <2> QED
    BY <1>1, <2>1 DEF Promised
<1>7. Advancing(d)
  <2>1. CASE r.todo = {p}
    <3>1. /\ Covered(d, Known(d.modules) \ Known(d.batch), Known(d.batch)) /\ Known(d.batch) # {}
          /\ d.stage = "collect" /\ d.todo = Known(d.batch)
      BY <1>1, <1>4, <2>1 DEF Covered
    <3> QED
      BY <3>1 DEF Advancing
  <2>2. CASE r.todo # {p}
    <3>1. /\ Covered(d, Known(d.modules), Known(d.batch))
          /\ d.stage = "request" /\ d.todo \subseteq Known(d.batch)
      BY <1>1, <1>4, <2>2 DEF Covered
    <3> QED
      BY <3>1 DEF Advancing
  <2> QED
    BY <2>1, <2>2
<1> QED
  BY <1>1, <1>4, <1>6, <1>7 DEF Good, d

\* A collected module is the one its future delivers, in the text of its batch.
Collected(r, p) ==
    Done([r EXCEPT !.modules[p] = r.futures[p], !.futures[p] = None], p, "resolve", Known(r.batch))

LEMMA CollectedGood ==
    ASSUME ContextAssumption, NEW r, Good(r), r.stage = "collect", NEW p \in r.todo
    PROVE  /\ Good(Collected(r, p)) /\ Collected(r, p).batch = r.batch
           /\ Collected(r, p).pending = r.pending
           /\ Collected(r, p).modules = [r.modules EXCEPT ![p] = r.batch[p]]
           /\ r.todo = {p} => Collected(r, p).stage = "resolve"
           /\ r.todo # {p} => /\ Collected(r, p).stage = "collect"
                              /\ Collected(r, p).todo = r.todo \ {p}
<1> DEFINE g == [r EXCEPT !.modules[p] = r.futures[p], !.futures[p] = None]
           d == Collected(r, p)
<1>1. r \in Local /\ p \in Paths
  BY DEF Good, Local
<1>2. /\ r.todo \subseteq Known(r.batch) /\ Known(r.batch) \subseteq Known(r.modules) \cup r.todo
      /\ Known(r.batch) # {}
      /\ Covered(r, Known(r.modules) \ Known(r.batch), Known(r.batch))
      /\ Promised(r) /\ r.futures[p] = r.batch[p]
  BY <1>1 DEF Good, Advancing, Promised, MayHold
<1>3. /\ g \in Local /\ g.batch = r.batch /\ g.pending = r.pending
      /\ g.todo = r.todo /\ g.stage = "collect" /\ g.modules = [r.modules EXCEPT ![p] = r.batch[p]]
      /\ g.futures = [r.futures EXCEPT ![p] = None]
  BY <1>1, <1>2 DEF Local, Sources
<1>4. /\ "resolve" \in Stages /\ Known(r.batch) \in SUBSET Paths /\ d = Done(g, p, "resolve", Known(r.batch))
  BY <1>1 DEF Stages, Known, Local, Collected
<1> HIDE DEF g, d
<1>5. /\ d \in Local /\ d.batch = r.batch /\ d.pending = r.pending
      /\ d.futures = [r.futures EXCEPT ![p] = None]
      /\ d.modules = [r.modules EXCEPT ![p] = r.batch[p]]
      /\ r.todo = {p} => d.stage = "resolve" /\ d.todo = Known(r.batch)
      /\ r.todo # {p} => d.stage = "collect" /\ d.todo = r.todo \ {p}
  BY <1>3, <1>4, DoneKeeps
<1>6. p \in Known(r.batch) /\ r.modules \in [Paths -> Texts \cup {None}]
  BY <1>1, <1>2 DEF Local, Sources
<1>7. /\ Known(d.modules) = Known(r.modules) \cup {p}
      /\ \A m \in Known(r.modules) \ Known(r.batch) : d.modules[m] = r.modules[m]
  BY <1>5, <1>6 DEF Known
<1>8. Covered(d, Known(d.modules) \ Known(d.batch), Known(d.batch))
  BY <1>2, <1>5, <1>6, <1>7 DEF Covered
<1>10. Promised(d)
  <2> SUFFICES ASSUME NEW q \in Paths, MayHold(d, q)
               PROVE  d.futures[q] = r.batch[q]
    BY <1>5 DEF Promised
  <2>1. q # p /\ MayHold(r, q)
    BY <1>1, <1>2, <1>5 DEF MayHold
  <2> QED
    BY <1>1, <1>2, <1>5, <2>1 DEF Promised, Local, Sources
<1>9. Good(d)
  <2>1. CASE r.todo = {p}
    <3>1. Known(d.batch) \subseteq Known(d.modules) /\ d.todo = Known(d.batch) /\ d.stage = "resolve"
      BY <1>2, <1>5, <1>7, <2>1
    <3>2. Resolving(d)
      BY <1>2, <1>5, <1>8, <3>1 DEF Resolving, Covered
    <3> QED
      BY <1>5, <1>10, <3>1, <3>2 DEF Good, Advancing
  <2>2. CASE r.todo # {p}
    <3>1. /\ d.todo \subseteq Known(d.batch) /\ Known(d.batch) \subseteq Known(d.modules) \cup d.todo
          /\ d.stage = "collect"
      BY <1>2, <1>5, <1>7, <2>2
    <3> QED
      BY <1>2, <1>5, <1>8, <1>10, <3>1 DEF Good, Advancing
  <2> QED
    BY <2>1, <2>2
<1> QED
  BY <1>5, <1>9 DEF d

\* The end of the imports of one module.
LEMMA ResolvedGood ==
    ASSUME ContextAssumption, LocalInv, NEW t \in Threads, NEW m \in Paths, Resolved(t, m)
    PROVE  \E s : Good(s) /\ thread' = [thread EXCEPT ![t] = s]
<1> DEFINE r == thread[t]
<1>1. r \in Local /\ Resolving(r)
  BY DEF LocalInv, Threaded, Good, Resolved, At, Advancing
<1>2. m \in r.todo /\ Unread(r, m) = {}
  BY DEF Resolved
<1>3. Covered(r, Known(r.modules) \ (r.todo \ {m}), Known(r.pending))
  BY <1>1, <1>2 DEF Resolving, Covered, Unread
<1>4. CASE r.todo = {m}
  <2>1. Covered(r, Known(r.modules), Known(r.pending))
    BY <1>3, <1>4 DEF Covered
  <2>2. Good(NextRound(r))
    BY <1>1, <2>1, NextRoundGood
  <2> QED
    BY <1>4, <2>2 DEF Resolved, AllRead
<1>5. CASE r.todo # {m}
  <2> DEFINE s == Goto(r, "resolve", r.todo \ {m})
  <2>1. /\ s \in Local /\ s.stage = "resolve" /\ s.todo = r.todo \ {m} /\ s.batch = r.batch
        /\ s.modules = r.modules /\ s.pending = r.pending
    BY <1>1 DEF Local, Stages, Goto
  <2>2. Resolving(s)
    BY <1>1, <1>3, <2>1 DEF Resolving, Covered
  <2>3. Good(s)
    BY <2>1, <2>2 DEF Good, Advancing, Promised, MayHold
  <2> QED
    BY <1>5, <2>3 DEF Resolved, AllRead
<1> QED
  BY <1>4, <1>5

LEMMA InitLocal == ASSUME ContextAssumption PROVE Init => LocalInv
<1> SUFFICES ASSUME Init PROVE LocalInv
  OBVIOUS
<1>1. Typed
  BY DEF Init, Typed, Sources, Calls, IdleEditor
<1>2. Good(Resting)
  BY RestingGood
<1> QED
  BY <1>1, <1>2 DEF Init, LocalInv, Threaded, Good

-----------------------------------------------------------------------------
(***************************************************************************)
(* The context calls the cache as ModuleCache says a caller may, so what   *)
(* is proved of the cache holds of the cache of a context.                 *)
(***************************************************************************)
LEMMA CacheAssumptions ==
    ASSUME ContextAssumption
    PROVE  /\ CacheProofs!PathsAssumption /\ CacheProofs!NoneAssumption
           /\ CacheProofs!DependencySetsAssumption /\ CacheProofs!MaxEpochAssumption
<1>1. CacheProofs!DependencySetsAssumption
  BY DEF ContextAssumption, ImportsAssumption, CacheProofs!DependencySetsAssumption
<1>2. CacheProofs!PathsAssumption
  BY DEF ContextAssumption, Cache!PathsAssumption, CacheProofs!PathsAssumption,
         Cache!IsFiniteSet, CacheProofs!IsFiniteSet
<1>3. CacheProofs!NoneAssumption /\ CacheProofs!MaxEpochAssumption
  BY DEF ContextAssumption, Cache!NoneAssumption, CacheProofs!NoneAssumption, Cache!Keys,
         CacheProofs!Keys, Cache!MaxEpochAssumption, CacheProofs!MaxEpochAssumption
<1> QED
  BY <1>1, <1>2, <1>3

\* A revision that is noted is a call of noteSource(), or changes nothing.
LEMMA NotedCall ==
    ASSUME NEW p \in Paths, NEW x \in Texts, Cache!Noted(p, x),
           UNCHANGED <<inFlight, deps, rdeps, build, client>>
    PROVE  Cache!Next \/ UNCHANGED cacheVars
<1>1. CASE current[p] = x
  BY <1>1 DEF Cache!Noted, cacheVars
<1>2. CASE current[p] # x
  <2>1. Cache!NoteSource(p, x)
    BY <1>2 DEF Cache!NoteSource
  <2> QED
    BY <2>1 DEF Cache!Next, Cache!CacheCall
<1> QED
  BY <1>1, <1>2

LEMMA StepCallsCache ==
    ASSUME ContextAssumption, LocalInv, [Next]_vars
    PROVE  Cache!Next \/ UNCHANGED cacheVars
<1>1. ASSUME NEW t \in Threads, AnalysisStep(t)
      PROVE  Cache!Next \/ UNCHANGED cacheVars
  <2> DEFINE r == thread[t]
  <2>0. r \in Local /\ Advancing(r)
    BY DEF LocalInv, Threaded, Good
  <2>1. ASSUME NEW p \in r.todo, At(t, "note") \/ At(t, "request")
        PROVE  r.batch[p] \in Texts
    <3>1. p \in Known(r.batch)
      BY <2>0, <2>1 DEF Advancing, At
    <3> QED
      BY <2>0, <3>1 DEF Known, Local, Sources
  <2>2. CASE LoadFile(t)
    BY <2>2 DEF LoadFile
  <2>3. ASSUME NEW p \in Paths, Note(t, p) PROVE Cache!Next \/ UNCHANGED cacheVars
    <3>1. r.batch[p] \in Texts
      BY <2>1, <2>3 DEF Note
    <3> QED
      BY <2>3, <3>1, NotedCall DEF Note
  <2>4. ASSUME NEW p \in Paths, Request(t, p) PROVE Cache!Next
    <3>1. r.batch[p] \in Texts
      BY <2>1, <2>4 DEF Request, Ask
    <3>2. Key(p, r.batch[p]) \in Cache!Keys
      BY <3>1 DEF Key, Cache!Keys
    <3>3. <<t, p>> \in Threads \X Paths
      OBVIOUS
    <3> QED
      BY <2>4, <3>2, <3>3 DEF Request, Ask, Cache!Next, Cache!CacheCall
  <2>5. ASSUME NEW p \in Paths, Submit(t, p) \/ Collect(t, p)
        PROVE  Cache!Next \/ UNCHANGED cacheVars
    <3>1. <<t, p>> \in Threads \X Paths
      OBVIOUS
    <3> QED
      BY <2>5, <3>1 DEF Submit, Collect, Cache!Next, Cache!BuildStep
  <2>6. ASSUME NEW m \in Paths, Resolve(t, m) \/ Resolved(t, m)
        PROVE  UNCHANGED cacheVars
    BY <2>6 DEF Resolve, Resolved
  <2>7. ASSUME NEW m \in Paths, Record(t, m) PROVE Cache!Next
    <3>1. m \in Known(r.modules)
      BY <2>0, <2>7 DEF Record, At, Advancing
    <3>2. r.modules[m] \in Texts
      BY <2>0, <3>1 DEF Known, Local, Sources
    <3>3. Imports[m][r.modules[m]] \in [q \in Paths |-> {Imports[q][x] : x \in Texts}][m]
      BY <3>2
    <3> QED
      BY <2>7, <3>3 DEF Record, Cache!Next, Cache!CacheCall
  <2> QED
    BY <1>1, <2>2, <2>3, <2>4, <2>5, <2>6, <2>7 DEF AnalysisStep
<1>2. ASSUME NEW e \in Editors, EditorStep(e)
      PROVE  Cache!Next \/ UNCHANGED cacheVars
  <2>0. editor[e] \in Calls
    BY DEF LocalInv, Typed
  <2>1. CASE NoteOverlay(e)
    <3>1. editor[e].path \in Paths /\ editor[e].text \in Texts
      BY <2>0, <2>1 DEF NoteOverlay, Calls, IdleEditor
    <3> QED
      BY <2>1, <3>1, NotedCall DEF NoteOverlay
  <2>2. CASE InvalidateRemoved(e)
    <3>1. editor[e].path \in Paths
      BY <2>0, <2>2 DEF InvalidateRemoved, Calls, IdleEditor
    <3> QED
      BY <2>2, <3>1 DEF InvalidateRemoved, Cache!Next, Cache!CacheCall
  <2> QED
    BY <1>2, <2>1, <2>2 DEF EditorStep
<1>3. ASSUME NEW p \in Paths, InvalidatePath(p)
      PROVE  Cache!Next
  BY <1>3 DEF InvalidatePath, Cache!Next, Cache!CacheCall
<1>4. CASE Worker
  BY <1>4 DEF Worker, Cache!Next, Cache!BuildStep
<1> QED
  BY <1>1, <1>2, <1>3, <1>4
  DEF Next, Analyze, AnalyzeText, SetOverlay, RemoveOverlay, WriteFile, Rest, vars

LEMMA CacheStep ==
    ASSUME ContextAssumption, LocalInv, [Next]_vars
    PROVE  [CacheProofs!Next]_(CacheProofs!vars)
BY StepCallsCache, SameNext DEF cacheVars, CacheProofs!vars

Caching == LocalInv /\ CacheProofs!IInv

Promises == [Builds -> Cache!Active \cup {Cache!Fulfilled}]
Holders  == [Threads \X Paths -> Cache!Holding \cup {Cache!Idle}]

LEMMA CacheFacts ==
    ASSUME Caching
    PROVE  build \in Promises /\ client \in Holders /\ Cache!InFlightExact
BY DEF Caching, CacheProofs!IInv, CacheProofs!TypeOK, CacheProofs!InFlightExact,
       Cache!InFlightExact, Promises, Holders, Cache!Active, CacheProofs!Active,
       Cache!Fulfilled, CacheProofs!Fulfilled, Cache!Holding, CacheProofs!Holding,
       Cache!Idle, CacheProofs!Idle, Cache!Keys, CacheProofs!Keys, Cache!Pending,
       CacheProofs!Pending

LEMMA CacheSubmitters ==
    ASSUME Caching, NEW c \in Threads \X Paths, client[c] # Cache!Idle,
           client[c].state = "submitting"
    PROVE  build[client[c].build] # Cache!Fulfilled
BY DEF Caching, CacheProofs!IInv, CacheProofs!OneSubmitter, Cache!Idle, CacheProofs!Idle,
       Cache!Fulfilled, CacheProofs!Fulfilled

\* The future that getOrBuild() returns delivers the text it was called with: a
\* hit compares fingerprints, and a build in flight is found under the text's key.
LEMMA RequestDelivers ==
    ASSUME Caching, NEW t \in Threads, NEW p \in Paths, Request(t, p), p \in Known(thread[t].batch)
    PROVE  Delivered(t, p)' = thread[t].batch[p]
<1> DEFINE c == <<t, p>>
           k == Key(p, thread[t].batch[p])
<1>0. /\ build \in Promises /\ client \in Holders /\ Cache!InFlightExact /\ c \in Threads \X Paths
      /\ LocalInv
  BY CacheFacts DEF Caching
<1>1. /\ Cache!GetOrBuild(c, k) /\ k.cache = CacheId /\ k.path = p /\ k.fp = thread[t].batch[p]
      /\ k \in Cache!Keys
  BY <1>0 DEF Request, Ask, Key, Cache!Keys, LocalInv, Threaded, Local, Sources, Known
<1>2. CASE artifacts'[k.cache][k.path] = k.fp /\ UNCHANGED client
  <2>1. client'[c] = Cache!Idle
    BY <1>1, <1>2 DEF Cache!GetOrBuild
  <2> QED
    BY <1>1, <1>2, <2>1 DEF Delivered, Cache!Idle
<1>3. CASE /\ inFlight[k] # None /\ UNCHANGED build
           /\ client' = [client EXCEPT ![c] = [state |-> "waiting", build |-> inFlight[k]]]
  <2>1. build[inFlight[k]].key = k
    BY <1>0, <1>1, <1>3 DEF Cache!InFlightExact
  <2>2. client'[c] = [state |-> "waiting", build |-> inFlight[k]]
    BY <1>0, <1>3 DEF Holders
  <2> QED
    BY <1>1, <1>3, <2>1, <2>2 DEF Delivered, Cache!Idle
<1>4. CASE \E b \in Cache!Free : Cache!StartBuild(c, k, b)
  <2>1. PICK b \in Cache!Free : Cache!StartBuild(c, k, b)
    BY <1>4
  <2>2. client'[c] = [state |-> "submitting", build |-> b] /\ build'[b].key = k
    BY <1>0, <2>1 DEF Cache!StartBuild, Cache!Free, Holders, Promises
  <2> QED
    BY <1>1, <2>2 DEF Delivered, Cache!Idle
<1> QED
  BY <1>1, <1>2, <1>3, <1>4 DEF Cache!GetOrBuild

LEMMA RequestAsks ==
    ASSUME ContextAssumption, Caching, NEW t \in Threads, NEW p \in Paths, Request(t, p)
    PROVE  thread' = [thread EXCEPT ![t] = Asked(thread[t], p)]
<1>1. Good(thread[t]) /\ thread[t].stage = "request" /\ p \in thread[t].todo
  BY DEF Caching, LocalInv, Threaded, Request, Ask, At
<1>2. p \in Known(thread[t].batch)
  BY <1>1, AskedGood
<1>3. Delivered(t, p)' = thread[t].batch[p]
  BY <1>2, RequestDelivers
<1> QED
  BY <1>3 DEF Request, Ask, Asked

LEMMA NextLocal == ASSUME ContextAssumption, Caching, [Next]_vars PROVE LocalInv'
<1>0. LocalInv
  BY DEF Caching
<1> DEFINE Steps(t) == \E s : Good(s) /\ thread' = [thread EXCEPT ![t] = s]
           Quiet == UNCHANGED <<disk, overlay, editor, edits>>
<1>1. ASSUME NEW t \in Threads, Steps(t), Quiet
      PROVE  LocalInv'
  <2>1. PICK s : Good(s) /\ thread' = [thread EXCEPT ![t] = s]
    BY <1>1
  <2>2. Threaded'
    BY <1>0, <2>1, ThreadedStep DEF LocalInv
  <2>3. Typed'
    BY <1>0, <1>1 DEF LocalInv, Typed
  <2> QED
    BY <2>2, <2>3 DEF LocalInv
<1>2. ASSUME NEW t \in Threads, AnalysisStep(t)
      PROVE  LocalInv'
  <2>0. thread[t] \in Local /\ Good(thread[t]) /\ Advancing(thread[t])
    BY <1>0 DEF LocalInv, Threaded, Good
  <2>1. CASE LoadFile(t)
    <3> DEFINE r == thread[t]
    <3>1. r.want \in Paths /\ IF Known(r.batch) = {} THEN Known(r.modules) = {} ELSE Resolving(r)
      BY <2>0, <2>1 DEF LoadFile, At, Advancing
    <3>2. disk[r.want] \in Texts
      BY <1>0, <3>1 DEF LocalInv, Typed
    <3>3. Good(Loaded(r, r.want, disk[r.want]))
      BY <2>0, <3>1, <3>2, LoadedGood
    <3>4. Steps(t) /\ Quiet
      BY <2>1, <3>3 DEF LoadFile
    <3> QED
      BY <3>4, <1>1
  <2>2. ASSUME NEW p \in Paths, Note(t, p) PROVE LocalInv'
    <3>1. Good(Done(thread[t], p, "request", Known(thread[t].batch)))
      BY <2>0, <2>2, DoneGood DEF Note, At
    <3>2. Steps(t) /\ Quiet
      BY <2>2, <3>1 DEF Note
    <3> QED
      BY <3>2, <1>1
  <2>3. ASSUME NEW p \in Paths, Request(t, p) PROVE LocalInv'
    <3>1. Good(Asked(thread[t], p)) /\ thread' = [thread EXCEPT ![t] = Asked(thread[t], p)]
      BY <2>0, <2>3, AskedGood, RequestAsks DEF Request, Ask, At
    <3>2. Steps(t) /\ Quiet
      BY <2>3, <3>1 DEF Request, Ask
    <3> QED
      BY <3>2, <1>1
  <2>4. ASSUME NEW p \in Paths, Submit(t, p) PROVE LocalInv'
    BY <1>0, <2>4 DEF Submit, ownVars, LocalInv, Typed, Threaded
  <2>5. ASSUME NEW p \in Paths, Collect(t, p) PROVE LocalInv'
    <3>1. Good(Collected(thread[t], p))
      BY <2>0, <2>5, CollectedGood DEF Collect, At
    <3>2. Steps(t) /\ Quiet
      BY <2>5, <3>1 DEF Collect, Collected
    <3> QED
      BY <3>2, <1>1
  <2>6. ASSUME NEW m \in Paths, Resolve(t, m) PROVE LocalInv'
    <3>1. Resolving(thread[t]) /\ m \in thread[t].todo
      BY <2>0, <2>6 DEF Resolve, At, Advancing
    <3>2. PICK p \in Unread(thread[t], m) : ReadSource(t, thread[t], p)
      BY <2>6 DEF Resolve
    <3>3. p \in Paths
      <4>1. m \in Known(thread[t].modules)
        BY <3>1 DEF Resolving
      <4>2. thread[t].modules[m] \in Texts
        BY <2>0, <4>1 DEF Known, Local, Sources
      <4> QED
        BY <3>2, <4>2 DEF Unread, ContextAssumption, ImportsAssumption
    <3>4. Steps(t)
      BY <1>0, <2>0, <3>1, <3>2, <3>3, ReadGood DEF Resolving
    <3> QED
      BY <3>4, <1>1, <2>6 DEF Resolve
  <2>7. ASSUME NEW m \in Paths, Resolved(t, m) PROVE LocalInv'
    <3>1. Steps(t)
      BY <1>0, <2>7, ResolvedGood
    <3> QED
      BY <3>1, <1>1, <2>7 DEF Resolved
  <2>8. ASSUME NEW m \in Paths, Record(t, m) PROVE LocalInv'
    <3>1. Good(Done(thread[t], m, "idle", {}))
      BY <2>0, <2>8, DoneGood DEF Record, At
    <3>2. Steps(t) /\ Quiet
      BY <2>8, <3>1 DEF Record
    <3> QED
      BY <3>2, <1>1
  <2> QED
    BY <1>2, <2>1, <2>2, <2>3, <2>4, <2>5, <2>6, <2>7, <2>8 DEF AnalysisStep
<1>3. ASSUME NEW t \in Threads, NEW root \in Paths, Analyze(t, root)
      PROVE  LocalInv'
  <2>1. Steps(t)
    BY <1>0, <1>3, RestingGood, ReadGood DEF Analyze
  <2> QED
    BY <1>1, <1>3, <2>1 DEF Analyze
<1>9. ASSUME NEW t \in Threads, NEW root \in Paths, NEW x \in CallerTexts, AnalyzeText(t, root, x)
      PROVE  LocalInv'
  <2>3. x \in Texts
    BY DEF ContextAssumption, BoundsAssumption
  <2>2. Good(Loaded(Resting, root, x))
    BY <2>3, RestingGood, LoadedGood
  <2> QED
    BY <1>1, <1>9, <2>2 DEF AnalyzeText
<1>4. ASSUME NEW e \in Editors, EditorStep(e)
      PROVE  LocalInv'
  BY <1>0, <1>4 DEF EditorStep, NoteOverlay, InvalidateRemoved, LocalInv, Typed, Threaded, Calls
<1>5. ASSUME NEW e \in Editors, NEW p \in Paths, RemoveOverlay(e, p)
      PROVE  LocalInv'
  <2>1. [call |-> "invalidate", path |-> p] \in Calls
    BY DEF Calls
  <2> QED
    BY <1>0, <1>5, <2>1 DEF RemoveOverlay, LocalInv, Typed, Threaded, Sources
<1>6. ASSUME NEW e \in Editors, NEW p \in Paths, NEW x \in Texts, SetOverlay(e, p, x)
      PROVE  LocalInv'
  <2>1. [call |-> "note", path |-> p, text |-> x] \in Calls
    BY DEF Calls
  <2> QED
    BY <1>0, <1>6, <2>1 DEF SetOverlay, LocalInv, Typed, Threaded, Sources
<1>7. ASSUME NEW p \in Paths, InvalidatePath(p) \/ \E x \in Texts : WriteFile(p, x)
      PROVE  LocalInv'
  BY <1>0, <1>7 DEF InvalidatePath, WriteFile, LocalInv, Typed, Threaded
<1>8. CASE Worker \/ Rest \/ UNCHANGED vars
  BY <1>0, <1>8 DEF Worker, Rest, ownVars, vars, LocalInv, Typed, Threaded
<1> QED
  BY <1>2, <1>3, <1>4, <1>5, <1>6, <1>7, <1>8, <1>9 DEF Next

LEMMA CachingInvariance == ASSUME ContextAssumption PROVE Spec => []Caching
<1>1. Init => Caching
  <2> SUFFICES ASSUME Init PROVE Caching
    OBVIOUS
  <2>1. CacheProofs!Init
    BY DEF Init, Cache!Init, CacheProofs!Init, Cache!Keys, CacheProofs!Keys, Cache!Fulfilled,
           CacheProofs!Fulfilled, Cache!Idle, CacheProofs!Idle
  <2> QED
    BY <2>1, InitLocal, CacheAssumptions, CacheProofs!InitIInv DEF Caching
<1>2. Caching /\ [Next]_vars => Caching'
  <2> SUFFICES ASSUME Caching, [Next]_vars PROVE Caching'
    OBVIOUS
  <2>1. CacheProofs!IInv'
    BY CacheStep, CacheAssumptions, CacheProofs!IInvStep DEF Caching
  <2> QED
    BY <2>1, NextLocal DEF Caching
<1> QED
  BY <1>1, <1>2, PTL DEF Spec

\* A context is a caller of its cache like any other: every step of it is one of
\* the cache's own or leaves the cache alone.
THEOREM ContextCallsCache == ASSUME ContextAssumption PROVE Spec => Cache!Spec
<1>1. Init => Cache!Init
  BY DEF Init
<1>2. Caching /\ [Next]_vars => [Cache!Next]_(Cache!vars)
  BY StepCallsCache DEF Caching, cacheVars, Cache!vars
<1> QED
  BY <1>1, <1>2, CachingInvariance, PTL DEF Spec, Cache!Spec

\* What the cache knows never lags behind what it serves, in a context as well.
THEOREM ContextServesCurrent == ASSUME ContextAssumption PROVE Spec => []Cache!CachedIsCurrent
<1>1. Caching => Cache!CachedIsCurrent
  BY DEF Caching, CacheProofs!IInv, CacheProofs!CachedIsCurrent, Cache!CachedIsCurrent
<1> QED
  BY <1>1, CachingInvariance, PTL

\* Whatever texts change between the rounds, and in whatever order the futures
\* of a round arrive: an analysis that has no import left to read is closed.
THEOREM ClosedSnapshots == ASSUME ContextAssumption PROVE Spec => []SnapshotClosed
<1>1. Caching => SnapshotClosed
  <2> SUFFICES ASSUME Caching, NEW t \in Threads, At(t, "idle") \/ At(t, "record")
               PROVE  Covered(thread[t], Known(thread[t].modules), {})
    BY DEF SnapshotClosed, Covered
  <2> QED
    BY DEF Caching, LocalInv, Threaded, Good, Advancing, At
<1> QED
  BY <1>1, CachingInvariance, PTL

-----------------------------------------------------------------------------
(***************************************************************************)
(* Futures: a thread holds futures only while it asks for a round and      *)
(* collects it, and each is for the text of its batch.                     *)
(***************************************************************************)
\* p's future of t, if it holds one, matches state r.
Matches(t, p, r) ==
    client[<<t, p>>] # Cache!Idle =>
        /\ MayHold(r, p)
        /\ build[client[<<t, p>>].build] # Cache!Fulfilled =>
              build[client[<<t, p>>].build].key = Key(p, r.batch[p])

FuturesInv == \A t \in Threads, p \in Paths : Matches(t, p, thread[t])

\* A thread in another stage holds nothing.
LEMMA OtherStages ==
    ASSUME FuturesInv, NEW t \in Threads, thread[t].stage \notin {"request", "collect"},
           UNCHANGED <<build, client>>, \A s \in Threads : s # t => thread'[s] = thread[s]
    PROVE  FuturesInv'
<1>1. \A p \in Paths : client[<<t, p>>] = Cache!Idle
  BY DEF FuturesInv, Matches, MayHold
<1> QED
  BY <1>1 DEF FuturesInv, Matches, Cache!Idle, Cache!Fulfilled

LEMMA WorkerFutures ==
    ASSUME FuturesInv, Caching, Worker
    PROVE  FuturesInv'
<1>0. build \in Promises /\ client \in Holders
  BY CacheFacts
<1>1. PICK b \in Builds : Cache!Publish(b) \/ Cache!Fulfil(b)
  BY DEF Worker
<1>2. /\ UNCHANGED <<client, thread>>
      /\ \A c \in Builds : build'[c] # Cache!Fulfilled =>
            build[c] # Cache!Fulfilled /\ build'[c].key = build[c].key
  <2>1. CASE Cache!Publish(b)
    <3>1. build[b] \in Cache!Active
      BY <1>0, <2>1 DEF Cache!Publish, Promises
    <3>2. build'[b].key = build[b].key /\ build[b] # Cache!Fulfilled
      BY <1>0, <2>1, <3>1 DEF Cache!Publish, Promises, Cache!Active
    <3> QED
      BY <1>0, <2>1, <3>2 DEF Worker, ownVars, Cache!Publish, Promises
  <2>2. CASE Cache!Fulfil(b)
    BY <1>0, <2>2 DEF Worker, ownVars, Cache!Fulfil, Promises
  <2> QED
    BY <1>1, <2>1, <2>2
<1> SUFFICES ASSUME NEW t \in Threads, NEW p \in Paths, client[<<t, p>>] # Cache!Idle
             PROVE  Matches(t, p, thread[t])'
  BY <1>2 DEF FuturesInv, Matches, Cache!Idle
<1>3. client[<<t, p>>].build \in Builds
  BY <1>0 DEF Holders, Cache!Holding
<1> QED
  BY <1>2, <1>3 DEF FuturesInv, Matches, MayHold, Cache!Idle, Cache!Fulfilled

LEMMA SubmitFutures ==
    ASSUME FuturesInv, Caching, NEW t \in Threads, NEW p \in Paths, Submit(t, p)
    PROVE  FuturesInv'
<1> DEFINE c == <<t, p>>
<1>0. build \in Promises /\ client \in Holders /\ c \in Threads \X Paths
  BY CacheFacts
<1>1. /\ client[c] \in Cache!Holding /\ client[c] # Cache!Idle /\ UNCHANGED thread
      /\ client' = [client EXCEPT ![c].state = "waiting"]
      /\ build' = [build EXCEPT ![client[c].build].state = "queued"]
  BY <1>0 DEF Submit, ownVars, Cache!Submit, Holders
<1>2. client[c].build \in Builds
  BY <1>1 DEF Cache!Holding
<1>3. ASSUME NEW d \in Threads \X Paths, client'[d] # Cache!Idle
      PROVE  client[d] # Cache!Idle /\ client'[d].build = client[d].build
  BY <1>0, <1>1, <1>3 DEF Holders, Cache!Holding
<1>4. ASSUME NEW b \in Builds, build'[b] # Cache!Fulfilled, build[b] # Cache!Fulfilled
      PROVE  build'[b].key = build[b].key
  <2>1. build[b] \in Cache!Active
    BY <1>0, <1>4 DEF Promises
  <2> QED
    BY <1>0, <1>1, <1>2, <2>1 DEF Promises, Cache!Active
<1>5. build[client[c].build] # Cache!Fulfilled
  BY <1>0, <1>1, CacheSubmitters DEF Submit, Cache!Submit
<1>6. \A b \in Builds : b # client[c].build => build'[b] = build[b]
  BY <1>0, <1>1, <1>2 DEF Promises
<1> SUFFICES ASSUME NEW s \in Threads, NEW q \in Paths, client'[<<s, q>>] # Cache!Idle
             PROVE  Matches(s, q, thread[s])'
  BY <1>1 DEF FuturesInv, Matches, Cache!Idle
<1>7. client[<<s, q>>] # Cache!Idle /\ client'[<<s, q>>].build = client[<<s, q>>].build
  BY <1>3
<1>8. client[<<s, q>>].build \in Builds
  BY <1>0, <1>7 DEF Holders, Cache!Holding
<1> QED
  BY <1>1, <1>4, <1>5, <1>6, <1>7, <1>8 DEF FuturesInv, Matches, MayHold, Cache!Idle, Cache!Fulfilled

\* A thread that is done with its requests, or with one of them.
LEMMA RequestStage ==
    ASSUME ContextAssumption, Caching, NEW t \in Threads, NEW p \in Paths, Request(t, p)
    PROVE  /\ p \in Known(thread[t].batch) /\ thread'[t].batch = thread[t].batch
           /\ thread[t].stage = "request" /\ p \in thread[t].todo
           /\ \/ thread'[t].stage = "collect" /\ thread'[t].todo = Known(thread[t].batch)
              \/ thread'[t].stage = "request" /\ thread'[t].todo = thread[t].todo \ {p}
           /\ \A s \in Threads : s # t => thread'[s] = thread[s]
<1>1. Good(thread[t]) /\ thread[t].stage = "request" /\ p \in thread[t].todo
  BY DEF Caching, LocalInv, Threaded, Request, Ask, At
<1>2. thread' = [thread EXCEPT ![t] = Asked(thread[t], p)] /\ thread \in [Threads -> Local]
  BY RequestAsks DEF Caching, LocalInv, Threaded
<1> QED
  BY <1>1, <1>2, AskedGood

LEMMA RequestFutures ==
    ASSUME ContextAssumption, FuturesInv, Caching, NEW t \in Threads, NEW p \in Paths, Request(t, p)
    PROVE  FuturesInv'
<1> DEFINE c == <<t, p>>
           k == Key(p, thread[t].batch[p])
<1>0. /\ build \in Promises /\ client \in Holders /\ Cache!InFlightExact /\ c \in Threads \X Paths
      /\ LocalInv
  BY CacheFacts DEF Caching
<1>1. /\ p \in Known(thread[t].batch) /\ thread'[t].batch = thread[t].batch
      /\ thread[t].stage = "request" /\ p \in thread[t].todo
      /\ \/ thread'[t].stage = "collect" /\ thread'[t].todo = Known(thread[t].batch)
         \/ thread'[t].stage = "request" /\ thread'[t].todo = thread[t].todo \ {p}
      /\ \A s \in Threads : s # t => thread'[s] = thread[s]
  BY RequestStage
<1>2. MayHold(thread'[t], p)
  BY <1>1 DEF MayHold, Known
<1>3. ASSUME NEW q \in Paths, q # p, MayHold(thread[t], q)
      PROVE  MayHold(thread'[t], q)
  BY <1>1, <1>3 DEF MayHold
<1>4. ASSUME NEW s \in Threads, NEW q \in Paths, <<s, q>> # c,
             client'[<<s, q>>] = client[<<s, q>>],
             client[<<s, q>>] # Cache!Idle => build'[client[<<s, q>>].build] = build[client[<<s, q>>].build]
      PROVE  Matches(s, q, thread[s])'
  <2>1. Matches(s, q, thread[s])
    BY DEF FuturesInv
  <2>2. CASE s = t
    BY <1>1, <1>3, <1>4, <2>1, <2>2 DEF Matches, Cache!Idle, Cache!Fulfilled
  <2>3. CASE s # t
    BY <1>1, <1>4, <2>1, <2>3 DEF Matches, MayHold, Cache!Idle, Cache!Fulfilled
  <2> QED
    BY <2>2, <2>3
<1>5. Cache!GetOrBuild(c, k)
  BY DEF Request, Ask
<1>6. CASE UNCHANGED <<build, client>>
  <2>1. client[c] = Cache!Idle
    BY <1>5 DEF Cache!GetOrBuild
  <2>2. Matches(t, p, thread[t])'
    BY <1>6, <2>1 DEF Matches, Cache!Idle
  <2> QED
    BY <1>4, <1>6, <2>2 DEF FuturesInv
<1>7. CASE /\ inFlight[k] # None /\ UNCHANGED build
           /\ client' = [client EXCEPT ![c] = [state |-> "waiting", build |-> inFlight[k]]]
  <2>1. k \in Cache!Keys
    BY <1>0, <1>1 DEF Key, Cache!Keys, LocalInv, Threaded, Local, Sources, Known
  <2>2. build[inFlight[k]].key = k
    BY <1>0, <1>7, <2>1 DEF Cache!InFlightExact
  <2>3. client'[c] = [state |-> "waiting", build |-> inFlight[k]]
    BY <1>0, <1>7 DEF Holders
  <2>4. Matches(t, p, thread[t])'
    BY <1>1, <1>2, <1>7, <2>2, <2>3 DEF Matches, Cache!Fulfilled
  <2>5. \A s \in Threads, q \in Paths : <<s, q>> # c => client'[<<s, q>>] = client[<<s, q>>]
    BY <1>0, <1>7 DEF Holders
  <2> QED
    BY <1>4, <1>7, <2>4, <2>5 DEF FuturesInv
<1>8. CASE \E b \in Cache!Free : Cache!StartBuild(c, k, b)
  <2>1. PICK b \in Cache!Free : Cache!StartBuild(c, k, b)
    BY <1>8
  <2>2. /\ b \in Builds /\ \A d \in Threads \X Paths : client[d] # Cache!Idle => client[d].build # b
    BY <2>1 DEF Cache!Free, Cache!Holds
  <2>3. /\ client'[c] = [state |-> "submitting", build |-> b] /\ build'[b].key = k
        /\ \A d \in Threads \X Paths : d # c => client'[d] = client[d]
        /\ \A a \in Builds : a # b => build'[a] = build[a]
    BY <1>0, <2>1, <2>2 DEF Cache!StartBuild, Holders, Promises
  <2>4. Matches(t, p, thread[t])'
    BY <1>1, <1>2, <2>3 DEF Matches
  <2>5. ASSUME NEW s \in Threads, NEW q \in Paths, <<s, q>> # c
        PROVE  Matches(s, q, thread[s])'
    <3>1. <<s, q>> \in Threads \X Paths /\ client'[<<s, q>>] = client[<<s, q>>]
      BY <2>3, <2>5
    <3>2. client[<<s, q>>] # Cache!Idle => client[<<s, q>>].build \in Builds \ {b}
      BY <1>0, <2>2, <3>1 DEF Holders, Cache!Holding
    <3> QED
      BY <1>4, <2>3, <2>5, <3>1, <3>2
  <2> QED
    BY <2>4, <2>5 DEF FuturesInv
<1> QED
  BY <1>5, <1>6, <1>7, <1>8 DEF Cache!GetOrBuild

LEMMA CollectFutures ==
    ASSUME ContextAssumption, FuturesInv, Caching, NEW t \in Threads, NEW p \in Paths, Collect(t, p)
    PROVE  FuturesInv'
<1> DEFINE c == <<t, p>>
           r == thread[t]
<1>0. client \in Holders /\ c \in Threads \X Paths /\ LocalInv
  BY CacheFacts DEF Caching
<1>1. /\ client'[c] = Cache!Idle /\ UNCHANGED build
      /\ \A d \in Threads \X Paths : d # c => client'[d] = client[d]
  BY <1>0 DEF Collect, cacheVars, Cache!Receive, Holders
<1>2. /\ r.stage = "collect" /\ p \in r.todo /\ thread'[t].batch = r.batch
      /\ r.todo # {p} => thread'[t].stage = "collect" /\ thread'[t].todo = r.todo \ {p}
      /\ \A s \in Threads : s # t => thread'[s] = thread[s]
  <2>1. /\ r.stage = "collect" /\ p \in r.todo /\ thread' = [thread EXCEPT ![t] = Collected(r, p)]
        /\ Good(r)
    BY <1>0 DEF Collect, Collected, At, Good, LocalInv, Threaded
  <2>2. /\ Collected(r, p).batch = r.batch
        /\ r.todo # {p} => Collected(r, p).stage = "collect" /\ Collected(r, p).todo = r.todo \ {p}
    BY <2>1, CollectedGood
  <2> QED
    BY <1>0, <2>1, <2>2 DEF LocalInv, Threaded
<1> SUFFICES ASSUME NEW s \in Threads, NEW q \in Paths, client'[<<s, q>>] # Cache!Idle
             PROVE  Matches(s, q, thread[s])'
  BY DEF FuturesInv, Matches, Cache!Idle
<1>3. <<s, q>> # c /\ client'[<<s, q>>] = client[<<s, q>>] /\ Matches(s, q, thread[s])
  BY <1>1 DEF FuturesInv
<1>4. CASE s = t
  <2>1. q # p /\ q \in r.todo /\ q \in Known(r.batch)
    BY <1>2, <1>3, <1>4 DEF Matches, MayHold
  <2>2. MayHold(thread'[t], q)
    BY <1>2, <2>1 DEF MayHold
  <2> QED
    BY <1>1, <1>2, <1>3, <1>4, <2>2 DEF Matches, Cache!Idle, Cache!Fulfilled
<1>5. CASE s # t
  BY <1>1, <1>2, <1>3, <1>5 DEF Matches, MayHold, Cache!Idle, Cache!Fulfilled
<1> QED
  BY <1>4, <1>5

LEMMA FuturesStep ==
    ASSUME ContextAssumption, FuturesInv, Caching, [Next]_vars
    PROVE  FuturesInv'
<1>0. thread \in [Threads -> Local]
  BY DEF Caching, LocalInv, Threaded
<1>1. ASSUME NEW t \in Threads, AnalysisStep(t) PROVE FuturesInv'
  <2>1. CASE LoadFile(t)
    BY <1>0, <2>1, OtherStages DEF LoadFile, At, cacheVars
  <2>2. ASSUME NEW p \in Paths, Note(t, p) PROVE FuturesInv'
    BY <1>0, <2>2, OtherStages DEF Note, At
  <2>3. ASSUME NEW p \in Paths, Resolve(t, p) PROVE FuturesInv'
    BY <1>0, <2>3, OtherStages DEF Resolve, ReadSource, At, cacheVars
  <2>4. ASSUME NEW p \in Paths, Resolved(t, p) PROVE FuturesInv'
    BY <1>0, <2>4, OtherStages DEF Resolved, At, cacheVars
  <2>5. ASSUME NEW p \in Paths, Record(t, p) PROVE FuturesInv'
    BY <1>0, <2>5, OtherStages DEF Record, At, Cache!UpdateDependencies
  <2> QED
    BY <1>1, <2>1, <2>2, <2>3, <2>4, <2>5, RequestFutures, SubmitFutures, CollectFutures
    DEF AnalysisStep
<1>2. ASSUME NEW t \in Threads, NEW root \in Paths, Analyze(t, root) PROVE FuturesInv'
  BY <1>0, <1>2, OtherStages DEF Analyze, ReadSource, At, cacheVars
<1>8. ASSUME NEW t \in Threads, NEW root \in Paths, NEW x \in CallerTexts, AnalyzeText(t, root, x)
      PROVE  FuturesInv'
  BY <1>0, <1>8, OtherStages DEF AnalyzeText, At, cacheVars
<1>3. CASE UNCHANGED <<build, client, thread>>
  BY <1>3 DEF FuturesInv, Matches, MayHold, Cache!Idle, Cache!Fulfilled
<1>4. ASSUME NEW e \in Editors, EditorStep(e) PROVE UNCHANGED <<build, client, thread>>
  BY <1>4 DEF EditorStep, NoteOverlay, InvalidateRemoved, Cache!Invalidate
<1>5. ASSUME NEW e \in Editors, NEW p \in Paths,
             RemoveOverlay(e, p) \/ \E x \in Texts : SetOverlay(e, p, x)
      PROVE  UNCHANGED <<build, client, thread>>
  BY <1>5 DEF RemoveOverlay, SetOverlay, cacheVars
<1>6. ASSUME NEW p \in Paths, InvalidatePath(p) \/ \E x \in Texts : WriteFile(p, x)
      PROVE  UNCHANGED <<build, client, thread>>
  BY <1>6 DEF InvalidatePath, WriteFile, cacheVars, Cache!Invalidate
<1>7. CASE Rest \/ UNCHANGED vars
  BY <1>3, <1>7 DEF Rest, vars, cacheVars, ownVars
<1> QED
  BY <1>1, <1>2, <1>3, <1>4, <1>5, <1>6, <1>7, <1>8, WorkerFutures DEF Next

\* A thread that joins another thread's build, or finds its module's text
\* changed after it asked, still receives the module in the text of its batch.
THEOREM FuturesAnswer == ASSUME ContextAssumption PROVE Spec => []FuturesMatch
<1>1. Init => FuturesInv
  BY DEF Init, Cache!Init, FuturesInv, Matches
<1>2. Caching /\ FuturesInv /\ [Next]_vars => FuturesInv'
  BY FuturesStep
<1>3. FuturesInv => FuturesMatch
  BY DEF FuturesInv, FuturesMatch, Matches
<1> QED
  BY <1>1, <1>2, <1>3, CachingInvariance, PTL DEF Spec

-----------------------------------------------------------------------------
(***************************************************************************)
(* True snapshots: of a path that nobody writes while a thread analyses,   *)
(* the thread holds the text of its overlay or file.  Up to the request the*)
(* text is the one read; from then on it is the one the cache delivers     *)
(* (Promised).                                                             *)
(***************************************************************************)
Agrees(r, S) ==
    /\ \A p \in Paths \ S :
          {r.pending[p], r.batch[p], r.modules[p]} \subseteq {None, Effective(p)}
    /\ r.stage = "load" /\ r.want \in Paths \ S => overlay[r.want] = None

TrueInv ==
    /\ changed \in [Threads -> SUBSET Paths]
    /\ \A t \in Threads : Agrees(thread[t], changed[t])

LEMMA TrueThread ==
    ASSUME LocalInv, TrueInv, UNCHANGED <<disk, overlay>>, NEW t \in Threads, NEW S \in SUBSET Paths,
           changed' = [changed EXCEPT ![t] = S],
           NEW s, Agrees(s, S), thread' = [thread EXCEPT ![t] = s]
    PROVE  TrueInv'
<1>1. changed' \in [Threads -> SUBSET Paths]
  BY DEF TrueInv
<1>2. ASSUME NEW u \in Threads PROVE Agrees(thread[u], changed[u])'
  <2>1. CASE u = t
    BY <2>1 DEF TrueInv, LocalInv, Threaded, Agrees, Effective
  <2>2. CASE u # t
    BY <2>2 DEF TrueInv, LocalInv, Threaded, Agrees, Effective
  <2> QED
    BY <2>1, <2>2
<1> QED
  BY <1>1, <1>2 DEF TrueInv

LEMMA TrueLoaded ==
    ASSUME LocalInv, NEW r \in Local, NEW S \in SUBSET Paths, Agrees(r, S),
           NEW p \in Paths, NEW x \in Texts, p \in S \/ x = Effective(p)
    PROVE  Agrees(Loaded(r, p, x), S)
<1> DEFINE s == Loaded(r, p, x)
<1>1. /\ s.modules = r.modules /\ s.stage \in {"note", "record", "resolve"}
      /\ \A q \in Paths : /\ s.batch[q] \in {None, r.batch[q], r.pending[q]} \cup (IF q = p THEN {x} ELSE {})
                          /\ s.pending[q] \in {None, r.pending[q]} \cup (IF q = p THEN {x} ELSE {})
  BY LoadedKeeps
<1> HIDE DEF s
<1>2. Agrees(s, S)
  BY <1>1 DEF Agrees
<1> QED
  BY <1>2 DEF s

\* sourceForPath() reads what is effective, or finds that there is no overlay.
LEMMA TrueRead ==
    ASSUME LocalInv, TrueInv, UNCHANGED <<disk, overlay>>, NEW t \in Threads, NEW S \in SUBSET Paths,
           changed' = [changed EXCEPT ![t] = S],
           NEW r \in Local, Agrees(r, S), NEW p \in Paths, ReadSource(t, r, p)
    PROVE  TrueInv'
<1>1. CASE overlay[p] # None
  <2>1. overlay[p] \in Texts /\ overlay[p] = Effective(p)
    BY <1>1 DEF LocalInv, Typed, Sources, Effective
  <2> QED
    BY <1>1, <2>1, TrueLoaded, TrueThread DEF ReadSource
<1>2. CASE overlay[p] = None
  <2> DEFINE s == [r EXCEPT !.stage = "load", !.want = p]
  <2>1. /\ s.stage = "load" /\ s.want = p /\ s.batch = r.batch
        /\ s.modules = r.modules /\ s.pending = r.pending
    BY DEF Local
  <2>2. Agrees(s, S)
    BY <1>2, <2>1 DEF Agrees
  <2> QED
    BY <1>2, <2>2, TrueThread DEF ReadSource
<1> QED
  BY <1>1, <1>2

\* Records that hold no new text and do not load.
LEMMA TrueSame ==
    ASSUME NEW r, NEW s, NEW S, Agrees(r, S), s.stage # "load",
           \A p \in Paths : {s.pending[p], s.batch[p], s.modules[p]} \subseteq
                            {None, r.pending[p], r.batch[p], r.modules[p]}
    PROVE  Agrees(s, S)
BY DEF Agrees

LEMMA TrueAnalysis ==
    ASSUME ContextAssumption, Caching, TrueInv, NEW t \in Threads, AnalysisStep(t)
    PROVE  TrueInv'
<1> DEFINE r == thread[t]
           S == changed[t]
<1>0. /\ LocalInv /\ r \in Local /\ Good(r) /\ Advancing(r) /\ Agrees(r, S)
      /\ Known(r.batch) \in SUBSET Paths /\ r.todo \in SUBSET Paths /\ S \in SUBSET Paths
      /\ {"request", "collect", "idle"} \subseteq Stages
  BY DEF Caching, LocalInv, Threaded, Good, TrueInv, Known, Stages, Local
<1>1. changed' = [changed EXCEPT ![t] = S]
  BY DEF AnalysisStep, LoadFile, Note, Request, Ask, Submit, Collect, Resolve, Resolved, Record,
         ownVars, TrueInv
<1>2. CASE LoadFile(t)
  <2>1. r.want \in Paths /\ r.stage = "load"
    BY <1>0, <1>2 DEF LoadFile, At, Advancing
  <2>2. disk[r.want] \in Texts
    BY <1>0, <2>1 DEF LocalInv, Typed
  <2>3. r.want \in S \/ disk[r.want] = Effective(r.want)
    BY <1>0, <2>1 DEF Agrees, Effective
  <2>4. Agrees(Loaded(r, r.want, disk[r.want]), S)
    BY <1>0, <2>1, <2>2, <2>3, TrueLoaded
  <2> QED
    BY <1>0, <1>1, <1>2, <2>4, TrueThread DEF LoadFile
<1>3. ASSUME NEW p \in Paths, NEW stage \in Stages \ {"load"}, NEW next \in SUBSET Paths,
             p \in r.todo, ~At(t, "load"), UNCHANGED <<disk, overlay>>,
             thread' = [thread EXCEPT ![t] = Done(r, p, stage, next)]
      PROVE  TrueInv'
  <2> DEFINE d == Done(r, p, stage, next)
  <2>1. /\ d.modules = r.modules /\ d.batch = r.batch /\ d.pending = r.pending /\ d.stage # "load"
    BY <1>0, <1>3, DoneKeeps DEF At
  <2>2. Agrees(d, S)
    BY <1>0, <2>1, TrueSame
  <2> QED
    BY <1>0, <1>1, <1>3, <2>2, TrueThread
<1>4. ASSUME NEW p \in Paths, Note(t, p) \/ Record(t, p) PROVE TrueInv'
  <2>1. {"request", "idle"} \subseteq Stages \ {"load"} /\ {} \in SUBSET Paths
    BY <1>0
  <2> QED
    BY <1>0, <1>3, <1>4, <2>1 DEF Note, Record, At
<1>5. ASSUME NEW p \in Paths, Request(t, p) PROVE TrueInv'
  <2> DEFINE d == Asked(r, p)
  <2>1. /\ r.stage = "request" /\ p \in r.todo /\ thread' = [thread EXCEPT ![t] = d]
        /\ UNCHANGED <<disk, overlay>>
    BY <1>5, RequestAsks DEF Request, Ask, At
  <2>2. d.batch = r.batch /\ d.pending = r.pending /\ d.modules = r.modules /\ d.stage # "load"
    BY <1>0, <2>1, AskedGood
  <2>3. Agrees(d, S)
    BY <1>0, <2>2, TrueSame
  <2> QED
    BY <1>0, <1>1, <2>1, <2>3, TrueThread
<1>6. ASSUME NEW p \in Paths, Submit(t, p) PROVE TrueInv'
  BY <1>6 DEF Submit, ownVars, TrueInv, Agrees, Effective
<1>7. ASSUME NEW p \in Paths, Collect(t, p) PROVE TrueInv'
  <2> DEFINE d == Collected(r, p)
  <2>1. /\ r.stage = "collect" /\ p \in r.todo /\ thread' = [thread EXCEPT ![t] = d]
        /\ UNCHANGED <<disk, overlay>>
    BY <1>7 DEF Collect, Collected, At
  <2>2. /\ d.batch = r.batch /\ d.pending = r.pending
        /\ d.modules = [r.modules EXCEPT ![p] = r.batch[p]] /\ d.stage # "load"
    BY <1>0, <2>1, CollectedGood
  <2> HIDE DEF d
  <2>3. \A q \in Paths : d.modules[q] \in {r.modules[q], r.batch[q]}
    BY <1>0, <2>2 DEF Local, Sources
  <2>4. Agrees(d, S)
    <3>1. /\ d.stage # "load"
          /\ \A q \in Paths : {d.pending[q], d.batch[q], d.modules[q]} \subseteq
                              {None, r.pending[q], r.batch[q], r.modules[q]}
      BY <2>2, <2>3
    <3> QED
      BY <1>0, <3>1, TrueSame
  <2> QED
    BY <1>0, <1>1, <2>1, <2>4, TrueThread
<1>8. ASSUME NEW m \in Paths, Resolve(t, m) PROVE TrueInv'
  <2>1. Resolving(r) /\ m \in r.todo
    BY <1>0, <1>8 DEF Resolve, At, Advancing
  <2>2. PICK p \in Unread(r, m) : ReadSource(t, r, p)
    BY <1>8 DEF Resolve
  <2>3. r.modules[m] \in Texts /\ m \in Paths
    BY <1>0, <2>1 DEF Resolving, Known, Local, Sources
  <2>4. p \in Paths
    BY <2>2, <2>3 DEF Unread, ContextAssumption, ImportsAssumption
  <2> QED
    BY <1>0, <1>1, <1>8, <2>2, <2>4, TrueRead DEF Resolve
<1>9. ASSUME NEW m \in Paths, Resolved(t, m) PROVE TrueInv'
  <2>1. CASE r.todo = {m}
    <3>1. Agrees(NextRound(r), S)
      BY <1>0, NextRoundKeeps, TrueSame DEF NoModules
    <3> QED
      BY <1>0, <1>1, <1>9, <2>1, <3>1, TrueThread DEF Resolved, AllRead
  <2>2. CASE r.todo # {m}
    <3> DEFINE s == Goto(r, "resolve", r.todo \ {m})
    <3>1. /\ s.stage # "load" /\ s.batch = r.batch /\ s.modules = r.modules
          /\ s.pending = r.pending
      BY <1>0 DEF Local, Goto
    <3> HIDE DEF s
    <3>2. Agrees(s, S)
      BY <1>0, <3>1, TrueSame
    <3> QED
      BY <1>0, <1>1, <1>9, <2>2, <3>2, TrueThread DEF Resolved, AllRead, s
  <2> QED
    BY <2>1, <2>2
<1> QED
  BY <1>2, <1>4, <1>5, <1>6, <1>7, <1>8, <1>9 DEF AnalysisStep

\* Who writes p's overlay or file takes p out of every thread's account.
LEMMA TrueEdit ==
    ASSUME TrueInv, NEW p \in Paths, Written(p), UNCHANGED thread,
           \A q \in Paths : q # p => overlay'[q] = overlay[q] /\ disk'[q] = disk[q]
    PROVE  TrueInv'
<1>1. changed' \in [Threads -> SUBSET Paths]
  BY DEF TrueInv, Written
<1>2. ASSUME NEW t \in Threads PROVE Agrees(thread[t], changed[t])'
  <2>1. changed'[t] = changed[t] \cup {p} /\ thread'[t] = thread[t] /\ Agrees(thread[t], changed[t])
    BY DEF TrueInv, Written
  <2>2. \A q \in Paths \ changed'[t] : q \in Paths \ changed[t] /\ Effective(q)' = Effective(q)
                                        /\ overlay'[q] = overlay[q]
    BY <2>1 DEF Effective
  <2> QED
    BY <2>1, <2>2 DEF Agrees
<1> QED
  BY <1>1, <1>2 DEF TrueInv

LEMMA TrueStep ==
    ASSUME ContextAssumption, Caching, TrueInv, [Next]_vars
    PROVE  TrueInv'
<1>0. LocalInv /\ Good(Resting) /\ Resting \in Local
  BY RestingGood DEF Caching
<1>1. ASSUME NEW S PROVE Agrees(Resting, S)
  BY RestingGood DEF Agrees, NoModules
<1>2. ASSUME NEW t \in Threads, NEW root \in Paths, Analyze(t, root) PROVE TrueInv'
  <2>1. /\ changed' = [changed EXCEPT ![t] = {}] /\ ReadSource(t, Resting, root)
        /\ UNCHANGED <<disk, overlay>>
    BY <1>2 DEF Analyze
  <2>2. {} \in SUBSET Paths /\ Agrees(Resting, {})
    BY <1>1
  <2> QED
    BY <1>0, <2>1, <2>2, TrueRead
<1>3. ASSUME NEW t \in Threads, NEW root \in Paths, NEW x \in CallerTexts, AnalyzeText(t, root, x)
      PROVE  TrueInv'
  <2>1. x \in Texts
    BY DEF ContextAssumption, BoundsAssumption
  <2>2. Agrees(Loaded(Resting, root, x), {root})
    BY <1>0, <1>1, <2>1, TrueLoaded
  <2> QED
    BY <1>0, <1>3, <2>2, TrueThread DEF AnalyzeText
<1>4. CASE UNCHANGED <<disk, overlay, thread, changed>>
  BY <1>4 DEF TrueInv, Agrees, Effective
<1>5. ASSUME NEW e \in Editors, EditorStep(e) PROVE UNCHANGED <<disk, overlay, thread, changed>>
  BY <1>5 DEF EditorStep, NoteOverlay, InvalidateRemoved
<1>6. ASSUME NEW e \in Editors, NEW p \in Paths,
             RemoveOverlay(e, p) \/ \E x \in Texts : SetOverlay(e, p, x)
      PROVE  TrueInv'
  <2>1. /\ Written(p) /\ UNCHANGED <<disk, thread>>
        /\ \E x : overlay' = [overlay EXCEPT ![p] = x]
    BY <1>6 DEF RemoveOverlay, SetOverlay
  <2>2. \A q \in Paths : q # p => overlay'[q] = overlay[q] /\ disk'[q] = disk[q]
    BY <1>0, <2>1 DEF LocalInv, Typed, Sources
  <2> QED
    BY <2>1, <2>2, TrueEdit
<1>7. ASSUME NEW p \in Paths, NEW x \in Texts, WriteFile(p, x) PROVE TrueInv'
  <2>1. disk \in [Paths -> Texts]
    BY <1>0 DEF LocalInv, Typed
  <2> QED
    BY <1>7, <2>1, TrueEdit DEF WriteFile
<1>8. ASSUME NEW p \in Paths, InvalidatePath(p) PROVE UNCHANGED <<disk, overlay, thread, changed>>
  BY <1>8 DEF InvalidatePath
<1>9. CASE Worker \/ Rest \/ UNCHANGED vars
  BY <1>4, <1>9 DEF Worker, Rest, vars, ownVars
<1> QED
  BY <1>2, <1>3, <1>4, <1>5, <1>6, <1>7, <1>8, <1>9, TrueAnalysis DEF Next

\* What the cache delivers to an analysis is true to overlays and files, wherever
\* setOverlay() and removeOverlay() stand and whatever else is being built.
THEOREM TrueSnapshots == ASSUME ContextAssumption PROVE Spec => []SnapshotIsTrue
<1>1. Init => TrueInv
  BY RestingGood DEF Init, TrueInv, Agrees, NoModules
<1>2. Caching /\ TrueInv /\ [Next]_vars => TrueInv'
  BY TrueStep
<1>3. Caching /\ TrueInv => SnapshotIsTrue
  <2> SUFFICES ASSUME Caching, TrueInv, NEW t \in Threads,
                      NEW m \in Known(thread[t].modules) \ changed[t]
               PROVE  thread[t].modules[m] = Effective(m)
    BY DEF SnapshotIsTrue
  <2> QED
    BY DEF TrueInv, Agrees, Known
<1> QED
  BY <1>1, <1>2, <1>3, CachingInvariance, PTL DEF Spec

=============================================================================
