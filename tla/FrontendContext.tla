--------------------------- MODULE FrontendContext ---------------------------
(***************************************************************************)
(* zith::session::FrontendContext over its ModuleCache: analyses of a root *)
(* module by several request threads, while editors set and remove overlays*)
(* and files change on disk                                                *)
(* (src/session/frontend-context.cpp, frontend-context.hpp).               *)
(*                                                                         *)
(* analyze() works in rounds.  A round notes the source of every new       *)
(* module, asks the cache for the artifacts, waits for all of them and     *)
(* resolves their imports to the modules of the next round; at the end the *)
(* dependencies of all modules are recorded.  Between any two calls that   *)
(* take a lock other threads run.                                          *)
(*                                                                         *)
(* A text stands for its fingerprint, and Imports for what parsing and     *)
(* resolveImport() find in it.  Imports resolve to modules whose files     *)
(* exist; C headers, assets and the diagnostics of the snapshot are left   *)
(* out, and the append-only source catalog with them.  At its end          *)
(* analyze() builds every module once more, from the source it holds and   *)
(* with the macros of its imports: the texts of the snapshot, which is all *)
(* that is told apart here, stay what they are, and neither the cache nor  *)
(* a lock is touched.                                                      *)
(***************************************************************************)
EXTENDS Integers, FiniteSets

CONSTANTS
    Paths, Texts, Threads, Editors, Builds, None,
    CacheId,    \* the one cache key of a context
    Imports,    \* Imports[p][text]: the modules imported by that text of p
    CallerTexts,\* bound: texts given to analyzeText
    MaxEdits,   \* bound: setOverlay, removeOverlay, invalidatePath and disk writes
    MaxAnalyses,\* bound: analyses started
    MaxEpoch

ImportsAssumption == Imports \in [Paths -> [Texts -> SUBSET Paths]]
BoundsAssumption == MaxEdits \in Nat /\ MaxAnalyses \in Nat /\ CallerTexts \subseteq Texts
NoneAssumption == None \notin Paths

VARIABLES
    current, epochs, artifacts, inFlight, deps, rdeps, build, client,
    disk,       \* file contents
    overlay,    \* overlays_
    thread,     \* the local state of each analyze()
    editor,     \* what a setOverlay() or removeOverlay() still has to tell the cache
    edits,      \* edits begun
    analyses,   \* analyses begun
    changed     \* history, for SnapshotIsTrue only: the paths whose overlay or
                \* file was written since the last analysis of a thread began

cacheVars == <<current, epochs, artifacts, inFlight, deps, rdeps, build, client>>
ownVars   == <<disk, overlay, thread, editor, edits, analyses, changed>>
vars == <<cacheVars, ownVars>>

\* A thread holds one future per module of its round.
Cache == INSTANCE ModuleCache WITH
    CacheKeys <- {CacheId}, Fingerprints <- Texts, Clients <- Threads \X Paths,
    DependencySets <- [p \in Paths |-> {Imports[p][x] : x \in Texts}]

ContextAssumption ==
    /\ ImportsAssumption /\ BoundsAssumption /\ NoneAssumption
    /\ Cache!PathsAssumption /\ Cache!NoneAssumption /\ Cache!MaxEpochAssumption

NoModules == [p \in Paths |-> None]
Known(m)  == {p \in Paths : m[p] # None}

Stages == {"idle", "load", "note", "request", "collect", "resolve", "record"}

\* pending and batch map paths to the source text in use; futures to the text of
\* the artifact that a future of the round delivers, until it is collected, and
\* modules to that of the artifact collected; todo holds what the current loop has
\* still to handle; want is the path whose overlay was just found missing.
Resting == [stage |-> "idle", pending |-> NoModules, batch |-> NoModules,
            futures |-> NoModules, modules |-> NoModules, todo |-> {}, want |-> None]

Key(p, x) == [cache |-> CacheId, path |-> p, fp |-> x]
IdleEditor == [call |-> "none"]

-----------------------------------------------------------------------------
Init ==
    /\ Cache!Init
    /\ disk \in [Paths -> Texts]
    /\ overlay = [p \in Paths |-> None]
    /\ thread = [t \in Threads |-> Resting]
    /\ editor = [e \in Editors |-> IdleEditor]
    /\ edits = 0
    /\ analyses = 0
    /\ changed = [t \in Threads |-> {}]

At(t, stage) == thread[t].stage = stage

\* The next stage of t, skipping loops that have nothing to do.
Goto(r, stage, todo) == [r EXCEPT !.stage = stage, !.todo = todo]

\* A round begins with the pending modules that are not analysed yet; without
\* any the analysis goes on to record the dependencies.
NextRound(r) ==
    LET fresh == Known(r.pending) \ Known(r.modules) IN
    IF fresh = {}
      THEN Goto([r EXCEPT !.batch = NoModules, !.pending = NoModules], "record",
                Known(r.modules))
      ELSE Goto([r EXCEPT !.batch = [p \in Paths |-> IF p \in fresh THEN r.pending[p] ELSE None],
                          !.pending = NoModules],
                "note", fresh)

\* The source of p has been read: analyze() starts with it, or keeps it for the
\* next round unless p has a source already (emplace, contains).
Loaded(r, p, x) ==
    LET got == [r EXCEPT !.want = None,
                         !.pending[p] = IF @ = None /\ r.modules[p] = None THEN x ELSE @]
    IN  IF Known(r.batch) = {} THEN NextRound(got) ELSE Goto(got, "resolve", r.todo)

\* sourceForPath(p): the overlay under a shared lock; without one the thread goes
\* to the disk, after the unlock.
ReadSource(t, r, p) ==
    thread' = [thread EXCEPT ![t] =
        IF overlay[p] # None
          THEN Loaded(r, p, overlay[p])
          ELSE [r EXCEPT !.stage = "load", !.want = p]]

\* analyzeFile(root).
Analyze(t, root) ==
    /\ At(t, "idle")
    /\ analyses < MaxAnalyses
    /\ analyses' = analyses + 1
    /\ changed' = [changed EXCEPT ![t] = {}]
    /\ ReadSource(t, Resting, root)
    /\ UNCHANGED <<cacheVars, disk, overlay, editor, edits>>

\* analyzeText(root, x): the text of root is the caller's, whatever overlay and
\* file say.
AnalyzeText(t, root, x) ==
    /\ At(t, "idle")
    /\ analyses < MaxAnalyses
    /\ analyses' = analyses + 1
    /\ changed' = [changed EXCEPT ![t] = {root}]
    /\ thread' = [thread EXCEPT ![t] = Loaded(Resting, root, x)]
    /\ UNCHANGED <<cacheVars, disk, overlay, editor, edits>>

LoadFile(t) ==
    /\ At(t, "load")
    /\ thread' = [thread EXCEPT ![t] = Loaded(@, @.want, disk[@.want])]
    /\ UNCHANGED <<cacheVars, disk, overlay, editor, edits, analyses, changed>>

\* The loop over r.todo is done with p.
Done(r, p, stage, nextTodo) ==
    IF r.todo = {p} THEN Goto(r, stage, nextTodo) ELSE [r EXCEPT !.todo = @ \ {p}]

\* cache_.noteSource() for each module of the round.
Note(t, p) ==
    /\ At(t, "note") /\ p \in thread[t].todo
    /\ Cache!Noted(p, thread[t].batch[p])
    /\ UNCHANGED <<inFlight, deps, rdeps, build, client>>
    /\ thread' = [thread EXCEPT ![t] = Done(@, p, "request", Known(@.batch))]
    /\ UNCHANGED <<disk, overlay, editor, edits, analyses, changed>>

\* What p's future delivers to t: a hit is the cached artifact, any other future
\* the artifact that its build makes of the source in the build's key.
Delivered(t, p) ==
    LET c == client[<<t, p>>] IN
    IF c = Cache!Idle THEN artifacts[CacheId][p] ELSE build[c.build].key.fp

\* getOrBuild() for text x of p.
Ask(t, p, x) ==
    /\ At(t, "request") /\ p \in thread[t].todo
    /\ \A q \in Paths : client[<<t, q>>] = Cache!Idle \/ client[<<t, q>>].state # "submitting"
    /\ Cache!GetOrBuild(<<t, p>>, Key(p, x))
    /\ thread' = [thread EXCEPT ![t] =
                    Done([@ EXCEPT !.futures[p] = Delivered(t, p)'], p, "collect", Known(@.batch))]
    /\ UNCHANGED <<disk, overlay, editor, edits, analyses, changed>>

\* Mutant of Request: the overlay is looked up again.
RequestOverlay(t, p) == Ask(t, p, IF overlay[p] # None THEN overlay[p] ELSE thread[t].batch[p])

\* cache_.getOrBuild() for each module; the thread submits the task of one
\* before it asks for the next.
Request(t, p) == Ask(t, p, thread[t].batch[p])

Submit(t, p) ==
    /\ Cache!Submit(<<t, p>>)
    /\ UNCHANGED ownVars

\* future.get(), of which a hit was ready from the start: the module is what the
\* future delivers.
Collect(t, p) ==
    /\ At(t, "collect") /\ p \in thread[t].todo
    /\ \/ client[<<t, p>>] = Cache!Idle /\ UNCHANGED cacheVars
       \/ Cache!Receive(<<t, p>>)
    /\ thread' = [thread EXCEPT ![t] =
                    Done([@ EXCEPT !.modules[p] = thread[t].futures[p], !.futures[p] = None], p,
                         "resolve", Known(@.batch))]
    /\ UNCHANGED <<disk, overlay, editor, edits, analyses, changed>>

\* Mutant of Unread: imports that were analysed in an earlier round count as unread.
UnreadAgain(r, m) == Imports[m][r.modules[m]] \ Known(r.pending)

\* The imports of m that have no source yet in this analysis.
Unread(r, m) == Imports[m][r.modules[m]] \ (Known(r.modules) \cup Known(r.pending))

\* Resolve one import of m: sourceForPath() on its target.
Resolve(t, m) ==
    /\ At(t, "resolve") /\ m \in thread[t].todo
    /\ \E p \in Unread(thread[t], m) : ReadSource(t, thread[t], p)
    /\ UNCHANGED <<cacheVars, disk, overlay, editor, edits, analyses, changed>>

\* The loop over the imports of a round is done with m; then the next round.
AllRead(r, m) == IF r.todo = {m} THEN NextRound(r) ELSE Goto(r, "resolve", r.todo \ {m})

\* Mutant of Resolved: one import is enough.
ResolvedEarly(t, m) ==
    /\ At(t, "resolve") /\ m \in thread[t].todo
    /\ thread' = [thread EXCEPT ![t] = AllRead(@, m)]
    /\ UNCHANGED <<cacheVars, disk, overlay, editor, edits, analyses, changed>>

\* m has no import left to read.
Resolved(t, m) ==
    /\ At(t, "resolve") /\ m \in thread[t].todo
    /\ Unread(thread[t], m) = {}
    /\ thread' = [thread EXCEPT ![t] = AllRead(@, m)]
    /\ UNCHANGED <<cacheVars, disk, overlay, editor, edits, analyses, changed>>

\* cache_.updateDependencies() for each module; then the snapshot is returned.
Record(t, m) ==
    /\ At(t, "record") /\ m \in thread[t].todo
    /\ Cache!UpdateDependencies(m, Imports[m][thread[t].modules[m]])
    /\ thread' = [thread EXCEPT ![t] = Done(@, m, "idle", {})]
    /\ UNCHANGED <<disk, overlay, editor, edits, analyses, changed>>

-----------------------------------------------------------------------------
\* The history of an edit of p's overlay or file.
Written(p) == changed' = [t \in Threads |-> changed[t] \cup {p}]

\* setOverlay(): the overlay under the lock, the cache after it.
SetOverlay(e, p, x) ==
    /\ editor[e] = IdleEditor
    /\ edits < MaxEdits
    /\ edits' = edits + 1
    /\ overlay' = [overlay EXCEPT ![p] = x]
    /\ editor' = [editor EXCEPT ![e] = [call |-> "note", path |-> p, text |-> x]]
    /\ UNCHANGED <<cacheVars, disk, thread, analyses>>
    /\ Written(p)

NoteOverlay(e) ==
    /\ editor[e].call = "note"
    /\ Cache!Noted(editor[e].path, editor[e].text)
    /\ UNCHANGED <<inFlight, deps, rdeps, build, client>>
    /\ editor' = [editor EXCEPT ![e] = IdleEditor]
    /\ UNCHANGED <<disk, overlay, thread, edits, analyses, changed>>

\* removeOverlay(), also of a path that has none.
RemoveOverlay(e, p) ==
    /\ editor[e] = IdleEditor
    /\ edits < MaxEdits
    /\ edits' = edits + 1
    /\ overlay' = [overlay EXCEPT ![p] = None]
    /\ editor' = [editor EXCEPT ![e] = [call |-> "invalidate", path |-> p]]
    /\ UNCHANGED <<cacheVars, disk, thread, analyses>>
    /\ Written(p)

InvalidateRemoved(e) ==
    /\ editor[e].call = "invalidate"
    /\ Cache!Invalidate(editor[e].path)
    /\ editor' = [editor EXCEPT ![e] = IdleEditor]
    /\ UNCHANGED <<disk, overlay, thread, edits, analyses, changed>>

\* invalidatePath().
InvalidatePath(p) ==
    /\ edits < MaxEdits
    /\ edits' = edits + 1
    /\ Cache!Invalidate(p)
    /\ UNCHANGED <<disk, overlay, thread, editor, analyses, changed>>

\* Somebody saves a file.
WriteFile(p, x) ==
    /\ edits < MaxEdits
    /\ edits' = edits + 1
    /\ disk' = [disk EXCEPT ![p] = x]
    /\ UNCHANGED <<cacheVars, overlay, thread, editor, analyses>>
    /\ Written(p)

\* The pool's side of the cache.
Worker ==
    /\ \E b \in Builds : Cache!Publish(b) \/ Cache!Fulfil(b)
    /\ UNCHANGED ownVars

\* Nobody is inside a call; nothing need happen.
AtRest ==
    /\ \A t \in Threads : At(t, "idle")
    /\ \A e \in Editors : editor[e] = IdleEditor
    /\ \A b \in Builds : build[b] = Cache!Fulfilled

Rest == AtRest /\ UNCHANGED vars

AnalysisStep(t) ==
    \/ LoadFile(t)
    \/ \E p \in Paths :
          Note(t, p) \/ Request(t, p) \/ Submit(t, p) \/ Collect(t, p) \/ Resolve(t, p)
          \/ Resolved(t, p) \/ Record(t, p)

EditorStep(e) == NoteOverlay(e) \/ InvalidateRemoved(e)

Next ==
    \/ \E t \in Threads : AnalysisStep(t)
    \/ \E t \in Threads, root \in Paths :
          Analyze(t, root) \/ \E x \in CallerTexts : AnalyzeText(t, root, x)
    \/ \E e \in Editors : EditorStep(e)
    \/ \E e \in Editors, p \in Paths :
          RemoveOverlay(e, p) \/ \E x \in Texts : SetOverlay(e, p, x)
    \/ \E p \in Paths : InvalidatePath(p) \/ \E x \in Texts : WriteFile(p, x)
    \/ Worker \/ Rest

Spec == Init /\ [][Next]_vars

\* Threads inside a call are scheduled and the pool runs its tasks.  No editor
\* is obliged to edit and no analysis to start.
FairSpec ==
    /\ Spec
    /\ \A t \in Threads : WF_vars(AnalysisStep(t))
    /\ \A e \in Editors : WF_vars(EditorStep(e))
    /\ WF_vars(Worker)

-----------------------------------------------------------------------------
Sources == [Paths -> Texts \cup {None}]

TypeOK ==
    /\ Cache!TypeOK
    /\ disk \in [Paths -> Texts]
    /\ overlay \in Sources
    /\ thread \in [Threads -> [stage : Stages, pending : Sources, batch : Sources,
                               futures : Sources, modules : Sources, todo : SUBSET Paths,
                               want : Paths \cup {None}]]
    /\ \A e \in Editors :
          \/ editor[e] = IdleEditor
          \/ editor[e] \in [call : {"note"}, path : Paths, text : Texts]
          \/ editor[e] \in [call : {"invalidate"}, path : Paths]
    /\ edits \in 0..MaxEdits
    /\ analyses \in 0..MaxAnalyses
    /\ changed \in [Threads -> SUBSET Paths]

\* A future answers the question its thread asked: also when the thread joined
\* somebody else's build, that build is of the text the thread has read.
FuturesMatch ==
    \A t \in Threads, p \in Paths :
        LET c == client[<<t, p>>] IN
        c # Cache!Idle /\ build[c.build] # Cache!Fulfilled =>
            build[c.build].key = Key(p, thread[t].batch[p])

\* A finished snapshot holds every module its modules import, in the text the
\* snapshot itself contains, although texts change between the rounds.
SnapshotClosed ==
    \A t \in Threads : At(t, "idle") \/ At(t, "record") =>
        \A m \in Known(thread[t].modules) :
            Imports[m][thread[t].modules[m]] \subseteq Known(thread[t].modules)

\* Open documents take precedence over the disk.
Effective(p) == IF overlay[p] # None THEN overlay[p] ELSE disk[p]

\* An analysis never answers with an old or a foreign text: every module the cache
\* has delivered to it is in the text of its overlay, or of its file where there is
\* none, unless that path was written since the analysis began.  So it is when the
\* analysis begins before setOverlay() or removeOverlay() has told the cache, when
\* artifacts and builds of earlier texts are around, and beside analyzeText() of
\* texts that are neither overlay nor file.
SnapshotIsTrue ==
    \A t \in Threads : \A m \in Known(thread[t].modules) \ changed[t] :
        thread[t].modules[m] = Effective(m)

\* Every analysis returns, cyclic imports and concurrent invalidations included.
AnalysisReturns == \A t \in Threads : ~At(t, "idle") ~> At(t, "idle")

=============================================================================
