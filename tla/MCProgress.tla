------------------------------ MODULE MCProgress ------------------------------
(***************************************************************************)
(* What the frontend waits for comes: the pool runs what it accepted, the  *)
(* loop of invalidateLocked() ends, every analysis returns.  The three     *)
(* share no state here (ModuleCache composes pool, loop and cache), so a   *)
(* behaviour is one of `part` and leaves the two others in a first state.  *)
(***************************************************************************)
EXTENDS ModuleExecutor, InvalidationWorklist, TLC

CONSTANTS Paths, Texts, Threads, Editors, Builds, None, CacheId, CallerTexts,
          MaxEdits, MaxAnalyses, MaxEpoch
CONSTANTS main, dep, lib, old, new

VARIABLES current, epochs, artifacts, inFlight, deps, reverse, build, client,
          disk, overlay, thread, editor, edits, analyses, changed, part

\* The old text of main imports dep and lib in one round; dep imports lib, and
\* lib imports main back.
Fan == main :> (old :> {dep, lib} @@ new :> {}) @@
       dep  :> (old :> {lib} @@ new :> {}) @@
       lib  :> (old :> {main} @@ new :> {})

Context == INSTANCE FrontendContext WITH rdeps <- reverse, Imports <- Fan

ASSUME Context!ContextAssumption

contextVars == <<current, epochs, artifacts, inFlight, deps, reverse, build, client,
                 disk, overlay, thread, editor, edits, analyses, changed>>
allVars == <<vars, loopVars, contextVars, part>>

LoopIdle == /\ root = main /\ rdeps = [m \in Modules |-> {}] /\ visited = {main} /\ evicted = {main}
            /\ pending = [m \in Modules |-> 0] /\ bumps = [m \in Modules |-> 0]
ContextIdle == Context!Init /\ disk = [p \in Paths |-> old]

ProgressInit ==
  \/ part = "pool" /\ Init /\ LoopIdle /\ ContextIdle
  \/ part = "loop" /\ Init /\ LoopInit /\ ContextIdle
  \/ part = "context" /\ Init /\ LoopIdle /\ Context!Init

Pool(A) == part = "pool" /\ A /\ UNCHANGED <<loopVars, contextVars, part>>
OfLoop(A) == part = "loop" /\ A /\ UNCHANGED <<vars, contextVars, part>>
OfContext(A) == part = "context" /\ A /\ UNCHANGED <<vars, loopVars, part>>

ProgressNext == Pool(Next) \/ OfLoop(LoopNext) \/ OfContext(Context!Next)

\* The fairness of ModuleExecutor, InvalidationWorklist and FrontendContext,
\* each for its own part.
ProgressSpec ==
  /\ ProgressInit /\ [][ProgressNext]_allVars
  /\ \A w \in Workers : WF_allVars(Pool(WorkerStep(w)))
  /\ \A t \in Tasks : WF_allVars(Pool(NotifyOne(t)))
  /\ WF_allVars(Pool(NotifyAll)) /\ WF_allVars(Pool(Join))
  /\ WF_allVars(OfLoop(Loop))
  /\ \A t \in Threads : WF_allVars(OfContext(Context!AnalysisStep(t)))
  /\ \A e \in Editors : WF_allVars(OfContext(Context!EditorStep(e)))
  /\ WF_allVars(OfContext(Context!Worker))

AnalysisReturns == Context!AnalysisReturns
===============================================================================
