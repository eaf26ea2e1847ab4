------------------------ MODULE InvalidationWorklist ------------------------
(***************************************************************************)
(* The loop of ModuleCache::invalidateLocked()                             *)
(* (src/session/frontend-module-cache.cpp), which ModuleCache takes as one *)
(* step: a worklist over the reverse edges with a visited set.  It runs    *)
(* under mutex_, so nothing interleaves with it; what has to be right is   *)
(* that it ends on a graph with cycles and shared dependents, and that the *)
(* modules whose epoch it raises are exactly those whose artifacts it      *)
(* evicts.                                                                 *)
(*                                                                         *)
(* The stack is taken as a bag from which any element may be popped: the   *)
(* order in which a FlatSet lists the dependents is that of their hashes.  *)
(***************************************************************************)
EXTENDS Integers, FiniteSets

CONSTANTS Modules

ASSUME ModulesAssumption == IsFiniteSet(Modules)

VARIABLES
    root,       \* the module handed to invalidateLocked()
    rdeps,      \* reverse_dependencies_, which the loop only reads
    pending,    \* how often each module occurs on the stack
    visited,    \* visited
    bumps,      \* how often ++epochs_[m] was executed for m
    evicted     \* modules whose artifacts were erased from every bucket

loopVars == <<root, rdeps, pending, visited, bumps, evicted>>

OnStack == {m \in Modules : pending[m] > 0}

LoopInit ==
    /\ root \in Modules
    /\ rdeps \in [Modules -> SUBSET Modules]
    /\ pending = [m \in Modules |-> IF m = root THEN 1 ELSE 0]
    /\ visited = {}
    /\ bumps = [m \in Modules |-> 0]
    /\ evicted = {}

Popped(m) == [pending EXCEPT ![m] = @ - 1]

\* Mutant of Skip: the module stays on the stack.
SkipInPlace(m) ==
    /\ m \in OnStack /\ m \in visited
    /\ UNCHANGED loopVars

\* A module that was visited before is dropped.
Skip(m) ==
    /\ m \in OnStack
    /\ m \in visited
    /\ pending' = Popped(m)
    /\ UNCHANGED <<root, rdeps, visited, bumps, evicted>>

\* Mutant of Visit: the root keeps its artifacts.
VisitKeepingRoot(m) ==
    /\ m \in OnStack \ visited
    /\ visited' = visited \cup {m}
    /\ evicted' = evicted \cup ({m} \ {root})
    /\ bumps' = [d \in Modules |-> IF d \in rdeps[m] THEN bumps[d] + 1 ELSE bumps[d]]
    /\ pending' = [d \in Modules |->
                      IF d \in rdeps[m] THEN Popped(m)[d] + 1 ELSE Popped(m)[d]]
    /\ UNCHANGED <<root, rdeps>>

\* Otherwise its artifacts go, and each dependent gets a new epoch and a turn.
Visit(m) ==
    /\ m \in OnStack
    /\ m \notin visited
    /\ visited' = visited \cup {m}
    /\ evicted' = evicted \cup {m}
    /\ bumps' = [d \in Modules |-> IF d \in rdeps[m] THEN bumps[d] + 1 ELSE bumps[d]]
    /\ pending' = [d \in Modules |->
                      IF d \in rdeps[m] THEN Popped(m)[d] + 1 ELSE Popped(m)[d]]
    /\ UNCHANGED <<root, rdeps>>

Returned == OnStack = {} /\ UNCHANGED loopVars

Loop == \E m \in Modules : Skip(m) \/ Visit(m)
LoopNext == Loop \/ Returned

LoopSpec == LoopInit /\ [][LoopNext]_loopVars
\* A single thread executes the loop.
FairLoop == LoopSpec /\ WF_loopVars(Loop)

-----------------------------------------------------------------------------
LoopTypeOK ==
    /\ root \in Modules
    /\ rdeps \in [Modules -> SUBSET Modules]
    /\ pending \in [Modules -> Nat]
    /\ visited \in SUBSET Modules
    /\ bumps \in [Modules -> Nat]
    /\ evicted \in SUBSET Modules

\* The definitions ModuleCache uses for the effect of the whole loop.
Closed(S) == \A q \in S : rdeps[q] \subseteq S
Dependents == {q \in Modules : \A S \in SUBSET Modules : root \in S /\ Closed(S) => q \in S}

\* The loop is sound at every step: it visits, bumps and evicts no module that
\* does not depend on the root.
OnlyDependents ==
    /\ visited \cup OnStack \subseteq Dependents
    /\ \A m \in Modules : bumps[m] > 0 => m \in Dependents

\* What the loop has done is consistent at every step: an epoch is raised once
\* per visited module that names it, and a raised module is evicted already or
\* still on the stack -- none is forgotten, also on a cycle.
NoneForgotten ==
    /\ \A m \in Modules : bumps[m] = Cardinality({v \in visited : m \in rdeps[v]})
    /\ \A m \in Modules : bumps[m] > 0 => m \in evicted \cup OnStack

\* When the loop ends it has had exactly the effect ModuleCache!Invalidated gives it.
EffectAtReturn ==
    OnStack = {} =>
        /\ visited = Dependents
        /\ evicted = Dependents
        /\ \A m \in Modules : bumps[m] = Cardinality({v \in Dependents : m \in rdeps[v]})

\* The loop ends, on every graph.
Terminates == <>(OnStack = {})
=============================================================================
