---------------------------- MODULE CacheContract ----------------------------
(***************************************************************************)
(* What ModuleCache promises its callers, without locks, epochs, promises  *)
(* or reverse edges: "Thread-safe cache of the newest module artifact per  *)
(* canonical path and CacheKey" (frontend-context.hpp) in which "a new     *)
(* revision invalidates that module and all reverse dependents before it   *)
(* can publish".                                                           *)
(*                                                                         *)
(* A build holds a licence to publish.  Whatever invalidates a module takes*)
(* back, in the same step, the artifacts and the licences of the module    *)
(* and of every module that imports it, directly or through others.        *)
(***************************************************************************)
CONSTANTS CacheKeys, Paths, Fingerprints, Builds, None, DependencySets

VARIABLES
    current,    \* the newest revision of each path
    cached,     \* the artifact served for each cache key and path
    deps,       \* the imports last reported for each module
    licence     \* the key each running build may still publish, or None

vars == <<current, cached, deps, licence>>

Keys == [cache : CacheKeys, path : Paths, fp : Fingerprints]

Init ==
    /\ current = [p \in Paths |-> None]
    /\ cached = [k \in CacheKeys |-> [p \in Paths |-> None]]
    /\ deps = [p \in Paths |-> {}]
    /\ licence = [b \in Builds |-> None]

\* p and every module that reaches p along recorded imports.
ClosedUnderImport(S) == \A q \in Paths : deps[q] \cap S # {} => q \in S
Importers(p) == {q \in Paths :
                   \A S \in SUBSET Paths : p \in S /\ ClosedUnderImport(S) => q \in S}

CachedWithout(D) ==
    [k \in CacheKeys |-> [q \in Paths |-> IF q \in D THEN None ELSE cached[k][q]]]
LicencesWithout(D) ==
    [b \in Builds |-> IF licence[b] # None /\ licence[b].path \in D THEN None ELSE licence[b]]

\* The modules a request for revision fp of p takes down first.
Outdated(p, fp) == IF current[p] = fp THEN {} ELSE Importers(p)

\* A caller names the revision it sees, and may be granted a build of it.
Note(p, fp) ==
    /\ current' = [current EXCEPT ![p] = fp]
    /\ cached' = CachedWithout(Outdated(p, fp))
    /\ licence' = LicencesWithout(Outdated(p, fp))
    /\ UNCHANGED deps

Begin(b, k) ==
    /\ licence[b] = None
    /\ current' = [current EXCEPT ![k.path] = k.fp]
    /\ cached' = CachedWithout(Outdated(k.path, k.fp))
    /\ cached'[k.cache][k.path] = None
    /\ \A a \in Builds : LicencesWithout(Outdated(k.path, k.fp))[a] # k
    /\ licence' = [LicencesWithout(Outdated(k.path, k.fp)) EXCEPT ![b] = k]
    /\ UNCHANGED deps

Withdraw(p) ==
    /\ cached' = CachedWithout(Importers(p))
    /\ licence' = LicencesWithout(Importers(p))
    /\ UNCHANGED <<current, deps>>

Publish(b) ==
    /\ licence[b] # None
    /\ cached' = [cached EXCEPT ![licence[b].cache][licence[b].path] = licence[b].fp]
    /\ licence' = [licence EXCEPT ![b] = None]
    /\ UNCHANGED <<current, deps>>

Import(p, ds) ==
    /\ deps' = [deps EXCEPT ![p] = ds]
    /\ UNCHANGED <<current, cached, licence>>

Next ==
    \/ \E p \in Paths, fp \in Fingerprints : Note(p, fp)
    \/ \E b \in Builds, k \in Keys : Begin(b, k)
    \/ \E p \in Paths : Withdraw(p)
    \/ \E b \in Builds : Publish(b)
    \/ \E p \in Paths : \E ds \in DependencySets[p] : Import(p, ds)

Spec == Init /\ [][Next]_vars

-----------------------------------------------------------------------------
\* Only the newest revision of a module is ever served.
ServesNewest == \A k \in CacheKeys, p \in Paths : cached[k][p] \in {None, current[p]}
=============================================================================
