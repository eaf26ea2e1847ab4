----------------------------- MODULE ModuleCache -----------------------------
(***************************************************************************)
(* zith::session::ModuleCache, the thread-safe cache of frontend artifacts *)
(* shared by all analyses of a workspace                                   *)
(* (src/session/frontend-context.hpp, src/session/frontend-module-cache.cpp)*)
(*                                                                         *)
(* Any number of threads call getOrBuild(), noteSource(),                  *)
(* updateDependencies() and invalidate(); the pool runs the builds.  Each  *)
(* critical section of mutex_ is one action; submit(), fulfilling a promise*)
(* and waiting for a future happen outside the lock and are actions of     *)
(* their own.  An artifact is abstracted to the fingerprint of the source  *)
(* it was built from, which is all getOrBuild() asks of it: buildModule()  *)
(* is a function of that source, never fails and never returns null.       *)
(* The hit, miss and eviction counters are left out.                       *)
(***************************************************************************)
EXTENDS Integers, FiniteSets

CONSTANTS
    CacheKeys,      \* CacheKey identities
    Paths,          \* canonical paths, which are also the module keys
    Fingerprints,   \* content revisions
    Clients,        \* concurrent callers of getOrBuild()
    Builds,         \* identities of promises, reused when nobody holds them
    None,           \* an absent map entry
    DependencySets, \* the sets updateDependencies() is called with, per path
    MaxEpoch        \* bound: no new invalidation once an epoch exceeds it

Keys == [cache : CacheKeys, path : Paths, fp : Fingerprints]

ASSUME PathsAssumption == IsFiniteSet(Paths)
ASSUME NoneAssumption  == None \notin Fingerprints \cup Builds \cup Keys
ASSUME DependencySetsAssumption == DependencySets \in [Paths -> SUBSET SUBSET Paths]
ASSUME MaxEpochAssumption == MaxEpoch \in Nat

VARIABLES
    current,    \* current_fingerprints_
    epochs,     \* epochs_, zero where the map has no entry
    artifacts,  \* artifacts_: bucket -> fingerprint of the cached artifact
    inFlight,   \* in_flight_: (cache key, path, fingerprint) -> promise
    deps,       \* dependencies_
    rdeps,      \* reverse_dependencies_
    build,      \* the promises and the tasks that will fulfil them
    client      \* what each caller of getOrBuild() is doing

vars == <<current, epochs, artifacts, inFlight, deps, rdeps, build, client>>

\* "created": promise made, task not yet submitted; "queued": owned by the pool,
\* queued or running; "published": the worker has left its critical section.
Active == [state : {"created", "queued", "published"}, key : Keys, epoch : Nat]
Fulfilled == [state |-> "fulfilled"]

\* A client holds the future of build[client[c].build] while in "submitting" and
\* "waiting".
Idle    == [state |-> "idle"]
Holding == [state : {"submitting", "waiting"}, build : Builds]

Holds(c, b) == client[c] # Idle /\ client[c].build = b
Pending(b)  == build[b] # Fulfilled /\ build[b].state # "published"
Free        == {b \in Builds : build[b] = Fulfilled /\ \A c \in Clients : ~Holds(c, b)}

-----------------------------------------------------------------------------
Init ==
    /\ current = [p \in Paths |-> None]
    /\ epochs = [p \in Paths |-> 0]
    /\ artifacts = [k \in CacheKeys |-> [p \in Paths |-> None]]
    /\ inFlight = [k \in Keys |-> None]
    /\ deps = [p \in Paths |-> {}]
    /\ rdeps = [p \in Paths |-> {}]
    /\ build = [b \in Builds |-> Fulfilled]
    /\ client = [c \in Clients |-> Idle]

\* What the worklist of invalidateLocked() visits: p and, transitively, every
\* recorded reverse dependent (InvalidationWorklist shows the loop computes it).
ClosedUnderDependents(S) == \A q \in S : rdeps[q] \subseteq S

Dependents(p) == {q \in Paths :
                    \A S \in SUBSET Paths : p \in S /\ ClosedUnderDependents(S) => q \in S}

\* ++epochs_[p]; invalidateLocked(p).  The loop bumps a dependent once for every
\* visited module that names it, and evicts what it visits from every bucket.
Invalidated(p) ==
    LET visited == Dependents(p)
        Bumps(q) == Cardinality({v \in visited : q \in rdeps[v]})
    IN  /\ \A q \in Paths : epochs[q] <= MaxEpoch
        /\ epochs' = [q \in Paths |-> epochs[q] + Bumps(q) + IF q = p THEN 1 ELSE 0]
        /\ artifacts' = [k \in CacheKeys |->
                            [q \in Paths |-> IF q \in visited THEN None ELSE artifacts[k][q]]]

\* The common head of getOrBuild() and noteSource(): a revision that is not the
\* current one replaces it and invalidates.
Noted(p, fp) ==
    IF current[p] = fp
      THEN UNCHANGED <<current, epochs, artifacts>>
      ELSE /\ current' = [current EXCEPT ![p] = fp]
           /\ Invalidated(p)

\* getOrBuild(), a miss: a promise for the epoch the path has now.
StartBuild(c, k, b) ==
    /\ build' = [build EXCEPT ![b] = [state |-> "created", key |-> k,
                                      epoch |-> epochs'[k.path]]]
    /\ inFlight' = [inFlight EXCEPT ![k] = b]
    /\ client' = [client EXCEPT ![c] = [state |-> "submitting", build |-> b]]

\* Mutant of GetOrBuild: nobody joins a build.
MissOf(c, k) == client[c] = Idle /\ Noted(k.path, k.fp) /\ artifacts'[k.cache][k.path] # k.fp

GetOrBuildAlone(c, k) ==
    /\ MissOf(c, k)
    /\ \E b \in Free : StartBuild(c, k, b)
    /\ UNCHANGED <<deps, rdeps>>

\* Mutant of GetOrBuild: the in-flight key is without the fingerprint.
GetOrBuildOfPath(c, k) ==
    LET running == {inFlight[j] : j \in {i \in Keys : i.cache = k.cache /\ i.path = k.path}} \ {None}
    IN  IF running = {}
          THEN GetOrBuildAlone(c, k)
          ELSE /\ MissOf(c, k)
               /\ \E b \in running : client' = [client EXCEPT ![c] = [state |-> "waiting", build |-> b]]
               /\ UNCHANGED <<inFlight, build, deps, rdeps>>

\* getOrBuild(), critical section.  Served from the cache the call returns a
\* ready future; it joins a build of the same revision when there is one, be it
\* of an older epoch; otherwise it starts a build of the epoch it sees now.
GetOrBuild(c, k) ==
    /\ client[c] = Idle
    /\ Noted(k.path, k.fp)
    /\ \/ /\ artifacts'[k.cache][k.path] = k.fp
          /\ UNCHANGED <<inFlight, build, client>>
       \/ /\ artifacts'[k.cache][k.path] # k.fp
          /\ inFlight[k] # None
          /\ client' = [client EXCEPT ![c] = [state |-> "waiting", build |-> inFlight[k]]]
          /\ UNCHANGED <<inFlight, build>>
       \/ /\ artifacts'[k.cache][k.path] # k.fp
          /\ inFlight[k] = None
          /\ \E b \in Free : StartBuild(c, k, b)
    /\ UNCHANGED <<deps, rdeps>>

\* getOrBuild(): executor.submit() after the unlock.
Submit(c) ==
    /\ client[c] # Idle /\ client[c].state = "submitting"
    /\ build' = [build EXCEPT ![client[c].build].state = "queued"]
    /\ client' = [client EXCEPT ![c].state = "waiting"]
    /\ UNCHANGED <<current, epochs, artifacts, inFlight, deps, rdeps>>

\* Mutants of Publishable: no check at all; the revision without the epoch.
PublishableAlways(b) == TRUE
PublishableRevision(b) == current[build[b].key.path] = build[b].key.fp

\* The worker has built the module: it takes its entry out of in_flight_ and
\* publishes the artifact unless the path was invalidated in the meantime.
Publishable(b) ==
    LET k == build[b].key
    IN  epochs[k.path] = build[b].epoch /\ current[k.path] = k.fp

\* Mutant of Publish: the entry of in_flight_ stays.
Published(b) ==
    LET k == build[b].key IN
    /\ artifacts' = [artifacts EXCEPT ![k.cache][k.path] = IF Publishable(b) THEN k.fp ELSE @]
    /\ build' = [build EXCEPT ![b].state = "published"]

PublishInFlight(b) ==
    /\ build[b] # Fulfilled /\ build[b].state = "queued"
    /\ Published(b)
    /\ UNCHANGED <<current, epochs, inFlight, deps, rdeps, client>>

Publish(b) ==
    LET k == build[b].key IN
    /\ build[b] # Fulfilled /\ build[b].state = "queued"
    /\ inFlight' = [inFlight EXCEPT ![k] = None]
    /\ artifacts' = IF Publishable(b)
                      THEN [artifacts EXCEPT ![k.cache][k.path] = k.fp]
                      ELSE artifacts
    /\ build' = [build EXCEPT ![b].state = "published"]
    /\ UNCHANGED <<current, epochs, deps, rdeps, client>>

\* worker_promise->set_value() after the unlock.
Fulfil(b) ==
    /\ build[b] # Fulfilled /\ build[b].state = "published"
    /\ build' = [build EXCEPT ![b] = Fulfilled]
    /\ UNCHANGED <<current, epochs, artifacts, inFlight, deps, rdeps, client>>

\* The caller's future.get() returns.
Receive(c) ==
    /\ client[c] # Idle /\ client[c].state = "waiting"
    /\ build[client[c].build] = Fulfilled
    /\ client' = [client EXCEPT ![c] = Idle]
    /\ UNCHANGED <<current, epochs, artifacts, inFlight, deps, rdeps, build>>

\* noteSource(): a changed revision.  (With the current one it changes nothing.)
NoteSource(p, fp) ==
    /\ current[p] # fp
    /\ Noted(p, fp)
    /\ UNCHANGED <<inFlight, deps, rdeps, build, client>>

\* invalidate(): the revision stays, its artifact and all dependents go.
Invalidate(p) ==
    /\ Invalidated(p)
    /\ UNCHANGED <<current, inFlight, deps, rdeps, build, client>>

\* Mutant of UpdateDependencies: old edges stay.
UpdateKeeping(p, ds) ==
    /\ deps' = [deps EXCEPT ![p] = ds]
    /\ rdeps' = [q \in Paths |-> rdeps[q] \cup (IF q \in ds THEN {p} ELSE {})]
    /\ UNCHANGED <<current, epochs, artifacts, inFlight, build, client>>

\* updateDependencies(): p leaves the reverse sets of its previous dependencies
\* and enters those of the new ones.
UpdateDependencies(p, ds) ==
    /\ deps' = [deps EXCEPT ![p] = ds]
    /\ rdeps' = [q \in Paths |->
                    (IF q \in deps[p] THEN rdeps[q] \ {p} ELSE rdeps[q])
                    \cup (IF q \in ds THEN {p} ELSE {})]
    /\ UNCHANGED <<current, epochs, artifacts, inFlight, build, client>>

CacheCall ==
    \/ \E c \in Clients, k \in Keys : GetOrBuild(c, k)
    \/ \E p \in Paths : Invalidate(p)
    \/ \E p \in Paths, fp \in Fingerprints : NoteSource(p, fp)
    \/ \E p \in Paths : \E ds \in DependencySets[p] : UpdateDependencies(p, ds)

BuildStep ==
    \/ \E b \in Builds : Publish(b) \/ Fulfil(b)
    \/ \E c \in Clients : Submit(c) \/ Receive(c)

Next == CacheCall \/ BuildStep

Spec == Init /\ [][Next]_vars

-----------------------------------------------------------------------------
TypeOK ==
    /\ current \in [Paths -> Fingerprints \cup {None}]
    /\ epochs \in [Paths -> Nat]
    /\ artifacts \in [CacheKeys -> [Paths -> Fingerprints \cup {None}]]
    /\ inFlight \in [Keys -> Builds \cup {None}]
    /\ deps \in [Paths -> SUBSET Paths]
    /\ rdeps \in [Paths -> SUBSET Paths]
    /\ build \in [Builds -> Active \cup {Fulfilled}]
    /\ client \in [Clients -> Holding \cup {Idle}]

\* A cached artifact is one of the newest revision noted for its path: neither a
\* build that finishes late nor a change back and forth between two revisions
\* leaves another one behind.
CachedIsCurrent ==
    \A k \in CacheKeys, p \in Paths : artifacts[k][p] # None => artifacts[k][p] = current[p]

\* The reverse edges invalidation follows are exactly the recorded imports,
\* whatever the order of updateDependencies() calls, cycles included.
ReverseExact == \A p, q \in Paths : p \in rdeps[q] <=> q \in deps[p]

\* in_flight_ names exactly the builds that have not reached their critical
\* section: a worker erases its own entry and never that of a later build.
InFlightExact ==
    /\ \A b \in Builds : Pending(b) => inFlight[build[b].key] = b
    /\ \A k \in Keys : inFlight[k] # None =>
          Pending(inFlight[k]) /\ build[inFlight[k]].key = k

\* A promise that was made is going to be kept: exactly one caller is about to
\* submit its task, until it is submitted.
OneSubmitter ==
    /\ \A c, d \in Clients :
          /\ client[c] # Idle /\ client[c].state = "submitting"
          /\ client[d] # Idle /\ client[d].state = "submitting"
          /\ client[c].build = client[d].build
          => c = d
    /\ \A c \in Clients : client[c] # Idle /\ client[c].state = "submitting" =>
          build[client[c].build] # Fulfilled /\ build[client[c].build].state = "created"
    /\ \A b \in Builds : build[b] # Fulfilled /\ build[b].state = "created" =>
          \E c \in Clients : client[c] = [state |-> "submitting", build |-> b]

\* No work is done twice: while a build may still publish, nothing is cached in
\* its bucket and no other build may publish there.
SingleFlight ==
    \A b \in Builds : Pending(b) /\ Publishable(b) =>
        /\ artifacts[build[b].key.cache][build[b].key.path] = None
        /\ \A a \in Builds : Pending(a) /\ Publishable(a) /\ a # b =>
              <<build[a].key.cache, build[a].key.path>> #
              <<build[b].key.cache, build[b].key.path>>

\* The cache implements its contract: comparing epochs at publication amounts to
\* revoking licences, and the reverse edges to the transitive importers.
Contract == INSTANCE CacheContract WITH
    cached <- artifacts,
    licence <- [b \in Builds |-> IF Pending(b) /\ Publishable(b) THEN build[b].key ELSE None]

ImplementsContract == Contract!Spec
=============================================================================
