-------------------------- MODULE ModuleCacheProofs --------------------------
(***************************************************************************)
(* The invariants of ModuleCache, proved for any number of callers, builds,*)
(* modules and revisions.                                                  *)
(***************************************************************************)
EXTENDS ModuleCache, FiniteSetTheorems, TLAPS

\* A build never carries an epoch its path has not reached yet; with epochs that
\* only grow, a build that missed its epoch can never publish again.
EpochsPast ==
    \A b \in Builds : build[b] # Fulfilled => build[b].epoch <= epochs[build[b].key.path]

\* The inductive invariant.  The types rest on OneSubmitter (only a task that
\* exists is submitted), SingleFlight on EpochsPast, InFlightExact and
\* CachedIsCurrent.
IInv ==
    /\ TypeOK
    /\ CachedIsCurrent
    /\ ReverseExact
    /\ EpochsPast
    /\ InFlightExact
    /\ OneSubmitter
    /\ SingleFlight

-----------------------------------------------------------------------------
\* The closure contains its root, stays inside Paths and is closed.
LEMMA DependentsClosure ==
    ASSUME TypeOK, NEW p \in Paths
    PROVE  /\ p \in Dependents(p)
           /\ Dependents(p) \in SUBSET Paths
           /\ \A v \in Dependents(p), q \in Paths : q \in rdeps[v] => q \in Dependents(p)
<1>1. p \in Dependents(p)
  BY DEF Dependents
<1>2. Dependents(p) \in SUBSET Paths
  BY DEF Dependents
<1>3. ASSUME NEW v \in Dependents(p), NEW q \in Paths, q \in rdeps[v]
      PROVE  q \in Dependents(p)
  <2>1. SUFFICES ASSUME NEW S \in SUBSET Paths, p \in S, ClosedUnderDependents(S)
                 PROVE  q \in S
    BY DEF Dependents
  <2>2. v \in S
    BY <2>1 DEF Dependents
  <2> QED
    BY <1>3, <2>1, <2>2 DEF ClosedUnderDependents
<1> QED
  BY <1>1, <1>2, <1>3

\* What every invalidation does, whichever call performs it: epochs only grow,
\* and where one has not grown neither the revision nor the artifacts changed.
Revoked ==
    /\ current' \in [Paths -> Fingerprints \cup {None}]
    /\ epochs' \in [Paths -> Nat]
    /\ artifacts' \in [CacheKeys -> [Paths -> Fingerprints \cup {None}]]
    /\ \A q \in Paths : epochs[q] <= epochs'[q]
    /\ \A q \in Paths : epochs'[q] = epochs[q] =>
          /\ current'[q] = current[q]
          /\ \A k \in CacheKeys : artifacts'[k][q] = artifacts[k][q]
    /\ \A q \in Paths, k \in CacheKeys : artifacts'[k][q] # None =>
          /\ artifacts'[k][q] = artifacts[k][q]
          /\ current'[q] = current[q]

\* The visited modules, and only those, get a new epoch.
LEMMA InvalidatedEpochs ==
    ASSUME TypeOK, NEW p \in Paths, Invalidated(p)
    PROVE  /\ epochs' \in [Paths -> Nat]
           /\ \A q \in Paths : epochs[q] <= epochs'[q]
           /\ epochs[p] < epochs'[p]
           /\ \A q \in Paths : q \notin Dependents(p) => epochs'[q] = epochs[q]
           /\ \A q \in Paths : q \in Dependents(p) => epochs[q] < epochs'[q]
<1> DEFINE visited == Dependents(p)
           Bumps(q) == Cardinality({v \in visited : q \in rdeps[v]})
<1>0. /\ p \in visited
      /\ visited \in SUBSET Paths
      /\ \A v \in visited, q \in Paths : q \in rdeps[v] => q \in visited
  BY DependentsClosure
<1>1. IsFiniteSet(visited)
  BY <1>0, PathsAssumption, FS_Subset
<1>2. \A q \in Paths : Bumps(q) \in Nat
  <2> TAKE q \in Paths
  <2>1. IsFiniteSet({v \in visited : q \in rdeps[v]})
    BY <1>1, FS_Subset
  <2> QED
    BY <2>1, FS_CardinalityType
<1>3. \A q \in Paths : epochs'[q] = epochs[q] + Bumps(q) + (IF q = p THEN 1 ELSE 0)
  BY DEF Invalidated
<1>4. epochs' = [q \in Paths |-> epochs[q] + Bumps(q) + (IF q = p THEN 1 ELSE 0)]
  BY DEF Invalidated
<1>5. \A q \in Paths : epochs[q] \in Nat
  BY DEF TypeOK
<1>6. \A q \in Paths : q \notin visited => Bumps(q) = 0
  <2> SUFFICES ASSUME NEW q \in Paths, q \notin visited
               PROVE  Bumps(q) = 0
    OBVIOUS
  <2>1. {v \in visited : q \in rdeps[v]} = {}
    BY <1>0
  <2> QED
    BY <2>1, FS_EmptySet
<1>7. \A q \in Paths : q \in visited /\ q # p => Bumps(q) > 0
  <2> SUFFICES ASSUME NEW q \in Paths, q \in visited, q # p
               PROVE  Bumps(q) > 0
    OBVIOUS
  <2>1. PICK v \in visited : q \in rdeps[v]
    <3>1. SUFFICES ASSUME \A v \in visited : q \notin rdeps[v]
                   PROVE  FALSE
      OBVIOUS
    <3>2. ClosedUnderDependents(visited \ {q})
      <4>1. \A v \in visited : rdeps[v] \subseteq Paths
        BY <1>0 DEF TypeOK
      <4> QED
        BY <1>0, <3>1, <4>1 DEF ClosedUnderDependents
    <3>3. q \in visited \ {q}
      BY <1>0, <3>2 DEF Dependents
    <3> QED
      BY <3>3
  <2>2. {u \in visited : q \in rdeps[u]} # {}
    BY <2>1
  <2>3. IsFiniteSet({u \in visited : q \in rdeps[u]})
    BY <1>1, FS_Subset
  <2>4. Bumps(q) # 0
    BY <2>2, <2>3, FS_EmptySet
  <2> QED
    BY <1>2, <2>4
<1> HIDE DEF Bumps, visited
<1>8. epochs' \in [Paths -> Nat]
  BY <1>2, <1>4, <1>5
<1> QED
  BY <1>0, <1>2, <1>3, <1>5, <1>6, <1>7, <1>8 DEF visited

\* invalidate() and the invalidating half of noteSource() and getOrBuild().
LEMMA InvalidatedArtifacts ==
    ASSUME TypeOK, NEW p \in Paths, Invalidated(p)
    PROVE  /\ artifacts' \in [CacheKeys -> [Paths -> Fingerprints \cup {None}]]
           /\ \A q \in Paths, k \in CacheKeys :
                 artifacts'[k][q] = IF q \in Dependents(p) THEN None ELSE artifacts[k][q]
  BY DEF Invalidated, TypeOK

LEMMA InvalidatedRevokes ==
    ASSUME TypeOK, NEW p \in Paths, Invalidated(p), UNCHANGED current
    PROVE  Revoked
<1>1. current' \in [Paths -> Fingerprints \cup {None}]
  BY DEF TypeOK
<1>2. \A q \in Paths : epochs'[q] = epochs[q] => q \notin Dependents(p)
  <2>1. \A q \in Paths : epochs[q] \in Nat
    BY DEF TypeOK
  <2> QED
    BY <2>1, InvalidatedEpochs
<1> QED
  BY <1>1, <1>2, InvalidatedEpochs, InvalidatedArtifacts DEF Revoked

LEMMA NotedRevokes ==
    ASSUME TypeOK, NEW p \in Paths, NEW fp \in Fingerprints, Noted(p, fp)
    PROVE  Revoked /\ current'[p] = fp
<1>1. CASE current[p] = fp
  BY <1>1 DEF Noted, Revoked, TypeOK
<1>2. CASE current[p] # fp
  <2>1. /\ current' = [current EXCEPT ![p] = fp]
        /\ Invalidated(p)
    BY <1>2 DEF Noted
  <2>2. /\ current' \in [Paths -> Fingerprints \cup {None}]
        /\ current'[p] = fp
        /\ \A q \in Paths : q # p => current'[q] = current[q]
    BY <2>1 DEF TypeOK
  <2>3. \A q \in Paths : epochs'[q] = epochs[q] => q \notin Dependents(p)
    <3>1. \A q \in Paths : epochs[q] \in Nat
      BY DEF TypeOK
    <3> QED
      BY <2>1, <3>1, InvalidatedEpochs
  <2>4. p \in Dependents(p)
    BY DependentsClosure
  <2> QED
    BY <2>1, <2>2, <2>3, <2>4, InvalidatedEpochs, InvalidatedArtifacts DEF Revoked
<1> QED
  BY <1>1, <1>2

-----------------------------------------------------------------------------
\* Dependents is read by the steps only through the lemmas above.
LEMMA InitIInv == Init => IInv
  BY DEF Init, IInv, TypeOK, CachedIsCurrent, ReverseExact, EpochsPast, InFlightExact,
         OneSubmitter, SingleFlight, Pending, Fulfilled, Idle, Keys

\* The conjuncts about the maps survive any revocation.
LEMMA RevokedKeeps ==
    ASSUME TypeOK, Revoked, CachedIsCurrent
    PROVE  CachedIsCurrent'
  BY DEF TypeOK, Revoked, CachedIsCurrent

LEMMA RevokedKeepsEpochs ==
    ASSUME TypeOK, Revoked, EpochsPast, UNCHANGED build
    PROVE  EpochsPast'
<1> SUFFICES ASSUME NEW b \in Builds, build[b] # Fulfilled
             PROVE  build[b].epoch <= epochs'[build[b].key.path]
  BY DEF EpochsPast
<1>1. build[b].epoch \in Nat /\ build[b].key.path \in Paths
  BY DEF TypeOK, Active, Keys
<1>2. build[b].epoch <= epochs[build[b].key.path]
  BY DEF EpochsPast
<1>3. /\ epochs[build[b].key.path] \in Nat
      /\ epochs'[build[b].key.path] \in Nat
      /\ epochs[build[b].key.path] <= epochs'[build[b].key.path]
  BY <1>1 DEF TypeOK, Revoked
<1> QED
  BY <1>1, <1>2, <1>3

\* A build that could not publish before a revocation cannot publish after it.
LEMMA PublishableOnlyShrinks ==
    ASSUME TypeOK, Revoked, EpochsPast,
           NEW b \in Builds, build[b] # Fulfilled,
           LET k == build[b].key
           IN  epochs'[k.path] = build[b].epoch /\ current'[k.path] = k.fp
    PROVE  /\ Publishable(b)
           /\ \A c \in CacheKeys :
                 artifacts'[c][build[b].key.path] = artifacts[c][build[b].key.path]
<1>1. build[b].epoch \in Nat /\ build[b].key.path \in Paths
  BY DEF TypeOK, Active, Keys
<1>2. build[b].epoch <= epochs[build[b].key.path]
  BY DEF EpochsPast
<1>3. /\ epochs[build[b].key.path] \in Nat
      /\ epochs[build[b].key.path] <= epochs'[build[b].key.path]
  BY <1>1 DEF TypeOK, Revoked
<1>4. epochs'[build[b].key.path] = epochs[build[b].key.path]
  BY <1>1, <1>2, <1>3
<1> QED
  BY <1>1, <1>4 DEF Revoked, Publishable

LEMMA RevokedKeepsSingleFlight ==
    ASSUME TypeOK, Revoked, EpochsPast, SingleFlight, UNCHANGED build
    PROVE  SingleFlight'
<1>1. \A b \in Builds : Pending(b)' => Pending(b)
  BY DEF Pending
<1>2. \A b \in Builds : Pending(b)' /\ Publishable(b)' =>
        /\ Publishable(b)
        /\ \A c \in CacheKeys :
              artifacts'[c][build[b].key.path] = artifacts[c][build[b].key.path]
  BY PublishableOnlyShrinks DEF Pending, Publishable
<1>3. \A b \in Builds : Pending(b) => build[b].key.cache \in CacheKeys
  BY DEF Pending, TypeOK, Active, Keys
<1> QED
  BY <1>1, <1>2, <1>3 DEF SingleFlight

-----------------------------------------------------------------------------
LEMMA TypeOKStep ==
    ASSUME TypeOK, OneSubmitter, [Next]_vars
    PROVE  TypeOK'
<1>1. ASSUME NEW c \in Clients, NEW k \in Keys, GetOrBuild(c, k)
      PROVE  TypeOK'
  <2>1. k.path \in Paths /\ k.fp \in Fingerprints
    BY DEF Keys
  <2>2. Revoked
    BY <1>1, <2>1, NotedRevokes DEF GetOrBuild
  <2>3. UNCHANGED <<deps, rdeps>>
    BY <1>1 DEF GetOrBuild
  <2>4. CASE UNCHANGED <<inFlight, build, client>>
    BY <2>2, <2>3, <2>4 DEF TypeOK, Revoked
  <2>5. CASE /\ inFlight[k] # None
             /\ client' = [client EXCEPT ![c] = [state |-> "waiting", build |-> inFlight[k]]]
             /\ UNCHANGED <<inFlight, build>>
    <3>1. inFlight[k] \in Builds
      BY <2>5 DEF TypeOK
    <3>2. client' \in [Clients -> Holding \cup {Idle}]
      BY <2>5, <3>1 DEF TypeOK, Holding
    <3> QED
      BY <2>2, <2>3, <2>5, <3>2 DEF TypeOK, Revoked
  <2>6. ASSUME NEW b \in Free, StartBuild(c, k, b)
        PROVE  TypeOK'
    <3>1. b \in Builds /\ epochs'[k.path] \in Nat
      BY <2>1, <2>2 DEF Free, Revoked
    <3>2. build' \in [Builds -> Active \cup {Fulfilled}]
      BY <2>6, <3>1 DEF StartBuild, TypeOK, Active
    <3>3. inFlight' \in [Keys -> Builds \cup {None}]
      BY <2>6, <3>1 DEF StartBuild, TypeOK
    <3>4. client' \in [Clients -> Holding \cup {Idle}]
      BY <2>6, <3>1 DEF StartBuild, TypeOK, Holding
    <3> QED
      BY <2>2, <2>3, <3>2, <3>3, <3>4 DEF TypeOK, Revoked
  <2> QED
    BY <1>1, <2>4, <2>5, <2>6 DEF GetOrBuild
<1>2. ASSUME NEW p \in Paths, Invalidate(p)
      PROVE  TypeOK'
  BY <1>2, InvalidatedRevokes DEF Invalidate, Revoked, TypeOK
<1>3. ASSUME NEW p \in Paths, NEW fp \in Fingerprints, NoteSource(p, fp)
      PROVE  TypeOK'
  BY <1>3, NotedRevokes DEF NoteSource, Revoked, TypeOK
<1>4. ASSUME NEW p \in Paths, NEW ds \in DependencySets[p], UpdateDependencies(p, ds)
      PROVE  TypeOK'
  <2>1. ds \in SUBSET Paths
    BY DependencySetsAssumption
  <2> QED
    BY <1>4, <2>1 DEF UpdateDependencies, TypeOK
<1>5. ASSUME NEW b \in Builds, Publish(b)
      PROVE  TypeOK'
  <2>1. /\ build[b] \in Active
        /\ build[b].key \in Keys
        /\ build[b].key.cache \in CacheKeys
        /\ build[b].key.path \in Paths
        /\ build[b].key.fp \in Fingerprints
    BY <1>5 DEF Publish, TypeOK, Active, Keys
  <2>2. inFlight' \in [Keys -> Builds \cup {None}]
    BY <1>5, <2>1 DEF Publish, TypeOK
  <2>3. artifacts' \in [CacheKeys -> [Paths -> Fingerprints \cup {None}]]
    BY <1>5, <2>1 DEF Publish, TypeOK
  <2>4. build' \in [Builds -> Active \cup {Fulfilled}]
    BY <1>5, <2>1 DEF Publish, TypeOK, Active
  <2> QED
    BY <1>5, <2>2, <2>3, <2>4 DEF Publish, TypeOK
<1>6. ASSUME NEW b \in Builds, Fulfil(b)
      PROVE  TypeOK'
  BY <1>6 DEF Fulfil, TypeOK
<1>7. ASSUME NEW c \in Clients, Submit(c)
      PROVE  TypeOK'
  <2>1. client[c] \in Holding /\ client[c].build \in Builds
    BY <1>7 DEF Submit, TypeOK, Holding
  <2>2. client' \in [Clients -> Holding \cup {Idle}]
    BY <1>7, <2>1 DEF Submit, TypeOK, Holding
  <2>3. build[client[c].build] \in Active
    BY <1>7, <2>1 DEF Submit, TypeOK, OneSubmitter
  <2>4. build' \in [Builds -> Active \cup {Fulfilled}]
    BY <1>7, <2>1, <2>3 DEF Submit, TypeOK, Active
  <2> QED
    BY <1>7, <2>2, <2>4 DEF Submit, TypeOK
<1>8. ASSUME NEW c \in Clients, Receive(c)
      PROVE  TypeOK'
  BY <1>8 DEF Receive, TypeOK
<1>9. CASE UNCHANGED vars
  BY <1>9 DEF vars, TypeOK
<1> QED
  BY <1>1, <1>2, <1>3, <1>4, <1>5, <1>6, <1>7, <1>8, <1>9
  DEF Next, CacheCall, BuildStep

\* The two steps that touch the maps other than by a revocation.
LEMMA GetOrBuildRevokes ==
    ASSUME TypeOK, NEW c \in Clients, NEW k \in Keys, GetOrBuild(c, k)
    PROVE  /\ Revoked
           /\ current'[k.path] = k.fp
           /\ UNCHANGED <<deps, rdeps>>
<1>1. k.path \in Paths /\ k.fp \in Fingerprints
  BY DEF Keys
<1> QED
  BY <1>1, NotedRevokes DEF GetOrBuild

LEMMA PublishedBuild ==
    ASSUME TypeOK, NEW b \in Builds, Publish(b)
    PROVE  /\ build[b] \in Active
           /\ build[b].key \in Keys
           /\ build[b].key.cache \in CacheKeys
           /\ build[b].key.path \in Paths
           /\ build[b].key.fp \in Fingerprints
           /\ Pending(b)
           /\ ~Pending(b)'
           /\ \A a \in Builds : a # b => build'[a] = build[a]
<1>1. build[b] \in Active
  BY DEF Publish, TypeOK
<1>2. build'[b].state = "published"
  BY <1>1 DEF Publish, TypeOK, Active
<1> QED
  BY <1>1, <1>2 DEF Publish, TypeOK, Active, Keys, Pending

\* The artifacts after a publication, entry by entry.
LEMMA PublishedArtifacts ==
    ASSUME TypeOK, NEW b \in Builds, Publish(b),
           NEW q \in CacheKeys, NEW p \in Paths
    PROVE  artifacts'[q][p] = IF /\ Publishable(b)
                                 /\ q = build[b].key.cache /\ p = build[b].key.path
                                THEN build[b].key.fp
                                ELSE artifacts[q][p]
  BY PublishedBuild DEF Publish, TypeOK

-----------------------------------------------------------------------------
LEMMA CachedIsCurrentStep ==
    ASSUME TypeOK, CachedIsCurrent, [Next]_vars
    PROVE  CachedIsCurrent'
<1>1. ASSUME NEW c \in Clients, NEW k \in Keys, GetOrBuild(c, k)
      PROVE  CachedIsCurrent'
  BY <1>1, GetOrBuildRevokes, RevokedKeeps
<1>2. ASSUME NEW p \in Paths, Invalidate(p)
      PROVE  CachedIsCurrent'
  BY <1>2, InvalidatedRevokes, RevokedKeeps DEF Invalidate
<1>3. ASSUME NEW p \in Paths, NEW fp \in Fingerprints, NoteSource(p, fp)
      PROVE  CachedIsCurrent'
  BY <1>3, NotedRevokes, RevokedKeeps DEF NoteSource
<1>4. ASSUME NEW b \in Builds, Publish(b)
      PROVE  CachedIsCurrent'
  <2>1. UNCHANGED current
    BY <1>4 DEF Publish
  <2> QED
    BY <1>4, <2>1, PublishedArtifacts DEF CachedIsCurrent, Publishable
<1>5. CASE UNCHANGED <<current, artifacts>>
  BY <1>5 DEF CachedIsCurrent
<1> QED
  BY <1>1, <1>2, <1>3, <1>4, <1>5
  DEF Next, CacheCall, BuildStep, vars, UpdateDependencies, Fulfil, Submit, Receive

LEMMA ReverseExactStep ==
    ASSUME TypeOK, ReverseExact, [Next]_vars
    PROVE  ReverseExact'
<1>1. ASSUME NEW p \in Paths, NEW ds \in DependencySets[p], UpdateDependencies(p, ds)
      PROVE  ReverseExact'
  BY <1>1, DependencySetsAssumption DEF UpdateDependencies, TypeOK, ReverseExact
<1>2. CASE UNCHANGED <<deps, rdeps>>
  BY <1>2 DEF ReverseExact
<1> QED
  BY <1>1, <1>2
  DEF Next, CacheCall, BuildStep, vars, GetOrBuild, Invalidate, NoteSource, Publish, Fulfil,
      Submit, Receive

\* The build a miss creates, seen from every other build, key and caller.
LEMMA Miss ==
    ASSUME TypeOK, NEW c \in Clients, NEW k \in Keys, NEW b \in Free, StartBuild(c, k, b)
    PROVE  /\ b \in Builds
           /\ build[b] = Fulfilled
           /\ build'[b] # Fulfilled
           /\ build'[b].state = "created"
           /\ build'[b].key = k
           /\ build'[b].epoch = epochs'[k.path]
           /\ \A a \in Builds : a # b => build'[a] = build[a]
           /\ \A d \in Clients : ~Holds(d, b)
           /\ inFlight'[k] = b
           /\ \A j \in Keys : j # k => inFlight'[j] = inFlight[j]
<1>1. b \in Builds /\ build[b] = Fulfilled
  BY DEF Free
<1>2. build'[b] = [state |-> "created", key |-> k, epoch |-> epochs'[k.path]]
  BY <1>1 DEF StartBuild, TypeOK
<1>3. build'[b].state = "created" /\ Fulfilled.state = "fulfilled"
  BY <1>2 DEF Fulfilled
<1> QED
  BY <1>1, <1>2, <1>3 DEF StartBuild, Free, Pending, TypeOK

LEMMA EpochsPastStep ==
    ASSUME TypeOK, OneSubmitter, EpochsPast, [Next]_vars
    PROVE  EpochsPast'
<1>1. ASSUME NEW c \in Clients, NEW k \in Keys, GetOrBuild(c, k)
      PROVE  EpochsPast'
  <2>1. Revoked
    BY <1>1, GetOrBuildRevokes
  <2>2. CASE UNCHANGED build
    BY <2>1, <2>2, RevokedKeepsEpochs
  <2>3. ASSUME NEW b \in Free, StartBuild(c, k, b)
        PROVE  EpochsPast'
    <3>1. SUFFICES ASSUME NEW a \in Builds, build'[a] # Fulfilled
                   PROVE  build'[a].epoch <= epochs'[build'[a].key.path]
      BY DEF EpochsPast
    <3>2. CASE a = b
      <4>1. epochs'[k.path] \in Nat
        BY <2>1 DEF Revoked, Keys
      <4> QED
        BY <2>3, <3>2, <4>1, Miss
    <3>3. CASE a # b
      <4>1. build'[a] = build[a]
        BY <2>3, <3>3, Miss
      <4>2. build[a].epoch \in Nat /\ build[a].key.path \in Paths
        BY <3>1, <4>1 DEF TypeOK, Active, Keys
      <4>3. build[a].epoch <= epochs[build[a].key.path]
        BY <3>1, <4>1 DEF EpochsPast
      <4>4. /\ epochs[build[a].key.path] \in Nat
            /\ epochs'[build[a].key.path] \in Nat
            /\ epochs[build[a].key.path] <= epochs'[build[a].key.path]
        BY <2>1, <4>2 DEF TypeOK, Revoked
      <4> QED
        BY <4>1, <4>2, <4>3, <4>4
    <3> QED
      BY <3>2, <3>3
  <2> QED
    BY <1>1, <2>2, <2>3 DEF GetOrBuild
<1>2. ASSUME NEW p \in Paths, Invalidate(p)
      PROVE  EpochsPast'
  BY <1>2, InvalidatedRevokes, RevokedKeepsEpochs DEF Invalidate
<1>3. ASSUME NEW p \in Paths, NEW fp \in Fingerprints, NoteSource(p, fp)
      PROVE  EpochsPast'
  BY <1>3, NotedRevokes, RevokedKeepsEpochs DEF NoteSource
<1>4. ASSUME NEW b \in Builds, Publish(b)
      PROVE  EpochsPast'
  BY <1>4 DEF Publish, TypeOK, EpochsPast, Active, Fulfilled
<1>5. ASSUME NEW b \in Builds, Fulfil(b)
      PROVE  EpochsPast'
  BY <1>5 DEF Fulfil, TypeOK, EpochsPast
<1>6. ASSUME NEW c \in Clients, Submit(c)
      PROVE  EpochsPast'
  <2>1. client[c].build \in Builds /\ build[client[c].build] \in Active
    BY <1>6 DEF Submit, TypeOK, Holding, OneSubmitter
  <2> QED
    BY <1>6, <2>1 DEF Submit, TypeOK, EpochsPast, Active, OneSubmitter
<1>7. CASE UNCHANGED <<epochs, build>>
  BY <1>7 DEF EpochsPast
<1> QED
  BY <1>1, <1>2, <1>3, <1>4, <1>5, <1>6, <1>7
  DEF Next, CacheCall, BuildStep, vars, UpdateDependencies, Receive

LEMMA InFlightExactStep ==
    ASSUME TypeOK, OneSubmitter, InFlightExact, [Next]_vars
    PROVE  InFlightExact'
<1> USE NoneAssumption DEF Pending
<1>1. ASSUME NEW c \in Clients, NEW k \in Keys, GetOrBuild(c, k)
      PROVE  InFlightExact'
  <2>1. CASE UNCHANGED <<inFlight, build>>
    BY <2>1 DEF InFlightExact
  <2>2. ASSUME NEW b \in Free, inFlight[k] = None, StartBuild(c, k, b)
        PROVE  InFlightExact'
    <3>1. /\ b \in Builds
          /\ ~Pending(b)
          /\ build'[b].key = k
          /\ Pending(b)'
          /\ \A a \in Builds : a # b => build'[a] = build[a]
      BY <2>2, Miss
    <3>2. /\ inFlight'[k] = b
          /\ \A j \in Keys : j # k => inFlight'[j] = inFlight[j]
      BY <2>2, Miss
    <3>3. \A a \in Builds : Pending(a) => build[a].key \in Keys
      BY DEF TypeOK, Active
    <3>4. \A a \in Builds : a # b => (Pending(a)' <=> Pending(a))
      BY <3>1
    <3>5. \A j \in Keys : inFlight[j] # None => inFlight[j] \in Builds /\ inFlight[j] # b
      BY <3>1 DEF TypeOK, InFlightExact
    <3>6. \A a \in Builds : Pending(a)' => inFlight'[build'[a].key] = a
      BY <2>2, <3>1, <3>2, <3>3, <3>4 DEF InFlightExact
    <3>7. \A j \in Keys : inFlight'[j] # None =>
             Pending(inFlight[j])' /\ build'[inFlight'[j]].key = j
      <4> SUFFICES ASSUME NEW j \in Keys, inFlight'[j] # None
                   PROVE  Pending(inFlight[j])' /\ build'[inFlight'[j]].key = j
        OBVIOUS
      <4>1. CASE j = k
        BY <3>1, <3>2, <4>1
      <4>2. CASE j # k
        <5>1. inFlight'[j] = inFlight[j] /\ inFlight[j] \in Builds /\ inFlight[j] # b
          BY <3>2, <3>5, <4>2
        <5> QED
          BY <3>1, <5>1 DEF InFlightExact
      <4> QED
        BY <4>1, <4>2
    <3> QED
      BY <3>6, <3>7 DEF InFlightExact
  <2> QED
    BY <1>1, <2>1, <2>2 DEF GetOrBuild
<1>2. ASSUME NEW b \in Builds, Publish(b)
      PROVE  InFlightExact'
  <2>1. /\ build[b].key \in Keys
        /\ Pending(b)
        /\ ~Pending(b)'
        /\ \A a \in Builds : a # b => build'[a] = build[a]
    BY <1>2, PublishedBuild
  <2>2. /\ inFlight'[build[b].key] = None
        /\ \A j \in Keys : j # build[b].key => inFlight'[j] = inFlight[j]
    BY <1>2, <2>1 DEF Publish, TypeOK
  <2>3. \A j \in Keys : inFlight[j] = b => j = build[b].key
    BY DEF InFlightExact
  <2>4. \A a \in Builds : Pending(a) => build[a].key \in Keys
    BY DEF TypeOK, Active
  <2>5. \A a \in Builds : a # b => (Pending(a)' <=> Pending(a))
    BY <2>1
  <2>6. \A a \in Builds : Pending(a)' => inFlight'[build'[a].key] = a
    BY <2>1, <2>2, <2>4, <2>5 DEF InFlightExact
  <2>7. \A j \in Keys : inFlight'[j] # None =>
           Pending(inFlight[j])' /\ build'[inFlight'[j]].key = j
    <3> SUFFICES ASSUME NEW j \in Keys, inFlight'[j] # None
                 PROVE  Pending(inFlight[j])' /\ build'[inFlight'[j]].key = j
      OBVIOUS
    <3>1. inFlight'[j] = inFlight[j] /\ inFlight[j] \in Builds /\ inFlight[j] # b
      BY <2>2, <2>3 DEF TypeOK
    <3> QED
      BY <2>1, <3>1 DEF InFlightExact
  <2> QED
    BY <2>6, <2>7 DEF InFlightExact
<1>3. ASSUME NEW b \in Builds, Fulfil(b)
      PROVE  InFlightExact'
  <2>1. /\ ~Pending(b) /\ ~Pending(b)'
        /\ \A a \in Builds : a # b => build'[a] = build[a]
        /\ UNCHANGED inFlight
    BY <1>3 DEF Fulfil, TypeOK
  <2> QED
    BY <2>1 DEF InFlightExact, TypeOK
<1>4. ASSUME NEW c \in Clients, Submit(c)
      PROVE  InFlightExact'
  <2>1. PICK b \in Builds : b = client[c].build /\ build[b] \in Active /\ build[b].state = "created"
    BY <1>4 DEF Submit, TypeOK, Holding, OneSubmitter
  <2>2. /\ build'[b].state = "queued" /\ build'[b].key = build[b].key
        /\ \A a \in Builds : a # b => build'[a] = build[a]
        /\ UNCHANGED inFlight
    BY <1>4, <2>1 DEF Submit, TypeOK, Active
  <2>3. Pending(b) /\ Pending(b)'
    <3>1. Fulfilled.state = "fulfilled"
      BY DEF Fulfilled
    <3> QED
      BY <2>1, <2>2, <3>1
  <2>4. \A a \in Builds : (Pending(a)' <=> Pending(a)) /\ build'[a].key = build[a].key
    BY <2>2, <2>3
  <2>5. \A a \in Builds : Pending(a)' => inFlight'[build'[a].key] = a
    BY <2>2, <2>4 DEF InFlightExact
  <2>6. \A j \in Keys : inFlight'[j] # None =>
           Pending(inFlight[j])' /\ build'[inFlight'[j]].key = j
    <3> SUFFICES ASSUME NEW j \in Keys, inFlight[j] # None
                 PROVE  Pending(inFlight[j])' /\ build'[inFlight[j]].key = j
      BY <2>2
    <3>1. inFlight[j] \in Builds
      BY DEF TypeOK
    <3> QED
      BY <2>2, <2>4, <3>1 DEF InFlightExact
  <2> QED
    BY <2>5, <2>6 DEF InFlightExact
<1>5. CASE UNCHANGED <<inFlight, build>>
  BY <1>5 DEF InFlightExact
<1> QED
  BY <1>1, <1>2, <1>3, <1>4, <1>5
  DEF Next, CacheCall, BuildStep, vars, Invalidate, NoteSource, UpdateDependencies, Receive

LEMMA OneSubmitterStep ==
    ASSUME TypeOK, OneSubmitter, [Next]_vars
    PROVE  OneSubmitter'
<1> DEFINE Submitting(c) == client[c] # Idle /\ client[c].state = "submitting"
<1> USE DEF OneSubmitter
<1>0. Idle.state = "idle" /\ Fulfilled.state = "fulfilled"
  BY DEF Idle, Fulfilled
<1>1. ASSUME NEW c \in Clients, NEW k \in Keys, GetOrBuild(c, k)
      PROVE  OneSubmitter'
  <2>1. CASE UNCHANGED <<build, client>>
    BY <2>1
  <2>2. CASE /\ inFlight[k] # None
             /\ client' = [client EXCEPT ![c] = [state |-> "waiting", build |-> inFlight[k]]]
             /\ UNCHANGED <<inFlight, build>>
    <3>1. /\ client'[c].state = "waiting"
          /\ \A d \in Clients : d # c => client'[d] = client[d]
      BY <2>2 DEF TypeOK
    <3>2. client[c] = Idle
      BY <1>1 DEF GetOrBuild
    <3>3. ASSUME NEW b \in Builds, build'[b] # Fulfilled, build'[b].state = "created"
          PROVE  \E d \in Clients : client'[d] = [state |-> "submitting", build |-> b]
      <4>1. PICK d \in Clients : client[d] = [state |-> "submitting", build |-> b]
        BY <2>2, <3>3
      <4>2. d # c
        BY <1>0, <3>2, <4>1
      <4> QED
        BY <3>1, <4>1, <4>2
    <3> QED
      BY <2>2, <3>1, <3>3
  <2>3. ASSUME NEW b \in Free, StartBuild(c, k, b)
        PROVE  OneSubmitter'
    <3>1. /\ client'[c] = [state |-> "submitting", build |-> b]
          /\ \A d \in Clients : d # c => client'[d] = client[d]
      BY <2>3 DEF StartBuild, TypeOK
    <3>2. client[c] = Idle
      BY <1>1 DEF GetOrBuild
    <3>3. \A d \in Clients : client[d] # Idle => client[d].build # b
      BY <2>3, Miss DEF Holds
    <3>4. /\ b \in Builds
          /\ build[b] = Fulfilled
          /\ build'[b] # Fulfilled
          /\ build'[b].state = "created"
          /\ \A a \in Builds : a # b => build'[a] = build[a]
      BY <2>3, Miss
    <3>5. ASSUME NEW d \in Clients, Submitting(d)'
          PROVE  build'[client'[d].build] # Fulfilled /\ build'[client'[d].build].state = "created"
      <4>1. CASE d = c
        BY <3>1, <3>4, <4>1
      <4>2. CASE d # c
        <5>1. client'[d] = client[d] /\ client[d].build # b /\ client[d].build \in Builds
          BY <3>1, <3>3, <3>5, <4>2 DEF TypeOK, Holding
        <5> QED
          BY <3>4, <3>5, <5>1
      <4> QED
        BY <4>1, <4>2
    <3>6. ASSUME NEW a \in Builds, build'[a] # Fulfilled, build'[a].state = "created"
          PROVE  \E d \in Clients : client'[d] = [state |-> "submitting", build |-> a]
      <4>1. CASE a = b
        BY <3>1, <4>1
      <4>2. CASE a # b
        <5>1. PICK d \in Clients : client[d] = [state |-> "submitting", build |-> a]
          BY <3>4, <3>6, <4>2
        <5>2. d # c
          BY <1>0, <3>2, <5>1
        <5> QED
          BY <3>1, <5>1, <5>2
      <4> QED
        BY <4>1, <4>2
    <3>7. ASSUME NEW d \in Clients, NEW e \in Clients, Submitting(d)', Submitting(e)',
                 client'[d].build = client'[e].build
          PROVE  d = e
      BY <3>1, <3>3, <3>7
    <3> QED
      BY <3>5, <3>6, <3>7
  <2> QED
    BY <1>1, <2>1, <2>2, <2>3 DEF GetOrBuild
<1>2. ASSUME NEW c \in Clients, Submit(c)
      PROVE  OneSubmitter'
  <2>1. PICK b \in Builds : b = client[c].build /\ build[b] \in Active /\ build[b].state = "created"
    BY <1>2 DEF Submit, TypeOK, Holding
  <2>2. /\ build'[b].state = "queued"
        /\ \A a \in Builds : a # b => build'[a] = build[a]
        /\ client'[c].state = "waiting"
        /\ \A d \in Clients : d # c => client'[d] = client[d]
    BY <1>2, <2>1 DEF Submit, TypeOK, Active, Holding
  <2>3. \A d \in Clients : d # c /\ Submitting(d) => client[d].build # b
    BY <1>2, <2>1 DEF Submit
  <2>4. ASSUME NEW d \in Clients, Submitting(d)'
        PROVE  build'[client'[d].build] # Fulfilled /\ build'[client'[d].build].state = "created"
    <3>1. d # c /\ client'[d] = client[d] /\ client[d].build # b /\ client[d].build \in Builds
      BY <2>2, <2>3, <2>4 DEF TypeOK, Holding
    <3> QED
      BY <2>2, <2>4, <3>1
  <2>5. ASSUME NEW a \in Builds, build'[a] # Fulfilled, build'[a].state = "created"
        PROVE  \E d \in Clients : client'[d] = [state |-> "submitting", build |-> a]
    <3>1. a # b
      BY <2>2, <2>5
    <3>2. PICK d \in Clients : client[d] = [state |-> "submitting", build |-> a]
      BY <2>2, <2>5, <3>1
    <3>3. d # c
      BY <2>1, <3>1, <3>2
    <3> QED
      BY <2>2, <3>2, <3>3
  <2>6. ASSUME NEW d \in Clients, NEW e \in Clients, Submitting(d)', Submitting(e)',
               client'[d].build = client'[e].build
        PROVE  d = e
    BY <2>2, <2>6
  <2> QED
    BY <2>4, <2>5, <2>6
<1>3. ASSUME NEW b \in Builds, Publish(b)
      PROVE  OneSubmitter'
  <2>1. /\ build[b].state = "queued"
        /\ build'[b].state = "published"
        /\ \A a \in Builds : a # b => build'[a] = build[a]
        /\ UNCHANGED client
    BY <1>3 DEF Publish, TypeOK, Active
  <2>2. \A c \in Clients : Submitting(c) => client[c].build \in Builds /\ client[c].build # b
    BY <2>1 DEF TypeOK, Holding
  <2> QED
    BY <2>1, <2>2
<1>4. ASSUME NEW b \in Builds, Fulfil(b)
      PROVE  OneSubmitter'
  <2>1. /\ build[b].state = "published"
        /\ build'[b] = Fulfilled
        /\ \A a \in Builds : a # b => build'[a] = build[a]
        /\ UNCHANGED client
    BY <1>4 DEF Fulfil, TypeOK
  <2>2. \A c \in Clients : Submitting(c) => client[c].build \in Builds /\ client[c].build # b
    BY <2>1 DEF TypeOK, Holding
  <2> QED
    BY <2>1, <2>2
<1>5. ASSUME NEW c \in Clients, Receive(c)
      PROVE  OneSubmitter'
  <2>1. /\ client[c].state = "waiting"
        /\ client'[c] = Idle
        /\ \A d \in Clients : d # c => client'[d] = client[d]
        /\ UNCHANGED build
    BY <1>5 DEF Receive, TypeOK
  <2>2. ASSUME NEW b \in Builds, build[b] # Fulfilled, build[b].state = "created"
        PROVE  \E d \in Clients : client'[d] = [state |-> "submitting", build |-> b]
    <3>1. PICK d \in Clients : client[d] = [state |-> "submitting", build |-> b]
      BY <2>2
    <3>2. d # c
      BY <2>1, <3>1
    <3> QED
      BY <2>1, <3>1, <3>2
  <2> QED
    BY <2>1, <2>2
<1>6. CASE UNCHANGED <<build, client>>
  BY <1>6
<1> QED
  BY <1>1, <1>2, <1>3, <1>4, <1>5, <1>6
  DEF Next, CacheCall, BuildStep, vars, Invalidate, NoteSource, UpdateDependencies

LEMMA SingleFlightStep ==
    ASSUME IInv, [Next]_vars
    PROVE  SingleFlight'
<1> USE NoneAssumption DEF IInv
<1>1. ASSUME NEW c \in Clients, NEW k \in Keys, GetOrBuild(c, k)
      PROVE  SingleFlight'
  <2>1. Revoked /\ current'[k.path] = k.fp
    BY <1>1, GetOrBuildRevokes
  <2>2. CASE UNCHANGED build
    BY <2>1, <2>2, RevokedKeepsSingleFlight
  <2>3. ASSUME NEW b \in Free, StartBuild(c, k, b), inFlight[k] = None,
               artifacts'[k.cache][k.path] # k.fp
        PROVE  SingleFlight'
    <3>1. k.cache \in CacheKeys /\ k.path \in Paths
      BY DEF Keys
    <3>2. artifacts'[k.cache][k.path] = None
      <4>1. CachedIsCurrent'
        BY <2>1, RevokedKeeps
      <4> QED
        BY <2>1, <2>3, <3>1, <4>1 DEF CachedIsCurrent
    <3>3. /\ b \in Builds
          /\ build'[b].key = k
          /\ \A a \in Builds : a # b => build'[a] = build[a]
      BY <2>3, Miss
    \* An older build that may still publish is one that could before.
    <3>4. ASSUME NEW a \in Builds, a # b, Pending(a)', Publishable(a)'
          PROVE  /\ Pending(a)
                 /\ Publishable(a)
                 /\ build[a].key \in Keys
                 /\ \A q \in CacheKeys :
                       artifacts'[q][build[a].key.path] = artifacts[q][build[a].key.path]
                 /\ current'[build[a].key.path] = build[a].key.fp
      <4>1. build'[a] = build[a]
        BY <3>3, <3>4
      <4>2. Pending(a)
        BY <3>4, <4>1 DEF Pending
      <4>3. /\ build[a] # Fulfilled
            /\ epochs'[build[a].key.path] = build[a].epoch
            /\ current'[build[a].key.path] = build[a].key.fp
        BY <3>4, <4>1 DEF Pending, Publishable
      <4>4. build[a].key \in Keys
        BY <4>3 DEF TypeOK, Active
      <4> QED
        BY <2>1, <4>2, <4>3, <4>4, PublishableOnlyShrinks
    <3>5. ASSUME NEW a \in Builds, a # b, Pending(a)', Publishable(a)'
          PROVE  <<build[a].key.cache, build[a].key.path>> # <<k.cache, k.path>>
      <4>1. SUFFICES ASSUME build[a].key.cache = k.cache, build[a].key.path = k.path
                     PROVE  FALSE
        OBVIOUS
      <4>2. build[a].key \in Keys /\ build[a].key.fp = k.fp
        BY <2>1, <3>4, <3>5, <4>1
      <4>3. build[a].key = k
        BY <4>1, <4>2 DEF Keys
      <4> QED
        BY <2>3, <3>4, <3>5, <4>3 DEF InFlightExact
    <3>6. ASSUME NEW a \in Builds, Pending(a)', Publishable(a)'
          PROVE  /\ artifacts'[build'[a].key.cache][build'[a].key.path] = None
                 /\ \A d \in Builds : Pending(d)' /\ Publishable(d)' /\ d # a =>
                       <<build'[d].key.cache, build'[d].key.path>> #
                       <<build'[a].key.cache, build'[a].key.path>>
      <4>1. CASE a = b
        BY <3>2, <3>3, <3>5, <4>1
      <4>2. CASE a # b
        <5>1. build'[a] = build[a] /\ build[a].key.cache \in CacheKeys
          BY <3>3, <3>4, <3>6, <4>2 DEF Keys
        <5>2. artifacts'[build[a].key.cache][build[a].key.path] = None
          BY <3>4, <3>6, <4>2, <5>1 DEF SingleFlight
        <5>3. ASSUME NEW d \in Builds, Pending(d)', Publishable(d)', d # a
              PROVE  <<build'[d].key.cache, build'[d].key.path>> #
                     <<build'[a].key.cache, build'[a].key.path>>
          <6>1. CASE d = b
            BY <3>3, <3>5, <3>6, <4>2, <5>1, <6>1
          <6>2. CASE d # b
            <7>1. build'[d] = build[d] /\ Pending(d) /\ Publishable(d)
              BY <3>3, <3>4, <5>3, <6>2
            <7>2. Pending(a) /\ Publishable(a)
              BY <3>4, <3>6, <4>2
            <7> QED
              BY <5>1, <5>3, <7>1, <7>2 DEF SingleFlight
          <6> QED
            BY <6>1, <6>2
        <5> QED
          BY <5>1, <5>2, <5>3
      <4> QED
        BY <4>1, <4>2
    <3> QED
      BY <3>6 DEF SingleFlight
  <2> QED
    BY <1>1, <2>2, <2>3 DEF GetOrBuild
<1>2. ASSUME NEW p \in Paths, Invalidate(p)
      PROVE  SingleFlight'
  BY <1>2, InvalidatedRevokes, RevokedKeepsSingleFlight DEF Invalidate
<1>3. ASSUME NEW p \in Paths, NEW fp \in Fingerprints, NoteSource(p, fp)
      PROVE  SingleFlight'
  BY <1>3, NotedRevokes, RevokedKeepsSingleFlight DEF NoteSource
<1>4. ASSUME NEW b \in Builds, Publish(b)
      PROVE  SingleFlight'
  <2>1. /\ Pending(b)
        /\ ~Pending(b)'
        /\ build[b].key.cache \in CacheKeys /\ build[b].key.path \in Paths
        /\ \A a \in Builds : a # b => build'[a] = build[a]
    BY <1>4, PublishedBuild
  <2>2. \A a \in Builds : Pending(a) => build[a].key \in Keys
    BY DEF Pending, TypeOK, Active
  <2>3. ASSUME NEW a \in Builds, Pending(a)', Publishable(a)'
        PROVE  a # b /\ build'[a] = build[a] /\ Pending(a) /\ Publishable(a)
    <3>1. a # b
      BY <2>1, <2>3
    <3>2. build'[a] = build[a] /\ UNCHANGED <<epochs, current>>
      BY <1>4, <2>1, <3>1 DEF Publish
    <3> QED
      BY <2>3, <3>1, <3>2 DEF Pending, Publishable
  <2>4. ASSUME NEW a \in Builds, Pending(a)', Publishable(a)'
        PROVE  artifacts'[build[a].key.cache][build[a].key.path] = None
    <3>1. /\ build[a].key.cache \in CacheKeys /\ build[a].key.path \in Paths
          /\ artifacts[build[a].key.cache][build[a].key.path] = None
      BY <2>2, <2>3, <2>4 DEF SingleFlight, Keys
    <3>2. Publishable(b) => ~ /\ build[a].key.cache = build[b].key.cache
                              /\ build[a].key.path = build[b].key.path
      BY <2>1, <2>3, <2>4 DEF SingleFlight
    <3> QED
      BY <1>4, <3>1, <3>2, PublishedArtifacts
  <2> QED
    BY <2>3, <2>4 DEF SingleFlight
<1>5. ASSUME NEW b \in Builds, Fulfil(b)
      PROVE  SingleFlight'
  <2>1. /\ ~Pending(b)'
        /\ \A a \in Builds : a # b => build'[a] = build[a]
        /\ UNCHANGED <<epochs, current, artifacts>>
    BY <1>5 DEF Fulfil, TypeOK, Pending
  <2>2. ASSUME NEW a \in Builds, Pending(a)', Publishable(a)'
        PROVE  a # b /\ build'[a] = build[a] /\ Pending(a) /\ Publishable(a)
    BY <2>1, <2>2 DEF Pending, Publishable
  <2> QED
    BY <2>1, <2>2 DEF SingleFlight
<1>6. ASSUME NEW c \in Clients, Submit(c)
      PROVE  SingleFlight'
  <2>1. PICK b \in Builds : b = client[c].build /\ build[b] \in Active /\ build[b].state = "created"
    BY <1>6 DEF Submit, TypeOK, Holding, OneSubmitter
  <2>2. /\ build'[b].state = "queued"
        /\ build'[b].key = build[b].key /\ build'[b].epoch = build[b].epoch
        /\ \A a \in Builds : a # b => build'[a] = build[a]
        /\ UNCHANGED <<epochs, current, artifacts>>
    BY <1>6, <2>1 DEF Submit, TypeOK, Active
  <2>3. build[b] # Fulfilled
    BY <2>1 DEF Fulfilled
  <2>4. ASSUME NEW a \in Builds, Pending(a)', Publishable(a)'
        PROVE  build'[a].key = build[a].key /\ Pending(a) /\ Publishable(a)
    BY <2>1, <2>2, <2>3, <2>4 DEF Pending, Publishable
  <2> QED
    BY <2>2, <2>4 DEF SingleFlight
<1>7. CASE UNCHANGED <<current, epochs, artifacts, build>>
  BY <1>7 DEF SingleFlight, Pending, Publishable
<1> QED
  BY <1>1, <1>2, <1>3, <1>4, <1>5, <1>6, <1>7
  DEF Next, CacheCall, BuildStep, vars, UpdateDependencies, Receive

-----------------------------------------------------------------------------
LEMMA IInvStep == IInv /\ [Next]_vars => IInv'
  BY TypeOKStep, CachedIsCurrentStep, ReverseExactStep, EpochsPastStep, InFlightExactStep,
     OneSubmitterStep, SingleFlightStep
  DEF IInv

\* Every reachable state satisfies the inductive invariant.
THEOREM Invariance == Spec => []IInv
  BY InitIInv, IInvStep, PTL DEF Spec

\* The maps and the promises of the cache keep their types: in particular only a
\* task that exists is ever submitted.
THEOREM TypeCorrect == Spec => []TypeOK
  BY Invariance, PTL DEF IInv

\* The cache never serves an artifact of another revision than the newest noted
\* one: getOrBuild() and noteSource() evict before a late worker can publish.
THEOREM ServesCurrent == Spec => []CachedIsCurrent
  BY Invariance, PTL DEF IInv

\* updateDependencies() keeps reverse_dependencies_ the inverse of dependencies_.
THEOREM ReverseEdges == Spec => []ReverseExact
  BY Invariance, PTL DEF IInv

\* in_flight_ names exactly the builds that have yet to finish.
THEOREM InFlight == Spec => []InFlightExact
  BY Invariance, PTL DEF IInv

\* Every promise has exactly one caller that is going to submit its task.
THEOREM PromiseKept == Spec => []OneSubmitter
  BY Invariance, PTL DEF IInv

\* A revision of a module is built at most once per epoch.
THEOREM BuildsOnce == Spec => []SingleFlight
  BY Invariance, PTL DEF IInv

(***************************************************************************)
(* ModuleCache implements CacheContract: comparing epochs when a worker    *)
(* publishes is the same as revoking licences, and following reverse edges *)
(* the same as finding the transitive importers.                           *)
(***************************************************************************)
Licence(b) == IF Pending(b) /\ Publishable(b) THEN build[b].key ELSE None

\* The reverse edges lead to the transitive importers.
LEMMA DependentsAreImporters ==
    ASSUME TypeOK, ReverseExact, NEW p \in Paths
    PROVE  Contract!Importers(p) = Dependents(p)
<1>1. \A S \in SUBSET Paths : Contract!ClosedUnderImport(S) <=> ClosedUnderDependents(S)
  BY DEF Contract!ClosedUnderImport, ClosedUnderDependents, ReverseExact, TypeOK
<1> QED
  BY <1>1 DEF Contract!Importers, Dependents

\* A step that raises the epochs of the modules in D, and only changes revisions
\* and artifacts there, takes away exactly the licences of D.
LEMMA LicencesRevoked ==
    ASSUME IInv, NEW D \in SUBSET Paths,
           epochs' \in [Paths -> Nat],
           \A q \in D : epochs[q] < epochs'[q],
           \A q \in Paths : q \notin D => epochs'[q] = epochs[q] /\ current'[q] = current[q],
           NEW b \in Builds, build'[b] = build[b]
    PROVE  Licence(b)' = IF Licence(b) # None /\ Licence(b).path \in D
                           THEN None ELSE Licence(b)
<1>1. CASE ~Pending(b)
  BY <1>1 DEF Pending, Licence
<1>2. CASE Pending(b)
  <2> DEFINE p == build[b].key.path
  <2>1. /\ build[b] # Fulfilled
        /\ build[b].key \in Keys
        /\ p \in Paths
        /\ build[b].epoch \in Nat
        /\ build[b].epoch <= epochs[p]
        /\ epochs[p] \in Nat /\ epochs'[p] \in Nat
    BY <1>2 DEF Pending, IInv, TypeOK, Active, Keys, EpochsPast
  <2>2. Pending(b)'
    BY <1>2 DEF Pending
  <2>3. build[b].key # None
    BY <2>1, NoneAssumption
  <2>4. CASE p \in D
    <3>1. epochs'[p] # build[b].epoch
      BY <2>1, <2>4
    <3>2. ~Publishable(b)'
      BY <3>1 DEF Publishable
    <3> QED
      BY <2>4, <3>2 DEF Licence
  <2>5. CASE p \notin D
    <3>1. epochs'[p] = epochs[p] /\ current'[p] = current[p]
      BY <2>1, <2>5
    <3>2. Publishable(b)' <=> Publishable(b)
      BY <3>1 DEF Publishable
    <3> QED
      BY <1>2, <2>2, <2>5, <3>2 DEF Licence
  <2> QED
    BY <2>4, <2>5
<1> QED
  BY <1>1, <1>2

\* Noting a revision, in the contract's words.
LEMMA NotedOutdates ==
    ASSUME IInv, NEW p \in Paths, NEW fp \in Fingerprints, Noted(p, fp)
    PROVE  /\ Contract!Outdated(p, fp) \in SUBSET Paths
           /\ current' = [current EXCEPT ![p] = fp]
           /\ artifacts' = Contract!CachedWithout(Contract!Outdated(p, fp))
           /\ epochs' \in [Paths -> Nat]
           /\ \A q \in Contract!Outdated(p, fp) : epochs[q] < epochs'[q]
           /\ \A q \in Paths : q \notin Contract!Outdated(p, fp) =>
                 epochs'[q] = epochs[q] /\ current'[q] = current[q]
<1> USE DEF IInv
<1>1. CASE current[p] = fp
  <2>1. Contract!Outdated(p, fp) = {}
    BY <1>1 DEF Contract!Outdated
  <2>2. UNCHANGED <<current, epochs, artifacts>>
    BY <1>1 DEF Noted
  <2>3. artifacts = Contract!CachedWithout({})
    BY DEF Contract!CachedWithout, TypeOK
  <2>4. current = [current EXCEPT ![p] = fp]
    BY <1>1 DEF TypeOK
  <2> QED
    BY <2>1, <2>2, <2>3, <2>4 DEF TypeOK
<1>2. CASE current[p] # fp
  <2>1. Contract!Outdated(p, fp) = Dependents(p)
    BY <1>2, DependentsAreImporters DEF Contract!Outdated
  <2>2. current' = [current EXCEPT ![p] = fp] /\ Invalidated(p)
    BY <1>2 DEF Noted
  <2>3. artifacts' = Contract!CachedWithout(Dependents(p))
    BY <2>2 DEF Invalidated, Contract!CachedWithout
  <2>4. p \in Dependents(p) /\ Dependents(p) \in SUBSET Paths
    BY DependentsClosure
  <2>5. \A q \in Paths : q # p => current'[q] = current[q]
    BY <2>2 DEF TypeOK
  <2> QED
    BY <2>1, <2>2, <2>3, <2>4, <2>5, InvalidatedEpochs
<1> QED
  BY <1>1, <1>2

-----------------------------------------------------------------------------
LEMMA InitRefines == Init => Contract!Init
  BY DEF Init, Contract!Init, Pending, Fulfilled

LEMMA StepRefines ==
    ASSUME IInv, [Next]_vars
    PROVE  [Contract!Next]_(Contract!vars)
<1> DEFINE L == [b \in Builds |-> IF Pending(b) /\ Publishable(b) THEN build[b].key ELSE None]
<1>0. /\ L = [b \in Builds |-> Licence(b)]
      /\ L' = [b \in Builds |-> Licence(b)']
  BY DEF Licence
<1>n. \A D : Contract!LicencesWithout(D) =
         [b \in Builds |-> IF L[b] # None /\ L[b].path \in D THEN None ELSE L[b]]
  BY DEF Contract!LicencesWithout
<1> HIDE DEF L
<1>1. ASSUME NEW c \in Clients, NEW k \in Keys, GetOrBuild(c, k)
      PROVE  Contract!Next
  <2>1. k.path \in Paths /\ k.fp \in Fingerprints /\ Noted(k.path, k.fp)
    BY <1>1 DEF GetOrBuild, Keys
  <2> DEFINE D == Contract!Outdated(k.path, k.fp)
  <2>2. /\ D \in SUBSET Paths
        /\ current' = [current EXCEPT ![k.path] = k.fp]
        /\ artifacts' = Contract!CachedWithout(D)
        /\ epochs' \in [Paths -> Nat]
        /\ \A q \in D : epochs[q] < epochs'[q]
        /\ \A q \in Paths : q \notin D => epochs'[q] = epochs[q] /\ current'[q] = current[q]
        /\ UNCHANGED deps
    BY <1>1, <2>1, NotedOutdates DEF GetOrBuild
  <2> HIDE DEF D
  <2>3. CASE UNCHANGED build
    <3>1. L' = Contract!LicencesWithout(D)
      BY <1>0, <1>n, <2>2, <2>3, LicencesRevoked
    <3>2. Contract!Note(k.path, k.fp)
      BY <2>2, <3>1 DEF Contract!Note, D, L
    <3> QED
      BY <2>1, <3>2 DEF Contract!Next
  <2>4. ASSUME NEW b \in Free, StartBuild(c, k, b), inFlight[k] = None,
               artifacts'[k.cache][k.path] # k.fp
        PROVE  Contract!Next
    <3>1. /\ b \in Builds
          /\ ~Pending(b)
          /\ build'[b] # Fulfilled
          /\ build'[b].state = "created"
          /\ build'[b].key = k
          /\ build'[b].epoch = epochs'[k.path]
          /\ \A a \in Builds : a # b => build'[a] = build[a]
      BY <2>4, Miss DEF IInv, Pending
    <3>2. artifacts'[k.cache][k.path] = None
      <4>1. CachedIsCurrent'
        BY <1>1, GetOrBuildRevokes, RevokedKeeps DEF IInv
      <4>2. k.cache \in CacheKeys
        BY DEF Keys
      <4>3. current'[k.path] = k.fp
        BY <2>1, <2>2 DEF IInv, TypeOK
      <4> QED
        BY <2>1, <2>4, <4>1, <4>2, <4>3 DEF CachedIsCurrent
    <3>3. Licence(b) = None
      BY <3>1 DEF Licence
    <3>4. Licence(b)' = k
      <4>1. current'[k.path] = k.fp
        BY <2>1, <2>2 DEF IInv, TypeOK
      <4> QED
        BY <3>1, <4>1 DEF Licence, Pending, Publishable
    <3>5. \A a \in Builds : a # b =>
             Licence(a)' = IF Licence(a) # None /\ Licence(a).path \in D
                             THEN None ELSE Licence(a)
      BY <2>2, <3>1, LicencesRevoked
    <3>6. L' = [Contract!LicencesWithout(D) EXCEPT ![b] = k]
      BY <1>0, <1>n, <3>1, <3>4, <3>5
    <3>7. \A a \in Builds : Licence(a) # k
      <4>1. SUFFICES ASSUME NEW a \in Builds, Licence(a) = k
                     PROVE  FALSE
        OBVIOUS
      <4>2. k # None
        BY NoneAssumption
      <4>3. Pending(a) /\ build[a].key = k
        BY <4>1, <4>2 DEF Licence
      <4>4. inFlight[k] = a
        BY <4>3 DEF IInv, InFlightExact
      <4> QED
        BY <2>4, <4>4, NoneAssumption
    <3>8. \A a \in Builds : Contract!LicencesWithout(D)[a] # k
      BY <1>0, <1>n, <3>7, NoneAssumption
    <3>9. L[b] = None
      BY <1>0, <3>1, <3>3
    <3>10. Contract!Begin(b, k)
      BY <2>2, <3>2, <3>6, <3>8, <3>9 DEF Contract!Begin, D, L
    <3>11. k \in Contract!Keys
      BY DEF Keys, Contract!Keys
    <3> QED
      BY <3>1, <3>10, <3>11 DEF Contract!Next
  <2> QED
    BY <1>1, <2>3, <2>4 DEF GetOrBuild
<1>2. ASSUME NEW p \in Paths, Invalidate(p)
      PROVE  Contract!Next
  <2>1. Contract!Importers(p) = Dependents(p)
    BY DependentsAreImporters DEF IInv
  <2>2. /\ Dependents(p) \in SUBSET Paths
        /\ epochs' \in [Paths -> Nat]
        /\ \A q \in Dependents(p) : epochs[q] < epochs'[q]
        /\ \A q \in Paths : q \notin Dependents(p) => epochs'[q] = epochs[q]
    BY <1>2, DependentsClosure, InvalidatedEpochs DEF Invalidate, IInv
  <2>3. artifacts' = Contract!CachedWithout(Dependents(p))
    BY <1>2 DEF Invalidate, Invalidated, Contract!CachedWithout
  <2>4. UNCHANGED <<current, deps, build>>
    BY <1>2 DEF Invalidate
  <2>5. L' = Contract!LicencesWithout(Dependents(p))
    BY <1>0, <1>n, <2>2, <2>4, LicencesRevoked
  <2> QED
    BY <2>1, <2>3, <2>4, <2>5 DEF Contract!Next, Contract!Withdraw, L
<1>3. ASSUME NEW p \in Paths, NEW fp \in Fingerprints, NoteSource(p, fp)
      PROVE  Contract!Next
  <2> DEFINE D == Contract!Outdated(p, fp)
  <2>1. /\ D \in SUBSET Paths
        /\ current' = [current EXCEPT ![p] = fp]
        /\ artifacts' = Contract!CachedWithout(D)
        /\ epochs' \in [Paths -> Nat]
        /\ \A q \in D : epochs[q] < epochs'[q]
        /\ \A q \in Paths : q \notin D => epochs'[q] = epochs[q] /\ current'[q] = current[q]
        /\ UNCHANGED <<deps, build>>
    BY <1>3, NotedOutdates DEF NoteSource
  <2> HIDE DEF D
  <2>2. L' = Contract!LicencesWithout(D)
    BY <1>0, <1>n, <2>1, LicencesRevoked
  <2> QED
    BY <2>1, <2>2 DEF Contract!Next, Contract!Note, D, L
<1>4. ASSUME NEW p \in Paths, NEW ds \in DependencySets[p], UpdateDependencies(p, ds)
      PROVE  Contract!Next
  BY <1>4 DEF UpdateDependencies, Contract!Next, Contract!Import, Pending, Publishable
<1>5. ASSUME NEW b \in Builds, Publish(b)
      PROVE  [Contract!Next]_(Contract!vars)
  <2>1. /\ build[b].key \in Keys
        /\ Pending(b)
        /\ ~Pending(b)'
        /\ \A a \in Builds : a # b => build'[a] = build[a]
        /\ UNCHANGED <<current, epochs, deps>>
    BY <1>5, PublishedBuild DEF IInv, Publish
  <2>2. Licence(b)' = None
    BY <2>1 DEF Licence
  <2>3. \A a \in Builds : a # b => Licence(a)' = Licence(a)
    BY <2>1 DEF Licence, Pending, Publishable
  <2>4. L' = [L EXCEPT ![b] = None]
    BY <1>0, <2>2, <2>3
  <2>5. CASE Publishable(b)
    <3>1. L[b] = build[b].key /\ build[b].key # None
      BY <2>1, <2>5, NoneAssumption DEF L
    <3>2. artifacts' = [artifacts EXCEPT ![L[b].cache][L[b].path] = L[b].fp]
      BY <1>5, <2>5, <3>1 DEF Publish
    <3>3. Contract!Publish(b)
      BY <2>1, <2>4, <3>1, <3>2 DEF Contract!Publish, L
    <3> QED
      BY <3>3 DEF Contract!Next
  <2>6. CASE ~Publishable(b)
    <3>1. L[b] = None
      BY <2>6 DEF L
    <3>2. L' = L
      BY <1>0, <2>4, <3>1
    <3>3. UNCHANGED artifacts
      BY <1>5, <2>6 DEF Publish
    <3> QED
      BY <2>1, <3>2, <3>3 DEF Contract!vars, L
  <2> QED
    BY <2>5, <2>6
<1>6. ASSUME UNCHANGED <<current, epochs, artifacts, deps>>,
             \A b \in Builds : /\ Pending(b)' <=> Pending(b)
                               /\ Pending(b) => /\ build'[b].key = build[b].key
                                                /\ build'[b].epoch = build[b].epoch
      PROVE  UNCHANGED Contract!vars
  <2>1. \A b \in Builds : Licence(b)' = Licence(b)
    BY <1>6 DEF Licence, Publishable
  <2>2. L' = L
    BY <1>0, <2>1
  <2> QED
    BY <1>6, <2>2 DEF Contract!vars, L
<1>7. ASSUME NEW b \in Builds, Fulfil(b)
      PROVE  UNCHANGED Contract!vars
  <2>1. \A a \in Builds : /\ Pending(a)' <=> Pending(a)
                          /\ Pending(a) => build'[a] = build[a]
    BY <1>7 DEF Fulfil, IInv, TypeOK, Pending
  <2> QED
    BY <1>6, <1>7, <2>1 DEF Fulfil
<1>8. ASSUME NEW c \in Clients, Submit(c)
      PROVE  UNCHANGED Contract!vars
  <2>1. PICK b \in Builds : b = client[c].build /\ build[b] \in Active /\ build[b].state = "created"
    BY <1>8 DEF Submit, IInv, TypeOK, Holding, OneSubmitter
  <2>2. /\ build'[b] \in Active /\ build'[b].state = "queued"
        /\ build'[b].key = build[b].key /\ build'[b].epoch = build[b].epoch
        /\ \A a \in Builds : a # b => build'[a] = build[a]
    BY <1>8, <2>1 DEF Submit, IInv, TypeOK, Active
  <2>3. Pending(b) /\ Pending(b)'
    BY <2>1, <2>2 DEF Pending, Fulfilled, Active
  <2>4. \A a \in Builds : /\ Pending(a)' <=> Pending(a)
                          /\ build'[a].key = build[a].key
                          /\ build'[a].epoch = build[a].epoch
    BY <2>2, <2>3 DEF Pending
  <2> QED
    BY <1>6, <1>8, <2>4 DEF Submit
<1>9. CASE UNCHANGED <<current, epochs, artifacts, deps, build>>
  BY <1>6, <1>9 DEF Pending
<1> QED
  BY <1>1, <1>2, <1>3, <1>4, <1>5, <1>7, <1>8, <1>9
  DEF Next, CacheCall, BuildStep, vars, Receive

\* The cache implements its contract, for any number of callers and modules.
THEOREM Implements == Spec => ImplementsContract
  BY InitRefines, StepRefines, Invariance, PTL DEF Spec, ImplementsContract, Contract!Spec
=============================================================================
