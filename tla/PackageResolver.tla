--------------------------- MODULE PackageResolver ----------------------------
(***************************************************************************)
(* The local packages of a project: `zithc deps resolve` walks the         *)
(* manifests depth first and writes Zith.lock (LocalResolver::visit and    *)
(* resolveLocalPackages), and every build, check and run compares that     *)
(* file with the manifests (validateLocalLockfile), which anybody may edit *)
(* at any moment.  A manifest is its package name and the directory each   *)
(* of its dependencies names; its digest is the manifest itself.           *)
(***************************************************************************)
EXTENDS Naturals, Sequences, FiniteSets

CONSTANTS Dirs,             \* canonical directories of packages
          Project,          \* the directory of the project
          Names,            \* package names, "std" and the project's own included
          Reserved,         \* those two
          Manifests(_),     \* the manifests a directory may have, NoManifestFile included
          MaxChanges

Owners == Dirs \cup {Project}
NoDir == "no directory"
NoManifestFile == [name |-> "no manifest"]
HasManifest(m) == m # NoManifestFile

ASSUME PackagesAssumption ==
  /\ Project \notin Dirs /\ Reserved \subseteq Names /\ MaxChanges \in Nat
  /\ \A o \in Owners : \A m \in Manifests(o) :
       HasManifest(m) => m.name \in Names /\ m.deps \in [Names -> Dirs \cup {NoDir}]

VARIABLES
  manifests,  \* ZithProject.toml of each directory
  frames,     \* the running visits, innermost last: [dir, todo], the project first
  nodes,      \* nodes_: for each directory visited, what goes into the lock
  locked,     \* lockfile.packages
  lockfile,   \* Zith.lock: NoLock (none, or cut short), or the project and its packages
  verdict,    \* of the last command: none, resolved, refused, accepted, stale
  changes,
  moved       \* ghost: a manifest changed since the resolver started

packageVars == <<manifests, frames, nodes, locked, lockfile, verdict, changes, moved>>

NoLock == [name |-> "no lock"]
Declared(m) == {n \in Names : m.deps[n] # NoDir}
Locked(d, m) == [name |-> m.name, path |-> d, root |-> m.root, digest |-> m, deps |-> Declared(m)]

PackagesInit ==
  /\ manifests \in {w \in [Owners -> UNION {Manifests(o) : o \in Owners}] :
                     (\A o \in Owners : w[o] \in Manifests(o)) /\ HasManifest(w[Project])}
  /\ frames = <<>> /\ nodes = [d \in Dirs |-> NoLock] /\ locked = {}
  /\ lockfile = NoLock /\ verdict = "none" /\ changes = 0 /\ moved = FALSE

(***************************************************************************)
(* serializeLockfile and parseLockfile: both call validateLockfile.        *)
(***************************************************************************)
DistinctBy(packages, Key(_)) == \A p, q \in packages : Key(p) = Key(q) => p = q

\* Kahn's count: the packages that are ready after n rounds
Visited(packages) ==
  LET ready[n \in 0..Cardinality(packages)] ==
        IF n = 0 THEN {}
        ELSE {p \in packages : p.deps \subseteq {q.name : q \in ready[n - 1]}}
  IN ready[Cardinality(packages)]

validateLockfile(lock) ==
  LET packages == lock.packages
      names == {p.name : p \in packages}
  IN /\ names \cap (Reserved \cup {lock.project.name}) = {}
     /\ DistinctBy(packages, LAMBDA p : p.name) /\ DistinctBy(packages, LAMBDA p : p.path)
     /\ DistinctBy(packages, LAMBDA p : p.root)
     /\ Declared(lock.project) \subseteq names /\ \A p \in packages : p.deps \subseteq names
     /\ Visited(packages) = packages

(***************************************************************************)
(* deps resolve.                                                           *)
(***************************************************************************)
Resolving == frames # <<>>
Innermost == frames[Len(frames)]
Visiting == {frames[i].dir : i \in 2..Len(frames)}

resolveLocalPackages ==
  /\ ~Resolving /\ HasManifest(manifests[Project])
  /\ frames' = <<[dir |-> Project, project |-> manifests[Project], deps |-> manifests[Project].deps,
                  todo |-> Declared(manifests[Project])]>>
  /\ nodes' = [d \in Dirs |-> NoLock] /\ locked' = {} /\ verdict' = "none" /\ moved' = FALSE
  /\ UNCHANGED <<manifests, lockfile, changes>>

Refuse ==
  /\ frames' = <<>> /\ verdict' = "refused" /\ UNCHANGED <<nodes, locked, lockfile>>

\* The loop over the dependencies goes on in the innermost visit.
Dismiss(n) == [frames EXCEPT ![Len(frames)].todo = @ \ {n}]

\* Mutant of VisitKnown: every package is visited at most once.
VisitKnownOnce(n, d) == nodes[d] # NoLock /\ Refuse

\* A directory that was visited before: a cycle while its visit runs.
VisitKnown(n, d) ==
  /\ nodes[d] # NoLock
  /\ IF nodes[d].name # n \/ d \in Visiting
     THEN Refuse
     ELSE frames' = Dismiss(n) /\ UNCHANGED <<nodes, locked, lockfile, verdict>>

\* What a first visit refuses, in terms of the nodes so far: rootsByName_ and
\* moduleOwners_ are those of the nodes.
Refused(n, m) ==
  \/ ~HasManifest(m)
  \/ m.name # n \/ m.name \in Reserved \/ m.name = frames[1].project.name
  \/ \E e \in Dirs : nodes[e] # NoLock /\ (nodes[e].name = m.name \/ nodes[e].root = m.root)

VisitNew(n, d) ==
  LET m == manifests[d] IN
  /\ nodes[d] = NoLock
  /\ IF Refused(n, m)
     THEN Refuse
     ELSE /\ nodes' = [nodes EXCEPT ![d] = Locked(d, m)]
          /\ frames' = Append(Dismiss(n), [dir |-> d, deps |-> m.deps, todo |-> Declared(m)])
          /\ UNCHANGED <<locked, lockfile, verdict>>

\* Dependencies are visited in the order of their names, which decides only
\* which of several errors is reported.
visit ==
  /\ Resolving
  /\ \E n \in Innermost.todo : VisitKnown(n, Innermost.deps[n]) \/ VisitNew(n, Innermost.deps[n])
  /\ UNCHANGED <<manifests, changes, moved>>

CompleteVisit ==
  /\ Len(frames) > 1 /\ Innermost.todo = {}
  /\ frames' = SubSeq(frames, 1, Len(frames) - 1)
  /\ locked' = locked \cup {nodes[Innermost.dir]}
  /\ UNCHANGED <<manifests, nodes, lockfile, verdict, changes, moved>>

\* The project's own loop ends: the lock is validated, written or refused.
WriteLock ==
  LET lock == [project |-> Innermost.project, packages |-> locked] IN
  /\ Len(frames) = 1 /\ Innermost.todo = {}
  /\ IF validateLockfile(lock)
     THEN frames' = <<>> /\ lockfile' = lock /\ verdict' = "resolved" /\ UNCHANGED <<nodes, locked>>
     ELSE Refuse
  /\ UNCHANGED <<manifests, changes, moved>>

\* The command is killed; the file is unreadable when it was being written.
KillResolver ==
  /\ Resolving /\ frames' = <<>> /\ verdict' = "none"
  /\ lockfile' \in IF Len(frames) = 1 /\ Innermost.todo = {} THEN {lockfile, NoLock} ELSE {lockfile}
  /\ UNCHANGED <<manifests, nodes, locked, changes, moved>>

(***************************************************************************)
(* A build: validateLocalLockfile.                                         *)
(***************************************************************************)
\* verifyDependencyPath for every dependency of a manifest
PathsHold(m, packages) ==
  \A n \in Declared(m) : \E p \in packages : p.name = n /\ p.path = m.deps[n]

Reached(lock) ==
  LET reached[n \in 0..Cardinality(lock.packages)] ==
        IF n = 0 THEN {p \in lock.packages : p.name \in Declared(lock.project)}
        ELSE {p \in lock.packages : p \in reached[n - 1] \/ \E q \in reached[n - 1] : p.name \in q.deps}
  IN reached[Cardinality(lock.packages)]

\* Mutant of LockHolds: the manifests of the packages are not compared.
LockHoldsByPath(lock, project) ==
  /\ validateLockfile(lock) /\ lock.project = project /\ PathsHold(project, lock.packages)
  /\ \A p \in lock.packages : HasManifest(manifests[p.path]) /\ PathsHold(manifests[p.path], lock.packages)
  /\ Reached(lock) = lock.packages

LockHolds(lock, project) ==
  /\ validateLockfile(lock) /\ lock.project = project /\ PathsHold(project, lock.packages)
  /\ \A p \in lock.packages : /\ HasManifest(manifests[p.path]) /\ p.digest = manifests[p.path]
                              /\ PathsHold(manifests[p.path], lock.packages)
  /\ Reached(lock) = lock.packages

validateLocalLockfile ==
  /\ ~Resolving /\ HasManifest(manifests[Project])
  /\ verdict' = IF lockfile # NoLock /\ LockHolds(lockfile, manifests[Project]) THEN "accepted" ELSE "stale"
  /\ UNCHANGED <<manifests, frames, nodes, locked, lockfile, changes, moved>>

\* Somebody changes, adds or removes a manifest.
EditManifest ==
  /\ changes < MaxChanges
  /\ \E o \in Owners : \E m \in Manifests(o) \ {manifests[o]} :
       manifests' = [manifests EXCEPT ![o] = m]
  /\ changes' = changes + 1 /\ moved' = TRUE /\ verdict' = "none"
  /\ UNCHANGED <<frames, nodes, locked, lockfile>>

PackagesNext ==
  \/ resolveLocalPackages \/ visit \/ CompleteVisit \/ WriteLock \/ KillResolver
  \/ validateLocalLockfile \/ EditManifest

PackagesSpec == PackagesInit /\ [][PackagesNext]_packageVars

(***************************************************************************)
(* Properties.                                                             *)
(***************************************************************************)
DependsOn(o) == {manifests[o].deps[n] : n \in Declared(manifests[o])}
Closed(dirs) == \A d \in dirs : HasManifest(manifests[d]) => DependsOn(d) \subseteq dirs
\* The least closed set of packages that contains dirs.
Below(dirs) == {d \in Dirs : \A S \in SUBSET Dirs : dirs \subseteq S /\ Closed(S) => d \in S}
Needed == Below(DependsOn(Project))

\* What docs/adr/0048 asks of a project: every dependency names the package it
\* leads to, one package per name and per module root, no cycle.
Sound ==
  /\ \A d \in Needed : /\ HasManifest(manifests[d])
                       /\ manifests[d].name \notin Reserved \cup {manifests[Project].name}
                       /\ d \notin Below(DependsOn(d))
  /\ \A o \in Needed \cup {Project} : \A n \in Declared(manifests[o]) :
       manifests[manifests[o].deps[n]].name = n
  /\ \A d, e \in Needed : d # e => /\ manifests[d].name # manifests[e].name
                                   /\ manifests[d].root # manifests[e].root

TheLock == [project |-> manifests[Project], packages |-> {Locked(d, manifests[d]) : d \in Needed}]

\* With no edit in between, the depth-first walk accepts exactly the sound
\* projects, and locks exactly the packages they need.
ResolvesSoundProjects ==
  /\ verdict = "resolved" /\ ~moved => Sound /\ lockfile = TheLock
  /\ verdict = "refused" /\ ~moved => ~Sound

\* A build that is let through has the lock the manifests of this moment ask
\* for, whatever was edited before, during or after the resolution.
AcceptedIsCurrent == verdict = "accepted" => Sound /\ lockfile = TheLock

================================================================================
