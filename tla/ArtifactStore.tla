----------------------------- MODULE ArtifactStore -----------------------------
(***************************************************************************)
(* The persistent cache of a project: cache::Store with its manifest and   *)
(* registry of opaque tags (src/src/cache/cache.cpp, manifest.cpp), and    *)
(* the steps of CompilationSession that use it                             *)
(* (src/src/session/persistent-cache.cpp).  Every session has a Store of   *)
(* its own, which reads the manifest and the registry once and afterwards  *)
(* overwrites the files with what it holds; sessions run in parallel, in   *)
(* one process (cli/cmd/build.cpp) or in several, and share only files.    *)
(***************************************************************************)
EXTENDS Naturals, FiniteSets

CONSTANTS Modules, Types, Sessions,
          ImportsOf(_),    \* the modules a module imports, directly
          Program(_),    \* the modules of a program rooted at it: what its artifact holds
          Erases(_),     \* the types a program rooted at a module erases into opaque
          Versions,      \* texts a source file may have
          AbiOf(_),      \* the names and kinds a text declares: all the ABI hash covers
          MaxSessions, MaxSourceEdits

ASSUME StoreAssumption ==
  /\ \A m \in Modules : /\ m \in Program(m) /\ Program(m) \subseteq Modules
                      /\ ImportsOf(m) \subseteq Program(m) \ {m} /\ Erases(m) \subseteq Types
  /\ IsFiniteSet(Types) /\ Versions # {}
  /\ MaxSessions \in Nat /\ MaxSourceEdits \in Nat

VARIABLES
  source,     \* the text of each source file
  files,      \* modules/<hash>.zirl: absent, broken (cut short), or an artifact
  manifest,   \* modules/manifest: for each module the ABI recorded, or NoEntry
  registry,   \* canonical-any: the tag of each type, 0 when it has none
  session,    \* what each running session holds
  started, sourceEdits,
  raced,      \* ghost: a source changed while a session was running
  overlapped  \* ghost: some session started while another was running

storeVars == <<source, files, manifest, registry, session, started, sourceEdits, raced, overlapped>>

Absent == [kind |-> "absent"]
Broken == [kind |-> "broken"]
NoEntry == <<>>
NoManifest == [m \in Modules |-> NoEntry]
NoTags == [t \in Types |-> 0]

\* A session: the stage it has reached, the manifest and registry of its store, the
\* tags it has used, and what it has read, built or loaded.
Idle == [at |-> "idle", module |-> "none", manifest |-> NoManifest, registry |-> NoTags,
         tags |-> NoTags, fingerprint |-> "none", built |-> "none", artifact |-> Absent]
Running == {s \in Sessions : session[s].at # "idle"}

StoreInit ==
  /\ source \in [Modules -> {CHOOSE v \in Versions : TRUE}]
  /\ files = [m \in Modules |-> Absent]
  /\ manifest = NoManifest /\ registry = NoTags
  /\ session = [s \in Sessions |-> Idle]
  /\ started = 0 /\ sourceEdits = 0 /\ raced = FALSE /\ overlapped = FALSE

Go(s, at) == session' = [session EXCEPT ![s].at = at]
End(s) == session' = [session EXCEPT ![s] = Idle]

(***************************************************************************)
(* The registry of tags.                                                   *)
(***************************************************************************)
Tagged(tags) == {t \in Types : tags[t] # 0}

\* assignCanonicalId: the tag it has, or the size plus one; 0 when that is taken
assignCanonicalId(tags, t) ==
  LET next == Cardinality(Tagged(tags)) + 1
  IN IF tags[t] # 0 THEN tags[t]
     ELSE IF \E u \in Types : tags[u] = next THEN 0 ELSE next

\* One assignment by a session: a new tag saves all that its store holds.
Held(s, t) == [session[s].registry EXCEPT ![t] = assignCanonicalId(session[s].registry, t)]
SaveRegistry(s, t) ==
  registry' = IF session[s].registry = Held(s, t) THEN registry ELSE Held(s, t)

AssignTag(s, t) ==
  /\ session' = [session EXCEPT ![s].registry = Held(s, t), ![s].tags[t] = Held(s, t)[t]]
  /\ SaveRegistry(s, t)

(***************************************************************************)
(* lexStage and tryLoadPersistentCache.                                    *)
(***************************************************************************)
\* Mutant of Start: the registry is not read.
StartWithoutRegistry(s, m) ==
  /\ session[s].at = "idle" /\ started < MaxSessions
  /\ session' = [session EXCEPT ![s] =
                   [Idle EXCEPT !.at = "load", !.module = m, !.manifest = manifest]]
  /\ started' = started + 1
  /\ overlapped' = (overlapped \/ Running # {})
  /\ UNCHANGED <<source, files, manifest, registry, sourceEdits, raced>>

Start(s, m) ==
  /\ session[s].at = "idle" /\ started < MaxSessions
  /\ session' = [session EXCEPT ![s] =
                   [Idle EXCEPT !.at = "load", !.module = m, !.manifest = manifest,
                                !.registry = registry]]
  /\ started' = started + 1
  /\ overlapped' = (overlapped \/ Running # {})
  /\ UNCHANGED <<source, files, manifest, registry, sourceEdits, raced>>

\* Mutant of validateArtifact: any artifact of the module will do.
AnyArtifact(artifact, text) == TRUE

validateArtifact(artifact, text) == artifact.fingerprint = text

\* Store::load: each dependency is in the manifest, with the ABI the artifact
\* recorded unless it recorded none
DependenciesHold(artifact, known) ==
  \A d \in DOMAIN artifact.deps :
    known[d] # NoEntry /\ artifact.deps[d] \in {NoEntry, known[d]}

Loads(s) ==
  LET file == files[session[s].module] IN
  /\ file.kind = "artifact"
  /\ validateArtifact(file, source[session[s].module])
  /\ DependenciesHold(file, session[s].manifest)

\* A miss; dropInvalid removes the file, and the entry from the manifest in memory.
Miss(s) ==
  LET m == session[s].module IN
  /\ session[s].at = "load" /\ ~Loads(s)
  /\ files' = [files EXCEPT ![m] = Absent]
  /\ session' = [session EXCEPT
                   ![s].at = "analyse", ![s].fingerprint = source[m],
                   ![s].manifest = IF files[m] = Absent THEN @ ELSE [@ EXCEPT ![m] = NoEntry]]
  /\ UNCHANGED <<source, manifest, registry, started, sourceEdits, raced, overlapped>>

Load(s) ==
  /\ session[s].at = "load" /\ Loads(s)
  /\ session' = [session EXCEPT ![s].at = "check", ![s].artifact = files[session[s].module]]
  /\ UNCHANGED <<source, files, manifest, registry, started, sourceEdits, raced, overlapped>>

\* Mutant of CheckMapping: the tag of the artifact is taken as it is.
TrustMapping(s, t) ==
  /\ session[s].at = "check" /\ t \in Tagged(session[s].artifact.tags) \ Tagged(session[s].tags)
  /\ session' = [session EXCEPT ![s].registry = Held(s, t),
                                ![s].tags[t] = session[s].artifact.tags[t]]
  /\ SaveRegistry(s, t)
  /\ UNCHANGED <<source, files, manifest, started, sourceEdits, raced, overlapped>>

\* Each mapping of the artifact is compared with the registry, which gets the
\* types it did not know; one that differs is reported and ends the build.
CheckMapping(s, t) ==
  /\ session[s].at = "check" /\ t \in Tagged(session[s].artifact.tags) \ Tagged(session[s].tags)
  /\ IF assignCanonicalId(session[s].registry, t) = session[s].artifact.tags[t]
     THEN AssignTag(s, t)
     ELSE SaveRegistry(s, t) /\ End(s)
  /\ UNCHANGED <<source, files, manifest, started, sourceEdits, raced, overlapped>>

Hydrate(s) ==
  /\ session[s].at = "check" /\ session[s].tags = session[s].artifact.tags
  /\ Go(s, "hydrated")
  /\ UNCHANGED <<source, files, manifest, registry, started, sourceEdits, raced, overlapped>>

\* The program runs from the artifact; refreshCachedVirSection may store it again.
Leave(s) ==
  /\ session[s].at = "hydrated" /\ (End(s) \/ Go(s, "write"))
  /\ UNCHANGED <<source, files, manifest, registry, started, sourceEdits, raced, overlapped>>

(***************************************************************************)
(* The other stages, and writePersistentCache.                             *)
(***************************************************************************)
\* analyzeFile reads the root and its imports, after the fingerprint was taken.
Analyse(s) ==
  /\ session[s].at = "analyse"
  /\ session' = [session EXCEPT ![s].at = "lower",
                                ![s].built = [d \in Program(session[s].module) |-> source[d]]]
  /\ UNCHANGED <<source, files, manifest, registry, started, sourceEdits, raced, overlapped>>

\* runtimeTagForCanonicalType, in the order the bodies are lowered
Lower(s, t) ==
  /\ session[s].at = "lower" /\ t \in Erases(session[s].module) \ Tagged(session[s].tags)
  /\ AssignTag(s, t)
  /\ UNCHANGED <<source, files, manifest, started, sourceEdits, raced, overlapped>>

Abi(built) == [d \in DOMAIN built |-> AbiOf(built[d])]

\* The artifact: each dependency with the ABI in this store's manifest.
BuildArtifact(s) ==
  LET me == session[s] IN
  /\ me.at = "lower" /\ Erases(me.module) \subseteq Tagged(me.tags)
  /\ session' = [session EXCEPT ![s].at = "write", ![s].artifact =
                   [kind |-> "artifact", fingerprint |-> me.fingerprint, built |-> me.built,
                    tags |-> me.tags, abi |-> Abi(me.built),
                    deps |-> [d \in ImportsOf(me.module) |-> me.manifest[d]]]]
  /\ UNCHANGED <<source, files, manifest, registry, started, sourceEdits, raced, overlapped>>

\* Store::store: the artifact is written in place, the manifest updated in
\* memory, and then all of it written in place.
Truncate(s) ==
  /\ session[s].at = "write"
  /\ files' = [files EXCEPT ![session[s].module] = Broken]
  /\ Go(s, "writing")
  /\ UNCHANGED <<source, manifest, registry, started, sourceEdits, raced, overlapped>>

\* Two sessions that write one file at once may leave a mixture.
Write(s) ==
  LET me == session[s]
      others == {r \in Running \ {s} : session[r].at = "writing" /\ session[r].module = me.module}
  IN /\ me.at = "writing"
     /\ \E text \in {me.artifact} \cup {Broken : r \in others} :
          files' = [files EXCEPT ![me.module] = text]
     /\ session' = [session EXCEPT ![s].at = "save",
                                   ![s].manifest = [@ EXCEPT ![me.module] = me.artifact.abi]]
     /\ UNCHANGED <<source, manifest, registry, started, sourceEdits, raced, overlapped>>

TruncateManifest(s) ==
  /\ session[s].at = "save"
  /\ manifest' = NoManifest /\ Go(s, "saving")
  /\ UNCHANGED <<source, files, registry, started, sourceEdits, raced, overlapped>>

Save(s) ==
  /\ session[s].at = "saving"
  /\ manifest' = session[s].manifest /\ End(s)
  /\ UNCHANGED <<source, files, registry, started, sourceEdits, raced, overlapped>>

(***************************************************************************)
(* The outside: an editor, and a process that is killed.                   *)
(***************************************************************************)
Edit(m) ==
  /\ sourceEdits < MaxSourceEdits
  /\ \E v \in Versions \ {source[m]} : source' = [source EXCEPT ![m] = v]
  /\ sourceEdits' = sourceEdits + 1 /\ raced' = (raced \/ Running # {})
  /\ UNCHANGED <<files, manifest, registry, session, started, overlapped>>

Crash(s) ==
  /\ s \in Running /\ End(s)
  /\ UNCHANGED <<source, files, manifest, registry, started, sourceEdits, raced, overlapped>>

Step(s) ==
  \/ \E m \in Modules : Start(s, m)
  \/ Miss(s) \/ Load(s) \/ Hydrate(s) \/ Leave(s) \/ Analyse(s) \/ BuildArtifact(s)
  \/ \E t \in Types : CheckMapping(s, t) \/ Lower(s, t)
  \/ Truncate(s) \/ Write(s) \/ TruncateManifest(s) \/ Save(s) \/ Crash(s)

StoreNext == (\E s \in Sessions : Step(s)) \/ (\E m \in Modules : Edit(m))

StoreSpec == StoreInit /\ [][StoreNext]_storeVars

(***************************************************************************)
(* Properties.                                                             *)
(***************************************************************************)
Injective(tags) == \A t, u \in Tagged(tags) : tags[t] = tags[u] => t = u

\* In one program no two types share a tag, and each has the tag of the
\* registry its session loaded: a type cast to opaque in the cached part and
\* tested in another part is compared with the same number.
TagsOfProgramAgree ==
  \A s \in Running : \A t \in Tagged(session[s].tags) :
    session[s].tags[t] = session[s].registry[t] /\ Injective(session[s].registry)

\* While no two sessions have run at once, the registry never takes back or
\* changes the tag of a type, whatever sessions are killed.
SequentialTagsStable ==
  [][~overlapped' => \A t \in Tagged(registry) : registry'[t] = registry[t]]_storeVars

\* A hydrated program is out of date only in an import, or after a source was
\* edited while a session was reading it.
OnlyImportsStale ==
  \A s \in Sessions : session[s].at = "check" /\ ~raced =>
    session[s].artifact.built[session[s].module] = source[session[s].module]

\* cache/manifest.hpp: a dependency change invalidates dependents.
HydratedIsCurrent ==
  \A s \in Sessions : session[s].at = "hydrated" /\ ~raced =>
    \A d \in DOMAIN session[s].artifact.built : session[s].artifact.built[d] = source[d]
================================================================================
