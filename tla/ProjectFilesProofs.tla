-------------------------- MODULE ProjectFilesProofs --------------------------
(***************************************************************************)
(* Proofs about the files of a project, for any number of processes,       *)
(* modules, pages and packages.                                            *)
(*                                                                         *)
(* The persistent cache: the tags of one program agree, tags are stable    *)
(* while sessions come one after the other, and an artifact that is loaded *)
(* is that of its module's present text unless a source was edited under a *)
(* running session.                                                        *)
(*                                                                         *)
(* The documentation: no text is lost, and a run that fails is undone.     *)
(*                                                                         *)
(* The packages: deps resolve accepts exactly the sound projects, and a    *)
(* build that is let through has the lock its manifests ask for.           *)
(***************************************************************************)
EXTENDS ArtifactStore, DocsOutput, PackageResolver, NumberLemmas, FiniteSetTheorems

Stages == {"idle", "load", "check", "hydrated", "analyse", "lower", "write", "writing",
           "save", "saving"}
Tags == [Types -> Nat]
AbiNames == {AbiOf(v) : v \in Versions}
Entries == {NoEntry} \cup UNION {[Program(m) -> AbiNames] : m \in Modules}
ManifestRecords == [Modules -> Entries]
ProgramTexts == UNION {[Program(m) -> Versions] : m \in Modules}
Dependencies == UNION {[ImportsOf(m) -> Entries] : m \in Modules}
Artifacts == [kind : {"artifact"}, fingerprint : Versions, built : ProgramTexts, tags : Tags,
              abi : Entries, deps : Dependencies]
ArtifactsOf(m) == {a \in Artifacts : a.built \in [Program(m) -> Versions] /\ a.abi \in Entries}
SessionRecords ==
  [at : Stages, module : Modules \cup {"none"}, manifest : ManifestRecords, registry : Tags, tags : Tags,
   fingerprint : Versions \cup {"none"}, built : ProgramTexts \cup {"none"},
   artifact : Artifacts \cup {Absent}]

\* What a session holds in each stage.
Holds(r) ==
  /\ r.at # "idle" => r.module \in Modules
  /\ r.at \in {"analyse", "lower"} => r.fingerprint \in Versions
  /\ r.at = "lower" => r.built \in [Program(r.module) -> Versions]
  /\ r.at \in {"check", "hydrated", "write", "writing"} => r.artifact \in ArtifactsOf(r.module)

TypeInv ==
  /\ source \in [Modules -> Versions]
  /\ DOMAIN files = Modules
  /\ \A m \in Modules : files[m] \in {Absent, Broken} \cup ArtifactsOf(m)
  /\ manifest \in ManifestRecords
  /\ registry \in Tags
  /\ session \in [Sessions -> SessionRecords]
  /\ \A s \in Sessions : Holds(session[s])
  /\ raced \in BOOLEAN /\ overlapped \in BOOLEAN

-----------------------------------------------------------------------------
LEMMA Blank == NoManifest \in ManifestRecords /\ NoTags \in Tags /\ Idle \in SessionRecords /\ Holds(Idle)
<1>1. NoManifest \in ManifestRecords /\ NoTags \in Tags
  BY DEF NoManifest, ManifestRecords, Entries, NoTags, Tags
<1> QED  BY <1>1 DEF Idle, SessionRecords, Stages, Holds

LEMMA Assigned ==
  ASSUME NEW tags \in Tags, NEW t \in Types
  PROVE  assignCanonicalId(tags, t) \in Nat
<1>1. IsFiniteSet(Tagged(tags))
  BY StoreAssumption, FS_Subset DEF Tagged
<1> QED  BY <1>1, FS_CardinalityType DEF assignCanonicalId, Tags

LEMMA InitTyped == StoreInit => TypeInv
<1> SUFFICES ASSUME StoreInit PROVE TypeInv
  OBVIOUS
<1>1. source \in [Modules -> Versions]
  BY StoreAssumption DEF StoreInit
<1> QED  BY <1>1, Blank DEF StoreInit, TypeInv

\* One session changes.
LEMMA TypedStep ==
  ASSUME TypeInv, NEW s \in Sessions, NEW r \in SessionRecords, Holds(r),
         session' = [session EXCEPT ![s] = r],
         registry' \in Tags, manifest' \in ManifestRecords, DOMAIN files' = Modules,
         \A m \in Modules : files'[m] \in {Absent, Broken} \cup ArtifactsOf(m),
         source' = source, raced' = raced, overlapped' \in BOOLEAN
  PROVE  TypeInv'
<1> HIDE DEF SessionRecords, Holds, Tags, ManifestRecords, ArtifactsOf
<1> QED  BY DEF TypeInv

LEMMA TypedAt ==
  ASSUME NEW r \in SessionRecords, NEW at \in Stages
  PROVE  [r EXCEPT !.at = at] \in SessionRecords
BY DEF SessionRecords

LEMMA Known ==
  ASSUME TypeInv, NEW s \in Sessions
  PROVE  /\ session[s] \in SessionRecords /\ Holds(session[s])
         /\ session[s].registry \in Tags /\ session[s].tags \in Tags
         /\ session[s].manifest \in ManifestRecords
BY DEF TypeInv, SessionRecords

LEMMA HeldTyped ==
  ASSUME TypeInv, NEW s \in Sessions, NEW t \in Types
  PROVE  Held(s, t) \in Tags
BY Known, Assigned DEF Held, Tags

LEMMA TypedStart ==
  ASSUME TypeInv, NEW s \in Sessions, NEW m \in Modules, Start(s, m)
  PROVE  TypeInv'
<1> DEFINE r == [Idle EXCEPT !.at = "load", !.module = m, !.manifest = manifest, !.registry = registry]
<1>1. manifest \in ManifestRecords /\ registry \in Tags
  BY DEF TypeInv
<1>2. r \in SessionRecords /\ Holds(r)
  BY <1>1, Blank DEF SessionRecords, Holds, Stages
<1>3. overlapped' \in BOOLEAN
  BY DEF TypeInv, Start
<1> HIDE DEF r
<1>4. session' = [session EXCEPT ![s] = r]
  BY DEF Start, r
<1> QED  BY <1>1, <1>2, <1>3, <1>4, TypedStep DEF Start, TypeInv

LEMMA TypedMiss ==
  ASSUME TypeInv, NEW s \in Sessions, Miss(s)
  PROVE  TypeInv'
<1> DEFINE m == session[s].module
           known == IF files[m] = Absent THEN session[s].manifest
                    ELSE [session[s].manifest EXCEPT ![m] = NoEntry]
           r == [session[s] EXCEPT !.at = "analyse", !.fingerprint = source[m], !.manifest = known]
<1>1. m \in Modules
  BY Known DEF Miss, Holds
<1>2. known \in ManifestRecords
  BY Known DEF ManifestRecords, Entries
<1>3. source[m] \in Versions
  BY <1>1 DEF TypeInv
<1>4. session' = [session EXCEPT ![s] = r]
  BY DEF Miss, TypeInv
<1> HIDE DEF known
<1>5. r \in SessionRecords /\ Holds(r)
  BY <1>1, <1>2, <1>3, Known DEF SessionRecords, Holds, Stages
<1>6. DOMAIN files' = Modules /\ \A n \in Modules : files'[n] \in {Absent, Broken} \cup ArtifactsOf(n)
  BY <1>1 DEF Miss, TypeInv
<1> HIDE DEF r
<1> QED  BY <1>4, <1>5, <1>6, TypedStep DEF Miss, TypeInv

LEMMA TypedLoad ==
  ASSUME TypeInv, NEW s \in Sessions, Load(s)
  PROVE  TypeInv'
<1> DEFINE m == session[s].module
           r == [session[s] EXCEPT !.at = "check", !.artifact = files[m]]
<1>1. m \in Modules
  BY Known DEF Load, Holds
<1>2. files[m] \in ArtifactsOf(m)
  BY <1>1 DEF Load, Loads, TypeInv, Absent, Broken
<1>3. session' = [session EXCEPT ![s] = r]
  BY DEF Load, TypeInv
<1>4. r \in SessionRecords /\ Holds(r)
  <2>1. files[m] \in Artifacts
    BY <1>2 DEF ArtifactsOf
  <2> QED  BY <1>1, <1>2, <2>1, Known DEF SessionRecords, Holds, Stages
<1> HIDE DEF r
<1> QED  BY <1>3, <1>4, TypedStep DEF Load, TypeInv

LEMMA TypedTag ==
  ASSUME TypeInv, NEW s \in Sessions, NEW t \in Types, AssignTag(s, t),
         UNCHANGED <<source, files, manifest, started, sourceEdits, raced, overlapped>>
  PROVE  TypeInv'
<1> DEFINE r == [session[s] EXCEPT !.registry = Held(s, t), !.tags[t] = Held(s, t)[t]]
<1>1. Held(s, t) \in Tags
  BY HeldTyped
<1>2. [session[s].tags EXCEPT ![t] = Held(s, t)[t]] \in Tags
  BY <1>1, Known DEF Tags
<1>3. session' = [session EXCEPT ![s] = r]
  BY DEF AssignTag, TypeInv
<1>4. r \in SessionRecords /\ Holds(r)
  BY <1>1, <1>2, Known DEF SessionRecords, Holds
<1>5. registry' \in Tags
  BY <1>1 DEF AssignTag, SaveRegistry, TypeInv
<1> HIDE DEF r
<1> QED  BY <1>3, <1>4, <1>5, TypedStep DEF TypeInv

\* A session ends.
LEMMA TypedEnd ==
  ASSUME TypeInv, NEW s \in Sessions, End(s), registry' \in Tags, manifest' \in ManifestRecords,
         UNCHANGED <<source, files, started, sourceEdits, raced, overlapped>>
  PROVE  TypeInv'
BY Blank, TypedStep DEF End, TypeInv

LEMMA TypedCheck ==
  ASSUME TypeInv, NEW s \in Sessions, NEW t \in Types, CheckMapping(s, t)
  PROVE  TypeInv'
<1>1. CASE AssignTag(s, t)
  BY <1>1, TypedTag DEF CheckMapping
<1>2. CASE SaveRegistry(s, t) /\ End(s)
  <2>1. registry' \in Tags
    BY <1>2, HeldTyped DEF SaveRegistry, TypeInv
  <2> QED  BY <1>2, <2>1, TypedEnd DEF CheckMapping, TypeInv
<1> QED  BY <1>1, <1>2 DEF CheckMapping

\* Only the stage changes, and perhaps the files.
LEMMA TypedGo ==
  ASSUME TypeInv, NEW s \in Sessions,
         \/ Hydrate(s) \/ Truncate(s) \/ TruncateManifest(s)
         \/ /\ session[s].at = "hydrated" /\ Go(s, "write")
            /\ UNCHANGED <<source, files, manifest, registry, started, sourceEdits, raced, overlapped>>
  PROVE  TypeInv'
<1>1. PICK at \in {"hydrated", "write", "writing", "saving"} :
        /\ session' = [session EXCEPT ![s].at = at]
        /\ at = "saving" \/ session[s].at \in {"check", "hydrated", "write", "writing"}
        /\ session[s].at # "idle"
  BY DEF Hydrate, Truncate, TruncateManifest, Go
<1> DEFINE r == [session[s] EXCEPT !.at = at]
<1>2. session' = [session EXCEPT ![s] = r]
  BY <1>1 DEF TypeInv
<1>3. r \in SessionRecords
  BY Known, TypedAt DEF Stages
<1>4. Holds(r)
  BY <1>1, Known DEF SessionRecords, Holds
<1>5. DOMAIN files' = Modules /\ \A n \in Modules : files'[n] \in {Absent, Broken} \cup ArtifactsOf(n)
  BY DEF Hydrate, Truncate, TruncateManifest, TypeInv
<1>6. manifest' \in ManifestRecords
  BY Blank DEF Hydrate, Truncate, TruncateManifest, TypeInv
<1> HIDE DEF r
<1> QED  BY <1>2, <1>3, <1>4, <1>5, <1>6, TypedStep DEF Hydrate, Truncate, TruncateManifest, TypeInv

LEMMA TypedAnalyse ==
  ASSUME TypeInv, NEW s \in Sessions, Analyse(s)
  PROVE  TypeInv'
<1> DEFINE texts == [d \in Program(session[s].module) |-> source[d]]
           r == [session[s] EXCEPT !.at = "lower", !.built = texts]
<1>1. session[s].module \in Modules /\ session[s].fingerprint \in Versions
  BY Known DEF Analyse, Holds
<1>2. texts \in [Program(session[s].module) -> Versions]
  BY <1>1, StoreAssumption DEF TypeInv
<1>3. session' = [session EXCEPT ![s] = r]
  BY DEF Analyse, TypeInv
<1> HIDE DEF texts
<1>4. r \in SessionRecords /\ Holds(r)
  <2>1. texts \in ProgramTexts
    BY <1>1, <1>2 DEF ProgramTexts
  <2> QED  BY <1>1, <1>2, <2>1, Known DEF SessionRecords, Holds, Stages
<1> HIDE DEF r
<1> QED  BY <1>3, <1>4, TypedStep DEF Analyse, TypeInv

LEMMA TypedBuild ==
  ASSUME TypeInv, NEW s \in Sessions, BuildArtifact(s)
  PROVE  TypeInv'
<1> DEFINE me == session[s]
           deps == [d \in ImportsOf(me.module) |-> me.manifest[d]]
           artifact == [kind |-> "artifact", fingerprint |-> me.fingerprint, built |-> me.built,
                        tags |-> me.tags, abi |-> Abi(me.built), deps |-> deps]
           r == [session[s] EXCEPT !.at = "write", !.artifact = artifact]
<1>1. /\ me.module \in Modules /\ me.fingerprint \in Versions
      /\ me.built \in [Program(me.module) -> Versions] /\ me.tags \in Tags
  BY Known DEF BuildArtifact, Holds
<1>2. Abi(me.built) \in Entries
  <2>1. Abi(me.built) \in [Program(me.module) -> AbiNames]
    BY <1>1 DEF Abi, AbiNames
  <2> QED  BY <1>1, <2>1 DEF Entries
<1>3. deps \in Dependencies
  <2>1. deps \in [ImportsOf(me.module) -> Entries]
    BY <1>1, Known, StoreAssumption DEF ManifestRecords
  <2> QED  BY <1>1, <2>1 DEF Dependencies
<1>4. session' = [session EXCEPT ![s] = r]
  BY DEF BuildArtifact, TypeInv
<1> HIDE DEF deps
<1>5. artifact \in ArtifactsOf(me.module)
  BY <1>1, <1>2, <1>3 DEF ArtifactsOf, Artifacts, ProgramTexts
<1> HIDE DEF artifact
<1>6. r \in SessionRecords /\ Holds(r)
  <2>1. artifact \in Artifacts
    BY <1>5 DEF ArtifactsOf
  <2> QED  BY <1>1, <1>5, <2>1, Known DEF SessionRecords, Holds, Stages
<1> HIDE DEF r
<1> QED  BY <1>4, <1>6, TypedStep DEF BuildArtifact, TypeInv

LEMMA TypedWrite ==
  ASSUME TypeInv, NEW s \in Sessions, Write(s)
  PROVE  TypeInv'
<1> DEFINE me == session[s]
           known == [me.manifest EXCEPT ![me.module] = me.artifact.abi]
           r == [session[s] EXCEPT !.at = "save", !.manifest = known]
<1>1. me.module \in Modules /\ me.artifact \in ArtifactsOf(me.module)
  BY Known DEF Write, Holds
<1>2. known \in ManifestRecords
  BY <1>1, Known DEF ManifestRecords, ArtifactsOf
<1>3. session' = [session EXCEPT ![s] = r]
  BY DEF Write, TypeInv
<1> HIDE DEF known
<1>4. r \in SessionRecords /\ Holds(r)
  BY <1>1, <1>2, Known DEF SessionRecords, Holds, Stages
<1>5. DOMAIN files' = Modules /\ \A n \in Modules : files'[n] \in {Absent, Broken} \cup ArtifactsOf(n)
  <2>1. PICK text \in {me.artifact, Broken} : files' = [files EXCEPT ![me.module] = text]
    BY DEF Write
  <2> QED  BY <1>1, <2>1 DEF TypeInv
<1> HIDE DEF r
<1> QED  BY <1>3, <1>4, <1>5, TypedStep DEF Write, TypeInv

LEMMA TypedSteps == TypeInv /\ [StoreNext]_storeVars => TypeInv'
<1> SUFFICES ASSUME TypeInv, [StoreNext]_storeVars PROVE TypeInv'
  OBVIOUS
<1>1. CASE UNCHANGED storeVars
  BY <1>1 DEF storeVars, TypeInv
<1>2. ASSUME NEW m \in Modules, Edit(m) PROVE TypeInv'
  BY <1>2 DEF Edit, TypeInv
<1>3. ASSUME NEW s \in Sessions, Step(s) PROVE TypeInv'
  <2>1. CASE \E m \in Modules : Start(s, m)
    BY <2>1, TypedStart
  <2>2. CASE \E t \in Types : CheckMapping(s, t) \/ Lower(s, t)
    BY <2>2, TypedCheck, TypedTag DEF Lower
  <2>3. CASE Leave(s)
    BY <2>3, TypedGo, TypedEnd DEF Leave, TypeInv
  <2>4. CASE Save(s) \/ Crash(s)
    BY <2>4, TypedEnd, Known DEF Save, Crash, TypeInv
  <2> QED  BY <1>3, <2>1, <2>2, <2>3, <2>4, TypedMiss, TypedLoad, TypedGo, TypedAnalyse, TypedBuild,
           TypedWrite DEF Step
<1> QED  BY <1>1, <1>2, <1>3 DEF StoreNext

-----------------------------------------------------------------------------
(***************************************************************************)
(* The tags.                                                               *)
(***************************************************************************)
LEMMA StaysInjective ==
  ASSUME NEW tags \in Tags, Injective(tags), NEW t \in Types
  PROVE  Injective([tags EXCEPT ![t] = assignCanonicalId(tags, t)])
<1> DEFINE next == Cardinality(Tagged(tags)) + 1
           new == [tags EXCEPT ![t] = assignCanonicalId(tags, t)]
<1>1. \A u \in Types \ {t} : new[u] = tags[u]
  BY DEF Tags
<1>2. new[t] = assignCanonicalId(tags, t)
  BY DEF Tags
<1>3. \/ new[t] = tags[t] \/ new[t] = 0
      \/ \A u \in Types : tags[u] # new[t]
  BY <1>2 DEF assignCanonicalId
<1> HIDE DEF new
<1> SUFFICES ASSUME NEW u \in Types, NEW v \in Types, new[u] # 0, new[v] # 0, new[u] = new[v]
             PROVE  u = v
  BY DEF Injective, Tagged, new
<1>4. CASE u = t \/ v = t
  BY <1>1, <1>3, <1>4 DEF Injective, Tagged
<1>5. CASE u # t /\ v # t
  BY <1>1, <1>5 DEF Injective, Tagged
<1> QED  BY <1>4, <1>5

\* No registry has one tag for two types, and a session uses the tags of its own.
TagsInv ==
  /\ Injective(registry)
  /\ \A s \in Sessions :
       /\ Injective(session[s].registry)
       /\ \A t \in Tagged(session[s].tags) : session[s].tags[t] = session[s].registry[t]

\* A step of a session leaves the others and, but for AssignTag, the tags alone.
LEMMA Others ==
  ASSUME TypeInv, NEW s \in Sessions, Step(s), NEW v \in Sessions \ {s}
  PROVE  session'[v] = session[v]
BY DEF TypeInv, Step, Start, Miss, Load, CheckMapping, AssignTag, Hydrate, Leave, Analyse, Lower,
       BuildArtifact, Truncate, Write, TruncateManifest, Save, Crash, Go, End

\* Session s stays in the build it is in and assigns no tag.
Quiet(s) ==
  /\ session'[s].at # "idle"
  /\ session[s].at # "idle"
  /\ session'[s].module = session[s].module
  /\ session'[s].registry = session[s].registry
  /\ session'[s].tags = session[s].tags
  /\ UNCHANGED registry

LEMMA StepKinds ==
  ASSUME TypeInv, NEW s \in Sessions, Step(s)
  PROVE  \/ \E m \in Modules : Start(s, m)
         \/ Quiet(s)
         \/ \E t \in Types : AssignTag(s, t) /\ session[s].at # "idle"
         \/ End(s) /\ UNCHANGED registry /\ session[s].at # "idle"
         \/ \E t \in Types : End(s) /\ SaveRegistry(s, t) /\ session[s].at # "idle"
<1> DEFINE r == session[s]
<1>1. r \in SessionRecords
  BY Known
<1>2. CASE Miss(s) \/ Load(s)
  BY <1>1, <1>2 DEF Miss, Load, TypeInv, Quiet, SessionRecords
<1>3. CASE Analyse(s) \/ BuildArtifact(s) \/ Write(s)
  BY <1>1, <1>3 DEF Analyse, BuildArtifact, Write, TypeInv, Quiet, SessionRecords
<1>4. CASE Hydrate(s) \/ Truncate(s) \/ TruncateManifest(s)
  BY <1>1, <1>4 DEF Hydrate, Truncate, TruncateManifest, Go, TypeInv, Quiet, SessionRecords
<1>5. CASE Leave(s)
  BY <1>1, <1>5 DEF Leave, Go, TypeInv, Quiet, SessionRecords
<1>6. CASE \E t \in Types : CheckMapping(s, t) \/ Lower(s, t)
  BY <1>6 DEF CheckMapping, Lower
<1>7. CASE Save(s) \/ Crash(s)
  BY <1>7 DEF Save, Crash, Running
<1> QED  BY <1>2, <1>3, <1>4, <1>5, <1>6, <1>7 DEF Step

LEMMA TagsInit == StoreInit => TagsInv
BY DEF StoreInit, TagsInv, NoTags, Idle, Injective, Tagged

LEMMA TagsStep == TypeInv /\ TagsInv /\ [StoreNext]_storeVars => TagsInv'
<1> SUFFICES ASSUME TypeInv, TagsInv, [StoreNext]_storeVars PROVE TagsInv'
  OBVIOUS
<1>1. CASE UNCHANGED storeVars
  BY <1>1 DEF storeVars, TagsInv, Injective, Tagged
<1>2. ASSUME NEW m \in Modules, Edit(m) PROVE TagsInv'
  BY <1>2 DEF Edit, TagsInv, Injective, Tagged
<1>3. ASSUME NEW s \in Sessions, Step(s) PROVE TagsInv'
  <2>1. \A v \in Sessions \ {s} : session'[v] = session[v]
    BY <1>3, Others
  <2> DEFINE Fine(r) == Injective(r.registry) /\ \A t \in Tagged(r.tags) : r.tags[t] = r.registry[t]
  <2>2. \A v \in Sessions : Fine(session[v])
    BY DEF TagsInv
  <2> SUFFICES Injective(registry') /\ Fine(session'[s])
    BY <2>1, <2>2 DEF TagsInv, Tagged, Injective
  <2>3. Injective(registry)
    BY DEF TagsInv
  <2>4. \A t \in Types : Injective(Held(s, t)) /\ Held(s, t) \in Tags
    BY <2>2, StaysInjective, Known, HeldTyped DEF Held
  <2>5. \A t \in Types : SaveRegistry(s, t) => Injective(registry')
    BY <2>3, <2>4 DEF SaveRegistry
  <2>6. CASE \E m \in Modules : Start(s, m)
    <3>1. session'[s].registry = registry /\ session'[s].tags = NoTags /\ registry' = registry
      BY <2>6 DEF Start, TypeInv, Idle
    <3> QED  BY <2>3, <3>1 DEF NoTags, Tagged
  <2>7. CASE Quiet(s)
    BY <2>2, <2>3, <2>7 DEF Quiet
  <2>8. CASE End(s)
    <3>1. session'[s] = Idle
      BY <2>8 DEF End, TypeInv
    <3>2. Fine(Idle)
      BY DEF Idle, NoTags, Tagged, Injective
    <3>3. Injective(registry')
      BY <1>3, <2>3, <2>5, <2>8, StepKinds DEF Quiet, Start, AssignTag
    <3> QED  BY <3>1, <3>2, <3>3
  <2>9. ASSUME NEW t \in Types, AssignTag(s, t) PROVE Injective(registry') /\ Fine(session'[s])
    <3>1. session'[s].registry = Held(s, t)
      BY <2>9, Known DEF AssignTag, TypeInv, SessionRecords
    <3>2. session'[s].tags = [session[s].tags EXCEPT ![t] = Held(s, t)[t]]
      BY <2>9, Known DEF AssignTag, TypeInv, SessionRecords
    <3>3. \A u \in Types \ {t} : Held(s, t)[u] = session[s].registry[u]
      BY Known DEF Held, Tags
    <3>4. \A u \in Tagged(session'[s].tags) : session'[s].tags[u] = session'[s].registry[u]
      BY <2>2, <3>1, <3>2, <3>3, Known DEF Tagged, Tags
    <3>5. Injective(registry')
      BY <2>5, <2>9 DEF AssignTag
    <3> QED  BY <2>4, <3>1, <3>4, <3>5
  <2> HIDE DEF Fine
  <2> QED  BY <1>3, <2>5, <2>6, <2>7, <2>8, <2>9, StepKinds
<1> QED  BY <1>1, <1>2, <1>3 DEF StoreNext

\* In one program no two types share a tag, and each has the tag of the registry
\* its session loaded.
THEOREM ProgramTags == StoreSpec => []TagsOfProgramAgree
<1>1. TagsInv => TagsOfProgramAgree
  BY DEF TagsInv, TagsOfProgramAgree, Running
<1> QED  BY <1>1, InitTyped, TypedSteps, TagsInit, TagsStep, PTL DEF StoreSpec

-----------------------------------------------------------------------------
(***************************************************************************)
(* Sessions one after the other.                                           *)
(***************************************************************************)
\* One session at most, and the registry it holds is the one in the file.
Sequential ==
  ~overlapped =>
    /\ \A v, s \in Running : v = s
    /\ \A s \in Running : session[s].registry = registry

LEMMA SequentialInit == StoreInit => Sequential
BY DEF StoreInit, Sequential, Running, Idle

LEMMA SequentialStep == TypeInv /\ Sequential /\ [StoreNext]_storeVars => Sequential'
<1> SUFFICES ASSUME TypeInv, Sequential, [StoreNext]_storeVars, ~overlapped'
             PROVE  /\ \A v, s \in Running' : v = s
                    /\ \A s \in Running' : session'[s].registry = registry'
  BY DEF Sequential
<1>1. CASE UNCHANGED storeVars
  BY <1>1 DEF storeVars, Sequential, Running
<1>2. CASE \E m \in Modules : Edit(m)
  BY <1>2 DEF Edit, Sequential, Running
<1>3. CASE \E s \in Sessions : Step(s)
  <2>1. PICK s \in Sessions : Step(s)
    BY <1>3
  <2>2. \A v \in Sessions \ {s} : session'[v] = session[v]
    BY <2>1, Others
  <2>3. CASE \E m \in Modules : Start(s, m)
    <3>1. Running = {} /\ UNCHANGED registry /\ session'[s].registry = registry
      BY <2>3, ZenonT(60) DEF Start, TypeInv, Idle
    <3> QED  BY <2>2, <3>1 DEF Running
  <2>4. CASE ~\E m \in Modules : Start(s, m)
    <3>1. overlapped' = overlapped
      BY <2>1, <2>4 DEF Step, Miss, Load, CheckMapping, Hydrate, Leave, Analyse, Lower,
         BuildArtifact, Truncate, Write, TruncateManifest, Save, Crash
    <3>2. s \in Running
      BY <2>1, <2>4, StepKinds DEF Running, Quiet
    <3>3. Running = {s} /\ session[s].registry = registry
      BY <3>1, <3>2 DEF Sequential
    <3>4. Running' \subseteq {s}
      BY <2>2, <3>3 DEF Running
    <3>5. session'[s].at # "idle" => session'[s].registry = registry'
      <4>1. CASE Quiet(s)
        BY <3>3, <4>1 DEF Quiet
      <4>2. CASE End(s)
        BY <4>2 DEF End, TypeInv, Idle
      <4>3. ASSUME NEW t \in Types, AssignTag(s, t) PROVE session'[s].registry = registry'
        <5>1. session'[s].registry = Held(s, t)
          BY <4>3, Known DEF AssignTag, TypeInv, SessionRecords
        <5> QED  BY <3>3, <4>3, <5>1 DEF AssignTag, SaveRegistry
      <4> QED  BY <2>1, <2>4, <4>1, <4>2, <4>3, StepKinds
    <3> QED  BY <3>4, <3>5 DEF Running
  <2> QED  BY <2>3, <2>4
<1> QED  BY <1>1, <1>2, <1>3 DEF StoreNext

\* While no two sessions have run at once, the registry never takes back or
\* changes the tag of a type.
THEOREM TagsStable == StoreSpec => SequentialTagsStable
<1> DEFINE A == ~overlapped' => \A t \in Tagged(registry) : registry'[t] = registry[t]
<1>1. TypeInv /\ Sequential /\ [StoreNext]_storeVars => [A]_storeVars
  <2> SUFFICES ASSUME TypeInv, Sequential, StoreNext, ~overlapped', NEW t \in Tagged(registry)
               PROVE  registry'[t] = registry[t]
    OBVIOUS
  <2>1. CASE \E m \in Modules : Edit(m)
    BY <2>1 DEF Edit
  <2>2. CASE \E s \in Sessions : Step(s)
    <3>1. PICK s \in Sessions : Step(s)
      BY <2>2
    <3>2. CASE registry' = registry
      BY <3>2
    <3>3. CASE registry' # registry
      <4>1. ~\E m \in Modules : Start(s, m)
        BY <3>3 DEF Start
      <4>2. s \in Running /\ \E u \in Types : SaveRegistry(s, u)
        BY <3>1, <3>3, <4>1, StepKinds DEF Quiet, Running, AssignTag
      <4>3. PICK u \in Types : registry' = Held(s, u)
        BY <3>3, <4>2 DEF SaveRegistry
      <4>4. overlapped' = overlapped
        BY <3>1, <4>1 DEF Step, Miss, Load, CheckMapping, Hydrate, Leave, Analyse, Lower,
           BuildArtifact, Truncate, Write, TruncateManifest, Save, Crash
      <4>5. session[s].registry = registry
        BY <4>2, <4>4 DEF Sequential
      <4> QED  BY <4>3, <4>5 DEF Held, assignCanonicalId, Tagged, Tags, TypeInv
    <3> QED  BY <3>2, <3>3
  <2> QED  BY <2>1, <2>2 DEF StoreNext
<1> QED  BY <1>1, InitTyped, TypedSteps, SequentialInit, SequentialStep, PTL
         DEF StoreSpec, SequentialTagsStable
-----------------------------------------------------------------------------
(***************************************************************************)
(* What a loaded artifact was built from.                                  *)
(***************************************************************************)
\* An artifact of module m is named by the text of m it was built from.
Faithful(a, m) == a.kind = "artifact" => a.built[m] = a.fingerprint

\* What a running session has read is what is there.
ReadsNow(r) ==
  /\ r.at \in {"analyse", "lower"} => r.fingerprint = source[r.module]
  /\ r.at = "lower" => r.built[r.module] = source[r.module]
  /\ r.at \in {"check", "hydrated", "write", "writing"} => Faithful(r.artifact, r.module)
  /\ r.at = "check" => r.artifact.fingerprint = source[r.module]

FreshInv ==
  ~raced => /\ \A m \in Modules : Faithful(files[m], m)
            /\ \A s \in Sessions : ReadsNow(session[s])

LEMMA FreshInit == StoreInit => FreshInv
BY DEF StoreInit, FreshInv, Faithful, ReadsNow, Absent, Idle

LEMMA IdleReads ==
  ASSUME NEW r, r.at \in {"idle", "load", "save", "saving"}
  PROVE  ReadsNow(r)
BY DEF ReadsNow

LEMMA FreshStep == TypeInv /\ FreshInv /\ [StoreNext]_storeVars => FreshInv'
<1> SUFFICES ASSUME TypeInv, FreshInv, [StoreNext]_storeVars, ~raced'
             PROVE  /\ \A m \in Modules : Faithful(files'[m], m)
                    /\ \A s \in Sessions : ReadsNow(session[s])'
  BY DEF FreshInv, Faithful
<1>1. CASE UNCHANGED storeVars
  BY <1>1 DEF storeVars, FreshInv, ReadsNow, Faithful
<1>2. CASE \E m \in Modules : Edit(m)
  <2>1. ~raced /\ Running = {} /\ UNCHANGED <<files, session>>
    BY <1>2 DEF Edit, TypeInv
  <2>2. \A s \in Sessions : session'[s].at = "idle"
    BY <2>1 DEF Running
  <2> QED  BY <2>1, <2>2 DEF FreshInv, ReadsNow
<1>3. CASE \E s \in Sessions : Step(s)
  <2>1. PICK s \in Sessions : Step(s)
    BY <1>3
  <2>2. UNCHANGED <<source, raced>>
    BY <2>1 DEF Step, Start, Miss, Load, CheckMapping, Hydrate, Leave, Analyse, Lower,
       BuildArtifact, Truncate, Write, TruncateManifest, Save, Crash
  <2>3. \A v \in Sessions \ {s} : ReadsNow(session[v])'
    BY <2>1, <2>2, Others DEF FreshInv, ReadsNow
  <2>4. ReadsNow(session[s]) /\ \A m \in Modules : Faithful(files[m], m)
    BY <2>2 DEF FreshInv
  <2> DEFINE r == session[s]
  <2>5. r \in SessionRecords /\ Holds(r)
    BY Known
  <2> SUFFICES /\ \A m \in Modules : Faithful(files'[m], m)
               /\ ReadsNow(session[s])'
    BY <2>3
  <2>6. CASE (\E m \in Modules : Start(s, m)) \/ Save(s) \/ TruncateManifest(s) \/ Crash(s)
    <3>1. CASE \E m \in Modules : Start(s, m)
      <4>1. session'[s].at = "load" /\ UNCHANGED files
        BY <3>1, <2>5 DEF Start, Idle, TypeInv, SessionRecords
      <4> QED  BY <2>4, <4>1 DEF ReadsNow
    <3>2. CASE Save(s) \/ Crash(s)
      <4>1. session'[s].at = "idle" /\ UNCHANGED files
        BY <3>2, <2>5 DEF Save, Crash, End, Idle, TypeInv, SessionRecords
      <4> QED  BY <2>4, <4>1 DEF ReadsNow
    <3>3. CASE TruncateManifest(s)
      <4>1. session'[s].at = "saving" /\ UNCHANGED files
        BY <3>3, <2>5 DEF TruncateManifest, Go, TypeInv, SessionRecords
      <4> QED  BY <2>4, <4>1 DEF ReadsNow
    <3> QED  BY <2>6, <3>1, <3>2, <3>3
  <2>7. CASE Miss(s)
    <3>1. /\ session'[s].at = "analyse" /\ session'[s].fingerprint = source[r.module]
          /\ session'[s].module = r.module
          /\ \A m \in Modules : files'[m] \in {files[m], Absent}
      BY <2>7, <2>5 DEF Miss, TypeInv, SessionRecords
    <3> QED  BY <2>2, <2>4, <3>1 DEF ReadsNow, Faithful, Absent
  <2>8. CASE Load(s)
    <3>1. r.module \in Modules
      BY <2>5, <2>8 DEF Load, Holds
    <3>2. /\ session'[s].at = "check" /\ session'[s].artifact = files[r.module]
          /\ session'[s].module = r.module /\ UNCHANGED files
          /\ files[r.module].fingerprint = source[r.module]
      BY <2>8, <2>5 DEF Load, Loads, validateArtifact, TypeInv, SessionRecords
    <3> QED  BY <2>2, <2>4, <3>1, <3>2 DEF ReadsNow
  <2>9. CASE \E t \in Types : CheckMapping(s, t) \/ Lower(s, t)
    <3>1. UNCHANGED files
      BY <2>9 DEF CheckMapping, Lower
    <3>2. CASE End(s)
      BY <2>4, <3>1, <3>2 DEF End, Idle, TypeInv, ReadsNow
    <3>3. ASSUME NEW t \in Types, AssignTag(s, t) PROVE ReadsNow(session[s])'
      <4>1. /\ session'[s].at = r.at /\ session'[s].module = r.module
            /\ session'[s].fingerprint = r.fingerprint /\ session'[s].built = r.built
            /\ session'[s].artifact = r.artifact
        BY <2>5, <3>3 DEF AssignTag, TypeInv, SessionRecords
      <4> QED  BY <2>2, <2>4, <4>1 DEF ReadsNow
    <3> QED  BY <2>4, <2>9, <3>1, <3>2, <3>3 DEF CheckMapping, Lower
  <2>10. CASE Hydrate(s) \/ Leave(s)
    <3>1. /\ UNCHANGED files
          /\ \/ session'[s].at = "idle"
             \/ /\ r.at \in {"check", "hydrated"} /\ session'[s].at \in {"hydrated", "write"}
                /\ session'[s].module = r.module /\ session'[s].artifact = r.artifact
      BY <2>10, <2>5 DEF Hydrate, Leave, Go, End, Idle, TypeInv, SessionRecords
    <3> QED  BY <2>4, <3>1 DEF ReadsNow
  <2>11. CASE Analyse(s)
    <3>1. r.module \in Modules /\ r.module \in Program(r.module)
      BY <2>5, <2>11, StoreAssumption DEF Analyse, Holds
    <3>2. /\ r.at = "analyse" /\ session'[s].at = "lower" /\ session'[s].module = r.module
          /\ session'[s].fingerprint = r.fingerprint
          /\ session'[s].built = [d \in Program(r.module) |-> source[d]] /\ UNCHANGED files
      BY <2>5, <2>11 DEF Analyse, TypeInv, SessionRecords
    <3> QED  BY <2>2, <2>4, <3>1, <3>2 DEF ReadsNow
  <2>12. CASE BuildArtifact(s)
    <3>1. /\ r.at = "lower" /\ session'[s].at = "write" /\ session'[s].module = r.module
          /\ session'[s].artifact.fingerprint = r.fingerprint
          /\ session'[s].artifact.built = r.built /\ UNCHANGED files
      BY <2>5, <2>12 DEF BuildArtifact, TypeInv, SessionRecords
    <3> QED  BY <2>2, <2>4, <3>1 DEF ReadsNow, Faithful
  <2>13. CASE Truncate(s)
    <3>1. /\ r.at = "write" /\ session'[s].at = "writing" /\ session'[s].module = r.module
          /\ session'[s].artifact = r.artifact
          /\ \A m \in Modules : files'[m] \in {files[m], Broken}
      BY <2>5, <2>13 DEF Truncate, Go, TypeInv, SessionRecords
    <3> QED  BY <2>4, <3>1 DEF ReadsNow, Faithful, Broken
  <2>14. CASE Write(s)
    <3>1. /\ r.at = "writing" /\ session'[s].at = "save"
          /\ \A m \in Modules : \/ files'[m] \in {files[m], Broken}
                                \/ (m = r.module /\ files'[m] = r.artifact)
      BY <2>5, <2>14 DEF Write, TypeInv, SessionRecords
    <3> QED  BY <2>4, <3>1 DEF ReadsNow, Faithful, Broken
  <2> QED  BY <2>1, <2>6, <2>7, <2>8, <2>9, <2>10, <2>11, <2>12, <2>13, <2>14 DEF Step
<1> QED  BY <1>1, <1>2, <1>3 DEF StoreNext

\* A program loaded from the cache is out of date only in an import, or after a
\* source was edited while a session was reading it.
THEOREM LoadedIsOfItsText == StoreSpec => []OnlyImportsStale
<1>1. TypeInv /\ FreshInv => OnlyImportsStale
  <2> SUFFICES ASSUME TypeInv, FreshInv, ~raced, NEW s \in Sessions, session[s].at = "check"
               PROVE  session[s].artifact.built[session[s].module] = source[session[s].module]
    BY DEF OnlyImportsStale
  <2>1. session[s].artifact.kind = "artifact"
    BY Known DEF Holds, ArtifactsOf, Artifacts
  <2> QED  BY <2>1 DEF FreshInv, ReadsNow, Faithful
<1> QED  BY <1>1, InitTyped, TypedSteps, FreshInit, FreshStep, PTL DEF StoreSpec

(***************************************************************************)
(* The documentation writer: while writers come one after the other,       *)
(* whatever fails and wherever they are killed, no text is lost and a      *)
(* failed run leaves no trace in the destinations.                         *)
(***************************************************************************)
Places == {"new", "check", "select", "create", "write", "inspect", "preserve", "install",
           "undo", "restore", "discard", "drop", "done", "failed", "crashed"}

WriterRecords ==
  [at : Places, page : Outputs, next : Nat, force : BOOLEAN, complete : BOOLEAN,
   temporary : [Outputs -> 0..NoId], backup : [Outputs -> 0..NoId], installed : SUBSET Outputs]

Texts == {NoFile, "cut", "old"} \cup Writers

\* Which sidecars a writer has numbers for.
Numbered(r) ==
  /\ r.at = "new" => r = NewWriter
  /\ r.at = "check" => r.page = 1
  /\ r.at = "select" => \A f \in Outputs : f < r.page => r.temporary[f] # NoId
  /\ r.at \in {"create", "write"} => \A f \in Outputs : f <= r.page => r.temporary[f] # NoId
  /\ r.at \in {"inspect", "preserve", "install"} =>
       \A f \in Outputs : f >= r.page => r.temporary[f] # NoId
  /\ r.at = "preserve" => r.backup[r.page] # NoId

DocsTypeInv ==
  /\ output \in [FilePaths -> Texts]
  /\ writer \in [Writers -> WriterRecords]
  /\ before \in [Writers -> [Outputs -> Texts]]
  /\ had \subseteq Outputs
  /\ together \in BOOLEAN
  /\ \A w \in Writers : Numbered(writer[w])

-----------------------------------------------------------------------------
LEMMA OutputsKnown == 1 \in Outputs /\ Pages \in Outputs /\ NoId \in 0..NoId /\ NoId \notin 0..MaxId
BY OutputAssumption DEF Outputs, NoId

LEMMA Named ==
  /\ \A f \in Outputs : Destination(f) \in FilePaths
  /\ \A f \in Outputs, id \in 0..MaxId :
       /\ sidecarPath(f, "tmp", id) \in FilePaths
       /\ sidecarPath(f, "backup", id) \in FilePaths
  /\ \A f, g \in Outputs : Destination(f) = Destination(g) => f = g
  /\ \A f, g \in Outputs, i, j \in 0..NoId : sidecarPath(f, "backup", i) = sidecarPath(g, "backup", j)
                                  => f = g /\ i = j
  /\ \A f, g \in Outputs, i, j \in 0..NoId :
       /\ sidecarPath(f, "tmp", i) # Destination(g)
       /\ sidecarPath(f, "backup", i) # Destination(g)
       /\ sidecarPath(f, "tmp", i) # sidecarPath(g, "backup", j)
BY DEF FilePaths, Sidecars, Destination, sidecarPath

LEMMA SelectedFree ==
  ASSUME DocsTypeInv, NEW w \in Writers, NEW f, NEW kind, FreeIds(w, f, kind) # {}
  PROVE  SelectedId(FreeIds(w, f, kind)) \in FreeIds(w, f, kind)
<1>1. FreeIds(w, f, kind) \in SUBSET Nat
  BY OutputAssumption DEF FreeIds, DocsTypeInv, WriterRecords
<1>2. \E id \in FreeIds(w, f, kind) : \A other \in FreeIds(w, f, kind) : id <= other
  BY <1>1, LeastNumber
<1> QED  BY <1>2, Zenon DEF SelectedId
-----------------------------------------------------------------------------
LEMMA Put1 ==
  ASSUME DocsTypeInv, NEW path, NEW text \in Texts, Put(path, text)
  PROVE  output' \in [FilePaths -> Texts]
BY DEF DocsTypeInv, Put

LEMMA Rename1 ==
  ASSUME DocsTypeInv, NEW from \in FilePaths, NEW to, Rename(from, to)
  PROVE  output' \in [FilePaths -> Texts]
BY DEF DocsTypeInv, Rename, Texts

LEMMA Remove1 ==
  ASSUME DocsTypeInv, NEW paths, RemoveAny(paths)
  PROVE  output' \in [FilePaths -> Texts]
BY DEF DocsTypeInv, RemoveAny, Texts

LEMMA DocsInitTyped == DocsInit => DocsTypeInv
<1> SUFFICES ASSUME DocsInit PROVE DocsTypeInv
  OBVIOUS
<1> USE OutputsKnown
<1>1. NewWriter \in WriterRecords /\ Numbered(NewWriter)
  BY DEF NewWriter, WriterRecords, Places, Unstaged, Numbered
<1> QED  BY <1>1 DEF DocsInit, DocsTypeInv, Texts

LEMMA DocsTypedStep ==
  ASSUME DocsTypeInv, NEW w \in Writers,
         output' \in [FilePaths -> Texts],
         NEW r \in WriterRecords, Numbered(r),
         writer' = [writer EXCEPT ![w] = r],
         Ghosts
  PROVE  DocsTypeInv'
BY DEF DocsTypeInv, Ghosts

\* What one step may change of a writer.
LEMMA UpdateTyped ==
  ASSUME NEW r \in WriterRecords, NEW at \in Places
  PROVE  /\ [r EXCEPT !.at = at] \in WriterRecords
         /\ \A page \in Outputs : [r EXCEPT !.at = at, !.page = page] \in WriterRecords
         /\ \A force \in BOOLEAN : [r EXCEPT !.force = force, !.at = at] \in WriterRecords
         /\ [r EXCEPT !.complete = FALSE, !.at = at] \in WriterRecords
BY DEF WriterRecords

LEMMA NumberTyped ==
  ASSUME NEW r \in WriterRecords, NEW f \in Outputs, NEW id \in 0..NoId, NEW at \in Places,
         NEW next \in Nat, NEW page \in Outputs
  PROVE  /\ [r EXCEPT !.temporary[f] = id, !.next = next, !.at = at] \in WriterRecords
         /\ [r EXCEPT !.backup[f] = id, !.next = next, !.at = at] \in WriterRecords
         /\ [r EXCEPT !.backup[f] = id, !.at = at] \in WriterRecords
         /\ [r EXCEPT !.at = at, !.page = page, !.backup[f] = id] \in WriterRecords
         /\ [r EXCEPT !.temporary[f] = id, !.installed = @ \cup {f}, !.page = page, !.at = at]
              \in WriterRecords
<1> DEFINE Ids == 0..NoId
<1>1. /\ [r.temporary EXCEPT ![f] = id] \in [Outputs -> Ids]
      /\ [r.backup EXCEPT ![f] = id] \in [Outputs -> Ids]
      /\ r.installed \cup {f} \in SUBSET Outputs
  BY DEF WriterRecords
<1>2. r \in [at : Places, page : Outputs, next : Nat, force : BOOLEAN, complete : BOOLEAN,
             temporary : [Outputs -> Ids], backup : [Outputs -> Ids], installed : SUBSET Outputs]
  BY DEF WriterRecords
<1> DEFINE numbers == [Outputs -> Ids]
<1> SUFFICES
      LET R == [at : Places, page : Outputs, next : Nat, force : BOOLEAN, complete : BOOLEAN,
                temporary : numbers, backup : numbers, installed : SUBSET Outputs]
      IN  /\ [r EXCEPT !.temporary[f] = id, !.next = next, !.at = at] \in R
          /\ [r EXCEPT !.backup[f] = id, !.next = next, !.at = at] \in R
          /\ [r EXCEPT !.backup[f] = id, !.at = at] \in R
          /\ [r EXCEPT !.at = at, !.page = page, !.backup[f] = id] \in R
          /\ [r EXCEPT !.temporary[f] = id, !.installed = @ \cup {f}, !.page = page, !.at = at] \in R
  BY DEF WriterRecords
<1> HIDE DEF numbers
<1>3. [r.temporary EXCEPT ![f] = id] \in numbers /\ [r.backup EXCEPT ![f] = id] \in numbers
  BY <1>1 DEF numbers
<1>4. r \in [at : Places, page : Outputs, next : Nat, force : BOOLEAN, complete : BOOLEAN,
             temporary : numbers, backup : numbers, installed : SUBSET Outputs]
  BY <1>2 DEF numbers
<1> QED  BY <1>1, <1>3, <1>4

LEMMA TypedBegin == ASSUME DocsTypeInv, NEW w \in Writers, Begin(w) PROVE DocsTypeInv'
<1> USE OutputsKnown
<1>1. PICK force \in BOOLEAN : writer' = [writer EXCEPT ![w].force = force, ![w].at = "check"]
  BY DEF Begin
<1> DEFINE r == [writer[w] EXCEPT !.force = force, !.at = "check"]
<1>2. writer' = [writer EXCEPT ![w] = r]
  BY <1>1 DEF DocsTypeInv
<1>3. r \in WriterRecords
  BY UpdateTyped DEF DocsTypeInv, Places
<1>4. Numbered(r)
  BY DEF Begin, DocsTypeInv, WriterRecords, Numbered, NewWriter
<1>5. before' \in [Writers -> [Outputs -> Texts]]
  BY Named DEF Begin, DocsTypeInv
<1>6. \A v \in Writers : Numbered(writer'[v])
  <2> HIDE DEF r
  <2> QED  BY <1>2, <1>4 DEF DocsTypeInv
<1>7. writer' \in [Writers -> WriterRecords]
  <2> HIDE DEF r
  <2> QED  BY <1>2, <1>3 DEF DocsTypeInv
<1> QED  BY <1>5, <1>6, <1>7 DEF Begin, DocsTypeInv

LEMMA DocsTypedCheck == ASSUME DocsTypeInv, NEW w \in Writers, CheckPlan(w) PROVE DocsTypeInv'
<1> USE OutputsKnown
<1>1. PICK at \in {"failed", "select"} : Goes(w, at)
  BY DEF CheckPlan
<1> DEFINE r == [writer[w] EXCEPT !.at = at]
<1>2. writer' = [writer EXCEPT ![w] = r]
  BY <1>1 DEF DocsTypeInv, Goes
<1>3. r \in WriterRecords
  BY UpdateTyped DEF DocsTypeInv, Places
<1>4. Numbered(r)
  BY DEF CheckPlan, DocsTypeInv, WriterRecords, Numbered, Outputs
<1> HIDE DEF r
<1> QED  BY <1>2, <1>3, <1>4, DocsTypedStep DEF CheckPlan, DocsTypeInv

LEMMA TypedSelect == ASSUME DocsTypeInv, NEW w \in Writers, SelectTemporary(w) PROVE DocsTypeInv'
<1> USE OutputsKnown
<1> DEFINE f == writer[w].page
           id == SelectedId(FreeIds(w, f, "tmp"))
           r == [writer[w] EXCEPT !.temporary[f] = id, !.next = id + 1, !.at = "create"]
<1>1. writer[w] \in WriterRecords /\ f \in Outputs /\ Numbered(writer[w])
  BY DEF DocsTypeInv, WriterRecords
<1>2. id \in FreeIds(w, f, "tmp")
  BY SelectedFree DEF SelectTemporary
<1>3. id \in 0..MaxId
  BY <1>1, <1>2, OutputAssumption DEF FreeIds, WriterRecords
<1>4. writer' = [writer EXCEPT ![w] = r]
  BY DEF SelectTemporary, DocsTypeInv
<1> HIDE DEF id
<1>5. r \in WriterRecords
  <2>1. id \in 0..NoId /\ id + 1 \in Nat /\ "create" \in Places
    BY <1>3, OutputAssumption DEF Places, NoId
  <2> HIDE DEF f
  <2> QED  BY <1>1, <2>1, NumberTyped
<1>6. Numbered(r)
  BY <1>1, <1>3 DEF SelectTemporary, WriterRecords, Numbered, Outputs
<1> HIDE DEF r
<1> QED  BY <1>4, <1>5, <1>6, DocsTypedStep DEF SelectTemporary, DocsTypeInv

LEMMA TypedCreate == ASSUME DocsTypeInv, NEW w \in Writers, Create(w) PROVE DocsTypeInv'
<1> USE OutputsKnown
<1> DEFINE r == [writer[w] EXCEPT !.at = "write"]
<1>1. writer' = [writer EXCEPT ![w] = r]
  BY DEF Create, Goes, DocsTypeInv
<1>2. r \in WriterRecords
  BY UpdateTyped DEF DocsTypeInv, Places
<1>3. Numbered(r)
  BY DEF Create, DocsTypeInv, WriterRecords, Numbered
<1>4. output' \in [FilePaths -> Texts]
  BY Put1 DEF Create, Texts
<1> HIDE DEF r
<1> QED  BY <1>1, <1>2, <1>3, <1>4, DocsTypedStep DEF Create

LEMMA DocsTypedWrite == ASSUME DocsTypeInv, NEW w \in Writers, WriteTemporary(w) PROVE DocsTypeInv'
<1> USE OutputsKnown
<1>1. PICK at \in {"inspect", "select"}, page \in Outputs :
        /\ Turn(w, at, page)
        /\ \/ at = "inspect" /\ page = 1 /\ writer[w].page = Pages
           \/ at = "select" /\ page = writer[w].page + 1
  BY OutputAssumption DEF WriteTemporary, DocsTypeInv, WriterRecords, Outputs
<1> DEFINE r == [writer[w] EXCEPT !.at = at, !.page = page]
<1>2. writer' = [writer EXCEPT ![w] = r]
  BY <1>1 DEF Turn, DocsTypeInv
<1>3. r \in WriterRecords
  BY UpdateTyped DEF DocsTypeInv, Places
<1>4. Numbered(r)
  BY <1>1, OutputAssumption DEF WriteTemporary, DocsTypeInv, WriterRecords, Numbered, Outputs
<1>5. output' \in [FilePaths -> Texts]
  BY Put1 DEF WriteTemporary, Texts
<1> HIDE DEF r
<1> QED  BY <1>2, <1>3, <1>4, <1>5, DocsTypedStep DEF WriteTemporary

LEMMA DocsTypedEnd ==
  ASSUME DocsTypeInv, NEW w \in Writers, StagingFails(w) \/ DropBackups(w) \/ Killed(w)
  PROVE  DocsTypeInv'
<1> USE OutputsKnown
<1>1. PICK at \in {"failed", "done", "crashed"} : Goes(w, at)
  BY DEF StagingFails, DropBackups, Killed
<1> DEFINE r == [writer[w] EXCEPT !.at = at]
<1>2. writer' = [writer EXCEPT ![w] = r]
  BY <1>1 DEF DocsTypeInv, Goes
<1>3. r \in WriterRecords
  BY UpdateTyped DEF DocsTypeInv, Places
<1>4. Numbered(r)
  BY DEF DocsTypeInv, WriterRecords, Numbered
<1>5. output' \in [FilePaths -> Texts]
  BY Remove1 DEF StagingFails, DropBackups, Killed, DocsTypeInv
<1> HIDE DEF r
<1> QED  BY <1>2, <1>3, <1>4, <1>5, DocsTypedStep DEF StagingFails, DropBackups, Killed

LEMMA TypedInspect == ASSUME DocsTypeInv, NEW w \in Writers, Inspect(w) PROVE DocsTypeInv'
<1> USE OutputsKnown
<1> DEFINE f == writer[w].page
           ids == FreeIds(w, f, "backup")
           id == SelectedId(ids)
           absent == [writer[w] EXCEPT !.at = "install"]
           present == [writer[w] EXCEPT !.backup[f] = id, !.next = id + 1, !.at = "preserve"]
<1>1. writer[w] \in WriterRecords /\ f \in Outputs /\ Numbered(writer[w])
  BY DEF DocsTypeInv, WriterRecords
<1>2. CASE Goes(w, "install")
  <2>1. writer' = [writer EXCEPT ![w] = absent]
    BY <1>2 DEF Goes, DocsTypeInv
  <2>2. absent \in WriterRecords
    BY UpdateTyped DEF DocsTypeInv, Places
  <2>3. Numbered(absent)
    BY <1>1 DEF Inspect, WriterRecords, Numbered
  <2> HIDE DEF absent
  <2> QED  BY <2>1, <2>2, <2>3, DocsTypedStep DEF Inspect, DocsTypeInv
<1>3. CASE ids # {} /\ writer' = [writer EXCEPT ![w].backup[f] = id, ![w].next = id + 1,
                                                 ![w].at = "preserve"]
  <2>1. id \in ids
    BY <1>3, SelectedFree
  <2>2. id \in 0..MaxId
    BY <1>1, <2>1, OutputAssumption DEF FreeIds, WriterRecords
  <2>3. writer' = [writer EXCEPT ![w] = present]
    BY <1>3 DEF DocsTypeInv
  <2> HIDE DEF id
  <2>4. present \in WriterRecords
    <3>1. id \in 0..NoId /\ id + 1 \in Nat /\ "preserve" \in Places
      BY <2>2, OutputAssumption DEF Places, NoId
    <3> HIDE DEF f
    <3> QED  BY <1>1, <3>1, NumberTyped
  <2>5. Numbered(present)
    BY <1>1, <2>2 DEF Inspect, WriterRecords, Numbered, Outputs
  <2> HIDE DEF present
  <2> QED  BY <2>3, <2>4, <2>5, DocsTypedStep DEF Inspect, DocsTypeInv
<1> QED  BY <1>2, <1>3 DEF Inspect

LEMMA TypedPreserve == ASSUME DocsTypeInv, NEW w \in Writers, Preserve(w) PROVE DocsTypeInv'
<1> USE OutputsKnown
<1> DEFINE r == [writer[w] EXCEPT !.at = "install"]
<1>1. writer' = [writer EXCEPT ![w] = r]
  BY DEF Preserve, Goes, DocsTypeInv
<1>2. r \in WriterRecords
  BY UpdateTyped DEF DocsTypeInv, Places
<1>3. Numbered(r)
  BY DEF Preserve, DocsTypeInv, WriterRecords, Numbered
<1>4. Destination(writer[w].page) \in FilePaths
  BY Named DEF DocsTypeInv, WriterRecords
<1>5. output' \in [FilePaths -> Texts]
  BY <1>4, Rename1 DEF Preserve
<1> HIDE DEF r
<1> QED  BY <1>1, <1>2, <1>3, <1>5, DocsTypedStep DEF Preserve

LEMMA TypedInstall == ASSUME DocsTypeInv, NEW w \in Writers, Install(w) PROVE DocsTypeInv'
<1> USE OutputsKnown
<1> DEFINE f == writer[w].page
           r == [writer[w] EXCEPT !.temporary[f] = NoId, !.installed = @ \cup {f},
                                  !.page = IF f = Pages THEN 1 ELSE f + 1,
                                  !.at = IF f = Pages THEN "drop" ELSE "inspect"]
<1>1. writer[w] \in WriterRecords /\ f \in Outputs /\ Numbered(writer[w])
  BY DEF DocsTypeInv, WriterRecords
<1>2. writer' = [writer EXCEPT ![w] = r]
  BY DEF Install, DocsTypeInv
<1>3. r \in WriterRecords
  <2>1. (IF f = Pages THEN 1 ELSE f + 1) \in Outputs
    BY <1>1, OutputAssumption DEF Outputs
  <2> QED  BY <1>1, <2>1, NumberTyped, ZenonT(60) DEF Places
<1>4. Numbered(r)
  BY <1>1, OutputAssumption DEF Install, WriterRecords, Numbered, Outputs
<1>5. Temporary(w, f) \in FilePaths
  <2>1. writer[w].temporary[f] \in 0..MaxId
    BY <1>1, OutputAssumption, SMTT(60) DEF Install, WriterRecords, Numbered, Outputs, NoId
  <2> QED  BY <1>1, <2>1, Named DEF Temporary
<1>6. output' \in [FilePaths -> Texts]
  BY <1>5, Rename1 DEF Install
<1> HIDE DEF r
<1> QED  BY <1>2, <1>3, <1>4, <1>6, DocsTypedStep DEF Install

LEMMA TypedCommitFails == ASSUME DocsTypeInv, NEW w \in Writers, CommitFails(w) PROVE DocsTypeInv'
<1> USE OutputsKnown
<1> DEFINE f == writer[w].page
           r == [writer[w] EXCEPT !.at = "undo", !.page = Pages,
                   !.backup[f] = IF writer[w].at = "preserve" THEN NoId ELSE @]
<1>1. writer[w] \in WriterRecords /\ f \in Outputs
  BY DEF DocsTypeInv, WriterRecords
<1>2. writer' = [writer EXCEPT ![w] = r]
  BY DEF CommitFails, DocsTypeInv
<1>3. r \in WriterRecords
  <2>1. (IF writer[w].at = "preserve" THEN NoId ELSE writer[w].backup[f]) \in 0..NoId
    BY <1>1 DEF WriterRecords
  <2> QED  BY <1>1, <2>1, NumberTyped DEF Places
<1>4. Numbered(r)
  BY <1>1 DEF WriterRecords, Numbered
<1> HIDE DEF r
<1> QED  BY <1>2, <1>3, <1>4, DocsTypedStep DEF CommitFails, DocsTypeInv

LEMMA TypedUndo == ASSUME DocsTypeInv, NEW w \in Writers, Undo(w) PROVE DocsTypeInv'
<1> USE OutputsKnown
<1>1. PICK r \in {[writer[w] EXCEPT !.at = "restore"],
                  [writer[w] EXCEPT !.complete = FALSE, !.at = "restore"]} :
        writer' = [writer EXCEPT ![w] = r]
  BY DEF Undo, Goes, Incomplete, DocsTypeInv
<1>2. r \in WriterRecords
  <2>1. writer[w] \in WriterRecords /\ "restore" \in Places
    BY DEF DocsTypeInv, Places
  <2>2. /\ [writer[w] EXCEPT !.at = "restore"] \in WriterRecords
        /\ [writer[w] EXCEPT !.complete = FALSE, !.at = "restore"] \in WriterRecords
    BY <2>1, UpdateTyped
  <2> QED  BY <1>1, <2>2, Zenon
<1>3. Numbered(r)
  BY <1>1 DEF DocsTypeInv, WriterRecords, Numbered
<1>4. output' \in [FilePaths -> Texts]
  BY Put1 DEF Undo, Texts, DocsTypeInv
<1> QED  BY <1>1, <1>2, <1>3, <1>4, DocsTypedStep DEF Undo

LEMMA TypedRestore == ASSUME DocsTypeInv, NEW w \in Writers, Restore(w) PROVE DocsTypeInv'
<1> USE OutputsKnown
<1> DEFINE f == writer[w].page
<1>1. writer[w] \in WriterRecords /\ f \in Outputs
  BY DEF DocsTypeInv, WriterRecords
<1>2. PICK r \in {[writer[w] EXCEPT !.at = "discard"],
                  [writer[w] EXCEPT !.complete = FALSE, !.at = "discard"],
                  [writer[w] EXCEPT !.backup[f] = NoId, !.at = "discard"]} :
        writer' = [writer EXCEPT ![w] = r]
  BY DEF Restore, Goes, Incomplete, DocsTypeInv
<1>3. r \in WriterRecords
  <2>1. "discard" \in Places
    BY DEF Places
  <2>2. [writer[w] EXCEPT !.at = "discard"] \in WriterRecords
    BY <1>1, <2>1, UpdateTyped
  <2>3. [writer[w] EXCEPT !.complete = FALSE, !.at = "discard"] \in WriterRecords
    BY <1>1, <2>1, UpdateTyped
  <2>4. [writer[w] EXCEPT !.backup[f] = NoId, !.at = "discard"] \in WriterRecords
    <3> HIDE DEF f
    <3> QED  BY <1>1, <2>1, NumberTyped
  <2> QED  BY <1>2, <2>2, <2>3, <2>4, Zenon
<1>4. Numbered(r)
  BY <1>1, <1>2 DEF WriterRecords, Numbered
<1>5. output' \in [FilePaths -> Texts]
  <2>1. CASE UNCHANGED output
    BY <2>1 DEF DocsTypeInv
  <2>2. CASE writer[w].backup[f] # NoId /\ Rename(Backup(w, f), Destination(f))
    <3>1. writer[w].backup[f] \in 0..MaxId
      BY <1>1, <2>2, OutputAssumption DEF WriterRecords, NoId
    <3>2. Backup(w, f) \in FilePaths
      BY <1>1, <3>1, Named DEF Backup
    <3> QED  BY <2>2, <3>2, Rename1
  <2> QED  BY <2>1, <2>2 DEF Restore
<1> QED  BY <1>2, <1>3, <1>4, <1>5, DocsTypedStep DEF Restore

LEMMA TypedDiscard == ASSUME DocsTypeInv, NEW w \in Writers, Discard(w) PROVE DocsTypeInv'
<1> USE OutputsKnown
<1>1. PICK at \in {"failed", "undo"}, page \in Outputs :
        writer' = [writer EXCEPT ![w] = [writer[w] EXCEPT !.at = at, !.page = page]]
  <2>1. writer[w].page \in Outputs /\ writer[w] = [writer[w] EXCEPT !.page = writer[w].page]
    BY DEF DocsTypeInv, WriterRecords
  <2>2. CASE writer[w].page = 1
    <3>1. writer' = [writer EXCEPT ![w] = [writer[w] EXCEPT !.at = "failed"]]
      BY <2>2 DEF Discard, Goes, DocsTypeInv
    <3>2. [writer[w] EXCEPT !.at = "failed"]
            = [writer[w] EXCEPT !.at = "failed", !.page = writer[w].page]
      BY DEF DocsTypeInv, WriterRecords
    <3> QED  BY <2>1, <3>1, <3>2
  <2>3. CASE writer[w].page # 1
    <3>1. writer[w].page - 1 \in Outputs
      BY <2>1, <2>3, OutputAssumption DEF Outputs
    <3>2. Turn(w, "undo", writer[w].page - 1)
      BY <2>3 DEF Discard
    <3> QED  BY <3>1, <3>2 DEF Turn, DocsTypeInv
  <2> QED  BY <2>2, <2>3
<1> DEFINE r == [writer[w] EXCEPT !.at = at, !.page = page]
<1>2. r \in WriterRecords
  BY UpdateTyped DEF DocsTypeInv, Places
<1>3. Numbered(r)
  BY DEF DocsTypeInv, WriterRecords, Numbered
<1>4. output' \in [FilePaths -> Texts]
  BY Remove1 DEF Discard
<1>5. writer' = [writer EXCEPT ![w] = r]
  BY <1>1
<1> HIDE DEF r
<1> QED  BY <1>2, <1>3, <1>4, <1>5, DocsTypedStep DEF Discard

LEMMA DocsTypedSteps == DocsTypeInv /\ [DocsNext]_docsVars => DocsTypeInv'
<1> SUFFICES ASSUME DocsTypeInv, [DocsNext]_docsVars PROVE DocsTypeInv'
  OBVIOUS
<1>1. CASE UNCHANGED docsVars
  BY <1>1 DEF docsVars, DocsTypeInv
<1>2. ASSUME NEW w \in Writers, WriterStep(w) PROVE DocsTypeInv'
  BY <1>2, TypedBegin, DocsTypedCheck, TypedSelect, TypedCreate, DocsTypedWrite, DocsTypedEnd, TypedInspect,
     TypedPreserve, TypedInstall, TypedCommitFails, TypedUndo, TypedRestore, TypedDiscard
     DEF WriterStep
<1> QED  BY <1>1, <1>2 DEF DocsNext

\* Every writer keeps a record of its stage and the numbers that stage needs.
THEOREM TypeCorrect == DocsSpec => []DocsTypeInv
<1> QED  BY DocsInitTyped, DocsTypedSteps, PTL DEF DocsSpec
-----------------------------------------------------------------------------
(***************************************************************************)
(* What a writer has done to each page, told from its record r, the files  *)
(* out and the destinations `was` as it found them.                        *)
(***************************************************************************)
Backs(r, f) == sidecarPath(f, "backup", r.backup[f])

Back(r, out, was, f) == r.backup[f] = NoId /\ out[Destination(f)] = was[f]
Untouched(r, out, was, f) == f \notin r.installed /\ Back(r, out, was, f)
Moved(r, out, was, f) ==
  /\ f \notin r.installed /\ r.backup[f] # NoId
  /\ out[Backs(r, f)] = was[f] /\ out[Destination(f)] = NoFile
Replaced(r, out, was, f) ==
  /\ f \in r.installed /\ out[Destination(f)] # "old"
  /\ IF r.backup[f] = NoId THEN was[f] = NoFile ELSE out[Backs(r, f)] = was[f]
\* The backup of the page is about to be made.
Chosen(r, out, was, f) ==
  /\ f \notin r.installed /\ r.backup[f] # NoId
  /\ out[Backs(r, f)] = NoFile /\ out[Destination(f)] = was[f]
\* What was installed is removed, or the rollback is incomplete.
Cleared(r, out, was, f) ==
  IF r.backup[f] = NoId THEN r.complete => out[Destination(f)] = was[f]
  ELSE out[Backs(r, f)] = was[f] /\ out[Destination(f)] # "old"
Committed(r, out, was, f) ==
  Untouched(r, out, was, f) \/ Moved(r, out, was, f) \/ Replaced(r, out, was, f)

PageOK(r, out, was, f) ==
  /\ r.at \in {"check", "select", "create", "write"} => Untouched(r, out, was, f)
  /\ r.at \in {"inspect", "preserve", "install"} =>
       /\ f < r.page => Replaced(r, out, was, f)
       /\ f > r.page => Untouched(r, out, was, f)
  /\ r.at = "inspect" /\ f = r.page => Untouched(r, out, was, f)
  /\ r.at = "preserve" /\ f = r.page => Chosen(r, out, was, f)
  /\ r.at = "install" /\ f = r.page =>
       /\ Untouched(r, out, was, f) \/ Moved(r, out, was, f)
       /\ out[Destination(f)] = NoFile
  /\ r.at \in {"undo", "restore", "discard"} =>
       /\ f < r.page => Committed(r, out, was, f)
       /\ f > r.page => (r.complete => Back(r, out, was, f))
  /\ r.at = "undo" /\ f = r.page => Committed(r, out, was, f)
  /\ r.at = "restore" /\ f = r.page => Cleared(r, out, was, f)
  /\ r.at = "discard" /\ f = r.page => (r.complete => Back(r, out, was, f))

\* The text a page had before any writer is in its place or beside it.
Kept(out, f) ==
  \/ out[Destination(f)] = "old"
  \/ \E id \in 0..MaxId : out[sidecarPath(f, "backup", id)] = "old"

Alone == \A v, w \in Writers : Active(v) /\ Active(w) => v = w
Drafts == \A f \in Outputs, id \in 0..MaxId : output[sidecarPath(f, "tmp", id)] # "old"
PagesOK == \A w \in Writers : Active(w) =>
             \A f \in Outputs : PageOK(writer[w], output, before[w], f)
AllKept == (\A w \in Writers : writer[w].at # "done") => \A f \in had : Kept(output, f)

IInv == DocsTypeInv /\ Drafts /\ (~together => Alone /\ PagesOK /\ AllKept)
-----------------------------------------------------------------------------
(***************************************************************************)
(* What a step leaves alone.                                               *)
(***************************************************************************)
SameFiles(out, new, f) ==
  /\ new[Destination(f)] = out[Destination(f)]
  /\ \A id \in 0..MaxId : new[sidecarPath(f, "backup", id)] = out[sidecarPath(f, "backup", id)]

SamePage(r, s, f) ==
  s.backup[f] = r.backup[f] /\ (f \in s.installed <=> f \in r.installed) /\ s.complete = r.complete

LEMMA BackupNumber ==
  ASSUME NEW r \in WriterRecords, NEW f \in Outputs, r.backup[f] # NoId
  PROVE  r.backup[f] \in 0..MaxId
BY OutputAssumption DEF WriterRecords, NoId

LEMMA Unchanged ==
  ASSUME NEW r \in WriterRecords, NEW s \in WriterRecords, NEW f \in Outputs, NEW out, NEW new,
         NEW was, SameFiles(out, new, f), SamePage(r, s, f)
  PROVE  /\ Back(r, out, was, f) <=> Back(s, new, was, f)
         /\ Untouched(r, out, was, f) <=> Untouched(s, new, was, f)
         /\ Moved(r, out, was, f) <=> Moved(s, new, was, f)
         /\ Replaced(r, out, was, f) <=> Replaced(s, new, was, f)
         /\ Chosen(r, out, was, f) <=> Chosen(s, new, was, f)
         /\ Cleared(r, out, was, f) <=> Cleared(s, new, was, f)
         /\ Committed(r, out, was, f) <=> Committed(s, new, was, f)
<1>1. r.backup[f] # NoId => new[Backs(s, f)] = out[Backs(r, f)]
  BY BackupNumber DEF SameFiles, SamePage, Backs
<1>2. /\ Back(r, out, was, f) <=> Back(s, new, was, f)
      /\ Untouched(r, out, was, f) <=> Untouched(s, new, was, f)
      /\ Moved(r, out, was, f) <=> Moved(s, new, was, f)
      /\ Replaced(r, out, was, f) <=> Replaced(s, new, was, f)
  BY <1>1 DEF SameFiles, SamePage, Back, Untouched, Moved, Replaced
<1>3. Chosen(r, out, was, f) <=> Chosen(s, new, was, f)
  BY <1>1 DEF SameFiles, SamePage, Chosen
<1>4. Cleared(r, out, was, f) <=> Cleared(s, new, was, f)
  BY <1>1 DEF SameFiles, SamePage, Cleared
<1> QED  BY <1>2, <1>3, <1>4 DEF Committed

LEMMA KeptWith ==
  ASSUME NEW f \in Outputs, NEW out, NEW new, SameFiles(out, new, f), Kept(out, f)
  PROVE  Kept(new, f)
BY DEF SameFiles, Kept

\* Steps that write temporary files only.
LEMMA TemporaryOnly ==
  ASSUME DocsTypeInv, NEW g \in Outputs,
         \/ UNCHANGED output
         \/ \E f \in Outputs, id \in 0..NoId : \E text : Put(sidecarPath(f, "tmp", id), text)
         \/ \E paths : /\ RemoveAny(paths)
                       /\ \A p \in paths : \E f \in Outputs, id \in 0..NoId : p = sidecarPath(f, "tmp", id)
  PROVE  SameFiles(output, output', g)
<1>1. CASE UNCHANGED output
  BY <1>1 DEF SameFiles
<1>2. ASSUME NEW f \in Outputs, NEW id \in 0..NoId, NEW text, Put(sidecarPath(f, "tmp", id), text)
      PROVE  SameFiles(output, output', g)
  BY <1>2, Named, OutputAssumption DEF Put, DocsTypeInv, SameFiles, NoId
<1>3. ASSUME NEW paths, RemoveAny(paths),
             \A p \in paths : \E f \in Outputs, id \in 0..NoId : p = sidecarPath(f, "tmp", id)
      PROVE  SameFiles(output, output', g)
  <2>1. Destination(g) \notin paths
    BY <1>3, Named
  <2>2. \A id \in 0..MaxId : sidecarPath(g, "backup", id) \notin paths
    BY <1>3, Named, OutputAssumption DEF NoId
  <2> QED  BY <1>3, <2>1, <2>2, Named DEF RemoveAny, DocsTypeInv, SameFiles
<1> QED  BY <1>1, <1>2, <1>3

LEMMA StagedTemporary ==
  ASSUME DocsTypeInv, NEW w \in Writers, NEW p \in Staged(w)
  PROVE  \E f \in Outputs, id \in 0..NoId : p = sidecarPath(f, "tmp", id)
BY DEF Staged, Temporary, DocsTypeInv, WriterRecords
-----------------------------------------------------------------------------
(***************************************************************************)
(* Each step of a writer keeps what holds of each page.                    *)
(***************************************************************************)
PageStep(w, f) ==
  PageOK(writer[w], output, before[w], f) => PageOK(writer'[w], output', before'[w], f)

LEMMA Records ==
  ASSUME DocsTypeInv, DocsTypeInv', NEW w \in Writers
  PROVE  /\ writer[w] \in WriterRecords /\ writer'[w] \in WriterRecords
         /\ writer[w].page \in Outputs /\ writer'[w].page \in Outputs
         /\ Numbered(writer[w])
BY DEF DocsTypeInv, WriterRecords

\* What Goes and Turn leave alone.
LEMMA Moves ==
  ASSUME DocsTypeInv, NEW w \in Writers, NEW at, NEW page
  PROVE  /\ Goes(w, at) =>
              /\ writer'[w].at = at /\ writer'[w].page = writer[w].page
              /\ writer'[w].backup = writer[w].backup
              /\ writer'[w].installed = writer[w].installed
              /\ writer'[w].complete = writer[w].complete
         /\ Turn(w, at, page) =>
              /\ writer'[w].at = at /\ writer'[w].page = page
              /\ writer'[w].backup = writer[w].backup
              /\ writer'[w].installed = writer[w].installed
              /\ writer'[w].complete = writer[w].complete
<1>1. writer[w] \in WriterRecords
  BY DEF DocsTypeInv
<1> QED  BY <1>1 DEF DocsTypeInv, Goes, Turn, WriterRecords

\* What install() leaves in the record of its run.
LEMMA InstallFields ==
  ASSUME DocsTypeInv, NEW w \in Writers, Install(w), NEW g, g = writer[w].page
  PROVE  /\ writer'[w].backup = writer[w].backup /\ writer'[w].complete = writer[w].complete
         /\ writer'[w].installed = writer[w].installed \cup {g}
         /\ writer'[w].at = IF g = Pages THEN "drop" ELSE "inspect"
         /\ writer'[w].page = IF g = Pages THEN 1 ELSE g + 1
<1>1. PICK r \in WriterRecords : r = writer[w]
  BY DEF DocsTypeInv
<1>2. PICK x : x = [r EXCEPT !.temporary[g] = NoId, !.installed = @ \cup {g},
                             !.page = IF g = Pages THEN 1 ELSE g + 1,
                             !.at = IF g = Pages THEN "drop" ELSE "inspect"]
  OBVIOUS
<1>3. writer' = [writer EXCEPT ![w] = x]
  BY <1>1, <1>2 DEF Install
<1>4. writer'[w] = x
  BY <1>3 DEF DocsTypeInv
<1>5. /\ x.backup = r.backup /\ x.complete = r.complete /\ x.installed = r.installed \cup {g}
      /\ x.at = (IF g = Pages THEN "drop" ELSE "inspect")
      /\ x.page = (IF g = Pages THEN 1 ELSE g + 1)
  BY <1>1, <1>2 DEF WriterRecords
<1> QED  BY <1>1, <1>4, <1>5


LEMMA PageBegin ==
  ASSUME DocsTypeInv, DocsTypeInv', NEW w \in Writers, NEW f \in Outputs, Begin(w)
  PROVE  PageOK(writer'[w], output', before'[w], f)
<1>1. writer'[w].at = "check" /\ writer'[w].installed = {} /\ writer'[w].backup = Unstaged
  BY Records DEF Begin, Numbered, NewWriter, DocsTypeInv
<1>2. before'[w][f] = output'[Destination(f)]
  BY DEF Begin, DocsTypeInv
<1> QED  BY <1>1, <1>2 DEF PageOK, Untouched, Back, Unstaged

LEMMA PageStaging ==
  ASSUME DocsTypeInv, DocsTypeInv', NEW w \in Writers, NEW f \in Outputs,
         CheckPlan(w) \/ SelectTemporary(w) \/ Create(w) \/ WriteTemporary(w)
  PROVE  PageStep(w, f)
<1>1. SameFiles(output, output', f)
  <2>1. CASE CheckPlan(w) \/ SelectTemporary(w)
    BY <2>1, TemporaryOnly DEF CheckPlan, SelectTemporary
  <2>2. CASE Create(w) \/ WriteTemporary(w)
    <3>1. writer[w].temporary[writer[w].page] \in 0..NoId
      BY Records DEF WriterRecords
    <3>2. \E g \in Outputs, id \in 0..NoId : \E text : Put(sidecarPath(g, "tmp", id), text)
      BY <2>2, <3>1, Records DEF Create, WriteTemporary, Temporary
    <3> QED  BY <3>2, TemporaryOnly
  <2> QED  BY <2>1, <2>2
<1>2. SamePage(writer[w], writer'[w], f)
  <2>1. CASE SelectTemporary(w)
    BY <2>1, Records DEF SelectTemporary, SamePage, DocsTypeInv, WriterRecords
  <2>2. CASE CheckPlan(w) \/ Create(w) \/ WriteTemporary(w)
    BY <2>2, Moves DEF CheckPlan, Create, WriteTemporary, SamePage
  <2> QED  BY <2>1, <2>2
<1>3. Untouched(writer[w], output, before[w], f) <=> Untouched(writer'[w], output', before[w], f)
  BY <1>1, <1>2, Records, Unchanged
<1>4. before'[w] = before[w]
  BY DEF CheckPlan, SelectTemporary, Create, WriteTemporary, Ghosts
<1>5. writer[w].at \in {"check", "select", "create", "write"}
  BY DEF CheckPlan, SelectTemporary, Create, WriteTemporary
<1>6. CASE writer'[w].at \in {"select", "create", "write", "failed"}
  BY <1>3, <1>4, <1>5, <1>6 DEF PageStep, PageOK
<1>7. CASE writer'[w].at = "inspect" /\ writer'[w].page = 1
  <2>1. f >= 1
    BY DEF Outputs
  <2> QED  BY <1>3, <1>4, <1>5, <1>7, <2>1 DEF PageStep, PageOK, Outputs
<1>8. writer'[w].at \in {"select", "create", "write", "failed"}
        \/ (writer'[w].at = "inspect" /\ writer'[w].page = 1)
  <2>1. CASE SelectTemporary(w)
    BY <2>1, Records DEF SelectTemporary, DocsTypeInv, WriterRecords
  <2>2. CASE CheckPlan(w) \/ Create(w) \/ WriteTemporary(w)
    BY <2>2, Moves, ZenonT(60) DEF CheckPlan, Create, WriteTemporary
  <2> QED  BY <2>1, <2>2
<1> QED  BY <1>6, <1>7, <1>8

\* A writer that has ended need not know about its pages.
LEMMA PageEnd ==
  ASSUME DocsTypeInv, NEW w \in Writers, NEW f \in Outputs,
         StagingFails(w) \/ DropBackups(w) \/ Killed(w)
  PROVE  PageStep(w, f)
<1>1. writer'[w].at \in {"failed", "done", "crashed"}
  BY Moves DEF StagingFails, DropBackups, Killed
<1> QED  BY <1>1 DEF PageStep, PageOK

LEMMA PageInspect ==
  ASSUME DocsTypeInv, DocsTypeInv', NEW w \in Writers, NEW f \in Outputs, Inspect(w)
  PROVE  PageStep(w, f)
<1> DEFINE g == writer[w].page
           id == SelectedId(FreeIds(w, g, "backup"))
<1>1. g \in Outputs /\ writer[w].at = "inspect" /\ UNCHANGED output /\ before'[w] = before[w]
  BY Records DEF Inspect, Ghosts
<1>2. CASE ~isPresent(Destination(g)) /\ Goes(w, "install")
  <2>1. /\ SamePage(writer[w], writer'[w], f) /\ writer'[w].page = g
        /\ writer'[w].at = "install"
    BY <1>2, Records DEF Goes, SamePage, DocsTypeInv
  <2>2. SameFiles(output, output', f)
    BY <1>1 DEF SameFiles
  <2>3. /\ Untouched(writer[w], output, before[w], f) <=> Untouched(writer'[w], output', before[w], f)
        /\ Replaced(writer[w], output, before[w], f) <=> Replaced(writer'[w], output', before[w], f)
    BY <2>1, <2>2, Records, Unchanged
  <2>4. f = g => output'[Destination(f)] = NoFile
    BY <1>1, <1>2 DEF isPresent
  <2> QED  BY <1>1, <2>1, <2>3, <2>4 DEF PageStep, PageOK
<1>3. CASE FreeIds(w, g, "backup") # {} /\
           writer' = [writer EXCEPT ![w].backup[g] = id, ![w].next = id + 1, ![w].at = "preserve"]
  <2>1. id \in FreeIds(w, g, "backup")
    BY <1>3, SelectedFree
  <2>2. id \in 0..MaxId /\ output[sidecarPath(g, "backup", id)] = NoFile
    BY <2>1, Records, OutputAssumption DEF FreeIds, WriterRecords, isPresent
  <2> HIDE DEF id
  <2>3. /\ writer'[w].page = g /\ writer'[w].at = "preserve"
        /\ writer'[w].installed = writer[w].installed /\ writer'[w].complete = writer[w].complete
        /\ writer'[w].backup = [writer[w].backup EXCEPT ![g] = id]
    BY <1>3, Records DEF DocsTypeInv
  <2>4. CASE f = g
    <3>1. writer'[w].backup[f] = id
      BY <1>1, <2>3, <2>4, Records DEF WriterRecords
    <3>2. Untouched(writer[w], output, before[w], f) => Chosen(writer'[w], output', before[w], f)
      BY <1>1, <2>2, <2>3, <2>4, <3>1, OutputsKnown DEF Untouched, Back, Chosen, Backs
    <3> QED  BY <1>1, <2>3, <2>4, <3>2 DEF PageStep, PageOK, Outputs
  <2>5. CASE f # g
    <3>1. SamePage(writer[w], writer'[w], f)
      BY <2>3, <2>5, Records DEF SamePage, WriterRecords
    <3>2. SameFiles(output, output', f)
      BY <1>1 DEF SameFiles
    <3>3. /\ Untouched(writer[w], output, before[w], f) <=> Untouched(writer'[w], output', before[w], f)
          /\ Replaced(writer[w], output, before[w], f) <=> Replaced(writer'[w], output', before[w], f)
      BY <3>1, <3>2, Records, Unchanged
    <3> QED  BY <1>1, <2>3, <2>5, <3>3 DEF PageStep, PageOK
  <2> QED  BY <2>4, <2>5
<1> QED  BY <1>2, <1>3 DEF Inspect

LEMMA Renamed ==
  ASSUME DocsTypeInv, NEW from \in FilePaths, NEW to \in FilePaths, from # to, Rename(from, to)
  PROVE  /\ output'[to] = output[from] /\ output'[from] = NoFile
         /\ \A p \in FilePaths \ {from, to} : output'[p] = output[p]
BY DEF DocsTypeInv, Rename

\* A file of page g is moved within the page.
LEMMA OtherPage ==
  ASSUME DocsTypeInv, NEW g \in Outputs, NEW f \in Outputs \ {g}, NEW id \in 0..MaxId,
         NEW kind \in {"tmp", "backup"},
         \/ Rename(sidecarPath(g, kind, id), Destination(g))
         \/ Rename(Destination(g), sidecarPath(g, kind, id))
         \/ Put(Destination(g), NoFile)
  PROVE  SameFiles(output, output', f)
<1> DEFINE side == sidecarPath(g, kind, id)
<1>1. side \in FilePaths /\ Destination(g) \in FilePaths /\ side # Destination(g)
  BY Named, OutputAssumption DEF NoId
<1>2. ASSUME NEW p \in FilePaths \ {side, Destination(g)} PROVE output'[p] = output[p]
  <2>1. CASE Put(Destination(g), NoFile)
    BY <2>1 DEF Put, DocsTypeInv
  <2>2. CASE Rename(side, Destination(g)) \/ Rename(Destination(g), side)
    <3> HIDE DEF side
    <3> QED  BY <1>1, <2>2, Renamed
  <2> QED  BY <2>1, <2>2
<1>3. Destination(f) \in FilePaths \ {side, Destination(g)}
  BY Named, OutputAssumption DEF NoId
<1>4. \A n \in 0..MaxId : sidecarPath(f, "backup", n) \in FilePaths \ {side, Destination(g)}
  BY Named, OutputAssumption DEF NoId
<1> QED  BY <1>2, <1>3, <1>4 DEF SameFiles

LEMMA PagePreserve ==
  ASSUME DocsTypeInv, DocsTypeInv', NEW w \in Writers, NEW f \in Outputs, Preserve(w)
  PROVE  PageStep(w, f)
<1> DEFINE g == writer[w].page
           id == writer[w].backup[g]
<1>1. g \in Outputs /\ writer[w].at = "preserve" /\ before'[w] = before[w] /\ id \in 0..MaxId
  BY Records, BackupNumber DEF Preserve, Ghosts, Numbered
<1>2. Rename(Destination(g), sidecarPath(g, "backup", id))
  BY DEF Preserve, Backup
<1>3. /\ SamePage(writer[w], writer'[w], f) /\ writer'[w].page = g /\ writer'[w].at = "install"
      /\ writer'[w].backup = writer[w].backup /\ writer'[w].installed = writer[w].installed
  BY Moves DEF Preserve, SamePage
<1> HIDE DEF g, id
<1>4. CASE f = g
  <2>1. /\ output'[sidecarPath(g, "backup", id)] = output[Destination(g)]
        /\ output'[Destination(g)] = NoFile
    BY <1>1, <1>2, Renamed, Named, OutputAssumption DEF NoId
  <2>2. Chosen(writer[w], output, before[w], f) => Moved(writer'[w], output', before[w], f)
    BY <1>3, <1>4, <2>1 DEF Chosen, Moved, Backs, id
  <2> QED  BY <1>1, <1>3, <1>4, <2>1, <2>2 DEF PageStep, PageOK, g, Outputs
<1>5. CASE f # g
  <2>1. SameFiles(output, output', f)
    BY <1>1, <1>2, <1>5, OtherPage
  <2>2. /\ Untouched(writer[w], output, before[w], f) <=> Untouched(writer'[w], output', before[w], f)
        /\ Replaced(writer[w], output, before[w], f) <=> Replaced(writer'[w], output', before[w], f)
    BY <1>3, <2>1, Records, Unchanged
  <2> QED  BY <1>1, <1>3, <1>5, <2>2 DEF PageStep, PageOK, g
<1> QED  BY <1>4, <1>5

LEMMA PageInstall ==
  ASSUME DocsTypeInv, DocsTypeInv', Drafts, NEW w \in Writers, NEW f \in Outputs, Install(w)
  PROVE  PageStep(w, f)
<1> DEFINE g == writer[w].page
           id == writer[w].temporary[g]
<1>1. g \in Outputs /\ writer[w].at = "install" /\ before'[w] = before[w]
  BY Records DEF Install, Ghosts
<1>2. id \in 0..MaxId
  <2>1. id # NoId
    BY <1>1, Records DEF Numbered, Outputs
  <2>2. id \in 0..NoId
    BY <1>1, Records DEF WriterRecords
  <2> QED  BY <2>1, <2>2, OutputAssumption DEF NoId
<1>3. Rename(sidecarPath(g, "tmp", id), Destination(g))
  BY DEF Install, Temporary
<1>4. /\ writer'[w].backup = writer[w].backup /\ writer'[w].complete = writer[w].complete
      /\ writer'[w].installed = writer[w].installed \cup {g}
      /\ writer'[w].at = IF g = Pages THEN "drop" ELSE "inspect"
      /\ writer'[w].page = IF g = Pages THEN 1 ELSE g + 1
  BY InstallFields
<1> HIDE DEF g, id
<1>5. CASE g = Pages
  BY <1>4, <1>5 DEF PageStep, PageOK
<1>6. CASE g # Pages /\ f = g
  <2>1. /\ output'[Destination(g)] # "old"
        /\ \A n \in 0..MaxId : output'[sidecarPath(g, "backup", n)] = output[sidecarPath(g, "backup", n)]
    BY <1>1, <1>2, <1>3, Renamed, Named, OutputAssumption DEF NoId, Drafts
  <2>2. writer[w].backup[f] # NoId => output'[Backs(writer'[w], f)] = output[Backs(writer[w], f)]
    BY <1>4, <1>6, <2>1, Records, BackupNumber DEF Backs
  <2>3. f < writer'[w].page /\ writer'[w].at = "inspect"
    BY <1>1, <1>4, <1>6 DEF Outputs
  <2>4. PageOK(writer[w], output, before[w], f) => Replaced(writer'[w], output', before[w], f)
    BY <1>1, <1>4, <1>6, <2>1, <2>2 DEF PageOK, Untouched, Back, Moved, Replaced, g
  <2> QED  BY <1>1, <2>3, <2>4, Records DEF PageStep, PageOK, Outputs
<1>7. CASE g # Pages /\ f # g
  <2>1. SameFiles(output, output', f)
    BY <1>1, <1>2, <1>3, <1>7, OtherPage
  <2>2. SamePage(writer[w], writer'[w], f)
    BY <1>4, <1>7 DEF SamePage
  <2>3. /\ Untouched(writer[w], output, before[w], f) <=> Untouched(writer'[w], output', before[w], f)
        /\ Replaced(writer[w], output, before[w], f) <=> Replaced(writer'[w], output', before[w], f)
    BY <2>1, <2>2, Records, Unchanged
  <2>4. writer'[w].at = "inspect" /\ writer'[w].page = g + 1 /\ f \in Nat /\ g \in Nat
    BY <1>1, <1>4, <1>7 DEF Outputs
  <2> QED  BY <1>1, <1>7, <2>3, <2>4 DEF PageStep, PageOK, g
<1> QED  BY <1>5, <1>6, <1>7

LEMMA PageCommitFails ==
  ASSUME DocsTypeInv, DocsTypeInv', NEW w \in Writers, NEW f \in Outputs, CommitFails(w)
  PROVE  PageStep(w, f)
<1> DEFINE g == writer[w].page
<1>1. /\ writer[w].at \in {"inspect", "preserve", "install"} /\ UNCHANGED output
      /\ before'[w] = before[w] /\ g \in Outputs
  BY Records DEF CommitFails, Ghosts
<1>2. /\ writer'[w].at = "undo" /\ writer'[w].page = Pages
      /\ writer'[w].installed = writer[w].installed /\ writer'[w].complete = writer[w].complete
      /\ writer'[w].backup = [writer[w].backup EXCEPT ![g] =
                                IF writer[w].at = "preserve" THEN NoId ELSE @]
  BY Records DEF CommitFails, DocsTypeInv, WriterRecords
<1>3. SameFiles(output, output', f)
  BY <1>1 DEF SameFiles
<1> HIDE DEF g
<1>4. CASE f = g /\ writer[w].at = "preserve"
  <2>1. Chosen(writer[w], output, before[w], f) => Untouched(writer'[w], output', before[w], f)
    BY <1>1, <1>2, <1>4, Records DEF Chosen, Untouched, Back, WriterRecords
  <2>2. f <= Pages
    BY DEF Outputs
  <2> QED  BY <1>1, <1>2, <1>4, <2>1, <2>2, OutputAssumption DEF PageStep, PageOK, Committed, g, Outputs
<1>5. CASE ~(f = g /\ writer[w].at = "preserve")
  <2>1. SamePage(writer[w], writer'[w], f)
    BY <1>1, <1>2, <1>5, Records DEF SamePage, WriterRecords
  <2>2. Committed(writer[w], output, before[w], f) <=> Committed(writer'[w], output', before[w], f)
    BY <1>3, <2>1, Records, Unchanged
  <2>3. PageOK(writer[w], output, before[w], f) => Committed(writer[w], output, before[w], f)
    BY <1>1, <1>5 DEF PageOK, Committed, g, Outputs
  <2>4. f <= Pages
    BY DEF Outputs
  <2> QED  BY <1>1, <1>2, <2>2, <2>3, <2>4, OutputAssumption DEF PageStep, PageOK, Outputs
<1> QED  BY <1>4, <1>5

LEMMA PageUndo ==
  ASSUME DocsTypeInv, DocsTypeInv', NEW w \in Writers, NEW f \in Outputs, Undo(w)
  PROVE  PageStep(w, f)
<1> DEFINE g == writer[w].page
<1>1. writer[w].at = "undo" /\ before'[w] = before[w] /\ g \in Outputs
  BY Records DEF Undo, Ghosts
<1>2. /\ writer'[w].at = "restore" /\ writer'[w].page = g
      /\ writer'[w].installed = writer[w].installed /\ writer'[w].backup = writer[w].backup
      /\ writer'[w].complete => writer[w].complete
      /\ \/ g \notin writer[w].installed /\ UNCHANGED output
         \/ g \in writer[w].installed /\ Put(Destination(g), NoFile)
         \/ g \in writer[w].installed /\ UNCHANGED output /\ ~writer'[w].complete
  BY Records DEF Undo, Goes, Incomplete, DocsTypeInv, WriterRecords
<1> HIDE DEF g
<1>3. CASE f = g
  <2>1. /\ output'[Destination(f)] \in {output[Destination(f)], NoFile}
        /\ g \in writer[w].installed /\ writer'[w].complete => output'[Destination(f)] = NoFile
        /\ g \notin writer[w].installed => output'[Destination(f)] = output[Destination(f)]
    BY <1>1, <1>2, <1>3, Named DEF Put, DocsTypeInv
  <2>2. writer[w].backup[f] # NoId => output'[Backs(writer'[w], f)] = output[Backs(writer[w], f)]
    BY <1>1, <1>2, <1>3, BackupNumber, Records, Named, OutputAssumption DEF Put, DocsTypeInv, Backs, NoId
  <2>3. Committed(writer[w], output, before[w], f) => Cleared(writer'[w], output', before[w], f)
    <3> DEFINE b == writer[w].backup[f]
               was == before[w][f]
               dest == output[Destination(f)]
    <3>1. /\ b = NoId => (writer'[w].complete => output'[Destination(f)] = was)
          /\ b # NoId => /\ output'[Backs(writer'[w], f)] = was
                         /\ output'[Destination(f)] # "old"
          => Cleared(writer'[w], output', before[w], f)
      BY <1>2, <1>3 DEF Cleared
    <3>2. CASE Untouched(writer[w], output, before[w], f)
      BY <1>3, <2>1, <3>1, <3>2 DEF Untouched, Back
    <3>3. CASE Moved(writer[w], output, before[w], f)
      BY <1>3, <2>1, <2>2, <3>1, <3>3 DEF Moved, NoFile
    <3>4. CASE Replaced(writer[w], output, before[w], f)
      BY <1>3, <2>1, <2>2, <3>1, <3>4 DEF Replaced, NoFile
    <3> QED  BY <3>2, <3>3, <3>4 DEF Committed
  <2> QED  BY <1>1, <1>2, <1>3, <2>3 DEF PageStep, PageOK, g, Outputs
<1>4. CASE f # g
  <2>1. SameFiles(output, output', f)
    <3>1. CASE UNCHANGED output
      BY <3>1 DEF SameFiles
    <3>2. CASE Put(Destination(g), NoFile)
      BY <1>1, <1>4, <3>2, OtherPage, OutputAssumption
    <3> QED  BY <1>2, <3>1, <3>2
  <2>2. writer[w].backup[f] # NoId => output'[Backs(writer'[w], f)] = output[Backs(writer[w], f)]
    BY <1>2, <2>1, BackupNumber, Records DEF SameFiles, Backs
  <2>3. Committed(writer[w], output, before[w], f) => Committed(writer'[w], output', before[w], f)
    BY <1>2, <2>1, <2>2 DEF SameFiles, Committed, Untouched, Back, Moved, Replaced
  <2>4. Back(writer[w], output, before[w], f) => Back(writer'[w], output', before[w], f)
    BY <1>2, <2>1 DEF SameFiles, Back
  <2> QED  BY <1>1, <1>2, <1>4, <2>3, <2>4 DEF PageStep, PageOK, g
<1> QED  BY <1>3, <1>4

LEMMA PageRestore ==
  ASSUME DocsTypeInv, DocsTypeInv', NEW w \in Writers, NEW f \in Outputs, Restore(w)
  PROVE  PageStep(w, f)
<1> DEFINE g == writer[w].page
           id == writer[w].backup[g]
<1>1. writer[w].at = "restore" /\ before'[w] = before[w] /\ g \in Outputs
  BY Records DEF Restore, Ghosts
<1>2. /\ writer'[w].at = "discard" /\ writer'[w].page = g
      /\ writer'[w].installed = writer[w].installed
      /\ writer'[w].complete => writer[w].complete
  BY Records DEF Restore, Goes, Incomplete, DocsTypeInv, WriterRecords
<1>3. \/ id = NoId /\ UNCHANGED output /\ writer'[w].backup = writer[w].backup
      \/ /\ id # NoId /\ Rename(sidecarPath(g, "backup", id), Destination(g))
         /\ writer'[w].backup = [writer[w].backup EXCEPT ![g] = NoId]
      \/ UNCHANGED output /\ writer'[w].backup = writer[w].backup /\ ~writer'[w].complete
  BY Records DEF Restore, Goes, Incomplete, DocsTypeInv, WriterRecords, Backup
<1> HIDE DEF g, id
<1>4. CASE f = g
  <2>1. Cleared(writer[w], output, before[w], f) /\ writer'[w].complete
          => Back(writer'[w], output', before[w], f)
    <3>1. CASE id # NoId /\ Rename(sidecarPath(g, "backup", id), Destination(g))
                 /\ writer'[w].backup = [writer[w].backup EXCEPT ![g] = NoId]
      <4>1. id \in 0..MaxId
        BY <1>1, <3>1, BackupNumber, Records DEF id, g
      <4>2. output'[Destination(g)] = output[sidecarPath(g, "backup", id)]
        BY <1>1, <3>1, <4>1, Renamed, Named, OutputAssumption DEF NoId
      <4>3. writer'[w].backup[g] = NoId
        BY <1>1, <3>1, Records DEF WriterRecords
      <4> QED  BY <1>4, <3>1, <4>2, <4>3 DEF Cleared, Back, Backs, id, g
    <3>2. CASE id = NoId /\ UNCHANGED output /\ writer'[w].backup = writer[w].backup
      BY <1>2, <1>4, <3>2 DEF Cleared, Back, id, g
    <3> QED  BY <1>3, <3>1, <3>2
  <2> QED  BY <1>1, <1>2, <1>4, <2>1 DEF PageStep, PageOK, g, Outputs
<1>5. CASE f # g
  <2>1. SameFiles(output, output', f)
    <3>1. CASE UNCHANGED output
      BY <3>1 DEF SameFiles
    <3>2. CASE id # NoId /\ Rename(sidecarPath(g, "backup", id), Destination(g))
      <4>1. id \in 0..MaxId
        BY <1>1, <3>2, BackupNumber, Records DEF id, g
      <4> QED  BY <1>1, <1>5, <3>2, <4>1, OtherPage
    <3> QED  BY <1>3, <3>1, <3>2
  <2>2. writer'[w].backup[f] = writer[w].backup[f]
    BY <1>1, <1>3, <1>5, Records DEF WriterRecords
  <2>3. writer[w].backup[f] # NoId => output'[Backs(writer'[w], f)] = output[Backs(writer[w], f)]
    BY <2>1, <2>2, BackupNumber, Records DEF SameFiles, Backs
  <2>4. Committed(writer[w], output, before[w], f) => Committed(writer'[w], output', before[w], f)
    BY <1>2, <2>1, <2>2, <2>3 DEF SameFiles, Committed, Untouched, Back, Moved, Replaced
  <2>5. Back(writer[w], output, before[w], f) => Back(writer'[w], output', before[w], f)
    BY <2>1, <2>2 DEF SameFiles, Back
  <2> QED  BY <1>1, <1>2, <1>5, <2>4, <2>5 DEF PageStep, PageOK, g
<1> QED  BY <1>4, <1>5

LEMMA PageDiscard ==
  ASSUME DocsTypeInv, DocsTypeInv', NEW w \in Writers, NEW f \in Outputs, Discard(w)
  PROVE  PageStep(w, f)
<1> DEFINE g == writer[w].page
<1>1. writer[w].at = "discard" /\ before'[w] = before[w] /\ g \in Outputs
  BY Records DEF Discard, Ghosts
<1>2. SameFiles(output, output', f)
  BY TemporaryOnly, StagedTemporary DEF Discard
<1>3. /\ SamePage(writer[w], writer'[w], f)
      /\ writer'[w].complete = writer[w].complete
      /\ \/ writer'[w].at = "failed"
         \/ writer'[w].at = "undo" /\ writer'[w].page = g - 1
  BY Moves DEF Discard, SamePage
<1>4. /\ Committed(writer[w], output, before[w], f) <=> Committed(writer'[w], output', before[w], f)
      /\ Back(writer[w], output, before[w], f) <=> Back(writer'[w], output', before[w], f)
  BY <1>2, <1>3, Records, Unchanged
<1>5. f \in Nat /\ g \in Nat
  BY <1>1 DEF Outputs
<1> QED  BY <1>1, <1>3, <1>4, <1>5 DEF PageStep, PageOK

LEMMA PageSteps ==
  ASSUME DocsTypeInv, DocsTypeInv', Drafts, NEW w \in Writers, NEW f \in Outputs, WriterStep(w), Active(w)
  PROVE  PageStep(w, f)
<1>1. ~Begin(w)
  BY DEF Begin, Active
<1> QED  BY <1>1, PageStaging, PageEnd, PageInspect, PagePreserve, PageInstall, PageCommitFails,
         PageUndo, PageRestore, PageDiscard DEF WriterStep

-----------------------------------------------------------------------------
(***************************************************************************)
(* Drafts, and the text that was there.                                    *)
(***************************************************************************)
LEMMA DraftsKept ==
  ASSUME DocsTypeInv, DocsTypeInv', Drafts, NEW w \in Writers, WriterStep(w)
  PROVE  Drafts'
<1> SUFFICES ASSUME NEW f \in Outputs, NEW id \in 0..MaxId
             PROVE  output'[sidecarPath(f, "tmp", id)] # "old"
  BY DEF Drafts
<1> DEFINE p == sidecarPath(f, "tmp", id)
           g == writer[w].page
<1>1. p \in FilePaths /\ output[p] # "old" /\ g \in Outputs
  BY Named, Records DEF Drafts
<1>2. CASE UNCHANGED output
  BY <1>1, <1>2
<1>3. CASE \E paths : RemoveAny(paths)
  BY <1>1, <1>3 DEF RemoveAny, DocsTypeInv, NoFile
<1>4. CASE \E path : \E text \in {"cut", NoFile, w} : Put(path, text)
  <2>1. \A text \in {"cut", NoFile, w} : text # "old"
    BY OutputAssumption DEF NoFile
  <2>2. PICK path, text : text # "old" /\ Put(path, text)
    BY <1>4, <2>1
  <2> QED  BY <1>1, <2>2 DEF Put, DocsTypeInv
<1>5. CASE \E other \in 0..NoId : Rename(Destination(g), sidecarPath(g, "backup", other))
  BY <1>1, <1>5, Named, OutputAssumption DEF Rename, DocsTypeInv, NoId
<1>6. CASE \E from \in FilePaths : Rename(from, Destination(g))
  <2>1. p # Destination(g)
    BY <1>1, Named, OutputAssumption DEF NoId
  <2> HIDE DEF p
  <2>2. PICK from \in FilePaths : Rename(from, Destination(g))
    BY <1>6
  <2>3. output'[p] \in {output[p], NoFile}
    <3> DEFINE dest == Destination(g)
    <3>1. output' = [output EXCEPT ![dest] = output[from], ![from] = NoFile] /\ p # dest
      BY <2>1, <2>2 DEF Rename
    <3> HIDE DEF dest
    <3> QED  BY <1>1, <3>1 DEF DocsTypeInv
  <2>4. output'[p] # "old"
    BY <1>1, <2>3 DEF NoFile
  <2> QED  BY <2>4 DEF p
<1>7. CASE Begin(w) \/ CheckPlan(w) \/ SelectTemporary(w) \/ Inspect(w) \/ CommitFails(w) \/ Killed(w)
  BY <1>2, <1>7 DEF Begin, CheckPlan, SelectTemporary, Inspect, CommitFails, Killed
<1>8. CASE Create(w) \/ WriteTemporary(w) \/ Undo(w)
  BY <1>2, <1>4, <1>8 DEF Create, WriteTemporary, Undo
<1>9. CASE StagingFails(w) \/ DropBackups(w) \/ Discard(w)
  BY <1>3, <1>9 DEF StagingFails, DropBackups, Discard
<1>10. CASE Preserve(w)
  BY <1>5, <1>10, Records DEF Preserve, Backup, WriterRecords
<1>11. CASE Install(w) \/ Restore(w)
  <2>1. CASE Install(w)
    <3>1. writer[w].temporary[g] # NoId
      BY <1>1, <2>1, Records DEF Install, Numbered, Outputs
    <3>2. writer[w].temporary[g] \in 0..NoId
      BY <1>1, Records DEF WriterRecords
    <3>3. Temporary(w, g) \in FilePaths
      BY <1>1, <3>1, <3>2, Named, OutputAssumption DEF Temporary, NoId
    <3> QED  BY <1>6, <2>1, <3>3 DEF Install
  <2>2. CASE Restore(w)
    <3>1. writer[w].backup[g] # NoId => Backup(w, g) \in FilePaths
      BY <1>1, Records, BackupNumber, Named DEF Backup
    <3> QED  BY <1>2, <1>6, <2>2, <3>1 DEF Restore
  <2> QED  BY <1>11, <2>1, <2>2
<1> QED  BY <1>7, <1>8, <1>9, <1>10, <1>11 DEF WriterStep

\* Only a writer that has installed everything drops an old text.
LEMMA StillKept ==
  ASSUME DocsTypeInv, DocsTypeInv', NEW w \in Writers, WriterStep(w), writer'[w].at # "done",
         NEW f \in Outputs, Kept(output, f),
         Active(w) => PageOK(writer[w], output, before[w], f)
  PROVE  Kept(output', f)
<1> DEFINE g == writer[w].page
<1>1. g \in Outputs
  BY Records
<1>2. CASE SameFiles(output, output', f)
  BY <1>2, KeptWith
<1>3. CASE Begin(w) \/ CheckPlan(w) \/ SelectTemporary(w) \/ Inspect(w) \/ CommitFails(w) \/ Killed(w)
  BY <1>2, <1>3 DEF SameFiles, Begin, CheckPlan, SelectTemporary, Inspect, CommitFails, Killed
<1>4. CASE Create(w) \/ WriteTemporary(w)
  <2>1. writer[w].temporary[g] \in 0..NoId
    BY <1>1, Records DEF WriterRecords
  <2>2. \E id \in 0..NoId : \E text : Put(sidecarPath(g, "tmp", id), text)
    BY <1>4, <2>1 DEF Create, WriteTemporary, Temporary
  <2> QED  BY <1>1, <1>2, <2>2, TemporaryOnly
<1>5. CASE StagingFails(w) \/ Discard(w)
  BY <1>2, <1>5, TemporaryOnly, StagedTemporary DEF StagingFails, Discard
<1>6. CASE DropBackups(w)
  BY <1>6, Moves DEF DropBackups
<1>7. CASE Preserve(w)
  <2> DEFINE id == writer[w].backup[g]
  <2>1. id \in 0..MaxId
    BY <1>1, <1>7, Records, BackupNumber DEF Preserve, Numbered
  <2>2. Rename(Destination(g), sidecarPath(g, "backup", id))
    BY <1>7 DEF Preserve, Backup
  <2>3. CASE f # g
    BY <1>1, <1>2, <2>1, <2>2, <2>3, OtherPage
  <2>4. CASE f = g
    <3>1. output[sidecarPath(f, "backup", id)] # "old"
      BY <1>7, <2>4 DEF Preserve, Active, PageOK, Chosen, Backs, NoFile, Outputs
    <3>2. /\ output'[sidecarPath(f, "backup", id)] = output[Destination(f)]
          /\ \A n \in 0..MaxId \ {id} : output'[sidecarPath(f, "backup", n)] = output[sidecarPath(f, "backup", n)]
      BY <2>1, <2>2, <2>4, Renamed, Named, OutputAssumption DEF NoId
    <3> QED  BY <2>1, <3>1, <3>2 DEF Kept
  <2> QED  BY <2>3, <2>4
<1>8. CASE Install(w)
  <2> DEFINE id == writer[w].temporary[g]
  <2>1. id \in 0..MaxId
    <3>1. id # NoId
      BY <1>1, <1>8, Records DEF Install, Numbered, Outputs
    <3>2. id \in 0..NoId
      BY <1>1, Records DEF WriterRecords
    <3> QED  BY <3>1, <3>2, OutputAssumption DEF NoId
  <2>2. Rename(sidecarPath(g, "tmp", id), Destination(g))
    BY <1>8 DEF Install, Temporary
  <2>3. CASE f # g
    BY <1>1, <1>2, <2>1, <2>2, <2>3, OtherPage
  <2>4. CASE f = g
    <3>1. output[Destination(f)] # "old"
      BY <1>8, <2>4 DEF Install, Active, PageOK, NoFile
    <3>2. \A n \in 0..MaxId : output'[sidecarPath(f, "backup", n)] = output[sidecarPath(f, "backup", n)]
      BY <2>1, <2>2, <2>4, Renamed, Named, OutputAssumption DEF NoId
    <3> QED  BY <3>1, <3>2 DEF Kept
  <2> QED  BY <2>3, <2>4
<1>9. CASE Undo(w)
  <2>1. CASE UNCHANGED output
    BY <1>2, <2>1 DEF SameFiles
  <2>2. CASE g \in writer[w].installed /\ Put(Destination(g), NoFile)
    <3>1. CASE f # g
      BY <1>1, <1>2, <2>2, <3>1, OtherPage, OutputAssumption
    <3>2. CASE f = g
      <4>1. output[Destination(f)] # "old"
        BY <1>9, <2>2, <3>2 DEF Undo, Active, PageOK, Committed, Untouched, Moved, Replaced, NoFile
      <4>2. \A n \in 0..MaxId : output'[sidecarPath(f, "backup", n)] = output[sidecarPath(f, "backup", n)]
        BY <2>2, <3>2, Named, OutputAssumption DEF Put, DocsTypeInv, NoId
      <4> QED  BY <4>1, <4>2 DEF Kept
    <3> QED  BY <3>1, <3>2
  <2> QED  BY <1>9, <2>1, <2>2 DEF Undo
<1>10. CASE Restore(w)
  <2> DEFINE id == writer[w].backup[g]
  <2>1. CASE UNCHANGED output
    BY <1>2, <2>1 DEF SameFiles
  <2>2. CASE id # NoId /\ Rename(sidecarPath(g, "backup", id), Destination(g))
    <3>1. id \in 0..MaxId
      BY <1>1, <2>2, Records, BackupNumber
    <3>2. CASE f # g
      BY <1>1, <1>2, <2>2, <3>1, <3>2, OtherPage
    <3>3. CASE f = g
      <4>1. output[Destination(f)] # "old"
        BY <1>10, <2>2, <3>3 DEF Restore, Active, PageOK, Cleared
      <4>2. /\ output'[Destination(f)] = output[sidecarPath(f, "backup", id)]
            /\ \A n \in 0..MaxId \ {id} : output'[sidecarPath(f, "backup", n)] = output[sidecarPath(f, "backup", n)]
        BY <2>2, <3>1, <3>3, Renamed, Named, OutputAssumption DEF NoId
      <4> QED  BY <3>1, <4>1, <4>2 DEF Kept
    <3> QED  BY <3>2, <3>3
  <2> QED  BY <1>10, <2>1, <2>2 DEF Restore, Backup
<1> QED  BY <1>3, <1>4, <1>5, <1>6, <1>7, <1>8, <1>9, <1>10 DEF WriterStep
-----------------------------------------------------------------------------
LEMMA InvInit == DocsInit => IInv
<1> SUFFICES ASSUME DocsInit PROVE IInv
  OBVIOUS
<1>1. Drafts
  <2> SUFFICES ASSUME NEW f \in Outputs, NEW id \in 0..MaxId
               PROVE  output[sidecarPath(f, "tmp", id)] = NoFile
    BY DEF Drafts, NoFile
  <2>1. \A g \in Outputs : sidecarPath(f, "tmp", id) # Destination(g)
    BY Named, OutputAssumption DEF NoId
  <2> QED  BY <2>1, Named DEF DocsInit
<1>2. \A w \in Writers : ~Active(w)
  BY DEF DocsInit, Active, NewWriter
<1>3. \A f \in had : Kept(output, f)
  BY Named DEF DocsInit, Kept
<1> QED  BY <1>1, <1>2, <1>3, DocsInitTyped DEF IInv, Alone, PagesOK, AllKept

LEMMA OthersStay ==
  ASSUME DocsTypeInv, NEW w \in Writers, WriterStep(w), NEW v \in Writers \ {w}
  PROVE  writer'[v] = writer[v]
BY DEF DocsTypeInv, WriterStep, Begin, CheckPlan, SelectTemporary, Create, WriteTemporary, StagingFails,
       Inspect, Preserve, Install, CommitFails, DropBackups, Undo, Restore, Discard, Killed,
       Goes, Turn, Incomplete

\* While writers have come one after the other, a writer is at work alone.
LEMMA AloneBefore ==
  ASSUME IInv, NEW w \in Writers, WriterStep(w), ~together'
  PROVE  ~together /\ \A v \in Writers \ {w} : ~Active(v)
<1>1. CASE Begin(w)
  BY <1>1 DEF IInv, DocsTypeInv, Begin
<1>2. CASE ~Begin(w)
  <2>1. Active(w)
    BY <1>2 DEF WriterStep, CheckPlan, SelectTemporary, Create, WriteTemporary, StagingFails,
       Inspect, Preserve, Install, CommitFails, DropBackups, Undo, Restore, Discard, Killed, Active
  <2>2. together' = together
    BY <1>2 DEF WriterStep, CheckPlan, SelectTemporary, Create, WriteTemporary, StagingFails,
       Inspect, Preserve, Install, CommitFails, DropBackups, Undo, Restore, Discard, Killed, Ghosts
  <2> QED  BY <2>1, <2>2 DEF IInv, Alone
<1> QED  BY <1>1, <1>2

LEMMA InvStep == IInv /\ [DocsNext]_docsVars => IInv'
<1> SUFFICES ASSUME IInv, [DocsNext]_docsVars PROVE IInv'
  OBVIOUS
<1>1. DocsTypeInv /\ DocsTypeInv' /\ Drafts
  BY DocsTypedSteps DEF IInv
<1>2. CASE UNCHANGED docsVars
  BY <1>1, <1>2 DEF docsVars, IInv, Drafts, Alone, PagesOK, AllKept, Active, PageOK, Untouched, Back,
     Moved, Replaced, Chosen, Cleared, Committed, Backs, Kept
<1>3. ASSUME NEW w \in Writers, WriterStep(w) PROVE IInv'
  <2>1. Drafts'
    BY <1>1, <1>3, DraftsKept
  <2> SUFFICES ASSUME ~together' PROVE Alone' /\ PagesOK' /\ AllKept'
    BY <1>1, <2>1 DEF IInv
  <2>2. /\ ~together /\ Alone /\ PagesOK /\ AllKept
        /\ \A v \in Writers \ {w} : ~Active(v) /\ writer'[v] = writer[v]
    BY <1>1, <1>3, AloneBefore, OthersStay DEF IInv
  <2>3. \A v \in Writers \ {w} : ~Active(v)'
    BY <2>2 DEF Active
  <2>4. Alone'
    BY <2>3 DEF Alone
  <2>5. PagesOK'
    <3> SUFFICES ASSUME NEW f \in Outputs PROVE PageOK(writer'[w], output', before'[w], f)
      BY <2>3 DEF PagesOK
    <3>1. CASE Active(w)
      BY <1>1, <1>3, <2>2, <3>1, PageSteps DEF PagesOK, PageStep
    <3>2. CASE ~Active(w)
      <4>1. Begin(w)
        BY <1>3, <3>2 DEF WriterStep, CheckPlan, SelectTemporary, Create, WriteTemporary, StagingFails,
           Inspect, Preserve, Install, CommitFails, DropBackups, Undo, Restore, Discard, Killed, Active
      <4> QED  BY <1>1, <4>1, PageBegin
    <3> QED  BY <3>1, <3>2
  <2>6. AllKept'
    <3> SUFFICES ASSUME \A v \in Writers : writer'[v].at # "done", NEW f \in had'
                 PROVE  Kept(output', f)
      BY DEF AllKept
    <3>1. \A v \in Writers : writer[v].at # "done"
      <4>1. writer[w].at # "done"
        BY <1>3 DEF WriterStep, Begin, CheckPlan, SelectTemporary, Create, WriteTemporary, StagingFails,
           Inspect, Preserve, Install, CommitFails, DropBackups, Undo, Restore, Discard, Killed, Active
      <4> QED  BY <2>2, <4>1
    <3>2. f \in had /\ f \in Outputs
      <4>1. had' = had
        BY <1>3 DEF WriterStep, Begin, CheckPlan, SelectTemporary, Create, WriteTemporary, StagingFails,
           Inspect, Preserve, Install, CommitFails, DropBackups, Undo, Restore, Discard, Killed, Ghosts
      <4> QED  BY <1>1, <4>1 DEF DocsTypeInv
    <3>3. Kept(output, f)
      BY <2>2, <3>1, <3>2 DEF AllKept
    <3>4. Active(w) => PageOK(writer[w], output, before[w], f)
      BY <2>2, <3>2 DEF PagesOK
    <3> QED  BY <1>1, <1>3, <3>2, <3>3, <3>4, StillKept
  <2> QED  BY <2>4, <2>5, <2>6
<1> QED  BY <1>2, <1>3 DEF DocsNext

\* However many runs fail or are killed one after the other, a text that was in
\* a destination is still there or in a backup beside it.
THEOREM NothingIsLost == DocsSpec => []NothingLost
<1>1. IInv => NothingLost
  <2> SUFFICES ASSUME IInv, ~together, \A w \in Writers : writer[w].at \notin {"drop", "done"},
                      NEW f \in had
               PROVE  \E p \in {Destination(f)} \cup {s \in Sidecars : s[1] = f /\ s[2] = "backup"} :
                        output[p] = "old"
    BY DEF NothingLost
  <2>1. Kept(output, f) /\ f \in Outputs
    BY DEF IInv, AllKept, DocsTypeInv
  <2>2. \A id \in 0..MaxId :
          sidecarPath(f, "backup", id) \in {s \in Sidecars : s[1] = f /\ s[2] = "backup"}
    BY <2>1 DEF sidecarPath, Sidecars
  <2> QED  BY <2>1, <2>2 DEF Kept
<1> QED  BY <1>1, InvInit, InvStep, PTL DEF DocsSpec

\* A run that fails and does not say that its rollback was incomplete leaves
\* every destination as it found it, and no backup of its own.
THEOREM FailureUndone == DocsSpec => Undone
<1> DEFINE A == \A w \in Writers :
         Active(w) /\ writer'[w].at = "failed" /\ writer'[w].complete /\ ~together =>
           /\ \A f \in Outputs : output'[Destination(f)] = before[w][f]
           /\ writer'[w].backup = Unstaged
<1>1. IInv /\ [DocsNext]_docsVars => [A]_docsVars
  <2> SUFFICES ASSUME IInv, DocsNext, NEW w \in Writers, Active(w), writer'[w].at = "failed",
                      writer'[w].complete, ~together
               PROVE  /\ \A f \in Outputs : output'[Destination(f)] = before[w][f]
                      /\ writer'[w].backup = Unstaged
    OBVIOUS
  <2>1. DocsTypeInv /\ DocsTypeInv'
    BY DocsTypedSteps DEF IInv
  <2>2. WriterStep(w)
    <3>1. PICK v \in Writers : WriterStep(v)
      BY DEF DocsNext
    <3>2. v = w
      BY <2>1, <3>1, OthersStay DEF Active
    <3> QED  BY <3>1, <3>2
  <2> SUFFICES ASSUME NEW f \in Outputs
               PROVE  output'[Destination(f)] = before[w][f] /\ writer'[w].backup[f] = NoId
    BY <2>1, Records DEF WriterRecords, Unstaged
  <2>3. PageOK(writer[w], output, before[w], f)
    BY DEF IInv, PagesOK
  <2>4. /\ writer[w].at \in {"check", "select", "create", "write"} \/
             (writer[w].at = "discard" /\ writer[w].page = 1)
        /\ writer'[w].backup = writer[w].backup /\ writer'[w].complete = writer[w].complete
        /\ SameFiles(output, output', f)
    <3>1. CASE CheckPlan(w)
      BY <2>1, <3>1, Moves, TemporaryOnly DEF CheckPlan
    <3>2. CASE StagingFails(w)
      BY <2>1, <3>2, Moves, TemporaryOnly, StagedTemporary, ZenonT(60) DEF StagingFails
    <3>3. CASE Discard(w)
      <4>1. SameFiles(output, output', f)
        BY <2>1, <3>3, TemporaryOnly, StagedTemporary DEF Discard
      <4>2. writer[w].page = 1
        BY <2>1, <3>3, Moves DEF Discard
      <4> QED  BY <2>1, <3>3, <4>1, <4>2, Moves DEF Discard
    <3>4. CASE Begin(w)
      BY <3>4 DEF Begin, Active
    <3>5. ~(Create(w) \/ WriteTemporary(w) \/ Preserve(w) \/ DropBackups(w) \/ Killed(w))
      BY <2>1, Moves DEF Create, WriteTemporary, Preserve, DropBackups, Killed
    <3>6. ~SelectTemporary(w)
      BY <2>1, Records DEF SelectTemporary, DocsTypeInv, WriterRecords
    <3>7. ~Inspect(w)
      <4>1. Inspect(w) => writer'[w].at \in {"install", "preserve"}
        BY <2>1, Records DEF Inspect, Goes, DocsTypeInv, WriterRecords
      <4> QED  BY <4>1
    <3>8. ~Install(w)
      <4>1. Install(w) => writer'[w].at \in {"drop", "inspect"}
        BY <2>1, InstallFields
      <4> QED  BY <4>1
    <3>9. ~CommitFails(w)
      <4>1. CommitFails(w) => writer'[w].at = "undo"
        BY <2>1 DEF CommitFails, DocsTypeInv, WriterRecords
      <4> QED  BY <4>1
    <3>10. ~Undo(w)
      <4>1. Undo(w) => writer'[w].at = "restore"
        BY <2>1, Records DEF Undo, Goes, Incomplete, DocsTypeInv, WriterRecords
      <4> QED  BY <4>1
    <3>11. ~Restore(w)
      <4>1. Restore(w) => writer'[w].at = "discard"
        BY <2>1, Records DEF Restore, Goes, Incomplete, DocsTypeInv, WriterRecords
      <4> QED  BY <4>1
    <3> QED  BY <2>2, <3>1, <3>2, <3>3, <3>4, <3>5, <3>6, <3>7, <3>8, <3>9, <3>10, <3>11
             DEF WriterStep
  <2>5. Back(writer[w], output, before[w], f)
    <3>1. f >= 1 /\ f \in Nat
      BY DEF Outputs
    <3> QED  BY <2>3, <2>4, <3>1 DEF PageOK, Untouched
  <2> QED  BY <2>4, <2>5 DEF Back, SameFiles
<1> QED  BY <1>1, InvInit, InvStep, PTL DEF DocsSpec, Undone

(***************************************************************************)
(* Packages: records, and the two loops of validateLocalLockfile().        *)
(***************************************************************************)
ManifestsOf(o) == {m \in Manifests(o) : HasManifest(m)}
DependencyDirs == [Names -> Dirs \cup {NoDir}]
LockedOf(d) == {Locked(d, m) : m \in ManifestsOf(d)}
AllLocked == UNION {LockedOf(d) : d \in Dirs}
Locks == [project : ManifestsOf(Project), packages : {P \in SUBSET AllLocked : IsFiniteSet(P)}]

NamesIn(P) == {p.name : p \in P}
Ready(P, R) == {p \in P : p.deps \subseteq NamesIn(R)}
ReachedFirst(lock) == {p \in lock.packages : p.name \in Declared(lock.project)}
ReachedNext(P, R) == {p \in P : p \in R \/ \E q \in R : p.name \in q.deps}

\* What a manifest holds, in every directory.
LEMMA ManifestFields ==
    ASSUME NEW o \in Owners, NEW m \in ManifestsOf(o)
    PROVE  /\ m \in Manifests(o) /\ HasManifest(m) /\ m.name \in Names /\ m.deps \in DependencyDirs
           /\ Declared(m) \subseteq Names /\ \A n \in Declared(m) : m.deps[n] \in Dirs
  BY PackagesAssumption DEF ManifestsOf, DependencyDirs, Declared

\* A package in the lock is what its manifest said.
LEMMA LockedFields ==
    ASSUME NEW d, NEW m, NEW p, p = Locked(d, m)
    PROVE  /\ p.name = m.name /\ p.path = d /\ p.root = m.root /\ p.digest = m
           /\ p.deps = Declared(m) /\ p # NoLock
<1>1. p # NoLock
  <2>1. "path" \in DOMAIN Locked(d, m) /\ "path" \notin DOMAIN NoLock
    BY DEF Locked, NoLock
  <2> QED
    BY <2>1
<1> QED
  BY <1>1 DEF Locked

\* The rounds of a recursion over sets of packages.
Rounds(g, N, P, first) == g \in [0..N -> SUBSET P] /\ g[0] = first

\* The rounds of Kahn's count.
LEMMA VisitedRounds ==
    ASSUME NEW P, IsFiniteSet(P), NEW N, N = Cardinality(P)
    PROVE  \E g : /\ Rounds(g, N, P, {}) /\ Visited(P) = g[N]
                  /\ \A n \in 0..(N - 1) : g[n + 1] = Ready(P, g[n])
<1> DEFINE step == [i \in 1..N |-> [R \in SUBSET P |-> Ready(P, R)]]
           ready == CHOOSE ready : ready = [n \in 0..Cardinality(P) |->
                      IF n = 0 THEN {}
                      ELSE {p \in P : p.deps \subseteq {q.name : q \in ready[n - 1]}}]
<1>1. N \in Nat
  BY FS_CardinalityType
<1>2. Visited(P) = ready[N]
  BY DEF Visited
<1>3. PICK g \in [0..N -> SUBSET P] : Follows(g, N, {}, step)
  <2>1. step \in [1..N -> [SUBSET P -> SUBSET P]]
    BY DEF Ready
  <2>2. {} \in SUBSET P
    OBVIOUS
  <2> HIDE DEF step
  <2> QED
    BY <1>1, <2>1, <2>2, RecursionUpTo
<1>4. ASSUME NEW i \in 1..N
      PROVE  g[i] = Ready(P, g[i - 1])
  <2>1. PICK R \in SUBSET P : R = g[i - 1]
    BY <1>1, <1>3
  <2>2. g[i] = step[i][R]
    BY <1>3, <2>1 DEF Follows
  <2>3. step[i][R] = Ready(P, R)
    OBVIOUS
  <2> QED
    BY <2>1, <2>2, <2>3
<1>5. g[0] = {}
  BY <1>3 DEF Follows
<1> HIDE DEF step
<1>6. g = [n \in 0..Cardinality(P) |->
             IF n = 0 THEN {}
             ELSE {p \in P : p.deps \subseteq {q.name : q \in g[n - 1]}}]
  BY <1>1, <1>3, <1>4, <1>5 DEF Ready, NamesIn
<1>7. ready = [n \in 0..Cardinality(P) |->
             IF n = 0 THEN {}
             ELSE {p \in P : p.deps \subseteq {q.name : q \in ready[n - 1]}}]
  BY <1>6
<1> HIDE DEF ready
<1>8. ready[0] = {}
  BY <1>1, <1>7
<1>9. ASSUME NEW n \in 1..N
      PROVE  ready[n] = Ready(P, ready[n - 1])
  <2>1. n \in 0..Cardinality(P) /\ n # 0
    BY <1>1
  <2> QED
    BY <1>7, <2>1 DEF Ready, NamesIn
<1>10. ready \in [0..N -> SUBSET P]
  <2>1. ready = [n \in 0..N |-> ready[n]]
    BY <1>7
  <2>2. ASSUME NEW n \in 0..N
        PROVE  ready[n] \in SUBSET P
    <3>1. n = 0 \/ n \in 1..N
      BY <1>1
    <3> QED
      BY <1>8, <1>9, <3>1 DEF Ready
  <2> QED
    BY <2>1, <2>2
<1>11. ASSUME NEW n \in 0..(N - 1)
       PROVE  ready[n + 1] = Ready(P, ready[n])
  <2>1. n + 1 \in 1..N /\ (n + 1) - 1 = n
    BY <1>1
  <2> QED
    BY <1>9, <2>1
<1> QED
  BY <1>2, <1>8, <1>10, <1>11 DEF Rounds

\* The rounds of the search from the project's dependencies.
LEMMA ReachedRounds ==
    ASSUME NEW lock, NEW P, P = lock.packages, IsFiniteSet(P), NEW N, N = Cardinality(P)
    PROVE  \E g : /\ Rounds(g, N, P, ReachedFirst(lock)) /\ Reached(lock) = g[N]
                  /\ \A n \in 0..(N - 1) : g[n + 1] = ReachedNext(P, g[n])
<1> DEFINE step == [i \in 1..N |-> [R \in SUBSET P |-> ReachedNext(P, R)]]
           reached == CHOOSE reached : reached = [n \in 0..Cardinality(lock.packages) |->
             IF n = 0 THEN {p \in lock.packages : p.name \in Declared(lock.project)}
             ELSE {p \in lock.packages : p \in reached[n - 1] \/ \E q \in reached[n - 1] : p.name \in q.deps}]
<1>1. N \in Nat
  BY FS_CardinalityType
<1>2. Reached(lock) = reached[N]
  BY DEF Reached
<1>3. PICK g \in [0..N -> SUBSET P] : Follows(g, N, ReachedFirst(lock), step)
  <2>1. step \in [1..N -> [SUBSET P -> SUBSET P]]
    BY DEF ReachedNext
  <2>2. PICK c \in SUBSET P : c = ReachedFirst(lock)
    BY DEF ReachedFirst
  <2> HIDE DEF step
  <2> QED
    BY <1>1, <2>1, <2>2, RecursionUpTo
<1>4. ASSUME NEW i \in 1..N
      PROVE  g[i] = ReachedNext(P, g[i - 1])
  <2>1. PICK R \in SUBSET P : R = g[i - 1]
    BY <1>1, <1>3
  <2>2. g[i] = step[i][R]
    BY <1>3, <2>1 DEF Follows
  <2>3. step[i][R] = ReachedNext(P, R)
    OBVIOUS
  <2> QED
    BY <2>1, <2>2, <2>3
<1>5. g[0] = ReachedFirst(lock)
  BY <1>3 DEF Follows
<1> HIDE DEF step
<1>6. g = [n \in 0..Cardinality(lock.packages) |->
             IF n = 0 THEN {p \in lock.packages : p.name \in Declared(lock.project)}
             ELSE {p \in lock.packages : p \in g[n - 1] \/ \E q \in g[n - 1] : p.name \in q.deps}]
  BY <1>1, <1>3, <1>4, <1>5 DEF ReachedFirst, ReachedNext
<1>7. reached = [n \in 0..Cardinality(lock.packages) |->
             IF n = 0 THEN {p \in lock.packages : p.name \in Declared(lock.project)}
             ELSE {p \in lock.packages : p \in reached[n - 1] \/ \E q \in reached[n - 1] : p.name \in q.deps}]
  BY <1>6
<1> HIDE DEF reached
<1>8. reached[0] = ReachedFirst(lock)
  BY <1>1, <1>7 DEF ReachedFirst
<1>9. ASSUME NEW n \in 1..N
      PROVE  reached[n] = ReachedNext(P, reached[n - 1])
  <2>1. n \in 0..Cardinality(lock.packages) /\ n # 0
    BY <1>1
  <2> QED
    BY <1>7, <2>1 DEF ReachedNext
<1>10. reached \in [0..N -> SUBSET P]
  <2>1. reached = [n \in 0..N |-> reached[n]]
    BY <1>7
  <2>2. ASSUME NEW n \in 0..N
        PROVE  reached[n] \in SUBSET P
    <3>1. n = 0 \/ n \in 1..N
      BY <1>1
    <3> QED
      BY <1>8, <1>9, <3>1 DEF ReachedFirst, ReachedNext
  <2> QED
    BY <2>1, <2>2
<1>11. ASSUME NEW n \in 0..(N - 1)
       PROVE  reached[n + 1] = ReachedNext(P, reached[n])
  <2>1. n + 1 \in 1..N /\ (n + 1) - 1 = n
    BY <1>1
  <2> QED
    BY <1>9, <2>1
<1> QED
  BY <1>2, <1>8, <1>10, <1>11 DEF Rounds

\* Kahn's rounds only add packages.
LEMMA RoundsGrow ==
    ASSUME NEW P, NEW N \in Nat, NEW g, Rounds(g, N, P, {}),
           \A n \in 0..(N - 1) : g[n + 1] = Ready(P, g[n])
    PROVE  \A n \in 0..(N - 1) : g[n] \subseteq g[n + 1]
<1> DEFINE T == {n \in 0..N : n < N => g[n] \subseteq g[n + 1]}
<1>1. 0 \in T
  BY DEF Rounds
<1>2. ASSUME NEW n \in 0..(N - 1), n \in T
      PROVE  n + 1 \in T
  <2>1. g[n] \subseteq g[n + 1] /\ g[n + 1] = Ready(P, g[n]) /\ n + 1 \in 0..N
    BY <1>2
  <2>2. ASSUME n + 1 < N
        PROVE  g[n + 1] \subseteq g[(n + 1) + 1]
    <3>1. g[(n + 1) + 1] = Ready(P, g[n + 1])
      BY <2>2
    <3> QED
      BY <2>1, <3>1 DEF Ready, NamesIn
  <2> QED
    BY <2>1, <2>2
<1> HIDE DEF T
<1>3. \A n \in 0..N : n \in T
  BY <1>1, <1>2, InductionUpTo
<1> QED
  BY <1>3 DEF T

\* A package that Kahn's count reaches depends, through any number of packages,
\* on packages that come before it.
LEMMA VisitedRanks ==
    ASSUME NEW P, IsFiniteSet(P), Visited(P) = P, NEW p \in P
    PROVE  \E R \in SUBSET P : /\ p \notin R /\ p.deps \subseteq NamesIn(R)
                              /\ \A q \in R : q.deps \subseteq NamesIn(R)
<1>1. PICK N \in Nat : N = Cardinality(P)
  BY FS_CardinalityType
<1>2. PICK g : /\ Rounds(g, N, P, {}) /\ Visited(P) = g[N]
               /\ \A n \in 0..(N - 1) : g[n + 1] = Ready(P, g[n])
  BY <1>1, VisitedRounds
<1>3. \A n \in 0..(N - 1) : g[n] \subseteq g[n + 1]
  BY <1>2, RoundsGrow
<1> DEFINE T == {n \in 0..N : p \in g[n]}
<1>4. PICK n \in T : \A m \in T : n <= m
  <2>1. T \subseteq Nat /\ N \in T
    BY <1>2
  <2> HIDE DEF T
  <2> QED
    BY <2>1, LeastNumber
<1>5. n \in 1..N
  BY <1>2, <1>4 DEF Rounds
<1>6. PICK k \in 0..(N - 1) : n = k + 1
  <2>1. n - 1 \in 0..(N - 1) /\ n = (n - 1) + 1
    BY <1>5
  <2> QED
    BY <2>1
<1>7. p \notin g[k] /\ p \in Ready(P, g[k]) /\ g[k] \in SUBSET P
  BY <1>2, <1>4, <1>6 DEF Rounds
<1>8. ASSUME NEW q \in g[k]
      PROVE  q.deps \subseteq NamesIn(g[k])
  BY <1>2, <1>3, <1>6, <1>7, <1>8 DEF Ready
<1> QED
  BY <1>7, <1>8 DEF Ready

(***************************************************************************)
(* Manifests and what they lead to.                                        *)
(***************************************************************************)
ManifestsTyped == \A o \in Owners : manifests[o] \in Manifests(o)

\* What the manifest of a directory leads to.
LEMMA Leads ==
    ASSUME ManifestsTyped, NEW o \in Owners, HasManifest(manifests[o])
    PROVE  /\ manifests[o] \in ManifestsOf(o) /\ DependsOn(o) \subseteq Dirs
           /\ \A n \in Declared(manifests[o]) : /\ n \in Names /\ manifests[o].deps[n] \in Dirs
                                               /\ manifests[o].deps[n] \in DependsOn(o)
<1>1. manifests[o] \in ManifestsOf(o)
  BY DEF ManifestsTyped, ManifestsOf
<1>2. PICK m \in ManifestsOf(o) : m = manifests[o]
  BY <1>1
<1>3. Declared(m) \subseteq Names /\ \A n \in Declared(m) : m.deps[n] \in Dirs
  BY ManifestFields
<1> QED
  BY <1>1, <1>2, <1>3 DEF DependsOn

\* Below() is the least closed set.
LEMMA BelowLeast ==
    ASSUME ManifestsTyped, NEW D \in SUBSET Dirs
    PROVE  /\ D \subseteq Below(D) /\ Below(D) \subseteq Dirs /\ Closed(Below(D))
           /\ \A S \in SUBSET Dirs : D \subseteq S /\ Closed(S) => Below(D) \subseteq S
<1>1. Closed(Below(D))
  <2> SUFFICES ASSUME NEW d \in Below(D), HasManifest(manifests[d]), NEW e \in DependsOn(d)
               PROVE  e \in Below(D)
    BY DEF Closed
  <2>1. e \in Dirs
    BY Leads DEF Below, Owners
  <2>2. ASSUME NEW S \in SUBSET Dirs, D \subseteq S, Closed(S)
        PROVE  e \in S
    <3>1. d \in S
      BY <2>2 DEF Below
    <3> QED
      BY <2>2, <3>1 DEF Closed
  <2> QED
    BY <2>1, <2>2 DEF Below
<1> QED
  BY <1>1 DEF Below

\* What a package below others depends on is below them.
LEMMA BelowNext ==
    ASSUME ManifestsTyped, NEW D \in SUBSET Dirs, NEW d \in Below(D), HasManifest(manifests[d]),
           NEW n \in Declared(manifests[d])
    PROVE  manifests[d].deps[n] \in Below(D)
<1>1. d \in Dirs /\ Closed(Below(D))
  BY BelowLeast
<1>2. manifests[d].deps[n] \in DependsOn(d)
  BY DEF DependsOn
<1> QED
  BY <1>1, <1>2 DEF Closed

\* What the manifests lead to does not change while they stay.
LEMMA SameManifests ==
    ASSUME UNCHANGED manifests
    PROVE  Sound' = Sound /\ TheLock' = TheLock /\ ManifestsTyped' = ManifestsTyped
<1>1. /\ \A o : DependsOn(o)' = DependsOn(o)
      /\ \A S : Closed(S)' = Closed(S)
  BY DEF DependsOn, Closed
<1>2. ASSUME NEW CONSTANT D
      PROVE  Below(D)' = Below(D)
  BY <1>1 DEF Below
<1> QED
  BY <1>1, <1>2 DEF Sound, TheLock, Needed, ManifestsTyped

(***************************************************************************)
(* A lock that is accepted.                                                *)
(***************************************************************************)
\* The packages of the lock are what the manifests say of their directories.
LockedOfManifests(P) ==
    \A p \in P : /\ p.path \in Dirs /\ HasManifest(manifests[p.path])
                 /\ p = Locked(p.path, manifests[p.path]) /\ p.name = manifests[p.path].name
                 /\ p.root = manifests[p.path].root /\ p.deps = Declared(manifests[p.path])

\* Each dependency of the owner of a manifest is a package of P, in the directory
\* it names.
LeadsInto(o, P) ==
    \A n \in Declared(manifests[o]) : \E p \in P : p.name = n /\ p.path = manifests[o].deps[n]

LEMMA AcceptedPackages ==
    ASSUME NEW lock \in Locks, LockHolds(lock, manifests[Project]), NEW P, P = lock.packages
    PROVE  /\ LockedOfManifests(P) /\ LeadsInto(Project, P)
           /\ \A p \in P : LeadsInto(p.path, P)
<1>1. P \subseteq AllLocked
  BY DEF Locks
<1>2. ASSUME NEW p \in P
      PROVE  /\ p.path \in Dirs /\ HasManifest(manifests[p.path])
             /\ p = Locked(p.path, manifests[p.path]) /\ p.name = manifests[p.path].name
             /\ p.root = manifests[p.path].root /\ p.deps = Declared(manifests[p.path])
             /\ LeadsInto(p.path, P)
  <2>0. PICK d \in Dirs : p \in LockedOf(d)
    BY <1>1, <1>2 DEF AllLocked
  <2>1. PICK m \in ManifestsOf(d) : p = Locked(d, m)
    BY <2>0 DEF LockedOf
  <2>2. /\ p.name = m.name /\ p.path = d /\ p.root = m.root /\ p.digest = m
        /\ p.deps = Declared(m)
    BY <2>1, LockedFields
  <2>3. HasManifest(manifests[d]) /\ p.digest = manifests[d] /\ PathsHold(manifests[d], P)
    BY <1>2, <2>2 DEF LockHolds
  <2> QED
    BY <2>1, <2>2, <2>3 DEF PathsHold, LeadsInto
<1>3. LeadsInto(Project, P)
  BY DEF LockHolds, PathsHold, LeadsInto
<1> QED
  BY <1>2, <1>3 DEF LockedOfManifests

\* validateLockfile() told apart.
LEMMA ValidLock ==
    ASSUME NEW lock, NEW P, P = lock.packages
    PROVE  validateLockfile(lock) <=>
             /\ NamesIn(P) \cap (Reserved \cup {lock.project.name}) = {}
             /\ \A p, q \in P : p.name = q.name \/ p.path = q.path \/ p.root = q.root => p = q
             /\ Declared(lock.project) \subseteq NamesIn(P)
             /\ \A p \in P : p.deps \subseteq NamesIn(P)
             /\ Visited(P) = P
  BY DEF validateLockfile, DistinctBy, NamesIn

\* The packages of an accepted lock are those the project needs.
LEMMA AcceptedNeeded ==
    ASSUME ManifestsTyped, NEW lock \in Locks, LockHolds(lock, manifests[Project]),
           NEW P, P = lock.packages
    PROVE  Needed = {p.path : p \in P}
<1> DEFINE Paths == {p.path : p \in P}
<1>1. LockedOfManifests(P) /\ LeadsInto(Project, P) /\ \A p \in P : LeadsInto(p.path, P)
  BY AcceptedPackages
<1>2. \A p, q \in P : p.name = q.name => p = q
  BY ValidLock DEF LockHolds
<1>3. /\ HasManifest(manifests[Project]) /\ lock.project = manifests[Project]
      /\ Project \in Owners /\ DependsOn(Project) \in SUBSET Dirs
  <2>1. HasManifest(manifests[Project]) /\ lock.project = manifests[Project] /\ Project \in Owners
    BY DEF LockHolds, Locks, ManifestsOf, Owners
  <2> QED
    BY <2>1, Leads
<1>4. Needed \subseteq Paths
  <2>1. Paths \in SUBSET Dirs /\ DependsOn(Project) \subseteq Paths
    BY <1>1 DEF LockedOfManifests, LeadsInto, DependsOn
  <2>2. Closed(Paths)
    BY <1>1 DEF Closed, LeadsInto, DependsOn
  <2> HIDE DEF Paths
  <2> QED
    BY <1>3, <2>1, <2>2, BelowLeast DEF Needed
<1>5. PICK N \in Nat : N = Cardinality(P) /\ IsFiniteSet(P)
  BY FS_CardinalityType DEF Locks
<1>6. PICK g : /\ Rounds(g, N, P, ReachedFirst(lock)) /\ Reached(lock) = g[N]
               /\ \A n \in 0..(N - 1) : g[n + 1] = ReachedNext(P, g[n])
  BY <1>5, ReachedRounds
<1> DEFINE T == {n \in 0..N : \A p \in g[n] : p.path \in Needed}
<1>7. 0 \in T
  <2>1. ASSUME NEW p \in g[0]
        PROVE  p.path \in Needed
    <3>1. p \in P /\ p.name \in Declared(manifests[Project])
      BY <1>3, <1>6 DEF Rounds, ReachedFirst
    <3>2. PICK q \in P : q.name = p.name /\ q.path = manifests[Project].deps[p.name]
      BY <1>1, <3>1 DEF LeadsInto
    <3>3. p.path \in DependsOn(Project)
      BY <1>2, <3>1, <3>2 DEF DependsOn
    <3> QED
      BY <1>3, <3>3, BelowLeast DEF Needed
  <2> QED
    BY <2>1
<1>8. ASSUME NEW n \in 0..(N - 1), n \in T
      PROVE  n + 1 \in T
  <2>1. ASSUME NEW p \in g[n + 1], p \notin g[n]
        PROVE  p.path \in Needed
    <3>1. p \in P /\ \E q \in g[n] : p.name \in q.deps
      BY <1>6, <2>1 DEF ReachedNext
    <3>2. g[n] \subseteq P
      BY <1>6 DEF Rounds
    <3>3. PICK q \in P : q \in g[n] /\ p.name \in q.deps
      BY <3>1, <3>2
    <3>4. q.path \in Needed /\ HasManifest(manifests[q.path]) /\ p.name \in Declared(manifests[q.path])
      BY <1>1, <1>8, <3>3 DEF LockedOfManifests
    <3>5. PICK r \in P : r.name = p.name /\ r.path = manifests[q.path].deps[p.name]
      BY <1>1, <3>3, <3>4 DEF LeadsInto
    <3>6. p.path = manifests[q.path].deps[p.name]
      BY <1>2, <3>1, <3>5
    <3> QED
      BY <1>3, <3>4, <3>6, BelowNext DEF Needed
  <2> QED
    BY <1>8, <2>1
<1>9. \A n \in 0..N : n \in T
  <2> HIDE DEF T
  <2> QED
    BY <1>7, <1>8, InductionUpTo
<1>10. \A p \in P : p.path \in Needed
  <2>1. g[N] = P /\ N \in 0..N
    BY <1>6 DEF LockHolds
  <2> QED
    BY <1>9, <2>1
<1> QED
  BY <1>4, <1>10

\* An accepted lock is that of a sound project: Kahn's count has told that no
\* package depends on itself.
LEMMA AcceptedSound ==
    ASSUME ManifestsTyped, NEW lock \in Locks, LockHolds(lock, manifests[Project])
    PROVE  Sound /\ lock = TheLock
<1>1. PICK P : P = lock.packages /\ IsFiniteSet(P)
  BY DEF Locks
<1>2. LockedOfManifests(P) /\ LeadsInto(Project, P) /\ \A p \in P : LeadsInto(p.path, P)
  BY <1>1, AcceptedPackages
<1>3. /\ NamesIn(P) \cap (Reserved \cup {lock.project.name}) = {}
      /\ \A p, q \in P : p.name = q.name \/ p.path = q.path \/ p.root = q.root => p = q
      /\ Visited(P) = P
  BY <1>1, ValidLock DEF LockHolds
<1>4. Needed = {p.path : p \in P}
  BY <1>1, AcceptedNeeded
<1>5. HasManifest(manifests[Project]) /\ lock.project = manifests[Project]
  BY DEF LockHolds, Locks, ManifestsOf
<1>6. ASSUME NEW p \in P
      PROVE  p.path \notin Below(DependsOn(p.path))
  <2>1. PICK R \in SUBSET P : /\ p \notin R /\ p.deps \subseteq NamesIn(R)
                             /\ \A q \in R : q.deps \subseteq NamesIn(R)
    BY <1>1, <1>3, VisitedRanks
  <2> DEFINE S == {q.path : q \in R}
  <2>2. ASSUME NEW q \in P, q.deps \subseteq NamesIn(R)
        PROVE  DependsOn(q.path) \subseteq S
    <3> SUFFICES ASSUME NEW n \in Declared(manifests[q.path])
                 PROVE  manifests[q.path].deps[n] \in S
      BY DEF DependsOn
    <3>1. n \in NamesIn(R)
      BY <1>2, <2>2 DEF LockedOfManifests
    <3>2. PICK r \in R : r.name = n
      BY <3>1 DEF NamesIn
    <3>3. PICK t \in P : t.name = n /\ t.path = manifests[q.path].deps[n]
      BY <1>2, <2>2 DEF LeadsInto
    <3>4. r = t
      BY <1>3, <3>2, <3>3
    <3> QED
      BY <3>3, <3>4
  <2>3. S \in SUBSET Dirs
    BY <1>2 DEF LockedOfManifests
  <2>4. DependsOn(p.path) \subseteq S
    BY <2>1, <2>2
  <2>5. Closed(S)
    BY <2>1, <2>2 DEF Closed
  <2>6. p.path \notin S
    BY <1>3, <2>1
  <2> HIDE DEF S
  <2> QED
    BY <2>3, <2>4, <2>5, <2>6, BelowLeast
<1>7. /\ \A d \in Needed : /\ HasManifest(manifests[d])
                            /\ manifests[d].name \notin Reserved \cup {manifests[Project].name}
                            /\ d \notin Below(DependsOn(d))
  BY <1>2, <1>3, <1>4, <1>5, <1>6 DEF LockedOfManifests, NamesIn
<1>8. ASSUME NEW o \in Needed \cup {Project}, NEW n \in Declared(manifests[o])
      PROVE  manifests[manifests[o].deps[n]].name = n
  <2>1. LeadsInto(o, P)
    BY <1>2, <1>4
  <2> QED
    BY <1>2, <2>1 DEF LeadsInto, LockedOfManifests
<1>9. \A d, e \in Needed : d # e => /\ manifests[d].name # manifests[e].name
                                     /\ manifests[d].root # manifests[e].root
  BY <1>2, <1>3, <1>4 DEF LockedOfManifests
<1>10. lock = TheLock
  <2>1. lock = [project |-> lock.project, packages |-> P]
    BY <1>1 DEF Locks
  <2>2. P = {Locked(d, manifests[d]) : d \in Needed}
    BY <1>2, <1>4 DEF LockedOfManifests
  <2> QED
    BY <1>5, <2>1, <2>2 DEF TheLock
<1> QED
  BY <1>7, <1>8, <1>9, <1>10 DEF Sound

(***************************************************************************)
(* Types.                                                                  *)
(***************************************************************************)
ProjectFrames == [dir : {Project}, project : ManifestsOf(Project), deps : DependencyDirs,
                  todo : SUBSET Names]
VisitFrames == [dir : Dirs, deps : DependencyDirs, todo : SUBSET Names]
Frames == ProjectFrames \cup VisitFrames

FramesTyped ==
    /\ frames \in Seq(Frames)
    /\ frames # <<>> => frames[1] \in ProjectFrames
    /\ \A i \in 1..Len(frames) : i # 1 => frames[i] \in VisitFrames /\ nodes[frames[i].dir] # NoLock
    /\ \A i \in 1..Len(frames) : \A n \in frames[i].todo : frames[i].deps[n] \in Dirs

PackagesTyped ==
    /\ manifests \in [Owners -> UNION {Manifests(o) : o \in Owners}] /\ ManifestsTyped
    /\ FramesTyped
    /\ nodes \in [Dirs -> AllLocked \cup {NoLock}]
    /\ \A d \in Dirs : nodes[d] # NoLock => nodes[d] \in LockedOf(d)
    /\ locked \in SUBSET AllLocked /\ IsFiniteSet(locked)
    /\ lockfile \in Locks \cup {NoLock}
    /\ Resolving => verdict = "none"
    /\ verdict = "accepted" => lockfile \in Locks /\ LockHolds(lockfile, manifests[Project])

\* Taking a name from what a visit has to do.
Passed(r, n) == [r EXCEPT !.todo = @ \ {n}]

SameVisit(t, r) ==
    /\ t.dir = r.dir /\ t.deps = r.deps /\ t.todo \subseteq r.todo
    /\ r \in ProjectFrames => t \in ProjectFrames /\ t.project = r.project
    /\ r \in VisitFrames => t \in VisitFrames

LEMMA TodoFields ==
    ASSUME NEW r \in Frames, NEW n, NEW t, t = Passed(r, n)
    PROVE  SameVisit(t, r) /\ t \in Frames /\ \A k \in r.todo : k \in t.todo \/ k = n
<1>1. CASE r \in ProjectFrames
  <2>1. PICK q, w, e, x : r = [dir |-> q, project |-> w, deps |-> e, todo |-> x]
    BY <1>1 DEF ProjectFrames
  <2>2. t = [dir |-> q, project |-> w, deps |-> e, todo |-> x \ {n}]
    BY <2>1 DEF Passed
  <2>3. r \notin VisitFrames
    BY <1>1 DEF ProjectFrames, VisitFrames
  <2> QED
    BY <1>1, <2>1, <2>2, <2>3 DEF ProjectFrames, Frames, SameVisit
<1>2. CASE r \in VisitFrames
  <2>1. PICK q, e, x : r = [dir |-> q, deps |-> e, todo |-> x]
    BY <1>2 DEF VisitFrames
  <2>2. t = [dir |-> q, deps |-> e, todo |-> x \ {n}]
    BY <2>1 DEF Passed
  <2>3. r \notin ProjectFrames
    BY <1>2 DEF ProjectFrames, VisitFrames
  <2> QED
    BY <1>2, <2>1, <2>2, <2>3 DEF VisitFrames, Frames, SameVisit
<1> QED
  BY <1>1, <1>2 DEF Frames

\* The loop of the innermost visit goes on: nothing but its names changes.
Dismissed(f, n) ==
    /\ f \in Seq(Frames) /\ Len(f) = Len(frames)
    /\ \A i \in 1..Len(frames) : SameVisit(f[i], frames[i])
    /\ \A i \in 1..Len(frames) : \A k \in frames[i].todo : k \in f[i].todo \/ (i = Len(frames) /\ k = n)

LEMMA DismissFields ==
    ASSUME FramesTyped, Resolving, NEW n, NEW f, f = Dismiss(n)
    PROVE  Dismissed(f, n)
<1>1. PICK L : L = Len(frames)
  OBVIOUS
<1>2. frames \in Seq(Frames) /\ L \in Nat \ {0}
  BY <1>1 DEF FramesTyped, Resolving
<1>3. PICK r \in Frames : r = frames[L]
  BY <1>1, <1>2
<1>4. PICK t : t = Passed(r, n)
  OBVIOUS
<1>5. f = [frames EXCEPT ![L] = t]
  BY <1>1, <1>3, <1>4 DEF Dismiss, Passed
<1>6. SameVisit(t, r) /\ t \in Frames /\ \A k \in r.todo : k \in t.todo \/ k = n
  BY <1>4, TodoFields
<1>7. f \in Seq(Frames) /\ Len(f) = L /\ \A i \in 1..L : f[i] = IF i = L THEN t ELSE frames[i]
  BY <1>1, <1>2, <1>5, <1>6
<1>8. ASSUME NEW i \in 1..L
      PROVE  /\ SameVisit(f[i], frames[i])
             /\ \A k \in frames[i].todo : k \in f[i].todo \/ (i = L /\ k = n)
  <2>1. CASE i = L
    BY <1>3, <1>6, <1>7, <2>1
  <2>2. CASE i # L
    <3>1. f[i] = frames[i]
      BY <1>7, <2>2
    <3> QED
      BY <3>1 DEF SameVisit
  <2> QED
    BY <2>1, <2>2
<1> QED
  BY <1>1, <1>7, <1>8 DEF Dismissed

\* The verdict of a build that looks at the same files is the same.
LEMMA SameLock ==
    ASSUME UNCHANGED <<manifests, lockfile>>
    PROVE  LockHolds(lockfile, manifests[Project])' = LockHolds(lockfile, manifests[Project])
  BY DEF LockHolds, PathsHold

LEMMA PackagesInitTyped == PackagesInit => PackagesTyped
<1> SUFFICES ASSUME PackagesInit
             PROVE  PackagesTyped
  OBVIOUS
<1>1. manifests \in [Owners -> UNION {Manifests(o) : o \in Owners}] /\ ManifestsTyped
  BY DEF PackagesInit, ManifestsTyped
<1>2. FramesTyped
  BY DEF PackagesInit, FramesTyped
<1>3. IsFiniteSet(locked)
  BY FS_EmptySet DEF PackagesInit
<1> QED
  BY <1>1, <1>2, <1>3 DEF PackagesInit, PackagesTyped, Resolving

LEMMA ResolveTyped == ASSUME PackagesTyped, resolveLocalPackages PROVE PackagesTyped'
<1>1. PICK m \in ManifestsOf(Project) : m = manifests[Project]
  BY DEF PackagesTyped, ManifestsTyped, resolveLocalPackages, ManifestsOf, Owners
<1>2. PICK r : r = [dir |-> Project, project |-> m, deps |-> m.deps, todo |-> Declared(m)]
  OBVIOUS
<1>3. frames' = <<r>>
  BY <1>1, <1>2 DEF resolveLocalPackages
<1>4. m.deps \in DependencyDirs /\ Declared(m) \subseteq Names /\ \A n \in Declared(m) : m.deps[n] \in Dirs
  BY ManifestFields DEF Owners
<1>5. r \in ProjectFrames
  BY <1>2, <1>4 DEF ProjectFrames
<1>6. FramesTyped'
  <2>1. frames' \in Seq(Frames) /\ Len(frames') = 1 /\ frames'[1] = r
    BY <1>3, <1>5 DEF Frames
  <2>2. \A n \in r.todo : r.deps[n] \in Dirs
    BY <1>2, <1>4
  <2> QED
    BY <1>5, <2>1, <2>2 DEF FramesTyped
<1>7. IsFiniteSet(locked')
  BY FS_EmptySet DEF resolveLocalPackages
<1>8. UNCHANGED <<manifests, lockfile>> /\ verdict' = "none"
      /\ nodes' = [d \in Dirs |-> NoLock] /\ locked' = {}
  BY DEF resolveLocalPackages
<1> QED
  BY <1>6, <1>7, <1>8 DEF PackagesTyped, ManifestsTyped

LEMMA RefuseTyped ==
    ASSUME PackagesTyped, Refuse, UNCHANGED manifests
    PROVE  PackagesTyped'
<1>1. FramesTyped'
  BY DEF Refuse, FramesTyped
<1> QED
  BY <1>1 DEF PackagesTyped, ManifestsTyped, Refuse, Resolving

LEMMA KnownTyped ==
    ASSUME PackagesTyped, Resolving, NEW n \in Innermost.todo, NEW d, VisitKnown(n, d),
           UNCHANGED manifests
    PROVE  PackagesTyped'
<1>1. CASE Refuse
  BY <1>1, RefuseTyped
<1>2. CASE frames' = Dismiss(n) /\ UNCHANGED <<nodes, locked, lockfile, verdict>>
  <2>1. PICK f : f = Dismiss(n)
    OBVIOUS
  <2>2. Dismissed(f, n) /\ frames' = f /\ nodes' = nodes
    BY <1>2, <2>1, DismissFields DEF PackagesTyped
  <2>3. FramesTyped'
    <3>1. f \in Seq(Frames) /\ Len(f) = Len(frames) /\ 1 \in 1..Len(frames)
      BY <2>2 DEF Dismissed, Resolving, PackagesTyped, FramesTyped
    <3>2. f[1] \in ProjectFrames
      BY <2>2, <3>1 DEF Dismissed, SameVisit, Resolving, PackagesTyped, FramesTyped
    <3>3. ASSUME NEW i \in 1..Len(frames)
          PROVE  /\ i # 1 => f[i] \in VisitFrames /\ nodes[f[i].dir] # NoLock
                 /\ \A k \in f[i].todo : f[i].deps[k] \in Dirs
      BY <2>2 DEF Dismissed, SameVisit, PackagesTyped, FramesTyped
    <3> QED
      BY <2>2, <3>1, <3>2, <3>3 DEF FramesTyped
  <2>4. verdict = "none"
    BY DEF PackagesTyped
  <2> QED
    BY <1>2, <2>3, <2>4 DEF PackagesTyped, ManifestsTyped
<1> QED
  BY <1>1, <1>2 DEF VisitKnown

\* The package a first visit leads to.
LEMMA NewNode ==
    ASSUME PackagesTyped, Resolving, NEW n \in Innermost.todo, NEW d, d = Innermost.deps[n]
    PROVE  /\ d \in Dirs /\ d \in Owners /\ Len(frames) \in Nat \ {0} /\ Innermost \in Frames
           /\ manifests[d] \in Manifests(d)
           /\ HasManifest(manifests[d]) => /\ manifests[d] \in ManifestsOf(d)
                                           /\ Locked(d, manifests[d]) \in LockedOf(d)
                                           /\ Locked(d, manifests[d]) # NoLock
<1>1. Len(frames) \in Nat \ {0} /\ Innermost \in Frames /\ d \in Dirs
  BY DEF PackagesTyped, FramesTyped, Resolving, Innermost
<1>2. manifests[d] \in Manifests(d) /\ d \in Owners
  BY <1>1 DEF PackagesTyped, ManifestsTyped, Owners
<1>3. Locked(d, manifests[d]) # NoLock
  BY LockedFields
<1> QED
  BY <1>1, <1>2, <1>3 DEF ManifestsOf, LockedOf

LEMMA NewTyped ==
    ASSUME PackagesTyped, Resolving, NEW n \in Innermost.todo, NEW d, d = Innermost.deps[n],
           VisitNew(n, d), UNCHANGED manifests
    PROVE  PackagesTyped'
<1>1. CASE Refuse
  BY <1>1, RefuseTyped
<1>2. CASE ~Refuse
  <2>1. PICK m : m = manifests[d]
    OBVIOUS
  <2>2. /\ HasManifest(m) /\ nodes[d] = NoLock
        /\ nodes' = [nodes EXCEPT ![d] = Locked(d, m)]
        /\ frames' = Append(Dismiss(n), [dir |-> d, deps |-> m.deps, todo |-> Declared(m)])
        /\ UNCHANGED <<locked, lockfile, verdict>>
    BY <1>2, <2>1 DEF VisitNew, Refused
  <2>3. /\ d \in Dirs /\ d \in Owners /\ m \in ManifestsOf(d)
        /\ Locked(d, m) \in LockedOf(d) /\ Locked(d, m) # NoLock
    BY <2>1, <2>2, NewNode
  <2>4. PICK f, L : f = Dismiss(n) /\ L = Len(frames)
    OBVIOUS
  <2>5. /\ Dismissed(f, n) /\ L \in Nat \ {0} /\ f \in Seq(Frames) /\ Len(f) = L
        /\ f[1] \in ProjectFrames
        /\ \A i \in 1..L : SameVisit(f[i], frames[i])
    <3>1. Dismissed(f, n)
      BY <2>4, DismissFields DEF PackagesTyped
    <3>2. L \in Nat \ {0} /\ 1 \in 1..L /\ frames[1] \in ProjectFrames
      BY <2>4 DEF Resolving, PackagesTyped, FramesTyped
    <3>3. SameVisit(f[1], frames[1])
      BY <2>4, <3>1, <3>2 DEF Dismissed
    <3> QED
      BY <2>4, <3>1, <3>2, <3>3 DEF Dismissed, SameVisit
  <2>6. PICK r : r = [dir |-> d, deps |-> m.deps, todo |-> Declared(m)]
    OBVIOUS
  <2>7. m.deps \in DependencyDirs /\ Declared(m) \subseteq Names /\ \A k \in Declared(m) : m.deps[k] \in Dirs
    BY <2>3, ManifestFields
  <2>8. r \in VisitFrames /\ r.dir = d /\ \A k \in r.todo : r.deps[k] \in Dirs
    BY <2>3, <2>6, <2>7 DEF VisitFrames
  <2>9. frames' = Append(f, r) /\ frames' \in Seq(Frames) /\ Len(frames') = L + 1
        /\ \A i \in 1..(L + 1) : frames'[i] = IF i = L + 1 THEN r ELSE f[i]
    BY <2>2, <2>4, <2>5, <2>6, <2>8 DEF Frames
  <2>10. nodes' \in [Dirs -> AllLocked \cup {NoLock}]
         /\ \A e \in Dirs : nodes'[e] = IF e = d THEN Locked(d, m) ELSE nodes[e]
    BY <2>2, <2>3 DEF PackagesTyped, AllLocked
  <2>11. FramesTyped'
    <3>1. \A i \in 1..L : i # 1 => frames[i] \in VisitFrames /\ frames[i].dir \in Dirs
                                    /\ nodes[frames[i].dir] # NoLock
      BY <2>4 DEF PackagesTyped, FramesTyped, VisitFrames
    <3>2. \A i \in 1..L : \A k \in frames[i].todo : frames[i].deps[k] \in Dirs
      BY <2>4 DEF PackagesTyped, FramesTyped
    <3>3. ASSUME NEW i \in 1..(L + 1)
          PROVE  /\ i # 1 => frames'[i] \in VisitFrames /\ nodes'[frames'[i].dir] # NoLock
                 /\ \A k \in frames'[i].todo : frames'[i].deps[k] \in Dirs
      <4>1. CASE i = L + 1
        BY <2>3, <2>8, <2>9, <2>10, <4>1
      <4>2. CASE i \in 1..L
        <5>1. frames'[i] = f[i] /\ SameVisit(f[i], frames[i])
          BY <2>5, <2>9, <4>2
        <5>2. i # 1 => nodes'[frames[i].dir] # NoLock
          BY <2>3, <2>10, <3>1, <4>2
        <5> QED
          BY <3>1, <3>2, <4>2, <5>1, <5>2 DEF SameVisit
      <4> QED
        BY <2>5, <4>1, <4>2
    <3>4. frames'[1] \in ProjectFrames
      BY <2>5, <2>9
    <3> QED
      BY <2>9, <3>3, <3>4 DEF FramesTyped
  <2>12. verdict = "none"
    BY DEF PackagesTyped
  <2>13. \A e \in Dirs : nodes'[e] # NoLock => nodes'[e] \in LockedOf(e)
    BY <2>3, <2>10 DEF PackagesTyped
  <2> QED
    BY <2>2, <2>10, <2>11, <2>12, <2>13 DEF PackagesTyped, ManifestsTyped
<1> QED
  BY <1>1, <1>2

\* The innermost visit ends: the ones around it stay as they are.
LEMMA PoppedFields ==
    ASSUME PackagesTyped, Len(frames) > 1, NEW f, f = SubSeq(frames, 1, Len(frames) - 1),
           NEW L, L = Len(frames) - 1
    PROVE  /\ L \in Nat \ {0} /\ f \in Seq(Frames) /\ Len(f) = L
           /\ \A i \in 1..L : f[i] = frames[i]
           /\ Innermost = frames[L + 1] /\ Innermost \in VisitFrames /\ Innermost.dir \in Dirs
           /\ nodes[Innermost.dir] # NoLock /\ nodes[Innermost.dir] \in LockedOf(Innermost.dir)
<1>1. frames \in Seq(Frames) /\ Len(frames) \in Nat /\ L + 1 = Len(frames) /\ L \in Nat \ {0}
  BY DEF PackagesTyped, FramesTyped
<1>2. f \in Seq(Frames) /\ Len(f) = L /\ \A i \in 1..L : f[i] = frames[i]
  <2>1. PICK q : q = frames
    OBVIOUS
  <2>2. q \in Seq(Frames) /\ L \in 0..Len(q) /\ f = SubSeq(q, 1, L)
    BY <1>1, <2>1
  <2>3. f \in Seq(Frames) /\ Len(f) = L /\ \A i \in 1..L : f[i] = q[i]
    BY <2>2
  <2> QED
    BY <2>1, <2>3
<1>3. Innermost = frames[L + 1] /\ L + 1 # 1 /\ L + 1 \in 1..Len(frames)
  BY <1>1 DEF Innermost
<1>4. Innermost \in VisitFrames /\ nodes[Innermost.dir] # NoLock
  BY <1>3 DEF PackagesTyped, FramesTyped
<1>5. Innermost.dir \in Dirs
  BY <1>4 DEF VisitFrames
<1> QED
  BY <1>1, <1>2, <1>3, <1>4, <1>5 DEF PackagesTyped

LEMMA CompleteTyped == ASSUME PackagesTyped, CompleteVisit PROVE PackagesTyped'
<1>1. PICK f, L : f = SubSeq(frames, 1, Len(frames) - 1) /\ L = Len(frames) - 1
  OBVIOUS
<1>2. /\ L \in Nat \ {0} /\ f \in Seq(Frames) /\ Len(f) = L
      /\ \A i \in 1..L : f[i] = frames[i]
      /\ Innermost.dir \in Dirs /\ nodes[Innermost.dir] \in LockedOf(Innermost.dir)
  BY <1>1, PoppedFields DEF CompleteVisit
<1>3. frames' = f /\ locked' = locked \cup {nodes[Innermost.dir]}
      /\ UNCHANGED <<manifests, nodes, lockfile, verdict>>
  BY <1>1 DEF CompleteVisit
<1>4. FramesTyped'
  BY <1>1, <1>2, <1>3 DEF PackagesTyped, FramesTyped
<1>5. nodes[Innermost.dir] \in AllLocked
  BY <1>2 DEF AllLocked
<1>6. IsFiniteSet(locked') /\ locked' \in SUBSET AllLocked
  BY <1>3, <1>5, FS_AddElement DEF PackagesTyped
<1>7. verdict = "none"
  BY DEF PackagesTyped, CompleteVisit, Resolving, FramesTyped
<1> QED
  BY <1>3, <1>4, <1>6, <1>7 DEF PackagesTyped, ManifestsTyped

LEMMA WriteTyped == ASSUME PackagesTyped, WriteLock PROVE PackagesTyped'
<1>1. PICK lock : lock = [project |-> Innermost.project, packages |-> locked]
  OBVIOUS
<1>2. lock \in Locks
  <2>1. Len(frames) = 1 /\ frames # <<>>
    BY DEF WriteLock
  <2>2. Innermost \in ProjectFrames
    BY <2>1 DEF Innermost, PackagesTyped, FramesTyped
  <2>3. Innermost.project \in ManifestsOf(Project)
    BY <2>2 DEF ProjectFrames
  <2> QED
    BY <1>1, <2>3 DEF PackagesTyped, Locks
<1>3. CASE Refuse
  BY <1>3, RefuseTyped DEF WriteLock
<1>4. CASE frames' = <<>> /\ lockfile' = lock /\ verdict' = "resolved" /\ UNCHANGED <<nodes, locked>>
  <2>1. FramesTyped'
    BY <1>4 DEF FramesTyped
  <2> QED
    BY <1>2, <1>4, <2>1 DEF WriteLock, PackagesTyped, ManifestsTyped, Resolving
<1> QED
  BY <1>1, <1>3, <1>4 DEF WriteLock

LEMMA KillTyped == ASSUME PackagesTyped, KillResolver PROVE PackagesTyped'
<1>1. FramesTyped'
  BY DEF KillResolver, FramesTyped
<1>2. lockfile' \in {lockfile, NoLock}
  BY DEF KillResolver
<1> QED
  BY <1>1, <1>2 DEF KillResolver, PackagesTyped, ManifestsTyped, Resolving

LEMMA ValidateTyped == ASSUME PackagesTyped, validateLocalLockfile PROVE PackagesTyped'
<1>1. UNCHANGED <<manifests, frames, nodes, locked, lockfile>>
  BY DEF validateLocalLockfile
<1>2. LockHolds(lockfile, manifests[Project])' = LockHolds(lockfile, manifests[Project])
  BY <1>1, SameLock
<1>3. verdict' = "accepted" => lockfile \in Locks /\ LockHolds(lockfile, manifests[Project])
  BY DEF validateLocalLockfile, PackagesTyped
<1>4. ~Resolving' /\ FramesTyped'
  BY <1>1 DEF validateLocalLockfile, Resolving, PackagesTyped, FramesTyped
<1> QED
  BY <1>1, <1>2, <1>3, <1>4 DEF PackagesTyped, ManifestsTyped

LEMMA EditTyped == ASSUME PackagesTyped, EditManifest PROVE PackagesTyped'
<1>1. UNCHANGED <<frames, nodes, locked, lockfile>> /\ verdict' = "none"
  BY DEF EditManifest
<1>2. manifests' \in [Owners -> UNION {Manifests(o) : o \in Owners}] /\ ManifestsTyped'
  <2>0. PICK o \in Owners : \E m \in Manifests(o) : manifests' = [manifests EXCEPT ![o] = m]
    BY DEF EditManifest
  <2>1. PICK m \in Manifests(o) : manifests' = [manifests EXCEPT ![o] = m]
    BY <2>0
  <2> QED
    BY <2>1 DEF PackagesTyped, ManifestsTyped
<1>3. FramesTyped'
  BY <1>1 DEF PackagesTyped, FramesTyped
<1> QED
  BY <1>1, <1>2, <1>3 DEF PackagesTyped, Resolving

LEMMA PackagesTypedStep == PackagesTyped /\ [PackagesNext]_packageVars => PackagesTyped'
<1> SUFFICES ASSUME PackagesTyped, [PackagesNext]_packageVars
             PROVE  PackagesTyped'
  OBVIOUS
<1>1. CASE visit
  <2>1. PICK n \in Innermost.todo : VisitKnown(n, Innermost.deps[n]) \/ VisitNew(n, Innermost.deps[n])
    BY <1>1 DEF visit
  <2> QED
    BY <1>1, <2>1, KnownTyped, NewTyped DEF visit
<1>2. CASE UNCHANGED packageVars
  <2>1. UNCHANGED <<manifests, frames, nodes, locked, lockfile, verdict>>
    BY <1>2 DEF packageVars
  <2>2. FramesTyped'
    BY <2>1 DEF PackagesTyped, FramesTyped
  <2>3. LockHolds(lockfile, manifests[Project])' = LockHolds(lockfile, manifests[Project])
    BY <2>1, SameLock
  <2> QED
    BY <2>1, <2>2, <2>3 DEF PackagesTyped, ManifestsTyped, Resolving
<1> QED
  BY <1>1, <1>2, ResolveTyped, CompleteTyped, WriteTyped, KillTyped, ValidateTyped, EditTyped DEF PackagesNext

\* A build that is let through has the lock the manifests of this moment ask for,
\* and these are sound.
THEOREM AcceptedCurrent == PackagesSpec => []AcceptedIsCurrent
<1>1. PackagesTyped => AcceptedIsCurrent
  BY AcceptedSound DEF PackagesTyped, AcceptedIsCurrent
<1> QED
  BY <1>1, PackagesInitTyped, PackagesTypedStep, PTL DEF PackagesSpec

(***************************************************************************)
(* The depth-first walk.                                                   *)
(***************************************************************************)
\* Kahn's count reaches every package when no proper subset holds all that is
\* ready after it.
LEMMA RankedVisited ==
    ASSUME NEW P, IsFiniteSet(P), \A R \in SUBSET P : Ready(P, R) \subseteq R => R = P
    PROVE  Visited(P) = P
<1>1. PICK N \in Nat : N = Cardinality(P)
  BY FS_CardinalityType
<1>2. PICK g : /\ Rounds(g, N, P, {}) /\ Visited(P) = g[N]
               /\ \A n \in 0..(N - 1) : g[n + 1] = Ready(P, g[n])
  BY <1>1, VisitedRounds
<1>3. \A n \in 0..(N - 1) : g[n] \subseteq g[n + 1]
  BY <1>2, RoundsGrow
<1>4. \A n \in 0..N : g[n] \in SUBSET P
  BY <1>2 DEF Rounds
<1> DEFINE T == {n \in 0..N : g[n] = P \/ Cardinality(g[n]) >= n}
<1>5. 0 \in T
  <2>1. g[0] = {} /\ 0 \in 0..N
    BY <1>1, <1>2 DEF Rounds
  <2>2. Cardinality(g[0]) = 0
    BY <2>1, FS_EmptySet
  <2> QED
    BY <2>1, <2>2
<1>6. ASSUME NEW n \in 0..(N - 1), n \in T
      PROVE  n + 1 \in T
  <2>1. n \in 0..N /\ n + 1 \in 0..N
    BY <1>1
  <2>2. PICK R \in SUBSET P, Q \in SUBSET P : R = g[n] /\ Q = g[n + 1]
    BY <1>4, <2>1
  <2>3. R \subseteq Q /\ Q = Ready(P, R)
    BY <1>2, <1>3, <2>2
  <2>4. CASE R = P
    <3>1. Q = P
      <4>1. \A p \in P : p \in Q
        BY <2>3, <2>4
      <4>2. \A p \in Q : p \in P
        OBVIOUS
      <4> QED
        BY <4>1, <4>2
    <3> QED
      BY <2>1, <2>2, <3>1
  <2>5. CASE R # P
    <3>1. R # Q
      BY <2>3, <2>5
    <3>2. IsFiniteSet(Q) /\ Cardinality(Q) \in Nat
      BY FS_Subset, FS_CardinalityType
    <3>3. R \in SUBSET Q
      BY <2>3
    <3>4. IsFiniteSet(R) /\ Cardinality(R) \in Nat
      BY <3>2, <3>3, FS_Subset, FS_CardinalityType
    <3>5. Cardinality(R) <= Cardinality(Q) /\ Cardinality(R) # Cardinality(Q)
      BY <3>1, <3>2, <3>3, FS_Subset
    <3>6. Cardinality(R) >= n
      BY <1>6, <2>2, <2>5
    <3>7. Cardinality(Q) >= n + 1
      BY <3>2, <3>4, <3>5, <3>6
    <3> QED
      BY <2>1, <2>2, <3>7
  <2> QED
    BY <2>4, <2>5
<1>7. \A n \in 0..N : n \in T
  <2> HIDE DEF T
  <2> QED
    BY <1>5, <1>6, InductionUpTo
<1>8. PICK R \in SUBSET P : R = g[N]
  BY <1>4
<1>9. R = P \/ Cardinality(R) >= Cardinality(P)
  BY <1>1, <1>7, <1>8
<1>10. R = P
  <2>1. /\ IsFiniteSet(R) /\ Cardinality(R) <= Cardinality(P)
        /\ Cardinality(P) = Cardinality(R) => P = R
    BY FS_Subset
  <2>2. Cardinality(R) \in Nat /\ Cardinality(P) \in Nat
    BY <2>1, FS_CardinalityType
  <2> QED
    BY <1>9, <2>1, <2>2
<1> QED
  BY <1>2, <1>8, <1>10

BelowOf == [o \in Owners |-> Below(DependsOn(o))]
Seen == {d \in Dirs : nodes[d] # NoLock}
Finished == Seen \ Visiting
Handled(i) == Declared(manifests[frames[i].dir]) \ frames[i].todo

\* Each visit has the manifest of its directory.
WalkFrames ==
    /\ HasManifest(manifests[Project]) /\ frames[1].project = manifests[Project]
    /\ \A i \in 1..Len(frames) : /\ HasManifest(manifests[frames[i].dir])
                                 /\ frames[i].deps = manifests[frames[i].dir].deps
                                 /\ frames[i].todo \subseteq Declared(manifests[frames[i].dir])

\* The visits follow a path of dependencies without a cycle.
WalkPath ==
    \A i, j \in 1..Len(frames) : i < j => /\ frames[i].dir # frames[j].dir
                                          /\ frames[j].dir \in BelowOf[frames[i].dir]

\* What a visit has handled was finished, or is being visited from it.
WalkEdges ==
    \A i \in 1..Len(frames) : \A n \in Handled(i) :
        LET d == manifests[frames[i].dir].deps[n] IN
        /\ d \in Seen /\ nodes[d].name = n
        /\ d \in Finished \/ (i < Len(frames) /\ d = frames[i + 1].dir)

\* The nodes are packages the project needs, with the names it may use.
WalkNodes ==
    \A d \in Seen :
        /\ nodes[d] = Locked(d, manifests[d]) /\ HasManifest(manifests[d])
        /\ manifests[d].name \notin Reserved \cup {manifests[Project].name} /\ d \in Needed

WalkDistinct ==
    \A d, e \in Seen : d # e => /\ manifests[d].name # manifests[e].name
                                 /\ manifests[d].root # manifests[e].root

\* The finished packages lead to finished packages, with the right names, and
\* never to themselves.
WalkFinished ==
    /\ locked = {nodes[d] : d \in Finished}
    /\ \A d \in Finished : /\ d \notin BelowOf[d]
                           /\ \A n \in Declared(manifests[d]) :
                                LET e == manifests[d].deps[n] IN e \in Finished /\ nodes[e].name = n

\* The packages to be locked can be ranked.
WalkRanked == \A R \in SUBSET locked : Ready(locked, R) \subseteq R => R = locked

Walked == /\ WalkFrames /\ WalkPath /\ WalkEdges /\ WalkNodes /\ WalkDistinct
          /\ WalkFinished /\ WalkRanked

WalkInvariant == PackagesTyped /\ (Resolving /\ ~moved => Walked) /\ ResolvesSoundProjects

\* What the manifests lead to does not change while they stay.
LEMMA SameBelow ==
    ASSUME UNCHANGED manifests
    PROVE  BelowOf' = BelowOf /\ Needed' = Needed
<1>1. /\ \A o : DependsOn(o)' = DependsOn(o)
      /\ \A S : Closed(S)' = Closed(S)
  BY DEF DependsOn, Closed
<1>2. ASSUME NEW CONSTANT o
      PROVE  Below(DependsOn(o))' = Below(DependsOn(o))
  <2>1. DependsOn(o)' = DependsOn(o)
    BY <1>1
  <2> QED
    BY <1>1, <2>1 DEF Below
<1> QED
  BY <1>2 DEF BelowOf, Needed

\* The visits and the directories they are in.
LEMMA WalkTypes ==
    ASSUME PackagesTyped, Resolving, NEW L, L = Len(frames)
    PROVE  /\ frames \in Seq(Frames) /\ L \in Nat \ {0} /\ frames[1].dir = Project
           /\ \A i \in 1..L : /\ frames[i].dir \in Owners
                              /\ i # 1 => frames[i].dir \in Seen /\ frames[i].dir \in Visiting
           /\ Visiting \subseteq Seen /\ Innermost = frames[L] /\ L \in 1..L
<1>1. frames \in Seq(Frames) /\ L \in Nat \ {0} /\ frames[1] \in ProjectFrames
  BY DEF PackagesTyped, FramesTyped, Resolving
<1>2. \A i \in 1..L : i # 1 => frames[i] \in VisitFrames /\ nodes[frames[i].dir] # NoLock
  BY DEF PackagesTyped, FramesTyped
<1>3. \A i \in 1..L : i # 1 => frames[i].dir \in Seen
  BY <1>2 DEF VisitFrames, Seen
<1>4. frames[1].dir = Project
  BY <1>1 DEF ProjectFrames
<1>5. \A i \in 1..L : i # 1 => i \in 2..L
  BY <1>1
<1>6. \A i \in 2..L : i \in 1..L /\ i # 1
  BY <1>1
<1>7. Visiting \subseteq Seen /\ \A i \in 1..L : i # 1 => frames[i].dir \in Visiting
  BY <1>3, <1>5, <1>6 DEF Visiting
<1>8. \A i \in 1..L : frames[i].dir \in Owners
  BY <1>3, <1>4 DEF Seen, Owners
<1> QED
  BY <1>1, <1>3, <1>4, <1>7, <1>8 DEF Innermost

\* A visit is of the project or of a package it needs; its manifest leads to
\* packages the project needs too.
LEMMA WalkLeads ==
    ASSUME PackagesTyped, Resolving, Walked, NEW o, o = Innermost.dir, NEW n \in Innermost.todo,
           NEW d, d = Innermost.deps[n]
    PROVE  /\ o \in Needed \cup {Project} /\ o \in Owners /\ HasManifest(manifests[o])
           /\ n \in Declared(manifests[o]) /\ d = manifests[o].deps[n] /\ d \in Dirs /\ d \in Owners
           /\ d \in Needed /\ d \in BelowOf[o]
           /\ \A i \in 1..Len(frames) : d \in BelowOf[frames[i].dir]
<1>1. PICK L : L = Len(frames)
  OBVIOUS
<1>2. /\ L \in Nat \ {0} /\ frames[1].dir = Project /\ Innermost = frames[L] /\ L \in 1..L
      /\ \A i \in 1..L : /\ frames[i].dir \in Owners
                         /\ i # 1 => frames[i].dir \in Seen /\ frames[i].dir \in Visiting
  BY <1>1, WalkTypes
<1>3. ManifestsTyped
  BY DEF PackagesTyped
<1>4. /\ o \in Owners /\ HasManifest(manifests[o]) /\ d = manifests[o].deps[n]
      /\ n \in Declared(manifests[o])
  BY <1>1, <1>2 DEF Walked, WalkFrames
<1>5. o \in Needed \cup {Project}
  BY <1>2 DEF Walked, WalkNodes
<1>6. d \in Dirs /\ d \in DependsOn(o)
  BY <1>3, <1>4, Leads
<1>7. ASSUME NEW i \in 1..L
      PROVE  d \in BelowOf[frames[i].dir]
  <2>1. PICK p \in Owners : p = frames[i].dir
    BY <1>2
  <2>2. HasManifest(manifests[p])
    BY <1>1, <2>1 DEF Walked, WalkFrames
  <2>3. PICK D \in SUBSET Dirs : D = DependsOn(p)
    BY <1>3, <2>2, Leads
  <2>4. BelowOf[p] = Below(D)
    BY <2>3 DEF BelowOf
  <2>5. CASE p = o
    <3>1. D \subseteq Below(D)
      BY <1>3, BelowLeast
    <3> QED
      BY <1>6, <2>1, <2>3, <2>4, <2>5, <3>1
  <2>6. CASE p # o
    <3>1. i < L
      BY <1>2, <2>1, <2>6
    <3>2. o \in Below(D)
      BY <1>1, <1>2, <2>1, <2>4, <3>1 DEF Walked, WalkPath
    <3>3. manifests[o].deps[n] \in Below(D)
      BY <1>3, <1>4, <3>2, BelowNext
    <3> QED
      BY <1>4, <2>1, <2>4, <3>3
  <2> QED
    BY <2>5, <2>6
<1>8. d \in BelowOf[o] /\ d \in BelowOf[Project]
  <2>1. 1 \in 1..L
    BY <1>2
  <2> QED
    BY <1>2, <1>7, <2>1
<1>9. d \in Needed
  BY <1>8 DEF BelowOf, Needed, Owners
<1> QED
  BY <1>1, <1>4, <1>5, <1>6, <1>7, <1>8, <1>9 DEF Owners

LEMMA ResolveWalked == ASSUME PackagesTyped, resolveLocalPackages PROVE Walked'
<1>1. PICK m \in ManifestsOf(Project) : m = manifests[Project]
  BY DEF PackagesTyped, ManifestsTyped, resolveLocalPackages, ManifestsOf, Owners
<1>2. PICK r : r = [dir |-> Project, project |-> m, deps |-> m.deps, todo |-> Declared(m)]
  OBVIOUS
<1>3. /\ frames' = <<r>> /\ nodes' = [d \in Dirs |-> NoLock] /\ locked' = {}
      /\ manifests' = manifests /\ HasManifest(m)
  BY <1>1, <1>2 DEF resolveLocalPackages
<1>4. Len(frames') = 1 /\ frames'[1] = r
  BY <1>3
<1>5. r.dir = Project /\ r.project = m /\ r.deps = m.deps /\ r.todo = Declared(m)
  BY <1>2
<1>6. WalkFrames'
  BY <1>1, <1>3, <1>4, <1>5 DEF WalkFrames
<1>7. Seen' = {} /\ Finished' = {} /\ Handled(1)' = {}
  BY <1>1, <1>3, <1>4, <1>5 DEF Seen, Finished, Handled
<1>8. WalkPath' /\ WalkNodes' /\ WalkDistinct'
  BY <1>4, <1>7 DEF WalkPath, WalkNodes, WalkDistinct
<1>9. WalkEdges'
  BY <1>4, <1>7 DEF WalkEdges
<1>10. WalkFinished' /\ WalkRanked'
  BY <1>3, <1>7 DEF WalkFinished, WalkRanked
<1> QED
  BY <1>6, <1>8, <1>9, <1>10 DEF Walked

\* A dependency on a package that was finished before.
LEMMA KnownWalked ==
    ASSUME PackagesTyped, Resolving, Walked, NEW n \in Innermost.todo, NEW d, d = Innermost.deps[n],
           nodes[d] # NoLock, nodes[d].name = n, d \notin Visiting,
           frames' = Dismiss(n), UNCHANGED <<manifests, nodes, locked>>
    PROVE  Walked'
<1>1. PICK L, f : L = Len(frames) /\ f = Dismiss(n)
  OBVIOUS
<1>2. /\ L \in Nat \ {0} /\ Innermost = frames[L] /\ L \in 1..L
  BY <1>1, WalkTypes
<1>3. /\ Len(f) = L
      /\ \A i \in 1..L : SameVisit(f[i], frames[i])
      /\ \A i \in 1..L : \A k \in frames[i].todo : k \in f[i].todo \/ (i = L /\ k = n)
  <2>1. Dismissed(f, n)
    BY <1>1, DismissFields DEF PackagesTyped
  <2> QED
    BY <1>1, <2>1 DEF Dismissed
<1>dirs. \A i \in 1..L : f[i].dir = frames[i].dir
  BY <1>3 DEF SameVisit
<1>4. frames' = f /\ Len(frames') = L
  BY <1>1, <1>3
<1>5. d \in Dirs /\ n \in Declared(manifests[frames[L].dir]) /\ d = manifests[frames[L].dir].deps[n]
  BY <1>2, WalkLeads
<1>6. Visiting' = Visiting
  <2>1. \A i \in 2..L : i \in 1..L
    BY <1>2
  <2>2. \A i \in 2..L : f[i].dir = frames[i].dir
    BY <1>dirs, <2>1
  <2> QED
    BY <1>1, <1>4, <2>2 DEF Visiting
<1>7. Seen' = Seen /\ Finished' = Finished
  BY <1>6 DEF Seen, Finished
<1>8. BelowOf' = BelowOf /\ Needed' = Needed
  BY SameBelow
<1>9. d \in Finished
  BY <1>5 DEF Finished, Seen
<1>10. WalkFrames'
  <2>1. f[1].project = manifests[Project] /\ HasManifest(manifests[Project])
    <3>1. SameVisit(f[1], frames[1]) /\ frames[1] \in ProjectFrames
      BY <1>1, <1>2, <1>3 DEF PackagesTyped, FramesTyped, Resolving
    <3> QED
      BY <3>1 DEF Walked, WalkFrames, SameVisit
  <2>2. ASSUME NEW i \in 1..L
        PROVE  /\ HasManifest(manifests[f[i].dir]) /\ f[i].deps = manifests[f[i].dir].deps
               /\ f[i].todo \subseteq Declared(manifests[f[i].dir])
    <3>1. SameVisit(f[i], frames[i])
      BY <1>3
    <3>2. /\ HasManifest(manifests[frames[i].dir])
          /\ frames[i].deps = manifests[frames[i].dir].deps
          /\ frames[i].todo \subseteq Declared(manifests[frames[i].dir])
      BY <1>1 DEF Walked, WalkFrames
    <3> QED
      BY <3>1, <3>2 DEF SameVisit
  <2> QED
    BY <1>4, <2>1, <2>2 DEF WalkFrames
<1>11. WalkPath'
  BY <1>1, <1>dirs, <1>4, <1>8 DEF Walked, WalkPath
<1>12. WalkEdges'
  <2>1. ASSUME NEW i \in 1..L, NEW k \in Declared(manifests[f[i].dir]) \ f[i].todo,
               NEW e, e = manifests[f[i].dir].deps[k]
        PROVE  /\ e \in Seen /\ nodes[e].name = k
               /\ e \in Finished \/ (i < L /\ e = f[i + 1].dir)
    <3>1. CASE i = L /\ k = n
      BY <1>5, <1>9, <1>dirs, <2>1, <3>1 DEF Finished
    <3>2. CASE ~(i = L /\ k = n)
      <4>1. k \in Handled(i) /\ e = manifests[frames[i].dir].deps[k]
        BY <1>3, <1>dirs, <2>1, <3>2 DEF Handled
      <4>2. /\ e \in Seen /\ nodes[e].name = k
            /\ e \in Finished \/ (i < L /\ e = frames[i + 1].dir)
        BY <1>1, <4>1 DEF Walked, WalkEdges
      <4>3. i < L => f[i + 1].dir = frames[i + 1].dir
        <5>1. i < L => i + 1 \in 1..L
          BY <1>2
        <5> QED
          BY <1>dirs, <5>1
      <4> QED
        BY <4>2, <4>3
    <3> QED
      BY <3>1, <3>2
  <2> QED
    BY <1>4, <1>7, <2>1 DEF WalkEdges, Handled
<1>13. WalkNodes' /\ WalkDistinct'
  BY <1>7, <1>8 DEF Walked, WalkNodes, WalkDistinct
<1>14. WalkFinished'
  <2>1. locked' = {nodes'[e] : e \in Finished}
    BY DEF Walked, WalkFinished
  <2> QED
    BY <1>7, <1>8, <2>1 DEF Walked, WalkFinished
<1>15. WalkRanked'
  BY DEF Walked, WalkRanked
<1> QED
  BY <1>10, <1>11, <1>12, <1>13, <1>14, <1>15 DEF Walked

\* A dependency on a package that no visit has seen.
LEMMA NewWalked ==
    ASSUME PackagesTyped, Resolving, Walked, NEW n \in Innermost.todo, NEW d, d = Innermost.deps[n],
           VisitNew(n, d), NEW m, m = manifests[d], ~Refused(n, m), UNCHANGED manifests
    PROVE  Walked'
<1>1. PICK L, f, r : /\ L = Len(frames) /\ f = Dismiss(n)
                     /\ r = [dir |-> d, deps |-> m.deps, todo |-> Declared(m)]
  OBVIOUS
<1>0. /\ nodes[d] = NoLock /\ nodes' = [nodes EXCEPT ![d] = Locked(d, m)] /\ locked' = locked
      /\ frames' = Append(f, r)
  BY <1>1 DEF VisitNew
<1>2. /\ L \in Nat \ {0} /\ Innermost = frames[L] /\ L \in 1..L /\ frames[1].dir = Project
      /\ \A i \in 1..L : /\ frames[i].dir \in Owners
                         /\ i # 1 => frames[i].dir \in Seen /\ frames[i].dir \in Visiting
      /\ Visiting \subseteq Seen
  BY <1>1, WalkTypes
<1>3. /\ f \in Seq(Frames) /\ Len(f) = L
      /\ \A i \in 1..L : SameVisit(f[i], frames[i])
      /\ \A i \in 1..L : \A k \in frames[i].todo : k \in f[i].todo \/ (i = L /\ k = n)
  <2>1. Dismissed(f, n)
    BY <1>1, DismissFields DEF PackagesTyped
  <2> QED
    BY <1>1, <2>1 DEF Dismissed
<1>4. r.dir = d /\ r.deps = m.deps /\ r.todo = Declared(m)
  BY <1>1
<1>5. /\ frames' = Append(f, r) /\ Len(frames') = L + 1
      /\ \A i \in 1..(L + 1) : frames'[i] = IF i = L + 1 THEN r ELSE f[i]
  BY <1>0, <1>1, <1>2, <1>3
<1>6. /\ d \in Dirs /\ d \in Needed /\ n \in Declared(manifests[frames[L].dir])
      /\ d = manifests[frames[L].dir].deps[n]
      /\ \A i \in 1..L : d \in BelowOf[frames[i].dir]
  BY <1>1, <1>2, WalkLeads
<1>7. /\ HasManifest(m) /\ m.name = n /\ m.name \notin Reserved \cup {manifests[Project].name}
      /\ \A e \in Seen : nodes[e].name # m.name /\ nodes[e].root # m.root
  BY DEF Refused, Seen, Walked, WalkFrames
<1>8. PICK x : x = Locked(d, m)
  OBVIOUS
<1>9. x.name = m.name /\ x # NoLock
  BY <1>8, LockedFields
<1>10. \A e \in Dirs : nodes'[e] = IF e = d THEN x ELSE nodes[e]
  BY <1>0, <1>6, <1>8 DEF PackagesTyped
<1>11. d \notin Seen /\ Seen' = Seen \cup {d}
  BY <1>0, <1>6, <1>9, <1>10 DEF Seen
<1>12. Visiting' = Visiting \cup {d}
  <2>0. \A i \in 2..L : i \in 1..L /\ i \in 1..(L + 1) /\ i # L + 1
    BY <1>2
  <2>1. ASSUME NEW i \in 2..(L + 1)
        PROVE  frames'[i].dir = IF i = L + 1 THEN d ELSE frames[i].dir
    <3>1. CASE i = L + 1
      BY <1>2, <1>4, <1>5, <3>1
    <3>2. CASE i # L + 1
      <4>1. i \in 2..L
        BY <1>2, <3>2
      <4>2. frames'[i] = f[i] /\ SameVisit(f[i], frames[i])
        BY <1>3, <1>5, <2>0, <4>1
      <4> QED
        BY <3>2, <4>2 DEF SameVisit
    <3> QED
      BY <3>1, <3>2
  <2>2. L + 1 \in 2..(L + 1) /\ \A i \in 2..L : i \in 2..(L + 1) /\ i # L + 1
    BY <1>2
  <2>3. \A i \in 2..(L + 1) : i = L + 1 \/ i \in 2..L
    BY <1>2
  <2>4. ASSUME NEW e \in Visiting'
        PROVE  e \in Visiting \cup {d}
    <3>1. PICK i \in 2..(L + 1) : e = frames'[i].dir
      BY <1>5, <2>4 DEF Visiting
    <3>2. i # L + 1 => i \in 2..L /\ e = frames[i].dir
      BY <2>1, <2>3, <3>1
    <3>3. i = L + 1 => e = d
      BY <2>1, <3>1
    <3> QED
      BY <1>1, <3>2, <3>3 DEF Visiting
  <2>5. ASSUME NEW e \in Visiting \cup {d}
        PROVE  e \in Visiting'
    <3>1. PICK i \in 2..(L + 1) : frames'[i].dir = e
      <4>1. CASE e = d
        BY <2>1, <2>2, <4>1
      <4>2. CASE e \in Visiting
        <5>1. PICK i \in 2..L : frames[i].dir = e
          BY <1>1, <4>2 DEF Visiting
        <5> QED
          BY <2>1, <2>2, <5>1
      <4> QED
        BY <2>5, <4>1, <4>2
    <3> QED
      BY <1>5, <3>1 DEF Visiting
  <2> QED
    BY <2>4, <2>5
<1>13. Finished' = Finished
  BY <1>11, <1>12 DEF Finished
<1>14. BelowOf' = BelowOf /\ Needed' = Needed
  BY SameBelow
<1>15. \A e \in Seen : nodes'[e] = nodes[e]
  BY <1>10, <1>11 DEF Seen
<1>16. nodes'[d] = x
  BY <1>6, <1>10
<1>17. ASSUME NEW i \in 1..(L + 1)
       PROVE  /\ i = L + 1 => frames'[i] = r
              /\ i # L + 1 => /\ i \in 1..L /\ SameVisit(frames'[i], frames[i])
                              /\ \A k \in frames[i].todo : k \in frames'[i].todo \/ (i = L /\ k = n)
  <2>1. i # L + 1 => i \in 1..L
    BY <1>2
  <2>2. frames'[i] = IF i = L + 1 THEN r ELSE f[i]
    BY <1>5
  <2>3. CASE i # L + 1
    BY <1>3, <2>1, <2>2, <2>3
  <2> QED
    BY <2>2, <2>3
<1>dirs. ASSUME NEW i \in 1..(L + 1)
      PROVE  frames'[i].dir = IF i = L + 1 THEN d ELSE frames[i].dir
  BY <1>4, <1>17 DEF SameVisit
<1>18. WalkFrames'
  <2>1. frames'[1].project = manifests[Project] /\ HasManifest(manifests[Project])
    <3>1. frames'[1] = f[1] /\ SameVisit(f[1], frames[1]) /\ frames[1] \in ProjectFrames
      BY <1>1, <1>2, <1>3, <1>5 DEF PackagesTyped, FramesTyped, Resolving
    <3> QED
      BY <3>1 DEF Walked, WalkFrames, SameVisit
  <2>2. ASSUME NEW i \in 1..(L + 1)
        PROVE  /\ HasManifest(manifests[frames'[i].dir])
               /\ frames'[i].deps = manifests[frames'[i].dir].deps
               /\ frames'[i].todo \subseteq Declared(manifests[frames'[i].dir])
    <3>1. CASE i = L + 1
      <4>1. frames'[i] = r
        BY <1>17, <3>1
      <4> QED
        BY <1>4, <1>7, <4>1
    <3>2. CASE i # L + 1
      <4>1. i \in 1..L /\ SameVisit(frames'[i], frames[i])
        BY <1>17, <3>2
      <4>2. /\ HasManifest(manifests[frames[i].dir])
            /\ frames[i].deps = manifests[frames[i].dir].deps
            /\ frames[i].todo \subseteq Declared(manifests[frames[i].dir])
        BY <1>1, <4>1 DEF Walked, WalkFrames
      <4> QED
        BY <4>1, <4>2 DEF SameVisit
    <3> QED
      BY <3>1, <3>2
  <2> QED
    BY <1>5, <2>1, <2>2 DEF WalkFrames
<1>19. WalkPath'
  <2>1. ASSUME NEW i \in 1..(L + 1), NEW j \in 1..(L + 1), i < j
        PROVE  frames'[i].dir # frames'[j].dir /\ frames'[j].dir \in BelowOf[frames'[i].dir]
    <3>1. i # L + 1
      BY <1>2, <2>1
    <3>2. CASE j = L + 1
      <4>1. i \in 1..L /\ frames'[i].dir = frames[i].dir /\ frames'[j].dir = d
        BY <1>dirs, <1>17, <3>1, <3>2
      <4>2. frames[i].dir # d
        BY <1>2, <1>6, <1>11, <4>1, PackagesAssumption
      <4> QED
        BY <1>6, <4>1, <4>2
    <3>3. CASE j # L + 1
      <4>1. /\ i \in 1..L /\ frames'[i].dir = frames[i].dir
            /\ j \in 1..L /\ frames'[j].dir = frames[j].dir
        BY <1>dirs, <1>17, <3>1, <3>3
      <4> QED
        BY <1>1, <2>1, <4>1 DEF Walked, WalkPath
    <3> QED
      BY <3>2, <3>3
  <2> QED
    BY <1>5, <1>14, <2>1 DEF WalkPath
<1>20. WalkEdges'
  <2>1. ASSUME NEW i \in 1..(L + 1), NEW k \in Declared(manifests[frames'[i].dir]) \ frames'[i].todo,
               NEW e, e = manifests[frames'[i].dir].deps[k]
        PROVE  /\ e \in Seen' /\ nodes'[e].name = k
               /\ e \in Finished \/ (i < L + 1 /\ e = frames'[i + 1].dir)
    <3>1. i # L + 1
      <4>1. i = L + 1 => frames'[i] = r
        BY <1>17
      <4> QED
        BY <1>4, <2>1, <4>1
    <3>0. frames'[i].dir = frames[i].dir
      BY <1>dirs, <3>1
    <3>2. i \in 1..L /\ i < L + 1 /\ i + 1 \in 1..(L + 1)
      BY <1>2, <3>1
    <3>3. CASE i = L /\ k = n
      <4>1. e = d /\ frames'[i + 1].dir = d
        BY <1>6, <1>dirs, <2>1, <3>0, <3>2, <3>3
      <4> QED
        BY <1>7, <1>9, <1>11, <1>16, <3>2, <3>3, <4>1
    <3>4. CASE ~(i = L /\ k = n)
      <4>1. k \in Handled(i) /\ e = manifests[frames[i].dir].deps[k]
        BY <1>17, <2>1, <3>0, <3>1, <3>4 DEF Handled
      <4>2. /\ e \in Seen /\ nodes[e].name = k
            /\ e \in Finished \/ (i < L /\ e = frames[i + 1].dir)
        BY <1>1, <3>2, <4>1 DEF Walked, WalkEdges
      <4>3. i < L => frames'[i + 1].dir = frames[i + 1].dir
        <5>1. i < L => i + 1 # L + 1
          BY <1>2, <3>2
        <5> QED
          BY <1>dirs, <3>2, <5>1
      <4> QED
        BY <1>11, <1>15, <3>2, <4>2, <4>3
    <3> QED
      BY <3>3, <3>4
  <2>2. Len(frames') = L + 1 /\ manifests' = manifests
    BY <1>5
  <2>3. ASSUME NEW i \in 1..Len(frames'), NEW k \in Handled(i)',
               NEW e, e = manifests'[frames'[i].dir].deps[k]
        PROVE  /\ e \in Seen' /\ nodes'[e].name = k
               /\ e \in Finished' \/ (i < Len(frames') /\ e = frames'[i + 1].dir)
    <3>1. i \in 1..(L + 1) /\ e = manifests[frames'[i].dir].deps[k]
      BY <2>2, <2>3
    <3>2. k \in Declared(manifests[frames'[i].dir]) \ frames'[i].todo
      BY <2>2 DEF Handled
    <3>3. /\ e \in Seen' /\ nodes'[e].name = k
          /\ e \in Finished \/ (i < L + 1 /\ e = frames'[i + 1].dir)
      BY <2>1, <3>1, <3>2
    <3> QED
      BY <1>13, <2>2, <3>3
  <2> QED
    BY <2>3 DEF WalkEdges
<1>21. WalkNodes'
  <2>1. ASSUME NEW e \in Seen'
        PROVE  /\ nodes'[e] = Locked(e, manifests[e]) /\ HasManifest(manifests[e])
               /\ manifests[e].name \notin Reserved \cup {manifests[Project].name} /\ e \in Needed
    <3>1. CASE e = d
      BY <1>6, <1>7, <1>8, <1>16, <3>1
    <3>2. CASE e \in Seen
      BY <1>15, <3>2 DEF Walked, WalkNodes
    <3> QED
      BY <1>11, <3>1, <3>2
  <2> QED
    BY <1>14, <2>1 DEF WalkNodes
<1>22. WalkDistinct'
  <2>1. ASSUME NEW e \in Seen
        PROVE  manifests[e].name # m.name /\ manifests[e].root # m.root
    <3>1. PICK y : y = Locked(e, manifests[e])
      OBVIOUS
    <3>2. nodes[e] = y /\ y.name = manifests[e].name /\ y.root = manifests[e].root
      BY <3>1, LockedFields DEF Walked, WalkNodes
    <3> QED
      BY <1>7, <3>2
  <2> QED
    BY <1>11, <2>1 DEF Walked, WalkDistinct
<1>23. WalkFinished'
  <2>1. \A e \in Finished : nodes'[e] = nodes[e]
    BY <1>15 DEF Finished
  <2>2. locked' = {nodes'[e] : e \in Finished}
    BY <1>0, <2>1 DEF Walked, WalkFinished
  <2> QED
    BY <1>13, <1>14, <2>1, <2>2 DEF Walked, WalkFinished
<1>24. WalkRanked'
  BY <1>0 DEF Walked, WalkRanked
<1> QED
  BY <1>18, <1>19, <1>20, <1>21, <1>22, <1>23, <1>24 DEF Walked

\* The innermost visit ends: its package is finished, and since all that is
\* finished is closed, it does not depend on itself.
LEMMA CompleteWalked ==
    ASSUME PackagesTyped, Walked, CompleteVisit
    PROVE  Walked'
<1>1. PICK f, L, d : /\ f = SubSeq(frames, 1, Len(frames) - 1) /\ L = Len(frames) - 1
                     /\ d = Innermost.dir
  OBVIOUS
<1>2. /\ frames' = f /\ locked' = locked \cup {nodes[d]} /\ UNCHANGED <<manifests, nodes>>
      /\ Innermost.todo = {} /\ Len(frames) > 1 /\ Resolving
  BY <1>1 DEF CompleteVisit, Resolving, PackagesTyped, FramesTyped
<1>3. /\ L \in Nat \ {0} /\ f \in Seq(Frames) /\ Len(f) = L
      /\ \A i \in 1..L : f[i] = frames[i]
      /\ Innermost = frames[L + 1] /\ d \in Dirs /\ nodes[d] # NoLock
  BY <1>1, <1>2, PoppedFields
<1>4. /\ Len(frames) = L + 1 /\ L + 1 \in 1..(L + 1)
      /\ \A i \in 1..L : i \in 1..(L + 1) /\ i < L + 1 /\ i # L + 1
  BY <1>1, <1>2, <1>3
<1>5. /\ \A i \in 1..(L + 1) : i # 1 => frames[i].dir \in Visiting
      /\ Visiting \subseteq Seen /\ d \in Visiting /\ d \in Seen
  <2>1. /\ \A i \in 1..(L + 1) : i # 1 => frames[i].dir \in Visiting
        /\ Visiting \subseteq Seen
    BY <1>2, <1>4, WalkTypes
  <2>2. L + 1 # 1
    BY <1>3
  <2> QED
    BY <1>1, <1>3, <1>4, <2>1, <2>2
<1>6. Visiting' = Visiting \ {d}
  <2>1. \A i \in 2..L : i \in 1..L /\ i \in 2..(L + 1)
    BY <1>3
  <2>2. \A i \in 2..(L + 1) : i = L + 1 \/ i \in 2..L
    BY <1>3
  <2>3. \A i \in 1..L : frames[i].dir # d
    BY <1>1, <1>3, <1>4 DEF Walked, WalkPath
  <2>4. Visiting = {frames[i].dir : i \in 2..(L + 1)} /\ Visiting' = {frames'[i].dir : i \in 2..L}
    BY <1>2, <1>3, <1>4 DEF Visiting
  <2>5. \A i \in 2..L : frames'[i].dir = frames[i].dir
    BY <1>2, <1>3, <2>1
  <2>6. ASSUME NEW e \in Visiting'
        PROVE  e \in Visiting \ {d}
    BY <2>1, <2>3, <2>4, <2>5
  <2>7. ASSUME NEW e \in Visiting \ {d}
        PROVE  e \in Visiting'
    BY <1>1, <1>3, <2>2, <2>4, <2>5
  <2> QED
    BY <2>6, <2>7
<1>7. Seen' = Seen /\ Finished' = Finished \cup {d} /\ d \notin Finished
  <2>1. Seen' = Seen
    BY <1>2 DEF Seen
  <2> QED
    BY <1>5, <1>6, <2>1 DEF Finished
<1>8. BelowOf' = BelowOf /\ Needed' = Needed
  BY <1>2, SameBelow
<1>9. HasManifest(manifests[d]) /\ ManifestsTyped /\ d \in Owners
  BY <1>1, <1>3, <1>4 DEF Walked, WalkFrames, PackagesTyped, Owners
<1>10. ASSUME NEW n \in Declared(manifests[d]), NEW e, e = manifests[d].deps[n]
       PROVE  e \in Finished /\ nodes[e].name = n
  <2>1. n \in Handled(L + 1)
    BY <1>1, <1>2, <1>3 DEF Handled
  <2>2. e = manifests[frames[L + 1].dir].deps[n] /\ ~(L + 1 < L + 1)
    BY <1>1, <1>3, <1>10
  <2>3. /\ nodes[e].name = n
        /\ e \in Finished \/ (L + 1 < Len(frames) /\ e = frames[L + 2].dir)
    BY <1>4, <2>1, <2>2 DEF Walked, WalkEdges
  <2> QED
    BY <1>4, <2>2, <2>3
<1>11. d \notin BelowOf[d]
  <2>1. Finished \in SUBSET Dirs /\ DependsOn(d) \subseteq Finished
    BY <1>10 DEF Finished, Seen, DependsOn
  <2>2. Closed(Finished)
    BY DEF Walked, WalkFinished, Closed, DependsOn
  <2>3. PICK D \in SUBSET Dirs : D = DependsOn(d)
    BY <1>9, Leads
  <2>4. Below(D) \subseteq Finished
    BY <1>9, <2>1, <2>2, <2>3, BelowLeast
  <2> QED
    BY <1>7, <1>9, <2>3, <2>4 DEF BelowOf
<1>12. WalkFrames'
  <2>1. frames'[1] = frames[1] /\ Len(frames') = L /\ manifests' = manifests
    BY <1>2, <1>3
  <2>2. ASSUME NEW i \in 1..L
        PROVE  /\ HasManifest(manifests[frames'[i].dir])
               /\ frames'[i].deps = manifests[frames'[i].dir].deps
               /\ frames'[i].todo \subseteq Declared(manifests[frames'[i].dir])
    <3>1. frames'[i] = frames[i] /\ i \in 1..Len(frames)
      BY <1>2, <1>3, <1>4
    <3> QED
      BY <3>1 DEF Walked, WalkFrames
  <2> QED
    BY <2>1, <2>2 DEF Walked, WalkFrames
<1>13. WalkPath'
  <2>1. \A i \in 1..L : frames'[i].dir = frames[i].dir /\ i \in 1..Len(frames)
    BY <1>2, <1>3, <1>4
  <2> QED
    BY <1>2, <1>3, <1>8, <2>1 DEF Walked, WalkPath
<1>14. WalkEdges'
  <2>1. ASSUME NEW i \in 1..L, NEW k \in Declared(manifests[frames'[i].dir]) \ frames'[i].todo,
               NEW e, e = manifests[frames'[i].dir].deps[k]
        PROVE  /\ e \in Seen /\ nodes[e].name = k
               /\ e \in Finished \cup {d} \/ (i < L /\ e = frames'[i + 1].dir)
    <3>1. frames'[i] = frames[i] /\ i \in 1..Len(frames)
      BY <1>2, <1>3, <1>4
    <3>2. k \in Handled(i) /\ e = manifests[frames[i].dir].deps[k]
      BY <2>1, <3>1 DEF Handled
    <3>3. /\ e \in Seen /\ nodes[e].name = k
          /\ e \in Finished \/ (i < Len(frames) /\ e = frames[i + 1].dir)
      BY <3>1, <3>2 DEF Walked, WalkEdges
    <3>4. CASE i = L
      BY <1>1, <1>3, <3>3, <3>4
    <3>5. CASE i # L
      <4>1. i < L /\ i + 1 \in 1..L
        BY <1>3, <3>5
      <4>2. frames'[i + 1] = frames[i + 1]
        BY <1>2, <1>3, <4>1
      <4> QED
        BY <3>3, <4>1, <4>2
    <3> QED
      BY <3>4, <3>5
  <2>2. Len(frames') = L /\ manifests' = manifests /\ nodes' = nodes
    BY <1>2, <1>3
  <2> QED
    BY <1>7, <2>1, <2>2 DEF WalkEdges, Handled
<1>15. WalkNodes' /\ WalkDistinct'
  BY <1>2, <1>7, <1>8 DEF Walked, WalkNodes, WalkDistinct
<1>16. WalkFinished'
  <2>1. locked' = {nodes[e] : e \in Finished \cup {d}}
    BY <1>2 DEF Walked, WalkFinished
  <2>2. ASSUME NEW e \in Finished \cup {d}
        PROVE  /\ e \notin BelowOf[e]
               /\ \A n \in Declared(manifests[e]) :
                    LET w == manifests[e].deps[n] IN w \in Finished \cup {d} /\ nodes[w].name = n
    BY <1>10, <1>11 DEF Walked, WalkFinished
  <2> QED
    BY <1>2, <1>7, <1>8, <2>1, <2>2 DEF WalkFinished
<1>17. WalkRanked'
  <2>1. PICK x : x = nodes[d]
    OBVIOUS
  <2>2. locked' = locked \cup {x}
    BY <1>2, <2>1
  <2>3. x.deps \subseteq NamesIn(locked)
    <3>1. x.deps = Declared(manifests[d])
      <4>1. x = Locked(d, manifests[d])
        BY <1>5, <2>1 DEF Walked, WalkNodes
      <4> QED
        BY <4>1, LockedFields
    <3>2. ASSUME NEW n \in Declared(manifests[d])
          PROVE  n \in NamesIn(locked)
      <4>1. PICK e : e = manifests[d].deps[n]
        OBVIOUS
      <4>2. e \in Finished /\ nodes[e].name = n
        BY <1>10, <4>1
      <4>3. nodes[e] \in locked
        BY <4>2 DEF Walked, WalkFinished
      <4> QED
        BY <4>2, <4>3 DEF NamesIn
    <3> QED
      BY <3>1, <3>2
  <2>4. ASSUME NEW R \in SUBSET (locked \cup {x}), Ready(locked \cup {x}, R) \subseteq R
        PROVE  R = locked \cup {x}
    <3>1. PICK Q \in SUBSET locked : Q = R \cap locked
      OBVIOUS
    <3>2. Ready(locked, Q) \subseteq Q
      BY <2>4, <3>1 DEF Ready, NamesIn
    <3>3. Q = locked
      BY <3>2 DEF Walked, WalkRanked
    <3>4. locked \subseteq R
      BY <3>1, <3>3
    <3>5. x \in R
      BY <2>3, <2>4, <3>4 DEF Ready, NamesIn
    <3> QED
      BY <3>4, <3>5
  <2> QED
    BY <2>2, <2>4 DEF WalkRanked
<1> QED
  BY <1>12, <1>13, <1>14, <1>15, <1>16, <1>17 DEF Walked

\* The walk is over: what it locked is sound, is what the project needs, and
\* passes the validation of the lock.
LEMMA WalkedLock ==
    ASSUME PackagesTyped, Walked, Len(frames) = 1, Innermost.todo = {},
           NEW lock, lock = [project |-> Innermost.project, packages |-> locked]
    PROVE  Sound /\ lock = TheLock /\ validateLockfile(lock)
<1>1. Resolving /\ Innermost = frames[1] /\ frames[1].dir = Project /\ 1 \in 1..Len(frames)
  <2>1. Resolving
    BY DEF Resolving
  <2>2. frames[1].dir = Project
    BY <2>1, WalkTypes
  <2> QED
    BY <2>1, <2>2 DEF Innermost
<1>2. Visiting = {} /\ Finished = Seen
  <2>1. Visiting = {}
    BY DEF Visiting
  <2> QED
    BY <2>1 DEF Finished
<1>3. /\ lock.project = manifests[Project] /\ lock.packages = locked
      /\ ManifestsTyped /\ HasManifest(manifests[Project]) /\ Project \in Owners
  BY <1>1 DEF Walked, WalkFrames, PackagesTyped, Owners
<1>4. ASSUME NEW n \in Declared(manifests[Project])
      PROVE  manifests[Project].deps[n] \in Seen /\ nodes[manifests[Project].deps[n]].name = n
  <2>1. n \in Handled(1)
    BY <1>1 DEF Handled
  <2> QED
    BY <1>1, <2>1 DEF Walked, WalkEdges
<1>5. ASSUME NEW d \in Seen
      PROVE  /\ d \in Dirs /\ nodes[d] = Locked(d, manifests[d])
             /\ nodes[d].name = manifests[d].name /\ nodes[d].path = d
             /\ nodes[d].root = manifests[d].root /\ nodes[d].deps = Declared(manifests[d])
  <2>1. PICK m, x : m = manifests[d] /\ x = Locked(d, m)
    OBVIOUS
  <2>2. x.name = m.name /\ x.path = d /\ x.root = m.root /\ x.deps = Declared(m)
    BY <2>1, LockedFields
  <2>3. x = nodes[d]
    BY <2>1 DEF Walked, WalkNodes
  <2> QED
    BY <2>1, <2>2, <2>3 DEF Seen
<1>6. Needed = Seen
  <2>1. Seen \in SUBSET Dirs /\ DependsOn(Project) \subseteq Seen
    BY <1>4 DEF Seen, DependsOn
  <2>2. Closed(Seen)
    BY <1>2 DEF Walked, WalkFinished, Closed, DependsOn
  <2>3. PICK D \in SUBSET Dirs : D = DependsOn(Project)
    BY <1>3, Leads
  <2>4. Below(D) \subseteq Seen
    BY <1>3, <2>1, <2>2, <2>3, BelowLeast
  <2>5. Seen \subseteq Needed
    BY DEF Walked, WalkNodes
  <2> QED
    BY <2>3, <2>4, <2>5 DEF Needed
<1>7. ASSUME NEW o \in Needed \cup {Project}, NEW n \in Declared(manifests[o]),
             NEW e, e = manifests[o].deps[n]
      PROVE  e \in Seen /\ nodes[e].name = n
  <2>1. CASE o \in Seen
    BY <1>2, <1>7, <2>1 DEF Walked, WalkFinished
  <2>2. CASE o = Project
    BY <1>4, <1>7, <2>2
  <2> QED
    BY <1>6, <2>1, <2>2
<1>8. Sound
  <2>1. ASSUME NEW d \in Needed
        PROVE  /\ HasManifest(manifests[d])
               /\ manifests[d].name \notin Reserved \cup {manifests[Project].name}
               /\ d \notin Below(DependsOn(d))
    <3>1. d \notin BelowOf[d] /\ d \in Owners
      BY <1>2, <1>6 DEF Walked, WalkFinished, Owners, Seen
    <3> QED
      BY <1>6, <3>1 DEF Walked, WalkNodes, BelowOf
  <2>2. ASSUME NEW o \in Needed \cup {Project}, NEW n \in Declared(manifests[o])
        PROVE  manifests[manifests[o].deps[n]].name = n
    <3>1. PICK e : e = manifests[o].deps[n]
      OBVIOUS
    <3>2. e \in Seen /\ nodes[e].name = n
      BY <1>7, <3>1
    <3>3. nodes[e].name = manifests[e].name
      BY <1>5, <3>2
    <3> QED
      BY <3>1, <3>2, <3>3
  <2>3. \A d, e \in Needed : d # e => /\ manifests[d].name # manifests[e].name
                                       /\ manifests[d].root # manifests[e].root
    BY <1>6 DEF Walked, WalkDistinct
  <2> QED
    BY <2>1, <2>2, <2>3 DEF Sound
<1>9. locked = {nodes[d] : d \in Seen} /\ locked = {Locked(d, manifests[d]) : d \in Needed}
  <2>1. locked = {nodes[d] : d \in Seen}
    BY <1>2 DEF Walked, WalkFinished
  <2> QED
    BY <1>5, <1>6, <2>1
<1>10. lock = TheLock
  <2>1. Innermost.project = manifests[Project]
    BY <1>1 DEF Walked, WalkFrames
  <2> QED
    BY <1>9, <2>1 DEF TheLock
<1>11. validateLockfile(lock)
  <2>1. \A p \in locked : p.name \notin Reserved \cup {manifests[Project].name}
    <3>1. \A d \in Seen : manifests[d].name \notin Reserved \cup {manifests[Project].name}
      BY DEF Walked, WalkNodes
    <3> QED
      BY <1>5, <1>9, <3>1
  <2>2. NamesIn(locked) \cap (Reserved \cup {lock.project.name}) = {}
    BY <1>3, <2>1 DEF NamesIn
  <2>3. \A p, q \in locked : p.name = q.name \/ p.path = q.path \/ p.root = q.root => p = q
    <3>1. \A d, e \in Seen :
            nodes[d].name = nodes[e].name \/ nodes[d].path = nodes[e].path \/ nodes[d].root = nodes[e].root
              => nodes[d] = nodes[e]
      BY <1>5 DEF Walked, WalkDistinct
    <3> QED
      BY <1>9, <3>1
  <2>4. ASSUME NEW o \in Needed \cup {Project}
        PROVE  Declared(manifests[o]) \subseteq NamesIn(locked)
    <3>1. ASSUME NEW n \in Declared(manifests[o])
          PROVE  n \in NamesIn(locked)
      <4>1. PICK e : e = manifests[o].deps[n]
        OBVIOUS
      <4>2. e \in Seen /\ nodes[e].name = n
        BY <1>7, <4>1
      <4> QED
        BY <1>9, <4>2 DEF NamesIn
    <3> QED
      BY <3>1
  <2>5. \A p \in locked : p.deps \subseteq NamesIn(locked)
    <3>1. \A d \in Seen : nodes[d].deps \subseteq NamesIn(locked)
      BY <1>5, <1>6, <2>4
    <3> QED
      BY <1>9, <3>1
  <2>6. Declared(lock.project) \subseteq NamesIn(locked)
    BY <1>3, <2>4
  <2>7. Visited(locked) = locked
    <3>1. IsFiniteSet(locked) /\ \A R \in SUBSET locked : Ready(locked, R) \subseteq R => R = locked
      BY DEF PackagesTyped, Walked, WalkRanked
    <3> QED
      BY <3>1, RankedVisited
  <2> QED
    BY <1>3, <2>2, <2>3, <2>5, <2>6, <2>7, ValidLock
<1> QED
  BY <1>8, <1>10, <1>11

\* What the walk refuses is not sound.
LEMMA KnownRefused ==
    ASSUME PackagesTyped, Resolving, Walked, NEW n \in Innermost.todo, NEW d, d = Innermost.deps[n],
           nodes[d] # NoLock, nodes[d].name # n \/ d \in Visiting
    PROVE  ~Sound
<1>1. PICK o : o = Innermost.dir
  OBVIOUS
<1>2. /\ o \in Needed \cup {Project} /\ n \in Declared(manifests[o]) /\ d = manifests[o].deps[n]
      /\ d \in Dirs /\ d \in Owners /\ d \in Needed
      /\ \A i \in 1..Len(frames) : d \in BelowOf[frames[i].dir]
  BY <1>1, WalkLeads
<1>3. d \in Seen
  BY <1>2 DEF Seen
<1>4. CASE nodes[d].name # n
  <2>1. PICK m, x : m = manifests[d] /\ x = Locked(d, m)
    OBVIOUS
  <2>2. x.name = m.name
    BY <2>1, LockedFields
  <2>3. manifests[d].name # n
    BY <1>3, <1>4, <2>1, <2>2 DEF Walked, WalkNodes
  <2> QED
    BY <1>2, <2>3 DEF Sound
<1>5. CASE d \in Visiting
  <2>1. PICK i \in 2..Len(frames) : frames[i].dir = d
    BY <1>5 DEF Visiting
  <2>2. i \in 1..Len(frames)
    BY <2>1 DEF PackagesTyped, FramesTyped
  <2>3. d \in BelowOf[d]
    BY <1>2, <2>1, <2>2
  <2> QED
    BY <1>2, <2>3 DEF Sound, BelowOf
<1> QED
  BY <1>4, <1>5

LEMMA NewRefused ==
    ASSUME PackagesTyped, Resolving, Walked, NEW n \in Innermost.todo, NEW d, d = Innermost.deps[n],
           nodes[d] = NoLock, Refused(n, manifests[d])
    PROVE  ~Sound
<1>1. PICK o : o = Innermost.dir
  OBVIOUS
<1>2. /\ o \in Needed \cup {Project} /\ n \in Declared(manifests[o]) /\ d = manifests[o].deps[n]
      /\ d \in Dirs /\ d \in Needed
  BY <1>1, WalkLeads
<1>3. CASE ~HasManifest(manifests[d])
  BY <1>2, <1>3 DEF Sound
<1>4. CASE manifests[d].name # n
  BY <1>2, <1>4 DEF Sound
<1>5. CASE manifests[d].name \in Reserved \/ manifests[d].name = frames[1].project.name
  BY <1>2, <1>5 DEF Sound, Walked, WalkFrames
<1>6. CASE \E e \in Dirs : /\ nodes[e] # NoLock
                           /\ nodes[e].name = manifests[d].name \/ nodes[e].root = manifests[d].root
  <2>1. PICK e \in Dirs : /\ nodes[e] # NoLock
                          /\ nodes[e].name = manifests[d].name \/ nodes[e].root = manifests[d].root
    BY <1>6
  <2>2. PICK m, x : m = manifests[e] /\ x = Locked(e, m)
    OBVIOUS
  <2>3. x.name = m.name /\ x.root = m.root
    BY <2>2, LockedFields
  <2>4. nodes[e] = x /\ e \in Needed
    BY <2>1, <2>2 DEF Walked, WalkNodes, Seen
  <2>5. e # d
    BY <2>1
  <2> QED
    BY <1>2, <2>1, <2>2, <2>3, <2>4, <2>5 DEF Sound
<1> QED
  BY <1>3, <1>4, <1>5, <1>6 DEF Refused

\* Each step keeps the walk, and what it resolves or refuses.
LEMMA VisitResolves == ASSUME WalkInvariant, visit PROVE (Resolving /\ ~moved => Walked)' /\ ResolvesSoundProjects'
<1>1. PICK n \in Innermost.todo, d \in Dirs : d = Innermost.deps[n] /\ (VisitKnown(n, d) \/ VisitNew(n, d))
  <2>1. PICK n \in Innermost.todo : VisitKnown(n, Innermost.deps[n]) \/ VisitNew(n, Innermost.deps[n])
    BY DEF visit
  <2>2. Innermost.deps[n] \in Dirs
    BY <2>1 DEF visit, WalkInvariant, PackagesTyped, FramesTyped, Resolving, Innermost
  <2> QED
    BY <2>1, <2>2
<1>2. Resolving /\ UNCHANGED <<manifests, moved>> /\ verdict = "none" /\ PackagesTyped
  BY DEF visit, WalkInvariant, PackagesTyped
<1>3. Sound' = Sound
  BY <1>2, SameManifests
<1>4. CASE moved
  <2>1. verdict' # "resolved" \/ moved'
    BY <1>2, <1>4
  <2> QED
    BY <1>2, <1>4, <2>1 DEF ResolvesSoundProjects
<1>5. CASE ~moved
  <2>1. Walked
    BY <1>2, <1>5 DEF WalkInvariant
  <2>2. CASE Refuse /\ ~Sound
    <3>1. ~Resolving' /\ verdict' = "refused"
      BY <2>2 DEF Refuse, Resolving
    <3> QED
      BY <1>3, <2>2, <3>1 DEF ResolvesSoundProjects
  <2>3. CASE Walked' /\ UNCHANGED verdict
    BY <1>2, <2>3 DEF ResolvesSoundProjects
  <2>4. CASE VisitKnown(n, d)
    <3>1. CASE nodes[d].name # n \/ d \in Visiting
      BY <1>1, <1>2, <2>1, <2>2, <2>4, <3>1, KnownRefused DEF VisitKnown
    <3>2. CASE ~(nodes[d].name # n \/ d \in Visiting)
      <4>1. /\ nodes[d] # NoLock /\ frames' = Dismiss(n)
            /\ UNCHANGED <<manifests, nodes, locked, verdict>>
        BY <1>2, <2>4, <3>2 DEF VisitKnown
      <4>2. Walked'
        BY <1>1, <1>2, <2>1, <3>2, <4>1, KnownWalked
      <4> QED
        BY <2>3, <4>1, <4>2
    <3> QED
      BY <3>1, <3>2
  <2>5. CASE VisitNew(n, d)
    <3>1. CASE Refused(n, manifests[d])
      BY <1>1, <1>2, <2>1, <2>2, <2>5, <3>1, NewRefused DEF VisitNew
    <3>2. CASE ~Refused(n, manifests[d])
      <4>1. PICK m : m = manifests[d]
        OBVIOUS
      <4>2. UNCHANGED <<manifests, verdict>>
        BY <1>2, <2>5, <3>2, <4>1 DEF VisitNew
      <4>3. Walked'
        BY <1>1, <1>2, <2>1, <2>5, <3>2, <4>1, NewWalked
      <4> QED
        BY <2>3, <4>2, <4>3
    <3> QED
      BY <3>1, <3>2
  <2> QED
    BY <1>1, <2>4, <2>5
<1> QED
  BY <1>4, <1>5

LEMMA CompleteResolves ==
    ASSUME WalkInvariant, CompleteVisit
    PROVE  (Resolving /\ ~moved => Walked)' /\ ResolvesSoundProjects'
<1>1. PackagesTyped /\ UNCHANGED <<moved, verdict>> /\ Resolving
  BY DEF WalkInvariant, CompleteVisit, Resolving, PackagesTyped, FramesTyped
<1>2. verdict = "none"
  BY <1>1 DEF PackagesTyped
<1>3. ~moved => Walked'
  BY <1>1, CompleteWalked DEF WalkInvariant
<1> QED
  BY <1>1, <1>2, <1>3 DEF ResolvesSoundProjects

LEMMA WriteResolves ==
    ASSUME WalkInvariant, WriteLock
    PROVE  (Resolving /\ ~moved => Walked)' /\ ResolvesSoundProjects'
<1>1. PICK lock : lock = [project |-> Innermost.project, packages |-> locked]
  OBVIOUS
<1>2. /\ Len(frames) = 1 /\ Innermost.todo = {} /\ UNCHANGED <<manifests, moved>>
      /\ IF validateLockfile(lock)
         THEN frames' = <<>> /\ lockfile' = lock /\ verdict' = "resolved"
         ELSE Refuse
      /\ PackagesTyped
  BY <1>1 DEF WriteLock, WalkInvariant
<1>3. ~Resolving'
  BY <1>2 DEF Refuse, Resolving
<1>4. Sound' = Sound /\ TheLock' = TheLock
  BY <1>2, SameManifests
<1>5. CASE moved
  BY <1>2, <1>3, <1>5 DEF ResolvesSoundProjects
<1>6. CASE ~moved
  <2>1. Walked
    BY <1>2, <1>6 DEF WalkInvariant, Resolving
  <2>2. Sound /\ lock = TheLock /\ validateLockfile(lock)
    BY <1>1, <1>2, <2>1, WalkedLock
  <2>3. lockfile' = lock /\ verdict' = "resolved"
    BY <1>2, <2>2
  <2> QED
    BY <1>3, <1>4, <2>2, <2>3 DEF ResolvesSoundProjects
<1> QED
  BY <1>5, <1>6

LEMMA WalkStep == WalkInvariant /\ [PackagesNext]_packageVars => WalkInvariant'
<1> SUFFICES ASSUME WalkInvariant, [PackagesNext]_packageVars
             PROVE  WalkInvariant'
  OBVIOUS
<1>1. PackagesTyped'
  BY PackagesTypedStep DEF WalkInvariant
<1>2. CASE resolveLocalPackages
  <2>1. Walked' /\ verdict' = "none"
    BY <1>2, ResolveWalked DEF WalkInvariant, resolveLocalPackages
  <2> QED
    BY <1>1, <2>1 DEF WalkInvariant, ResolvesSoundProjects
<1>3. CASE visit
  BY <1>1, <1>3, VisitResolves DEF WalkInvariant
<1>4. CASE CompleteVisit
  BY <1>1, <1>4, CompleteResolves DEF WalkInvariant
<1>5. CASE WriteLock
  BY <1>1, <1>5, WriteResolves DEF WalkInvariant
<1>6. CASE KillResolver
  <2>1. ~Resolving' /\ verdict' = "none"
    BY <1>6 DEF KillResolver, Resolving
  <2> QED
    BY <1>1, <2>1 DEF WalkInvariant, ResolvesSoundProjects
<1>7. CASE validateLocalLockfile
  <2>1. ~Resolving' /\ verdict' \in {"accepted", "stale"}
    BY <1>7 DEF validateLocalLockfile, Resolving
  <2> QED
    BY <1>1, <2>1 DEF WalkInvariant, ResolvesSoundProjects
<1>8. CASE EditManifest
  <2>1. moved' = TRUE
    BY <1>8 DEF EditManifest
  <2> QED
    BY <1>1, <2>1 DEF WalkInvariant, ResolvesSoundProjects
<1>9. CASE UNCHANGED packageVars
  <2>1. UNCHANGED <<manifests, frames, nodes, locked, lockfile, verdict, moved>>
    BY <1>9 DEF packageVars
  <2>2. Sound' = Sound /\ TheLock' = TheLock /\ BelowOf' = BelowOf /\ Needed' = Needed
    BY <2>1, SameManifests, SameBelow
  <2>3. Resolving' = Resolving /\ Seen' = Seen /\ Finished' = Finished
    BY <2>1 DEF Resolving, Seen, Finished, Visiting
  <2>4. Walked => Walked'
    <3>1. WalkFrames => WalkFrames'
      BY <2>1 DEF WalkFrames
    <3>2. WalkPath => WalkPath'
      BY <2>1, <2>2 DEF WalkPath
    <3>3. WalkEdges => WalkEdges'
      BY <2>1, <2>3 DEF WalkEdges, Handled
    <3>4. WalkNodes => WalkNodes'
      BY <2>1, <2>2, <2>3 DEF WalkNodes
    <3>5. WalkDistinct => WalkDistinct'
      BY <2>1, <2>3 DEF WalkDistinct
    <3>6. WalkFinished => WalkFinished'
      BY <2>1, <2>2, <2>3 DEF WalkFinished
    <3>7. WalkRanked => WalkRanked'
      BY <2>1 DEF WalkRanked
    <3> QED
      BY <3>1, <3>2, <3>3, <3>4, <3>5, <3>6, <3>7 DEF Walked
  <2> QED
    BY <1>1, <2>1, <2>2, <2>3, <2>4 DEF WalkInvariant, ResolvesSoundProjects
<1> QED
  BY <1>2, <1>3, <1>4, <1>5, <1>6, <1>7, <1>8, <1>9 DEF PackagesNext

\* With no edit in between, the depth-first walk of deps resolve accepts exactly
\* the sound projects, and locks exactly the packages they need.
THEOREM ResolvesSound == PackagesSpec => []ResolvesSoundProjects
<1>1. PackagesInit => WalkInvariant
  BY PackagesInitTyped DEF PackagesInit, WalkInvariant, ResolvesSoundProjects, Resolving
<1>2. WalkInvariant => ResolvesSoundProjects
  BY DEF WalkInvariant
<1> QED
  BY <1>1, <1>2, WalkStep, PTL DEF PackagesSpec
===============================================================================
