---------------------------- MODULE MCProjectFiles ----------------------------
(***************************************************************************)
(* The files zithc shares with others: the persistent cache, the           *)
(* documentation and the lockfile with other processes, and the sources    *)
(* with the editors of a frontend context.  The four do not read each      *)
(* other's, so a behaviour is one of `part` and leaves the others in a     *)
(* first state.                                                            *)
(***************************************************************************)
EXTENDS FrontendContext, ArtifactStore, DocsOutput, PackageResolver, TLC

CONSTANTS main, lib, mainT, libT, app, std, a, b, dirA, dirB, dirC, old, new

VARIABLE part

\* The old text of main imports lib, that of lib imports main back.
CycleOfTexts == main :> (old :> {lib} @@ new :> {}) @@ lib :> (old :> {main} @@ new :> {})

ImportsMain(m) == IF m = main THEN {lib} ELSE {}
ProgramOf(m) == {m} \cup ImportsMain(m)
ErasesBoth(m) == IF m = main THEN {mainT, libT} ELSE {libT}
NamesOf(v) == IF v = 3 THEN "renamed" ELSE "names"

ASSUME ContextAssumption

allVars == <<vars, packageVars, storeVars, docsVars, part>>

Toml(name, root, onA, onB) ==
  [name |-> name, root |-> root,
   deps |-> [n \in Names |-> CASE n = a -> onA [] n = b -> onB [] OTHER -> NoDir]]

\* b may lead to either of two directories, a to a package that is not a, and
\* cycles of one, two and three packages are possible; one package may share
\* the module root of another, and one may take the name of the project.
Tomls(o) ==
  CASE o = app  -> {Toml(app, app, x, y) : x \in {NoDir, dirA, dirB}, y \in {NoDir, dirB, dirC}}
    [] o = dirA -> {Toml(a, dirA, x, y) : x \in {NoDir, dirA}, y \in {NoDir, dirB, dirC}}
                     \cup {Toml(a, dirB, NoDir, NoDir), NoManifestFile}
    [] o = dirB -> {Toml(b, dirB, x, y) : x \in {NoDir, dirA}, y \in {NoDir, dirC}}
                     \cup {Toml(app, dirB, NoDir, NoDir)}
    [] o = dirC -> {Toml(b, dirC, x, NoDir) : x \in {NoDir, dirA}}

DocsIdle == DocsInit /\ had = {}
PackagesIdle == /\ manifests = [o \in Owners |-> NoManifestFile] /\ frames = <<>>
                /\ nodes = [d \in Dirs |-> NoLock] /\ locked = {} /\ lockfile = NoLock
                /\ verdict = "none" /\ changes = 0 /\ moved = FALSE
ContextIdle == Init /\ disk = [p \in Paths |-> old]

FilesInit ==
  /\ StoreInit
  /\ \/ part = "cache" /\ DocsIdle /\ PackagesIdle /\ ContextIdle
     \/ part = "docs" /\ DocsInit /\ PackagesIdle /\ ContextIdle
     \/ part = "packages" /\ DocsIdle /\ PackagesInit /\ ContextIdle
     \/ part = "sources" /\ DocsIdle /\ PackagesIdle /\ Init

FilesNext ==
  /\ UNCHANGED part
  /\ \/ part = "cache" /\ StoreNext /\ UNCHANGED <<docsVars, packageVars, vars>>
     \/ part = "docs" /\ DocsNext /\ UNCHANGED <<storeVars, packageVars, vars>>
     \/ part = "packages" /\ PackagesNext /\ UNCHANGED <<storeVars, docsVars, vars>>
     \/ part = "sources" /\ Next /\ UNCHANGED <<storeVars, docsVars, packageVars>>

FilesSpec == FilesInit /\ [][FilesNext]_allVars

================================================================================
