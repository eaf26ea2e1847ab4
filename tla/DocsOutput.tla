------------------------------ MODULE DocsOutput -------------------------------
(***************************************************************************)
(* `zithc docs --out`: writeDocsOutput stages every page in a sidecar file *)
(* and then renames them all into place, taking everything back when one   *)
(* cannot be installed (src/src/cli/docs/output-writer.cpp).  Each writer  *)
(* is a process: it may be killed at any step, the next one finds what it  *)
(* left, and two may run at once.  Every call of the file system may fail. *)
(***************************************************************************)
EXTENDS Naturals, FiniteSets

CONSTANTS Writers,
          Pages,     \* the files of one output, 1..Pages in the order of the plan
          MaxId      \* sidecar numbers 0..MaxId: a writer that finds none free gives up

NoFile == "no file"

ASSUME OutputAssumption ==
  /\ Pages \in Nat \ {0} /\ MaxId \in Nat
  /\ Writers \cap {NoFile, "cut", "old"} = {}

VARIABLES
  output,      \* the text of every path: NoFile, "cut" while being written, or whose it is
  writer,    \* each writer's StagedFiles and place in the code
  before,    \* ghost: the destinations as a writer found them
  had,       \* ghost: the destinations that held a text before any writer
  together   \* ghost: two writers ran at once

docsVars == <<output, writer, before, had, together>>

Outputs == 1..Pages
NoId == MaxId + 1
Destination(f) == <<f, "page", 0>>
sidecarPath(f, kind, id) == <<f, kind, id>>
Sidecars == Outputs \X {"tmp", "backup"} \X (0..MaxId)
FilePaths == {Destination(f) : f \in Outputs} \cup Sidecars
isPresent(path) == output[path] # NoFile

Unstaged == [f \in Outputs |-> NoId]
NewWriter == [at |-> "new", page |-> 1, next |-> 0, force |-> FALSE, complete |-> TRUE,
              temporary |-> Unstaged, backup |-> Unstaged, installed |-> {}]
Active(w) == writer[w].at \notin {"new", "done", "failed", "crashed"}

DocsInit ==
  /\ \E held \in SUBSET Outputs :
       /\ had = held
       /\ output = [p \in FilePaths |-> IF \E f \in held : p = Destination(f) THEN "old" ELSE NoFile]
  /\ writer = [w \in Writers |-> NewWriter]
  /\ before = [w \in Writers |-> [f \in Outputs |-> NoFile]]
  /\ together = FALSE

Goes(w, at) == writer' = [writer EXCEPT ![w].at = at]
Turn(w, at, page) == writer' = [writer EXCEPT ![w].at = at, ![w].page = page]
Put(path, text) == output' = [output EXCEPT ![path] = text]
Rename(from, to) == output' = [output EXCEPT ![to] = output[from], ![from] = NoFile]
\* fs::remove whose error is ignored: the paths go, or any of them stay.
RemoveAny(paths) ==
  \E gone \in SUBSET paths : output' = [p \in FilePaths |-> IF p \in gone THEN NoFile ELSE output[p]]
Ghosts == UNCHANGED <<before, had, together>>

Temporary(w, f) == sidecarPath(f, "tmp", writer[w].temporary[f])
Backup(w, f) == sidecarPath(f, "backup", writer[w].backup[f])
Staged(w) == {Temporary(w, f) : f \in {g \in Outputs : writer[w].temporary[g] # NoId}}
Backups(w) == {Backup(w, f) : f \in {g \in Outputs : writer[w].backup[g] # NoId}}

\* Mutant of FreeIds: what another process left is not looked at.
AllIds(w, f, kind) == writer[w].next..MaxId

\* selectSidecarPath: the numbers count on in one process only
FreeIds(w, f, kind) ==
  {id \in writer[w].next..MaxId : ~isPresent(sidecarPath(f, kind, id))}
SelectedId(ids) == CHOOSE id \in ids : \A other \in ids : id <= other

(***************************************************************************)
(* Staging.                                                                *)
(***************************************************************************)
Begin(w) ==
  /\ writer[w].at = "new"
  /\ \E force \in BOOLEAN :
       writer' = [writer EXCEPT ![w].force = force, ![w].at = "check"]
  /\ before' = [before EXCEPT ![w] = [f \in Outputs |-> output[Destination(f)]]]
  /\ together' = (together \/ \E v \in Writers : Active(v))
  /\ UNCHANGED <<output, had>>

\* Every destination is looked at before anything is written.
CheckPlan(w) ==
  /\ writer[w].at = "check"
  /\ \/ Goes(w, "failed")
     \/ /\ writer[w].force \/ \A f \in Outputs : ~isPresent(Destination(f))
        /\ Goes(w, "select")
  /\ UNCHANGED output /\ Ghosts

SelectTemporary(w) ==
  LET f == writer[w].page
      ids == FreeIds(w, f, "tmp")
  IN /\ writer[w].at = "select" /\ ids # {}
     /\ writer' = [writer EXCEPT ![w].temporary[f] = SelectedId(ids),
                                 ![w].next = SelectedId(ids) + 1, ![w].at = "create"]
     /\ UNCHANGED output /\ Ghosts

Create(w) ==
  /\ writer[w].at = "create"
  /\ Put(Temporary(w, writer[w].page), "cut") /\ Goes(w, "write") /\ Ghosts

WriteTemporary(w) ==
  LET f == writer[w].page IN
  /\ writer[w].at = "write"
  /\ Put(Temporary(w, f), w)
  /\ IF f = Pages THEN Turn(w, "inspect", 1) ELSE Turn(w, "select", f + 1)
  /\ Ghosts

\* No number is free, or a call fails: cleanupStaged, and nothing was installed.
StagingFails(w) ==
  /\ writer[w].at \in {"select", "create", "write"}
  /\ RemoveAny(Staged(w)) /\ Goes(w, "failed") /\ Ghosts

(***************************************************************************)
(* commitOutputs.                                                          *)
(***************************************************************************)
Inspect(w) ==
  LET f == writer[w].page
      ids == FreeIds(w, f, "backup")
  IN /\ writer[w].at = "inspect"
     /\ \/ ~isPresent(Destination(f)) /\ Goes(w, "install")
        \/ /\ isPresent(Destination(f)) /\ writer[w].force /\ ids # {}
           /\ writer' = [writer EXCEPT ![w].backup[f] = SelectedId(ids),
                                       ![w].next = SelectedId(ids) + 1, ![w].at = "preserve"]
     /\ UNCHANGED output /\ Ghosts

Preserve(w) ==
  LET f == writer[w].page IN
  /\ writer[w].at = "preserve" /\ isPresent(Destination(f))
  /\ Rename(Destination(f), Backup(w, f)) /\ Goes(w, "install") /\ Ghosts

Install(w) ==
  LET f == writer[w].page IN
  /\ writer[w].at = "install" /\ isPresent(Temporary(w, f))
  /\ Rename(Temporary(w, f), Destination(f))
  /\ writer' = [writer EXCEPT ![w].temporary[f] = NoId,
                              ![w].installed = @ \cup {f},
                              ![w].page = IF f = Pages THEN 1 ELSE f + 1,
                              ![w].at = IF f = Pages THEN "drop" ELSE "inspect"]
  /\ Ghosts

\* Mutant of CommitFails: the page that failed is not rolled back.
CommitFailsBefore(w) ==
  /\ writer[w].at \in {"inspect", "preserve", "install"}
  /\ writer' = [writer EXCEPT ![w].at = "undo",
                              ![w].page = IF @ = 1 THEN 1 ELSE @ - 1,
                              ![w].backup[writer[w].page] = NoId]
  /\ UNCHANGED output /\ Ghosts

\* A call fails, a file is in the way or gone: no backup of this page is kept
\* unless it was renamed.
CommitFails(w) ==
  /\ writer[w].at \in {"inspect", "preserve", "install"}
  /\ writer' = [writer EXCEPT ![w].at = "undo", ![w].page = Pages,
                              ![w].backup[writer[w].page] =
                                IF writer[w].at = "preserve" THEN NoId ELSE @]
  /\ UNCHANGED output /\ Ghosts

DropBackups(w) ==
  /\ writer[w].at = "drop"
  /\ RemoveAny(Backups(w)) /\ Goes(w, "done") /\ Ghosts

(***************************************************************************)
(* rollback, from the last page to the first.                              *)
(***************************************************************************)
Incomplete(w, at) == writer' = [writer EXCEPT ![w].complete = FALSE, ![w].at = at]

Undo(w) ==
  LET f == writer[w].page IN
  /\ writer[w].at = "undo"
  /\ \/ f \notin writer[w].installed /\ UNCHANGED output /\ Goes(w, "restore")
     \/ f \in writer[w].installed /\ Put(Destination(f), NoFile) /\ Goes(w, "restore")
     \/ f \in writer[w].installed /\ UNCHANGED output /\ Incomplete(w, "restore")
  /\ Ghosts

Restore(w) ==
  LET f == writer[w].page IN
  /\ writer[w].at = "restore"
  /\ \/ writer[w].backup[f] = NoId /\ UNCHANGED output /\ Goes(w, "discard")
     \/ /\ writer[w].backup[f] # NoId /\ isPresent(Backup(w, f))
        /\ Rename(Backup(w, f), Destination(f))
        /\ writer' = [writer EXCEPT ![w].backup[f] = NoId, ![w].at = "discard"]
     \/ writer[w].backup[f] # NoId /\ UNCHANGED output /\ Incomplete(w, "discard")
  /\ Ghosts

Discard(w) ==
  LET f == writer[w].page IN
  /\ writer[w].at = "discard"
  /\ RemoveAny(Staged(w) \cap {Temporary(w, f)})
  /\ IF f = 1 THEN Goes(w, "failed") ELSE Turn(w, "undo", f - 1)
  /\ Ghosts

Killed(w) == Active(w) /\ Goes(w, "crashed") /\ UNCHANGED output /\ Ghosts

WriterStep(w) ==
  \/ Begin(w) \/ CheckPlan(w) \/ SelectTemporary(w) \/ Create(w) \/ WriteTemporary(w)
  \/ StagingFails(w) \/ Inspect(w) \/ Preserve(w) \/ Install(w) \/ CommitFails(w)
  \/ DropBackups(w) \/ Undo(w) \/ Restore(w) \/ Discard(w) \/ Killed(w)

DocsNext == \E w \in Writers : WriterStep(w)

DocsSpec == DocsInit /\ [][DocsNext]_docsVars

(***************************************************************************)
(* Properties.                                                             *)
(***************************************************************************)

\* A run that fails leaves every destination as it found it, and no backup of
\* its own, unless it says that the rollback was incomplete or another writer
\* was at work.
Undone ==
  [][\A w \in Writers :
       Active(w) /\ writer'[w].at = "failed" /\ writer'[w].complete /\ ~together =>
         /\ \A f \in Outputs : output'[Destination(f)] = before[w][f]
         /\ writer'[w].backup = Unstaged]_docsVars

\* However many runs fail or are killed one after the other, the text that was
\* in a destination is still there or in a backup beside it, until a run has
\* installed all its pages.
NothingLost ==
  ~together /\ (\A w \in Writers : writer[w].at \notin {"drop", "done"}) =>
    \A f \in had : \E p \in {Destination(f)} \cup {s \in Sidecars : s[1] = f /\ s[2] = "backup"} :
      output[p] = "old"

================================================================================
