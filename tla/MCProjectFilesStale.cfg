CONSTANTS
  main = main
  lib = lib
  mainT = mainT
  libT = libT
  Paths = {main, lib}
  Texts = {old, new}
  CallerTexts = {new}
  Imports <- CycleOfTexts
  Modules = {main, lib}
  ImportsOf <- ImportsMain
  Program <- ProgramOf
  Erases <- ErasesBoth
  AbiOf <- NamesOf
  Types = {mainT, libT}
  Sessions = {s1, s2}
  Versions = {1, 2, 3}
  MaxSessions = 3
  MaxEdits = 0
  Writers = {}
  Pages = 2
  MaxId = 3
  app = app
  std = std
  a = a
  b = b
  dirA = dirA
  dirB = dirB
  dirC = dirC
  Dirs = {dirA, dirB, dirC}
  Project = app
  Names = {app, std, a, b}
  Reserved = {std}
  Manifests <- Tomls
  MaxChanges = 0
  old = old
  new = new
  Threads = {}
  Editors = {}
  Builds = {p1, p2}
  None = None
  CacheId = CacheId
  MaxSourceEdits = 1
  MaxAnalyses = 2
  MaxEpoch = 20
SPECIFICATION FilesSpec
CHECK_DEADLOCK FALSE
INVARIANTS
    HydratedIsCurrent
