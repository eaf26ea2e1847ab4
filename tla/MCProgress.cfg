CONSTANTS
    Tasks = {t1, t2, t3}
    Workers = {w1, w2}
    NoTask = NoTask
    main = main
    dep = dep
    lib = lib
    old = old
    new = new
    Modules = {main, dep, lib}
    Paths = {main, dep, lib}
    Texts = {old, new}
    CallerTexts = {new}
    Threads = {r1}
    Editors = {e1}
    Builds = {b1, b2, b3}
    None = None
    CacheId = CacheId
    MaxEdits = 1
    MaxAnalyses = 1
    MaxEpoch = 20
SPECIFICATION ProgressSpec
INVARIANTS
    RunsOnce
    WorkConserving
    EffectAtReturn
PROPERTIES
    SubmittedRuns
    DestructorReturns
    Terminates
    AnalysisReturns
