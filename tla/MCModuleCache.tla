---------------------------- MODULE MCModuleCache ----------------------------
(* ModuleCache on two modules that may import each other.                   *)
EXTENDS ModuleCache, TLC

CONSTANTS main, dep

\* main imports dep, and dep may import main back.
Cycle == (main :> {{dep}} @@ dep :> {{}, {main}})

Symmetry == Permutations(Clients) \cup Permutations(Builds) \cup Permutations(Fingerprints)
=============================================================================
