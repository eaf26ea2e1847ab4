------------------------------- MODULE MCMemory -------------------------------
(***************************************************************************)
(* The allocators and tables everything else is built on, the memory of    *)
(* the VM, the arena and the flat hash map, and the machine that runs      *)
(* programs in such a memory.  They share no state here, so a behaviour is *)
(* one of `part` and leaves the others in a first state.                   *)
(***************************************************************************)
EXTENDS LinearMemory, Arena, FlatMap, VmParity

CONSTANTS k1, k2, k3, k4

VARIABLE part

\* A program: main has an int, a float and a struct; swap borrows a struct and
\* copies another; scale, settle and merge are states, of two machines.
Fn(params, locals, returns, state) ==
  [params |-> params, locals |-> locals, returns |-> returns, state |-> state]

swap == Fn(<<"ref", "pair">>, <<"pair">>, "pair", FALSE)
scale == Fn(<<"flt", "int">>, <<>>, "flt", TRUE)
settle == Fn(<<"int", "flt">>, <<>>, "flt", TRUE)
merge == Fn(<<"ref", "pair">>, <<>>, "pair", TRUE)

Functions == {swap, scale, settle, merge}
MainFunction == Fn(<<>>, <<"int", "flt", "pair">>, "int", FALSE)
MainBindings == << <<1>>, <<1>>, <<1, 2>> >>

ASSUME CapacityAssumption /\ NoneAssumption
ASSUME ArenaAssumption /\ FittingAssumption
ASSUME ImmediateAssumption /\ ProgramAssumption /\ BoundsAssumption

allVars == <<vars, mapVars, arenaVars, parityVars, part>>

\* Hashes that meet in four slots and part in eight, with runs that wrap around
\* in both; every such function is ascending after the keys are renamed.
Hashed == /\ \A k \in Keys : hash[k] \in {0, 3, 7}
          /\ hash[k1] <= hash[k2] /\ hash[k2] <= hash[k3] /\ hash[k3] <= hash[k4]

MapIdle == MapInit /\ hash = [k \in Keys |-> 0]

MemoryInit ==
  /\ Init /\ ArenaInit /\ ParityInit
  /\ \/ part \in {"vm", "arena", "machine"} /\ MapIdle
     \/ part = "map" /\ MapInit /\ Hashed

\* The program is not followed any further.
Ended == (failed \/ uses # {} \/ count = MaxStatements) /\ UNCHANGED parityVars

MemoryNext ==
  /\ UNCHANGED part
  /\ \/ part = "vm" /\ Next /\ UNCHANGED <<mapVars, arenaVars, parityVars>>
     \/ part = "map" /\ MapNext /\ UNCHANGED <<vars, arenaVars, parityVars>>
     \/ part = "arena" /\ ArenaNext /\ UNCHANGED <<vars, mapVars, parityVars>>
     \/ part = "machine" /\ (ParityNext \/ Ended) /\ UNCHANGED <<vars, mapVars, arenaVars>>

MemorySpec == MemoryInit /\ [][MemoryNext]_allVars
MachineSpec == MemoryInit /\ part = "machine" /\ [][MemoryNext]_allVars
===============================================================================
