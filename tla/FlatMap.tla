------------------------------- MODULE FlatMap -------------------------------
(***************************************************************************)
(* zith::memory::FlatMap, the hash map behind the frontend's caches, sema  *)
(* and the artifact builder (src/memory/flat-map.hpp; FlatSet is the same  *)
(* table without values): open addressing with linear probing, tombstones  *)
(* left by erase(), and growth counted in live entries only.               *)
(*                                                                         *)
(* hash stands for the hash after the mixing of probe(); every function is *)
(* considered, and equal hashes of different keys are told apart by eq_.   *)
(* A lookup that meets no end of its probe sequence never returns: the     *)
(* caller is then stuck.  Keys and values left behind in erased slots are  *)
(* never read and are left out, as are iterators, which erase nothing.     *)
(***************************************************************************)
EXTENDS Integers, FiniteSets

CONSTANTS
    Keys, Values, None,
    FirstCapacity,  \* capacity of the first allocation, 16 in the code
    MaxCapacity     \* bound: the table does not grow beyond it

\* Assumed by the modules that give the constants values.
CapacityAssumption == FirstCapacity \in Nat \ {0, 1} /\ MaxCapacity \in Nat
NoneAssumption == None \notin Values

VARIABLES
    hash,   \* the hash of each key
    table,  \* metadata_, keys_ and values_, by slot; no slot before the first insert
    mapSize,   \* size_
    stuck   \* a caller probes forever

mapVars == <<hash, table, mapSize, stuck>>

Empty  == [meta |-> "EMPTY"]
Erased == [meta |-> "ERASED"]
Entry(k, v) == [meta |-> "OCCUPIED", key |-> k, value |-> v]
Entries == {Entry(k, v) : k \in Keys, v \in Values}

Capacity(T)  == Cardinality(DOMAIN T)
Occupied(T)  == {i \in DOMAIN T : T[i].meta = "OCCUPIED"}
Slots(T, k)  == {i \in Occupied(T) : T[i].key = k}
NewTable(c)  == [i \in 0..(c - 1) |-> Empty]

\* How many steps the probe for k takes to slot i, and the slots it meets before.
Distance(T, k, i) == (i - hash[k]) % Capacity(T)
Before(T, k, i) == {j \in DOMAIN T : Distance(T, k, j) < Distance(T, k, i)}

\* find_slot(): stops at the first slot that holds k or is EMPTY.
FindSlot(T, k) ==
    {i \in Slots(T, k) : \A j \in Before(T, k, i) : T[j] # Empty /\ j \notin Slots(T, k)}

\* find_slot(): there is no such slot.
Loops(T, k) == T # <<>> /\ Slots(T, k) = {} /\ \A i \in DOMAIN T : T[i] # Empty

\* insert(): the first slot that holds k or is not OCCUPIED, a tombstone included.
InsertSlot(T, k) ==
    CHOOSE i \in DOMAIN T :
        /\ i \in Slots(T, k) \/ i \notin Occupied(T)
        /\ \A j \in Before(T, k, i) : j \in Occupied(T) \ Slots(T, k)

Put(T, e) == [T EXCEPT ![InsertSlot(T, e.key)] = e]

\* Mutant of Rehashed: entries keep their slots.
RehashedInPlace(T, c) == [i \in 0..(c - 1) |-> IF i \in Occupied(T) THEN T[i] ELSE Empty]

\* rehash(): the entries, in slot order, go into a new table.
Rehashed(T, c) ==
    LET U[i \in 0..Capacity(T)] ==
          IF i = 0 THEN NewTable(c)
          ELSE IF i - 1 \in Occupied(T) THEN Put(U[i - 1], T[i - 1]) ELSE U[i - 1]
    IN  U[Capacity(T)]

\* Mutant of Full: no slack.
FullAtCapacity(T, n) == n >= Capacity(T)

Full(T, n)      == n >= (Capacity(T) * 7) \div 10
NextCapacity(T) == IF Capacity(T) = 0 THEN FirstCapacity ELSE 2 * Capacity(T)

-----------------------------------------------------------------------------
MapInit ==
       /\ hash \in [Keys -> 0..(MaxCapacity - 1)]
       /\ table = NewTable(0)
       /\ mapSize = 0
       /\ stuck = FALSE

\* insert(key, value).
Insert(k, v) ==
    LET T == IF Full(table, mapSize) THEN Rehashed(table, NextCapacity(table)) ELSE table
        n == IF Full(table, mapSize) THEN Cardinality(Occupied(T)) ELSE mapSize
    IN  /\ Full(table, mapSize) => NextCapacity(table) <= MaxCapacity
        /\ table' = Put(T, Entry(k, v))
        /\ mapSize' = IF InsertSlot(T, k) \in Slots(T, k) THEN n ELSE n + 1
        /\ UNCHANGED <<hash, stuck>>

\* operator[] followed by an assignment: get(), and insert() on a miss.
Assign(k, v) ==
    /\ ~Loops(table, k)
    /\ \/ \E i \in FindSlot(table, k) :
             table' = [table EXCEPT ![i].value = v] /\ UNCHANGED <<hash, mapSize, stuck>>
       \/ FindSlot(table, k) = {} /\ Insert(k, v)

\* erase(): a tombstone.
Erase(k) ==
    /\ ~Loops(table, k)
    /\ \E i \in FindSlot(table, k) : table' = [table EXCEPT ![i] = Erased]
    /\ mapSize' = mapSize - 1
    /\ UNCHANGED <<hash, stuck>>

MapClear ==
       /\ table' = [i \in DOMAIN table |-> Empty]
       /\ mapSize' = 0
       /\ UNCHANGED <<hash, stuck>>

\* get(), contains(), operator[] or erase() of k does not return.
Probe(k) == Loops(table, k) /\ stuck' = TRUE /\ UNCHANGED <<hash, table, mapSize>>

Stopped == stuck /\ UNCHANGED mapVars

Common == ~stuck /\ (MapClear \/ \E k \in Keys : Erase(k) \/ Probe(k))

\* The discipline of most callers: look up first, insert what is absent.
MapNext == Stopped \/ Common \/ (~stuck /\ \E k \in Keys, v \in Values : Assign(k, v))
MapSpec == MapInit /\ [][MapNext]_mapVars

-----------------------------------------------------------------------------
MapTypeOK ==
       /\ hash \in [Keys -> Nat]
       /\ table \in [0..(Capacity(table) - 1) -> Entries \cup {Empty, Erased}]
       /\ mapSize \in Nat
       /\ stuck \in BOOLEAN

\* Probing can fail to end only because of tombstones.
OnlyTombstonesBlock ==
    table # <<>> /\ (\A i \in DOMAIN table : table[i] # Empty) =>
        \E i \in DOMAIN table : table[i] = Erased

\* Every lookup returns ("FlatMap misses absent custom keys", tests/test-memory.cpp).
LookupReturns == ~stuck

\* The table is a map.
Value(k) == IF FindSlot(table, k) = {} THEN None
            ELSE table[CHOOSE i \in FindSlot(table, k) : TRUE].value
Contract == INSTANCE FlatMapContract WITH map <- [k \in Keys |-> Value(k)]
ImplementsMap == Contract!Spec
=============================================================================
