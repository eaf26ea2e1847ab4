--------------------------- MODULE FlatMapContract ---------------------------
(***************************************************************************)
(* What the users of zith::memory::FlatMap rely on: a finite map.          *)
(***************************************************************************)
CONSTANTS Keys, Values, None

VARIABLE map    \* the value of each key, None where there is no entry

Init == map = [k \in Keys |-> None]

Assign(k, v) == map' = [map EXCEPT ![k] = v]
Erase(k)     == map' = [map EXCEPT ![k] = None]
Clear        == map' = [k \in Keys |-> None]

Next ==
    \/ \E k \in Keys, v \in Values : Assign(k, v)
    \/ \E k \in Keys : Erase(k)
    \/ Clear

Spec == Init /\ [][Next]_map
=============================================================================
