--------------------------- MODULE MCServerStore ---------------------------
(***************************************************************************)
(* Small instances of ServerStore: two clients, a ring of three records.   *)
(***************************************************************************)
EXTENDS ServerStore, TLC

CONSTANTS a, b

Ids          == {a, b}
Symmetry     == Permutations(Ids)
AllFaults    == FaultKinds

\* Bound: once every file is damaged, of which the properties say nothing, a
\* behaviour goes on up to the third append only.
SomeSound == damaged # Id \/ made <= 3
=============================================================================
