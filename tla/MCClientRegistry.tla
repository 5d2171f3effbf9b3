-------------------------- MODULE MCClientRegistry --------------------------
(***************************************************************************)
(* Small instances of ClientRegistry.                                      *)
(***************************************************************************)
EXTENDS ClientRegistry, TLC

CONSTANTS d1, d2, a, b, c, i1, i2, i3, n1

OneDevice  == {d1}
TwoDevices == {d1, d2}
TwoIds     == {a, b}
ThreeIds   == {a, b, c}
TwoIps     == {i1, i2}
ThreeIps   == {i1, i2, i3}
OneName    == {n1}
NoNames    == {}

Anything  == EventKinds
Patience  == {"rename", "delete", "stale_page", "lost_answer"}
Renames   == {"rename"}

\* Bound: a behaviour goes on after a move or removal that fails as long as it
\* leaves one file, while the registry has room.
OneMisplaced ==
    \/ unmoved = {}
    \/ Cardinality(unmoved) = 1 /\ refused = {} /\ \A id \in unmoved : files[id] # {}

Symmetry == Permutations(Id) \union Permutations(Ip) \union Permutations(Device)
=============================================================================
