-------------------------- MODULE MCRegistryStore --------------------------
(***************************************************************************)
(* A small instance of RegistryStore: two loggers, three ids and room for  *)
(* them all and for two entries that resets leave without an id.           *)
(***************************************************************************)
EXTENDS RegistryStore, TLC

CONSTANTS d1, d2, id1, id2, id3, n1

Devices   == {d1, d2}
Ids       == {id1, id2, id3}
Names     == {n1}
Alike     == Permutations(Devices) \union Permutations(Ids)
=============================================================================
