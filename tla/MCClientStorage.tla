-------------------------- MODULE MCClientStorage --------------------------
(***************************************************************************)
(* Small instances of ClientStorage.  UintMod is not a multiple of the     *)
(* capacity, as 2^32 is not, so that unsigned wrap-around shows.           *)
(***************************************************************************)
EXTENDS ClientStorage

AllFaults  == FaultKinds
Resets     == {"reset"}

\* Bound: the wrap of start_idx needs two measurements for each slot.  After the
\* fourth, a behaviour goes on only if no record or header failed to read, no
\* flag failed to write, no write was lost in a buffer, and at most two resets
\* or appends went wrong (an append that is under way counts as one).  After a
\* lost write the ring is filled once, with at most one reset.
FewFaults ==
    \/ made <= 4 /\ failed \intersect Lost = {}
    \/ made <= MaxRecords /\ crashes <= 1
    \/ /\ failed \subseteq {"start_idx"}
       /\ crashes + made - Cardinality(stored) <= 2
=============================================================================
