----------------------------- MODULE BoundedLog -----------------------------
(***************************************************************************)
(* What the server's data store promises: for each client a log of its     *)
(* latest records, oldest first, that drops its oldest record to make room *)
(* for a new one.                                                          *)
(***************************************************************************)
EXTENDS Naturals, Sequences

CONSTANTS Id, Record, MaxRecords

VARIABLE logs

Init == logs = [id \in Id |-> <<>>]

MakeRoom(id) ==
    /\ Len(logs[id]) = MaxRecords
    /\ logs' = [logs EXCEPT ![id] = Tail(@)]

Add(id, r) ==
    /\ Len(logs[id]) < MaxRecords
    /\ logs' = [logs EXCEPT ![id] = Append(@, r)]

\* The log moves to another id as it is; what was stored there is dropped.
Move(old, new) ==
    /\ old # new
    /\ logs' = [logs EXCEPT ![new] = logs[old], ![old] = <<>>]

Clear(id) == logs' = [logs EXCEPT ![id] = <<>>]

Next == \E id \in Id : \/ MakeRoom(id)
                       \/ \E r \in Record : Add(id, r)
                       \/ \E new \in Id : Move(id, new)
                       \/ Clear(id)

Spec == Init /\ [][Next]_logs
=============================================================================
