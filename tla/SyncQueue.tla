----------------------------- MODULE SyncQueue -----------------------------
(***************************************************************************)
(* What the client's record storage promises to the upload cycle: a FIFO   *)
(* queue of records.  A batch taken from its head is discarded only after  *)
(* the server confirmed it, in order, and no record is confirmed twice.    *)
(***************************************************************************)
EXTENDS Naturals, Sequences, SequencesExt

CONSTANTS Record,     \* the records a client can measure
          BatchSize   \* records per upload

VARIABLES queue,      \* stored, not yet confirmed, oldest first
          sent,       \* the batch the upload cycle holds
          confirmed   \* records the server answered 200 for

vars == <<queue, sent, confirmed>>

Init == queue = <<>> /\ sent = <<>> /\ confirmed = {}

\* A record never stored before enters at the tail.
Put(r) ==
    /\ r \notin confirmed \union ToSet(queue)
    /\ queue' = Append(queue, r)
    /\ UNCHANGED <<sent, confirmed>>

\* The upload cycle takes the oldest records, in order.
Fetch ==
    /\ sent = <<>> /\ queue # <<>>
    /\ sent' = IF Len(queue) <= BatchSize THEN queue
                                          ELSE SubSeq(queue, 1, BatchSize)
    /\ UNCHANGED <<queue, confirmed>>

\* The server confirms the batch: none of it was confirmed before.
Confirm ==
    /\ sent # <<>>
    /\ ToSet(sent) \intersect confirmed = {}
    /\ confirmed' = confirmed \union ToSet(sent)
    /\ UNCHANGED <<queue, sent>>

\* Only a confirmed batch leaves the queue.
Discard ==
    /\ sent # <<>>
    /\ ToSet(sent) \subseteq confirmed
    /\ queue' = SubSeq(queue, Len(sent) + 1, Len(queue))
    /\ sent' = <<>>
    /\ UNCHANGED confirmed

\* An unconfirmed batch is given up and stays queued.
Abandon ==
    /\ sent # <<>>
    /\ ToSet(sent) \intersect confirmed = {}
    /\ sent' = <<>>
    /\ UNCHANGED <<queue, confirmed>>

Next == (\E r \in Record : Put(r)) \/ Fetch \/ Confirm \/ Discard \/ Abandon

Spec == Init /\ [][Next]_vars
=============================================================================
