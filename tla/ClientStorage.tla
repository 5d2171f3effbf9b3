--------------------------- MODULE ClientStorage ---------------------------
(***************************************************************************)
(* The client's record store, apps/client/main/data_storage.c, driven by   *)
(* the upload cycle of wifi_sync.c: a ring of records in one SPIFFS file,  *)
(* a header at its start and the copy of that header in RAM (s_header).    *)
(*                                                                         *)
(* One task calls every operation, so nothing interleaves with them; what  *)
(* does is a reset of the board between two writes, a failed read or write *)
(* and an upload whose answer is not 200.  stdio buffers what fwrite takes *)
(* until the next fseek or fflush writes it out, and the code ignores what *)
(* those return: a write that fails there is lost without being noticed.   *)
(* Records are numbered in the order they are measured; 0 in a slot means  *)
(* the file ends before it.                                                *)
(***************************************************************************)
EXTENDS Integers, Sequences, FiniteSets

CONSTANTS
    MaxRecords,   \* s_header.max_records, the capacity of the ring
    BatchSize,    \* UPLOAD_BATCH_SIZE
    UintMod,      \* 2^32: uint32_t arithmetic wraps modulo it
    MaxAppends,   \* bound: measurements made in a behaviour
    MaxCrashes,   \* bound: resets of the board in a behaviour
    Faults        \* which of FaultKinds may happen

FaultKinds == {"overrun",     \* the ring fills before the server is back
               "reset",       \* a reset outside data_storage_mark_synced
               "mark_reset",  \* a reset inside data_storage_mark_synced
               "read_error",  \* an fread of a record or the header fails
               "write_error", \* an fwrite of a record or the header fails
               "lost_write"}  \* the fseek or fflush that writes a buffered
                              \* record or header out fails, unnoticed

ASSUME CapacityAssumption ==
    /\ MaxRecords \in Nat \ {0} /\ BatchSize \in Nat \ {0}
    /\ UintMod \in Nat /\ UintMod > 2 * MaxRecords /\ UintMod > MaxAppends
ASSUME BoundAssumption == MaxAppends \in Nat /\ MaxCrashes \in Nat
ASSUME FaultAssumption == Faults \subseteq FaultKinds

Slot == 0 .. MaxRecords - 1
Record == 1 .. MaxAppends
Uint == 0 .. UintMod - 1
Header == [write_idx : Slot, total_written : Uint, unsynced_count : Uint]
FreshHeader == [write_idx |-> 0, total_written |-> 0, unsynced_count |-> 0]
NoHeader == [write_idx |-> 0, total_written |-> 0, unsynced_count |-> -1]

VARIABLES
    pc,         \* where the client task is in the storage code
    data,       \* the record in each slot of the file
    synced,     \* the synced flag of each slot
    s_header,   \* the header in RAM
    file,       \* the header in the file, NoHeader before the first boot
    made,       \* records measured so far
    records,    \* the batch on the stack of wifi_sync_upload_unsynced
    i,          \* the loop variable of read_unsynced and mark_synced
    marked,     \* mark_synced: records it marked
    delivered,  \* records the server answered 200 for
    stored,     \* records whose append returned 0
    crashes,    \* resets so far
    failed      \* the calls in which an fread or fwrite failed so far, what
                \* was lost in a buffer unnoticed, and "start_idx" once its
                \* subtraction wrapped around

vars == <<pc, data, synced, s_header, file, made, records, i, marked,
          delivered, stored, crashes, failed>>

ring == <<data, synced, file>>
history == <<made, delivered, stored, crashes, failed>>

\* What the storage takes for written although it never reached the flash: a
\* record or a header of an append (or the header of a new file), a flag.
Lost == {"lost_record", "lost_header", "lost_flag"}

TypeOK ==
    /\ pc \in {"off", "idle", "append", "read", "upload", "mark"}
    /\ data \in [Slot -> Record \union {0}]
    /\ synced \in [Slot -> BOOLEAN]
    /\ s_header \in Header
    /\ file \in Header \union {NoHeader}
    /\ made \in Record \union {0}
    /\ records \in Seq(Record)
    /\ i \in Nat
    /\ marked \in Nat
    /\ delivered \subseteq Record
    /\ stored \subseteq Record
    /\ crashes \in 0 .. MaxCrashes
    /\ failed \subseteq
           Lost \union {"init", "read_unsynced", "mark_synced", "start_idx"}

-----------------------------------------------------------------------------
\* The unsynced window: the unsynced_count slots that end before write_idx.

\* Mutant: the capacity is not added before the unsigned subtraction.
MutStart(h) == ((h.write_idx - h.unsynced_count) % UintMod) % MaxRecords

start_idx(h) ==
    ((h.write_idx + MaxRecords - h.unsynced_count) % UintMod) % MaxRecords

\* The subtraction of start_idx wraps around: it is then an unrelated slot.
StartWraps == s_header.unsynced_count > s_header.write_idx + MaxRecords

\* The slot that step k of a scan visits.
Position(h, k) == (start_idx(h) + k) % MaxRecords

\* The slot holds a record that was never marked.
Unsynced(idx) == data[idx] # 0 /\ ~synced[idx]

BatchSet == {records[k] : k \in 1 .. Len(records)}

Init ==
    /\ pc = "off"
    /\ data = [k \in Slot |-> 0]
    /\ synced = [k \in Slot |-> FALSE]
    /\ s_header = FreshHeader /\ file = NoHeader
    /\ made = 0
    /\ records = <<>> /\ i = 0 /\ marked = 0
    /\ delivered = {} /\ stored = {}
    /\ crashes = 0 /\ failed = {}

\* data_storage_init: a file whose header cannot be read is created anew.
Boot ==
    /\ pc = "off"
    /\ pc' = "idle"
    /\ \/ /\ file = NoHeader \/ "read_error" \in Faults
          /\ s_header' = FreshHeader
          /\ data' = [k \in Slot |-> 0] /\ synced' = [k \in Slot |-> FALSE]
          /\ failed' = IF file = NoHeader THEN failed
                                         ELSE failed \union {"init"}
       \/ /\ file # NoHeader
          /\ s_header' = [file EXCEPT !.write_idx = @ % MaxRecords]
          /\ UNCHANGED <<data, synced, failed>>
    /\ file' = s_header'
    /\ UNCHANGED <<records, i, marked, made, delivered, stored, crashes>>

\* The header of the new file stays in the buffer: the file is left empty.
BootLost ==
    /\ pc = "off" /\ "lost_write" \in Faults
    /\ file = NoHeader \/ "read_error" \in Faults
    /\ pc' = "idle"
    /\ s_header' = FreshHeader /\ file' = NoHeader
    /\ data' = [k \in Slot |-> 0] /\ synced' = [k \in Slot |-> FALSE]
    /\ failed' = failed \union
           (IF file = NoHeader THEN {"lost_header"} ELSE {"lost_header", "init"})
    /\ UNCHANGED <<records, i, marked, made, delivered, stored, crashes>>

\* data_storage_append, first half: the record goes to slot write_idx.
AppendRecord ==
    /\ pc = "idle"
    /\ made < MaxAppends
    /\ s_header.unsynced_count < MaxRecords \/ "overrun" \in Faults
    /\ made' = made + 1
    /\ data' = [data EXCEPT ![s_header.write_idx] = made + 1]
    /\ synced' = [synced EXCEPT ![s_header.write_idx] = FALSE]
    /\ pc' = "append"
    /\ UNCHANGED <<s_header, file, records, i, marked, delivered, stored,
                   crashes, failed>>

\* The write of the record fails: nothing else is touched.
AppendRecordFails ==
    /\ pc = "idle" /\ made < MaxAppends /\ "write_error" \in Faults
    /\ made' = made + 1
    /\ UNCHANGED <<pc, ring, s_header, records, i, marked, delivered, stored,
                   crashes, failed>>

\* fwrite takes the record, and the fseek of write_header, which writes it
\* out, fails: the slot keeps what it held, and the append goes on.
AppendRecordLost ==
    /\ pc = "idle" /\ made < MaxAppends /\ "lost_write" \in Faults
    /\ s_header.unsynced_count < MaxRecords \/ "overrun" \in Faults
    /\ made' = made + 1
    /\ failed' = failed \union {"lost_record"}
    /\ pc' = "append"
    /\ UNCHANGED <<ring, s_header, records, i, marked, delivered, stored,
                   crashes>>

\* Mutant: write_idx is not reduced modulo the capacity.
MutNoWrap == [s_header EXCEPT !.write_idx = @ + 1, !.unsynced_count = @ + 1]

AppendedHeader ==
    [write_idx      |-> (s_header.write_idx + 1) % MaxRecords,
     total_written  |-> (s_header.total_written + 1) % UintMod,
     unsynced_count |-> (s_header.unsynced_count + 1) % UintMod]

\* data_storage_append, second half: RAM header, then the file's header.
AppendHeader ==
    /\ pc = "append"
    /\ s_header' = AppendedHeader
    /\ \/ file' = s_header' /\ stored' = stored \union {made}
       \/ "write_error" \in Faults /\ UNCHANGED <<file, stored>>
    /\ pc' = "idle"
    /\ UNCHANGED <<data, synced, made, records, i, marked, delivered, crashes,
                   failed>>

\* The fflush of write_header fails: append returns 0, the file's header is old.
AppendHeaderLost ==
    /\ pc = "append" /\ "lost_write" \in Faults
    /\ s_header' = AppendedHeader
    /\ stored' = stored \union {made}
    /\ failed' = failed \union {"lost_header"}
    /\ pc' = "idle"
    /\ UNCHANGED <<ring, made, records, i, marked, delivered, crashes>>

\* wifi_sync_upload_unsynced calls data_storage_read_unsynced.
ReadBegin ==
    /\ pc = "idle"
    /\ records' = <<>> /\ i' = 0
    /\ failed' = IF StartWraps THEN failed \union {"start_idx"} ELSE failed
    /\ pc' = "read"
    /\ UNCHANGED <<ring, s_header, marked, made, delivered, stored, crashes>>

\* Mutant: the bound of the caller's array is off by one.
MutReadMore == i < s_header.unsynced_count /\ Len(records) <= BatchSize

ReadMore == i < s_header.unsynced_count /\ Len(records) < BatchSize

ReadSlot ==
    /\ pc = "read" /\ ReadMore
    /\ LET idx == Position(s_header, i)
       IN \/ /\ records' = IF Unsynced(idx) THEN Append(records, data[idx])
                                            ELSE records
             /\ UNCHANGED failed
          \/ /\ "read_error" \in Faults /\ records' = records
             /\ failed' = failed \union {"read_unsynced"}
    /\ i' = i + 1
    /\ UNCHANGED <<pc, ring, s_header, marked, made, delivered, stored, crashes>>

ReadDone ==
    /\ pc = "read" /\ ~ReadMore
    /\ pc' = "upload"
    /\ UNCHANGED <<ring, s_header, records, i, marked, history>>

\* The server answers 200; mark_synced is called unless the batch is empty.
UploadOk ==
    /\ pc = "upload"
    /\ delivered' = delivered \union BatchSet
    /\ i' = 0 /\ marked' = 0
    /\ pc' = IF records = <<>> THEN "idle" ELSE "mark"
    /\ UNCHANGED <<ring, s_header, records, made, stored, crashes, failed>>

\* No connection, no answer or another status: the batch stays unsynced.
UploadFails ==
    /\ pc = "upload"
    /\ pc' = "idle"
    /\ UNCHANGED <<ring, s_header, records, i, marked, history>>

\* Mutant: one slot too many is marked.
MutMarkMore == i <= Len(records) /\ i < s_header.unsynced_count

MarkMore == i < Len(records) /\ i < s_header.unsynced_count

\* One turn of the loop of data_storage_mark_synced.
MarkSlot ==
    /\ pc = "mark" /\ MarkMore
    /\ LET idx == Position(s_header, i)
       IN \/ /\ Unsynced(idx)
             /\ synced' = [synced EXCEPT ![idx] = TRUE]
             /\ marked' = marked + 1
             /\ UNCHANGED failed
          \/ /\ ~Unsynced(idx)
             /\ UNCHANGED <<synced, marked, failed>>
          \/ /\ Faults \intersect {"read_error", "write_error"} # {}
             /\ UNCHANGED <<synced, marked>>
             /\ failed' = failed \union {"mark_synced"}
    /\ i' = i + 1
    /\ UNCHANGED <<pc, data, s_header, file, records, made, delivered, stored,
                   crashes>>

\* fwrite takes the flag, which is counted, and the next fseek loses it.
MarkSlotLost ==
    /\ pc = "mark" /\ MarkMore /\ "lost_write" \in Faults
    /\ Unsynced(Position(s_header, i))
    /\ marked' = marked + 1
    /\ failed' = failed \union {"lost_flag"}
    /\ i' = i + 1
    /\ UNCHANGED <<pc, ring, s_header, records, made, delivered, stored, crashes>>

\* Mutant: the batch is taken for the whole window.
MutRemainingNone == 0

Remaining == (s_header.unsynced_count - marked) % UintMod

\* The end of data_storage_mark_synced: the count and the header.
MarkHeader ==
    /\ pc = "mark" /\ ~MarkMore
    /\ s_header' = [s_header EXCEPT !.unsynced_count = Remaining]
    /\ \/ file' = IF marked > 0 THEN s_header' ELSE file
       \/ Faults \intersect {"write_error", "lost_write"} # {} /\ file' = file
    /\ pc' = "idle"
    /\ UNCHANGED <<data, synced, records, i, marked, history>>

\* The board resets: RAM is lost, the file keeps what was written.
Crash ==
    /\ pc # "off"
    /\ (IF pc = "mark" THEN "mark_reset" ELSE "reset") \in Faults
    /\ crashes < MaxCrashes
    /\ crashes' = crashes + 1
    /\ pc' = "off"
    /\ s_header' = FreshHeader
    /\ records' = <<>> /\ i' = 0 /\ marked' = 0
    /\ UNCHANGED <<ring, made, delivered, stored, failed>>

Store == AppendRecord \/ AppendRecordFails \/ AppendHeader
WriteLost == BootLost \/ AppendRecordLost \/ AppendHeaderLost \/ MarkSlotLost
Upload == \/ ReadBegin \/ ReadSlot \/ ReadDone
          \/ UploadOk \/ UploadFails \/ MarkSlot \/ MarkHeader

Next == Boot \/ Store \/ Upload \/ WriteLost \/ Crash

Spec == Init /\ [][Next]_vars

-----------------------------------------------------------------------------
\* The header the storage works from, or will read at the next boot.
Current == IF pc # "off" THEN s_header
           ELSE IF file = NoHeader THEN FreshHeader ELSE file

InWindow(idx) ==
    \E k \in Slot : k < Current.unsynced_count /\ Position(Current, k) = idx

\* The slots of acknowledged appends that still have to be uploaded.
Pending == {idx \in Slot : data[idx] \in stored /\ Unsynced(idx)}

\* mark_synced counts slots while read_unsynced counts unsynced records, yet
\* no slot is ever flagged synced before a 200 answered for its record: not by
\* overruns, resets at any point, failed writes or writes lost in a buffer,
\* only by a failed read in read_unsynced, which leaves a slot out of the batch
\* and not of the count.
SyncedWasDelivered ==
    "read_unsynced" \notin failed =>
        \A idx \in Slot : synced[idx] => data[idx] \in delivered

\* read_unsynced looks only at the unsynced_count slots before write_idx: no
\* acknowledged record it still owes the server lies outside them, unless a
\* failed write made mark_synced pass over a slot, an upload began when
\* unsynced_count exceeded write_idx + MaxRecords and start_idx wrapped around,
\* or a write that fwrite had taken was lost in a buffer: a lost flag is counted
\* and its slot passed over, a lost header takes its append back at a reset.
PendingInWindow ==
    failed \intersect ({"mark_synced", "start_idx"} \union Lost) = {} =>
        \A idx \in Pending : InWindow(idx)

\* The count is lowered by what was marked, never below what is left to
\* upload, whatever overruns, resets, failed reads and failed writes happen: it
\* cannot wrap around while records wait.  Only a write that was counted and
\* then lost in a buffer can leave the count short.
UnsyncedCountCovers ==
    failed \intersect Lost = {} => Cardinality(Pending) <= Current.unsynced_count

\* Until MaxRecords later ones have been measured, an acknowledged record is
\* delivered or still where the next upload looks for it: resets, appends that
\* report a failed write and overruns of the ring lose nothing younger than
\* its capacity, as long as no read fails, no flag fails to be written, no
\* write is lost in a buffer and no upload begins under an overrun that wraps
\* start_idx.
NoSilentLoss ==
    failed = {} =>
        \A r \in stored : \/ r \in delivered
                          \/ made - r >= MaxRecords
                          \/ \E idx \in Pending : data[idx] = r /\ InWindow(idx)

\* The window, read as the queue it stands for, and the batch in flight.
Queue == INSTANCE SyncQueue WITH
    queue     <- [k \in 1 .. Current.unsynced_count |->
                      data[Position(Current, k - 1)]],
    sent      <- IF pc \in {"upload", "mark"} THEN records ELSE <<>>,
    confirmed <- delivered

\* As long as the ring does not fill and no reset hits mark_synced, the ring,
\* its window and its two header copies are a FIFO queue.
ImplementsSyncQueue == Queue!Spec

\* The task loops forever, and the server answers 200 again and again.
Fairness ==
    /\ WF_vars(Boot) /\ WF_vars(AppendHeader)
    /\ WF_vars(ReadBegin) /\ WF_vars(ReadSlot) /\ WF_vars(ReadDone)
    /\ SF_vars(UploadOk)
    /\ WF_vars(MarkSlot) /\ WF_vars(MarkHeader)

FairSpec == Spec /\ Fairness

\* Every acknowledged record is eventually delivered.
EventuallyDelivered ==
    \A r \in Record : r \in stored ~> r \in delivered
=============================================================================
