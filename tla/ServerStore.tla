---------------------------- MODULE ServerStore ----------------------------
(***************************************************************************)
(* The server's per-client files, apps/server/main/data_store.c: one ring  *)
(* of records per client id behind a header, opened, changed and closed by *)
(* every call.  The calls come one at a time (they all run in the HTTP     *)
(* server's task); a reset of the board may fall between any two writes.   *)
(* stdio buffers what fwrite takes until the next fseek or fclose writes   *)
(* it out, and the code ignores what those return: a write that fails      *)
(* there is lost, and the call goes on and returns 0.                      *)
(***************************************************************************)
EXTENDS Integers, Sequences, FiniteSets

CONSTANTS
    Id,          \* client ids, the names of the files
    MaxRecords,  \* header.max_records
    MaxAppends,  \* bound: appends in a behaviour
    MaxCrashes,  \* bound: resets in a behaviour
    Faults       \* which of FaultKinds may happen

FaultKinds == {"reset",        \* the board resets outside a rename
               "rename_reset", \* the board resets inside a rename
               "io_error"}     \* an fopen, fread, fwrite or unlink fails, or
                               \* the flush in an fseek or fclose, unnoticed

ASSUME StoreAssumption ==
    /\ MaxRecords \in Nat \ {0} /\ MaxAppends \in Nat /\ MaxCrashes \in Nat
    /\ Faults \subseteq FaultKinds

Slot == 0 .. MaxRecords - 1
Record == 1 .. MaxAppends
Header == [write_idx : Slot, count : 0 .. MaxRecords]
NewHeader == [write_idx |-> 0, count |-> 0]
NoRecords == [k \in Slot |-> 0]

VARIABLES
    pc,       \* where the HTTP task is in data_store.c
    cur,      \* the client id of the call under way
    dest,     \* data_store_rename_client: the new id
    next,     \* data_store_rename_client: the record to copy next
    state,    \* each id's file: absent, blank (no valid header) or valid
    header,   \* each file's header
    slot,     \* each file's records; 0 where the file has none
    made,     \* records appended so far
    log,      \* each id's acknowledged records, oldest first
    damaged,  \* ids whose file a failed fopen or fread truncated or cut off, a
              \* reset or a failed unlink left half copied, lacks what a flush
              \* lost unnoticed, or is a copy of such a file
    crashes,  \* resets so far
    faulted   \* something has failed, or the board has been reset

file == <<state, header, slot>>
call == <<cur, dest, next>>
vars == <<pc, call, file, made, log, damaged, crashes, faulted>>

TypeOK ==
    /\ pc \in {"idle", "init", "record", "header",
               "new", "copy", "unlink"}
    /\ cur \in Id /\ dest \in Id /\ next \in 0 .. MaxRecords
    /\ state \in [Id -> {"absent", "blank", "valid"}]
    /\ header \in [Id -> Header]
    /\ slot \in [Id -> [Slot -> Record \union {0}]]
    /\ made \in Nat
    /\ log \in [Id -> Seq(Record)]
    /\ damaged \subseteq Id
    /\ crashes \in 0 .. MaxCrashes /\ faulted \in BOOLEAN

Init ==
    /\ pc = "idle"
    /\ cur \in Id /\ dest = cur /\ next = 0
    /\ state = [id \in Id |-> "absent"]
    /\ header = [id \in Id |-> NewHeader]
    /\ slot = [id \in Id |-> NoRecords]
    /\ made = 0
    /\ log = [id \in Id |-> <<>>]
    /\ damaged = {} /\ crashes = 0 /\ faulted = FALSE

\* The file of an id is emptied, by fopen "w+", or removed.
Reset(id, st) ==
    /\ state' = [state EXCEPT ![id] = st]
    /\ header' = [header EXCEPT ![id] = NewHeader]
    /\ slot' = [slot EXCEPT ![id] = NoRecords]

-----------------------------------------------------------------------------
\* data_store_read_range: the slot of the record at an offset from the
\* oldest, and the records in that order.

\* Mutant: slot 0 is the oldest even when the ring is full.
MutStartIdx(h, offset) == offset

start_idx(h, offset) ==
    IF h.count < MaxRecords THEN offset
                            ELSE (h.write_idx + offset) % MaxRecords

idx(h, offset, i) == (start_idx(h, offset) + i) % MaxRecords

\* The step of the loop that fills out[r]: r of the reads before it worked.
Filler(reads, r) == CHOOSE i \in reads : Cardinality({j \in reads : j < i}) = r

\* An fread fails where the file holds no record; the loop goes on.
ReadOut(h, s, offset, limit) ==
    LET n == IF limit > h.count - offset THEN h.count - offset ELSE limit
        reads == {i \in 0 .. n - 1 : s[idx(h, offset, i)] # 0}
    IN [r \in 1 .. Cardinality(reads) |-> s[idx(h, offset, Filler(reads, r - 1))]]

ReadRange(id, offset, limit) ==
    IF state[id] # "valid" \/ offset >= header[id].count THEN <<>>
    ELSE ReadOut(header[id], slot[id], offset, limit)

Contents(id) == ReadRange(id, 0, MaxRecords)

\* A call of the file system fails.
Fails == "io_error" \in Faults /\ faulted' = TRUE

Works == UNCHANGED faulted

-----------------------------------------------------------------------------
\* data_store_append: open, a fresh header when there is no valid one, the
\* record, the header.

\* fopen "r+", and "w+", which truncates, when that fails.
AppendOpen(id) ==
    /\ pc = "idle" /\ made < MaxAppends
    /\ made' = made + 1
    /\ cur' = id
    /\ \/ state[id] = "absent" /\ Reset(id, "blank") /\ Works /\ UNCHANGED damaged
       \/ state[id] # "absent" /\ Works /\ UNCHANGED <<file, damaged>>
       \/ /\ state[id] # "absent" /\ Fails
          /\ Reset(id, "blank")
          /\ damaged' = damaged \union {id}
    /\ pc' = "init"
    /\ UNCHANGED <<dest, next, log, crashes>>

\* A header that is not there, or that fails to be read, is made anew over
\* whatever records the file holds.
AppendInit ==
    /\ pc = "init"
    /\ state' = [state EXCEPT ![cur] = "valid"]
    /\ \/ Works /\ UNCHANGED <<header, damaged>>
       \/ /\ Fails
          /\ header' = [header EXCEPT ![cur] = NewHeader]
          /\ damaged' = damaged \union {cur}
    /\ pc' = "record"
    /\ UNCHANGED <<call, slot, made, log, crashes>>

\* The header of a new file is lost in the fseek to the record: until the call
\* writes the next header the file has none.
AppendInitLost ==
    /\ pc = "init" /\ state[cur] # "valid" /\ Fails
    /\ damaged' = damaged \union {cur}
    /\ pc' = "record"
    /\ UNCHANGED <<call, file, made, log, crashes>>

\* The records in a file, and where the record goes.  A seek past the end of
\* the file (possible only if it is a torn copy or lacks a lost record) leaves
\* the stream at the end or leaves a gap, depending on the file system.
FileLength(id) ==
    CHOOSE n \in 0 .. MaxRecords :
        /\ \A k \in Slot : k < n => slot[id][k] # 0
        /\ n < MaxRecords => slot[id][n] = 0

WriteSlots(id) ==
    IF header[id].write_idx <= FileLength(id) THEN {header[id].write_idx}
    ELSE {header[id].write_idx, FileLength(id)}

AppendRecord ==
    /\ pc = "record"
    /\ \E k \in WriteSlots(cur) : slot' = [slot EXCEPT ![cur][k] = made]
    /\ pc' = "header"
    /\ UNCHANGED <<call, state, header, made, log, damaged, crashes, faulted>>

\* The record is lost in the fseek to the header, which counts it all the same.
AppendRecordLost ==
    /\ pc = "record" /\ Fails
    /\ damaged' = damaged \union {cur}
    /\ pc' = "header"
    /\ UNCHANGED <<call, file, made, log, crashes>>

\* Mutant: write_idx does not wrap.
MutNoWrap(h) == [h EXCEPT !.write_idx = @ + 1]

NextHeader(h) ==
    [write_idx |-> (h.write_idx + 1) % MaxRecords,
     count     |-> IF h.count < MaxRecords THEN h.count + 1 ELSE h.count]

AppendHeader ==
    /\ pc = "header"
    /\ state' = [state EXCEPT ![cur] = "valid"]
    /\ header' = [header EXCEPT ![cur] = NextHeader(@)]
    /\ log' = [log EXCEPT ![cur] = Append(@, made)]
    /\ pc' = "idle"
    /\ UNCHANGED <<call, slot, made, damaged, crashes, faulted>>

\* The header is lost in fclose: the record is acknowledged and not counted.
AppendHeaderLost ==
    /\ pc = "header" /\ Fails
    /\ damaged' = damaged \union {cur}
    /\ log' = [log EXCEPT ![cur] = Append(@, made)]
    /\ pc' = "idle"
    /\ UNCHANGED <<call, file, made, crashes>>

\* A write fails: the call returns -1 with the file as it is.
AppendFails ==
    /\ pc \in {"init", "record", "header"} /\ Fails
    /\ pc' = "idle"
    /\ UNCHANGED <<call, file, made, log, damaged, crashes>>

-----------------------------------------------------------------------------
\* data_store_rename_client: the new file is created over whatever had that
\* name, filled header first, and the old one is removed last.

RenameOpen(old, new) ==
    /\ pc = "idle" /\ old # new
    /\ state[old] = "valid"
    /\ cur' = old /\ dest' = new /\ next' = 0
    /\ Reset(new, "blank")
    /\ damaged' = damaged \ {new}
    /\ log' = [log EXCEPT ![new] = <<>>]
    /\ pc' = "new"
    /\ UNCHANGED <<made, crashes, faulted>>

RenameHeader ==
    /\ pc = "new"
    /\ state' = [state EXCEPT ![dest] = "valid"]
    /\ header' = [header EXCEPT ![dest] = header[cur]]
    /\ damaged' = IF cur \in damaged THEN damaged \union {dest} ELSE damaged
    /\ pc' = "copy"
    /\ UNCHANGED <<call, slot, made, log, crashes, faulted>>

\* The loop ends at the end of the old file.
\* Mutant: the last slot is not copied.
MutCopyMore == next < MaxRecords - 1 /\ slot[cur][next] # 0

CopyMore == next < MaxRecords /\ slot[cur][next] # 0

RenameCopy ==
    /\ pc = "copy" /\ CopyMore
    /\ slot' = [slot EXCEPT ![dest][next] = slot[cur][next]]
    /\ next' = next + 1
    /\ UNCHANGED <<pc, cur, dest, state, header, made, log, damaged, crashes, faulted>>

RenameCopied ==
    /\ pc = "copy" /\ ~CopyMore /\ Works
    /\ pc' = "unlink"
    /\ UNCHANGED <<call, file, made, log, damaged, crashes>>

\* The loop ends early at an fread that fails, or fclose loses the end of the
\* copy, or all of it if it fits the buffer: the rename goes on.
RenameCutOff ==
    /\ pc = "copy" /\ Fails
    /\ \/ UNCHANGED file
       \/ Reset(dest, "blank")
    /\ damaged' = damaged \union {dest}
    /\ pc' = "unlink"
    /\ UNCHANGED <<call, made, log, crashes>>

\* A write to the new file fails: it is removed, if unlink works.
RenameFails ==
    /\ pc \in {"new", "copy"} /\ Fails
    /\ \/ Reset(dest, "absent") /\ damaged' = damaged \ {dest}
       \/ UNCHANGED file /\ damaged' = damaged \union {dest}
    /\ pc' = "idle"
    /\ UNCHANGED <<call, made, log, crashes>>

RenameUnlink ==
    /\ pc = "unlink"
    /\ \/ Reset(cur, "absent") /\ Works /\ damaged' = damaged \ {cur}
       \/ Fails /\ UNCHANGED <<file, damaged>>
    /\ log' = [log EXCEPT ![dest] = log[cur], ![cur] = <<>>]
    /\ pc' = "idle"
    /\ UNCHANGED <<call, made, crashes>>

\* data_store_delete_client.
Delete(id) ==
    /\ pc = "idle" /\ state[id] # "absent"
    /\ Reset(id, "absent")
    /\ damaged' = damaged \ {id}
    /\ log' = [log EXCEPT ![id] = <<>>]
    /\ UNCHANGED <<pc, call, made, crashes, faulted>>

\* The board resets: the files stay as they are.
Crash ==
    /\ pc # "idle" /\ crashes < MaxCrashes
    /\ (IF pc \in {"new", "copy", "unlink"} THEN "rename_reset" ELSE "reset")
           \in Faults
    /\ crashes' = crashes + 1 /\ faulted' = TRUE
    /\ damaged' = IF pc \in {"new", "copy"} THEN damaged \union {dest} ELSE damaged
    /\ pc' = "idle"
    /\ UNCHANGED <<call, file, made, log>>

AppendCall == \/ \E id \in Id : AppendOpen(id)
              \/ AppendInit \/ AppendRecord \/ AppendHeader \/ AppendFails
              \/ AppendInitLost \/ AppendRecordLost \/ AppendHeaderLost

RenameCall == \/ \E old, new \in Id : RenameOpen(old, new)
              \/ RenameHeader \/ RenameCopy \/ RenameCopied \/ RenameCutOff
              \/ RenameFails \/ RenameUnlink

Next == AppendCall \/ RenameCall \/ (\E id \in Id : Delete(id)) \/ Crash

Spec == Init /\ [][Next]_vars

-----------------------------------------------------------------------------
\* Whatever write a reset interrupts and whatever call reports an error, the last
\* MaxRecords - 1 acknowledged records of a client are the last ones a full read
\* returns, in order, under whatever id its file was renamed to.  Only what the
\* code does not notice spoils a file: an fopen or fread taken for a missing file
\* or the end of one, and a flush that fails in fseek or fclose.
RecentKept ==
    \A id \in Id \ damaged :
        LET n == IF Len(log[id]) < MaxRecords THEN Len(log[id])
                                              ELSE MaxRecords - 1
            got == Contents(id)
        IN /\ Len(got) >= n
           /\ SubSeq(got, Len(got) - n + 1, Len(got))
                = SubSeq(log[id], Len(log[id]) - n + 1, Len(log[id]))

InOrder(s) == \A j, k \in DOMAIN s : j < k => s[j] < s[k]

\* An append that a reset or a reported error interrupts disturbs the order of a
\* full read at its first place only.
TailInOrder ==
    \A id \in Id \ damaged : Contents(id) # <<>> => InOrder(Tail(Contents(id)))

\* The log a reader finds in a file, between calls and during them: an append
\* to a full ring gives up the oldest record first, and the file a rename
\* fills does not count until the old one goes.
LogOf(id) ==
    IF pc = "header" /\ id = cur /\ header[id].count = MaxRecords
      THEN Tail(Contents(id))
    ELSE IF pc \in {"new", "copy", "unlink"} /\ id = dest THEN <<>>
    ELSE Contents(id)

LogsNow == [id \in Id |-> LogOf(id)]

Logs == INSTANCE BoundedLog WITH logs <- LogsNow

\* Until something fails or the board is reset, the files are bounded logs.
ImplementsBoundedLog == Logs!Init /\ [][faulted' \/ Logs!Next]_LogsNow
=============================================================================
